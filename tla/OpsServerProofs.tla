-------------------------- MODULE OpsServerProofs ---------------------------
(***************************************************************************)
(* Proofs about the two stateful parts of ops-ui/server.js.                *)
(*                                                                         *)
(* Invoking, for any number of calls, with and without a timeout, and      *)
(* whether or not kubectl dies of signals: the in-flight key is held       *)
(* exactly while a call is handled, and no kubectl outlives its call.      *)
(*                                                                         *)
(* The history, for any number of requests and records, with loads,        *)
(* appends and rewritings that fail and restarts at any moment, if no      *)
(* request arrives during the first load: ids stay unique until a load     *)
(* fails; array and file agree unless a load or a rewriting of this run    *)
(* has failed; and records go only when they are deleted or too old, until *)
(* a load fails or a rewriting is cut off in the middle.                   *)
(***************************************************************************)
EXTENDS OpsInvoke, OpsHistory, FiniteSetTheorems, TLAPS

Places == {"new", "resolving", "pod", "spawning",
           "starting", "forward", "stopping", "answered"}

(* Where a call is while its kubectl may be alive                          *)
WithChild == {"starting", "forward", "stopping"}

InvokeTypes ==
    /\ inFlight \in Calls \cup {Nobody}
    /\ call \in [Calls -> Places]
    /\ DOMAIN child = Calls
    /\ jobs \subseteq [call : Calls, via : Attempts]

AliveInForward == \A c \in Calls : child[c] = "alive" => call[c] \in WithChild

InvokeInv == InvokeTypes /\ KeyFollowsCall /\ AliveInForward

------------------------------------------------------------------------------
LEMMA InvokeInit == Init => InvokeInv
<1> SUFFICES ASSUME Init PROVE InvokeInv
  OBVIOUS
<1>1. InvokeTypes
  BY DEF Init, InvokeTypes, Places
<1>2. KeyFollowsCall
  BY InvokeAssumption DEF Init, KeyFollowsCall, Open
<1>3. AliveInForward
  BY DEF Init, AliveInForward
<1> QED
  BY <1>1, <1>2, <1>3 DEF InvokeInv

(* A call that is being handled goes to another place of handleInvoke and  *)
(* keeps the key; its kubectl, if it is alive now, is where it may be.     *)
LEMMA MovesOn ==
    ASSUME InvokeInv, NEW c \in Calls, NEW place \in Places, GoTo(c, place),
           Open(c), place \notin {"new", "answered"},
           UNCHANGED inFlight, DOMAIN child' = Calls,
           jobs' \subseteq [call : Calls, via : Attempts],
           \A d \in Calls : d # c => child'[d] = child[d],
           child'[c] = "alive" => place \in WithChild
    PROVE  InvokeInv'
<1>1. /\ call' \in [Calls -> Places]
      /\ call'[c] = place
      /\ \A d \in Calls : d # c => call'[d] = call[d]
  BY DEF InvokeInv, InvokeTypes, GoTo
<1>2. InvokeTypes'
  BY <1>1 DEF InvokeInv, InvokeTypes
<1>3. KeyFollowsCall'
  BY <1>1 DEF InvokeInv, KeyFollowsCall, Open
<1>4. AliveInForward'
  BY <1>1 DEF InvokeInv, AliveInForward
<1> QED
  BY <1>2, <1>3, <1>4 DEF InvokeInv

(* The answer gives the key back: it was this call's, as the call was open.*)
(* No kubectl is alive where a call is answered.                           *)
LEMMA AnswerKeeps ==
    ASSUME InvokeInv, NEW c \in Calls, NEW code, Answer(c, code), Open(c),
           child[c] # "alive", UNCHANGED child, jobs' \subseteq jobs
    PROVE  InvokeInv'
<1>1. /\ call' \in [Calls -> Places]
      /\ call'[c] = "answered"
      /\ \A d \in Calls : d # c => call'[d] = call[d]
  BY DEF InvokeInv, InvokeTypes, Answer, GoTo, Places
<1>2. inFlight = c /\ inFlight' = Nobody
  BY DEF InvokeInv, KeyFollowsCall, Answer, KeyAfter
<1>3. InvokeTypes'
  BY <1>1, <1>2 DEF InvokeInv, InvokeTypes
<1>4. KeyFollowsCall'
  BY <1>1, <1>2, InvokeAssumption DEF InvokeInv, KeyFollowsCall, Open
<1>5. AliveInForward'
  BY <1>1 DEF InvokeInv, AliveInForward
<1> QED
  BY <1>3, <1>4, <1>5 DEF InvokeInv

(* kubectl starts with the attempt, and it ends by itself or by SIGTERM.   *)
LEMMA ChildKeeps ==
    ASSUME InvokeInv, NEW c \in Calls, NEW state, state # "alive",
           child' = [child EXCEPT ![c] = state], UNCHANGED <<inFlight, call, jobs>>
    PROVE  InvokeInv'
<1>1. \A d \in Calls : child'[d] = "alive" => child[d] = "alive"
  BY DEF InvokeInv, InvokeTypes
<1>2. InvokeTypes'
  BY DEF InvokeInv, InvokeTypes
<1>3. KeyFollowsCall'
  BY DEF InvokeInv, KeyFollowsCall, Open
<1>4. AliveInForward'
  BY <1>1 DEF InvokeInv, AliveInForward
<1> QED
  BY <1>2, <1>3, <1>4 DEF InvokeInv

(* The first call takes the key; while it is held others are dropped.      *)
LEMMA DoorKeeps ==
    ASSUME InvokeInv, NEW c \in Calls, TakeKey(c) \/ Drop(c)
    PROVE  InvokeInv'
<1>1. ~Open(c) /\ child[c] # "alive"
  BY DEF InvokeInv, AliveInForward, WithChild, TakeKey, Drop, Open
<1>2. CASE TakeKey(c)
  <2>1. /\ call' \in [Calls -> Places]
        /\ call'[c] = "resolving"
        /\ \A d \in Calls : d # c => call'[d] = call[d]
    BY <1>2 DEF InvokeInv, InvokeTypes, TakeKey, GoTo, Places
  <2>2. \A d \in Calls : ~Open(d)
    BY <1>2, InvokeAssumption DEF InvokeInv, KeyFollowsCall, TakeKey
  <2>3. inFlight' = c /\ child' = child /\ jobs' = jobs
    BY <1>2 DEF TakeKey, gateway
  <2>4. InvokeTypes'
    BY <2>1, <2>3 DEF InvokeInv, InvokeTypes
  <2>5. KeyFollowsCall'
    BY <2>1, <2>2, <2>3 DEF KeyFollowsCall, Open
  <2>6. AliveInForward'
    BY <1>1, <2>1, <2>3 DEF InvokeInv, AliveInForward
  <2> QED
    BY <2>4, <2>5, <2>6 DEF InvokeInv
<1>3. CASE Drop(c)
  <2>1. /\ call' \in [Calls -> Places]
        /\ call'[c] = "answered"
        /\ \A d \in Calls : d # c => call'[d] = call[d]
    BY <1>3 DEF InvokeInv, InvokeTypes, Drop, GoTo, Places
  <2>2. inFlight' = inFlight /\ child' = child /\ jobs' = jobs
    BY <1>3 DEF Drop, gateway
  <2>3. InvokeTypes'
    BY <2>1, <2>2 DEF InvokeInv, InvokeTypes
  <2>4. KeyFollowsCall'
    BY <1>1, <2>1, <2>2 DEF InvokeInv, KeyFollowsCall, Open
  <2>5. AliveInForward'
    BY <1>1, <2>1, <2>2 DEF InvokeInv, AliveInForward
  <2> QED
    BY <2>3, <2>4, <2>5 DEF InvokeInv
<1> QED
  BY <1>2, <1>3

(* The way through handleInvoke while the key is held                      *)
LEMMA HandlingKeeps ==
    ASSUME InvokeInv, NEW c \in Calls,
           \/ CallPod(c) \/ PodUnreachable(c) \/ AbortPod(c) \/ Spawn(c)
           \/ CallForward(c) \/ StartFails(c) \/ AbortForward(c)
    PROVE  InvokeInv'
<1>1. Open(c)
  BY DEF CallPod, PodUnreachable, AbortPod, Spawn, CallForward, StartFails, AbortForward, Open
<1>2. jobs \subseteq [call : Calls, via : Attempts] /\ DOMAIN child = Calls
  BY DEF InvokeInv, InvokeTypes
<1>3. \A via \in Attempts : Job(c, via) \in [call : Calls, via : Attempts]
  BY DEF Job
<1>4. child[c] = "alive" => call[c] \in WithChild
  BY DEF InvokeInv, AliveInForward
<1>5. CASE CallPod(c)
  <2>1. child[c] # "alive" /\ "pod" \in Places /\ "pod" \in Attempts
    BY <1>4, <1>5 DEF CallPod, WithChild, Places, Attempts
  <2> QED
    BY <1>1, <1>2, <1>3, <1>5, <2>1, MovesOn DEF CallPod
<1>6. CASE PodUnreachable(c) \/ AbortPod(c)
  <2>1. child[c] # "alive" /\ "spawning" \in Places
    BY <1>4, <1>6 DEF PodUnreachable, AbortPod, WithChild, Places
  <2> QED
    BY <1>1, <1>2, <1>6, <2>1, MovesOn DEF PodUnreachable, AbortPod, gateway
<1>7. CASE Spawn(c)
  <2>1. "starting" \in Places /\ "starting" \in WithChild
    BY DEF Places, WithChild
  <2>2. DOMAIN child' = Calls /\ \A d \in Calls : d # c => child'[d] = child[d]
    BY <1>2, <1>7 DEF Spawn
  <2> QED
    BY <1>1, <1>2, <1>7, <2>1, <2>2, MovesOn DEF Spawn, gateway
<1>8. CASE CallForward(c)
  <2>1. "forward" \in Places /\ "forward" \in WithChild /\ "forward" \in Attempts
    BY DEF Places, WithChild, Attempts
  <2> QED
    BY <1>1, <1>2, <1>3, <1>8, <2>1, MovesOn DEF CallForward
<1>9. CASE StartFails(c) \/ AbortForward(c)
  <2>1. "stopping" \in Places /\ "stopping" \in WithChild
    BY DEF Places, WithChild
  <2> QED
    BY <1>1, <1>2, <1>9, <2>1, MovesOn DEF StartFails, AbortForward, Settle, gateway
<1> QED
  BY <1>5, <1>6, <1>7, <1>8, <1>9

(* The answer of the gateway, when somebody listens for it                 *)
LEMMA GeneratedKeeps ==
    ASSUME InvokeInv, NEW c \in Calls, NEW via \in Attempts, Generated(Job(c, via))
    PROVE  InvokeInv'
<1> DEFINE j == Job(c, via)
<1>1. j.call = c /\ j.via = via
  BY DEF Job
<1>2. jobs' \subseteq jobs /\ child' = child
  BY DEF Generated
<1>3. jobs' \subseteq [call : Calls, via : Attempts] /\ DOMAIN child' = Calls
  BY <1>2 DEF InvokeInv, InvokeTypes
<1>4. CASE ~Listening(j)
  <2>1. UNCHANGED <<inFlight, call>>
    BY <1>4 DEF Generated
  <2> QED
    BY <1>2, <1>3, <2>1 DEF InvokeInv, InvokeTypes, KeyFollowsCall, Open, AliveInForward
<1>5. CASE Listening(j) /\ via = "pod"
  <2>1. call[c] = "pod"
    BY <1>1, <1>5 DEF Listening
  <2>2. Open(c) /\ child[c] # "alive"
    BY <2>1 DEF InvokeInv, AliveInForward, WithChild, Open
  <2>3. Answer(c, 200)
    BY <1>1, <1>5 DEF Generated
  <2> QED
    BY <1>2, <2>2, <2>3, AnswerKeeps
<1>6. CASE Listening(j) /\ via # "pod"
  <2>1. call[c] = "forward"
    BY <1>1, <1>6 DEF Listening, Attempts
  <2>2. Open(c) /\ "stopping" \in Places /\ "stopping" \in WithChild
    BY <2>1 DEF Open, Places, WithChild
  <2>3. GoTo(c, "stopping") /\ UNCHANGED inFlight
    BY <1>1, <1>6 DEF Generated, Settle
  <2> QED
    BY <1>2, <1>3, <2>2, <2>3, MovesOn
<1> QED
  BY <1>4, <1>5, <1>6

LEMMA InvokeNext == InvokeInv /\ [Next]_vars => InvokeInv'
<1> SUFFICES ASSUME InvokeInv, [Next]_vars PROVE InvokeInv'
  OBVIOUS
<1>1. ASSUME NEW c \in Calls, TakeKey(c) \/ Drop(c) PROVE InvokeInv'
  BY <1>1, DoorKeeps
<1>2. ASSUME NEW c \in Calls, ResolveFails(c) PROVE InvokeInv'
  <2>1. Open(c) /\ child[c] # "alive"
    BY <1>2 DEF ResolveFails, Open, InvokeInv, AliveInForward, WithChild
  <2>2. UNCHANGED <<child, jobs>>
    BY <1>2 DEF ResolveFails, gateway
  <2>3. PICK code \in {404, 500} : Answer(c, code)
    BY <1>2 DEF ResolveFails
  <2> QED
    BY <2>1, <2>2, <2>3, AnswerKeeps
<1>3. ASSUME NEW c \in Calls,
             \/ CallPod(c) \/ PodUnreachable(c) \/ AbortPod(c) \/ Spawn(c)
             \/ CallForward(c) \/ StartFails(c) \/ AbortForward(c)
      PROVE  InvokeInv'
  BY <1>3, HandlingKeeps
<1>4. ASSUME NEW c \in Calls, Terminate(c) \/ ChildExits(c) \/ ChildKilled(c) PROVE InvokeInv'
  <2>1. UNCHANGED <<inFlight, call, jobs>>
    BY <1>4 DEF Terminate, ChildExits, ChildKilled, gateway
  <2>2. PICK state \in {"exited", "terminated", "killed"} : child' = [child EXCEPT ![c] = state]
    BY <1>4 DEF Terminate, ChildExits, ChildKilled
  <2> QED
    BY <2>1, <2>2, ChildKeeps
<1>5. ASSUME NEW c \in Calls, Stopped(c) PROVE InvokeInv'
  <2>1. Open(c) /\ child[c] # "alive" /\ UNCHANGED <<child, jobs>>
    BY <1>5 DEF Stopped, Gone, Open, gateway
  <2>2. Answer(c, outcome[c])
    BY <1>5 DEF Stopped
  <2> QED
    BY <2>1, <2>2, AnswerKeeps
<1>6. ASSUME NEW c \in Calls, NEW via \in Attempts, Generated(Job(c, via)) PROVE InvokeInv'
  BY <1>6, GeneratedKeeps
<1>7. ASSUME UNCHANGED <<inFlight, call, child, jobs>> PROVE InvokeInv'
  BY <1>7 DEF InvokeInv, InvokeTypes, KeyFollowsCall, Open, AliveInForward
<1>8. ASSUME NEW c \in Calls, NEW via \in Attempts, Block(Job(c, via)) \/ Lock(Job(c, via))
      PROVE  InvokeInv'
  BY <1>7, <1>8 DEF Block, Lock
<1>9. ASSUME UNCHANGED vars PROVE InvokeInv'
  BY <1>7, <1>9 DEF vars, gateway
<1> QED
  BY <1>1, <1>2, <1>3, <1>4, <1>5, <1>6, <1>8, <1>9 DEF Next, Proceed, Work

(* Whichever of its many returns handleInvoke takes, the key follows the   *)
(* call: it is held exactly while the call is handled.                     *)
THEOREM KeyFollows == Spec => []KeyFollowsCall
<1>1. InvokeInv => KeyFollowsCall
  BY DEF InvokeInv
<1> QED
  BY <1>1, InvokeInit, InvokeNext, PTL DEF Spec

(* No kubectl port-forward is alive once its call has been answered.       *)
THEOREM NoOrphans == Spec => []NoOrphanedChild
<1>1. InvokeInv => NoOrphanedChild
  BY DEF InvokeInv, AliveInForward, WithChild, NoOrphanedChild, Open
<1> QED
  BY <1>1, InvokeInit, InvokeNext, PTL DEF Spec

------------------------------------------------------------------------------
(* The history. Where a request may be, and what a record is               *)

Record == [id : Nat, by : Requests \cup {"before"}]

RequestPlaces ==
    {"new", "reading", "parsing", "ready", "chained", "ok", "halfway", "failed"}

RequestType ==
    [at : RequestPlaces, kind : {"get", "post", "delete", "clear"}, ids : SUBSET Nat, rec : Record]

Warming(p) == request[p].at \in {"reading", "parsing"}

Posting(p) == request[p].kind = "post"

(* The head of the chain has appended its record.                          *)
HeadPosts == job # "idle" /\ Posting(Head(chain))

Serving == loaded /\ ~Loading

HistoryTypes ==
    /\ file \in Seq(Record) /\ entries \in Seq(Record)
    /\ chain \in Seq(Requests)
    /\ nextSeq \in Nat \ {0}
    /\ loaded \in BOOLEAN /\ poisoned \in BOOLEAN
    /\ job \in {"idle", "appended", "compacting", "rewriting"}
    /\ request \in [Requests -> RequestType]
    /\ mishaps \subseteq {"load", "cut"} /\ astray \in BOOLEAN

Lined ==
    /\ \A i \in DOMAIN chain : /\ request[chain[i]].at = "chained"
                               /\ request[chain[i]].kind # "get"
    /\ \A i, j \in DOMAIN chain : chain[i] = chain[j] => i = j
    /\ job # "idle" => chain # <<>>
    /\ job = "appended" => Posting(Head(chain))
    /\ poisoned => chain = <<>>

Starting ==
    ~Serving =>
        /\ entries = <<>> /\ nextSeq = 1 /\ chain = <<>> /\ ~poisoned
        /\ \A p \in Requests : request[p].at \notin {"ready", "chained"}
        /\ \A p, q \in Requests : Warming(p) /\ Warming(q) => p = q
        /\ ~loaded => ~Loading
        /\ \A p \in Requests : request[p].at = "parsing" => seen = file

(* The array and the file are apart only after a failed load, or because   *)
(* the chain of writes is at an end.                                       *)
Apart == astray /\ "load" \notin mishaps => poisoned

FileFollows ==
    /\ Len(entries) <= MaxEntries
    /\ job \in {"compacting", "rewriting"} => payload = entries
    /\ Serving /\ ~astray =>
          /\ job = "idle" => Trimmed(file) = entries
          /\ job = "appended" => Trimmed(file) = Trimmed(Append(entries, Active.rec))

Present == RangeOf(file) \cup RangeOf(entries)

(* Posts whose record is not in the file yet                               *)
Coming(i) == Posting(chain[i]) /\ (i # 1 \/ job = "idle")

Ordered ==
    /\ IdsAscend(entries) /\ IdsAscend(file)
    /\ \A e \in Present : e.id > 0
    /\ Serving => \A e \in Present : e.id < nextSeq
    /\ \A i \in DOMAIN chain : Posting(chain[i]) =>
          request[chain[i]].rec.id < nextSeq /\ request[chain[i]].rec.id > 0
    /\ \A i \in DOMAIN chain : Coming(i) =>
          \A e \in Present : e.id < request[chain[i]].rec.id
    /\ \A i, j \in DOMAIN chain :
          i < j /\ Posting(chain[i]) /\ Posting(chain[j]) =>
              request[chain[i]].rec.id < request[chain[j]].rec.id

(* Where the record of the head of the chain is, and which ones are older  *)
HeadThere ==
    HeadPosts => /\ job # "rewriting" => Active.rec \in RangeOf(file)
                 /\ job # "appended" => Active.rec \in RangeOf(entries)
                 /\ job = "appended" =>
                       \A o \in RangeOf(entries) : o.id < Active.rec.id

Deleting(p) ==
    request[p].kind = "delete" /\ request[p].at \in {"reading", "parsing", "ready", "chained"}

Ticked ==
    \A p \in Requests : Deleting(p) => \A id \in request[p].ids :
        /\ \A e \in Present : e.id = id => e \in deleted
        /\ \A i \in DOMAIN chain :
              Posting(chain[i]) /\ request[chain[i]].rec.id = id =>
                  request[chain[i]].rec \in deleted
        /\ Serving => id < nextSeq
        /\ ~Serving => \E e \in RangeOf(file) : e.id = id

Written == Stored \cup (IF HeadPosts THEN {Active.rec} ELSE {})

Base == IF Serving THEN RangeOf(entries) ELSE RangeOf(file)

Accounted(S, e) == e \in deleted \/ Cardinality(Younger(S, e)) >= MaxEntries

NoneMissing ==
    /\ IsFiniteSet(Written)
    /\ Present \subseteq Written
    /\ \A e \in Stored : e \in Base \/ Accounted(Written, e)

HistoryInv ==
    /\ HistoryTypes /\ Lined /\ Starting /\ FileFollows /\ Apart
    /\ "load" \notin mishaps => Ordered /\ HeadThere /\ Ticked
    /\ mishaps = {} => NoneMissing
    /\ OnlyChosenRecordsGo

------------------------------------------------------------------------------
(* Sequences of records                                                    *)

LEMMA RangeIn ==
    ASSUME NEW T, NEW s \in Seq(T)
    PROVE  /\ RangeOf(s) \subseteq T
           /\ \A e \in RangeOf(s) : \E i \in 1 .. Len(s) : s[i] = e
           /\ \A i \in 1 .. Len(s) : s[i] \in RangeOf(s)
  BY DEF RangeOf

LEMMA RangeAppend ==
    ASSUME NEW T, NEW s \in Seq(T), NEW e \in T
    PROVE  /\ RangeOf(Append(s, e)) = RangeOf(s) \cup {e}
           /\ Append(s, e) \in Seq(T) /\ Len(Append(s, e)) = Len(s) + 1
<1>1. PICK t : t = Append(s, e)
  OBVIOUS
<1>2. /\ t \in Seq(T) /\ Len(t) = Len(s) + 1 /\ t[Len(s) + 1] = e
      /\ \A i \in 1 .. Len(s) : t[i] = s[i]
  BY <1>1
<1>3. RangeOf(t) \subseteq RangeOf(s) \cup {e}
  BY <1>2 DEF RangeOf
<1>4. RangeOf(s) \subseteq RangeOf(t)
  BY <1>2 DEF RangeOf
<1>5. e \in RangeOf(t)
  BY <1>2 DEF RangeOf
<1> QED BY <1>1, <1>2, <1>3, <1>4, <1>5

LEMMA AscendAppend ==
    ASSUME NEW s \in Seq(Record), NEW e \in Record, IdsAscend(s),
           \A o \in RangeOf(s) : o.id < e.id
    PROVE  IdsAscend(Append(s, e))
<1>1. PICK t : t = Append(s, e)
  OBVIOUS
<1>2. /\ t \in Seq(Record) /\ Len(t) = Len(s) + 1 /\ t[Len(s) + 1] = e
      /\ \A i \in 1 .. Len(s) : t[i] = s[i] /\ s[i] \in RangeOf(s)
  BY <1>1 DEF RangeOf
<1>3. IdsAscend(t)
  BY <1>2 DEF IdsAscend
<1> QED BY <1>1, <1>3

(* splice keeps the newest records, as many as the array may hold.         *)
LEMMA TrimmedIs ==
    ASSUME NEW T, NEW s \in Seq(T)
    PROVE  /\ ~NeedsCompaction(s) => Trimmed(s) = s /\ Len(s) <= MaxEntries
           /\ NeedsCompaction(s) =>
                 \E d \in Nat :
                    /\ Len(s) = MaxEntries + d /\ d > 0
                    /\ Trimmed(s) = [i \in 1 .. MaxEntries |-> s[i + d]]
                    /\ Trimmed(s) \in Seq(T) /\ Len(Trimmed(s)) = MaxEntries
                    /\ \A i \in 1 .. MaxEntries : i + d \in 1 .. Len(s) /\ Trimmed(s)[i] = s[i + d]
<1>1. MaxEntries \in Nat /\ MaxEntries > 0
  BY HistoryAssumption
<1>2. CASE ~NeedsCompaction(s)
  <2>1. Trimmed(s) = SubSeq(s, 1, Len(s)) /\ Len(s) <= MaxEntries
    BY <1>1, <1>2 DEF Trimmed, NeedsCompaction
  <2>2. SubSeq(s, 1, Len(s)) = s
    OBVIOUS
  <2> QED BY <1>2, <2>1, <2>2
<1>3. CASE NeedsCompaction(s)
  <2>1. PICK d \in Nat : Len(s) = MaxEntries + d /\ d > 0
    <3>1. Len(s) - MaxEntries \in Nat /\ Len(s) - MaxEntries > 0
      BY <1>1, <1>3 DEF NeedsCompaction
    <3>2. Len(s) = MaxEntries + (Len(s) - MaxEntries)
      BY <1>1
    <3> QED BY <3>1, <3>2
  <2>2. PICK t : t = SubSeq(s, d + 1, Len(s))
    OBVIOUS
  <2>3. Trimmed(s) = t
    <3>1. Len(s) - MaxEntries + 1 = d + 1
      BY <1>1, <2>1
    <3> QED BY <1>3, <2>2, <3>1 DEF Trimmed, NeedsCompaction
  <2>4. /\ t \in Seq(T) /\ Len(t) = MaxEntries
        /\ \A i \in 1 .. MaxEntries : t[i] = s[i + d] /\ i + d \in 1 .. Len(s)
    BY <1>1, <2>1, <2>2
  <2>5. t = [i \in 1 .. MaxEntries |-> s[i + d]]
    BY <2>4
  <2> QED BY <1>3, <2>1, <2>3, <2>4, <2>5
<1> QED BY <1>2, <1>3

LEMMA TrimmedKeepsNewest ==
    ASSUME NEW s \in Seq(Record)
    PROVE  /\ Trimmed(s) \in Seq(Record) /\ Len(Trimmed(s)) <= MaxEntries
           /\ RangeOf(Trimmed(s)) \subseteq RangeOf(s)
           /\ s # <<>> => s[Len(s)] \in RangeOf(Trimmed(s))
           /\ IdsAscend(s) =>
                 /\ IdsAscend(Trimmed(s))
                 /\ \A e \in RangeOf(s) \ RangeOf(Trimmed(s)) :
                       /\ Len(Trimmed(s)) = MaxEntries
                       /\ \A o \in RangeOf(Trimmed(s)) : e.id < o.id
<1>1. MaxEntries \in Nat /\ MaxEntries > 0
  BY HistoryAssumption
<1>2. CASE ~NeedsCompaction(s)
  <2>1. Trimmed(s) = s /\ Len(s) <= MaxEntries
    BY <1>2, TrimmedIs
  <2>2. s # <<>> => s[Len(s)] \in RangeOf(s)
    BY DEF RangeOf
  <2> QED BY <2>1, <2>2
<1>3. CASE NeedsCompaction(s)
  <2>1. PICK d \in Nat :
          /\ Len(s) = MaxEntries + d /\ d > 0
          /\ Trimmed(s) \in Seq(Record) /\ Len(Trimmed(s)) = MaxEntries
          /\ \A i \in 1 .. MaxEntries : i + d \in 1 .. Len(s) /\ Trimmed(s)[i] = s[i + d]
    BY <1>3, TrimmedIs
  <2>2. PICK t \in Seq(Record) : t = Trimmed(s)
    BY <2>1
  <2>3. Len(t) = MaxEntries /\ \A i \in 1 .. Len(t) : i + d \in 1 .. Len(s) /\ t[i] = s[i + d]
    BY <2>1, <2>2
  <2>4. RangeOf(t) \subseteq RangeOf(s)
    BY <2>3 DEF RangeOf
  <2>5. s[Len(s)] \in RangeOf(t)
    <3>1. t[MaxEntries] = s[MaxEntries + d]
      BY <1>1, <2>3
    <3> QED BY <1>1, <2>1, <2>3, <3>1 DEF RangeOf
  <2>6. ASSUME IdsAscend(s) PROVE IdsAscend(t)
    <3>1. SUFFICES ASSUME NEW i \in 1 .. Len(t), NEW j \in 1 .. Len(t), i < j
                   PROVE  t[i].id < t[j].id
      BY DEF IdsAscend
    <3>2. i + d \in DOMAIN s /\ j + d \in DOMAIN s /\ i + d < j + d
      BY <2>3, <3>1
    <3>3. s[i + d].id < s[j + d].id
      BY <2>6, <3>2 DEF IdsAscend
    <3> QED BY <2>3, <3>3
  <2>7. ASSUME IdsAscend(s), NEW e \in RangeOf(s) \ RangeOf(t), NEW o \in RangeOf(t)
        PROVE  e.id < o.id
    <3>1. PICK k \in 1 .. Len(s) : s[k] = e
      BY DEF RangeOf
    <3>2. PICK i \in 1 .. Len(t) : t[i] = o
      BY DEF RangeOf
    <3>3. k <= d
      <4>1. SUFFICES ASSUME k > d PROVE FALSE
        BY <3>1
      <4>2. k - d \in 1 .. Len(t) /\ (k - d) + d = k
        BY <2>1, <2>3, <3>1, <4>1
      <4>3. t[k - d] = s[k]
        BY <2>3, <4>2
      <4> QED BY <3>1, <4>2, <4>3 DEF RangeOf
    <3>4. i + d \in DOMAIN s /\ k \in DOMAIN s /\ k < i + d /\ s[i + d] = o
      BY <2>3, <3>1, <3>2, <3>3
    <3> QED BY <2>7, <3>1, <3>4 DEF IdsAscend
  <2> QED BY <2>2, <2>3, <2>4, <2>5, <2>6, <2>7
<1> QED BY <1>2, <1>3

LEMMA TrimmedLong ==
    ASSUME NEW s \in Seq(Record), NEW d \in Nat, d > 0, Len(s) = MaxEntries + d
    PROVE  Trimmed(s) = [i \in 1 .. MaxEntries |-> s[i + d]]
<1>1. MaxEntries \in Nat
  BY HistoryAssumption
<1>2. NeedsCompaction(s)
  BY <1>1 DEF NeedsCompaction
<1>3. PICK k \in Nat : /\ Len(s) = MaxEntries + k
                       /\ Trimmed(s) = [i \in 1 .. MaxEntries |-> s[i + k]]
  BY <1>2, TrimmedIs
<1>4. k = d
  BY <1>1, <1>3
<1> QED BY <1>3, <1>4

(* Trimming first does not change what is left after an append.            *)
LEMMA TrimmedAppend ==
    ASSUME NEW s \in Seq(Record), NEW e \in Record
    PROVE  Trimmed(Append(Trimmed(s), e)) = Trimmed(Append(s, e))
<1>1. MaxEntries \in Nat /\ MaxEntries > 0
  BY HistoryAssumption
<1>2. CASE ~NeedsCompaction(s)
  BY <1>2, TrimmedIs
<1>3. CASE NeedsCompaction(s)
  <2>1. PICK d \in Nat :
          /\ Len(s) = MaxEntries + d /\ d > 0
          /\ Trimmed(s) \in Seq(Record) /\ Len(Trimmed(s)) = MaxEntries
          /\ \A i \in 1 .. MaxEntries : i + d \in 1 .. Len(s) /\ Trimmed(s)[i] = s[i + d]
    BY <1>3, TrimmedIs
  <2>2. PICK a, c : a = Append(Trimmed(s), e) /\ c = Append(s, e)
    OBVIOUS
  <2>3. /\ a \in Seq(Record) /\ Len(a) = MaxEntries + 1 /\ a[MaxEntries + 1] = e
        /\ \A i \in 1 .. MaxEntries : a[i] = s[i + d]
    BY <1>1, <2>1, <2>2
  <2>4. /\ c \in Seq(Record) /\ Len(c) = MaxEntries + d + 1 /\ c[MaxEntries + d + 1] = e
        /\ \A i \in 1 .. Len(s) : c[i] = s[i]
    <3>1. /\ c \in Seq(Record) /\ Len(c) = Len(s) + 1 /\ c[Len(s) + 1] = e
          /\ \A i \in 1 .. Len(s) : c[i] = s[i]
      BY <2>2
    <3> QED BY <1>1, <2>1, <3>1
  <2>5. Len(c) = MaxEntries + (d + 1) /\ d + 1 \in Nat /\ d + 1 > 0
    BY <1>1, <2>1, <2>4
  <2>6. Trimmed(a) = [i \in 1 .. MaxEntries |-> a[i + 1]]
    BY <2>3, TrimmedLong
  <2>7. Trimmed(c) = [i \in 1 .. MaxEntries |-> c[i + (d + 1)]]
    BY <2>4, <2>5, TrimmedLong
  <2>8. ASSUME NEW i \in 1 .. MaxEntries PROVE a[i + 1] = c[i + (d + 1)]
    <3>1. CASE i = MaxEntries
      <4>1. i + 1 = MaxEntries + 1 /\ i + (d + 1) = MaxEntries + d + 1
        BY <1>1, <3>1
      <4> QED BY <2>3, <2>4, <4>1
    <3>2. CASE i # MaxEntries
      <4>1. i + 1 \in 1 .. MaxEntries /\ i + (d + 1) \in 1 .. Len(s)
            /\ (i + 1) + d = i + (d + 1)
        BY <1>1, <2>1, <3>2
      <4> QED BY <2>3, <2>4, <4>1
    <3> QED BY <3>1, <3>2
  <2> QED BY <2>2, <2>6, <2>7, <2>8
<1> QED BY <1>2, <1>3

(* Ids that ascend tell the records of an array apart.                     *)
LEMMA RangeCounts ==
    ASSUME NEW s \in Seq(Record), IdsAscend(s)
    PROVE  IsFiniteSet(RangeOf(s)) /\ Cardinality(RangeOf(s)) = Len(s)
<1> DEFINE f == [i \in 1 .. Len(s) |-> s[i]]
<1>1. ASSUME NEW i \in 1 .. Len(s), NEW j \in 1 .. Len(s), i # j PROVE s[i] # s[j]
  <2>1. s[i].id # s[j].id
    <3>1. s[i] \in Record /\ s[j] \in Record
      OBVIOUS
    <3>2. CASE i < j
      BY <3>1, <3>2 DEF IdsAscend, Record
    <3>3. CASE j < i
      BY <3>1, <3>3 DEF IdsAscend, Record
    <3> QED BY <1>1, <3>2, <3>3
  <2> QED BY <2>1
<1>2. f \in Bijection(1 .. Len(s), RangeOf(s))
  <2>1. f \in [1 .. Len(s) -> RangeOf(s)]
    BY DEF RangeOf
  <2>2. \A e \in RangeOf(s) : \E i \in 1 .. Len(s) : f[i] = e
    BY DEF RangeOf
  <2> QED BY <1>1, <2>1, <2>2 DEF Bijection, Injection, Surjection, IsInjective
<1>3. IsFiniteSet(1 .. Len(s)) /\ Cardinality(1 .. Len(s)) = Len(s)
  <2>1. Len(s) \in Nat
    OBVIOUS
  <2> QED BY <2>1, FS_Interval
<1>4. ExistsBijection(1 .. Len(s), RangeOf(s))
  BY <1>2 DEF ExistsBijection
<1> QED BY <1>3, <1>4, FS_Bijection

(* The n-th of a finite set of numbers                                     *)
LEMMA NthInOrder ==
    ASSUME NEW S \in SUBSET Nat, IsFiniteSet(S)
    PROVE  /\ Cardinality(S) \in Nat
           /\ \A n \in 1 .. Cardinality(S) : Nth(S, n) \in S
           /\ \A n, m \in 1 .. Cardinality(S) : n < m => Nth(S, n) < Nth(S, m)
           /\ \A i \in S : \E n \in 1 .. Cardinality(S) : Nth(S, n) = i
<1> DEFINE Upto(i) == {j \in S : j <= i}
           rank(i) == Cardinality(Upto(i))
           f == [i \in S |-> rank(i)]
<1>1. PICK c : c = Cardinality(S)
  OBVIOUS
<1>2. c \in Nat
  BY <1>1, FS_CardinalityType
<1>3. ASSUME NEW i \in S PROVE IsFiniteSet(Upto(i)) /\ rank(i) \in 1 .. c
  <2>1. Upto(i) \in SUBSET S /\ i \in Upto(i)
    OBVIOUS
  <2>2. IsFiniteSet(Upto(i)) /\ rank(i) <= c /\ rank(i) \in Nat
    BY <1>1, <2>1, FS_Subset, FS_CardinalityType
  <2>3. rank(i) # 0
    BY <2>1, <2>2, FS_EmptySet
  <2> QED BY <1>2, <2>2, <2>3
<1>4. ASSUME NEW i \in S, NEW j \in S, i < j PROVE rank(i) < rank(j)
  <2>1. i \in Nat /\ j \in Nat /\ \A k \in S : k \in Nat
    OBVIOUS
  <2>2. Upto(i) \in SUBSET Upto(j) /\ j \in Upto(j) /\ j \notin Upto(i)
    <3>1. ASSUME NEW k \in Upto(i) PROVE k \in Upto(j)
      <4>1. k \in S /\ k <= i
        OBVIOUS
      <4>2. k <= j
        BY <1>4, <2>1, <4>1
      <4> QED BY <4>1, <4>2
    <3>2. j <= j /\ ~(j <= i)
      BY <1>4, <2>1
    <3> QED BY <3>1, <3>2
  <2>3. IsFiniteSet(Upto(j)) /\ IsFiniteSet(Upto(i)) /\ rank(i) \in Nat /\ rank(j) \in Nat
    BY <1>2, <1>3
  <2>4. rank(i) <= rank(j) /\ (rank(j) = rank(i) => Upto(j) = Upto(i))
    BY <2>2, <2>3, FS_Subset
  <2>5. Upto(i) # Upto(j)
    BY <2>2
  <2> QED BY <2>3, <2>4, <2>5
<1>5. \A i, j \in S : rank(i) = rank(j) => i = j
  <2> SUFFICES ASSUME NEW i \in S, NEW j \in S, rank(i) = rank(j), i # j PROVE FALSE
    OBVIOUS
  <2>1. i < j \/ j < i
    OBVIOUS
  <2>2. rank(i) \in Nat /\ rank(j) \in Nat
    BY <1>2, <1>3
  <2>3. ~(rank(i) < rank(j)) /\ ~(rank(j) < rank(i))
    BY <2>2
  <2> QED BY <1>4, <2>1, <2>3
<1>6. IsFiniteSet(1 .. c) /\ Cardinality(1 .. c) = c
  BY <1>2, FS_Interval
<1>7. f \in Injection(S, 1 .. c)
  BY <1>3, <1>5 DEF Injection, IsInjective
<1>8. f \in Surjection(S, 1 .. c)
  BY <1>1, <1>6, <1>7, FS_Injection
<1>9. \A n \in 1 .. c : \E i \in S : rank(i) = n
  BY <1>8 DEF Surjection
<1>10. \A n \in 1 .. c : Nth(S, n) \in S /\ rank(Nth(S, n)) = n
  BY <1>9 DEF Nth
<1>11. ASSUME NEW n \in 1 .. c, NEW m \in 1 .. c, n < m PROVE Nth(S, n) < Nth(S, m)
  <2>1. PICK x, y : x = Nth(S, n) /\ y = Nth(S, m)
    OBVIOUS
  <2>2. x \in S /\ y \in S /\ rank(x) = n /\ rank(y) = m
    BY <1>10, <2>1
  <2>3. ~(y < x)
    BY <1>2, <1>4, <1>11, <2>2
  <2>4. x # y
    BY <1>11, <2>2
  <2>5. x < y
    BY <2>2, <2>3, <2>4
  <2> QED BY <2>1, <2>5
<1>12. ASSUME NEW i \in S PROVE \E n \in 1 .. c : Nth(S, n) = i
  <2>1. rank(i) \in 1 .. c
    BY <1>3
  <2>2. Nth(S, rank(i)) \in S /\ rank(Nth(S, rank(i))) = rank(i)
    BY <1>10, <2>1
  <2>3. Nth(S, rank(i)) = i
    BY <1>5, <2>2
  <2> QED BY <2>1, <2>3
<1> QED BY <1>1, <1>2, <1>10, <1>11, <1>12

(* A finite set of numbers has a largest one.                              *)
LEMMA LargestExists ==
    ASSUME NEW S \in SUBSET Nat, IsFiniteSet(S), S # {}
    PROVE  \E n \in S : \A m \in S : m <= n
<1>1. PICK c : c = Cardinality(S)
  OBVIOUS
<1>2. c \in Nat /\ c # 0
  BY <1>1, FS_CardinalityType, FS_EmptySet
<1>3. PICK n : n = Nth(S, c)
  OBVIOUS
<1>4. n \in S /\ \A k \in 1 .. c : k < c => Nth(S, k) < n
  BY <1>1, <1>2, <1>3, NthInOrder
<1>5. ASSUME NEW m \in S PROVE m <= n
  <2>1. PICK k \in 1 .. c : Nth(S, k) = m
    BY <1>1, NthInOrder
  <2>2. CASE k = c
    BY <1>3, <1>4, <2>1, <2>2
  <2>3. CASE k < c
    BY <1>4, <2>1, <2>3
  <2> QED BY <1>2, <2>2, <2>3
<1> QED BY <1>4, <1>5

(* A deletion keeps the other records, in their order.                     *)
LEMMA KeptInOrder ==
    ASSUME NEW s \in Seq(Record), NEW ids
    PROVE  /\ Kept(s, ids) \in Seq(Record)
           /\ IdsAscend(s) => IdsAscend(Kept(s, ids))
           /\ Len(Kept(s, ids)) <= Len(s)
           /\ RangeOf(Kept(s, ids)) = {e \in RangeOf(s) : e.id \notin ids}
<1>1. PICK S : S = Staying(s, ids)
  OBVIOUS
<1>2. PICK t : t = Kept(s, ids)
  OBVIOUS
<1>3. /\ S \subseteq DOMAIN s /\ DOMAIN s = 1 .. Len(s) /\ Len(s) \in Nat
      /\ \A i \in S : s[i].id \notin ids
      /\ \A i \in DOMAIN s : s[i].id \notin ids => i \in S
  BY <1>1 DEF Staying
<1>4. IsFiniteSet(1 .. Len(s)) /\ Cardinality(1 .. Len(s)) = Len(s)
  BY <1>3, FS_Interval
<1>5. IsFiniteSet(S) /\ Cardinality(S) <= Len(s) /\ S \in SUBSET Nat
  BY <1>3, <1>4, FS_Subset
<1>6. /\ Cardinality(S) \in Nat
      /\ \A n \in 1 .. Cardinality(S) : Nth(S, n) \in S
      /\ \A n, m \in 1 .. Cardinality(S) : n < m => Nth(S, n) < Nth(S, m)
      /\ \A i \in S : \E n \in 1 .. Cardinality(S) : Nth(S, n) = i
  BY <1>5, NthInOrder
<1>7. t = [n \in 1 .. Cardinality(S) |-> s[Nth(S, n)]]
  BY <1>1, <1>2 DEF Kept
<1>8. /\ t \in Seq(Record) /\ Len(t) = Cardinality(S)
      /\ \A n \in 1 .. Len(t) : t[n] = s[Nth(S, n)]
  BY <1>3, <1>6, <1>7
<1>9. ASSUME IdsAscend(s), NEW n \in DOMAIN t, NEW m \in DOMAIN t, n < m
      PROVE  t[n].id < t[m].id
  <2>1. n \in 1 .. Cardinality(S) /\ m \in 1 .. Cardinality(S)
    BY <1>8
  <2>2. Nth(S, n) \in DOMAIN s /\ Nth(S, m) \in DOMAIN s /\ Nth(S, n) < Nth(S, m)
    BY <1>3, <1>6, <1>9, <2>1
  <2> QED BY <1>8, <1>9, <2>1, <2>2 DEF IdsAscend
<1>10. ASSUME NEW e \in RangeOf(t) PROVE e \in RangeOf(s) /\ e.id \notin ids
  <2>1. PICK n \in 1 .. Cardinality(S) : e = s[Nth(S, n)]
    BY <1>8 DEF RangeOf
  <2> QED BY <1>3, <1>6, <2>1 DEF RangeOf
<1>11. ASSUME NEW e \in RangeOf(s), e.id \notin ids PROVE e \in RangeOf(t)
  <2>1. PICK i \in DOMAIN s : s[i] = e
    BY DEF RangeOf
  <2>2. PICK n \in 1 .. Cardinality(S) : Nth(S, n) = i
    BY <1>3, <1>6, <1>11, <2>1
  <2>3. n \in DOMAIN t /\ t[n] = e
    BY <1>8, <2>1, <2>2
  <2> QED BY <2>3 DEF RangeOf
<1>12. RangeOf(t) = {e \in RangeOf(s) : e.id \notin ids}
  BY <1>10, <1>11
<1>13. IdsAscend(s) => IdsAscend(t)
  BY <1>9 DEF IdsAscend
<1> QED BY <1>2, <1>5, <1>8, <1>12, <1>13

------------------------------------------------------------------------------
(* What the operators of the model return                                  *)

LEMMA OldRecordsAscend ==
    /\ Old \in Seq(Record) /\ Len(Old) = OldRecords /\ IdsAscend(Old)
    /\ \A e \in RangeOf(Old) : e.id > 0
    /\ IsFiniteSet(RangeOf(Old))
<1>1. OldRecords \in Nat
  BY HistoryAssumption
<1>2. Old \in Seq(Record) /\ Len(Old) = OldRecords /\ IdsAscend(Old)
  BY <1>1 DEF Old, Record, IdsAscend
<1>3. \A e \in RangeOf(Old) : e.id > 0
  BY <1>1 DEF Old, RangeOf
<1> QED BY <1>2, <1>3, RangeCounts

(* The file is finite, so there is a largest id to go on from.             *)
LEMMA SeqAfterAll ==
    ASSUME NEW s \in Seq(Record), nextSeq = 1
    PROVE  SeqAfter(s) \in Nat \ {0} /\ \A e \in RangeOf(s) : e.id < SeqAfter(s)
<1> DEFINE ids == {e.id : e \in RangeOf(s)} \cup {nextSeq - 1}
           Largest(n) == \A m \in ids : m <= n
<1>1. ids \subseteq Nat /\ 0 \in ids
  <2>1. RangeOf(s) \subseteq Record
    BY RangeIn
  <2>2. \A e \in RangeOf(s) : e.id \in Nat
    BY <2>1 DEF Record
  <2> QED BY <2>2
<1>2. \E n \in ids : Largest(n)
  <2>1. PICK T : T = {e.id : e \in RangeOf(s)}
    OBVIOUS
  <2>2. PICK f : f = [i \in 1 .. Len(s) |-> s[i].id]
    OBVIOUS
  <2>3. f \in Surjection(1 .. Len(s), T)
    <3>1. \A e \in RangeOf(s) : \E i \in 1 .. Len(s) : s[i] = e
      BY RangeIn
    <3>2. \A i \in 1 .. Len(s) : s[i].id \in T
      BY <2>1, RangeIn
    <3>3. \A t \in T : \E i \in 1 .. Len(s) : f[i] = t
      BY <2>1, <2>2, <3>1
    <3> QED BY <2>2, <3>2, <3>3 DEF Surjection
  <2>4. IsFiniteSet(1 .. Len(s))
    <3>1. Len(s) \in Nat
      OBVIOUS
    <3> QED BY <3>1, FS_Interval
  <2>5. IsFiniteSet(T)
    BY <2>3, <2>4, FS_Surjection
  <2>6. IsFiniteSet(ids)
    BY <2>1, <2>5, FS_AddElement
  <2> HIDE DEF ids
  <2> QED BY <1>1, <2>6, LargestExists
<1>3. PICK n : n = CHOOSE m \in ids : Largest(m)
  OBVIOUS
<1>4. n \in ids /\ Largest(n)
  BY <1>2, <1>3
<1>5. SeqAfter(s) = 1 + n
  BY <1>3 DEF SeqAfter
<1>6. n \in Nat /\ \A e \in RangeOf(s) : e.id \in Nat /\ e.id <= n
  BY <1>1, <1>4
<1> HIDE DEF ids, Largest
<1> QED BY <1>5, <1>6

LEMMA MoveFacts ==
    ASSUME HistoryTypes, NEW p \in Requests, NEW place \in RequestPlaces, MoveTo(p, place)
    PROVE  /\ request' \in [Requests -> RequestType]
           /\ request'[p].at = place /\ request'[p].kind = request[p].kind
           /\ request'[p].ids = request[p].ids /\ request'[p].rec = request[p].rec
           /\ \A q \in Requests : q # p => request'[q] = request[q]
  BY DEF HistoryTypes, MoveTo, RequestType

(* More records do not make fewer younger ones.                            *)
LEMMA YoungerGrow ==
    ASSUME NEW S, NEW T, IsFiniteSet(T), S \subseteq T, NEW e, Accounted(S, e)
    PROVE  Accounted(T, e)
<1>1. Younger(T, e) \in SUBSET T /\ Younger(S, e) \in SUBSET Younger(T, e)
  BY DEF Younger
<1>2. IsFiniteSet(Younger(T, e))
  BY <1>1, FS_Subset
<1>3. IsFiniteSet(Younger(S, e)) /\ Cardinality(Younger(S, e)) <= Cardinality(Younger(T, e))
  BY <1>1, <1>2, FS_Subset
<1>4. Cardinality(Younger(S, e)) \in Nat /\ Cardinality(Younger(T, e)) \in Nat
  BY <1>2, <1>3, FS_CardinalityType
<1>5. MaxEntries \in Nat
  BY HistoryAssumption
<1> QED BY <1>3, <1>4, <1>5 DEF Accounted

(* A record that the full array pushes out has enough younger ones.        *)
LEMMA PushedOutAccounted ==
    ASSUME NEW s \in Seq(Record), IdsAscend(s), Len(s) = MaxEntries,
           NEW e, \A o \in RangeOf(s) : e.id < o.id,
           NEW S, IsFiniteSet(S), RangeOf(s) \subseteq S
    PROVE  Accounted(S, e)
<1>1. RangeOf(s) \subseteq Younger(S, e)
  <2> SUFFICES ASSUME NEW o \in RangeOf(s) PROVE o.id > e.id
    BY DEF Younger
  <2> QED OBVIOUS
<1>2. Younger(S, e) \in SUBSET S
  BY DEF Younger
<1>3. IsFiniteSet(Younger(S, e))
  BY <1>2, FS_Subset
<1>4. RangeOf(s) \in SUBSET Younger(S, e)
  BY <1>1
<1>5. Cardinality(RangeOf(s)) <= Cardinality(Younger(S, e))
  BY <1>3, <1>4, FS_Subset
<1>6. Cardinality(RangeOf(s)) = MaxEntries
  BY RangeCounts
<1> QED BY <1>5, <1>6, FS_CardinalityType, <1>3, HistoryAssumption DEF Accounted

------------------------------------------------------------------------------
(* What a step leaves as it was                                            *)

Landed(q) == Posting(q) /\ request[q].at \in {"ok", "halfway"}

LEMMA StoredIs == Stored = RangeOf(Old) \cup {request[q].rec : q \in {r \in Requests : Landed(r)}}
  BY DEF Stored, Landed, Posting

LEMMA StoredKept ==
    ASSUME \A q \in Requests : Landed(q)' <=> Landed(q),
           \A q \in Requests : Landed(q) => request'[q].rec = request[q].rec
    PROVE  Stored' = Stored
<1>1. Stored = RangeOf(Old) \cup {request[q].rec : q \in {r \in Requests : Landed(r)}}
  BY StoredIs
<1>2. Stored' = RangeOf(Old) \cup {request'[q].rec : q \in {r \in Requests : Landed(r)'}}
  BY DEF Stored, Landed, Posting, Old, RangeOf
<1> QED BY <1>1, <1>2

(* The record of a post that lands joins them.                             *)
LEMMA StoredGains ==
    ASSUME NEW p \in Requests, Landed(p)', request'[p].rec = request[p].rec,
           \A q \in Requests : q # p => (Landed(q)' <=> Landed(q)),
           \A q \in Requests : Landed(q) => request'[q].rec = request[q].rec
    PROVE  Stored' = Stored \cup {request[p].rec}
<1>1. Stored = RangeOf(Old) \cup {request[q].rec : q \in {r \in Requests : Landed(r)}}
  BY StoredIs
<1>2. Stored' = RangeOf(Old) \cup {request'[q].rec : q \in {r \in Requests : Landed(r)'}}
  BY DEF Stored, Landed, Posting, Old, RangeOf
<1>3. ASSUME NEW q \in Requests, Landed(q)' PROVE q = p \/ Landed(q)
  BY <1>3
<1>4. \A q \in Requests : Landed(q) => Landed(q)'
  OBVIOUS
<1>5. {request'[q].rec : q \in {r \in Requests : Landed(r)'}}
        = {request[q].rec : q \in {r \in Requests : Landed(r)}} \cup {request[p].rec}
  BY <1>3, <1>4
<1> QED BY <1>1, <1>2, <1>5

LEMMA LineKept ==
    ASSUME HistoryTypes, Lined, UNCHANGED <<chain, job>>,
           \A i \in DOMAIN chain : request'[chain[i]] = request[chain[i]]
    PROVE  /\ HeadPosts' <=> HeadPosts
           /\ HeadPosts => Active' = Active
<1>1. job # "idle" => chain \in Seq(Requests) /\ chain # <<>>
  BY DEF HistoryTypes, Lined
<1>2. job # "idle" => 1 \in DOMAIN chain /\ Head(chain) = chain[1]
  BY <1>1
<1> QED BY <1>2 DEF HeadPosts, Posting, Active

LEMMA WrittenKept ==
    ASSUME HistoryTypes, Lined, UNCHANGED <<chain, job>>,
           \A i \in DOMAIN chain : request'[chain[i]] = request[chain[i]],
           Stored' = Stored
    PROVE  Written' = Written
<1>1. CASE HeadPosts
  BY <1>1, LineKept DEF Written
<1>2. CASE ~HeadPosts
  BY <1>2, LineKept DEF Written
<1> QED BY <1>1, <1>2

LEMMA QueueKept ==
    ASSUME HistoryTypes, Lined, UNCHANGED <<file, entries, nextSeq, chain, job, poisoned>>,
           \A i \in DOMAIN chain : request'[chain[i]] = request[chain[i]],
           Serving' => Serving
    PROVE  Lined' /\ (Ordered /\ HeadThere => Ordered' /\ HeadThere')
<1>1. Lined'
  <2>1. \A i \in DOMAIN chain : /\ request'[chain[i]].at = "chained"
                               /\ request'[chain[i]].kind # "get"
    BY DEF Lined
  <2>2. \A i, j \in DOMAIN chain : chain[i] = chain[j] => i = j
    BY DEF Lined
  <2>3. ASSUME job = "appended" PROVE Posting(Head(chain))'
    <3>1. HeadPosts' <=> HeadPosts
      BY LineKept
    <3> QED BY <2>3, <3>1 DEF HeadPosts, Lined
  <2>4. (job # "idle" => chain # <<>>) /\ (poisoned => chain = <<>>)
    BY DEF Lined
  <2> QED BY <2>1, <2>2, <2>3, <2>4 DEF Lined
<1>2. Present' = Present
  BY DEF Present, RangeOf
<1>3. \A i \in DOMAIN chain : /\ Posting(chain[i])' <=> Posting(chain[i])
                              /\ Coming(i)' <=> Coming(i)
  BY DEF Posting, Coming
<1>4. ASSUME Ordered, HeadThere PROVE Ordered'
  <2>1. IdsAscend(entries)' /\ IdsAscend(file)'
    BY <1>4 DEF Ordered, IdsAscend
  <2> QED BY <1>2, <1>3, <1>4, <2>1 DEF Ordered
<1>5. HeadThere => HeadThere'
  BY LineKept DEF HeadThere, RangeOf
<1> QED BY <1>1, <1>4, <1>5

(* The same, as one statement about a request that is not in the chain     *)
(* and moves on, or arrives, and stores no record.                         *)
LEMMA MovesAside ==
    ASSUME HistoryInv, NEW p \in Requests, request' \in [Requests -> RequestType],
           \A q \in Requests : q # p => request'[q] = request[q],
           request[p].at \notin {"chained", "ok", "halfway", "failed"},
           Posting(p)' => request'[p].at \notin {"ok", "halfway"},
           UNCHANGED <<chain, job>>
    PROVE  /\ \A i \in DOMAIN chain : chain[i] # p /\ request'[chain[i]] = request[chain[i]]
           /\ Stored' = Stored /\ Written' = Written
           /\ HeadPosts' <=> HeadPosts
           /\ HeadPosts => Active' = Active
<1>1. ASSUME NEW i \in DOMAIN chain
      PROVE  chain[i] # p /\ chain[i] \in Requests
  <2>1. request[chain[i]].at = "chained" /\ chain[i] \in Requests
    BY DEF HistoryInv, Lined, HistoryTypes
  <2> QED BY <2>1
<1>2. \A i \in DOMAIN chain : request'[chain[i]] = request[chain[i]]
  BY <1>1
<1>3. Stored' = Stored
  <2>1. \A q \in Requests : Landed(q)' <=> Landed(q)
    BY DEF Landed, Posting
  <2>2. \A q \in Requests : Landed(q) => request'[q].rec = request[q].rec
    BY DEF Landed
  <2> QED BY <2>1, <2>2, StoredKept
<1>4. HistoryTypes /\ Lined
  BY DEF HistoryInv
<1> QED BY <1>1, <1>2, <1>3, <1>4, WrittenKept, LineKept

LEMMA HeadPresent ==
    ASSUME HistoryInv, HeadPosts, "load" \notin mishaps
    PROVE  /\ Active.rec \in Present /\ 1 \in DOMAIN chain /\ Active = request[chain[1]]
           /\ Posting(chain[1]) /\ Active \in RequestType /\ Active.rec \in Record
<1>1. chain \in Seq(Requests) /\ chain # <<>>
  BY DEF HistoryInv, HistoryTypes, Lined, HeadPosts
<1>2. 1 \in DOMAIN chain /\ Head(chain) = chain[1] /\ chain[1] \in Requests
  BY <1>1
<1>3. Active \in RequestType /\ Active.rec \in Record
  BY <1>2 DEF Active, HistoryInv, HistoryTypes, RequestType
<1>4. Active.rec \in Present
  BY DEF HistoryInv, HeadThere, Present
<1> QED BY <1>2, <1>3, <1>4 DEF Active, HeadPosts

------------------------------------------------------------------------------
(* The initial state, and the steps of the requests                        *)

LEMMA HistoryStarts == HistoryInit => HistoryInv
<1> SUFFICES ASSUME HistoryInit PROVE HistoryInv
  OBVIOUS
<1>1. HistoryTypes
  <2>1. Quiet \in RequestType
    BY DEF Quiet, RequestType, RequestPlaces, Record
  <2>2. request \in [Requests -> RequestType]
    BY <2>1 DEF HistoryInit
  <2>3. file \in Seq(Record) /\ entries \in Seq(Record) /\ chain \in Seq(Requests)
    BY OldRecordsAscend DEF HistoryInit
  <2>4. nextSeq \in Nat \ {0} /\ job \in {"idle", "appended", "compacting", "rewriting"}
    BY DEF HistoryInit
  <2>5. loaded \in BOOLEAN /\ poisoned \in BOOLEAN /\ astray \in BOOLEAN
    BY DEF HistoryInit
  <2> QED BY <2>2, <2>3, <2>4, <2>5 DEF HistoryTypes, HistoryInit
<1>2. Lined
  BY DEF HistoryInit, Lined
<1>3. ~Serving /\ RangeOf(entries) = {} /\ Present = RangeOf(Old) /\ Base = RangeOf(Old)
  BY DEF HistoryInit, Serving, Present, RangeOf, Base
<1>4. Starting
  BY DEF HistoryInit, Starting, Quiet, Loading, Warming
<1>5. FileFollows /\ Apart
  BY <1>3, HistoryAssumption DEF HistoryInit, FileFollows, Apart
<1>6. Ordered
  BY <1>3, OldRecordsAscend DEF HistoryInit, Ordered, IdsAscend
<1>7. Ticked
  BY DEF HistoryInit, Ticked, Deleting, Quiet
<1>8. ~HeadPosts
  BY DEF HistoryInit, HeadPosts
<1>9. Stored = RangeOf(Old) /\ Written = RangeOf(Old)
  <2>1. \A q \in Requests : ~Landed(q)
    BY DEF HistoryInit, Landed, Quiet
  <2> QED BY <1>8, <2>1, StoredIs DEF Written
<1>10. NoneMissing
  BY <1>3, <1>9, OldRecordsAscend DEF NoneMissing
<1>11. OnlyChosenRecordsGo
  BY <1>9 DEF OnlyChosenRecordsGo, HistoryInit
<1> QED BY <1>1, <1>2, <1>4, <1>5, <1>6, <1>7, <1>8, <1>10, <1>11 DEF HistoryInv, HeadThere

(* If the record has gone from Base or the file, it was accounted for, and *)
(* what is deleted stays deleted.                                          *)
LEMMA NothingWritten ==
    ASSUME HistoryInv, UNCHANGED <<file, entries, job, mishaps>>, deleted \subseteq deleted',
           Stored' = Stored, Written' = Written, Base' = Base
    PROVE  (mishaps' = {} => NoneMissing') /\ OnlyChosenRecordsGo'
<1>1. Present' = Present
  BY DEF Present, RangeOf
<1>2. ASSUME mishaps' = {} PROVE NoneMissing'
  <2>1. NoneMissing
    BY <1>2 DEF HistoryInv
  <2>2. IsFiniteSet(Written') /\ Present' \subseteq Written'
    BY <1>1, <2>1 DEF NoneMissing
  <2>3. ASSUME NEW e \in Stored' PROVE e \in Base' \/ Accounted(Written, e)'
    <3>1. e \in Base \/ Accounted(Written, e)
      BY <2>1, <2>3 DEF NoneMissing
    <3>2. Accounted(Written, e) => Accounted(Written, e)'
      BY DEF Accounted, Younger
    <3> QED BY <3>1, <3>2
  <2> QED BY <2>2, <2>3 DEF NoneMissing
<1>3. OnlyChosenRecordsGo'
  BY DEF HistoryInv, OnlyChosenRecordsGo, Younger, RangeOf
<1> QED BY <1>2, <1>3

(* ids comes from records of the file.                                     *)
LEMMA ArriveKeeps ==
    ASSUME HistoryInv, ~EarlyRequests, NEW p \in Requests, NEW ids \in SUBSET Nat,
           NEW kind \in {"get", "post", "delete", "clear"}, Arrive(p, kind, ids),
           \A id \in ids : \E e \in RangeOf(file) : e.id = id
    PROVE  HistoryInv'
<1>1. HistoryTypes /\ Lined /\ Starting /\ FileFollows /\ Apart
  BY DEF HistoryInv
<1>2. /\ ~Loading /\ request[p].at = "new" /\ loaded' = TRUE
      /\ UNCHANGED <<file, entries, nextSeq, seen, chain, job, payload, poisoned,
                     mishaps, astray>>
      /\ deleted' = deleted \cup {e \in Present : e.id \in ids}
  BY DEF Arrive, write, Present
<1>3. /\ request' \in [Requests -> RequestType]
      /\ request'[p].at = IF loaded THEN "ready" ELSE "reading"
      /\ request'[p].kind = kind /\ request'[p].ids = ids
      /\ \A q \in Requests : q # p => request'[q] = request[q]
  <2>1. request \in [Requests -> RequestType]
    BY <1>1 DEF HistoryTypes
  <2>2. PICK place \in RequestPlaces : place = IF loaded THEN "ready" ELSE "reading"
    BY DEF RequestPlaces
  <2>3. request' = [request EXCEPT ![p].at = place, ![p].kind = kind, ![p].ids = ids]
    BY <2>2 DEF Arrive
  <2>4. request[p] \in RequestType
    BY <2>1
  <2>5. PICK r : r = [request[p] EXCEPT !.at = place, !.kind = kind, !.ids = ids]
    OBVIOUS
  <2>6. r \in RequestType /\ r.at = place /\ r.kind = kind /\ r.ids = ids
    BY <2>4, <2>5 DEF RequestType
  <2>7. request' = [request EXCEPT ![p] = r]
    BY <2>1, <2>3, <2>5
  <2> QED BY <2>1, <2>2, <2>6, <2>7
<1>4. \A q \in Requests : ~Warming(q)
  BY <1>2 DEF Loading, Warming
<1>5. /\ \A i \in DOMAIN chain : chain[i] # p /\ request'[chain[i]] = request[chain[i]]
      /\ Stored' = Stored /\ Written' = Written
      /\ HeadPosts' <=> HeadPosts
      /\ HeadPosts => Active' = Active
  <2>1. request'[p].at \notin {"ok", "halfway"}
    BY <1>3
  <2> QED BY <1>2, <1>3, <2>1, MovesAside
<1>6. Serving' <=> Serving
  <2>1. CASE loaded
    <3>1. \A q \in Requests : ~Warming(q)'
      BY <1>3, <1>4, <2>1 DEF Warming
    <3> QED BY <1>2, <1>4, <2>1, <3>1 DEF Serving, Loading, Warming
  <2>2. CASE ~loaded
    BY <1>2, <1>3, <2>2 DEF Serving, Loading
  <2> QED BY <2>1, <2>2
<1>7. HistoryTypes'
  BY <1>1, <1>2, <1>3 DEF HistoryTypes
<1>8. Lined' /\ (Ordered /\ HeadThere => Ordered' /\ HeadThere')
  BY <1>1, <1>2, <1>5, <1>6, QueueKept
<1>9. Starting'
  <2>1. CASE Serving
    BY <1>6, <2>1 DEF Starting
  <2>2. CASE ~Serving
    <3>1. ~loaded
      BY <1>2, <2>2 DEF Serving
    <3>2. request'[p].at = "reading"
      BY <1>3, <3>1
    <3> QED BY <1>1, <1>2, <1>3, <1>4, <2>2, <3>2 DEF Starting, Warming
  <2> QED BY <2>1, <2>2
<1>10. FileFollows' /\ Apart'
  <2>1. job = "appended" => HeadPosts
    BY <1>1 DEF HeadPosts, Lined
  <2> QED BY <1>1, <1>2, <1>5, <1>6, <2>1 DEF FileFollows, Apart, Trimmed
<1>11. Present' = Present /\ Base' = Base
  BY <1>2, <1>6 DEF Present, RangeOf, Base
<1>12. \A i \in DOMAIN chain : Posting(chain[i])' <=> Posting(chain[i])
  BY <1>2, <1>5 DEF Posting
<1>13. ASSUME Ordered, HeadThere, Ticked, "load" \notin mishaps PROVE Ticked'
  <2>1. ASSUME NEW q \in Requests, Deleting(q)', NEW id \in request'[q].ids
        PROVE  /\ \A e \in Present : e.id = id => e \in deleted'
               /\ \A i \in DOMAIN chain :
                     Posting(chain[i]) /\ request[chain[i]].rec.id = id =>
                         request[chain[i]].rec \in deleted'
               /\ Serving => id < nextSeq
               /\ ~Serving => \E e \in RangeOf(file) : e.id = id
    <3>1. CASE q # p
      <4>1. Deleting(q) /\ id \in request[q].ids
        BY <1>3, <2>1, <3>1 DEF Deleting
      <4> QED BY <1>2, <1>13, <4>1 DEF Ticked
    <3>2. CASE q = p
      <4>1. id \in ids
        BY <1>3, <2>1, <3>2
      <4>2. PICK e \in RangeOf(file) : e.id = id
        BY <4>1
      <4>3. e \in Present
        BY <4>2 DEF Present
      <4>4. ASSUME NEW i \in DOMAIN chain, Posting(chain[i]), request[chain[i]].rec.id = id
            PROVE  request[chain[i]].rec \in deleted'
        <5>1. ~Coming(i)
          <6>1. SUFFICES ASSUME Coming(i) PROVE FALSE
            OBVIOUS
          <6>2. e.id < id
            BY <1>13, <4>3, <4>4, <6>1 DEF Ordered
          <6>3. id \in Nat
            BY <4>1
          <6> QED BY <4>2, <6>2, <6>3
        <5>2. i = 1 /\ job # "idle"
          BY <4>4, <5>1 DEF Coming
        <5>3. HeadPosts
          <6>1. chain \in Seq(Requests)
            BY <1>1 DEF HistoryTypes
          <6>2. Head(chain) = chain[1]
            BY <5>2, <6>1
          <6> QED BY <4>4, <5>2, <6>2 DEF HeadPosts
        <5>4. request[chain[i]].rec \in Present
          BY <1>13, <5>2, <5>3, HeadPresent
        <5> QED BY <1>2, <4>1, <4>4, <5>4
      <4>5. Serving => id < nextSeq
        BY <1>13, <4>2, <4>3 DEF Ordered
      <4>6. \A o \in Present : o.id = id => o \in deleted'
        BY <1>2, <4>1
      <4> QED BY <4>2, <4>4, <4>5, <4>6
    <3> QED BY <3>1, <3>2
  <2> QED BY <1>2, <1>5, <1>6, <1>11, <1>12, <2>1 DEF Ticked
<1>14. "load" \notin mishaps' => Ordered' /\ HeadThere' /\ Ticked'
  BY <1>2, <1>8, <1>13 DEF HistoryInv
<1>15. (mishaps' = {} => NoneMissing') /\ OnlyChosenRecordsGo'
  BY <1>2, <1>5, <1>11, NothingWritten
<1> QED BY <1>7, <1>8, <1>9, <1>10, <1>14, <1>15 DEF HistoryInv

LEMMA ReadFileKeeps ==
    ASSUME HistoryInv, NEW p \in Requests, ReadFile(p)
    PROVE  HistoryInv'
<1>1. HistoryTypes /\ Lined /\ Starting /\ FileFollows /\ Apart
  BY DEF HistoryInv
<1>2. /\ request[p].at = "reading" /\ seen' = file /\ MoveTo(p, "parsing")
      /\ UNCHANGED <<file, entries, nextSeq, loaded, chain, job, payload, poisoned, deleted,
                     mishaps, astray>>
  BY DEF ReadFile, write, env
<1>3. /\ request' \in [Requests -> RequestType]
      /\ request'[p].at = "parsing" /\ request'[p].kind = request[p].kind
      /\ request'[p].ids = request[p].ids
      /\ \A q \in Requests : q # p => request'[q] = request[q]
  BY <1>1, <1>2, MoveFacts DEF RequestPlaces
<1>4. ~Serving /\ ~Serving'
  BY <1>2, <1>3 DEF Serving, Loading
<1>5. chain = <<>>
  BY <1>1, <1>4 DEF Starting
<1>6. \A q \in Requests : Warming(q)' <=> Warming(q)
  BY <1>2, <1>3 DEF Warming
<1>7. /\ \A i \in DOMAIN chain : chain[i] # p /\ request'[chain[i]] = request[chain[i]]
      /\ Stored' = Stored /\ Written' = Written
      /\ HeadPosts' <=> HeadPosts
      /\ HeadPosts => Active' = Active
  BY <1>2, <1>3, MovesAside
<1>8. HistoryTypes'
  BY <1>1, <1>2, <1>3 DEF HistoryTypes
<1>9. Lined' /\ (Ordered /\ HeadThere => Ordered' /\ HeadThere')
  BY <1>1, <1>2, <1>4, <1>7, QueueKept
<1>10. Starting'
  <2>1. ASSUME NEW q \in Requests, request'[q].at = "parsing" PROVE q = p
    BY <1>1, <1>2, <1>3, <1>4, <2>1 DEF Starting, Warming
  <2>2. \A q \in Requests : request'[q].at \notin {"ready", "chained"}
    BY <1>1, <1>3, <1>4 DEF Starting
  <2>3. loaded
    BY <1>1, <1>2, <1>4 DEF Starting, Loading
  <2> QED BY <1>1, <1>2, <1>4, <1>6, <2>1, <2>2, <2>3 DEF Starting
<1>11. FileFollows' /\ Apart'
  BY <1>1, <1>2, <1>4 DEF FileFollows, Apart
<1>12. Ticked => Ticked'
  <2>1. Present' = Present /\ RangeOf(file)' = RangeOf(file)
    BY <1>2 DEF Present, RangeOf
  <2>2. \A q \in Requests : /\ Deleting(q)' <=> Deleting(q)
                            /\ request'[q].ids = request[q].ids
    BY <1>2, <1>3 DEF Deleting
  <2> QED BY <1>2, <1>4, <1>5, <2>1, <2>2 DEF Ticked
<1>13. (mishaps' = {} => NoneMissing') /\ OnlyChosenRecordsGo'
  <2>1. Base' = Base
    BY <1>2, <1>4 DEF Base, RangeOf
  <2> QED BY <1>2, <1>7, <2>1, NothingWritten
<1> QED BY <1>2, <1>8, <1>9, <1>10, <1>11, <1>12, <1>13 DEF HistoryInv

(* From a failed load on only the array's limit and the line of writes are *)
(* certain.                                                                *)
LEMMA LoadFailsKeeps ==
    ASSUME HistoryInv, NEW p \in Requests, LoadFails(p)
    PROVE  HistoryInv'
<1>1. HistoryTypes /\ Lined /\ Starting /\ FileFollows /\ Apart
  BY DEF HistoryInv
<1>2. /\ request[p].at = "reading" /\ MoveTo(p, "failed")
      /\ mishaps' = mishaps \cup {"load"} /\ astray' = TRUE
      /\ UNCHANGED <<file, entries, nextSeq, loaded, seen, chain, job, payload, poisoned>>
  BY DEF LoadFails, mem, write
<1>3. /\ request' \in [Requests -> RequestType]
      /\ request'[p].at = "failed"
      /\ \A q \in Requests : q # p => request'[q] = request[q]
  BY <1>1, <1>2, MoveFacts DEF RequestPlaces
<1>4. ~Serving
  BY <1>2 DEF Serving, Loading
<1>5. HistoryTypes'
  BY <1>1, <1>2, <1>3 DEF HistoryTypes
<1>6. Lined'
  BY <1>1, <1>2, <1>4 DEF Starting, Lined
<1>7. Serving'
  <2>1. Warming(p) /\ \A q \in Requests : Warming(q) => q = p
    BY <1>1, <1>2, <1>4 DEF Starting, Warming
  <2>2. \A q \in Requests : ~Warming(q)'
    BY <1>3, <2>1 DEF Warming
  <2>3. loaded
    BY <1>1, <1>2, <1>4 DEF Starting, Loading
  <2> QED BY <1>2, <2>2, <2>3 DEF Serving, Loading, Warming
<1>8. Starting'
  BY <1>7 DEF Starting
<1>9. FileFollows' /\ Apart'
  BY <1>1, <1>2 DEF FileFollows, Apart
<1>10. "load" \in mishaps' /\ mishaps' # {}
  BY <1>2
<1> QED BY <1>5, <1>6, <1>8, <1>9, <1>10 DEF HistoryInv, OnlyChosenRecordsGo

(* The array is the newest part of the file, and ids go on after the       *)
(* largest one.                                                            *)
LEMMA FinishLoadKeeps ==
    ASSUME HistoryInv, NEW p \in Requests, FinishLoad(p)
    PROVE  HistoryInv'
<1>1. HistoryTypes /\ Lined /\ Starting /\ FileFollows /\ Apart
  BY DEF HistoryInv
<1>2. /\ request[p].at = "parsing" /\ MoveTo(p, "ready")
      /\ entries' = Trimmed(entries \o seen) /\ nextSeq' = SeqAfter(seen)
      /\ UNCHANGED <<file, loaded, seen, chain, job, payload, poisoned, deleted, mishaps, astray>>
  BY DEF FinishLoad, write, env
<1>3. /\ request' \in [Requests -> RequestType]
      /\ request'[p].at = "ready" /\ request'[p].kind = request[p].kind
      /\ request'[p].ids = request[p].ids
      /\ \A q \in Requests : q # p => request'[q] = request[q]
  BY <1>1, <1>2, MoveFacts DEF RequestPlaces
<1>4. ~Serving /\ loaded /\ chain = <<>> /\ job = "idle" /\ entries = <<>> /\ nextSeq = 1
  <2>1. Loading
    BY <1>2 DEF Loading
  <2>2. ~Serving
    BY <2>1 DEF Serving
  <2> QED BY <1>1, <2>1, <2>2 DEF Starting, Lined
<1>5. \A q \in Requests : ~Warming(q)'
  <2>1. Warming(p) /\ \A q \in Requests : Warming(q) => q = p
    BY <1>1, <1>2, <1>4 DEF Starting, Warming
  <2> QED BY <1>3, <2>1 DEF Warming
<1>6. Serving'
  <2>1. loaded'
    BY <1>2, <1>4
  <2> QED BY <1>5, <2>1 DEF Serving, Loading, Warming
<1>7. seen = file /\ file \in Seq(Record)
  BY <1>1, <1>2, <1>4 DEF Starting, HistoryTypes
<1>8. entries' = Trimmed(file)
  <2>1. entries \o seen = file
    BY <1>1, <1>4, <1>7 DEF HistoryTypes
  <2> QED BY <1>2, <2>1
<1>9. /\ entries' \in Seq(Record) /\ Len(entries') <= MaxEntries
      /\ RangeOf(entries') \subseteq RangeOf(file)
      /\ IdsAscend(file) =>
            /\ IdsAscend(entries')
            /\ \A e \in RangeOf(file) \ RangeOf(entries') :
                  /\ Len(entries') = MaxEntries
                  /\ \A o \in RangeOf(entries') : e.id < o.id
  BY <1>7, <1>8, TrimmedKeepsNewest
<1>10. nextSeq' \in Nat \ {0} /\ \A e \in RangeOf(file) : e.id < nextSeq'
  BY <1>2, <1>4, <1>7, SeqAfterAll
<1>11. /\ Stored' = Stored /\ Written' = Written
       /\ HeadPosts' <=> HeadPosts
  BY <1>2, <1>3, MovesAside
<1>12. Present = RangeOf(file) /\ Present' = RangeOf(file)
  <2>1. RangeOf(entries) = {} /\ RangeOf(file)' = RangeOf(file)
    BY <1>2, <1>4 DEF RangeOf
  <2>2. RangeOf(entries)' = RangeOf(entries')
    BY DEF RangeOf
  <2> QED BY <1>9, <2>1, <2>2 DEF Present
<1>13. HistoryTypes'
  BY <1>1, <1>2, <1>3, <1>9, <1>10 DEF HistoryTypes
<1>14. Lined'
  BY <1>1, <1>2, <1>4 DEF Lined
<1>15. Starting'
  BY <1>6 DEF Starting
<1>16. FileFollows' /\ Apart'
  BY <1>1, <1>2, <1>4, <1>8, <1>9 DEF FileFollows, Apart, Trimmed
<1>17. ~HeadPosts /\ ~HeadPosts'
  BY <1>4, <1>11 DEF HeadPosts
<1>18. Ordered => Ordered'
  BY <1>2, <1>4, <1>9, <1>10, <1>12 DEF Ordered, IdsAscend
<1>19. Ticked => Ticked'
  <2>1. \A q \in Requests : /\ Deleting(q)' <=> Deleting(q)
                            /\ request'[q].ids = request[q].ids
    BY <1>2, <1>3 DEF Deleting
  <2>2. ASSUME Ticked, NEW q \in Requests, Deleting(q), NEW id \in request[q].ids
        PROVE  (\A e \in Present : e.id = id => e \in deleted) /\ id < nextSeq'
    <3>1. PICK e \in RangeOf(file) : e.id = id
      BY <1>4, <2>2 DEF Ticked
    <3>2. id < nextSeq'
      BY <1>10, <3>1
    <3> QED BY <2>2, <3>2 DEF Ticked
  <2> QED BY <1>2, <1>4, <1>6, <1>12, <2>1, <2>2 DEF Ticked
<1>20. ASSUME mishaps' = {} PROVE NoneMissing'
  <2>1. NoneMissing /\ IdsAscend(file)
    BY <1>2, <1>20 DEF HistoryInv, Ordered
  <2>2. Base = RangeOf(file) /\ Base' = RangeOf(entries')
    BY <1>4, <1>6 DEF Base, RangeOf
  <2>3. ASSUME NEW e \in Stored PROVE e \in RangeOf(entries') \/ Accounted(Written, e)
    <3>1. e \in RangeOf(file) \/ Accounted(Written, e)
      BY <2>1, <2>2, <2>3 DEF NoneMissing
    <3>2. CASE e \in RangeOf(file) \ RangeOf(entries')
      <4>1. PICK s \in Seq(Record) : s = entries'
        BY <1>9
      <4>2. IsFiniteSet(Written) /\ RangeOf(s) \subseteq Written
        BY <1>9, <1>12, <2>1, <4>1 DEF NoneMissing
      <4>3. IdsAscend(s) /\ Len(s) = MaxEntries /\ \A o \in RangeOf(s) : e.id < o.id
        BY <1>9, <2>1, <3>2, <4>1
      <4> QED BY <4>2, <4>3, PushedOutAccounted
    <3> QED BY <3>1, <3>2
  <2>4. \A e : Accounted(Written, e) => Accounted(Written, e)'
    BY <1>2, <1>11 DEF Accounted, Younger
  <2> QED BY <1>11, <1>12, <2>1, <2>2, <2>3, <2>4 DEF NoneMissing
<1>21. OnlyChosenRecordsGo'
  BY <1>2, <1>11 DEF HistoryInv, OnlyChosenRecordsGo, Younger, RangeOf
<1> QED BY <1>2, <1>13, <1>14, <1>15, <1>16, <1>17, <1>18, <1>19, <1>20, <1>21
        DEF HistoryInv, HeadThere
(* Requests are ready only when the file has been loaded.                  *)
LEMMA ReadyServes ==
    ASSUME HistoryInv, NEW p \in Requests, request[p].at = "ready"
    PROVE  Serving /\ \A q \in Requests : ~Warming(q)
<1>1. Serving
  BY DEF HistoryInv, Starting
<1> QED BY <1>1 DEF Serving, Loading, Warming

LEMMA StillServing ==
    ASSUME Serving, \A q \in Requests : ~Warming(q), NEW p \in Requests,
           \A q \in Requests : q # p => request'[q] = request[q],
           request'[p].at \notin {"reading", "parsing"}, UNCHANGED loaded
    PROVE  Serving'
  BY DEF Serving, Loading, Warming

LEMMA GetKeeps ==
    ASSUME HistoryInv, NEW p \in Requests, Get(p)
    PROVE  HistoryInv'
<1>1. HistoryTypes /\ Lined /\ Starting /\ FileFollows /\ Apart
  BY DEF HistoryInv
<1>2. /\ request[p].at = "ready" /\ request[p].kind = "get" /\ MoveTo(p, "ok")
      /\ UNCHANGED <<file, entries, nextSeq, loaded, seen, chain, job, payload, poisoned, deleted,
                     mishaps, astray>>
  BY DEF Get, mem, write, env
<1>3. /\ request' \in [Requests -> RequestType]
      /\ request'[p].at = "ok" /\ request'[p].kind = "get"
      /\ \A q \in Requests : q # p => request'[q] = request[q]
  BY <1>1, <1>2, MoveFacts DEF RequestPlaces
<1>4. Serving /\ Serving'
  <2>1. Serving /\ \A q \in Requests : ~Warming(q)
    BY <1>2, ReadyServes
  <2>2. request'[p].at \notin {"reading", "parsing"}
    BY <1>3
  <2> QED BY <1>2, <1>3, <2>1, <2>2, StillServing
<1>5. ~Posting(p)'
  BY <1>3 DEF Posting
<1>6. /\ \A i \in DOMAIN chain : chain[i] # p /\ request'[chain[i]] = request[chain[i]]
      /\ Stored' = Stored /\ Written' = Written
      /\ HeadPosts' <=> HeadPosts
      /\ HeadPosts => Active' = Active
  BY <1>2, <1>3, <1>5, MovesAside
<1>7. HistoryTypes'
  BY <1>1, <1>2, <1>3 DEF HistoryTypes
<1>8. Lined' /\ (Ordered /\ HeadThere => Ordered' /\ HeadThere')
  BY <1>1, <1>2, <1>4, <1>6, QueueKept
<1>9. Starting'
  BY <1>4 DEF Starting
<1>10. FileFollows' /\ Apart'
  <2>1. job = "appended" => HeadPosts
    BY <1>1 DEF HeadPosts, Lined
  <2> QED BY <1>1, <1>2, <1>4, <1>6, <2>1 DEF FileFollows, Apart, Trimmed
<1>11. Ticked => Ticked'
  <2>1. Present' = Present
    BY <1>2 DEF Present, RangeOf
  <2>2. \A q \in Requests : Deleting(q)' => q # p /\ Deleting(q) /\ request'[q] = request[q]
    BY <1>3 DEF Deleting
  <2>3. \A i \in DOMAIN chain : Posting(chain[i])' <=> Posting(chain[i])
    BY <1>2, <1>6 DEF Posting
  <2> QED BY <1>1, <1>2, <1>4, <1>6, <2>1, <2>2, <2>3 DEF Ticked
<1>12. (mishaps' = {} => NoneMissing') /\ OnlyChosenRecordsGo'
  <2>1. Base' = Base
    BY <1>2, <1>4 DEF Base, RangeOf
  <2> QED BY <1>2, <1>6, <2>1, NothingWritten
<1> QED BY <1>2, <1>7, <1>8, <1>9, <1>10, <1>11, <1>12 DEF HistoryInv

(* A request joins the end of the line, or fails with it.                  *)
LEMMA Joins ==
    ASSUME HistoryInv, NEW p \in Requests, request[p].at = "ready", request[p].kind # "get",
           request' \in [Requests -> RequestType],
           request'[p].at = Joined, request'[p].kind = request[p].kind,
           \A q \in Requests : q # p => request'[q] = request[q],
           JoinChain(p), UNCHANGED <<job, poisoned>>
    PROVE  /\ Lined' /\ chain' \in Seq(Requests)
           /\ \A i \in DOMAIN chain : /\ i \in DOMAIN chain' /\ chain'[i] = chain[i]
                                      /\ request'[chain[i]] = request[chain[i]]
           /\ \A i \in DOMAIN chain' : i \notin DOMAIN chain =>
                 i = Len(chain) + 1 /\ chain'[i] = p
           /\ HeadPosts' <=> HeadPosts
           /\ HeadPosts => Active' = Active
           /\ Stored' = Stored /\ Written' = Written
<1>1. chain \in Seq(Requests) /\ Lined
  BY DEF HistoryInv, HistoryTypes
<1>2. \A i \in DOMAIN chain : /\ chain[i] # p /\ request'[chain[i]] = request[chain[i]]
                              /\ request[chain[i]].at = "chained"
                              /\ request[chain[i]].kind # "get"
  <2>1. \A i \in DOMAIN chain : chain[i] \in Requests /\ request[chain[i]].at = "chained"
                                /\ request[chain[i]].kind # "get"
    BY <1>1 DEF Lined
  <2> QED BY <2>1
<1>3. chain' \in Seq(Requests) /\ (chain' = chain \/ chain' = Append(chain, p))
  BY <1>1 DEF JoinChain
<1>4. \A i \in DOMAIN chain : i \in DOMAIN chain' /\ chain'[i] = chain[i]
  BY <1>1, <1>3
<1>5. \A i \in DOMAIN chain' : i \notin DOMAIN chain =>
          i = Len(chain) + 1 /\ chain'[i] = p /\ ~poisoned
  <2>1. CASE poisoned
    BY <2>1 DEF JoinChain
  <2>2. CASE ~poisoned
    <3>1. chain' = Append(chain, p)
      BY <2>2 DEF JoinChain
    <3> QED BY <1>1, <2>2, <3>1
  <2> QED BY <2>1, <2>2
<1>6. \A i \in DOMAIN chain' : i \notin DOMAIN chain => request'[p].at = "chained"
  BY <1>5 DEF Joined
<1>7. job # "idle" => 1 \in DOMAIN chain /\ Head(chain) = chain[1] /\ Head(chain') = chain[1]
  <2>1. SUFFICES ASSUME job # "idle"
                 PROVE  1 \in DOMAIN chain /\ Head(chain) = chain[1] /\ Head(chain') = chain[1]
    OBVIOUS
  <2>2. 1 \in DOMAIN chain
    BY <1>1, <2>1 DEF Lined
  <2>3. 1 \in DOMAIN chain' /\ chain'[1] = chain[1]
    BY <1>4, <2>2
  <2> QED BY <1>1, <1>3, <2>2, <2>3
<1>8. (HeadPosts' <=> HeadPosts) /\ (HeadPosts => Active' = Active)
  BY <1>2, <1>7 DEF HeadPosts, Posting, Active
<1>9. Stored' = Stored
  <2>1. request'[p].at \notin {"ok", "halfway"}
    BY DEF Joined
  <2>2. \A q \in Requests : Landed(q)' <=> Landed(q)
    BY <2>1 DEF Landed, Posting
  <2>3. \A q \in Requests : Landed(q) => request'[q].rec = request[q].rec
    BY DEF Landed
  <2> QED BY <2>2, <2>3, StoredKept
<1>10. Written' = Written
  <2>1. CASE HeadPosts
    BY <1>8, <1>9, <2>1 DEF Written
  <2>2. CASE ~HeadPosts
    BY <1>8, <1>9, <2>2 DEF Written
  <2> QED BY <2>1, <2>2
<1>11. Lined'
  <2>1. \A i \in DOMAIN chain' : /\ request'[chain'[i]].at = "chained"
                                 /\ request'[chain'[i]].kind # "get"
    <3> SUFFICES ASSUME NEW i \in DOMAIN chain'
                 PROVE  request'[chain'[i]].at = "chained" /\ request'[chain'[i]].kind # "get"
      OBVIOUS
    <3>1. CASE i \in DOMAIN chain
      BY <1>2, <1>4, <3>1
    <3>2. CASE i \notin DOMAIN chain
      BY <1>5, <1>6, <3>2
    <3> QED BY <3>1, <3>2
  <2>2. ASSUME NEW i \in DOMAIN chain', NEW j \in DOMAIN chain', chain'[i] = chain'[j]
        PROVE  i = j
    <3>1. CASE i \in DOMAIN chain /\ j \in DOMAIN chain
      BY <1>1, <1>4, <2>2, <3>1 DEF Lined
    <3>2. CASE i \in DOMAIN chain /\ j \notin DOMAIN chain
      BY <1>2, <1>4, <1>5, <2>2, <3>2
    <3>3. CASE i \notin DOMAIN chain /\ j \in DOMAIN chain
      BY <1>2, <1>4, <1>5, <2>2, <3>3
    <3>4. CASE i \notin DOMAIN chain /\ j \notin DOMAIN chain
      BY <1>5, <3>4
    <3> QED BY <3>1, <3>2, <3>3, <3>4
  <2>3. job' # "idle" => chain' # <<>>
    <3>1. job' # "idle" => 1 \in DOMAIN chain'
      BY <1>4, <1>7
    <3> QED BY <1>3, <3>1
  <2>4. job' = "appended" => Posting(Head(chain))'
    BY <1>1, <1>2, <1>7 DEF Lined, Posting
  <2>5. poisoned' => chain' = <<>>
    BY <1>1 DEF Lined, JoinChain
  <2> QED BY <2>1, <2>2, <2>3, <2>4, <2>5 DEF Lined
<1> QED BY <1>2, <1>3, <1>4, <1>5, <1>8, <1>9, <1>10, <1>11

LEMMA PostKeeps ==
    ASSUME HistoryInv, NEW p \in Requests, Post(p)
    PROVE  HistoryInv'
<1>1. HistoryTypes /\ Lined /\ Starting /\ FileFollows /\ Apart
  BY DEF HistoryInv
<1>2. /\ request[p].at = "ready" /\ request[p].kind = "post" /\ JoinChain(p)
      /\ nextSeq' = nextSeq + 1
      /\ UNCHANGED <<file, entries, loaded, seen, job, payload, poisoned, deleted,
                     mishaps, astray>>
  BY DEF Post, env
<1>3. /\ request' \in [Requests -> RequestType]
      /\ request'[p].at = Joined /\ request'[p].kind = "post"
      /\ request'[p].rec.id = nextSeq
      /\ \A q \in Requests : q # p => request'[q] = request[q]
  <2>1. request \in [Requests -> RequestType] /\ nextSeq \in Nat
    BY <1>1 DEF HistoryTypes
  <2>2. PICK place \in RequestPlaces : place = Joined
    BY DEF RequestPlaces, Joined
  <2>3. PICK rec : rec = [id |-> nextSeq, by |-> p]
    OBVIOUS
  <2>4. rec \in Record /\ rec.id = nextSeq
    BY <2>1, <2>3 DEF Record
  <2>5. request' = [request EXCEPT ![p].at = place, ![p].rec = rec]
    BY <2>2, <2>3 DEF Post, NormalizedEntry
  <2>6. PICK r : r = [request[p] EXCEPT !.at = place, !.rec = rec]
    OBVIOUS
  <2>7. request[p] \in RequestType
    BY <2>1
  <2>8. r \in RequestType /\ r.at = place /\ r.rec = rec /\ r.kind = request[p].kind
    BY <2>6, <2>7, <2>4 DEF RequestType
  <2>9. request' = [request EXCEPT ![p] = r]
    BY <2>1, <2>5, <2>6
  <2> QED BY <1>2, <2>1, <2>2, <2>8, <2>9, <2>4
<1>4. Serving /\ Serving'
  <2>1. Serving /\ \A q \in Requests : ~Warming(q)
    BY <1>2, ReadyServes
  <2>2. request'[p].at \notin {"reading", "parsing"}
    BY <1>3 DEF Joined
  <2> QED BY <1>2, <1>3, <2>1, <2>2, StillServing
<1>5. /\ Lined' /\ chain' \in Seq(Requests)
      /\ \A i \in DOMAIN chain : /\ i \in DOMAIN chain' /\ chain'[i] = chain[i]
                                 /\ request'[chain[i]] = request[chain[i]]
      /\ \A i \in DOMAIN chain' : i \notin DOMAIN chain =>
            i = Len(chain) + 1 /\ chain'[i] = p
      /\ HeadPosts' <=> HeadPosts
      /\ HeadPosts => Active' = Active
      /\ Stored' = Stored /\ Written' = Written
  BY <1>2, <1>3, Joins
<1>6. HistoryTypes'
  BY <1>1, <1>2, <1>3, <1>5 DEF HistoryTypes
<1>7. Starting'
  BY <1>4 DEF Starting
<1>8. job = "appended" => HeadPosts
  BY <1>1 DEF HeadPosts, Lined
<1>9. FileFollows' /\ Apart'
  <2>1. job = "appended" => Active' = Active
    BY <1>5, <1>8
  <2> QED BY <1>1, <1>2, <1>4, <2>1 DEF FileFollows, Apart, Trimmed
<1>10. Present' = Present /\ Base' = Base
  BY <1>2, <1>4 DEF Present, RangeOf, Base
<1>11. nextSeq \in Nat /\ nextSeq' \in Nat /\ nextSeq < nextSeq' /\ nextSeq > 0
  BY <1>1, <1>2 DEF HistoryTypes
<1>12. \A i \in DOMAIN chain : /\ Posting(chain[i])' <=> Posting(chain[i])
                               /\ Coming(i)' <=> Coming(i)
  BY <1>2, <1>5 DEF Posting, Coming
<1>13. ASSUME Ordered, Ticked PROVE Ordered' /\ Ticked'
  <2>1. /\ \A e \in Present : e \in Record /\ e.id \in Nat /\ e.id < nextSeq
        /\ \A i \in DOMAIN chain : request[chain[i]].rec.id \in Nat
    <3>1. Present \subseteq Record
      BY <1>1, <1>13, RangeIn DEF HistoryTypes, Present
    <3>2. \A e \in Present : e \in Record /\ e.id \in Nat
      BY <3>1 DEF Record
    <3>3. ASSUME NEW i \in DOMAIN chain PROVE request[chain[i]].rec.id \in Nat
      <4>1. request[chain[i]] \in RequestType
        BY <1>1 DEF HistoryTypes
      <4> QED BY <4>1 DEF RequestType, Record
    <3> QED BY <1>1, <1>13, <1>4, <3>2, <3>3 DEF Ordered
  <2>2. Ordered'
    <3>1. IdsAscend(entries)' /\ IdsAscend(file)' /\ \A e \in Present' : e.id > 0
      BY <1>1, <1>13, <1>2, <1>10 DEF Ordered, IdsAscend
    <3>2. \A e \in Present' : e.id < nextSeq'
      BY <1>10, <1>11, <2>1
    <3>3. ASSUME NEW i \in DOMAIN chain', Posting(chain[i])'
          PROVE  request'[chain'[i]].rec.id < nextSeq' /\ request'[chain'[i]].rec.id > 0
      <4>1. CASE i \in DOMAIN chain
        <5>1. request[chain[i]].rec.id < nextSeq /\ request[chain[i]].rec.id > 0
          BY <1>1, <1>13, <1>5, <1>12, <3>3, <4>1 DEF Ordered, Posting
        <5>2. request'[chain'[i]].rec = request[chain[i]].rec
          BY <1>5, <4>1
        <5>3. request[chain[i]].rec.id \in Nat
          BY <2>1, <4>1
        <5> QED BY <1>11, <5>1, <5>2, <5>3
      <4>2. CASE i \notin DOMAIN chain
        BY <1>3, <1>5, <1>11, <4>2
      <4> QED BY <4>1, <4>2
    <3>4. ASSUME NEW i \in DOMAIN chain', Coming(i)', NEW e \in Present'
          PROVE  e.id < request'[chain'[i]].rec.id
      <4>1. CASE i \in DOMAIN chain
        BY <1>1, <1>13, <1>5, <1>10, <1>12, <3>4, <4>1 DEF Ordered
      <4>2. CASE i \notin DOMAIN chain
        BY <1>3, <1>5, <1>10, <2>1, <4>2
      <4> QED BY <4>1, <4>2
    <3>5. ASSUME NEW i \in DOMAIN chain', NEW j \in DOMAIN chain', i < j,
                 Posting(chain[i])', Posting(chain[j])'
          PROVE  request'[chain'[i]].rec.id < request'[chain'[j]].rec.id
      <4>1. i \in DOMAIN chain
        <5>1. chain \in Seq(Requests)
          BY <1>1 DEF HistoryTypes
        <5>2. i \in Nat /\ j \in Nat /\ i >= 1 /\ (j \in DOMAIN chain \/ j = Len(chain) + 1)
          BY <1>5
        <5> QED BY <3>5, <5>1, <5>2
      <4>2. CASE j \in DOMAIN chain
        <5>1. Posting(chain[i]) /\ Posting(chain[j])
          BY <1>5, <1>12, <3>5, <4>1, <4>2 DEF Posting
        <5>2. request[chain[i]].rec.id < request[chain[j]].rec.id
          BY <1>1, <1>13, <3>5, <4>1, <4>2, <5>1 DEF Ordered
        <5> QED BY <1>5, <4>1, <4>2, <5>2
      <4>3. CASE j \notin DOMAIN chain
        <5>1. Posting(chain[i])
          BY <1>5, <1>12, <3>5, <4>1 DEF Posting
        <5>2. request[chain[i]].rec.id < nextSeq
          BY <1>1, <1>13, <4>1, <5>1 DEF Ordered
        <5> QED BY <1>3, <1>5, <4>1, <4>3, <5>2
      <4> QED BY <4>2, <4>3
    <3> QED BY <3>1, <3>2, <3>3, <3>4, <3>5 DEF Ordered
  <2>3. Ticked'
    <3>1. ASSUME NEW q \in Requests, Deleting(q)', NEW id \in request'[q].ids
          PROVE  /\ \A e \in Present' : e.id = id => e \in deleted'
                 /\ \A i \in DOMAIN chain' :
                       Posting(chain[i])' /\ request'[chain'[i]].rec.id = id =>
                           request'[chain'[i]].rec \in deleted'
                 /\ id < nextSeq'
      <4>1. q # p /\ Deleting(q) /\ id \in request[q].ids
        BY <1>3, <3>1 DEF Deleting
      <4>2. id < nextSeq
        BY <1>1, <1>13, <1>4, <4>1 DEF Ticked
      <4>3. id \in Nat
        BY <1>1, <1>13, <4>1 DEF HistoryTypes, RequestType
      <4>4. ASSUME NEW i \in DOMAIN chain', Posting(chain[i])', request'[chain'[i]].rec.id = id
            PROVE  request'[chain'[i]].rec \in deleted'
        <5>1. CASE i \in DOMAIN chain
          <6>1. Posting(chain[i]) /\ request[chain[i]].rec.id = id
            BY <1>5, <1>12, <4>4, <5>1 DEF Posting
          <6> QED BY <1>1, <1>13, <1>2, <1>5, <4>1, <5>1, <6>1 DEF Ticked
        <5>2. CASE i \notin DOMAIN chain
          BY <1>3, <1>5, <1>11, <4>2, <4>3, <4>4, <5>2
        <5> QED BY <5>1, <5>2
      <4>5. \A e \in Present' : e.id = id => e \in deleted'
        BY <1>1, <1>13, <1>2, <1>10, <4>1 DEF Ticked
      <4> QED BY <1>11, <4>2, <4>3, <4>4, <4>5
    <3> QED BY <1>4, <3>1 DEF Ticked
  <2> QED BY <2>2, <2>3
<1>14. (mishaps' = {} => NoneMissing') /\ OnlyChosenRecordsGo'
  BY <1>2, <1>5, <1>10, NothingWritten
<1>15. HeadThere => HeadThere'
  BY <1>2, <1>5 DEF HeadThere, RangeOf
<1> QED BY <1>2, <1>5, <1>6, <1>7, <1>9, <1>13, <1>14, <1>15 DEF HistoryInv

LEMMA DeleteKeeps ==
    ASSUME HistoryInv, NEW p \in Requests, Delete(p)
    PROVE  HistoryInv'
<1>1. HistoryTypes /\ Lined /\ Starting /\ FileFollows /\ Apart
  BY DEF HistoryInv
<1>2. /\ request[p].at = "ready" /\ request[p].kind \in {"delete", "clear"} /\ JoinChain(p)
      /\ MoveTo(p, Joined)
      /\ UNCHANGED <<file, entries, nextSeq, loaded, seen, job, payload, poisoned, deleted,
                     mishaps, astray>>
  BY DEF Delete, mem, env
<1>3. /\ request' \in [Requests -> RequestType]
      /\ request'[p].at = Joined /\ request'[p].kind = request[p].kind
      /\ request'[p].ids = request[p].ids
      /\ \A q \in Requests : q # p => request'[q] = request[q]
  <2>1. PICK place \in RequestPlaces : place = Joined
    BY DEF RequestPlaces, Joined
  <2> QED BY <1>1, <1>2, <2>1, MoveFacts
<1>4. Serving /\ Serving'
  <2>1. Serving /\ \A q \in Requests : ~Warming(q)
    BY <1>2, ReadyServes
  <2>2. request'[p].at \notin {"reading", "parsing"}
    BY <1>3 DEF Joined
  <2> QED BY <1>2, <1>3, <2>1, <2>2, StillServing
<1>5. /\ Lined' /\ chain' \in Seq(Requests)
      /\ \A i \in DOMAIN chain : /\ i \in DOMAIN chain' /\ chain'[i] = chain[i]
                                 /\ request'[chain[i]] = request[chain[i]]
      /\ \A i \in DOMAIN chain' : i \notin DOMAIN chain =>
            i = Len(chain) + 1 /\ chain'[i] = p
      /\ HeadPosts' <=> HeadPosts
      /\ HeadPosts => Active' = Active
      /\ Stored' = Stored /\ Written' = Written
  BY <1>2, <1>3, Joins
<1>6. HistoryTypes'
  BY <1>1, <1>2, <1>3, <1>5 DEF HistoryTypes
<1>7. Starting'
  BY <1>4 DEF Starting
<1>8. job = "appended" => HeadPosts
  BY <1>1 DEF HeadPosts, Lined
<1>9. FileFollows' /\ Apart'
  <2>1. job = "appended" => Active' = Active
    BY <1>5, <1>8
  <2> QED BY <1>1, <1>2, <1>4, <2>1 DEF FileFollows, Apart, Trimmed
<1>10. Present' = Present /\ Base' = Base
  BY <1>2, <1>4 DEF Present, RangeOf, Base
<1>11. \A i \in DOMAIN chain' : Posting(chain[i])' =>
           i \in DOMAIN chain /\ chain'[i] = chain[i] /\ Posting(chain[i])
                              /\ request'[chain'[i]] = request[chain[i]]
  <2>1. ~Posting(p)'
    BY <1>2, <1>3 DEF Posting
  <2> QED BY <1>5, <2>1 DEF Posting
<1>12. \A i \in DOMAIN chain' : Coming(i)' => i \in DOMAIN chain /\ Coming(i)
  BY <1>2, <1>11 DEF Coming, Posting
<1>13. ASSUME Ordered, Ticked PROVE Ordered' /\ Ticked'
  <2>1. Ordered'
    <3>1. IdsAscend(entries)' /\ IdsAscend(file)' /\ \A e \in Present' : e.id > 0
      BY <1>1, <1>13, <1>2, <1>10 DEF Ordered, IdsAscend
    <3>2. \A e \in Present' : e.id < nextSeq'
      BY <1>1, <1>13, <1>2, <1>4, <1>10 DEF Ordered
    <3>3. \A i \in DOMAIN chain' : Posting(chain[i])' =>
              request'[chain'[i]].rec.id < nextSeq' /\ request'[chain'[i]].rec.id > 0
      BY <1>1, <1>13, <1>2, <1>11 DEF Ordered
    <3>4. \A i \in DOMAIN chain' : Coming(i)' =>
              \A e \in Present' : e.id < request'[chain'[i]].rec.id
      BY <1>1, <1>13, <1>5, <1>10, <1>12 DEF Ordered
    <3>5. \A i, j \in DOMAIN chain' : i < j /\ Posting(chain[i])' /\ Posting(chain[j])' =>
              request'[chain'[i]].rec.id < request'[chain'[j]].rec.id
      BY <1>1, <1>13, <1>11 DEF Ordered
    <3> QED BY <3>1, <3>2, <3>3, <3>4, <3>5 DEF Ordered
  <2>2. Ticked'
    <3>1. \A q \in Requests : Deleting(q)' => Deleting(q) /\ request'[q].ids = request[q].ids
      BY <1>2, <1>3 DEF Deleting
    <3> QED BY <1>1, <1>13, <1>2, <1>4, <1>10, <1>11, <3>1 DEF Ticked
  <2> QED BY <2>1, <2>2
<1>14. (mishaps' = {} => NoneMissing') /\ OnlyChosenRecordsGo'
  BY <1>2, <1>5, <1>10, NothingWritten
<1>15. HeadThere => HeadThere'
  BY <1>2, <1>5 DEF HeadThere, RangeOf
<1> QED BY <1>2, <1>5, <1>6, <1>7, <1>9, <1>13, <1>14, <1>15 DEF HistoryInv

------------------------------------------------------------------------------
(* The steps of the writes                                                 *)

HeadIs == chain # <<>> =>
    /\ 1 \in DOMAIN chain /\ Head(chain) = chain[1] /\ chain[1] \in Requests
    /\ Active = request[chain[1]] /\ Active \in RequestType /\ Active.rec \in Record
    /\ Active.at = "chained" /\ Active.kind # "get"
    /\ Serving /\ \A q \in Requests : ~Warming(q)

LEMMA HeadHolds == HistoryInv => HeadIs
<1> SUFFICES ASSUME HistoryInv, chain # <<>>
             PROVE  /\ 1 \in DOMAIN chain /\ Head(chain) = chain[1] /\ chain[1] \in Requests
                    /\ Active = request[chain[1]] /\ Active \in RequestType
                    /\ Active.rec \in Record
                    /\ Active.at = "chained" /\ Active.kind # "get"
                    /\ Serving /\ \A q \in Requests : ~Warming(q)
  BY DEF HeadIs
<1>1. chain \in Seq(Requests) /\ request \in [Requests -> RequestType]
  BY DEF HistoryInv, HistoryTypes
<1>2. 1 \in DOMAIN chain /\ Head(chain) = chain[1] /\ chain[1] \in Requests
  BY <1>1
<1>3. Active = request[chain[1]] /\ Active \in RequestType
  BY <1>1, <1>2 DEF Active
<1>4. Active.rec \in Record
  BY <1>3 DEF RequestType
<1>5. Active.at = "chained" /\ Active.kind # "get"
  BY <1>2, <1>3 DEF HistoryInv, Lined
<1>6. Serving
  BY DEF HistoryInv, Starting
<1> QED BY <1>2, <1>3, <1>4, <1>5, <1>6 DEF Serving, Loading, Warming

LEMMA RecordIds ==
    ASSUME HistoryInv
    PROVE  /\ Present \subseteq Record
           /\ \A e \in Present : e.id \in Nat
           /\ \A i \in DOMAIN chain : /\ chain[i] \in Requests
                                      /\ request[chain[i]].rec \in Record
                                      /\ request[chain[i]].rec.id \in Nat
<1>1. Present \subseteq Record
  BY RangeIn DEF HistoryInv, HistoryTypes, Present
<1>2. \A e \in Present : e.id \in Nat
  BY <1>1 DEF Record
<1>3. ASSUME NEW i \in DOMAIN chain
      PROVE  /\ chain[i] \in Requests
             /\ request[chain[i]].rec \in Record /\ request[chain[i]].rec.id \in Nat
  <2>1. chain[i] \in Requests
    BY DEF HistoryInv, HistoryTypes
  <2>2. request[chain[i]] \in RequestType
    BY <2>1 DEF HistoryInv, HistoryTypes
  <2>3. request[chain[i]].rec \in Record
    BY <2>2 DEF RequestType
  <2> QED BY <2>1, <2>3 DEF Record
<1> QED BY <1>1, <1>2, <1>3

(* The write in progress goes on; records only leave array and file.       *)
LEMMA WriteGoesOn ==
    ASSUME HistoryInv, chain # <<>>, UNCHANGED <<request, chain, nextSeq, loaded, poisoned>>,
           job' \in {"compacting", "rewriting"}, deleted \subseteq deleted'
    PROVE  /\ Lined' /\ Starting' /\ Serving /\ Serving' /\ Stored' = Stored
           /\ /\ Ordered /\ Ticked /\ IdsAscend(entries)' /\ IdsAscend(file)'
              /\ Present' \subseteq Present
              => Ordered' /\ Ticked'
<1>1. Lined
  BY DEF HistoryInv
<1>2. Serving /\ Serving'
  <2>1. Serving
    BY HeadHolds DEF HeadIs
  <2> QED BY <2>1 DEF Serving, Loading
<1>3. Lined'
  BY <1>1 DEF Lined
<1>4. \A i \in DOMAIN chain : /\ Posting(chain[i])' <=> Posting(chain[i])
                              /\ Coming(i)' => Coming(i)
  BY DEF Posting, Coming
<1>5. Ordered /\ IdsAscend(entries)' /\ IdsAscend(file)' /\ Present' \subseteq Present => Ordered'
  BY <1>2, <1>4 DEF Ordered
<1>6. Ticked /\ Present' \subseteq Present => Ticked'
  <2>1. \A q \in Requests : Deleting(q)' <=> Deleting(q)
    BY DEF Deleting
  <2> QED BY <1>2, <1>4, <2>1 DEF Ticked
<1>7. Stored' = Stored
  <2>1. \A q \in Requests : (Landed(q)' <=> Landed(q)) /\ request'[q].rec = request[q].rec
    BY DEF Landed, Posting
  <2> QED BY <2>1, StoredKept
<1> QED BY <1>2, <1>3, <1>5, <1>6, <1>7 DEF Starting

(* It is done, and the next one is its own head.                           *)
LEMMA WriteEnds ==
    ASSUME HistoryInv, WriteDone, job # "idle",
           UNCHANGED <<nextSeq, loaded, poisoned, deleted>>
    PROVE  /\ Lined' /\ Starting' /\ Serving /\ Serving'
           /\ request' \in [Requests -> RequestType] /\ chain' \in Seq(Requests)
           /\ Written' = Written /\ Stored' = Written /\ ~HeadPosts'
           /\ Stored' = Stored \cup (IF HeadPosts THEN {Active.rec} ELSE {})
           /\ /\ Ordered /\ Ticked /\ IdsAscend(entries)' /\ IdsAscend(file)'
              /\ Present' \subseteq Present
              => Ordered' /\ Ticked'
<1>1. HistoryTypes /\ Lined
  BY DEF HistoryInv
<1>2. chain # <<>>
  BY <1>1 DEF Lined
<1>3. /\ 1 \in DOMAIN chain /\ Head(chain) = chain[1] /\ chain[1] \in Requests
      /\ Active = request[chain[1]] /\ Active.at = "chained"
      /\ Serving /\ \A q \in Requests : ~Warming(q)
  BY <1>2, HeadHolds DEF HeadIs
<1>4. PICK p \in Requests : p = chain[1]
  BY <1>3
<1>5. MoveTo(p, "ok") /\ chain' = Tail(chain) /\ job' = "idle"
  BY <1>3, <1>4 DEF WriteDone
<1>6. /\ request' \in [Requests -> RequestType]
      /\ request'[p].at = "ok" /\ request'[p].kind = request[p].kind
      /\ request'[p].rec = request[p].rec
      /\ \A q \in Requests : q # p => request'[q] = request[q]
  BY <1>1, <1>5, MoveFacts DEF RequestPlaces
<1>7. Serving'
  <2>1. request'[p].at \notin {"reading", "parsing"}
    BY <1>6
  <2> QED BY <1>3, <1>6, <2>1, StillServing
<1>8. chain \in Seq(Requests)
  BY <1>1 DEF HistoryTypes
<1>9. /\ chain' \in Seq(Requests)
      /\ \A i \in DOMAIN chain' : /\ i \in Nat /\ i + 1 \in DOMAIN chain /\ i + 1 # 1
                                  /\ chain'[i] = chain[i + 1]
  BY <1>2, <1>5, <1>8
<1>10. ASSUME NEW i \in DOMAIN chain'
       PROVE  chain'[i] # p /\ request'[chain'[i]] = request[chain[i + 1]]
  <2>1. chain[i + 1] # p
    BY <1>1, <1>3, <1>4, <1>9 DEF Lined
  <2>2. chain[i + 1] \in Requests
    BY <1>8, <1>9
  <2> QED BY <1>6, <1>9, <2>1, <2>2
<1>11. Lined'
  <2>1. \A i \in DOMAIN chain' : /\ request'[chain'[i]].at = "chained"
                                 /\ request'[chain'[i]].kind # "get"
    BY <1>1, <1>9, <1>10 DEF Lined
  <2>2. ASSUME NEW i \in DOMAIN chain', NEW j \in DOMAIN chain', chain'[i] = chain'[j]
        PROVE  i = j
    <3>1. i + 1 = j + 1
      BY <1>1, <1>9, <2>2 DEF Lined
    <3> QED BY <1>9, <3>1
  <2>3. ~poisoned
    BY <1>1, <1>2 DEF Lined
  <2> QED BY <1>5, <2>1, <2>2, <2>3 DEF Lined
<1>12. \A i \in DOMAIN chain' : /\ Posting(chain[i])' <=> Posting(chain[i + 1])
                                /\ Coming(i)' => Coming(i + 1)
  BY <1>9, <1>10 DEF Posting, Coming
<1>13. ASSUME Ordered, IdsAscend(entries)', IdsAscend(file)', Present' \subseteq Present
       PROVE  Ordered'
  <2>1. \A e \in Present' : e.id > 0 /\ e.id < nextSeq'
    BY <1>13, <1>3 DEF Ordered
  <2>2. ASSUME NEW i \in DOMAIN chain', Posting(chain[i])'
        PROVE  request'[chain'[i]].rec.id < nextSeq' /\ request'[chain'[i]].rec.id > 0
    BY <1>13, <1>9, <1>10, <1>12, <2>2 DEF Ordered
  <2>3. ASSUME NEW i \in DOMAIN chain', Coming(i)', NEW e \in Present'
        PROVE  e.id < request'[chain'[i]].rec.id
    BY <1>13, <1>9, <1>10, <1>12, <2>3 DEF Ordered
  <2>4. ASSUME NEW i \in DOMAIN chain', NEW j \in DOMAIN chain', i < j,
               Posting(chain[i])', Posting(chain[j])'
        PROVE  request'[chain'[i]].rec.id < request'[chain'[j]].rec.id
    <3>1. i + 1 \in DOMAIN chain /\ j + 1 \in DOMAIN chain /\ i + 1 < j + 1
      BY <1>9, <2>4
    <3>2. request[chain[i + 1]].rec.id < request[chain[j + 1]].rec.id
      BY <1>13, <1>12, <2>4, <3>1 DEF Ordered
    <3> QED BY <1>10, <3>2
  <2> QED BY <1>13, <2>1, <2>2, <2>3, <2>4 DEF Ordered
<1>14. ASSUME Ticked, Present' \subseteq Present PROVE Ticked'
  <2>1. \A q \in Requests : Deleting(q)' => q # p /\ Deleting(q) /\ request'[q] = request[q]
    BY <1>6 DEF Deleting
  <2>2. ASSUME NEW q \in Requests, Deleting(q)', NEW id \in request'[q].ids
        PROVE  /\ \A e \in Present' : e.id = id => e \in deleted'
               /\ \A i \in DOMAIN chain' :
                     Posting(chain[i])' /\ request'[chain'[i]].rec.id = id =>
                         request'[chain'[i]].rec \in deleted'
               /\ id < nextSeq'
    <3>1. Deleting(q) /\ id \in request[q].ids
      BY <2>1, <2>2
    <3>2. (\A e \in Present : e.id = id => e \in deleted) /\ id < nextSeq
      BY <1>14, <1>3, <3>1 DEF Ticked
    <3>3. ASSUME NEW i \in DOMAIN chain', Posting(chain[i])', request'[chain'[i]].rec.id = id
          PROVE  request'[chain'[i]].rec \in deleted'
      <4>1. i + 1 \in DOMAIN chain /\ Posting(chain[i + 1]) /\ request[chain[i + 1]].rec.id = id
        BY <1>9, <1>10, <1>12, <3>3
      <4>2. request[chain[i + 1]].rec \in deleted
        BY <1>14, <3>1, <4>1 DEF Ticked
      <4> QED BY <1>10, <4>2
    <3> QED BY <1>14, <3>2, <3>3
  <2> QED BY <1>7, <2>2 DEF Ticked
<1>15. Stored' = Stored \cup (IF HeadPosts THEN {Active.rec} ELSE {})
  <2>1. HeadPosts <=> Posting(p)
    BY <1>3, <1>4 DEF HeadPosts
  <2>2. CASE Posting(p)
    <3>1. Landed(p)' /\ request'[p].rec = request[p].rec
      BY <1>6, <2>2 DEF Landed, Posting
    <3>2. \A q \in Requests : q # p => (Landed(q)' <=> Landed(q))
      BY <1>6 DEF Landed, Posting
    <3>3. \A q \in Requests : request'[q].rec = request[q].rec
      BY <1>6
    <3>4. Stored' = Stored \cup {request[p].rec}
      BY <3>1, <3>2, <3>3, StoredGains
    <3> QED BY <1>3, <1>4, <2>1, <2>2, <3>4
  <2>3. CASE ~Posting(p)
    <3>1. \A q \in Requests : (Landed(q)' <=> Landed(q)) /\ request'[q].rec = request[q].rec
      BY <1>6, <2>3 DEF Landed, Posting
    <3>2. Stored' = Stored
      BY <3>1, StoredKept
    <3> QED BY <2>1, <2>3, <3>2
  <2> QED BY <2>2, <2>3
<1>16. ~HeadPosts'
  BY <1>5 DEF HeadPosts
<1>17. Stored' = Written /\ Written' = Written
  BY <1>15, <1>16 DEF Written
<1> QED BY <1>3, <1>6, <1>7, <1>9, <1>11, <1>13, <1>14, <1>15, <1>16, <1>17 DEF Starting

LEMMA AppendKeeps == HistoryInv /\ AppendRecord => HistoryInv'
<1> SUFFICES ASSUME HistoryInv, AppendRecord PROVE HistoryInv'
  OBVIOUS
<1>1. HistoryTypes /\ Lined /\ Starting /\ FileFollows /\ Apart
  BY DEF HistoryInv
<1>2. /\ chain # <<>> /\ job = "idle" /\ Active.kind = "post"
      /\ file' = Append(file, Active.rec) /\ job' = "appended"
      /\ UNCHANGED <<entries, nextSeq, loaded, seen, chain, payload, poisoned, request, deleted,
                     mishaps, astray>>
  BY DEF AppendRecord, mem, env
<1>3. /\ 1 \in DOMAIN chain /\ Head(chain) = chain[1] /\ chain[1] \in Requests
      /\ Active = request[chain[1]] /\ Active.rec \in Record /\ Serving
  BY <1>2, HeadHolds DEF HeadIs
<1>4. PICK rec \in Record : rec = Active.rec
  BY <1>3
<1>5. Posting(chain[1]) /\ Coming(1)
  BY <1>2, <1>3 DEF Posting, Coming
<1>6. file \in Seq(Record) /\ entries \in Seq(Record)
  BY <1>1 DEF HistoryTypes
<1>7. /\ file' \in Seq(Record) /\ Len(file') = Len(file) + 1
      /\ RangeOf(file') = RangeOf(file) \cup {rec}
  BY <1>2, <1>4, <1>6, RangeAppend
<1>8. Present' = Present \cup {rec}
  BY <1>2, <1>7 DEF Present, RangeOf
<1>9. Serving'
  BY <1>2, <1>3 DEF Serving, Loading
<1>10. HistoryTypes'
  BY <1>1, <1>2, <1>7 DEF HistoryTypes
<1>11. Lined'
  BY <1>1, <1>2, <1>3, <1>5 DEF Lined, Posting
<1>12. FileFollows' /\ Apart'
  <2>1. Active' = Active
    BY <1>2 DEF Active
  <2>2. ASSUME ~astray PROVE Trimmed(file') = Trimmed(Append(entries, rec))
    <3>1. Trimmed(file) = entries
      BY <1>1, <1>2, <1>3, <2>2 DEF FileFollows
    <3>2. Trimmed(Append(Trimmed(file), rec)) = Trimmed(Append(file, rec))
      BY <1>6, TrimmedAppend
    <3> QED BY <1>2, <1>4, <3>1, <3>2
  <2>3. Trimmed(file)' = Trimmed(file') /\ Trimmed(Append(entries, Active.rec))' = Trimmed(Append(entries, rec))
    BY <1>2, <1>4, <2>1 DEF Trimmed
  <2> QED BY <1>1, <1>2, <2>2, <2>3 DEF FileFollows, Apart
<1>13. ASSUME Ordered PROVE Ordered'
  <2>1. \A e \in Present : e.id < rec.id
    BY <1>3, <1>4, <1>5, <1>13 DEF Ordered
  <2>2. IdsAscend(file') /\ IdsAscend(entries')
    <3>1. \A o \in RangeOf(file) : o.id < rec.id
      BY <2>1 DEF Present
    <3> QED BY <1>2, <1>4, <1>6, <1>13, <3>1, AscendAppend DEF Ordered
  <2>3. rec.id > 0 /\ rec.id < nextSeq
    <3>1. Active.rec.id > 0 /\ Active.rec.id < nextSeq
      BY <1>3, <1>5, <1>13 DEF Ordered
    <3> QED BY <1>4, <3>1
  <2>4. \A e \in Present' : e.id > 0 /\ e.id < nextSeq'
    BY <1>2, <1>3, <1>8, <1>13, <2>3 DEF Ordered
  <2>5. \A i \in DOMAIN chain : /\ Posting(chain[i])' <=> Posting(chain[i])
                                /\ Coming(i)' => Coming(i) /\ i # 1
    BY <1>2 DEF Posting, Coming
  <2>6. ASSUME NEW i \in DOMAIN chain, Coming(i)', NEW e \in Present'
        PROVE  e.id < request[chain[i]].rec.id
    <3>1. CASE e \in Present
      BY <1>13, <2>5, <2>6, <3>1 DEF Ordered
    <3>2. CASE e = rec
      <4>1. 1 < i /\ Posting(chain[i])
        BY <1>1, <2>5, <2>6 DEF Coming, HistoryTypes
      <4> QED BY <1>3, <1>4, <1>5, <1>13, <3>2, <4>1 DEF Ordered
    <3> QED BY <1>8, <2>6, <3>1, <3>2
  <2> QED BY <1>2, <1>13, <2>2, <2>4, <2>5, <2>6 DEF Ordered
<1>14. ASSUME Ticked PROVE Ticked'
  <2>1. \A q \in Requests : Deleting(q)' <=> Deleting(q)
    BY <1>2 DEF Deleting
  <2>2. \A i \in DOMAIN chain : Posting(chain[i])' <=> Posting(chain[i])
    BY <1>2 DEF Posting
  <2>3. ASSUME NEW q \in Requests, Deleting(q), NEW id \in request[q].ids, rec.id = id
        PROVE  rec \in deleted
    BY <1>3, <1>4, <1>5, <1>14, <2>3 DEF Ticked
  <2> QED BY <1>2, <1>3, <1>8, <1>9, <1>14, <2>1, <2>2, <2>3 DEF Ticked
<1>15. Stored' = Stored
  <2>1. \A q \in Requests : (Landed(q)' <=> Landed(q)) /\ request'[q].rec = request[q].rec
    BY <1>2 DEF Landed, Posting
  <2> QED BY <2>1, StoredKept
<1>16. ~HeadPosts /\ HeadPosts' /\ Active' = Active
  BY <1>2, <1>3, <1>5 DEF HeadPosts, Posting, Active
<1>17. ASSUME Ordered PROVE HeadThere'
  <2>1. \A o \in RangeOf(entries) : o.id < rec.id
    BY <1>3, <1>4, <1>5, <1>17 DEF Ordered, Present
  <2>2. RangeOf(entries)' = RangeOf(entries) /\ RangeOf(file)' = RangeOf(file')
    BY <1>2 DEF RangeOf
  <2> QED BY <1>2, <1>4, <1>7, <1>16, <2>1, <2>2 DEF HeadThere
<1>18. Written = Stored /\ Written' = Stored \cup {rec}
  BY <1>4, <1>15, <1>16 DEF Written
<1>19. ASSUME mishaps' = {} PROVE NoneMissing'
  <2>1. NoneMissing
    BY <1>2, <1>19 DEF HistoryInv
  <2>2. IsFiniteSet(Written')
    BY <1>18, <2>1, FS_AddElement DEF NoneMissing
  <2>3. Present' \subseteq Written'
    BY <1>8, <1>18, <2>1 DEF NoneMissing
  <2>4. Base' = Base
    BY <1>2, <1>3, <1>9 DEF Base, RangeOf
  <2>5. ASSUME NEW e \in Stored' PROVE e \in Base' \/ Accounted(Written, e)'
    <3>1. e \in Base \/ Accounted(Written, e)
      BY <1>15, <2>1, <2>5 DEF NoneMissing
    <3>2. Accounted(Written, e) => Accounted(Written', e)
      BY <1>18, <2>2, YoungerGrow
    <3>3. Accounted(Written', e) => Accounted(Written, e)'
      BY <1>2 DEF Accounted, Younger
    <3> QED BY <2>4, <3>1, <3>2, <3>3
  <2> QED BY <2>2, <2>3, <2>5 DEF NoneMissing
<1>20. OnlyChosenRecordsGo'
  BY <1>2, <1>7, <1>15 DEF HistoryInv, OnlyChosenRecordsGo, Younger, RangeOf
<1> QED BY <1>2, <1>9, <1>10, <1>11, <1>12, <1>13, <1>14, <1>17, <1>19, <1>20
        DEF HistoryInv, Starting

(* The array takes the record; if it is full, its oldest one goes.         *)
LEMMA PushKeeps == HistoryInv /\ PushRecord => HistoryInv'
<1> SUFFICES ASSUME HistoryInv, PushRecord PROVE HistoryInv'
  OBVIOUS
<1>1. HistoryTypes /\ Lined /\ Starting /\ FileFollows /\ Apart
  BY DEF HistoryInv
<1>2. chain # <<>> /\ HeadPosts /\ job = "appended"
  BY <1>1 DEF PushRecord, Lined, HeadPosts
<1>3. Active.rec \in Record /\ Serving
  BY <1>2, HeadHolds DEF HeadIs
<1>4. PICK all : all = Append(entries, Active.rec)
  OBVIOUS
<1>5. /\ entries' = Trimmed(all)
      /\ UNCHANGED <<file, nextSeq, loaded, seen, poisoned, deleted, mishaps, astray>>
      /\ NeedsCompaction(all) =>
            /\ payload' = Trimmed(all) /\ job' = "compacting" /\ UNCHANGED <<chain, request>>
      /\ ~NeedsCompaction(all) => WriteDone
  BY <1>4 DEF PushRecord, env
<1>6. file \in Seq(Record) /\ entries \in Seq(Record)
  BY <1>1 DEF HistoryTypes
<1>7. /\ all \in Seq(Record) /\ RangeOf(all) = RangeOf(entries) \cup {Active.rec}
      /\ all # <<>> /\ all[Len(all)] = Active.rec
  BY <1>3, <1>4, <1>6, RangeAppend
<1>8. /\ entries' \in Seq(Record) /\ Len(entries') <= MaxEntries
      /\ RangeOf(entries') \subseteq RangeOf(all)
      /\ Active.rec \in RangeOf(entries')
      /\ IdsAscend(all) =>
            /\ IdsAscend(entries')
            /\ \A e \in RangeOf(all) \ RangeOf(entries') :
                  /\ Len(entries') = MaxEntries
                  /\ \A o \in RangeOf(entries') : e.id < o.id
  BY <1>5, <1>7, TrimmedKeepsNewest
<1>9. "load" \notin mishaps => Active.rec \in RangeOf(file) /\ IdsAscend(all) /\ IdsAscend(file)
  <2> SUFFICES ASSUME "load" \notin mishaps
               PROVE  Active.rec \in RangeOf(file) /\ IdsAscend(all) /\ IdsAscend(file)
    OBVIOUS
  <2>1. Ordered /\ HeadThere /\ ~astray
    BY <1>1, <1>2 DEF HistoryInv, Apart, Lined
  <2>2. Active.rec \in RangeOf(file)
    BY <1>2, <2>1 DEF HeadThere
  <2>3. IdsAscend(entries) /\ IdsAscend(file)
    BY <2>1 DEF Ordered
  <2>4. \A o \in RangeOf(entries) : o.id < Active.rec.id
    BY <1>2, <2>1 DEF HeadThere
  <2> QED BY <1>3, <1>4, <1>6, <2>2, <2>3, <2>4, AscendAppend
<1>10. Present' \subseteq Present \cup {Active.rec}
  <2>1. RangeOf(file)' = RangeOf(file) /\ RangeOf(entries)' = RangeOf(entries')
    BY <1>5 DEF RangeOf
  <2> QED BY <1>7, <1>8, <2>1 DEF Present
<1>11. "load" \notin mishaps => Present' \subseteq Present
  BY <1>9, <1>10 DEF Present
<1>12. "load" \notin mishaps => IdsAscend(entries)' /\ IdsAscend(file)'
  BY <1>5, <1>8, <1>9 DEF IdsAscend
<1>13. CASE NeedsCompaction(all)
  <2>1. /\ payload' = entries' /\ job' = "compacting" /\ UNCHANGED <<chain, request>>
    BY <1>5, <1>13
  <2>2. /\ Lined' /\ Starting' /\ Serving /\ Serving' /\ Stored' = Stored
        /\ "load" \notin mishaps => Ordered' /\ Ticked'
    BY <1>2, <1>5, <1>11, <1>12, <2>1, WriteGoesOn DEF HistoryInv
  <2>3. HistoryTypes'
    BY <1>1, <1>5, <1>8, <2>1 DEF HistoryTypes
  <2>4. FileFollows' /\ Apart'
    BY <1>1, <1>5, <1>8, <2>1 DEF FileFollows, Apart
  <2>5. HeadPosts' /\ Active' = Active
    BY <1>2, <2>1 DEF HeadPosts, Posting, Active
  <2>6. "load" \notin mishaps => HeadThere'
    BY <1>5, <1>8, <1>9, <2>1, <2>5 DEF HeadThere, RangeOf
  <2>7. Written' = Written
    BY <1>2, <2>2, <2>5 DEF Written
  <2>8. ASSUME mishaps' = {} PROVE NoneMissing'
    <3>1. NoneMissing /\ "load" \notin mishaps
      BY <1>5, <2>8 DEF HistoryInv
    <3>2. IsFiniteSet(Written) /\ Present' \subseteq Written
      BY <1>11, <3>1 DEF NoneMissing
    <3>3. RangeOf(entries') \subseteq Written
      <4>1. RangeOf(entries)' = RangeOf(entries')
        BY DEF RangeOf
      <4> QED BY <3>2, <4>1 DEF Present
    <3>4. ASSUME NEW e \in Stored PROVE e \in RangeOf(entries') \/ Accounted(Written, e)
      <4>1. e \in RangeOf(entries) \/ Accounted(Written, e)
        BY <1>3, <3>1, <3>4 DEF NoneMissing, Base
      <4>2. CASE e \in RangeOf(all) \ RangeOf(entries')
        <5>1. PICK s \in Seq(Record) : s = entries'
          BY <1>8
        <5>2. IdsAscend(s) /\ Len(s) = MaxEntries /\ \A o \in RangeOf(s) : e.id < o.id
          BY <1>8, <1>9, <3>1, <4>2, <5>1
        <5> QED BY <3>2, <3>3, <5>1, <5>2, PushedOutAccounted
      <4> QED BY <1>7, <4>1, <4>2
    <3>5. \A e : Accounted(Written, e) => Accounted(Written, e)'
      BY <1>5, <2>7 DEF Accounted, Younger
    <3>6. Base' = RangeOf(entries')
      BY <2>2 DEF Base, RangeOf
    <3> QED BY <2>2, <2>7, <3>2, <3>4, <3>5, <3>6 DEF NoneMissing
  <2>9. OnlyChosenRecordsGo'
    BY <1>2, <1>5, <2>1, <2>2 DEF HistoryInv, OnlyChosenRecordsGo, Younger, RangeOf
  <2> QED BY <1>5, <2>2, <2>3, <2>4, <2>6, <2>8, <2>9 DEF HistoryInv
<1>14. CASE ~NeedsCompaction(all)
  <2>1. WriteDone /\ entries' = all /\ job' = "idle"
    BY <1>5, <1>7, <1>14, TrimmedIs DEF WriteDone
  <2>2. /\ Lined' /\ Starting' /\ Serving /\ Serving'
        /\ request' \in [Requests -> RequestType] /\ chain' \in Seq(Requests)
        /\ Written' = Written /\ Stored' = Written /\ ~HeadPosts'
        /\ Stored' = Stored \cup {Active.rec}
        /\ "load" \notin mishaps => Ordered' /\ Ticked'
    BY <1>2, <1>5, <1>11, <1>12, <2>1, WriteEnds DEF HistoryInv
  <2>3. HistoryTypes'
    BY <1>1, <1>5, <1>8, <2>1, <2>2 DEF HistoryTypes, PushRecord
  <2>4. FileFollows' /\ Apart'
    <3>1. ~astray => Trimmed(file) = entries'
      BY <1>1, <1>2, <1>3, <1>4, <1>5 DEF FileFollows
    <3> QED BY <1>1, <1>5, <1>8, <2>1, <3>1 DEF FileFollows, Apart, Trimmed
  <2>5. RangeOf(entries)' = RangeOf(entries) \cup {Active.rec} /\ RangeOf(file)' = RangeOf(file)
    BY <1>5, <1>7, <2>1 DEF RangeOf
  <2>6. \A e : Accounted(Written, e) => Accounted(Written, e)'
    BY <1>5, <2>2 DEF Accounted, Younger
  <2>7. ASSUME mishaps' = {} PROVE NoneMissing'
    <3>1. NoneMissing /\ "load" \notin mishaps
      BY <1>5, <2>7 DEF HistoryInv
    <3>2. IsFiniteSet(Written') /\ Present' \subseteq Written'
      BY <1>11, <2>2, <3>1 DEF NoneMissing
    <3>3. ASSUME NEW e \in Stored' PROVE e \in RangeOf(entries)' \/ Accounted(Written, e)'
      BY <1>3, <2>2, <2>5, <2>6, <3>1, <3>3 DEF NoneMissing, Base
    <3> QED BY <2>2, <3>2, <3>3 DEF NoneMissing, Base
  <2>8. OnlyChosenRecordsGo'
    <3>1. ASSUME mishaps' = {}, NEW e \in Stored'
          PROVE  e \in RangeOf(file)' \/ Accounted(Stored, e)'
      <4>1. CASE e = Active.rec
        BY <1>5, <1>9, <2>5, <3>1, <4>1
      <4>2. CASE e \in Stored
        <5>1. e \in RangeOf(file) \/ Accounted(Stored, e)
          BY <1>2, <1>5, <3>1, <4>2 DEF HistoryInv, OnlyChosenRecordsGo, Accounted
        <5>2. IsFiniteSet(Stored')
          BY <1>5, <2>2, <3>1 DEF HistoryInv, NoneMissing
        <5>3. Accounted(Stored, e) => Accounted(Stored', e)
          BY <2>2, <5>2, YoungerGrow
        <5>4. Accounted(Stored', e) => Accounted(Stored, e)'
          BY <1>5 DEF Accounted, Younger
        <5> QED BY <2>5, <5>1, <5>3, <5>4
      <4> QED BY <2>2, <3>1, <4>1, <4>2
    <3> QED BY <3>1 DEF OnlyChosenRecordsGo, Accounted
  <2> QED BY <1>5, <2>2, <2>3, <2>4, <2>7, <2>8 DEF HistoryInv, HeadThere
<1> QED BY <1>13, <1>14

(* Array and payload lose records that are deleted by then.                *)
LEMMA RemovalKeeps ==
    ASSUME HistoryInv, chain # <<>>, job = "idle", ~Posting(chain[1]),
           entries' \in Seq(Record), IdsAscend(entries) => IdsAscend(entries'),
           Len(entries') <= MaxEntries, RangeOf(entries') \subseteq RangeOf(entries),
           Ticked => \A e \in RangeOf(entries) : e \in RangeOf(entries') \/ e \in deleted',
           payload' = entries', job' = "compacting", deleted \subseteq deleted',
           UNCHANGED <<file, nextSeq, loaded, seen, chain, poisoned, request, mishaps, astray>>
    PROVE  HistoryInv'
<1>1. HistoryTypes /\ Lined /\ Starting /\ FileFollows /\ Apart
  BY DEF HistoryInv
<1>2. Head(chain) = chain[1] /\ Serving
  BY HeadHolds DEF HeadIs
<1>3. Present' \subseteq Present
  BY DEF Present, RangeOf
<1>4. Ordered => IdsAscend(entries)' /\ IdsAscend(file)'
  BY DEF Ordered, IdsAscend
<1>5. /\ Lined' /\ Starting' /\ Serving /\ Serving' /\ Stored' = Stored
      /\ Ordered /\ Ticked => Ordered' /\ Ticked'
  BY <1>3, <1>4, WriteGoesOn
<1>6. HistoryTypes' /\ FileFollows' /\ Apart'
  BY <1>1 DEF HistoryTypes, FileFollows, Apart
<1>7. ~HeadPosts /\ ~HeadPosts'
  BY <1>2 DEF HeadPosts, Posting
<1>8. Written = Stored /\ Written' = Written
  BY <1>5, <1>7 DEF Written
<1>9. ASSUME mishaps' = {} PROVE NoneMissing'
  <2>1. NoneMissing /\ Ticked
    BY <1>9 DEF HistoryInv
  <2>2. ASSUME NEW e \in Stored PROVE e \in RangeOf(entries') \/ Accounted(Written, e)'
    <3>1. e \in RangeOf(entries) \/ Accounted(Written, e)
      BY <1>2, <2>1, <2>2 DEF NoneMissing, Base
    <3>2. Accounted(Written, e) => Accounted(Written, e)'
      BY <1>8 DEF Accounted, Younger
    <3>3. e \in RangeOf(entries) => e \in RangeOf(entries') \/ Accounted(Written, e)'
      BY <2>1 DEF Accounted
    <3> QED BY <3>1, <3>2, <3>3
  <2>3. Base' = RangeOf(entries')
    BY <1>5 DEF Base, RangeOf
  <2>4. IsFiniteSet(Written') /\ Present' \subseteq Written'
    BY <1>3, <1>8, <2>1 DEF NoneMissing
  <2> QED BY <1>5, <2>2, <2>3, <2>4 DEF NoneMissing
<1>10. OnlyChosenRecordsGo'
  BY <1>5 DEF HistoryInv, OnlyChosenRecordsGo, Younger, RangeOf
<1> QED BY <1>5, <1>6, <1>7, <1>9, <1>10 DEF HistoryInv, HeadThere

LEMMA DeleteRecordsKeeps == HistoryInv /\ DeleteRecords => HistoryInv'
<1> SUFFICES ASSUME HistoryInv, DeleteRecords PROVE HistoryInv'
  OBVIOUS
<1>1. HistoryTypes /\ FileFollows
  BY DEF HistoryInv
<1>2. /\ chain # <<>> /\ job = "idle" /\ Active.kind = "delete"
      /\ entries' = Kept(entries, Active.ids) /\ payload' = entries' /\ job' = "compacting"
      /\ UNCHANGED <<file, nextSeq, loaded, seen, chain, poisoned, request, deleted,
                     mishaps, astray>>
  BY DEF DeleteRecords, env
<1>3. /\ 1 \in DOMAIN chain /\ chain[1] \in Requests /\ Active = request[chain[1]]
      /\ Active.at = "chained"
  BY <1>2, HeadHolds DEF HeadIs
<1>4. ~Posting(chain[1]) /\ Deleting(chain[1])
  BY <1>2, <1>3 DEF Posting, Deleting
<1>5. entries \in Seq(Record) /\ Len(entries) <= MaxEntries
  BY <1>1 DEF HistoryTypes, FileFollows
<1>6. PICK ids : ids = Active.ids
  OBVIOUS
<1>7. /\ entries' \in Seq(Record) /\ (IdsAscend(entries) => IdsAscend(entries'))
      /\ Len(entries') <= Len(entries)
      /\ RangeOf(entries') = {e \in RangeOf(entries) : e.id \notin ids}
  BY <1>2, <1>5, <1>6, KeptInOrder
<1>8. Len(entries') <= MaxEntries
  BY <1>5, <1>7, HistoryAssumption
<1>9. ASSUME Ticked, NEW e \in RangeOf(entries), e \notin RangeOf(entries')
      PROVE  e \in deleted'
  <2>1. e.id \in request[chain[1]].ids /\ e \in Present
    BY <1>3, <1>6, <1>7, <1>9 DEF Present
  <2> QED BY <1>2, <1>3, <1>4, <1>9, <2>1 DEF Ticked
<1> QED BY <1>2, <1>4, <1>7, <1>8, <1>9, RemovalKeeps

LEMMA ClearRecordsKeeps == HistoryInv /\ ClearRecords => HistoryInv'
<1> SUFFICES ASSUME HistoryInv, ClearRecords PROVE HistoryInv'
  OBVIOUS
<1>1. /\ chain # <<>> /\ job = "idle" /\ Active.kind = "clear"
      /\ entries' = <<>> /\ payload' = entries' /\ job' = "compacting"
      /\ deleted' = deleted \cup RangeOf(entries)
      /\ UNCHANGED <<file, nextSeq, loaded, seen, chain, poisoned, request, mishaps, astray>>
  BY DEF ClearRecords
<1>2. ~Posting(chain[1])
  BY <1>1, HeadHolds DEF HeadIs, Posting
<1>3. /\ entries' \in Seq(Record) /\ IdsAscend(entries') /\ Len(entries') <= MaxEntries
      /\ RangeOf(entries') = {}
  BY <1>1, HistoryAssumption DEF IdsAscend, RangeOf
<1> QED BY <1>1, <1>2, <1>3, RemovalKeeps

LEMMA TruncateKeeps == HistoryInv /\ Truncate => HistoryInv'
<1> SUFFICES ASSUME HistoryInv, Truncate PROVE HistoryInv'
  OBVIOUS
<1>1. HistoryTypes /\ Lined /\ Starting /\ FileFollows /\ Apart
  BY DEF HistoryInv
<1>2. /\ job = "compacting" /\ file' = <<>> /\ job' = "rewriting"
      /\ UNCHANGED <<entries, nextSeq, loaded, seen, chain, payload, poisoned, request, deleted,
                     mishaps, astray>>
  BY DEF Truncate, mem, env
<1>3. chain # <<>>
  BY <1>1, <1>2 DEF Lined
<1>4. RangeOf(file') = {} /\ IdsAscend(file)' /\ file' \in Seq(Record)
  BY <1>2 DEF RangeOf, IdsAscend
<1>5. Present' \subseteq Present
  BY <1>2, <1>4 DEF Present, RangeOf
<1>6. Ordered => IdsAscend(entries)'
  BY <1>2 DEF Ordered, IdsAscend
<1>7. /\ Lined' /\ Starting' /\ Serving /\ Serving' /\ Stored' = Stored
      /\ Ordered /\ Ticked => Ordered' /\ Ticked'
  BY <1>2, <1>3, <1>4, <1>5, <1>6, WriteGoesOn
<1>8. HistoryTypes' /\ FileFollows' /\ Apart'
  BY <1>1, <1>2, <1>4 DEF HistoryTypes, FileFollows, Apart
<1>9. (HeadPosts' <=> HeadPosts) /\ Active' = Active
  BY <1>2 DEF HeadPosts, Posting, Active
<1>10. HeadThere => HeadThere'
  BY <1>2, <1>9 DEF HeadThere, RangeOf
<1>11. Written' = Written
  BY <1>7, <1>9 DEF Written
<1>12. ASSUME mishaps' = {} PROVE NoneMissing'
  <2>1. NoneMissing
    BY <1>2, <1>12 DEF HistoryInv
  <2>2. \A e : Accounted(Written, e) => Accounted(Written, e)'
    BY <1>2, <1>11 DEF Accounted, Younger
  <2>3. Base' = Base
    BY <1>2, <1>7 DEF Base, RangeOf
  <2>4. IsFiniteSet(Written') /\ Present' \subseteq Written'
    BY <1>5, <1>11, <2>1 DEF NoneMissing
  <2> QED BY <1>7, <2>1, <2>2, <2>3, <2>4 DEF NoneMissing
<1>13. OnlyChosenRecordsGo'
  BY <1>2 DEF OnlyChosenRecordsGo
<1> QED BY <1>2, <1>7, <1>8, <1>10, <1>12, <1>13 DEF HistoryInv

LEMMA RewriteKeeps == HistoryInv /\ Rewrite => HistoryInv'
<1> SUFFICES ASSUME HistoryInv, Rewrite PROVE HistoryInv'
  OBVIOUS
<1>1. HistoryTypes /\ Lined /\ Starting /\ FileFollows /\ Apart
  BY DEF HistoryInv
<1>2. /\ job = "rewriting" /\ file' = payload /\ WriteDone /\ job' = "idle"
      /\ UNCHANGED <<entries, nextSeq, loaded, seen, payload, poisoned, deleted, mishaps, astray>>
  BY DEF Rewrite, WriteDone, mem, env
<1>3. payload = entries /\ entries \in Seq(Record) /\ Len(entries) <= MaxEntries
  BY <1>1, <1>2 DEF FileFollows, HistoryTypes
<1>4. RangeOf(file') = RangeOf(entries) /\ Present' \subseteq Present
  BY <1>2, <1>3 DEF Present, RangeOf
<1>5. Ordered => IdsAscend(entries)' /\ IdsAscend(file)'
  BY <1>2, <1>3 DEF Ordered, IdsAscend
<1>6. /\ Lined' /\ Starting' /\ Serving /\ Serving'
      /\ request' \in [Requests -> RequestType] /\ chain' \in Seq(Requests)
      /\ Written' = Written /\ Stored' = Written /\ ~HeadPosts'
      /\ Stored' = Stored \cup (IF HeadPosts THEN {Active.rec} ELSE {})
      /\ Ordered /\ Ticked => Ordered' /\ Ticked'
  BY <1>2, <1>4, <1>5, WriteEnds
<1>7. HistoryTypes'
  BY <1>1, <1>2, <1>3, <1>6 DEF HistoryTypes
<1>8. FileFollows' /\ Apart'
  <2>1. Trimmed(entries) = entries
    <3>1. Len(entries) \in Nat /\ MaxEntries \in Nat
      BY <1>3, HistoryAssumption
    <3>2. ~NeedsCompaction(entries)
      BY <1>3, <3>1 DEF NeedsCompaction
    <3> QED BY <1>3, <3>2, TrimmedIs
  <2>2. Trimmed(file)' = Trimmed(entries)
    BY <1>2, <1>3 DEF Trimmed
  <2> QED BY <1>1, <1>2, <1>3, <2>1, <2>2 DEF FileFollows, Apart
<1>9. RangeOf(entries)' = RangeOf(entries) /\ RangeOf(file)' = RangeOf(entries)
  BY <1>2, <1>4 DEF RangeOf
<1>10. ASSUME mishaps' = {}, NEW e \in Stored'
       PROVE  /\ e \in RangeOf(entries) \/ Accounted(Written, e)
              /\ Accounted(Written, e) => Accounted(Written, e)' /\ Accounted(Stored, e)'
  <2>1. NoneMissing /\ HeadThere
    BY <1>2, <1>10 DEF HistoryInv
  <2>2. (HeadPosts /\ e = Active.rec) \/ e \in Stored
    BY <1>6, <1>10
  <2>3. HeadPosts => Active.rec \in RangeOf(entries)
    BY <1>2, <2>1 DEF HeadThere
  <2>4. e \in Stored => e \in RangeOf(entries) \/ Accounted(Written, e)
    BY <1>6, <2>1 DEF NoneMissing, Base
  <2>5. Accounted(Written, e) => Accounted(Written, e)' /\ Accounted(Stored, e)'
    BY <1>2, <1>6 DEF Accounted, Younger
  <2> QED BY <2>2, <2>3, <2>4, <2>5
<1>11. ASSUME mishaps' = {} PROVE NoneMissing'
  <2>1. Base' = RangeOf(entries)
    BY <1>6, <1>9 DEF Base
  <2>2. IsFiniteSet(Written') /\ Present' \subseteq Written'
    BY <1>2, <1>4, <1>6, <1>11 DEF HistoryInv, NoneMissing
  <2> QED BY <1>10, <1>11, <2>1, <2>2 DEF NoneMissing
<1>12. OnlyChosenRecordsGo'
  <2>1. ASSUME mishaps' = {}, NEW e \in Stored'
        PROVE  e \in RangeOf(file)' \/ Accounted(Stored, e)'
    BY <1>9, <1>10, <2>1
  <2> QED BY <2>1 DEF OnlyChosenRecordsGo, Accounted
<1> QED BY <1>2, <1>6, <1>7, <1>8, <1>11, <1>12 DEF HistoryInv, HeadThere

------------------------------------------------------------------------------
(* The line of writes comes to an end: requests of S are rejected, those   *)
(* in the line among them. The head's record counts if it is in the file.  *)
LEMMA LineBreaks ==
    ASSUME HistoryInv, NEW S \in SUBSET Requests, RangeOf(chain) \subseteq S,
           \A p \in S : request[p].at \in {"reading", "parsing", "ready", "chained"},
           request' = [p \in Requests |-> IF p \in S THEN Rejected(p) ELSE request[p]],
           chain' = <<>>, job' = "idle"
    PROVE  /\ request' \in [Requests -> RequestType]
           /\ \A p \in S : request'[p].at \in {"failed", "halfway"}
           /\ \A p \in Requests \ S : request'[p] = request[p]
           /\ Lined' /\ ~HeadPosts' /\ Stored' = Written /\ Written' = Written
<1>1. HistoryTypes /\ Lined
  BY DEF HistoryInv
<1>2. ASSUME NEW p \in Requests
      PROVE  /\ request'[p] \in RequestType
             /\ request'[p].kind = request[p].kind /\ request'[p].rec = request[p].rec
             /\ p \in S => request'[p].at = IF Reached(p) THEN "halfway" ELSE "failed"
             /\ p \notin S => request'[p] = request[p]
  <2>1. request[p] \in RequestType
    BY <1>1 DEF HistoryTypes
  <2>2. CASE p \in S
    <3>1. request'[p] = [request[p] EXCEPT !.at = IF Reached(p) THEN "halfway" ELSE "failed"]
      BY <2>2 DEF Rejected
    <3>2. PICK place \in RequestPlaces : place = IF Reached(p) THEN "halfway" ELSE "failed"
      BY DEF RequestPlaces
    <3>3. request'[p] = [request[p] EXCEPT !.at = place]
      BY <3>1, <3>2
    <3>4. request'[p].at = place /\ request'[p] \in RequestType
      BY <2>1, <3>3 DEF RequestType
    <3>5. request'[p].kind = request[p].kind /\ request'[p].rec = request[p].rec
      BY <2>1, <3>3 DEF RequestType
    <3> QED BY <2>2, <3>2, <3>4, <3>5
  <2>3. CASE p \notin S
    BY <2>1, <2>3
  <2> QED BY <2>2, <2>3
<1>3. request' \in [Requests -> RequestType]
  BY <1>2
<1>4. \A p \in S : request'[p].at \in {"failed", "halfway"}
  BY <1>2
<1>5. Lined' /\ ~HeadPosts'
  BY DEF Lined, HeadPosts
<1>6. Stored' = Written
  <2>1. CASE HeadPosts
    <3>1. chain \in Seq(Requests) /\ chain # <<>>
      BY <1>1, <2>1 DEF HistoryTypes, Lined, HeadPosts
    <3>2. Head(chain) = chain[1] /\ 1 \in DOMAIN chain /\ chain[1] \in Requests
      BY <3>1
    <3>3. PICK p \in Requests : p = Head(chain)
      BY <3>2
    <3>4. p \in S /\ Posting(p) /\ Reached(p)
      BY <2>1, <3>2, <3>3 DEF RangeOf, HeadPosts, Posting, Reached
    <3>5. Landed(p)'
      BY <1>2, <3>4 DEF Landed, Posting
    <3>6. ASSUME NEW q \in Requests, q # p PROVE Landed(q)' <=> Landed(q)
      <4>1. ~Reached(q)
        BY <3>3, <3>6 DEF Reached
      <4>2. q \in S => ~Landed(q) /\ ~Landed(q)'
        BY <1>2, <4>1 DEF Landed
      <4>3. q \notin S => (Landed(q)' <=> Landed(q))
        BY <1>2 DEF Landed, Posting
      <4> QED BY <4>2, <4>3
    <3>7. Stored' = Stored \cup {request[p].rec}
      BY <1>2, <3>5, <3>6, StoredGains
    <3> QED BY <2>1, <3>3, <3>7 DEF Written, Active
  <2>2. CASE ~HeadPosts
    <3>1. ASSUME NEW q \in Requests PROVE Landed(q)' <=> Landed(q)
      <4>1. ~Reached(q)
        BY <2>2 DEF Reached, HeadPosts, Posting
      <4>2. q \in S => ~Landed(q) /\ ~Landed(q)'
        BY <1>2, <4>1 DEF Landed
      <4>3. q \notin S => (Landed(q)' <=> Landed(q))
        BY <1>2 DEF Landed, Posting
      <4> QED BY <4>2, <4>3
    <3>2. Stored' = Stored
      BY <1>2, <3>1, StoredKept
    <3> QED BY <2>2, <3>2 DEF Written
  <2> QED BY <2>1, <2>2
<1>7. Written' = Written
  BY <1>5, <1>6 DEF Written
<1> QED BY <1>2, <1>3, <1>4, <1>5, <1>6, <1>7

(* Before the file is truncated it still has what the array has lost.      *)
LEMMA FileAccounts ==
    ASSUME HistoryInv, mishaps = {}, job # "rewriting", NEW e \in Written
    PROVE  e \in RangeOf(file) \/ Accounted(Written, e)
<1>1. NoneMissing /\ HeadThere /\ OnlyChosenRecordsGo
  BY DEF HistoryInv
<1>2. CASE e \in Stored
  <2>1. e \in RangeOf(file) \/ Accounted(Stored, e)
    BY <1>1, <1>2 DEF OnlyChosenRecordsGo, Accounted
  <2>2. Accounted(Stored, e) => Accounted(Written, e)
    BY <1>1, YoungerGrow DEF NoneMissing, Written
  <2> QED BY <2>1, <2>2
<1>3. CASE HeadPosts /\ e = Active.rec
  BY <1>1, <1>3 DEF HeadThere
<1> QED BY <1>2, <1>3 DEF Written

(* A write rejects, and with it the chain: from now on the array stays as  *)
(* it is.                                                                  *)
LEMMA ChainFailsKeeps ==
    ASSUME HistoryInv, ChainFails, chain # <<>>, mishaps' = mishaps \cup Cut,
           (UNCHANGED astray /\ job = "idle") \/ (astray' = TRUE /\ job # "appended")
    PROVE  HistoryInv'
<1>1. HistoryTypes /\ Lined /\ Starting /\ FileFollows /\ Apart
  BY DEF HistoryInv
<1>2. /\ poisoned' = TRUE /\ chain' = <<>> /\ job' = "idle"
      /\ request' = [p \in Requests |-> IF p \in RangeOf(chain) THEN Rejected(p) ELSE request[p]]
      /\ UNCHANGED <<file, entries, nextSeq, loaded, seen, payload, deleted>>
  BY DEF ChainFails, mem
<1>3. Serving /\ \A q \in Requests : ~Warming(q)
  BY HeadHolds DEF HeadIs
<1>4. \A p \in RangeOf(chain) : p \in Requests /\ request[p].at = "chained"
  BY <1>1 DEF RangeOf, Lined, HistoryTypes
<1>5. PICK S \in SUBSET Requests : S = RangeOf(chain)
  BY <1>4
<1>6. /\ request' \in [Requests -> RequestType]
      /\ \A p \in S : request'[p].at \in {"failed", "halfway"}
      /\ \A p \in Requests \ S : request'[p] = request[p]
      /\ Lined' /\ ~HeadPosts' /\ Stored' = Written /\ Written' = Written
  BY <1>2, <1>4, <1>5, LineBreaks
<1>7. Serving'
  <2>1. \A q \in Requests : ~Warming(q)'
    BY <1>3, <1>6 DEF Warming
  <2> QED BY <1>2, <1>3, <2>1 DEF Serving, Loading, Warming
<1>8. HistoryTypes' /\ Starting' /\ Apart'
  <2>1. mishaps' \subseteq {"load", "cut"} /\ astray' \in BOOLEAN
    BY <1>1 DEF HistoryTypes, Cut
  <2> QED BY <1>1, <1>2, <1>6, <1>7, <2>1 DEF HistoryTypes, Starting, Apart
<1>9. FileFollows'
  BY <1>1, <1>2, <1>3 DEF FileFollows, Trimmed
<1>10. Present' = Present
  BY <1>2 DEF Present, RangeOf
<1>11. Ordered => Ordered'
  <2>1. Ordered => IdsAscend(entries)' /\ IdsAscend(file)'
    BY <1>2 DEF Ordered, IdsAscend
  <2> QED BY <1>2, <1>3, <1>10, <2>1 DEF Ordered
<1>12. Ticked => Ticked'
  <2>1. \A q \in Requests : Deleting(q)' => Deleting(q) /\ request'[q] = request[q]
    BY <1>6 DEF Deleting
  <2>2. ASSUME Ticked, NEW q \in Requests, Deleting(q)', NEW id \in request'[q].ids
        PROVE  (\A e \in Present : e.id = id => e \in deleted) /\ id < nextSeq
    BY <1>3, <2>1, <2>2 DEF Ticked
  <2>3. DOMAIN chain' = {}
    BY <1>2
  <2> QED BY <1>2, <1>7, <1>10, <2>2, <2>3 DEF Ticked
<1>13. ASSUME mishaps' = {} PROVE NoneMissing' /\ OnlyChosenRecordsGo'
  <2>1. mishaps = {} /\ job # "rewriting"
    BY <1>13 DEF Cut
  <2>2. NoneMissing /\ HeadThere
    BY <2>1 DEF HistoryInv
  <2>3. RangeOf(file)' = RangeOf(file) /\ Base' = RangeOf(entries)
    BY <1>2, <1>7 DEF RangeOf, Base
  <2>4. \A e : Accounted(Written, e) => Accounted(Written, e)' /\ Accounted(Stored, e)'
    BY <1>2, <1>6 DEF Accounted, Younger
  <2>5. ASSUME NEW e \in Written PROVE e \in RangeOf(entries) \/ Accounted(Written, e)
    <3>1. CASE e \in Stored
      BY <1>3, <2>2, <3>1 DEF NoneMissing, Base
    <3>2. CASE HeadPosts /\ e = Active.rec
      <4>1. job # "appended"
        BY <3>2 DEF HeadPosts
      <4> QED BY <2>2, <3>2, <4>1 DEF HeadThere
    <3> QED BY <2>5, <3>1, <3>2 DEF Written
  <2>6. NoneMissing'
    BY <1>6, <1>10, <2>2, <2>3, <2>4, <2>5 DEF NoneMissing
  <2>7. \A e \in Stored' : e \in RangeOf(file)' \/ Accounted(Stored, e)'
    BY <1>6, <2>1, <2>3, <2>4, FileAccounts
  <2> QED BY <2>6, <2>7 DEF OnlyChosenRecordsGo, Accounted
<1>14. OnlyChosenRecordsGo'
  BY <1>13 DEF OnlyChosenRecordsGo
<1>15. "load" \notin mishaps' => Ordered' /\ HeadThere' /\ Ticked'
  BY <1>6, <1>11, <1>12 DEF HistoryInv, HeadThere
<1> QED BY <1>6, <1>8, <1>9, <1>13, <1>14, <1>15 DEF HistoryInv

LEMMA AppendFailsKeeps == HistoryInv /\ AppendFails => HistoryInv'
  BY ChainFailsKeeps DEF AppendFails, Cut

LEMMA RewriteFailsKeeps == HistoryInv /\ RewriteFails => HistoryInv'
<1> SUFFICES ASSUME HistoryInv, RewriteFails PROVE HistoryInv'
  OBVIOUS
<1>1. job # "idle" /\ job # "appended" /\ ChainFails /\ mishaps' = mishaps \cup Cut /\ astray' = TRUE
  BY DEF RewriteFails
<1>2. chain # <<>>
  BY <1>1 DEF HistoryInv, Lined
<1> QED BY <1>1, <1>2, ChainFailsKeeps

LEMMA RestartKeeps == HistoryInv /\ Restart => HistoryInv'
<1> SUFFICES ASSUME HistoryInv, Restart PROVE HistoryInv'
  OBVIOUS
<1>1. HistoryTypes /\ Lined /\ Starting /\ FileFollows /\ Apart
  BY DEF HistoryInv
<1>2. PICK S \in SUBSET Requests :
         S = {p \in Requests : request[p].at \in {"reading", "parsing", "ready", "chained"}}
  OBVIOUS
<1>3. /\ entries' = <<>> /\ nextSeq' = 1 /\ loaded' = FALSE
      /\ chain' = <<>> /\ job' = "idle" /\ poisoned' = FALSE
      /\ request' = [p \in Requests |-> IF p \in S THEN Rejected(p) ELSE request[p]]
      /\ mishaps' = mishaps \cup Cut /\ astray' = FALSE
      /\ UNCHANGED <<file, deleted>>
  BY <1>2 DEF Restart
<1>4. RangeOf(chain) \subseteq S
  BY <1>1, <1>2 DEF RangeOf, Lined, HistoryTypes
<1>5. /\ request' \in [Requests -> RequestType]
      /\ \A p \in S : request'[p].at \in {"failed", "halfway"}
      /\ \A p \in Requests \ S : request'[p] = request[p]
      /\ Lined' /\ ~HeadPosts' /\ Stored' = Written /\ Written' = Written
  BY <1>2, <1>3, <1>4, LineBreaks
<1>6. \A p \in Requests : request'[p].at \notin {"reading", "parsing", "ready", "chained"}
  BY <1>2, <1>5
<1>7. ~Serving' /\ ~Loading'
  BY <1>3, <1>6 DEF Serving, Loading
<1>8. HistoryTypes'
  <2>1. mishaps' \subseteq {"load", "cut"}
    BY <1>1, <1>3 DEF HistoryTypes, Cut
  <2>2. entries' \in Seq(Record) /\ chain' \in Seq(Requests) /\ nextSeq' \in Nat \ {0}
    BY <1>3
  <2>3. loaded' \in BOOLEAN /\ poisoned' \in BOOLEAN /\ astray' \in BOOLEAN
    BY <1>3
  <2> QED BY <1>1, <1>3, <1>5, <2>1, <2>2, <2>3 DEF HistoryTypes
<1>9. Starting'
  BY <1>3, <1>6, <1>7 DEF Starting, Warming
<1>10. FileFollows' /\ Apart'
  BY <1>3, <1>7, HistoryAssumption DEF FileFollows, Apart
<1>11. Present' = RangeOf(file) /\ RangeOf(file)' = RangeOf(file) /\ Base' = RangeOf(file)
  <2>1. RangeOf(entries)' = {} /\ RangeOf(file)' = RangeOf(file)
    BY <1>3 DEF RangeOf
  <2> QED BY <1>7, <2>1 DEF Present, Base
<1>12. Ordered => Ordered'
  <2>1. Ordered => \A e \in Present' : e.id > 0
    BY <1>11 DEF Ordered, Present
  <2>2. Ordered => IdsAscend(entries)' /\ IdsAscend(file)'
    BY <1>3 DEF Ordered, IdsAscend
  <2> QED BY <1>3, <1>7, <2>1, <2>2 DEF Ordered
<1>13. Ticked'
  BY <1>6 DEF Ticked, Deleting
<1>14. ASSUME mishaps' = {} PROVE NoneMissing' /\ OnlyChosenRecordsGo'
  <2>1. mishaps = {} /\ job # "rewriting"
    BY <1>3, <1>14 DEF Cut
  <2>2. NoneMissing
    BY <2>1 DEF HistoryInv
  <2>3. \A e : Accounted(Written, e) => Accounted(Written, e)' /\ Accounted(Stored, e)'
    BY <1>3, <1>5 DEF Accounted, Younger
  <2>4. \A e \in Written : e \in RangeOf(file) \/ Accounted(Written, e)
    BY <2>1, FileAccounts
  <2>5. NoneMissing'
    BY <1>5, <1>11, <2>2, <2>3, <2>4 DEF NoneMissing, Present
  <2>6. \A e \in Stored' : e \in RangeOf(file)' \/ Accounted(Stored, e)'
    BY <1>5, <1>11, <2>3, <2>4
  <2> QED BY <2>5, <2>6 DEF OnlyChosenRecordsGo, Accounted
<1>15. OnlyChosenRecordsGo'
  BY <1>14 DEF OnlyChosenRecordsGo
<1>16. "load" \notin mishaps' => Ordered' /\ HeadThere' /\ Ticked'
  BY <1>3, <1>5, <1>12, <1>13 DEF HistoryInv, HeadThere
<1> QED BY <1>5, <1>8, <1>9, <1>10, <1>14, <1>15, <1>16 DEF HistoryInv

LEMMA HistoryNextKeeps ==
    ASSUME ~EarlyRequests, HistoryInv, [HistoryNext]_historyVars
    PROVE  HistoryInv'
<1>1. ASSUME NEW p \in Requests, Ask(p) PROVE HistoryInv'
  <2>1. CASE Arrive(p, "get", {}) \/ Arrive(p, "post", {}) \/ Arrive(p, "clear", {})
    <3>1. PICK kind \in {"get", "post", "delete", "clear"} : Arrive(p, kind, {})
      BY <2>1
    <3>2. PICK ids \in SUBSET Nat : ids = {}
      OBVIOUS
    <3> QED BY <3>1, <3>2, ArriveKeeps
  <2>2. ASSUME NEW ticked \in (SUBSET RangeOf(file)) \ {{}}, Arrive(p, "delete", {e.id : e \in ticked})
        PROVE  HistoryInv'
    <3>1. PICK ids : ids = {e.id : e \in ticked}
      OBVIOUS
    <3>2. \A e \in RangeOf(file) : e.id \in Nat
      BY RecordIds DEF Present
    <3>3. ids \in SUBSET Nat /\ \A id \in ids : \E e \in RangeOf(file) : e.id = id
      BY <3>1, <3>2
    <3>4. PICK kind \in {"get", "post", "delete", "clear"} : kind = "delete"
      OBVIOUS
    <3> QED BY <2>2, <3>1, <3>3, <3>4, ArriveKeeps
  <2> QED BY <1>1, <2>1, <2>2 DEF Ask
<1>2. ASSUME NEW p \in Requests, Serve(p) PROVE HistoryInv'
  BY <1>2, ReadFileKeeps, LoadFailsKeeps, FinishLoadKeeps, GetKeeps, PostKeeps, DeleteKeeps DEF Serve
<1>3. CASE WriteStep
  BY <1>3, AppendKeeps, PushKeeps, DeleteRecordsKeeps, ClearRecordsKeeps, TruncateKeeps,
     RewriteKeeps, AppendFailsKeeps, RewriteFailsKeeps DEF WriteStep
<1>4. CASE Restart
  BY <1>4, RestartKeeps
<1>5. CASE UNCHANGED historyVars
  <2>1. UNCHANGED <<file, entries, nextSeq, loaded, seen, chain, job, payload, poisoned,
                    request, deleted, mishaps, astray>>
    BY <1>5 DEF historyVars, mem, write, env
  <2>2. (Serving' <=> Serving) /\ (Loading' <=> Loading) /\ Active' = Active
    BY <2>1 DEF Serving, Loading, Active
  <2>3. HistoryTypes' /\ FileFollows' /\ Apart'
    BY <2>1, <2>2 DEF HistoryInv, HistoryTypes, FileFollows, Apart, Trimmed
  <2>4. Starting'
    BY <2>1, <2>2 DEF HistoryInv, Starting, Warming
  <2>5. Present' = Present
    BY <2>1 DEF Present, RangeOf
  <2>6. Lined' /\ (Ordered /\ HeadThere => Ordered' /\ HeadThere')
    BY <2>1, <2>2, QueueKept DEF HistoryInv
  <2>7. Ticked => Ticked'
    BY <2>1, <2>2, <2>5 DEF Ticked, Deleting, Posting
  <2>8. Stored' = Stored
    BY <2>1, StoredKept DEF Landed, Posting
  <2>9. Written' = Written
    BY <2>1, <2>8, WrittenKept DEF HistoryInv
  <2>10. Base' = Base
    BY <2>1, <2>2 DEF Base, RangeOf
  <2>11. (mishaps' = {} => NoneMissing') /\ OnlyChosenRecordsGo'
    BY <2>1, <2>8, <2>9, <2>10, NothingWritten
  <2> QED BY <2>1, <2>3, <2>4, <2>6, <2>7, <2>11 DEF HistoryInv
<1> QED BY <1>1, <1>2, <1>3, <1>4, <1>5 DEF HistoryNext

LEMMA HistoryAlways ==
    ASSUME ~EarlyRequests
    PROVE  HistorySpec => []HistoryInv
<1>1. HistoryInv /\ [HistoryNext]_historyVars => HistoryInv'
  BY HistoryNextKeeps
<1> QED BY <1>1, HistoryStarts, PTL DEF HistorySpec

------------------------------------------------------------------------------
(* If no request arrives while the first one loads the file, no two        *)
(* records of array or file share an id until a load fails, whatever is    *)
(* posted, deleted, trimmed, rejected, cut off by a crash and loaded       *)
(* again, and both stay in the order of the ids.                           *)
THEOREM HistoryIdsAreUnique ==
    ASSUME ~EarlyRequests
    PROVE  HistorySpec => []IdsAreUnique
<1>1. HistoryInv => IdsAreUnique
  BY DEF HistoryInv, Ordered, IdsAreUnique
<1> QED BY <1>1, HistoryAlways, PTL

(* Under the same condition the array is the file up to its limit when no  *)
(* write is pending, after failed appends and in the first run after a     *)
(* crash in the middle of a write too; a failed load and a failed          *)
(* rewriting separate them until the next restart, and nothing else does.  *)
THEOREM FileAlwaysIsHistory ==
    ASSUME ~EarlyRequests
    PROVE  HistorySpec => []FileIsHistory
<1>1. HistoryInv => FileIsHistory
  BY DEF HistoryInv, FileFollows, FileIsHistory, Resting, Serving
<1> QED BY <1>1, HistoryAlways, PTL

(* Under the same condition a record that has reached the file leaves it   *)
(* only if somebody asked for it or because the history is full of younger *)
(* ones, over any number of restarts and rejected writes, as long as no    *)
(* load fails and no rewriting is stopped between truncation and write.    *)
THEOREM OnlyChosenRecordsEverGo ==
    ASSUME ~EarlyRequests
    PROVE  HistorySpec => []OnlyChosenRecordsGo
<1>1. HistoryInv => OnlyChosenRecordsGo
  BY DEF HistoryInv
<1> QED BY <1>1, HistoryAlways, PTL

(* Every request is where the code can be, the array keeps its limit, and  *)
(* whoever is in the chain of writes waits for its turn, failed loads and  *)
(* rejected writes included.                                               *)
THEOREM HistoryTypesCorrect ==
    ASSUME ~EarlyRequests
    PROVE  HistorySpec => []HistoryTypeOK
<1>1. HistoryInv => HistoryTypeOK
  <2> SUFFICES ASSUME HistoryInv PROVE HistoryTypeOK
    OBVIOUS
  <2>1. /\ Len(entries) <= MaxEntries /\ nextSeq \in Nat \ {0}
        /\ job \in {"idle", "appended", "compacting", "rewriting"}
        /\ (job # "idle" => chain # <<>>) /\ (poisoned => chain = <<>>)
        /\ mishaps \subseteq {"load", "cut"}
    BY DEF HistoryInv, FileFollows, HistoryTypes, Lined
  <2>2. \A p \in Requests : request[p].at \in RequestPlaces
    BY DEF HistoryInv, HistoryTypes, RequestType
  <2>3. RangeOf(chain) \subseteq {p \in Requests : request[p].at = "chained"}
    BY DEF HistoryInv, HistoryTypes, Lined, RangeOf
  <2> QED BY <2>1, <2>2, <2>3 DEF HistoryTypeOK, RequestPlaces
<1> QED BY <1>1, HistoryAlways, PTL
=============================================================================
