------------------------- MODULE NativePipelineProofs -------------------------
(***************************************************************************)
(* Proofs about the native data path: for every number of stages, topology,*)
(* queue size, session limit, length of prompts and generations, choice of *)
(* stop tokens and number of faults.                                       *)
(*                                                                         *)
(* The argument has three layers. Lines says how calls and requests fit    *)
(* together: a caller listens to at most one answer of its target, the one *)
(* to the request it has posted or a late one. Owed says whose those are: a*)
(* connection owes one late answer at most, after a second attempt that    *)
(* timed out, and none between the two attempts of a call. Whole           *)
(* adds what a generation that met no timeout, restart, eviction or late   *)
(* answer has: every request that carries its id is on the way to the      *)
(* gateway's answer, and the stages up to the one it has reached hold one  *)
(* step more than the stages behind it.                                    *)
(***************************************************************************)
EXTENDS NativePipeline, StageRuntimeProofs, SequenceTheorems

------------------------------------------------------------------------------
(* Who listens to the requests of a line.                                  *)

Silent(line, c) == \A i \in DOMAIN line : line[i].from # c

Once(line, c) ==
    \A i, j \in DOMAIN line : line[i].from = c /\ line[j].from = c => i = j

Hearing(w, c) == w.state # "idle" /\ w.from = c

(* c listens to nothing of a stage with this inbox, queue and worker, or to*)
(* at most one request.                                                    *)
Mute(in, line, w, c) == Silent(in, c) /\ Silent(line, c) /\ ~Hearing(w, c)

Unique(in, line, w, c) ==
    /\ Once(in, c) /\ Once(line, c)
    /\ Silent(in, c) \/ Silent(line, c)
    /\ Hearing(w, c) => Silent(in, c) /\ Silent(line, c)

AsJob(w) == [req |-> w.req, chain |-> w.chain, from |-> w.from]

Jobs(in, line, w) ==
    ToSet(in) \cup ToSet(line) \cup (IF w.state = "idle" THEN {} ELSE {AsJob(w)})

LEMMA MuteUnique ==
    ASSUME NEW in, NEW line, NEW w, NEW c, Mute(in, line, w, c)
    PROVE  Unique(in, line, w, c)
  BY DEF Mute, Unique, Silent, Once

LEMMA MuteJobs ==
    ASSUME NEW in, NEW line, NEW w, NEW c
    PROVE  Mute(in, line, w, c) <=> \A job \in Jobs(in, line, w) : job.from # c
<1>1. AsJob(w).from = w.from
  BY DEF AsJob
<1>2. Silent(in, c) <=> \A job \in ToSet(in) : job.from # c
  BY DEF Silent, ToSet
<1>3. Silent(line, c) <=> \A job \in ToSet(line) : job.from # c
  BY DEF Silent, ToSet
<1> QED BY <1>1, <1>2, <1>3 DEF Mute, Jobs, Hearing

LEMMA AppendShape ==
    ASSUME NEW T, NEW line \in Seq(T), NEW job \in T
    PROVE  /\ Append(line, job) \in Seq(T)
           /\ ToSet(Append(line, job)) = ToSet(line) \cup {job}
           /\ \A c : job.from # c /\ Silent(line, c) => Silent(Append(line, job), c)
           /\ \A c : job.from # c /\ Once(line, c) => Once(Append(line, job), c)
           /\ \A c : Silent(line, c) => Once(Append(line, job), c)
<1> DEFINE new == Append(line, job)
           n == Len(line)
<1>1. /\ n \in Nat /\ new \in Seq(T) /\ Len(new) = n + 1
      /\ DOMAIN line = 1 .. n /\ DOMAIN new = 1 .. n + 1
      /\ \A i \in 1 .. n : new[i] = line[i]
      /\ new[n + 1] = job
  OBVIOUS
<1> HIDE DEF new, n
<1>2. ToSet(new) = ToSet(line) \cup {job}
  <2>1. ASSUME NEW i \in 1 .. n + 1 PROVE i \in 1 .. n \/ i = n + 1
    BY <1>1
  <2>2. n + 1 \in 1 .. n + 1 /\ \A i \in 1 .. n : i \in 1 .. n + 1
    BY <1>1
  <2> QED BY <1>1, <2>1, <2>2 DEF ToSet
<1>3. ASSUME NEW i \in 1 .. n + 1 PROVE i \in 1 .. n \/ i = n + 1
  BY <1>1
<1>4. ASSUME NEW c, job.from # c, Silent(line, c) PROVE Silent(new, c)
  BY <1>1, <1>3, <1>4 DEF Silent
<1>5. ASSUME NEW c, job.from # c, Once(line, c) PROVE Once(new, c)
  BY <1>1, <1>3, <1>5 DEF Once
<1>6. ASSUME NEW c, Silent(line, c) PROVE Once(new, c)
  BY <1>1, <1>3, <1>6 DEF Once, Silent
<1> QED BY <1>1, <1>2, <1>4, <1>5, <1>6 DEF new

LEMMA RemoveShape ==
    ASSUME NEW T, NEW line \in Seq(T), NEW i \in DOMAIN line
    PROVE  /\ RemoveAt(line, i) \in Seq(T)
           /\ Len(RemoveAt(line, i)) = Len(line) - 1
           /\ \A j \in 1 .. Len(line) - 1 :
                 RemoveAt(line, i)[j] = line[IF j < i THEN j ELSE j + 1]
<1> DEFINE n == Len(line)
           a == SubSeq(line, 1, i - 1)
           b == SubSeq(line, i + 1, n)
<1>1. n \in Nat /\ i \in 1 .. n
  OBVIOUS
<1>2. a \in Seq(T) /\ Len(a) = i - 1 /\ \A j \in 1 .. i - 1 : a[j] = line[j]
  BY <1>1, SubSeqProperties
<1>3. b \in Seq(T) /\ Len(b) = n - i /\ \A j \in 1 .. n - i : b[j] = line[i + j]
  <2>1. \A j \in i + 1 .. n : line[j] \in T
    BY <1>1
  <2>2. i + 1 \in Int /\ n \in Int
    BY <1>1
  <2> HIDE DEF n
  <2>3. /\ b \in Seq(T)
        /\ Len(b) = IF i + 1 <= n THEN n - (i + 1) + 1 ELSE 0
        /\ \A j \in 1 .. n - (i + 1) + 1 : b[j] = line[(i + 1) + j - 1]
    BY <2>1, <2>2, SubSeqProperties
  <2> HIDE DEF b
  <2>4. n - (i + 1) + 1 = n - i
    BY <1>1
  <2>5. Len(b) = n - i
    BY <1>1, <2>3
  <2>6. ASSUME NEW j \in 1 .. n - i PROVE b[j] = line[i + j]
    <3>1. (i + 1) + j - 1 = i + j
      BY <1>1
    <3>2. j \in 1 .. n - (i + 1) + 1
      BY <2>4
    <3>3. b[j] = line[(i + 1) + j - 1]
      BY <2>3, <3>2
    <3> QED BY <3>1, <3>3
  <2> QED BY <2>3, <2>5, <2>6
<1> HIDE DEF a, b, n
<1>4. /\ a \o b \in Seq(T) /\ Len(a \o b) = n - 1
      /\ \A j \in 1 .. n - 1 : (a \o b)[j] = IF j <= i - 1 THEN a[j] ELSE b[j - (i - 1)]
  <2>1. Len(a) + Len(b) = n - 1
    BY <1>1, <1>2, <1>3
  <2>2. /\ a \o b \in Seq(T)
        /\ Len(a \o b) = Len(a) + Len(b)
        /\ \A j \in 1 .. Len(a) + Len(b) :
              (a \o b)[j] = IF j <= Len(a) THEN a[j] ELSE b[j - Len(a)]
    BY <1>2, <1>3, ConcatProperties
  <2>3. Len(a \o b) = n - 1
    BY <2>1, <2>2
  <2>4. ASSUME NEW j \in 1 .. n - 1
        PROVE  (a \o b)[j] = IF j <= i - 1 THEN a[j] ELSE b[j - (i - 1)]
    <3>1. j \in 1 .. Len(a) + Len(b) /\ Len(a) = i - 1
      BY <1>2, <2>1
    <3> QED BY <2>2, <3>1
  <2> QED BY <2>2, <2>3, <2>4
<1>5. ASSUME NEW j \in 1 .. n - 1
      PROVE  (a \o b)[j] = line[IF j < i THEN j ELSE j + 1]
  <2>1. CASE j < i
    BY <1>1, <1>2, <1>4, <2>1
  <2>2. CASE ~(j < i)
    <3>1. j - (i - 1) \in 1 .. n - i /\ i + (j - (i - 1)) = j + 1 /\ ~(j <= i - 1)
      BY <1>1, <2>2
    <3> QED BY <1>3, <1>4, <2>2, <3>1
  <2> QED BY <2>1, <2>2
<1> QED BY <1>4, <1>5 DEF RemoveAt, a, b, n

LEMMA RemoveLine ==
    ASSUME NEW T, NEW line \in Seq(T), NEW i \in DOMAIN line
    PROVE  /\ ToSet(RemoveAt(line, i)) \subseteq ToSet(line)
           /\ \A c : Silent(line, c) => Silent(RemoveAt(line, i), c)
           /\ \A c : Once(line, c) => Once(RemoveAt(line, i), c)
           /\ \A c : Once(line, c) /\ line[i].from = c => Silent(RemoveAt(line, i), c)
<1> DEFINE new == RemoveAt(line, i)
           n == Len(line)
           old(j) == IF j < i THEN j ELSE j + 1
<1>1. /\ n \in Nat /\ i \in 1 .. n
      /\ new \in Seq(T) /\ Len(new) = n - 1
      /\ \A j \in 1 .. n - 1 : new[j] = line[old(j)]
  BY RemoveShape
<1>2. DOMAIN line = 1 .. n /\ DOMAIN new = 1 .. n - 1
  BY <1>1
<1>3. \A j \in 1 .. n - 1 : old(j) \in 1 .. n /\ old(j) # i
  BY <1>1
<1>4. \A j, k \in 1 .. n - 1 : old(j) = old(k) => j = k
  BY <1>1
<1> HIDE DEF new, n, old
<1> QED BY <1>1, <1>2, <1>3, <1>4 DEF ToSet, Silent, Once, new

(* Somebody else's request stays.                                          *)
LEMMA RemoveKeeps ==
    ASSUME NEW T, NEW line \in Seq(T), NEW i \in DOMAIN line, NEW c,
           line[i].from # c, ~Silent(line, c)
    PROVE  ~Silent(RemoveAt(line, i), c)
<1>1. PICK new : new = RemoveAt(line, i)
  OBVIOUS
<1>2. PICK n \in Nat : n = Len(line) /\ DOMAIN line = 1 .. n
  OBVIOUS
<1>3. /\ new \in Seq(T) /\ Len(new) = n - 1
      /\ \A j \in 1 .. n - 1 : new[j] = line[IF j < i THEN j ELSE j + 1]
  BY <1>1, <1>2, RemoveShape
<1>4. PICK k \in 1 .. n : line[k].from = c
  BY <1>2 DEF Silent
<1>5. i \in 1 .. n /\ k # i
  BY <1>2, <1>4
<1>6. PICK j \in 1 .. n - 1 : (IF j < i THEN j ELSE j + 1) = k
  <2>1. CASE k < i
    BY <1>5, <2>1
  <2>2. CASE ~(k < i)
    <3>1. k - 1 \in 1 .. n - 1 /\ ~(k - 1 < i) /\ (k - 1) + 1 = k
      BY <1>5, <2>2
    <3> QED BY <3>1
  <2> QED BY <2>1, <2>2
<1>7. new[j].from = c /\ j \in DOMAIN new
  BY <1>2, <1>3, <1>4, <1>6
<1> QED BY <1>1, <1>7 DEF Silent

LEMMA TailLine ==
    ASSUME NEW T, NEW line \in Seq(T), line # <<>>
    PROVE  /\ Tail(line) \in Seq(T)
           /\ Len(Tail(line)) = Len(line) - 1
           /\ Head(line) \in T /\ Head(line) \in ToSet(line)
           /\ ToSet(Tail(line)) \subseteq ToSet(line)
           /\ \A c : Silent(line, c) => Silent(Tail(line), c) /\ Head(line).from # c
           /\ \A c : Once(line, c) => Once(Tail(line), c)
           /\ \A c : Once(line, c) /\ Head(line).from = c => Silent(Tail(line), c)
<1> DEFINE n == Len(line)
           new == Tail(line)
<1>1. n \in Nat /\ n > 0 /\ DOMAIN line = 1 .. n
  OBVIOUS
<1>2. /\ new \in Seq(T) /\ Len(new) = n - 1 /\ Head(line) = line[1] /\ line[1] \in T
      /\ \A i \in 1 .. n - 1 : new[i] = line[i + 1]
  BY <1>1, HeadTailProperties
<1>3. DOMAIN new = 1 .. n - 1 /\ 1 \in 1 .. n
  BY <1>1, <1>2
<1>4. \A j \in 1 .. n - 1 : j + 1 \in 1 .. n /\ j + 1 # 1
  BY <1>1
<1>5. \A j, k \in 1 .. n - 1 : j + 1 = k + 1 => j = k
  BY <1>1
<1> HIDE DEF new, n
<1> QED BY <1>1, <1>2, <1>3, <1>4, <1>5 DEF ToSet, Silent, Once, new, n

------------------------------------------------------------------------------
(* Types.                                                                  *)

Frames == Seq(Nat) \ {<<>>}

RequestType ==
    [id : Requests, mode : {"prefill", "decode"}, index : Nat, tokens : Frames, kv : {TRUE}]

(* Those who listen, Nobody and Late                                       *)
Listeners == 0 .. NumStages + 1

JobType == [req : RequestType, chain : BOOLEAN, from : Listeners]

WorkType ==
    [req : RequestType, chain : BOOLEAN, from : Listeners,
     state : {"calling", "replying"}, status : Nat, out : Seq(Nat)]

GenerationType ==
    [gen : {0} \cup Requests, chain : BOOLEAN, min : Nat, running : BOOLEAN,
     index : 0 .. MaxNew - 1, hop : Stages, frame : Seq(Nat)]

CallType == [state : {"idle", "send", "wait"}, attempt : {1, 2}]

OutcomeType == [how : {"no", "ok", "error"}, min : Nat]

(* A worker that calls or has succeeded has a response to pass on.         *)
WorkerFits(s, w) ==
    /\ w \in {Idle} \cup WorkType
    /\ w.state = "calling" => s \in Callers /\ w.status = 200 /\ w.chain
    /\ w.state # "idle" /\ w.status = 200 => w.out # <<>>

(* A late answer                                                           *)
AnswerFits(answer) ==
    /\ answer = [id |-> answer.id, status |-> answer.status, out |-> answer.out, open |-> answer.open]
    /\ answer.id \in Requests /\ answer.status \in Nat /\ answer.out \in Seq(Nat)
    /\ answer.status = 200 => answer.out # <<>>

GenerationFits(g) ==
    /\ g \in GenerationType
    /\ g.running => g.gen \in Requests /\ g.frame # <<>> /\ (g.chain => g.hop = 1)

Types ==
    /\ GenerationFits(gw)
    /\ outcome \in [Requests -> OutcomeType]
    /\ tokens \in [Requests -> Seq(BOOLEAN)]
    /\ call \in [Callers -> CallType]
    /\ inbox \in [Stages -> Seq(JobType)]
    /\ queue \in [Stages -> Seq(JobType)]
    /\ \A s \in Stages : Len(queue[s]) <= QueueSize
    /\ worker = [s \in Stages |-> worker[s]]
    /\ \A s \in Stages : WorkerFits(s, worker[s])
    /\ sessions = [s \in Stages |-> sessions[s]]
    /\ \A s \in Stages : SessionMap(sessions[s])
    /\ unread = [s \in Stages |-> unread[s]]
    /\ \A s \in Stages : \A answer \in unread[s] : AnswerFits(answer)
    /\ disturbed \subseteq Requests

(* The gateway has a call while a generation runs, a worker while it calls.*)
CallsFit ==
    /\ gw.running <=> call[Gateway].state # "idle"
    /\ gw.running => outcome[gw.gen].how = "no"
    /\ \A c \in Callers \ {Gateway} : worker[c].state = "calling" <=> call[c].state # "idle"

HeardOnce ==
    \A s \in Stages : \A c \in Callers : Unique(inbox[s], queue[s], worker[s], c)

JobsAt(s) == Jobs(inbox[s], queue[s], worker[s])

(* A request that somebody listens to is the one that caller has posted.   *)
Expected(s, job) ==
    job.from \in Callers =>
        /\ call[job.from].state = "wait"
        /\ s = Target(job.from)
        /\ job.req = Posted(job.from)
        /\ job.chain = Chained(job.from)

AllExpected == \A s \in Stages : \A job \in JobsAt(s) : Expected(s, job)

Lines == Types /\ CallsFit /\ HeardOnce /\ AllExpected

LEMMA StageNumbers ==
    /\ NumStages \in Nat \ {0}
    /\ Stages \subseteq Nat /\ Callers \subseteq Nat
    /\ Gateway \in Callers /\ 1 \in Stages /\ NumStages \in Stages
    /\ \A c \in Callers : c # Nobody /\ c # Late /\ c \in Listeners /\ c + 1 \in Stages /\ c # c + 1
    /\ \A c \in Callers \ {Gateway} : c \in Stages
    /\ \A s \in Stages : s < NumStages => s \in Callers
    /\ \A s \in Stages : s # 1 => s - 1 \in Callers \ {Gateway} /\ (s - 1) + 1 = s
    /\ Nobody \in Listeners /\ Late \in Listeners
    /\ Nobody \notin Callers /\ Late \notin Callers /\ Nobody # Late
    /\ \A c \in Listeners : c \in Callers \/ c = Nobody \/ c = Late
  BY PipelineAssumption DEF PipelineAssumption, Stages, Callers, Gateway, Nobody, Late, Listeners


LEMMA IdleIsNoWork == Idle.state = "idle" /\ \A w \in WorkType : w.state # "idle"
  BY DEF Idle, WorkType

LEMMA RedirectJob ==
    ASSUME NEW c, NEW to \in Listeners, NEW job, job \in JobType \/ job \in WorkType
    PROVE  /\ job \in JobType => Redirect(job, c, to) \in JobType
           /\ job \in WorkType => Redirect(job, c, to) \in WorkType
           /\ Redirect(job, c, to).req = job.req
           /\ Redirect(job, c, to).chain = job.chain
           /\ Redirect(job, c, to).from = IF job.from = c THEN to ELSE job.from
           /\ job \in WorkType => /\ Redirect(job, c, to).state = job.state
                                  /\ Redirect(job, c, to).status = job.status
                                  /\ Redirect(job, c, to).out = job.out
  BY DEF Redirect, JobType, WorkType

(* c listens to a request no longer; nobody begins to.                     *)
Drops(job, c, new) ==
    /\ new.req = job.req /\ new.chain = job.chain
    /\ \/ new.from = job.from /\ new.from # c
       \/ new.from = Nobody /\ job.from \in {c, Late}
       \/ new.from = Late /\ job.from = c /\ c # Gateway

LineDrops(line, c, new) ==
    /\ new \in Seq(JobType) /\ Len(new) = Len(line)
    /\ \A i \in 1 .. Len(line) : Drops(line[i], c, new[i])

WorkerDrops(w, c, new) ==
    IF w.state = "idle" THEN new = w
    ELSE /\ new \in WorkType /\ Drops(w, c, new)
         /\ new.state = w.state /\ new.status = w.status /\ new.out = w.out

LEMMA ClosedJob ==
    ASSUME NEW c \in Callers, NEW job, job \in JobType \/ job \in WorkType
    PROVE  /\ job \in JobType => Closed(job, c) \in JobType
           /\ job \in WorkType => Closed(job, c) \in WorkType
           /\ Drops(job, c, Closed(job, c))
           /\ Closed(job, c).from =
                 IF job.from = c \/ (job.from = Late /\ c # Gateway) THEN Nobody ELSE job.from
           /\ job \in WorkType => /\ Closed(job, c).state = job.state
                                  /\ Closed(job, c).status = job.status
                                  /\ Closed(job, c).out = job.out
<1>1. c # Nobody /\ c # Late /\ Nobody \in Listeners /\ Nobody # Late
  BY StageNumbers
<1> DEFINE a == Redirect(job, c, Nobody)
           b == Redirect(a, Late, Nobody)
<1>2. /\ job \in JobType => a \in JobType
      /\ job \in WorkType => a \in WorkType
      /\ a.req = job.req /\ a.chain = job.chain
      /\ a.from = IF job.from = c THEN Nobody ELSE job.from
      /\ job \in WorkType => a.state = job.state /\ a.status = job.status /\ a.out = job.out
  BY <1>1, RedirectJob
<1> HIDE DEF a
<1>3. /\ job \in JobType => b \in JobType
      /\ job \in WorkType => b \in WorkType
      /\ b.req = job.req /\ b.chain = job.chain
      /\ b.from = IF a.from = Late THEN Nobody ELSE a.from
      /\ job \in WorkType => b.state = job.state /\ b.status = job.status /\ b.out = job.out
  BY <1>1, <1>2, RedirectJob
<1> HIDE DEF b
<1>4. Closed(job, c) = IF c = Gateway THEN a ELSE b
  BY DEF Closed, a, b
<1>5. CASE c = Gateway
  BY <1>1, <1>2, <1>4, <1>5 DEF Drops
<1>6. CASE c # Gateway
  BY <1>1, <1>2, <1>3, <1>4, <1>6 DEF Drops
<1> QED BY <1>5, <1>6

LEMMA GivenUpJob ==
    ASSUME NEW c \in Callers, NEW job, job \in JobType \/ job \in WorkType
    PROVE  /\ job \in JobType => GivenUp(job, c) \in JobType
           /\ job \in WorkType => GivenUp(job, c) \in WorkType
           /\ Drops(job, c, GivenUp(job, c))
           /\ GivenUp(job, c).from = IF Closes(c) THEN Closed(job, c).from
                                     ELSE IF job.from = c THEN Late ELSE job.from
           /\ job \in WorkType => /\ GivenUp(job, c).state = job.state
                                  /\ GivenUp(job, c).status = job.status
                                  /\ GivenUp(job, c).out = job.out
<1>1. CASE Closes(c)
  BY <1>1, ClosedJob DEF GivenUp
<1>2. CASE ~Closes(c)
  <2>1. c # Gateway /\ c # Late /\ Late \in Listeners
    BY <1>2, StageNumbers DEF Closes
  <2>2. GivenUp(job, c) = Redirect(job, c, Late)
    BY <1>2 DEF GivenUp
  <2>3. PICK new : new = Redirect(job, c, Late)
    OBVIOUS
  <2>4. /\ job \in JobType => new \in JobType
        /\ job \in WorkType => new \in WorkType
        /\ new.req = job.req /\ new.chain = job.chain
        /\ new.from = IF job.from = c THEN Late ELSE job.from
        /\ job \in WorkType => new.state = job.state /\ new.status = job.status /\ new.out = job.out
    BY <2>1, <2>3, RedirectJob
  <2> QED BY <1>2, <2>1, <2>2, <2>3, <2>4 DEF Drops
<1> QED BY <1>1, <1>2

(* Those who listened to c's request in a line do no longer.               *)
LEMMA DropsLine ==
    ASSUME NEW line \in Seq(JobType), NEW c \in Callers, NEW new, LineDrops(line, c, new)
    PROVE  /\ \A job \in ToSet(new) : job.from \notin Callers \/ job \in ToSet(line)
           /\ Silent(new, c)
           /\ \A d \in Callers : Silent(line, d) => Silent(new, d)
           /\ \A d \in Callers : Once(line, d) => Once(new, d)
<1> DEFINE n == Len(line)
<1>1. /\ n \in Nat /\ DOMAIN line = 1 .. n /\ \A i \in 1 .. n : line[i] \in JobType
      /\ DOMAIN new = 1 .. n /\ \A i \in 1 .. n : new[i] \in JobType
  BY DEF LineDrops
<1>2. \A i \in 1 .. n : Drops(line[i], c, new[i])
  BY DEF LineDrops
<1> HIDE DEF n
<1>3. \A i \in 1 .. n : new[i].from \in Callers => new[i].from = line[i].from /\ new[i].from # c
  BY <1>2, StageNumbers DEF Drops
<1>4. ASSUME NEW i \in 1 .. n, new[i].from \in Callers PROVE new[i] = line[i]
  <2>1. new[i].req = line[i].req /\ new[i].chain = line[i].chain
    BY <1>2 DEF Drops
  <2>2. new[i] \in JobType /\ line[i] \in JobType
    BY <1>1
  <2> QED BY <1>3, <1>4, <2>1, <2>2 DEF JobType
<1>5. \A job \in ToSet(new) : job.from \notin Callers \/ job \in ToSet(line)
  BY <1>1, <1>4 DEF ToSet
<1>6. Silent(new, c) /\ \A d \in Callers : Silent(line, d) => Silent(new, d)
  BY <1>1, <1>3 DEF Silent
<1>7. \A d \in Callers : Once(line, d) => Once(new, d)
  BY <1>1, <1>3 DEF Once
<1> QED BY <1>5, <1>6, <1>7

(* A closed line, and one whose requests of c are left to come late        *)
LEMMA ClosedLine ==
    ASSUME NEW line \in Seq(JobType), NEW c \in Callers
    PROVE  /\ LineDrops(line, c, [i \in DOMAIN line |-> Closed(line[i], c)])
           /\ LineDrops(line, c, [i \in DOMAIN line |-> GivenUp(line[i], c)])
           /\ c # Gateway => LineDrops(line, c, Redirected(line, c, Late))
           /\ Silent(line, c) => LineDrops(line, c, line)
<1>1. PICK n \in Nat : n = Len(line)
  OBVIOUS
<1>2. DOMAIN line = 1 .. n /\ \A i \in 1 .. n : line[i] \in JobType
  BY <1>1
<1>3. ASSUME NEW new, new = [i \in 1 .. n |-> new[i]],
             \A i \in 1 .. n : new[i] \in JobType /\ Drops(line[i], c, new[i])
      PROVE  LineDrops(line, c, new)
  <2>1. new \in Seq(JobType) /\ Len(new) = n
    BY <1>3
  <2> QED BY <1>1, <1>3, <2>1 DEF LineDrops
<1>4. LineDrops(line, c, [i \in DOMAIN line |-> Closed(line[i], c)])
  <2>1. PICK new : new = [i \in 1 .. n |-> Closed(line[i], c)]
    OBVIOUS
  <2>2. \A i \in 1 .. n : new[i] \in JobType /\ Drops(line[i], c, new[i])
    BY <1>2, <2>1, ClosedJob
  <2>3. new = [i \in 1 .. n |-> new[i]]
    BY <2>1
  <2> QED BY <1>2, <1>3, <2>1, <2>2, <2>3
<1>5. LineDrops(line, c, [i \in DOMAIN line |-> GivenUp(line[i], c)])
  <2>1. PICK new : new = [i \in 1 .. n |-> GivenUp(line[i], c)]
    OBVIOUS
  <2>2. \A i \in 1 .. n : new[i] \in JobType /\ Drops(line[i], c, new[i])
    BY <1>2, <2>1, GivenUpJob
  <2>3. new = [i \in 1 .. n |-> new[i]]
    BY <2>1
  <2> QED BY <1>2, <1>3, <2>1, <2>2, <2>3
<1>6. ASSUME c # Gateway PROVE LineDrops(line, c, Redirected(line, c, Late))
  <2>1. PICK new : new = [i \in 1 .. n |-> Redirect(line[i], c, Late)]
    OBVIOUS
  <2>2. ASSUME NEW i \in 1 .. n PROVE new[i] \in JobType /\ Drops(line[i], c, new[i])
    <3>1. line[i] \in JobType /\ new[i] = Redirect(line[i], c, Late) /\ Late # c /\ Late \in Listeners
      BY <1>2, <2>1, StageNumbers
    <3> QED BY <1>6, <3>1, RedirectJob DEF Drops
  <2>3. new = [i \in 1 .. n |-> new[i]]
    BY <2>1
  <2> QED BY <1>2, <1>3, <2>1, <2>2, <2>3 DEF Redirected
<1>7. Silent(line, c) => LineDrops(line, c, line)
  BY <1>1, <1>2 DEF LineDrops, Drops, Silent
<1> QED BY <1>4, <1>5, <1>6, <1>7

------------------------------------------------------------------------------
(* What a step leaves of the requests of a stage: nobody begins to listen, *)
(* except to what he has just sent.                                        *)

Thinner(in, line, w, in2, line2, w2) ==
    /\ \A c \in Callers : Unique(in, line, w, c) => Unique(in2, line2, w2, c)
    /\ \A job \in Jobs(in2, line2, w2) : job.from \notin Callers \/ job \in Jobs(in, line, w)

(* The same for every listener, among them those whom nobody answers       *)
Fewer(in, line, w, in2, line2, w2) ==
    /\ \A c : Unique(in, line, w, c) => Unique(in2, line2, w2, c)
    /\ Jobs(in2, line2, w2) \subseteq Jobs(in, line, w)

LEMMA ThinSame ==
    ASSUME NEW in, NEW line, NEW w
    PROVE  Thinner(in, line, w, in, line, w)
  BY DEF Thinner

LEMMA ThinWorker ==
    ASSUME NEW in, NEW line, NEW w, NEW w2, w.state # "idle", w2.state # "idle",
           w2.req = w.req, w2.chain = w.chain, w2.from = w.from
    PROVE  Thinner(in, line, w, in, line, w2)
  BY DEF Thinner, Unique, Hearing, Jobs, AsJob

LEMMA ThinIdle ==
    ASSUME NEW in, NEW line, NEW w
    PROVE  /\ Thinner(in, line, w, in, line, Idle) /\ Fewer(in, line, w, in, line, Idle)
           /\ \A c : Unique(in, line, w, c) /\ Hearing(w, c) => Mute(in, line, Idle, c)
  BY IdleIsNoWork DEF Thinner, Fewer, Unique, Hearing, Jobs, Mute

LEMMA ThinEmpty ==
    ASSUME NEW in, NEW line, NEW w
    PROVE  /\ Thinner(in, line, w, <<>>, <<>>, Idle)
           /\ \A c : Mute(<<>>, <<>>, Idle, c)
  BY IdleIsNoWork DEF Thinner, Unique, Hearing, Jobs, Mute, Once, Silent, ToSet

LEMMA ThinRefuse ==
    ASSUME NEW in \in Seq(JobType), NEW line, NEW w, NEW i \in DOMAIN in
    PROVE  /\ Thinner(in, line, w, RemoveAt(in, i), line, w)
           /\ Fewer(in, line, w, RemoveAt(in, i), line, w)
           /\ \A c : Unique(in, line, w, c) /\ in[i].from = c
                        => Mute(RemoveAt(in, i), line, w, c)
<1> DEFINE in2 == RemoveAt(in, i)
<1>1. /\ ToSet(in2) \subseteq ToSet(in)
      /\ \A c : Silent(in, c) => Silent(in2, c)
      /\ \A c : Once(in, c) => Once(in2, c)
      /\ \A c : Once(in, c) /\ in[i].from = c => Silent(in2, c)
  BY RemoveLine
<1>2. \A c : in[i].from = c => ~Silent(in, c)
  BY DEF Silent
<1> HIDE DEF in2
<1>3. Jobs(in2, line, w) \subseteq Jobs(in, line, w)
  BY <1>1 DEF Jobs
<1>4. ASSUME NEW c, Unique(in, line, w, c)
      PROVE  Unique(in2, line, w, c) /\ (in[i].from = c => Mute(in2, line, w, c))
  BY <1>1, <1>2, <1>4 DEF Unique, Mute
<1> QED BY <1>3, <1>4 DEF Thinner, Fewer, in2

LEMMA ThinAccept ==
    ASSUME NEW in \in Seq(JobType), NEW line \in Seq(JobType), NEW w, NEW i \in DOMAIN in
    PROVE  /\ Thinner(in, line, w, RemoveAt(in, i), Append(line, in[i]), w)
           /\ Fewer(in, line, w, RemoveAt(in, i), Append(line, in[i]), w)
<1> DEFINE in2 == RemoveAt(in, i)
           job == in[i]
           line2 == Append(line, job)
<1>1. /\ ToSet(in2) \subseteq ToSet(in)
      /\ \A c : Silent(in, c) => Silent(in2, c)
      /\ \A c : Once(in, c) => Once(in2, c)
      /\ \A c : Once(in, c) /\ job.from = c => Silent(in2, c)
  BY RemoveLine
<1>2. job \in JobType /\ job \in ToSet(in)
  BY DEF ToSet
<1>3. \A c : job.from = c => ~Silent(in, c)
  BY DEF Silent
<1> HIDE DEF job
<1>4. /\ ToSet(line2) = ToSet(line) \cup {job}
      /\ \A c : job.from # c /\ Silent(line, c) => Silent(line2, c)
      /\ \A c : job.from # c /\ Once(line, c) => Once(line2, c)
      /\ \A c : Silent(line, c) => Once(line2, c)
  BY <1>2, AppendShape
<1> HIDE DEF in2, line2
<1>5. Jobs(in2, line2, w) \subseteq Jobs(in, line, w)
  BY <1>1, <1>2, <1>4 DEF Jobs
<1>6. ASSUME NEW c, Unique(in, line, w, c) PROVE Unique(in2, line2, w, c)
  <2>1. CASE job.from = c
    BY <1>1, <1>3, <1>4, <1>6, <2>1 DEF Unique
  <2>2. CASE job.from # c
    BY <1>1, <1>4, <1>6, <2>2 DEF Unique
  <2> QED BY <2>1, <2>2
<1> QED BY <1>5, <1>6 DEF Thinner, Fewer, in2, line2, job

LEMMA ThinExecute ==
    ASSUME NEW in, NEW line \in Seq(JobType), line # <<>>, NEW w, w.state # "idle",
           AsJob(w) = Head(line)
    PROVE  /\ Thinner(in, line, Idle, in, Tail(line), w)
           /\ Fewer(in, line, Idle, in, Tail(line), w)
<1> DEFINE line2 == Tail(line)
           job == Head(line)
<1>1. /\ job \in JobType /\ job \in ToSet(line)
      /\ ToSet(line2) \subseteq ToSet(line)
      /\ \A c : Silent(line, c) => Silent(line2, c) /\ job.from # c
      /\ \A c : Once(line, c) => Once(line2, c)
      /\ \A c : Once(line, c) /\ job.from = c => Silent(line2, c)
  BY TailLine
<1> HIDE DEF line2, job
<1>2. w.from = job.from /\ AsJob(w) = job
  <2>1. AsJob(w).from = w.from
    BY DEF AsJob
  <2> QED BY <2>1 DEF job
<1>3. Jobs(in, line2, w) \subseteq Jobs(in, line, Idle)
  BY <1>1, <1>2, IdleIsNoWork DEF Jobs
<1>4. ASSUME NEW c, Unique(in, line, Idle, c) PROVE Unique(in, line2, w, c)
  BY <1>1, <1>2, <1>4, IdleIsNoWork DEF Unique, Hearing
<1> QED BY <1>3, <1>4 DEF Thinner, Fewer, line2


LEMMA ThinTrans ==
    ASSUME NEW in, NEW line, NEW w, NEW in1, NEW line1, NEW w1, NEW in2, NEW line2, NEW w2,
           Thinner(in, line, w, in1, line1, w1), Thinner(in1, line1, w1, in2, line2, w2)
    PROVE  Thinner(in, line, w, in2, line2, w2)
  BY DEF Thinner

LEMMA ThinDrops ==
    ASSUME NEW in \in Seq(JobType), NEW line \in Seq(JobType), NEW w \in {Idle} \cup WorkType,
           NEW c \in Callers, NEW in2, NEW line2, NEW w2,
           LineDrops(in, c, in2), LineDrops(line, c, line2), WorkerDrops(w, c, w2)
    PROVE  /\ Thinner(in, line, w, in2, line2, w2)
           /\ Mute(in2, line2, w2, c)
<1>1. /\ \A job \in ToSet(in2) : job.from \notin Callers \/ job \in ToSet(in)
      /\ Silent(in2, c)
      /\ \A d \in Callers : Silent(in, d) => Silent(in2, d)
      /\ \A d \in Callers : Once(in, d) => Once(in2, d)
  BY DropsLine
<1>2. /\ \A job \in ToSet(line2) : job.from \notin Callers \/ job \in ToSet(line)
      /\ Silent(line2, c)
      /\ \A d \in Callers : Silent(line, d) => Silent(line2, d)
      /\ \A d \in Callers : Once(line, d) => Once(line2, d)
  BY DropsLine
<1>3. /\ w2.state = "idle" <=> w.state = "idle"
      /\ w.state # "idle" /\ w2.from \in Callers =>
            w2.req = w.req /\ w2.chain = w.chain /\ w2.from = w.from /\ w2.from # c
  BY IdleIsNoWork, StageNumbers DEF WorkerDrops, Drops
<1>4. w2.state # "idle" => AsJob(w2).from \notin Callers \/ AsJob(w2) = AsJob(w)
  BY <1>3 DEF AsJob
<1>5. \A job \in Jobs(in2, line2, w2) : job.from \notin Callers \/ job \in Jobs(in, line, w)
  BY <1>1, <1>2, <1>3, <1>4 DEF Jobs
<1>6. \A d \in Callers : Hearing(w2, d) => Hearing(w, d) /\ d # c
  BY <1>3 DEF Hearing
<1>7. \A d \in Callers : Unique(in, line, w, d) => Unique(in2, line2, w2, d)
  BY <1>1, <1>2, <1>6 DEF Unique
<1>8. Mute(in2, line2, w2, c)
  BY <1>1, <1>2, <1>6 DEF Mute
<1> QED BY <1>5, <1>7, <1>8 DEF Thinner

------------------------------------------------------------------------------
(* Calls.                                                                  *)

LEMMA TargetStage ==
    ASSUME Types, NEW c \in Callers
    PROVE  Target(c) \in Stages /\ Target(c) # c
  BY StageNumbers DEF Types, GenerationFits, GenerationType, Target, Stages, Gateway

LEMMA CallingWorker ==
    ASSUME Types, CallsFit, NEW c \in Callers, call[c].state # "idle", c # Gateway
    PROVE  /\ worker[c] \in WorkType /\ worker[c].state = "calling"
           /\ worker[c].status = 200 /\ worker[c].out \in Frames
           /\ c \in Stages
<1>1. c \in Stages /\ worker[c].state = "calling"
  BY StageNumbers DEF CallsFit
<1>2. WorkerFits(c, worker[c])
  BY <1>1 DEF Types
<1>3. worker[c] # Idle
  BY <1>1 DEF Idle
<1> QED BY <1>1, <1>2, <1>3 DEF WorkerFits, WorkType, Frames

LEMMA JobIsJob ==
    ASSUME Types, CallsFit, NEW c \in Callers, call[c].state # "idle"
    PROVE  /\ Job(c) \in JobType
           /\ Job(c).req = Posted(c) /\ Job(c).chain = Chained(c) /\ Job(c).from = c
           /\ Posted(c).id = IF c = Gateway THEN gw.gen ELSE worker[c].req.id
<1>1. c \in Listeners
  BY StageNumbers
<1>2. CASE c = Gateway
  <2>1. gw \in GenerationType /\ gw.gen \in Requests /\ gw.frame \in Frames
    BY <1>2 DEF CallsFit, Types, GenerationFits, GenerationType, Frames
  <2>2. Posted(c) = [id |-> gw.gen, mode |-> IF gw.index = 0 THEN "prefill" ELSE "decode",
                     index |-> gw.index, tokens |-> gw.frame, kv |-> TRUE]
    BY <1>2 DEF Posted, Request
  <2>3. gw.index \in Nat
    BY <2>1, PipelineAssumption DEF GenerationType, PipelineAssumption
  <2>4. Posted(c) \in RequestType
    BY <2>1, <2>2, <2>3 DEF RequestType
  <2>5. Chained(c) \in BOOLEAN
    BY <1>2, <2>1 DEF Chained, GenerationType
  <2> QED BY <1>1, <1>2, <2>2, <2>4, <2>5 DEF Job, JobType
<1>3. CASE c # Gateway
  <2>1. worker[c] \in WorkType /\ worker[c].out \in Frames
    BY <1>3, CallingWorker
  <2>2. Posted(c) = [worker[c].req EXCEPT !.tokens = worker[c].out]
    BY <1>3 DEF Posted
  <2>3. worker[c].req \in RequestType
    BY <2>1 DEF WorkType
  <2>4. Posted(c) \in RequestType /\ Posted(c).id = worker[c].req.id
    BY <2>1, <2>2, <2>3 DEF RequestType
  <2>5. Chained(c) \in BOOLEAN
    BY <1>3 DEF Chained
  <2> QED BY <1>1, <1>3, <2>4, <2>5 DEF Job, JobType
<1> QED BY <1>2, <1>3

(* What is posted does not change before the call is over.                 *)
Kept(c) ==
    /\ call'[c] = call[c]
    /\ c = Gateway => gw' = gw
    /\ c # Gateway => worker'[c].req = worker[c].req /\ worker'[c].out = worker[c].out

LEMMA KeptCall ==
    ASSUME NEW c \in Callers, Kept(c)
    PROVE  /\ call'[c] = call[c]
           /\ Target(c)' = Target(c) /\ Chained(c)' = Chained(c)
           /\ Posted(c)' = Posted(c) /\ Job(c)' = Job(c)
<1>1. CASE c = Gateway
  BY <1>1 DEF Kept, Target, Chained, Posted, Job
<1>2. CASE c # Gateway
  BY <1>2 DEF Kept, Target, Chained, Posted, Job
<1> QED BY <1>1, <1>2

MuteAt(s, c) == Mute(inbox[s], queue[s], worker[s], c)

ThinAt(s) == Thinner(inbox[s], queue[s], worker[s], inbox'[s], queue'[s], worker'[s])

LEMMA MuteUnless ==
    ASSUME AllExpected, NEW s \in Stages, NEW c \in Callers,
           call[c].state # "wait" \/ s # Target(c)
    PROVE  MuteAt(s, c)
<1>2. \A job \in JobsAt(s) : job.from # c
  BY DEF AllExpected, Expected
<1> QED BY <1>2, MuteJobs DEF MuteAt, JobsAt

LEMMA JobsTyped ==
    ASSUME Types, NEW s \in Stages, NEW job \in JobsAt(s)
    PROVE  job \in JobType
<1>1. ToSet(inbox[s]) \subseteq JobType /\ ToSet(queue[s]) \subseteq JobType
  BY DEF Types, ToSet
<1>2. worker[s].state # "idle" => AsJob(worker[s]) \in JobType
  BY IdleIsNoWork DEF Types, WorkerFits, WorkType, AsJob, JobType
<1> QED BY <1>1, <1>2 DEF JobsAt, Jobs

(* A step that makes no caller listen to anything new, and changes only    *)
(* calls that are over, keeps the lines in order.                          *)
LEMMA LinesThin ==
    ASSUME Lines, Types', CallsFit', \A s \in Stages : ThinAt(s),
           \A c \in Callers : Kept(c) \/ \A s \in Stages : MuteAt(s, c)'
    PROVE  Lines'
<1>1. HeardOnce'
  BY DEF Lines, HeardOnce, ThinAt, Thinner
<1>2. ASSUME NEW s \in Stages, NEW job \in JobsAt(s)', job.from \in Callers
      PROVE  Expected(s, job)'
  <2>1. job \in JobsAt(s)
    BY <1>2 DEF ThinAt, Thinner, JobsAt
  <2>2. Expected(s, job)
    BY <2>1 DEF Lines, AllExpected
  <2>4. ~MuteAt(s, job.from)'
    BY <1>2, MuteJobs DEF MuteAt, JobsAt
  <2>5. Kept(job.from)
    BY <1>2, <2>4
  <2> QED BY <1>2, <2>2, <2>5, KeptCall DEF Expected
<1>3. AllExpected'
  BY <1>2 DEF AllExpected, Expected
<1> QED BY <1>1, <1>3 DEF Lines

(* A call is over, or is to be sent again. "workers" is what the rest of   *)
(* the step has made of the workers.                                       *)
Released(c, workers) ==
    /\ call' = [call EXCEPT ![c] = call'[c]]
    /\ call'[c] \in CallType /\ call'[c].state # "wait"
    /\ outcome' \in [Requests -> OutcomeType] /\ tokens' \in [Requests -> Seq(BOOLEAN)]
    /\ c = Gateway =>
          /\ worker' = workers
          /\ GenerationFits(gw')
          /\ gw'.running <=> call'[c].state # "idle"
          /\ gw'.running => outcome'[gw'.gen].how = "no"
    /\ c # Gateway =>
          /\ UNCHANGED <<gw, outcome>>
          /\ \/ call'[c].state = "send" /\ worker' = workers
             \/ /\ call'[c].state = "idle"
                /\ \E status \in Nat, out \in Seq(Nat) :
                      /\ status = 200 => out \in Frames
                      /\ worker' = [workers EXCEPT ![c] = Replying(workers[c], status, out)]

LEMMA GenerationReleased ==
    ASSUME Lines, NEW workers, NEW how \in {"ok", "error"}, GenerationEnds(how),
           worker' = workers, tokens' \in [Requests -> Seq(BOOLEAN)]
    PROVE  Released(Gateway, workers)
<1>1. NoGeneration \in GenerationType /\ NoGeneration.running = FALSE
  BY StageNumbers, PipelineAssumption
     DEF NoGeneration, GenerationType, PipelineAssumption
<1>2. GenerationFits(gw') /\ gw'.running = FALSE
  BY <1>1 DEF GenerationEnds, GenerationFits
<1>3. call \in [Callers -> CallType] /\ Gateway \in Callers
  BY StageNumbers DEF Lines, Types
<1>4. NotCalling \in CallType /\ NotCalling.state = "idle"
  BY DEF NotCalling, CallType
<1>5. call' = [call EXCEPT ![Gateway] = NotCalling]
  BY DEF GenerationEnds
<1>6. call'[Gateway] = NotCalling
  BY <1>3, <1>5
<1>7. Ended(how, gw.min) \in OutcomeType
  BY DEF Ended, OutcomeType, Lines, Types, GenerationFits, GenerationType
<1>8. outcome' \in [Requests -> OutcomeType]
  BY <1>7 DEF GenerationEnds, Lines, Types
<1> HIDE DEF NotCalling
<1> QED BY <1>2, <1>4, <1>5, <1>6, <1>8 DEF Released

LEMMA AttemptReleased ==
    ASSUME Lines, NEW c \in Callers, call[c].state # "idle", NEW workers,
           AttemptFails(c, workers), UNCHANGED tokens
    PROVE  Released(c, workers)
<1>1. tokens' \in [Requests -> Seq(BOOLEAN)]
  BY DEF Lines, Types
<1>2. call \in [Callers -> CallType] /\ outcome \in [Requests -> OutcomeType] /\ GenerationFits(gw)
  BY DEF Lines, Types
<1>3. CASE call[c].attempt = 1
  <2> DEFINE again == [state |-> "send", attempt |-> 2]
  <2>1. again \in CallType /\ again.state = "send"
    BY DEF CallType
  <2>2. /\ call' = [call EXCEPT ![c] = again] /\ worker' = workers
        /\ UNCHANGED <<gw, outcome>>
    BY <1>3 DEF AttemptFails
  <2> HIDE DEF again
  <2>3. call'[c] = again
    BY <1>2, <2>2
  <2>4. c = Gateway => gw.running /\ outcome[gw.gen].how = "no"
    BY DEF Lines, CallsFit
  <2> QED BY <1>1, <1>2, <2>1, <2>2, <2>3, <2>4 DEF Released
<1>4. CASE call[c].attempt # 1 /\ c = Gateway
  BY <1>1, <1>4, GenerationReleased DEF AttemptFails
<1>5. CASE call[c].attempt # 1 /\ c # Gateway
  <2>1. NotCalling \in CallType /\ NotCalling.state = "idle"
    BY DEF NotCalling, CallType
  <2>2. /\ call' = [call EXCEPT ![c] = NotCalling]
        /\ worker' = [workers EXCEPT ![c] = Replying(workers[c], 400, <<>>)]
        /\ UNCHANGED <<gw, outcome>>
    BY <1>5 DEF AttemptFails
  <2>3. call'[c] = NotCalling
    BY <1>2, <2>2
  <2>4. 400 \in Nat /\ <<>> \in Seq(Nat) /\ 400 # 200
    OBVIOUS
  <2> HIDE DEF NotCalling
  <2>5. \E status \in Nat, out \in Seq(Nat) :
           /\ status = 200 => out \in Frames
           /\ worker' = [workers EXCEPT ![c] = Replying(workers[c], status, out)]
    <3> WITNESS 400 \in Nat, <<>> \in Seq(Nat)
    <3> QED BY <2>2, <2>4
  <2> QED BY <1>1, <1>2, <1>5, <2>1, <2>2, <2>3, <2>5 DEF Released
<1> QED BY <1>3, <1>4, <1>5

LEMMA TokenReleased ==
    ASSUME Lines, call[Gateway].state # "idle", NEW out \in Frames, NEW workers,
           worker' = workers, TokenArrives(out)
    PROVE  Released(Gateway, workers)
<1> DEFINE isRef == Last(out) = PromptLen + gw.index
<1>1. /\ gw \in GenerationType /\ gw.running /\ gw.gen \in Requests
      /\ gw.chain => gw.hop = 1
      /\ tokens \in [Requests -> Seq(BOOLEAN)] /\ call \in [Callers -> CallType]
      /\ outcome \in [Requests -> OutcomeType]
      /\ outcome[gw.gen].how = "no"
      /\ Gateway \in Callers
  BY StageNumbers DEF Lines, Types, CallsFit, GenerationFits
<1>2. tokens' \in [Requests -> Seq(BOOLEAN)]
  <2>1. tokens' = [tokens EXCEPT ![gw.gen] = Append(@, isRef)]
    BY DEF TokenArrives
  <2>2. Append(tokens[gw.gen], isRef) \in Seq(BOOLEAN)
    <3>1. isRef \in BOOLEAN
      OBVIOUS
    <3> HIDE DEF isRef
    <3> QED BY <1>1, <3>1
  <2> HIDE DEF isRef
  <2> QED BY <1>1, <2>1, <2>2
<1>3. CASE GenerationEnds("ok")
  BY <1>2, <1>3, GenerationReleased
<1>4. CASE /\ gw.index + 1 # MaxNew
           /\ gw' = [gw EXCEPT !.index = @ + 1, !.hop = 1,
                               !.frame = <<IF isRef THEN PromptLen + gw.index + 1 ELSE Stray>>]
           /\ call' = [call EXCEPT ![Gateway] = FirstTry]
           /\ UNCHANGED outcome
  <2>1. gw.index \in 0 .. MaxNew - 1 /\ gw.index + 1 \in 0 .. MaxNew - 1
    BY <1>1, <1>4, PipelineAssumption DEF GenerationType, PipelineAssumption
  <2>2. PICK frame : frame = <<IF isRef THEN PromptLen + gw.index + 1 ELSE Stray>>
    OBVIOUS
  <2>3. frame \in Frames
    BY <2>1, <2>2, PipelineAssumption DEF Frames, Stray, PipelineAssumption
  <2>4. gw' = [gw EXCEPT !.index = @ + 1, !.hop = 1, !.frame = frame]
    BY <1>4, <2>2
  <2>5. /\ gw' \in GenerationType /\ gw'.running = gw.running /\ gw'.gen = gw.gen
        /\ gw'.hop = 1 /\ gw'.frame = frame
    BY <1>1, <2>1, <2>3, <2>4, StageNumbers DEF GenerationType, Frames
  <2>6. GenerationFits(gw')
    BY <1>1, <2>3, <2>5 DEF GenerationFits, Frames
  <2>7. FirstTry \in CallType /\ FirstTry.state = "send"
    BY DEF FirstTry, CallType
  <2>8. call' = [call EXCEPT ![Gateway] = FirstTry] /\ outcome' = outcome
    BY <1>4
  <2> HIDE DEF FirstTry
  <2>9. call'[Gateway] = FirstTry
    BY <1>1, <2>8
  <2> QED BY <1>1, <1>2, <2>5, <2>6, <2>7, <2>8, <2>9 DEF Released
<1>5. \/ GenerationEnds("ok")
      \/ /\ gw.index + 1 # MaxNew
         /\ gw' = [gw EXCEPT !.index = @ + 1, !.hop = 1,
                             !.frame = <<IF isRef THEN PromptLen + gw.index + 1 ELSE Stray>>]
         /\ call' = [call EXCEPT ![Gateway] = FirstTry]
         /\ UNCHANGED outcome
  BY DEF TokenArrives
<1> QED BY <1>3, <1>4, <1>5


LEMMA StrayFrame ==
    ASSUME NEW out \in Seq(Nat)
    PROVE  /\ [i \in DOMAIN out |-> Stray] \in Seq(Nat)
           /\ out # <<>> => [i \in DOMAIN out |-> Stray] # <<>>
  BY DEF Stray

LEMMA AnswerReleased ==
    ASSUME Lines, NEW c \in Callers, call[c].state # "idle", NEW id, NEW status \in Nat,
           NEW out \in Seq(Nat), status = 200 => out \in Frames,
           NEW workers, CallerGets(c, id, status, out, workers)
    PROVE  Released(c, workers)
<1>1. /\ tokens \in [Requests -> Seq(BOOLEAN)] /\ call \in [Callers -> CallType]
      /\ outcome \in [Requests -> OutcomeType] /\ gw \in GenerationType
  BY DEF Lines, Types, GenerationFits
<1>2. CASE c = Gateway /\ status # 200
  BY <1>1, <1>2, GenerationReleased DEF CallerGets, GatewayGets
<1>3. CASE c = Gateway /\ status = 200 /\ ~gw.chain /\ gw.hop < NumStages /\ HopAnswers(out)
  <2>1. worker' = workers /\ tokens' = tokens /\ outcome' = outcome
    BY <1>3 DEF CallerGets, HopAnswers
  <2>2. gw' = [gw EXCEPT !.hop = @ + 1, !.frame = out]
    BY <1>3 DEF HopAnswers
  <2>3. gw.running /\ gw.gen \in Requests /\ outcome[gw.gen].how = "no"
    BY <1>3 DEF Lines, Types, CallsFit, GenerationFits
  <2>4. gw.hop + 1 \in Stages
    BY <1>1, <1>3, PipelineAssumption DEF GenerationType, Stages, PipelineAssumption
  <2>5. /\ gw' \in GenerationType /\ gw'.running = gw.running /\ gw'.gen = gw.gen
        /\ gw'.chain = gw.chain /\ gw'.frame = out
    BY <1>1, <2>2, <2>4 DEF GenerationType
  <2>6. GenerationFits(gw')
    BY <1>3, <2>3, <2>5 DEF GenerationFits, Frames
  <2>7. FirstTry \in CallType /\ FirstTry.state = "send"
    BY DEF FirstTry, CallType
  <2>8. call' = [call EXCEPT ![c] = FirstTry]
    BY <1>3 DEF HopAnswers
  <2> HIDE DEF FirstTry
  <2>9. call'[c] = FirstTry
    BY <1>1, <2>8
  <2> QED BY <1>1, <1>3, <2>1, <2>3, <2>5, <2>6, <2>7, <2>8, <2>9 DEF Released
<1>4. CASE c = Gateway /\ status = 200 /\ TokenArrives(out)
  BY <1>4, TokenReleased DEF CallerGets
<1>5. CASE c # Gateway
  <2>1. /\ call' = [call EXCEPT ![c] = NotCalling]
        /\ UNCHANGED <<gw, outcome, tokens>>
    BY <1>5 DEF CallerGets
  <2>2. NotCalling \in CallType /\ NotCalling.state = "idle"
    BY DEF NotCalling, CallType
  <2>3. \E st \in Nat, o \in Seq(Nat) :
           /\ st = 200 => o \in Frames
           /\ worker' = [workers EXCEPT ![c] = Replying(workers[c], st, o)]
    <3>1. CASE status = 200
      <4>1. PICK taken : taken = IF id = Posted(c).id THEN out ELSE [i \in DOMAIN out |-> Stray]
        OBVIOUS
      <4>2. worker' = [workers EXCEPT ![c] = Replying(workers[c], status, taken)]
        BY <1>5, <3>1, <4>1 DEF CallerGets, Undecodable
      <4>3. taken \in Seq(Nat) /\ taken \in Frames
        BY <3>1, <4>1, StrayFrame DEF Frames
      <4> QED BY <3>1, <4>2, <4>3
    <3>2. CASE status = Undecodable
      <4>1. 400 \in Nat /\ <<>> \in Seq(Nat) /\ 400 # 200 /\ status # 200
        BY <3>2 DEF Undecodable
      <4>2. worker' = [workers EXCEPT ![c] = Replying(workers[c], 400, <<>>)]
        BY <1>5, <3>2, <4>1 DEF CallerGets
      <4> WITNESS 400 \in Nat, <<>> \in Seq(Nat)
      <4> QED BY <4>1, <4>2
    <3>3. CASE status # 200 /\ status # Undecodable
      <4>1. 502 \in Nat /\ <<>> \in Seq(Nat) /\ 502 # 200
        OBVIOUS
      <4>2. worker' = [workers EXCEPT ![c] = Replying(workers[c], 502, <<>>)]
        BY <1>5, <3>3 DEF CallerGets
      <4> WITNESS 502 \in Nat, <<>> \in Seq(Nat)
      <4> QED BY <4>1, <4>2
    <3> QED BY <3>1, <3>2, <3>3
  <2> HIDE DEF NotCalling
  <2>4. call'[c] = NotCalling
    BY <1>1, <2>1
  <2> QED BY <1>1, <1>5, <2>1, <2>2, <2>3, <2>4 DEF Released
<1> QED BY <1>2, <1>3, <1>4, <1>5 DEF CallerGets, GatewayGets

LEMMA ThinMute ==
    ASSUME NEW in, NEW line, NEW w, NEW in2, NEW line2, NEW w2,
           Thinner(in, line, w, in2, line2, w2), NEW c \in Callers, Mute(in, line, w, c)
    PROVE  Mute(in2, line2, w2, c)
  BY MuteJobs, StageNumbers DEF Thinner

(* The state of the stages apart from the calls                            *)
StagesFit ==
    /\ inbox' \in [Stages -> Seq(JobType)]
    /\ queue' \in [Stages -> Seq(JobType)]
    /\ \A s \in Stages : Len(queue'[s]) <= QueueSize
    /\ sessions' = [s \in Stages |-> sessions'[s]]
    /\ \A s \in Stages : SessionMap(sessions'[s])
    /\ unread' = [s \in Stages |-> unread'[s]]
    /\ \A s \in Stages : \A answer \in unread'[s] : AnswerFits(answer)
    /\ disturbed' \subseteq Requests

(* What a step makes of the workers before a caller gets its answer        *)
WorkersFit(workers) ==
    /\ workers = [s \in Stages |-> workers[s]]
    /\ \A s \in Stages :
          /\ WorkerFits(s, workers[s])
          /\ workers[s].state = "calling" <=> worker[s].state = "calling"
          /\ workers[s].state = "calling" =>
                workers[s].req = worker[s].req /\ workers[s].out = worker[s].out

LEMMA ReleasedWorkers ==
    ASSUME Lines, NEW c \in Callers, call[c].state # "idle",
           NEW workers, Released(c, workers), WorkersFit(workers)
    PROVE  /\ worker' = [s \in Stages |-> worker'[s]]
           /\ \A s \in Stages : WorkerFits(s, worker'[s])
           /\ \A s \in Stages \ {c} : worker'[s] = workers[s]
           /\ c # Gateway =>
                 /\ worker'[c].state # "idle"
                 /\ worker'[c].state = "calling" <=> call'[c].state = "send"
                 /\ worker'[c].req = workers[c].req
                 /\ worker'[c].chain = workers[c].chain
                 /\ worker'[c].from = workers[c].from
                 /\ worker'[c].state = "calling" => worker'[c] = workers[c]
<1>1. CASE worker' = workers /\ (c # Gateway => call'[c].state = "send")
  <2>1. c # Gateway => worker[c].state = "calling" /\ c \in Stages
    BY CallingWorker DEF Lines
  <2> QED BY <1>1, <2>1 DEF WorkersFit
<1>2. CASE c # Gateway /\ call'[c].state = "idle"
  <2>1. worker[c].state = "calling" /\ c \in Stages
    BY <1>2, CallingWorker DEF Lines
  <2>2. workers[c].state = "calling" /\ WorkerFits(c, workers[c])
    BY <2>1 DEF WorkersFit
  <2>3. workers[c] \in WorkType
    BY <2>2, IdleIsNoWork DEF WorkerFits
  <2>4. PICK status \in Nat, out \in Seq(Nat) :
           /\ status = 200 => out \in Frames
           /\ worker' = [workers EXCEPT ![c] = Replying(workers[c], status, out)]
    BY <1>2 DEF Released
  <2> DEFINE w == Replying(workers[c], status, out)
  <2>5. /\ WorkerFits(c, w) /\ w.state = "replying"
        /\ w.req = workers[c].req /\ w.chain = workers[c].chain /\ w.from = workers[c].from
    <3>1. status = 200 => out \in Frames
      BY <2>4
    <3>2. PICK old : old = workers[c]
      OBVIOUS
    <3>3. /\ WorkerFits(c, Replying(old, status, out)) /\ Replying(old, status, out).state = "replying"
          /\ Replying(old, status, out).req = old.req /\ Replying(old, status, out).chain = old.chain
          /\ Replying(old, status, out).from = old.from
      BY <2>3, <3>1, <3>2 DEF Replying, WorkType, WorkerFits, Frames
    <3> QED BY <3>2, <3>3
  <2>6. worker' = [workers EXCEPT ![c] = w]
    BY <2>4
  <2> HIDE DEF w
  <2>7. worker'[c] = w /\ \A s \in Stages \ {c} : worker'[s] = workers[s]
    BY <2>1, <2>6 DEF WorkersFit
  <2>8. worker' = [s \in Stages |-> worker'[s]]
    BY <2>6 DEF WorkersFit
  <2> QED BY <1>2, <2>5, <2>7, <2>8 DEF WorkersFit
<1> QED BY <1>1, <1>2 DEF Released

(* A step that ends the call of c, or its first attempt, and leaves c with *)
(* nothing to listen to.                                                   *)
Ends(c, workers) ==
    /\ call[c].state # "idle"
    /\ Released(c, workers) /\ WorkersFit(workers) /\ StagesFit
    /\ \A s \in Stages :
          /\ Thinner(inbox[s], queue[s], worker[s], inbox'[s], queue'[s], workers[s])
          /\ Mute(inbox'[s], queue'[s], workers[s], c)

LEMMA EndsLines ==
    ASSUME Lines, NEW c \in Callers, NEW workers, Ends(c, workers)
    PROVE  Lines'
<1> USE DEF Ends
<1>1. /\ worker' = [s \in Stages |-> worker'[s]]
      /\ \A s \in Stages : WorkerFits(s, worker'[s])
      /\ \A s \in Stages \ {c} : worker'[s] = workers[s]
      /\ c # Gateway =>
            /\ worker'[c].state # "idle"
            /\ worker'[c].state = "calling" <=> call'[c].state = "send"
            /\ worker'[c].req = workers[c].req
            /\ worker'[c].chain = workers[c].chain
            /\ worker'[c].from = workers[c].from
            /\ worker'[c].state = "calling" => worker'[c] = workers[c]
  BY ReleasedWorkers
<1>2. call \in [Callers -> CallType] /\ \A d \in Callers \ {c} : call'[d] = call[d]
  BY DEF Released, Lines, Types
<1>3. call' \in [Callers -> CallType]
  BY <1>2 DEF Released
<1>4. GenerationFits(gw')
  BY DEF Released, Lines, Types
<1>5. Types'
  BY <1>1, <1>3, <1>4 DEF Types, Released, StagesFit
<1>6. CallsFit'
  <2>1. gw'.running <=> call'[Gateway].state # "idle"
    BY <1>2, StageNumbers DEF Released, Lines, CallsFit
  <2>2. gw'.running => outcome'[gw'.gen].how = "no"
    BY DEF Released, Lines, CallsFit
  <2>3. ASSUME NEW d \in Callers \ {Gateway}
        PROVE  worker'[d].state = "calling" <=> call'[d].state # "idle"
    <3>1. CASE d = c
      BY <1>1, <2>3, <3>1, <1>3 DEF Released, CallType
    <3>2. CASE d # c
      <4>1. d \in Stages
        BY <2>3, StageNumbers
      <4> QED BY <1>1, <1>2, <2>3, <3>2, <4>1 DEF WorkersFit, Lines, CallsFit
    <3> QED BY <3>1, <3>2
  <2> QED BY <2>1, <2>2, <2>3 DEF CallsFit
<1>7. ASSUME NEW s \in Stages
      PROVE  ThinAt(s) /\ MuteAt(s, c)'
  <2>1. CASE s # c
    BY <1>1, <2>1 DEF ThinAt, MuteAt
  <2>2. CASE s = c
    <3>1. c # Gateway
      BY <2>2 DEF Stages, Gateway
    <3>2. workers[c].state # "idle"
      <4>1. worker[c].state = "calling" /\ c \in Stages
        BY <3>1, CallingWorker DEF Lines
      <4> QED BY <4>1 DEF WorkersFit
    <3>3. Thinner(inbox'[c], queue'[c], workers[c], inbox'[c], queue'[c], worker'[c])
      BY <1>1, <3>1, <3>2, ThinWorker
    <3>4. MuteAt(s, c)'
      BY <2>2, <3>3, ThinMute DEF MuteAt
    <3>5. ThinAt(s)
      BY <2>2, <3>3 DEF ThinAt, Thinner
    <3> QED BY <3>4, <3>5
  <2> QED BY <2>1, <2>2
<1>8. ASSUME NEW d \in Callers PROVE Kept(d) \/ \A s \in Stages : MuteAt(s, d)'
  <2>1. CASE d = c
    BY <1>7, <2>1
  <2>2. CASE d # c /\ call[d].state = "idle"
    <3>1. \A s \in Stages : MuteAt(s, d)
      BY <2>2, MuteUnless DEF Lines
    <3> QED BY <1>7, <3>1, ThinMute DEF MuteAt, ThinAt
  <2>3. CASE d # c /\ call[d].state # "idle"
    <3>1. call'[d] = call[d]
      BY <1>2, <2>3
    <3>2. d = Gateway => gw' = gw
      BY <2>3 DEF Released
    <3>3. ASSUME d # Gateway
          PROVE  worker'[d].req = worker[d].req /\ worker'[d].out = worker[d].out
      <4>1. d \in Stages /\ worker[d].state = "calling"
        BY <2>3, <3>3, CallingWorker DEF Lines
      <4> QED BY <1>1, <2>3, <4>1 DEF WorkersFit
    <3> QED BY <3>1, <3>2, <3>3 DEF Kept
  <2> QED BY <2>1, <2>2, <2>3
<1> QED BY <1>5, <1>6, <1>7, <1>8, LinesThin

------------------------------------------------------------------------------
(* Every step keeps the lines in order.                                    *)

LEMMA LinesInit == Init => Lines
<1> SUFFICES ASSUME Init PROVE Lines
  OBVIOUS
<1>1. GenerationFits(gw) /\ gw.running = FALSE
  BY StageNumbers, PipelineAssumption
     DEF Init, NoGeneration, GenerationFits, GenerationType, PipelineAssumption
<1>2. SessionMap(NoSessions)
  <2>1. DOMAIN NoSessions = {} /\ NoSessions = [r \in DOMAIN NoSessions |-> NoSessions[r]]
    BY DEF NoSessions
  <2> QED BY <2>1, FS_EmptySet, RuntimeAssumption DEF SessionMap, RuntimeAssumption
<1>3. \A s \in Stages : /\ inbox[s] = <<>> /\ queue[s] = <<>>
                        /\ worker[s] = Idle /\ sessions[s] = NoSessions
  BY DEF Init
<1>4. \A s \in Stages : WorkerFits(s, worker[s])
  BY <1>3, IdleIsNoWork DEF WorkerFits
<1>5. NotCalling \in CallType /\ NotCalling.state = "idle" /\ Ended("no", 0) \in OutcomeType
  BY DEF NotCalling, CallType, Ended, OutcomeType
<1> HIDE DEF NotCalling
<1>6. Types
  <2>3. unread = [s \in Stages |-> unread[s]] /\ \A s \in Stages : unread[s] = {}
    BY DEF Init
  <2>1. \A s \in Stages : Len(queue[s]) <= QueueSize
    BY <1>3, PipelineAssumption DEF PipelineAssumption
  <2>2. \A s \in Stages : SessionMap(sessions[s])
    BY <1>2, <1>3
  <2> QED BY <1>1, <1>4, <1>5, <2>1, <2>2, <2>3 DEF Init, Types
<1>7. CallsFit
  <2>1. \A c \in Callers : call[c].state = "idle"
    BY <1>5 DEF Init
  <2>2. \A c \in Callers \ {Gateway} : worker[c].state = "idle"
    BY <1>3, StageNumbers, IdleIsNoWork
  <2> QED BY <1>1, <2>1, <2>2, StageNumbers DEF CallsFit
<1>8. \A s \in Stages : \A c : Mute(inbox[s], queue[s], worker[s], c)
  BY <1>3, ThinEmpty
<1>9. HeardOnce
  BY <1>8, MuteUnique DEF HeardOnce
<1>10. AllExpected
  <2>1. ASSUME NEW s \in Stages PROVE JobsAt(s) = {}
    BY <1>3, IdleIsNoWork DEF JobsAt, Jobs, ToSet
  <2> QED BY <2>1 DEF AllExpected
<1> QED BY <1>6, <1>7, <1>9, <1>10 DEF Lines

LEMMA LinesBegin ==
    ASSUME Lines, NEW g \in Requests, NEW chain \in Topologies, NEW min \in MinNews,
           Begin(g, chain, min)
    PROVE  Lines'
<1>1. PICK frame : frame = [i \in 1 .. PromptLen |-> i]
  OBVIOUS
<1>2. frame \in Frames
  <2>1. frame \in Seq(Nat) /\ Len(frame) = PromptLen
    BY <1>1, PipelineAssumption DEF PipelineAssumption
  <2> QED BY <2>1, PipelineAssumption DEF PipelineAssumption, Frames
<1>3. gw' = [gen |-> g, chain |-> chain, min |-> min, running |-> TRUE,
             index |-> 0, hop |-> 1, frame |-> frame]
  BY <1>1 DEF Begin
<1>4. chain \in BOOLEAN /\ min \in Nat /\ 0 \in 0 .. MaxNew - 1
  BY PipelineAssumption DEF PipelineAssumption
<1>5. GenerationFits(gw') /\ gw'.running = TRUE /\ gw'.gen = g
  BY <1>2, <1>3, <1>4, StageNumbers DEF GenerationFits, GenerationType, Frames
<1>6. /\ ~gw.running /\ outcome[g].how = "no"
      /\ call' = [call EXCEPT ![Gateway] = FirstTry]
      /\ UNCHANGED <<outcome, tokens, inbox, queue, worker, sessions, unread, faults, disturbed>>
  BY DEF Begin
<1>7. FirstTry \in CallType /\ FirstTry.state = "send"
  BY DEF FirstTry, CallType
<1> HIDE DEF FirstTry
<1>8. /\ call \in [Callers -> CallType] /\ call' \in [Callers -> CallType]
      /\ call'[Gateway] = FirstTry
      /\ \A c \in Callers \ {Gateway} : call'[c] = call[c]
  BY <1>6, <1>7, StageNumbers DEF Lines, Types
<1>9. Types'
  BY <1>5, <1>6, <1>8 DEF Lines, Types
<1>10. CallsFit'
  BY <1>5, <1>6, <1>7, <1>8 DEF Lines, CallsFit
<1>11. \A s \in Stages : ThinAt(s)
  BY <1>6, ThinSame DEF ThinAt
<1>12. ASSUME NEW c \in Callers PROVE Kept(c) \/ \A s \in Stages : MuteAt(s, c)'
  <2>1. CASE c = Gateway
    <3>1. call[c].state # "wait"
      BY <1>6, <2>1 DEF Lines, CallsFit
    <3>2. \A s \in Stages : MuteAt(s, c)
      BY <3>1, MuteUnless DEF Lines
    <3> QED BY <1>6, <3>2 DEF MuteAt
  <2>2. CASE c # Gateway
    BY <1>6, <1>8, <2>2 DEF Kept
  <2> QED BY <2>1, <2>2
<1> QED BY <1>9, <1>10, <1>11, <1>12, LinesThin

LEMMA LinesSend ==
    ASSUME Lines, NEW c \in Callers, Send(c)
    PROVE  Lines'
<1> DEFINE s0 == Target(c)
           job == Job(c)
<1>1. /\ call[c].state = "send"
      /\ call' = [call EXCEPT ![c].state = "wait"]
      /\ inbox' = [inbox EXCEPT ![s0] = Append(inbox[s0], job)]
      /\ UNCHANGED <<gw, outcome, tokens, queue, worker, sessions, unread, faults, disturbed>>
  BY DEF Send
<1>2. s0 \in Stages
  BY TargetStage DEF Lines
<1>3. /\ job \in JobType
      /\ job.req = Posted(c) /\ job.chain = Chained(c) /\ job.from = c
  BY <1>1, JobIsJob DEF Lines
<1>4. Target(c)' = s0 /\ Posted(c)' = Posted(c) /\ Chained(c)' = Chained(c)
  BY <1>1 DEF Target, Posted, Chained
<1> HIDE DEF s0, job
<1>5. call \in [Callers -> CallType] /\ inbox \in [Stages -> Seq(JobType)]
  BY DEF Lines, Types
<1>6. /\ call' \in [Callers -> CallType]
      /\ call'[c].state = "wait"
      /\ \A d \in Callers \ {c} : call'[d] = call[d]
  BY <1>1, <1>5 DEF CallType
<1>7. /\ inbox[s0] \in Seq(JobType) /\ inbox'[s0] = Append(inbox[s0], job)
      /\ \A s \in Stages \ {s0} : inbox'[s] = inbox[s]
  BY <1>1, <1>2, <1>5
<1>8. /\ Append(inbox[s0], job) \in Seq(JobType)
      /\ ToSet(Append(inbox[s0], job)) = ToSet(inbox[s0]) \cup {job}
      /\ \A d : job.from # d /\ Silent(inbox[s0], d) => Silent(Append(inbox[s0], job), d)
      /\ \A d : job.from # d /\ Once(inbox[s0], d) => Once(Append(inbox[s0], job), d)
      /\ \A d : Silent(inbox[s0], d) => Once(Append(inbox[s0], job), d)
  BY <1>3, <1>7, AppendShape
<1>9. inbox' \in [Stages -> Seq(JobType)]
  BY <1>1, <1>5, <1>7, <1>8
<1>10. Types'
  BY <1>1, <1>6, <1>9 DEF Lines, Types
<1>11. CallsFit'
  BY <1>1, <1>6 DEF Lines, CallsFit
<1>12. MuteAt(s0, c)
  BY <1>1, <1>2, MuteUnless DEF Lines
<1>13. ASSUME NEW s \in Stages, NEW d \in Callers
       PROVE  Unique(inbox'[s], queue'[s], worker'[s], d)
  <2>1. Unique(inbox[s], queue[s], worker[s], d)
    BY DEF Lines, HeardOnce
  <2>2. CASE s # s0
    BY <1>1, <1>7, <2>1, <2>2
  <2>3. CASE s = s0 /\ d # c
    BY <1>1, <1>3, <1>7, <1>8, <2>1, <2>3 DEF Unique
  <2>4. CASE s = s0 /\ d = c
    BY <1>1, <1>7, <1>8, <1>12, <2>4 DEF Unique, MuteAt, Mute, Once, Silent
  <2> QED BY <2>2, <2>3, <2>4
<1>14. HeardOnce'
  BY <1>13 DEF HeardOnce
<1>15. ASSUME NEW s \in Stages, NEW x \in JobsAt(s)' PROVE Expected(s, x)'
  <2>1. x \in JobsAt(s) \/ (s = s0 /\ x = job)
    BY <1>1, <1>7, <1>8 DEF JobsAt, Jobs
  <2>2. CASE s = s0 /\ x = job
    BY <1>3, <1>4, <1>6, <2>2 DEF Expected
  <2>3. CASE x \in JobsAt(s)
    <3>1. Expected(s, x)
      BY <2>3 DEF Lines, AllExpected
    <3>2. x.from # c
      BY <1>1, <3>1 DEF Expected
    <3>3. ASSUME x.from \in Callers PROVE Kept(x.from)
      BY <1>1, <1>6, <3>2, <3>3 DEF Kept
    <3> QED BY <3>1, <3>3, KeptCall DEF Expected
  <2> QED BY <2>1, <2>2, <2>3
<1>16. AllExpected'
  BY <1>15 DEF AllExpected
<1> QED BY <1>10, <1>11, <1>14, <1>16 DEF Lines

(* The workers are as they were when a call fails at the caller.           *)
LEMMA SameWorkers ==
    ASSUME Lines
    PROVE  WorkersFit(worker)
  BY DEF Lines, Types, WorkersFit

(* A call fails at its caller, which abandons what the stage has of it.    *)
LEMMA GivenUpWorkers ==
    ASSUME Types, NEW c \in Callers, NEW s \in Stages, NEW new,
           WorkerDrops(worker[s], c, new)
    PROVE  /\ WorkerFits(s, new) /\ WorkersFit([worker EXCEPT ![s] = new])
           /\ [worker EXCEPT ![s] = new][s] = new
           /\ \A t \in Stages \ {s} : [worker EXCEPT ![s] = new][t] = worker[t]
<1>1. /\ WorkerFits(s, worker[s]) /\ worker = [t \in Stages |-> worker[t]]
      /\ \A t \in Stages : WorkerFits(t, worker[t])
  BY DEF Types
<1>2. /\ WorkerFits(s, new) /\ new.state = worker[s].state
      /\ new.state # "idle" => new.req = worker[s].req /\ new.out = worker[s].out
  <2>1. CASE worker[s].state = "idle"
    BY <1>1, <2>1 DEF WorkerDrops
  <2>2. CASE worker[s].state # "idle"
    <3>1. worker[s] \in WorkType
      BY <1>1, <2>2, IdleIsNoWork DEF WorkerFits
    <3>2. /\ new \in WorkType /\ new.req = worker[s].req /\ new.state = worker[s].state
          /\ new.chain = worker[s].chain /\ new.status = worker[s].status /\ new.out = worker[s].out
      BY <2>2 DEF WorkerDrops, Drops
    <3> QED BY <1>1, <3>2 DEF WorkerFits
  <2> QED BY <2>1, <2>2
<1> DEFINE workers == [worker EXCEPT ![s] = new]
<1>3. /\ workers = [t \in Stages |-> workers[t]]
      /\ workers[s] = new /\ \A t \in Stages \ {s} : workers[t] = worker[t]
  BY <1>1
<1> HIDE DEF workers
<1>4. WorkersFit(workers)
  BY <1>1, <1>2, <1>3 DEF WorkersFit
<1> QED BY <1>2, <1>3, <1>4 DEF workers

DropsAt(s, c, workers) ==
    /\ LineDrops(inbox[s], c, inbox'[s])
    /\ LineDrops(queue[s], c, queue'[s])
    /\ WorkerDrops(worker[s], c, workers[s])

(* What a caller that fails leaves of the requests of its stage            *)
GivesUpAt(s, c, workers) ==
    /\ inbox'[s] = [i \in DOMAIN inbox[s] |-> GivenUp(inbox[s][i], c)]
    /\ queue'[s] = [i \in DOMAIN queue[s] |-> GivenUp(queue[s][i], c)]
    /\ workers[s] = IF worker[s].state = "idle" THEN worker[s] ELSE GivenUp(worker[s], c)
    /\ unread' = IF c = Gateway THEN unread ELSE [unread EXCEPT ![s] = {}]

LEMMA AbandonsShape ==
    ASSUME Types, NEW c \in Callers, Abandons(c)
    PROVE  \E workers :
              /\ AttemptFails(c, workers) /\ WorkersFit(workers)
              /\ DropsAt(Target(c), c, workers)
              /\ inbox' \in [Stages -> Seq(JobType)] /\ queue' \in [Stages -> Seq(JobType)]
              /\ GivesUpAt(Target(c), c, workers)
              /\ \A s \in Stages \ {Target(c)} :
                    inbox'[s] = inbox[s] /\ queue'[s] = queue[s] /\ workers[s] = worker[s]
<1> DEFINE s0 == Target(c)
           in == [i \in DOMAIN inbox[s0] |-> GivenUp(inbox[s0][i], c)]
           line == [i \in DOMAIN queue[s0] |-> GivenUp(queue[s0][i], c)]
           w == IF worker[s0].state = "idle" THEN worker[s0] ELSE GivenUp(worker[s0], c)
           workers == [worker EXCEPT ![s0] = w]
<1>1. s0 \in Stages
  BY TargetStage
<1>2. /\ inbox' = [inbox EXCEPT ![s0] = in]
      /\ queue' = [queue EXCEPT ![s0] = line]
      /\ AttemptFails(c, workers)
      /\ unread' = IF c = Gateway THEN unread ELSE [unread EXCEPT ![s0] = {}]
  BY DEF Abandons
<1>3. /\ inbox \in [Stages -> Seq(JobType)] /\ queue \in [Stages -> Seq(JobType)]
      /\ WorkerFits(s0, worker[s0])
  BY <1>1 DEF Types
<1>4. inbox[s0] \in Seq(JobType) /\ queue[s0] \in Seq(JobType)
  BY <1>1, <1>3
<1>5. LineDrops(inbox[s0], c, in) /\ LineDrops(queue[s0], c, line)
  BY <1>4, ClosedLine
<1>6. WorkerDrops(worker[s0], c, w)
  BY <1>3, GivenUpJob, IdleIsNoWork DEF WorkerDrops, WorkerFits
<1>7. w = IF worker[s0].state = "idle" THEN worker[s0] ELSE GivenUp(worker[s0], c)
  OBVIOUS
<1>8. /\ in = [i \in DOMAIN inbox[s0] |-> GivenUp(inbox[s0][i], c)]
      /\ line = [i \in DOMAIN queue[s0] |-> GivenUp(queue[s0][i], c)]
  OBVIOUS
<1> HIDE DEF in, line, w
<1>9. /\ WorkersFit(workers) /\ workers[s0] = w
      /\ \A t \in Stages \ {s0} : workers[t] = worker[t]
  BY <1>1, <1>6, GivenUpWorkers
<1> HIDE DEF workers
<1>10. in \in Seq(JobType) /\ line \in Seq(JobType)
  BY <1>5 DEF LineDrops
<1>11. /\ inbox' \in [Stages -> Seq(JobType)] /\ queue' \in [Stages -> Seq(JobType)]
       /\ inbox'[s0] = in /\ queue'[s0] = line
       /\ \A s \in Stages \ {s0} : inbox'[s] = inbox[s] /\ queue'[s] = queue[s]
  BY <1>1, <1>2, <1>3, <1>10
<1>12. DropsAt(s0, c, workers)
  BY <1>5, <1>6, <1>9, <1>11 DEF DropsAt
<1> HIDE DEF s0
<1>13. /\ AttemptFails(c, workers) /\ WorkersFit(workers)
       /\ DropsAt(s0, c, workers)
       /\ inbox' \in [Stages -> Seq(JobType)] /\ queue' \in [Stages -> Seq(JobType)]
       /\ GivesUpAt(s0, c, workers)
       /\ \A s \in Stages \ {s0} :
             inbox'[s] = inbox[s] /\ queue'[s] = queue[s] /\ workers[s] = worker[s]
  BY <1>2, <1>7, <1>8, <1>9, <1>11, <1>12 DEF GivesUpAt
<1> QED BY <1>13 DEF s0

LEMMA AbandonsEnds ==
    ASSUME Lines, NEW c \in Callers, call[c].state # "idle", Abandons(c),
           UNCHANGED <<tokens, sessions>>, disturbed' \subseteq Requests
    PROVE  \E workers :
              /\ Ends(c, workers) /\ DropsAt(Target(c), c, workers)
              /\ AttemptFails(c, workers) /\ GivesUpAt(Target(c), c, workers)
              /\ \A s \in Stages \ {Target(c)} :
                    inbox'[s] = inbox[s] /\ queue'[s] = queue[s] /\ workers[s] = worker[s]
<1>1. PICK s0 : s0 = Target(c)
  OBVIOUS
<1>2. PICK workers :
        /\ AttemptFails(c, workers) /\ WorkersFit(workers)
        /\ DropsAt(s0, c, workers)
        /\ inbox' \in [Stages -> Seq(JobType)] /\ queue' \in [Stages -> Seq(JobType)]
        /\ \A s \in Stages \ {s0} :
              inbox'[s] = inbox[s] /\ queue'[s] = queue[s] /\ workers[s] = worker[s]
        /\ GivesUpAt(s0, c, workers)
  BY <1>1, AbandonsShape DEF Lines
<1>3. s0 \in Stages
  BY <1>1, TargetStage DEF Lines
<1>4. Released(c, workers)
  BY <1>2, AttemptReleased
<1>5. StagesFit
  <2>1. Len(queue'[s0]) = Len(queue[s0])
    BY <1>2 DEF DropsAt, LineDrops
  <2>2. \A s \in Stages : Len(queue'[s]) <= QueueSize
    BY <1>2, <2>1 DEF Lines, Types
  <2>3. /\ unread' = [s \in Stages |-> unread'[s]]
        /\ \A s \in Stages : \A answer \in unread'[s] : AnswerFits(answer)
    BY <1>2, <1>3 DEF GivesUpAt, Lines, Types
  <2> QED BY <1>2, <2>2, <2>3 DEF StagesFit, Lines, Types
<1>6. ASSUME NEW s \in Stages
      PROVE  /\ Thinner(inbox[s], queue[s], worker[s], inbox'[s], queue'[s], workers[s])
             /\ Mute(inbox'[s], queue'[s], workers[s], c)
  <2>1. CASE s = s0
    <3>1. /\ worker[s] \in {Idle} \cup WorkType
          /\ inbox[s] \in Seq(JobType) /\ queue[s] \in Seq(JobType)
      BY DEF Lines, Types, WorkerFits
    <3> QED BY <1>2, <2>1, <3>1, ThinDrops DEF DropsAt
  <2>2. CASE s # s0
    <3>1. MuteAt(s, c)
      BY <1>1, <2>2, MuteUnless DEF Lines
    <3> QED BY <1>2, <2>2, <3>1, ThinSame DEF MuteAt
  <2> QED BY <2>1, <2>2
<1> QED BY <1>1, <1>2, <1>4, <1>5, <1>6 DEF Ends

LEMMA LinesSendFails ==
    ASSUME Lines, NEW c \in Callers, SendFails(c)
    PROVE  Lines'
<1>1. /\ call[c].state = "send" /\ Abandons(c)
      /\ UNCHANGED <<tokens, sessions, disturbed>>
  BY DEF SendFails
<1>2. disturbed' \subseteq Requests
  BY <1>1 DEF Lines, Types
<1> QED BY <1>1, <1>2, AbandonsEnds, EndsLines

LEMMA LinesTimeout ==
    ASSUME Lines, NEW c \in Callers, Timeout(c)
    PROVE  Lines'
<1>1. /\ call[c].state = "wait" /\ Abandons(c)
      /\ disturbed' = disturbed \cup {Posted(c).id}
      /\ UNCHANGED <<tokens, sessions>>
  BY DEF Timeout
<1>2. Posted(c).id \in Requests
  BY <1>1, JobIsJob DEF Lines, JobType, RequestType
<1>3. disturbed' \subseteq Requests
  BY <1>1, <1>2 DEF Lines, Types
<1> QED BY <1>1, <1>3, AbandonsEnds, EndsLines

LEMMA PendingMute ==
    ASSUME NEW c, ~Pending(c)
    PROVE  MuteAt(Target(c), c)
  BY DEF Pending, MuteAt, Mute, Silent, Hearing, Hears

LEMMA ConnectionLostEnds ==
    ASSUME Lines, NEW c \in Callers, ConnectionLost(c)
    PROVE  Ends(c, worker)
<1>1. /\ call[c].state = "wait" /\ ~Pending(c) /\ AttemptFails(c, worker)
      /\ UNCHANGED <<tokens, inbox, queue, sessions, unread, disturbed>>
  BY DEF ConnectionLost
<1>2. Released(c, worker)
  BY <1>1, AttemptReleased
<1>3. StagesFit
  BY <1>1 DEF StagesFit, Lines, Types
<1>4. \A s \in Stages : MuteAt(s, c)
  BY <1>1, PendingMute, MuteUnless DEF Lines
<1>5. \A s \in Stages :
         /\ Thinner(inbox[s], queue[s], worker[s], inbox'[s], queue'[s], worker[s])
         /\ Mute(inbox'[s], queue'[s], worker[s], c)
  BY <1>1, <1>4, ThinSame DEF MuteAt
<1> QED BY <1>1, <1>2, <1>3, <1>5, SameWorkers DEF Ends

(* A worker reads a late answer: what it has posted is late in turn.       *)
LEMMA ThinLate ==
    ASSUME NEW in \in Seq(JobType), NEW line, NEW w, NEW job \in JobType, job.from = Late
    PROVE  /\ Thinner(in, line, w, Append(in, job), line, w)
           /\ \A c \in Callers : Mute(in, line, w, c) => Mute(Append(in, job), line, w, c)
<1>1. /\ ToSet(Append(in, job)) = ToSet(in) \cup {job}
      /\ \A c : job.from # c /\ Silent(in, c) => Silent(Append(in, job), c)
      /\ \A c : job.from # c /\ Once(in, c) => Once(Append(in, job), c)
  BY AppendShape
<1>2. \A c \in Callers : job.from # c
  BY StageNumbers
<1> QED BY <1>1, <1>2 DEF Thinner, Unique, Jobs, Mute

LEMMA ReadsLateShape ==
    ASSUME Lines, NEW c \in Callers, SendAndReadLate(c)
    PROVE  \E answer \in unread[c + 1], job \in JobType :
              /\ AnswerFits(answer)
              /\ job.from = Late /\ job.req = Posted(c) /\ job.chain = Chained(c)
              /\ inbox' = IF answer.open
                          THEN [inbox EXCEPT ![c + 1] = Append(inbox[c + 1], job)]
                          ELSE inbox
              /\ CallerGets(c, answer.id, answer.status, answer.out, worker)
<1>1. call[c].state = "send"
  BY DEF SendAndReadLate
<1>2. PICK answer \in unread[c + 1] :
           /\ inbox' = IF answer.open
                       THEN [inbox EXCEPT ![c + 1] = Append(@, [Job(c) EXCEPT !.from = Late])]
                       ELSE inbox
           /\ CallerGets(c, answer.id, answer.status, answer.out, worker)
  BY DEF SendAndReadLate
<1>3. PICK job : job = [Job(c) EXCEPT !.from = Late]
  OBVIOUS
<1>4. Job(c) \in JobType /\ Job(c).req = Posted(c) /\ Job(c).chain = Chained(c)
  BY <1>1, JobIsJob DEF Lines
<1>5. job \in JobType /\ job.from = Late /\ job.req = Posted(c) /\ job.chain = Chained(c)
  BY <1>3, <1>4, StageNumbers DEF JobType
<1>6. AnswerFits(answer)
  BY StageNumbers DEF Lines, Types
<1> QED BY <1>2, <1>3, <1>5, <1>6

LEMMA ReadsLateEnds ==
    ASSUME Lines, NEW c \in Callers, SendAndReadLate(c)
    PROVE  Ends(c, worker)
<1>1. /\ call[c].state = "send" /\ c # Gateway
      /\ unread' = [unread EXCEPT ![c + 1] = {}]
      /\ disturbed' = disturbed \cup {Posted(c).id}
      /\ UNCHANGED <<queue, sessions>>
  BY DEF SendAndReadLate
<1>2. PICK answer \in unread[c + 1], job \in JobType :
        /\ AnswerFits(answer)
        /\ job.from = Late
        /\ inbox' = IF answer.open
                    THEN [inbox EXCEPT ![c + 1] = Append(inbox[c + 1], job)]
                    ELSE inbox
        /\ CallerGets(c, answer.id, answer.status, answer.out, worker)
  BY ReadsLateShape
<1>3. answer.status \in Nat /\ answer.out \in Seq(Nat) /\ (answer.status = 200 => answer.out \in Frames)
  BY <1>2 DEF AnswerFits, Frames
<1>4. Released(c, worker)
  BY <1>1, <1>2, <1>3, AnswerReleased
<1>5. c + 1 \in Stages /\ inbox \in [Stages -> Seq(JobType)]
  BY StageNumbers DEF Lines, Types
<1>6. /\ inbox' \in [Stages -> Seq(JobType)]
      /\ inbox'[c + 1] = inbox[c + 1] \/ inbox'[c + 1] = Append(inbox[c + 1], job)
      /\ \A s \in Stages \ {c + 1} : inbox'[s] = inbox[s]
  <2>1. Append(inbox[c + 1], job) \in Seq(JobType)
    BY <1>5
  <2> QED BY <1>2, <1>5, <2>1
<1>7. StagesFit
  <2>1. Posted(c).id \in Requests
    BY <1>1, JobIsJob DEF Lines, JobType, RequestType
  <2> QED BY <1>1, <1>5, <1>6, <2>1 DEF StagesFit, Lines, Types
<1>8. ASSUME NEW s \in Stages
      PROVE  /\ Thinner(inbox[s], queue[s], worker[s], inbox'[s], queue'[s], worker[s])
             /\ Mute(inbox'[s], queue'[s], worker[s], c)
  <2>1. MuteAt(s, c)
    BY <1>1, MuteUnless DEF Lines
  <2>2. inbox[s] \in Seq(JobType) /\ (inbox'[s] = inbox[s] \/ inbox'[s] = Append(inbox[s], job))
    BY <1>5, <1>6
  <2> QED BY <1>1, <1>2, <2>1, <2>2, ThinSame, ThinLate DEF MuteAt
<1> QED BY <1>1, <1>4, <1>7, <1>8, SameWorkers DEF Ends


(* What a worker's connection owes it for calls that are over: one answer  *)
(* at most, on its way or unread, and none once the first attempt of a call*)
(* has failed. The request of a call that waits meanwhile has not been     *)
(* submitted.                                                              *)
OwesAtMostOne(s, in, line, w, answers, cl) ==
    /\ Unique(in, line, w, Late)
    /\ s = 1 => Mute(in, line, w, Late) /\ answers = {}
    /\ s # 1 /\ ~Mute(in, line, w, Late) =>
          /\ answers = {} /\ cl.attempt = 1
          /\ Silent(line, s - 1) /\ ~Hearing(w, s - 1)
          /\ cl.state = "wait" => ~Silent(in, s - 1)
    /\ s # 1 /\ answers # {} =>
          /\ cl.state # "wait" /\ cl.attempt = 1
          /\ \E answer : answers = {answer}

Owed ==
    \A s \in Stages :
        OwesAtMostOne(s, inbox[s], queue[s], worker[s], unread[s], call[s - 1])

(* Who reads the answer to a request                                       *)
Heard(s, job) == job.from \in Callers \/ Overtaken(s, job)

Reader(s, job) == IF job.from = Late THEN s - 1 ELSE job.from

LEMMA LateHere ==
    ASSUME Owed, NEW s \in Stages, ~MuteAt(s, Late)
    PROVE  /\ s # 1 /\ s - 1 \in Callers \ {Gateway} /\ Target(s - 1) = s
           /\ Unique(inbox[s], queue[s], worker[s], Late)
           /\ unread[s] = {} /\ call[s - 1].attempt = 1
           /\ Silent(queue[s], s - 1) /\ ~Hearing(worker[s], s - 1)
           /\ call[s - 1].state = "wait" => ~Silent(inbox[s], s - 1)
  BY StageNumbers DEF Owed, OwesAtMostOne, MuteAt, Target

LEMMA ReaderWaits ==
    ASSUME Lines, Owed, NEW s \in Stages, NEW job, Heard(s, job),
           job \in JobsAt(s) \/ (worker[s].state # "idle" /\ job = worker[s])
    PROVE  /\ Reader(s, job) \in Callers
           /\ call[Reader(s, job)].state = "wait"
           /\ s = Target(Reader(s, job))
           /\ job.from = Late => ~MuteAt(s, Late) /\ Reader(s, job) = s - 1
           /\ job.from # Late => /\ Reader(s, job) = job.from
                                 /\ job.req = Posted(job.from)
                                 /\ job.chain = Chained(job.from)
<1>1. \E same \in JobsAt(s) : same.from = job.from /\ same.req = job.req /\ same.chain = job.chain
  <2>1. CASE job \in JobsAt(s)
    BY <2>1
  <2>2. CASE worker[s].state # "idle" /\ job = worker[s]
    <3>1. AsJob(worker[s]) \in JobsAt(s)
      BY <2>2 DEF JobsAt, Jobs
    <3>2. /\ AsJob(job).from = job.from /\ AsJob(job).req = job.req
          /\ AsJob(job).chain = job.chain
      BY DEF AsJob
    <3> QED BY <2>2, <3>1, <3>2
  <2> QED BY <2>1, <2>2
<1>2. CASE job.from = Late
  <2>1. ~MuteAt(s, Late)
    BY <1>1, <1>2, MuteJobs DEF MuteAt, JobsAt
  <2>2. call[s - 1].state = "wait"
    BY <1>2, StageNumbers DEF Heard, Overtaken
  <2> QED BY <1>2, <2>1, <2>2, LateHere DEF Reader
<1>3. CASE job.from # Late
  <2>1. job.from \in Callers
    BY <1>3 DEF Heard, Overtaken
  <2>2. PICK same \in JobsAt(s) :
           same.from = job.from /\ same.req = job.req /\ same.chain = job.chain
    BY <1>1
  <2>3. Expected(s, same)
    BY DEF Lines, AllExpected
  <2> QED BY <1>3, <2>1, <2>2, <2>3 DEF Expected, Reader
<1> QED BY <1>2, <1>3

(* The answer that is read has left the stage; what the reader had posted  *)
(* is late, if it was another's.                                           *)
LEMMA ReadAtStage ==
    ASSUME Lines, Owed, NEW s \in Stages, NEW job, Heard(s, job),
           job \in JobsAt(s) \/ (worker[s].state # "idle" /\ job = worker[s]),
           NEW in \in Seq(JobType), NEW w \in {Idle} \cup WorkType,
           Thinner(inbox[s], queue[s], worker[s], in, queue[s], w),
           Hearing(w, Reader(s, job)) => Hearing(worker[s], Reader(s, job)),
           job.from \in Callers => Mute(in, queue[s], w, job.from)
    PROVE  /\ Thinner(inbox[s], queue[s], worker[s], NowLate(in, s, job), queue[s], w)
           /\ Mute(NowLate(in, s, job), queue[s], w, Reader(s, job))
           /\ LineDrops(in, Reader(s, job), NowLate(in, s, job))
           /\ Silent(queue[s], Reader(s, job)) /\ ~Hearing(w, Reader(s, job))
<1>1. queue[s] \in Seq(JobType)
  BY DEF Lines, Types
<1>2. CASE job.from = Late
  <2>1. /\ Reader(s, job) = s - 1 /\ s - 1 \in Callers \ {Gateway}
        /\ Silent(queue[s], s - 1) /\ ~Hearing(worker[s], s - 1)
    BY <1>2, ReaderWaits, LateHere
  <2>2. NowLate(in, s, job) = Redirected(in, s - 1, Late)
    BY <1>2, StageNumbers DEF NowLate, Heard
  <2>3. LineDrops(in, s - 1, Redirected(in, s - 1, Late)) /\ LineDrops(queue[s], s - 1, queue[s])
    BY <1>1, <2>1, ClosedLine
  <2>4. WorkerDrops(w, s - 1, w)
    BY <2>1, IdleIsNoWork DEF WorkerDrops, Drops, Hearing
  <2>5. /\ Thinner(in, queue[s], w, Redirected(in, s - 1, Late), queue[s], w)
        /\ Mute(Redirected(in, s - 1, Late), queue[s], w, s - 1)
    BY <1>1, <2>1, <2>3, <2>4, ThinDrops
  <2> QED BY <2>1, <2>2, <2>3, <2>5, ThinTrans DEF Mute
<1>3. CASE job.from # Late
  <2>1. job.from \in Callers /\ Reader(s, job) = job.from /\ NowLate(in, s, job) = in
    BY <1>3 DEF Heard, Overtaken, NowLate, Reader
  <2> QED BY <2>1, ClosedLine DEF Mute
<1> QED BY <1>2, <1>3

(* What an answer does.                                                    *)
LEMMA AnswerShape ==
    ASSUME Lines, Owed, NEW s \in Stages, NEW job, NEW status, NEW out, NEW open, NEW workers,
           Answer(s, job, status, out, open, workers)
    PROVE  /\ Heard(s, job) =>
                 /\ CallerGets(Reader(s, job), job.req.id, status, out, workers)
                 /\ unread' = unread
                 /\ disturbed' = IF job.from = Late
                                 THEN disturbed \cup {Posted(Reader(s, job)).id} ELSE disturbed
           /\ ~Heard(s, job) =>
                 /\ worker' = workers /\ UNCHANGED <<gw, outcome, tokens, call, disturbed>>
                 /\ unread' = IF job.from = Late
                              THEN [unread EXCEPT ![s] = LateAnswer(job, status, out, open)]
                              ELSE unread
  BY DEF Answer, Heard, Reader

LEMMA LateAnswerFits ==
    ASSUME NEW job, job.req \in RequestType, NEW status \in Nat, NEW out \in Seq(Nat),
           status = 200 => out # <<>>, NEW open
    PROVE  /\ \A answer \in LateAnswer(job, status, out, open) : AnswerFits(answer)
           /\ \E answer : LateAnswer(job, status, out, open) = {answer}
<1>1. PICK answer : answer = [id |-> job.req.id, status |-> status, out |-> out, open |-> open]
  OBVIOUS
<1>2. job.req.id \in Requests
  BY DEF RequestType
<1>3. AnswerFits(answer)
  BY <1>1, <1>2 DEF AnswerFits
<1>4. LateAnswer(job, status, out, open) = {answer}
  BY <1>1 DEF LateAnswer
<1> QED BY <1>3, <1>4

(* The queue is full, and somebody reads the 429.                          *)
LEMMA RefusalEnds ==
    ASSUME Lines, Owed, NEW s \in Stages, NEW i \in DOMAIN inbox[s], Submit(s, i),
           ~(Len(queue[s]) < QueueSize), Heard(s, inbox[s][i])
    PROVE  LET c == Reader(s, inbox[s][i]) IN
           /\ c \in Callers /\ Ends(c, worker)
           /\ queue' = queue /\ UNCHANGED <<sessions, unread>>
           /\ CallerGets(c, inbox[s][i].req.id, 429, <<>>, worker)
           /\ disturbed' = IF inbox[s][i].from = Late THEN disturbed \cup {Posted(c).id} ELSE disturbed
           /\ LineDrops(RemoveAt(inbox[s], i), c, inbox'[s])
           /\ Silent(queue[s], c) /\ ~Hearing(worker[s], c)
           /\ inbox'[s] = NowLate(RemoveAt(inbox[s], i), s, inbox[s][i])
           /\ \A t \in Stages \ {s} : inbox'[t] = inbox[t]
<1>1. PICK job : job = inbox[s][i]
  OBVIOUS
<1>2. PICK c : c = Reader(s, job)
  OBVIOUS
<1>3. PICK in : in = RemoveAt(inbox[s], i)
  OBVIOUS
<1>4. /\ Answer(s, job, 429, <<>>, TRUE, worker)
      /\ inbox' = [inbox EXCEPT ![s] = NowLate(in, s, job)]
      /\ queue' = queue /\ UNCHANGED <<sessions, faults>>
  BY <1>1, <1>3 DEF Submit
<1>5. /\ CallerGets(c, job.req.id, 429, <<>>, worker) /\ unread' = unread
      /\ disturbed' = IF job.from = Late THEN disturbed \cup {Posted(c).id} ELSE disturbed
  <2>1. PICK status, out : status = 429 /\ out = <<>>
    OBVIOUS
  <2>2. Answer(s, job, status, out, TRUE, worker) /\ Heard(s, job)
    BY <1>1, <1>4, <2>1
  <2>3. /\ CallerGets(c, job.req.id, status, out, worker) /\ unread' = unread
        /\ disturbed' = IF job.from = Late THEN disturbed \cup {Posted(c).id} ELSE disturbed
    BY <1>2, <2>2, AnswerShape
  <2> QED BY <2>1, <2>3
<1>6. /\ inbox \in [Stages -> Seq(JobType)] /\ queue[s] \in Seq(JobType)
      /\ inbox[s] \in Seq(JobType) /\ worker[s] \in {Idle} \cup WorkType
  BY DEF Lines, Types, WorkerFits
<1>7. in \in Seq(JobType) /\ job \in ToSet(inbox[s]) /\ job \in JobsAt(s)
  BY <1>1, <1>3, <1>6, RemoveShape DEF ToSet, JobsAt, Jobs
<1>8. c \in Callers /\ call[c].state = "wait" /\ s = Target(c)
  BY <1>1, <1>2, <1>7, ReaderWaits
<1>9. /\ Thinner(inbox[s], queue[s], worker[s], in, queue[s], worker[s])
      /\ job.from \in Callers => Mute(in, queue[s], worker[s], job.from)
  BY <1>1, <1>3, <1>6, ThinRefuse DEF Lines, HeardOnce
<1>10. /\ Thinner(inbox[s], queue[s], worker[s], NowLate(in, s, job), queue[s], worker[s])
       /\ Mute(NowLate(in, s, job), queue[s], worker[s], c)
       /\ LineDrops(in, c, NowLate(in, s, job))
       /\ Silent(queue[s], c) /\ ~Hearing(worker[s], c)
  BY <1>1, <1>2, <1>6, <1>7, <1>9, ReadAtStage
<1>11. /\ NowLate(in, s, job) \in Seq(JobType)
       /\ inbox' \in [Stages -> Seq(JobType)] /\ inbox'[s] = NowLate(in, s, job)
       /\ \A t \in Stages \ {s} : inbox'[t] = inbox[t]
  BY <1>4, <1>6, <1>10 DEF LineDrops
<1>12. Released(c, worker)
  <2>1. PICK status, out : status = 429 /\ out = <<>>
    OBVIOUS
  <2>2. status \in Nat /\ out \in Seq(Nat) /\ status # 200
    BY <2>1
  <2>3. CallerGets(c, job.req.id, status, out, worker) /\ call[c].state # "idle"
    BY <1>5, <1>8, <2>1
  <2> QED BY <1>8, <2>2, <2>3, AnswerReleased
<1>13. StagesFit
  <2>1. Posted(c).id \in Requests
    BY <1>8, JobIsJob DEF Lines, JobType, RequestType
  <2> QED BY <1>4, <1>5, <1>11, <2>1 DEF StagesFit, Lines, Types
<1>14. ASSUME NEW t \in Stages
       PROVE  /\ Thinner(inbox[t], queue[t], worker[t], inbox'[t], queue'[t], worker[t])
              /\ Mute(inbox'[t], queue'[t], worker[t], c)
  <2>1. CASE t = s
    BY <1>4, <1>10, <1>11, <2>1
  <2>2. CASE t # s
    <3>1. MuteAt(t, c)
      BY <1>8, <2>2, MuteUnless DEF Lines
    <3> QED BY <1>4, <1>11, <2>2, <3>1, ThinSame DEF MuteAt
  <2> QED BY <2>1, <2>2
<1>15. Ends(c, worker)
  BY <1>8, <1>12, <1>13, <1>14, SameWorkers DEF Ends
<1> QED BY <1>1, <1>2, <1>3, <1>4, <1>5, <1>8, <1>10, <1>11, <1>15

LEMMA LinesSubmit ==
    ASSUME Lines, Owed, NEW s \in Stages, NEW i \in DOMAIN inbox[s], Submit(s, i)
    PROVE  Lines'
<1>8. CASE ~(Len(queue[s]) < QueueSize) /\ Heard(s, inbox[s][i])
  BY <1>8, RefusalEnds, EndsLines
<1> SUFFICES ASSUME Len(queue[s]) < QueueSize \/ ~Heard(s, inbox[s][i])
             PROVE  Lines'
  BY <1>8
<1> DEFINE job == inbox[s][i]
<1>1. /\ inbox' = [inbox EXCEPT ![s] = RemoveAt(inbox[s], i)]
      /\ UNCHANGED <<sessions, faults, disturbed>>
  BY AnswerShape DEF Submit, NowLate, Heard
<1>2. inbox \in [Stages -> Seq(JobType)] /\ queue \in [Stages -> Seq(JobType)]
  BY DEF Lines, Types
<1>3. /\ inbox[s] \in Seq(JobType) /\ queue[s] \in Seq(JobType)
      /\ job \in JobType /\ job \in JobsAt(s)
      /\ RemoveAt(inbox[s], i) \in Seq(JobType)
  <2>1. inbox[s] \in Seq(JobType) /\ queue[s] \in Seq(JobType)
    BY <1>2
  <2>2. job \in JobType /\ job \in ToSet(inbox[s])
    BY <2>1 DEF ToSet
  <2> QED BY <2>1, <2>2, RemoveShape DEF JobsAt, Jobs
<1>4. /\ inbox' \in [Stages -> Seq(JobType)]
      /\ inbox'[s] = RemoveAt(inbox[s], i)
      /\ \A t \in Stages \ {s} : inbox'[t] = inbox[t]
  BY <1>1, <1>2, <1>3
<1>5. CASE Len(queue[s]) < QueueSize
  <2>1. /\ queue' = [queue EXCEPT ![s] = Append(queue[s], job)]
        /\ UNCHANGED <<gw, outcome, tokens, call, worker, unread>>
    BY <1>5 DEF Submit
  <2>2. Append(queue[s], job) \in Seq(JobType) /\ Len(Append(queue[s], job)) = Len(queue[s]) + 1
    BY <1>3
  <2>3. /\ queue' \in [Stages -> Seq(JobType)]
        /\ queue'[s] = Append(queue[s], job)
        /\ \A t \in Stages \ {s} : queue'[t] = queue[t]
    BY <1>2, <2>1, <2>2
  <2>4. Len(queue[s]) \in Nat
    BY <1>3
  <2>5. ASSUME NEW t \in Stages PROVE Len(queue'[t]) <= QueueSize
    <3>1. CASE t = s
      BY <1>5, <2>2, <2>3, <2>4, <3>1, PipelineAssumption DEF PipelineAssumption
    <3>2. CASE t # s
      BY <2>3, <3>2 DEF Lines, Types
    <3> QED BY <3>1, <3>2
  <2>6. Types'
    BY <1>1, <1>4, <2>1, <2>3, <2>5 DEF Lines, Types
  <2>7. CallsFit'
    BY <2>1 DEF Lines, CallsFit
  <2>8. ASSUME NEW t \in Stages PROVE ThinAt(t)
    <3>1. CASE t = s
      BY <1>3, <1>4, <2>1, <2>3, <3>1, ThinAccept DEF ThinAt
    <3>2. CASE t # s
      BY <1>4, <2>1, <2>3, <3>2, ThinSame DEF ThinAt
    <3> QED BY <3>1, <3>2
  <2>9. \A c \in Callers : Kept(c)
    BY <2>1 DEF Kept
  <2> QED BY <2>6, <2>7, <2>8, <2>9, LinesThin
<1>6. CASE ~(Len(queue[s]) < QueueSize) /\ ~Heard(s, job)
  <2>1. /\ UNCHANGED <<gw, outcome, tokens, call, worker, queue>>
        /\ unread' = IF job.from = Late
                     THEN [unread EXCEPT ![s] = LateAnswer(job, 429, <<>>, TRUE)] ELSE unread
    <3>1. PICK status, out : status = 429 /\ out = <<>>
      OBVIOUS
    <3>2. Answer(s, job, status, out, TRUE, worker) /\ queue' = queue
      BY <1>6, <3>1 DEF Submit
    <3>3. /\ UNCHANGED <<gw, outcome, tokens, call, worker>>
          /\ unread' = IF job.from = Late
                       THEN [unread EXCEPT ![s] = LateAnswer(job, status, out, TRUE)] ELSE unread
      BY <1>6, <3>2, AnswerShape
    <3> QED BY <3>1, <3>2, <3>3
  <2>2. Types'
    <3>1. PICK status, out : status = 429 /\ out = <<>>
      OBVIOUS
    <3>2. status \in Nat /\ out \in Seq(Nat) /\ status # 200
      BY <3>1
    <3>3. \A answer \in LateAnswer(job, status, out, TRUE) : AnswerFits(answer)
      BY <1>3, <3>2, LateAnswerFits DEF JobType
    <3>4. unread = [t \in Stages |-> unread[t]]
      BY DEF Lines, Types
    <3>5. /\ unread' = [t \in Stages |-> unread'[t]]
          /\ \A t \in Stages : unread'[t] = unread[t] \/ unread'[t] = LateAnswer(job, status, out, TRUE)
      BY <2>1, <3>1, <3>4
    <3>6. \A t \in Stages : \A answer \in unread'[t] : AnswerFits(answer)
      BY <3>3, <3>5 DEF Lines, Types
    <3> QED BY <1>1, <1>4, <2>1, <3>5, <3>6 DEF Lines, Types
  <2>3. CallsFit'
    BY <2>1 DEF Lines, CallsFit
  <2>4. ASSUME NEW t \in Stages PROVE ThinAt(t)
    <3>1. CASE t = s
      BY <1>3, <1>4, <2>1, <3>1, ThinRefuse DEF ThinAt
    <3>2. CASE t # s
      BY <1>4, <2>1, <3>2, ThinSame DEF ThinAt
    <3> QED BY <3>1, <3>2
  <2>5. \A c \in Callers : Kept(c)
    BY <2>1 DEF Kept
  <2> QED BY <2>2, <2>3, <2>4, <2>5, LinesThin
<1> QED BY <1>5, <1>6

LEMMA RequestIsRequest ==
    ASSUME NEW req \in RequestType
    PROVE  IsRequest(req)
<1>1. req.tokens \in Seq(Nat) /\ req.tokens # <<>>
  BY DEF RequestType, Frames
<1>2. Len(req.tokens) >= 1
  BY <1>1
<1> QED BY <1>1, <1>2 DEF RequestType, IsRequest

(* What the worker of a stage makes of the request at the front            *)
Relays(s, job, result) == job.chain /\ result = "done" /\ s < NumStages

Ran(s, result, job, after) ==
    /\ worker[s].state = "idle" /\ queue[s] # <<>> /\ job \in JobType
    /\ IsRequest(job.req) /\ SessionMap(sessions[s])
    /\ queue' = [queue EXCEPT ![s] = Tail(queue[s])]
    /\ sessions' = [sessions EXCEPT ![s] = after.sessions]
    /\ disturbed' = disturbed \cup (DOMAIN sessions[s] \ DOMAIN after.sessions)
    /\ UNCHANGED <<gw, outcome, tokens, inbox, unread>>
    /\ worker' = [worker EXCEPT ![s] = worker'[s]]
    /\ worker'[s] \in WorkType
    /\ worker'[s].req = job.req /\ worker'[s].chain = job.chain /\ worker'[s].from = job.from
    /\ worker'[s].state = IF Relays(s, job, result) THEN "calling" ELSE "replying"
    /\ worker'[s].status = IF result = "done" THEN 200 ELSE 400
    /\ worker'[s].out = after.out
    /\ call' = IF Relays(s, job, result) THEN [call EXCEPT ![s] = FirstTry] ELSE call

LEMMA ExecuteShape ==
    ASSUME Types, NEW s \in Stages, NEW result, Execute(s, result)
    PROVE  Ran(s, result, Head(queue[s]), Forward(sessions[s], Head(queue[s]).req, result))
<1>1. PICK job : job = Head(queue[s])
  OBVIOUS
<1>2. PICK after : after = Forward(sessions[s], job.req, result)
  OBVIOUS
<1>3. PICK status : status = IF result = "done" THEN 200 ELSE 400
  OBVIOUS
<1>4. PICK new : new = [req |-> job.req, chain |-> job.chain, from |-> job.from,
                        state |-> IF Relays(s, job, result) THEN "calling" ELSE "replying",
                        status |-> status, out |-> after.out]
  OBVIOUS
<1>5. /\ worker[s].state = "idle" /\ queue[s] # <<>>
      /\ queue' = [queue EXCEPT ![s] = Tail(queue[s])]
      /\ sessions' = [sessions EXCEPT ![s] = after.sessions]
      /\ disturbed' = disturbed \cup (DOMAIN sessions[s] \ DOMAIN after.sessions)
      /\ Executed(s, job, status, after.out)
      /\ UNCHANGED <<gw, outcome, tokens, inbox, unread>>
  BY <1>1, <1>2, <1>3 DEF Execute
<1>6. queue[s] \in Seq(JobType) /\ SessionMap(sessions[s])
  BY DEF Types
<1>7. job \in JobType
  BY <1>1, <1>5, <1>6, TailLine
<1>8. job.req \in RequestType
  BY <1>7 DEF JobType
<1>9. IsRequest(job.req)
  BY <1>8, RequestIsRequest
<1>10. after.out \in Seq(Nat)
  BY <1>2, <1>6, <1>9, ForwardOut
<1>11. (job.chain /\ status = 200 /\ s < NumStages) <=> Relays(s, job, result)
  BY <1>3 DEF Relays
<1>12. /\ worker' = [worker EXCEPT ![s] = new]
       /\ call' = IF Relays(s, job, result) THEN [call EXCEPT ![s] = FirstTry] ELSE call
  <2>1. CASE Relays(s, job, result)
    <3>1. job.chain /\ status = 200 /\ s < NumStages
      BY <1>11, <2>1
    <3> QED BY <1>4, <1>5, <2>1, <3>1 DEF Executed
  <2>2. CASE ~Relays(s, job, result)
    <3>1. ~(job.chain /\ status = 200 /\ s < NumStages)
      BY <1>11, <2>2
    <3> QED BY <1>4, <1>5, <2>2, <3>1 DEF Executed
  <2> QED BY <2>1, <2>2
<1>13. status \in Nat
  BY <1>3
<1>14. /\ new.req = job.req /\ new.chain = job.chain /\ new.from = job.from
       /\ new.state = IF Relays(s, job, result) THEN "calling" ELSE "replying"
       /\ new.status = status /\ new.out = after.out
  BY <1>4
<1>15. new \in WorkType
  BY <1>4, <1>7, <1>10, <1>13 DEF WorkType, JobType
<1>16. worker'[s] = new
  BY <1>12 DEF Types
<1>17. /\ worker' = [worker EXCEPT ![s] = worker'[s]]
       /\ worker'[s] \in WorkType
       /\ worker'[s].req = job.req /\ worker'[s].chain = job.chain /\ worker'[s].from = job.from
       /\ worker'[s].state = IF Relays(s, job, result) THEN "calling" ELSE "replying"
       /\ worker'[s].status = IF result = "done" THEN 200 ELSE 400
       /\ worker'[s].out = after.out
  <2>1. worker' = [worker EXCEPT ![s] = worker'[s]]
    BY <1>12, <1>16
  <2> QED BY <1>3, <1>14, <1>15, <1>16, <2>1
<1>18. Ran(s, result, job, after)
  BY <1>5, <1>6, <1>7, <1>9, <1>12, <1>17 DEF Ran
<1> QED BY <1>1, <1>2, <1>18

(* The forward of a stage, as far as the lines are concerned               *)
LEMMA RanSessions ==
    ASSUME NEW s \in Stages, NEW result, Types, Execute(s, result),
           NEW job, job = Head(queue[s]),
           NEW after, after = Forward(sessions[s], job.req, result)
    PROVE  /\ Ran(s, result, job, after)
           /\ SessionMap(after.sessions)
           /\ job.req.id \in DOMAIN after.sessions
           /\ after.sessions[job.req.id] = Served(Base(sessions[s], job.req), job.req, result)
           /\ \A q \in DOMAIN after.sessions \ {job.req.id} :
                 q \in DOMAIN sessions[s] /\ after.sessions[q] = sessions[s][q]
           /\ result = "done" => after.out \in Frames
<1>1. Ran(s, result, job, after)
  BY ExecuteShape
<1>2. IsRequest(job.req) /\ SessionMap(sessions[s])
  BY <1>1 DEF Ran
<1>3. /\ SessionMap(after.sessions)
      /\ job.req.id \in DOMAIN after.sessions
      /\ after.sessions[job.req.id] = Served(Base(sessions[s], job.req), job.req, result)
      /\ DOMAIN after.sessions \subseteq DOMAIN sessions[s] \cup {job.req.id}
      /\ \A q \in DOMAIN after.sessions \ {job.req.id} : after.sessions[q] = sessions[s][q]
  BY <1>2, ForwardShape
<1>4. ASSUME result = "done" PROVE after.out \in Frames
  <2>1. after.out \in Seq(Nat) /\ Len(after.out) = Len(job.req.tokens)
    BY <1>2, <1>4, ForwardOut
  <2>2. Len(after.out) >= 1
    BY <1>2, <2>1 DEF IsRequest
  <2> QED BY <2>1, <2>2 DEF Frames
<1> QED BY <1>1, <1>3, <1>4

LEMMA LinesExecute ==
    ASSUME Lines, NEW s \in Stages, NEW result, Execute(s, result)
    PROVE  Lines'
<1>1. PICK job : job = Head(queue[s])
  OBVIOUS
<1>2. PICK after : after = Forward(sessions[s], job.req, result)
  OBVIOUS
<1>3. PICK w : w = worker'[s]
  OBVIOUS
<1>4. /\ Ran(s, result, job, after)
      /\ SessionMap(after.sessions)
      /\ result = "done" => after.out \in Frames
  BY <1>1, <1>2, RanSessions DEF Lines
<1>5. /\ worker[s].state = "idle" /\ queue[s] # <<>> /\ job \in JobType
      /\ SessionMap(sessions[s])
      /\ queue' = [queue EXCEPT ![s] = Tail(queue[s])]
      /\ sessions' = [sessions EXCEPT ![s] = after.sessions]
      /\ disturbed' = disturbed \cup (DOMAIN sessions[s] \ DOMAIN after.sessions)
      /\ UNCHANGED <<gw, outcome, tokens, inbox, unread>>
      /\ worker' = [worker EXCEPT ![s] = w]
      /\ w \in WorkType
      /\ w.req = job.req /\ w.chain = job.chain /\ w.from = job.from
      /\ w.state = IF Relays(s, job, result) THEN "calling" ELSE "replying"
      /\ w.status = IF result = "done" THEN 200 ELSE 400
      /\ w.out = after.out
      /\ call' = IF Relays(s, job, result) THEN [call EXCEPT ![s] = FirstTry] ELSE call
  BY <1>3, <1>4 DEF Ran
<1>6. /\ call \in [Callers -> CallType]
      /\ queue \in [Stages -> Seq(JobType)]
      /\ worker = [t \in Stages |-> worker[t]]
      /\ sessions = [t \in Stages |-> sessions[t]]
      /\ inbox \in [Stages -> Seq(JobType)]
  BY DEF Lines, Types
<1>7. FirstTry \in CallType /\ FirstTry.state = "send"
  BY DEF FirstTry, CallType
<1>8. Relays(s, job, result) => s \in Callers \ {Gateway}
  BY StageNumbers DEF Relays, Stages, Gateway
<1> HIDE DEF FirstTry
<1>9. /\ call' \in [Callers -> CallType]
      /\ \A c \in Callers : c # s => call'[c] = call[c]
      /\ Relays(s, job, result) => call'[s] = FirstTry
      /\ ~Relays(s, job, result) => call' = call
  BY <1>5, <1>6, <1>7, <1>8
<1>10. /\ queue[s] \in Seq(JobType) /\ Tail(queue[s]) \in Seq(JobType)
       /\ Len(Tail(queue[s])) = Len(queue[s]) - 1
  BY <1>5, <1>6, TailLine
<1>11. /\ queue'[s] = Tail(queue[s]) /\ worker'[s] = w /\ sessions'[s] = after.sessions
       /\ \A t \in Stages \ {s} : queue'[t] = queue[t] /\ worker'[t] = worker[t] /\ sessions'[t] = sessions[t]
  BY <1>5, <1>6
<1>12. WorkerFits(s, w)
  BY <1>4, <1>5, <1>8 DEF WorkerFits, Frames, Relays
<1>13. Types'
  <2>1. queue' \in [Stages -> Seq(JobType)]
    BY <1>5, <1>6, <1>10
  <2>2. ASSUME NEW t \in Stages PROVE Len(queue'[t]) <= QueueSize
    <3>1. Len(queue[t]) <= QueueSize
      BY DEF Lines, Types
    <3>2. CASE t = s
      <4>1. PICK n : n = Len(queue[s])
        OBVIOUS
      <4>2. Len(queue'[t]) = n - 1
        BY <1>10, <1>11, <3>2, <4>1
      <4>3. n \in Nat /\ n <= QueueSize
        BY <1>10, <3>1, <3>2, <4>1
      <4>4. n - 1 <= QueueSize
        BY <4>3, PipelineAssumption DEF PipelineAssumption
      <4> QED BY <4>2, <4>4
    <3>3. CASE t # s
      BY <1>11, <3>1, <3>3
    <3> QED BY <3>2, <3>3
  <2>3. worker' = [t \in Stages |-> worker'[t]] /\ sessions' = [t \in Stages |-> sessions'[t]]
    BY <1>5, <1>6
  <2>4. ASSUME NEW t \in Stages PROVE WorkerFits(t, worker'[t]) /\ SessionMap(sessions'[t])
    <3>1. CASE t = s
      BY <1>4, <1>11, <1>12, <3>1
    <3>2. CASE t # s
      BY <1>11, <3>2 DEF Lines, Types
    <3> QED BY <3>1, <3>2
  <2>5. disturbed' \subseteq Requests
    BY <1>5 DEF Lines, Types, SessionMap
  <2> QED BY <1>5, <1>6, <1>9, <2>1, <2>2, <2>3, <2>4, <2>5 DEF Lines, Types
<1>14. CallsFit'
  <2>1. ASSUME NEW c \in Callers \ {Gateway}
        PROVE  worker'[c].state = "calling" <=> call'[c].state # "idle"
    <3>1. worker[c].state = "calling" <=> call[c].state # "idle"
      BY DEF Lines, CallsFit
    <3>2. c \in Stages
      BY StageNumbers
    <3>3. CASE c # s
      BY <1>9, <1>11, <3>1, <3>2, <3>3
    <3>4. CASE c = s /\ Relays(s, job, result)
      BY <1>5, <1>7, <1>9, <1>11, <3>4
    <3>5. CASE c = s /\ ~Relays(s, job, result)
      BY <1>5, <1>9, <1>11, <3>1, <3>5
    <3> QED BY <3>3, <3>4, <3>5
  <2>2. call'[Gateway] = call[Gateway]
    BY <1>9, StageNumbers DEF Stages, Gateway
  <2> QED BY <1>5, <2>1, <2>2 DEF Lines, CallsFit
<1>15. ASSUME NEW t \in Stages PROVE ThinAt(t)
  <2>1. CASE t = s
    <3>1. worker[s] = Idle
      BY <1>5, IdleIsNoWork DEF Lines, Types, WorkerFits
    <3>2. AsJob(w) = job
      BY <1>5 DEF AsJob, JobType
    <3>3. w.state # "idle"
      BY <1>5, IdleIsNoWork
    <3>4. Thinner(inbox[s], queue[s], Idle, inbox[s], Tail(queue[s]), w)
      BY <1>1, <1>5, <1>10, <3>2, <3>3, ThinExecute
    <3> QED BY <1>5, <1>11, <2>1, <3>1, <3>4 DEF ThinAt
  <2>2. CASE t # s
    BY <1>5, <1>11, <2>2, ThinSame DEF ThinAt
  <2> QED BY <2>1, <2>2
<1>16. ASSUME NEW c \in Callers PROVE Kept(c) \/ \A t \in Stages : MuteAt(t, c)'
  <2>1. CASE c # s
    <3>1. c # Gateway => c \in Stages
      BY StageNumbers
    <3> QED BY <1>5, <1>9, <1>11, <2>1, <3>1 DEF Kept
  <2>2. CASE c = s
    <3>1. c # Gateway
      BY <2>2 DEF Stages, Gateway
    <3>2. call[c].state = "idle"
      BY <1>5, <2>2, <3>1 DEF Lines, CallsFit
    <3>3. \A t \in Stages : MuteAt(t, c)
      BY <3>2, MuteUnless DEF Lines
    <3> QED BY <1>15, <3>3, ThinMute DEF MuteAt, ThinAt
  <2> QED BY <2>1, <2>2
<1> QED BY <1>13, <1>14, <1>15, <1>16, LinesThin

LEMMA IdleWorkers ==
    ASSUME Lines, NEW s \in Stages, worker[s].state = "replying"
    PROVE  /\ WorkersFit([worker EXCEPT ![s] = Idle])
           /\ [worker EXCEPT ![s] = Idle][s] = Idle
           /\ \A t \in Stages \ {s} : [worker EXCEPT ![s] = Idle][t] = worker[t]
<1> DEFINE new == [worker EXCEPT ![s] = Idle]
<1>1. worker = [t \in Stages |-> worker[t]] /\ \A t \in Stages : WorkerFits(t, worker[t])
  BY DEF Lines, Types
<1> HIDE DEF Idle
<1>2. new = [t \in Stages |-> new[t]] /\ new[s] = Idle /\ \A t \in Stages \ {s} : new[t] = worker[t]
  BY <1>1
<1>3. WorkerFits(s, Idle) /\ Idle.state # "calling"
  BY IdleIsNoWork DEF WorkerFits, Idle
<1> HIDE DEF new
<1>4. WorkersFit(new)
  BY <1>1, <1>2, <1>3 DEF WorkersFit
<1> QED BY <1>2, <1>4 DEF new

LEMMA WorkingJob ==
    ASSUME Lines, NEW s \in Stages, worker[s].state # "idle"
    PROVE  /\ worker[s] \in WorkType
           /\ Expected(s, worker[s])
           /\ AsJob(worker[s]) \in JobsAt(s)
<1>1. AsJob(worker[s]) \in JobsAt(s)
  BY DEF JobsAt, Jobs
<1>2. /\ AsJob(worker[s]).req = worker[s].req /\ AsJob(worker[s]).chain = worker[s].chain
      /\ AsJob(worker[s]).from = worker[s].from
  BY DEF AsJob
<1>3. Expected(s, AsJob(worker[s]))
  BY <1>1 DEF Lines, AllExpected
<1>4. worker[s] \in WorkType
  BY IdleIsNoWork DEF Lines, Types, WorkerFits
<1> QED BY <1>1, <1>2, <1>3, <1>4, JobsTyped DEF Expected, Lines


(* The worker of a stage answers, and somebody reads the answer.           *)
LEMMA ReplyEnds ==
    ASSUME Lines, Owed, NEW s \in Stages, Reply(s), Heard(s, worker[s]),
           NEW c, c = Reader(s, worker[s]),
           NEW workers, workers = [worker EXCEPT ![s] = Idle]
    PROVE  /\ c \in Callers /\ Ends(c, workers)
           /\ UNCHANGED <<queue, sessions, unread>>
           /\ CallerGets(c, worker[s].req.id, worker[s].status, worker[s].out, workers)
           /\ disturbed' = IF worker[s].from = Late THEN disturbed \cup {Posted(c).id} ELSE disturbed
           /\ LineDrops(inbox[s], c, inbox'[s])
           /\ Silent(queue[s], c)
           /\ inbox'[s] = NowLate(inbox[s], s, worker[s])
           /\ \A t \in Stages \ {s} : inbox'[t] = inbox[t]
           /\ workers[s] = Idle /\ \A t \in Stages \ {s} : workers[t] = worker[t]
<1>1. PICK w : w = worker[s]
  OBVIOUS
<1>2. c = Reader(s, w)
  BY <1>1
<1>3. PICK in : in = NowLate(inbox[s], s, w)
  OBVIOUS
<1>4. /\ w.state = "replying" /\ Answer(s, w, w.status, w.out, TRUE, workers)
      /\ inbox' = [inbox EXCEPT ![s] = in]
      /\ UNCHANGED <<queue, sessions, faults>>
  BY <1>1, <1>3 DEF Reply
<1>5. /\ CallerGets(c, w.req.id, w.status, w.out, workers) /\ unread' = unread
      /\ disturbed' = IF w.from = Late THEN disturbed \cup {Posted(c).id} ELSE disturbed
  <2>1. Heard(s, w)
    BY <1>1
  <2>2. PICK status, out : status = w.status /\ out = w.out
    OBVIOUS
  <2>3. Answer(s, w, status, out, TRUE, workers)
    BY <1>4, <2>2
  <2>4. /\ CallerGets(Reader(s, w), w.req.id, status, out, workers)
        /\ unread' = unread
        /\ disturbed' = IF w.from = Late
                        THEN disturbed \cup {Posted(Reader(s, w)).id} ELSE disturbed
    BY ONLY Lines, Owed, s \in Stages, <2>1, <2>3, AnswerShape
  <2> QED BY ONLY <1>2, <2>2, <2>4
<1>6. /\ inbox \in [Stages -> Seq(JobType)] /\ inbox[s] \in Seq(JobType)
      /\ w \in WorkType /\ WorkerFits(s, w)
  BY <1>1, <1>4, WorkingJob DEF Lines, Types
<1>7. c \in Callers /\ call[c].state = "wait" /\ s = Target(c)
  BY <1>1, <1>2, <1>4, ReaderWaits
<1>8. /\ WorkersFit(workers) /\ workers[s] = Idle
      /\ \A t \in Stages \ {s} : workers[t] = worker[t]
  BY <1>1, <1>4, IdleWorkers
<1>9. /\ Thinner(inbox[s], queue[s], worker[s], inbox[s], queue[s], Idle)
      /\ w.from \in Callers => Mute(inbox[s], queue[s], Idle, w.from)
  BY <1>1, <1>4, ThinIdle DEF Lines, HeardOnce, Hearing
<1>10. /\ Thinner(inbox[s], queue[s], worker[s], in, queue[s], Idle)
       /\ Mute(in, queue[s], Idle, c)
       /\ LineDrops(inbox[s], c, in)
       /\ Silent(queue[s], c)
  BY <1>1, <1>2, <1>3, <1>4, <1>6, <1>9, ReadAtStage, IdleIsNoWork DEF Hearing
<1>11. /\ in \in Seq(JobType)
       /\ inbox' \in [Stages -> Seq(JobType)] /\ inbox'[s] = in
       /\ \A t \in Stages \ {s} : inbox'[t] = inbox[t]
  BY <1>4, <1>6, <1>10 DEF LineDrops
<1>12. Released(c, workers)
  <2>1. w.status \in Nat /\ w.out \in Seq(Nat) /\ (w.status = 200 => w.out \in Frames)
    BY <1>4, <1>6 DEF WorkType, WorkerFits, Frames
  <2>2. call[c].state # "idle"
    BY <1>7
  <2> QED BY <1>5, <1>7, <2>1, <2>2, AnswerReleased
<1>13. StagesFit
  <2>1. Posted(c).id \in Requests
    BY <1>7, JobIsJob DEF Lines, JobType, RequestType
  <2> QED BY <1>4, <1>5, <1>11, <2>1 DEF StagesFit, Lines, Types
<1>14. ASSUME NEW t \in Stages
       PROVE  /\ Thinner(inbox[t], queue[t], worker[t], inbox'[t], queue'[t], workers[t])
              /\ Mute(inbox'[t], queue'[t], workers[t], c)
  <2>1. CASE t = s
    BY <1>4, <1>8, <1>10, <1>11, <2>1
  <2>2. CASE t # s
    <3>1. MuteAt(t, c)
      BY <1>7, <2>2, MuteUnless DEF Lines
    <3> QED BY <1>4, <1>8, <1>11, <2>2, <3>1, ThinSame DEF MuteAt
  <2> QED BY <2>1, <2>2
<1>15. Ends(c, workers)
  BY <1>7, <1>8, <1>12, <1>13, <1>14 DEF Ends
<1> QED BY <1>1, <1>2, <1>3, <1>4, <1>5, <1>7, <1>8, <1>10, <1>11, <1>15

LEMMA LinesReply ==
    ASSUME Lines, Owed, NEW s \in Stages, Reply(s)
    PROVE  Lines'
<1>0. CASE Heard(s, worker[s])
  BY <1>0, ReplyEnds, EndsLines
<1> SUFFICES ASSUME ~Heard(s, worker[s])
             PROVE  Lines'
  BY <1>0
<1>1. PICK workers : workers = [worker EXCEPT ![s] = Idle]
  OBVIOUS
<1>2. PICK w : w = worker[s]
  OBVIOUS
<1>3. /\ w.state = "replying" /\ Answer(s, w, w.status, w.out, TRUE, workers)
      /\ NowLate(inbox[s], s, w) = inbox[s]
      /\ inbox' = [inbox EXCEPT ![s] = NowLate(inbox[s], s, w)]
      /\ UNCHANGED <<queue, sessions, faults>>
  BY <1>1, <1>2 DEF Reply, Heard, NowLate
<1>4. /\ w \in WorkType /\ WorkerFits(s, w)
      /\ inbox' = inbox
  BY <1>2, <1>3, WorkingJob DEF Lines, Types
<1>5. /\ WorkersFit(workers) /\ workers[s] = Idle
      /\ \A t \in Stages \ {s} : workers[t] = worker[t]
  BY <1>1, <1>2, <1>3, IdleWorkers
<1>7. ASSUME NEW t \in Stages
      PROVE  Thinner(inbox[t], queue[t], worker[t], inbox'[t], queue'[t], workers[t])
  <2>1. CASE t = s
    BY <1>3, <1>4, <1>5, <2>1, ThinIdle
  <2>2. CASE t # s
    BY <1>3, <1>4, <1>5, <2>2, ThinSame
  <2> QED BY <2>1, <2>2
<1>8. /\ worker' = workers /\ UNCHANGED <<gw, outcome, tokens, call, disturbed>>
      /\ unread' = IF w.from = Late
                   THEN [unread EXCEPT ![s] = LateAnswer(w, w.status, w.out, TRUE)] ELSE unread
  <2>1. PICK status, out, open : status = w.status /\ out = w.out /\ open = TRUE
    OBVIOUS
  <2>2. Answer(s, w, status, out, open, workers) /\ ~Heard(s, w)
    BY <1>2, <1>3, <2>1
  <2>3. /\ worker' = workers /\ UNCHANGED <<gw, outcome, tokens, call, disturbed>>
        /\ unread' = IF w.from = Late
                     THEN [unread EXCEPT ![s] = LateAnswer(w, status, out, open)] ELSE unread
    BY <2>2, AnswerShape
  <2> QED BY <2>1, <2>3
<1>9. Types'
  <2>1. \A answer \in LateAnswer(w, w.status, w.out, TRUE) : AnswerFits(answer)
    BY <1>3, <1>4, LateAnswerFits DEF WorkType, WorkerFits
  <2>2. unread = [t \in Stages |-> unread[t]]
    BY DEF Lines, Types
  <2>3. /\ unread' = [t \in Stages |-> unread'[t]]
        /\ \A t \in Stages :
              unread'[t] = unread[t] \/ unread'[t] = LateAnswer(w, w.status, w.out, TRUE)
    BY <1>8, <2>2
  <2>4. \A t \in Stages : \A answer \in unread'[t] : AnswerFits(answer)
    BY <2>1, <2>3 DEF Lines, Types
  <2> QED BY <1>3, <1>4, <1>5, <1>8, <2>3, <2>4 DEF Lines, Types, WorkersFit
<1>10. CallsFit'
  <2>1. ASSUME NEW c \in Callers \ {Gateway}
        PROVE  worker'[c].state = "calling" <=> worker[c].state = "calling"
    BY <1>5, <1>8, StageNumbers DEF WorkersFit
  <2> QED BY <1>8, <2>1 DEF Lines, CallsFit
<1>11. \A t \in Stages : ThinAt(t)
  BY <1>7, <1>8 DEF ThinAt
<1>12. ASSUME NEW c \in Callers PROVE Kept(c) \/ \A t \in Stages : MuteAt(t, c)'
  <2>1. CASE c # s
    <3>1. c # Gateway => c \in Stages
      BY StageNumbers
    <3> QED BY <1>5, <1>8, <2>1, <3>1 DEF Kept
  <2>2. CASE c = s
    <3>1. c # Gateway
      BY <2>2 DEF Stages, Gateway
    <3>2. call[c].state = "idle"
      BY <1>2, <1>3, <2>2, <3>1 DEF Lines, CallsFit
    <3>3. \A t \in Stages : MuteAt(t, c)
      BY <3>2, MuteUnless DEF Lines
    <3> QED BY <1>11, <3>3, ThinMute DEF MuteAt, ThinAt
  <2> QED BY <2>1, <2>2
<1> QED BY <1>9, <1>10, <1>11, <1>12, LinesThin

LEMMA EmptySessions == SessionMap(NoSessions)
<1>1. DOMAIN NoSessions = {} /\ NoSessions = [r \in DOMAIN NoSessions |-> NoSessions[r]]
  BY DEF NoSessions
<1> QED BY <1>1, FS_EmptySet, RuntimeAssumption DEF SessionMap, RuntimeAssumption


(* A stage dies, and with it its connection to the next.                   *)
LEMMA DiesShape ==
    ASSUME Lines, NEW s \in Stages, Dies(s), NEW workers, workers = Survivors(s)
    PROVE  /\ inbox' \in [Stages -> Seq(JobType)] /\ queue' \in [Stages -> Seq(JobType)]
           /\ inbox'[s] = <<>> /\ queue'[s] = <<>> /\ workers[s] = Idle
           /\ \A t \in Stages \ {s, s + 1} :
                 inbox'[t] = inbox[t] /\ queue'[t] = queue[t] /\ workers[t] = worker[t]
           /\ s + 1 \in Stages =>
                 /\ s \in Callers \ {Gateway} /\ Target(s) = s + 1 /\ s + 1 # s
                 /\ DropsAt(s + 1, s, workers)
                 /\ Mute(inbox'[s + 1], queue'[s + 1], workers[s + 1], Late)
           /\ workers = [t \in Stages |-> workers[t]]
           /\ \A t \in Stages : /\ WorkerFits(t, workers[t])
                                /\ Len(queue'[t]) <= QueueSize
                                /\ t # s => /\ workers[t].state = worker[t].state
                                            /\ workers[t].state # "idle" =>
                                                  /\ workers[t].req = worker[t].req
                                                  /\ workers[t].out = worker[t].out
           /\ \A t \in Stages : sessions'[t] = IF t = s THEN NoSessions ELSE sessions[t]
           /\ sessions' = [t \in Stages |-> sessions'[t]]
           /\ \A t \in Stages : SessionMap(sessions'[t])
<1>1. /\ inbox \in [Stages -> Seq(JobType)] /\ queue \in [Stages -> Seq(JobType)]
      /\ sessions = [t \in Stages |-> sessions[t]]
      /\ \A t \in Stages : /\ Len(queue[t]) <= QueueSize /\ WorkerFits(t, worker[t])
                           /\ SessionMap(sessions[t])
  BY DEF Lines, Types
<1>2. s + 1 # s /\ s \in Stages
  BY StageNumbers
<1> DEFINE left(line) == [i \in DOMAIN line |-> Closed(line[i], s)]
<1>3. /\ sessions' = [sessions EXCEPT ![s] = NoSessions]
      /\ inbox' = [t \in Stages |-> IF t = s THEN <<>>
                                    ELSE IF t = s + 1 THEN left(inbox[t]) ELSE inbox[t]]
      /\ queue' = [t \in Stages |-> IF t = s THEN <<>>
                                    ELSE IF t = s + 1 THEN left(queue[t]) ELSE queue[t]]
  BY DEF Dies
<1>4. workers = [t \in Stages |-> IF t = s THEN Idle
                                  ELSE IF t = s + 1 /\ worker[t].state # "idle" THEN Closed(worker[t], s)
                                  ELSE worker[t]]
  BY DEF Survivors
<1>5. /\ inbox'[s] = <<>> /\ queue'[s] = <<>> /\ workers[s] = Idle
      /\ \A t \in Stages \ {s, s + 1} :
            inbox'[t] = inbox[t] /\ queue'[t] = queue[t] /\ workers[t] = worker[t]
      /\ workers = [t \in Stages |-> workers[t]]
  BY <1>3, <1>4
<1>6. ASSUME s + 1 \in Stages
      PROVE  /\ s \in Callers \ {Gateway} /\ Target(s) = s + 1
             /\ inbox'[s + 1] = left(inbox[s + 1]) /\ queue'[s + 1] = left(queue[s + 1])
             /\ workers[s + 1] = IF worker[s + 1].state = "idle" THEN worker[s + 1]
                                 ELSE Closed(worker[s + 1], s)
             /\ DropsAt(s + 1, s, workers)
             /\ Mute(inbox'[s + 1], queue'[s + 1], workers[s + 1], Late)
  <2>1. s \in Callers \ {Gateway} /\ Target(s) = s + 1
    BY <1>2, <1>6, PipelineAssumption DEF PipelineAssumption, Stages, Callers, Gateway, Target
  <2>2. /\ inbox'[s + 1] = left(inbox[s + 1]) /\ queue'[s + 1] = left(queue[s + 1])
        /\ workers[s + 1] = IF worker[s + 1].state = "idle" THEN worker[s + 1]
                            ELSE Closed(worker[s + 1], s)
    BY <1>2, <1>3, <1>4, <1>6
  <2>3. /\ inbox[s + 1] \in Seq(JobType) /\ queue[s + 1] \in Seq(JobType)
        /\ worker[s + 1] \in {Idle} \cup WorkType
    BY <1>1, <1>6 DEF WorkerFits
  <2>4. LineDrops(inbox[s + 1], s, left(inbox[s + 1])) /\ LineDrops(queue[s + 1], s, left(queue[s + 1]))
    BY <2>1, <2>3, ClosedLine
  <2>5. WorkerDrops(worker[s + 1], s, workers[s + 1])
    BY <2>1, <2>2, <2>3, ClosedJob, IdleIsNoWork DEF WorkerDrops
  <2>6. ASSUME NEW line \in Seq(JobType) PROVE Silent(left(line), Late)
    <3>1. PICK n \in Nat : n = Len(line)
      BY <2>6
    <3>2. DOMAIN line = 1 .. n /\ \A i \in 1 .. n : line[i] \in JobType
      BY <3>1, <2>6
    <3>3. PICK new : new = left(line)
      OBVIOUS
    <3>4. DOMAIN new = 1 .. n /\ \A i \in 1 .. n : new[i] = Closed(line[i], s)
      BY <3>2, <3>3
    <3>5. \A i \in 1 .. n : new[i].from # Late
      BY <2>1, <3>2, <3>4, ClosedJob, StageNumbers
    <3> QED BY <3>3, <3>4, <3>5 DEF Silent
  <2>7. ~Hearing(workers[s + 1], Late)
    <3>1. CASE worker[s + 1].state = "idle"
      BY <2>2, <3>1 DEF Hearing
    <3>2. CASE worker[s + 1].state # "idle"
      <4>1. worker[s + 1] \in WorkType
        BY <2>3, <3>2, IdleIsNoWork
      <4>2. Closed(worker[s + 1], s).from # Late
        BY <2>1, <4>1, ClosedJob, StageNumbers
      <4> QED BY <2>2, <3>2, <4>2 DEF Hearing
    <3> QED BY <3>1, <3>2
  <2> QED BY <2>1, <2>2, <2>3, <2>4, <2>5, <2>6, <2>7 DEF DropsAt, Mute
<1> HIDE DEF left
<1>7. ASSUME NEW t \in Stages
      PROVE  /\ WorkerFits(t, workers[t])
             /\ inbox'[t] \in Seq(JobType) /\ queue'[t] \in Seq(JobType)
             /\ Len(queue'[t]) <= QueueSize
             /\ t # s => /\ workers[t].state = worker[t].state
                         /\ workers[t].state # "idle" =>
                               workers[t].req = worker[t].req /\ workers[t].out = worker[t].out
  <2>1. CASE t = s
    <3>1. <<>> \in Seq(JobType) /\ Len(<<>>) <= QueueSize
      BY PipelineAssumption DEF PipelineAssumption
    <3>2. WorkerFits(s, Idle)
      BY IdleIsNoWork DEF WorkerFits, Idle
    <3> QED BY <1>5, <2>1, <3>1, <3>2
  <2>2. CASE t # s /\ t # s + 1
    BY <1>1, <1>5, <2>2
  <2>3. CASE t = s + 1
    <3>1. DropsAt(t, s, workers) /\ s \in Callers
      BY <1>6, <2>3
    <3>2. WorkerFits(t, workers[t])
      BY <3>1, GivenUpWorkers DEF DropsAt, Lines
    <3> QED BY <1>1, <1>2, <2>3, <3>1, <3>2 DEF DropsAt, LineDrops, WorkerDrops, Drops
  <2> QED BY <2>1, <2>2, <2>3
<1>8. inbox' \in [Stages -> Seq(JobType)] /\ queue' \in [Stages -> Seq(JobType)]
  <2>1. inbox' = [t \in Stages |-> inbox'[t]] /\ queue' = [t \in Stages |-> queue'[t]]
    BY <1>3
  <2> QED BY <1>7, <2>1
<1>9. /\ \A t \in Stages : sessions'[t] = IF t = s THEN NoSessions ELSE sessions[t]
      /\ sessions' = [t \in Stages |-> sessions'[t]]
  BY <1>1, <1>3
<1>10. \A t \in Stages : SessionMap(sessions'[t])
  BY <1>1, <1>9, EmptySessions
<1> QED BY <1>2, <1>5, <1>6, <1>7, <1>8, <1>9, <1>10

LEMMA DiesThin ==
    ASSUME Lines, NEW s \in Stages, Dies(s), NEW workers, workers = Survivors(s)
    PROVE  /\ \A t \in Stages :
                 Thinner(inbox[t], queue[t], worker[t], inbox'[t], queue'[t], workers[t])
           /\ s \in Callers =>
                 \A t \in Stages : Mute(inbox'[t], queue'[t], workers[t], s)
           /\ \A t \in Stages \ {s} : \A c \in Callers :
                 MuteAt(t, c) => Mute(inbox'[t], queue'[t], workers[t], c)
           /\ \A c : Mute(inbox'[s], queue'[s], workers[s], c)
<1>1. /\ inbox'[s] = <<>> /\ queue'[s] = <<>> /\ workers[s] = Idle
      /\ \A t \in Stages \ {s, s + 1} :
            inbox'[t] = inbox[t] /\ queue'[t] = queue[t] /\ workers[t] = worker[t]
      /\ s + 1 \in Stages =>
            /\ s \in Callers \ {Gateway} /\ Target(s) = s + 1
            /\ DropsAt(s + 1, s, workers)
  BY DiesShape
<1>2. ASSUME NEW t \in Stages
      PROVE  /\ Thinner(inbox[t], queue[t], worker[t], inbox'[t], queue'[t], workers[t])
             /\ s \in Callers => Mute(inbox'[t], queue'[t], workers[t], s)
  <2>1. CASE t = s
    BY <1>1, <2>1, ThinEmpty
  <2>2. CASE t = s + 1
    <3>1. /\ worker[t] \in {Idle} \cup WorkType
          /\ inbox[t] \in Seq(JobType) /\ queue[t] \in Seq(JobType)
      BY DEF Lines, Types, WorkerFits
    <3> QED BY <1>1, <2>2, <3>1, ThinDrops DEF DropsAt
  <2>3. CASE t # s /\ t # s + 1
    <3>1. s \in Callers => t # Target(s)
      BY <2>3 DEF Target, Stages, Gateway
    <3>2. s \in Callers => MuteAt(t, s)
      BY <3>1, MuteUnless DEF Lines
    <3> QED BY <1>1, <2>3, <3>2, ThinSame DEF MuteAt
  <2> QED BY <2>1, <2>2, <2>3
<1>3. \A t \in Stages : \A c \in Callers :
         MuteAt(t, c) => Mute(inbox'[t], queue'[t], workers[t], c)
  BY <1>2, ThinMute DEF MuteAt
<1> QED BY <1>1, <1>2, <1>3, ThinEmpty

LEMMA StillUnreadFits ==
    ASSUME Lines, NEW s \in Stages, NEW new, new = StillUnread(unread, s)
    PROVE  /\ new = [t \in Stages |-> new[t]]
           /\ \A t \in Stages : \A answer \in new[t] : AnswerFits(answer)
           /\ unread[s] = {} => new[s] = {}
           /\ (\E answer : unread[s] = {answer}) => \E answer : new[s] = {answer}
           /\ \A t \in Stages \ {s} : new[t] = IF t = s + 1 THEN {} ELSE unread[t]
<1>1. \A t \in Stages : \A answer \in unread[t] : AnswerFits(answer)
  BY DEF Lines, Types
<1>2. /\ new = [t \in Stages |-> new[t]]
      /\ new[s] = {[answer EXCEPT !.open = FALSE] : answer \in unread[s]}
      /\ \A t \in Stages \ {s} : new[t] = IF t = s + 1 THEN {} ELSE unread[t]
  BY DEF StillUnread
<1>3. ASSUME NEW answer \in unread[s] PROVE AnswerFits([answer EXCEPT !.open = FALSE])
  <2>1. PICK same : same = [answer EXCEPT !.open = FALSE]
    OBVIOUS
  <2>2. AnswerFits(answer)
    BY <1>1
  <2>3. /\ same = [id |-> same.id, status |-> same.status, out |-> same.out, open |-> same.open]
        /\ same.id = answer.id /\ same.status = answer.status /\ same.out = answer.out
    BY <2>1, <2>2 DEF AnswerFits
  <2> QED BY <2>1, <2>2, <2>3 DEF AnswerFits
<1>4. \A t \in Stages : \A answer \in new[t] : AnswerFits(answer)
  BY <1>1, <1>2, <1>3
<1>5. ASSUME NEW answer, unread[s] = {answer}
      PROVE  new[s] = {[answer EXCEPT !.open = FALSE]}
  BY <1>2, <1>5
<1> QED BY <1>2, <1>4, <1>5


(* A stage dies and nobody reads anything: its own call, if it was in one, *)
(* is over.                                                                *)
DiesUnread(s) ==
    /\ Dies(s) /\ worker' = Survivors(s)
    /\ call' = IF worker[s].state = "calling" THEN [call EXCEPT ![s] = NotCalling] ELSE call
    /\ disturbed' = disturbed \cup RunningGeneration
    /\ UNCHANGED <<gw, outcome, tokens>>

LEMMA RunningRequest ==
    ASSUME Types
    PROVE  RunningGeneration \subseteq Requests
  BY DEF Types, GenerationFits, RunningGeneration

LEMMA LinesDies ==
    ASSUME Lines, NEW s \in Stages, DiesUnread(s),
           unread' = [t \in Stages |-> unread'[t]],
           \A t \in Stages : \A answer \in unread'[t] : AnswerFits(answer)
    PROVE  Lines'
<1> DEFINE calling == worker[s].state = "calling"
<1>1. /\ inbox' \in [Stages -> Seq(JobType)] /\ queue' \in [Stages -> Seq(JobType)]
      /\ worker'[s] = Idle
      /\ worker' = [t \in Stages |-> worker'[t]]
      /\ \A t \in Stages : /\ WorkerFits(t, worker'[t])
                           /\ Len(queue'[t]) <= QueueSize
                           /\ t # s => /\ worker'[t].state = worker[t].state
                                       /\ worker'[t].state # "idle" =>
                                             /\ worker'[t].req = worker[t].req
                                             /\ worker'[t].out = worker[t].out
      /\ sessions' = [t \in Stages |-> sessions'[t]]
      /\ \A t \in Stages : SessionMap(sessions'[t])
  BY DiesShape DEF DiesUnread
<1>2. /\ \A t \in Stages : ThinAt(t)
      /\ s \in Callers => \A t \in Stages : MuteAt(t, s)'
  BY DiesThin DEF DiesUnread, ThinAt, MuteAt
<1>3. /\ UNCHANGED <<gw, outcome, tokens>>
      /\ call' = IF calling THEN [call EXCEPT ![s] = NotCalling] ELSE call
      /\ disturbed' \subseteq Requests
  BY RunningRequest DEF DiesUnread, Lines, Types
<1>4. NotCalling \in CallType /\ NotCalling.state = "idle" /\ Idle.state = "idle"
  BY DEF NotCalling, CallType, Idle
<1>5. call \in [Callers -> CallType] /\ (calling => s \in Callers)
  BY DEF Lines, Types, WorkerFits
<1> HIDE DEF NotCalling, Idle, calling
<1>6. /\ call' \in [Callers -> CallType]
      /\ \A c \in Callers : c # s \/ ~calling => call'[c] = call[c]
      /\ calling => call'[s] = NotCalling
  BY <1>3, <1>4, <1>5
<1>7. Types'
  BY <1>1, <1>3, <1>6 DEF Lines, Types
<1>8. CallsFit'
  <2>1. ASSUME NEW c \in Callers \ {Gateway}
        PROVE  worker'[c].state = "calling" <=> call'[c].state # "idle"
    <3>1. c \in Stages /\ (worker[c].state = "calling" <=> call[c].state # "idle")
      BY StageNumbers DEF Lines, CallsFit
    <3>2. CASE c = s
      BY <1>1, <1>4, <1>6, <3>1, <3>2 DEF calling
    <3>3. CASE c # s
      BY <1>1, <1>6, <3>1, <3>3
    <3> QED BY <3>2, <3>3
  <2>2. call'[Gateway] = call[Gateway]
    BY <1>6, StageNumbers DEF Stages, Gateway
  <2> QED BY <1>3, <2>1, <2>2 DEF Lines, CallsFit
<1>9. ASSUME NEW c \in Callers PROVE Kept(c) \/ \A t \in Stages : MuteAt(t, c)'
  <2>1. CASE c = Gateway
    <3>1. s # Gateway
      BY DEF Stages, Gateway
    <3> QED BY <1>3, <1>6, <2>1, <3>1 DEF Kept
  <2>2. CASE c = s
    BY <1>2, <2>2
  <2>3. CASE c # Gateway /\ c # s /\ call[c].state = "idle"
    <3>1. \A t \in Stages : MuteAt(t, c)
      BY <2>3, MuteUnless DEF Lines
    <3> QED BY <1>2, <3>1, ThinMute DEF MuteAt, ThinAt
  <2>4. CASE c # Gateway /\ c # s /\ call[c].state # "idle"
    <3>1. c \in Stages /\ worker[c].state = "calling"
      BY <2>4, CallingWorker DEF Lines
    <3>2. worker'[c].req = worker[c].req /\ worker'[c].out = worker[c].out
      BY <1>1, <2>4, <3>1
    <3> QED BY <1>6, <2>4, <3>2 DEF Kept
  <2> QED BY <2>1, <2>2, <2>3, <2>4
<1> QED BY <1>2, <1>7, <1>8, <1>9, LinesThin

LEMMA LinesRestart ==
    ASSUME Lines, NEW s \in Stages, Restart(s)
    PROVE  Lines' /\ DiesUnread(s)
<1>1. DiesUnread(s) /\ unread' = StillUnread(unread, s)
  BY DEF Restart, DiesUnread
<1>2. /\ unread' = [t \in Stages |-> unread'[t]]
      /\ \A t \in Stages : \A answer \in unread'[t] : AnswerFits(answer)
  BY <1>1, StillUnreadFits
<1> QED BY <1>1, <1>2, LinesDies

(* A stage dies in its response, and somebody reads what there is of it.   *)
LEMMA RestartInReplyEnds ==
    ASSUME Lines, Owed, NEW s \in Stages, RestartInReply(s), Heard(s, worker[s]),
           NEW workers, workers = Survivors(s)
    PROVE  LET c == Reader(s, worker[s]) IN
           /\ c \in Callers /\ Ends(c, workers)
           /\ CallerGets(c, worker[s].req.id, Undecodable, <<>>, workers)
           /\ unread' = StillUnread(unread, s)
           /\ disturbed' = disturbed \cup RunningGeneration
<1>1. PICK c : c = Reader(s, worker[s])
  OBVIOUS
<1>2. /\ worker[s].state = "replying" /\ Dies(s)
      /\ disturbed' = disturbed \cup RunningGeneration
      /\ CallerGets(c, worker[s].req.id, Undecodable, <<>>, workers)
      /\ unread' = StillUnread(unread, s)
  <2>1. ~(worker[s].from = Late /\ ~Overtaken(s, worker[s]))
    BY StageNumbers DEF Heard
  <2> QED BY <1>1, <2>1 DEF RestartInReply, Reader
<1>3. c \in Callers /\ call[c].state = "wait" /\ s = Target(c)
  BY <1>1, <1>2, ReaderWaits
<1>4. /\ inbox' \in [Stages -> Seq(JobType)] /\ queue' \in [Stages -> Seq(JobType)]
      /\ workers[s] = Idle
      /\ workers = [t \in Stages |-> workers[t]]
      /\ \A t \in Stages : /\ WorkerFits(t, workers[t])
                           /\ Len(queue'[t]) <= QueueSize
                           /\ t # s => /\ workers[t].state = worker[t].state
                                       /\ workers[t].state # "idle" =>
                                             /\ workers[t].req = worker[t].req
                                             /\ workers[t].out = worker[t].out
      /\ sessions' = [t \in Stages |-> sessions'[t]]
      /\ \A t \in Stages : SessionMap(sessions'[t])
  BY <1>2, DiesShape
<1>5. WorkersFit(workers)
  <2>1. ASSUME NEW t \in Stages
        PROVE  /\ workers[t].state = "calling" <=> worker[t].state = "calling"
               /\ workers[t].state = "calling" =>
                     workers[t].req = worker[t].req /\ workers[t].out = worker[t].out
    <3>1. CASE t = s
      <4>1. workers[t].state = "idle" /\ worker[t].state = "replying"
        BY <1>2, <1>4, <3>1 DEF Idle
      <4> QED BY <4>1
    <3>2. CASE t # s
      BY <1>4, <3>2
    <3> QED BY <3>1, <3>2
  <2> QED BY <1>4, <2>1 DEF WorkersFit
<1>6. Released(c, workers)
  <2>1. PICK status, out : status = Undecodable /\ out = <<>>
    OBVIOUS
  <2>2. status \in Nat /\ out \in Seq(Nat) /\ status # 200
    BY <2>1 DEF Undecodable
  <2>3. CallerGets(c, worker[s].req.id, status, out, workers) /\ call[c].state # "idle"
    BY <1>2, <1>3, <2>1
  <2> QED BY <1>3, <2>2, <2>3, AnswerReleased
<1>7. StagesFit
  <2>1. disturbed' \subseteq Requests
    BY <1>2, RunningRequest DEF Lines, Types
  <2>2. /\ unread' = [t \in Stages |-> unread'[t]]
        /\ \A t \in Stages : \A answer \in unread'[t] : AnswerFits(answer)
    BY <1>2, StillUnreadFits
  <2> QED BY <1>4, <2>1, <2>2 DEF StagesFit
<1>8. ASSUME NEW t \in Stages
      PROVE  /\ Thinner(inbox[t], queue[t], worker[t], inbox'[t], queue'[t], workers[t])
             /\ Mute(inbox'[t], queue'[t], workers[t], c)
  <2>1. CASE t = s
    BY <1>2, <2>1, DiesThin
  <2>2. CASE t # s
    <3>1. MuteAt(t, c)
      BY <1>3, <2>2, MuteUnless DEF Lines
    <3> QED BY <1>2, <1>3, <2>2, <3>1, DiesThin
  <2> QED BY <2>1, <2>2
<1>9. Ends(c, workers)
  BY <1>3, <1>5, <1>6, <1>7, <1>8 DEF Ends
<1> QED BY <1>1, <1>2, <1>3, <1>9

LEMMA RestartInReplyDies ==
    ASSUME Lines, NEW s \in Stages, RestartInReply(s), ~Heard(s, worker[s])
    PROVE  /\ DiesUnread(s) /\ worker[s].from = Late
           /\ unread' = [StillUnread(unread, s) EXCEPT
                            ![s] = LateAnswer(worker[s], Undecodable, <<>>, FALSE)]
<1>1. worker[s].state = "replying" /\ worker[s].from # Nobody /\ Dies(s)
  BY DEF RestartInReply
<1>2. worker[s].from \in Listeners
  BY <1>1, WorkingJob DEF WorkType
<1>3. worker[s].from = Late /\ ~Overtaken(s, worker[s])
  BY <1>1, <1>2, StageNumbers DEF Heard
<1>4. /\ worker' = Survivors(s)
      /\ unread' = [StillUnread(unread, s) EXCEPT
                       ![s] = LateAnswer(worker[s], Undecodable, <<>>, FALSE)]
      /\ UNCHANGED <<gw, outcome, tokens, call>>
      /\ disturbed' = disturbed \cup RunningGeneration
  BY <1>3 DEF RestartInReply
<1> QED BY <1>1, <1>3, <1>4 DEF DiesUnread

LEMMA DyingAnswerFits ==
    ASSUME Lines, NEW s \in Stages, worker[s].state = "replying",
           unread' = [StillUnread(unread, s) EXCEPT
                         ![s] = LateAnswer(worker[s], Undecodable, <<>>, FALSE)]
    PROVE  /\ unread' = [t \in Stages |-> unread'[t]]
           /\ \A t \in Stages : \A answer \in unread'[t] : AnswerFits(answer)
           /\ \E answer : unread'[s] = {answer}
           /\ \A t \in Stages \ {s} : unread'[t] = IF t = s + 1 THEN {} ELSE unread[t]
<1>1. PICK old : old = StillUnread(unread, s)
  OBVIOUS
<1>2. PICK status, out, open : status = Undecodable /\ out = <<>> /\ open = FALSE
  OBVIOUS
<1>3. PICK answers : answers = LateAnswer(worker[s], status, out, open)
  OBVIOUS
<1>4. /\ old = [t \in Stages |-> old[t]]
      /\ \A t \in Stages : \A answer \in old[t] : AnswerFits(answer)
      /\ \A t \in Stages \ {s} : old[t] = IF t = s + 1 THEN {} ELSE unread[t]
  BY <1>1, StillUnreadFits
<1>5. /\ \A answer \in answers : AnswerFits(answer)
      /\ \E answer : answers = {answer}
  <2>1. status \in Nat /\ out \in Seq(Nat) /\ status # 200
    BY <1>2 DEF Undecodable
  <2>2. worker[s].req.id \in Requests
    BY WorkingJob DEF WorkType, RequestType
  <2>3. PICK answer : answer = [id |-> worker[s].req.id, status |-> status, out |-> out, open |-> open]
    OBVIOUS
  <2>4. AnswerFits(answer)
    BY <2>1, <2>2, <2>3 DEF AnswerFits
  <2>5. answers = {answer}
    BY <1>3, <2>3 DEF LateAnswer
  <2> QED BY <2>4, <2>5
<1>6. unread' = [old EXCEPT ![s] = answers]
  BY <1>1, <1>2, <1>3
<1>7. /\ unread' = [t \in Stages |-> unread'[t]] /\ unread'[s] = answers
      /\ \A t \in Stages \ {s} : unread'[t] = old[t]
  BY <1>4, <1>6
<1> QED BY <1>4, <1>5, <1>7

LEMMA LinesRestartInReply ==
    ASSUME Lines, Owed, NEW s \in Stages, RestartInReply(s)
    PROVE  Lines'
<1>1. CASE Heard(s, worker[s])
  BY <1>1, RestartInReplyEnds, EndsLines
<1>2. CASE ~Heard(s, worker[s])
  <2>1. /\ DiesUnread(s) /\ worker[s].state = "replying"
        /\ unread' = [StillUnread(unread, s) EXCEPT
                         ![s] = LateAnswer(worker[s], Undecodable, <<>>, FALSE)]
    BY <1>2, RestartInReplyDies DEF RestartInReply
  <2>2. /\ unread' = [t \in Stages |-> unread'[t]]
        /\ \A t \in Stages : \A answer \in unread'[t] : AnswerFits(answer)
    BY <2>1, DyingAnswerFits
  <2> QED BY <2>1, <2>2, LinesDies
<1> QED BY <1>1, <1>2

LEMMA LinesNext ==
    ASSUME Lines, Owed, [Next]_vars
    PROVE  Lines'
<1>1. CASE UNCHANGED vars
  <2>1. Types' /\ CallsFit'
    BY <1>1 DEF vars, Lines, Types, CallsFit
  <2>2. \A s \in Stages : ThinAt(s)
    BY <1>1, ThinSame DEF vars, ThinAt
  <2>3. \A c \in Callers : Kept(c)
    BY <1>1 DEF vars, Kept
  <2> QED BY <2>1, <2>2, <2>3, LinesThin
<1>2. ASSUME NEW g \in Requests, NEW chain \in Topologies, NEW min \in MinNews,
             Begin(g, chain, min)
      PROVE  Lines'
  BY <1>2, LinesBegin
<1>3. ASSUME NEW c \in Callers, Send(c) \/ SendAndReadLate(c) \/ ConnectionLost(c) \/ SendFails(c) \/ Timeout(c)
      PROVE  Lines'
  BY <1>3, LinesSend, ReadsLateEnds, ConnectionLostEnds, LinesSendFails, LinesTimeout, EndsLines
<1>4. ASSUME NEW s \in Stages, Submits(s) PROVE Lines'
  BY <1>4, LinesSubmit DEF Submits
<1>5. ASSUME NEW s \in Stages, ForwardRuns(s) \/ ForwardThrows(s) PROVE Lines'
  <2>1. PICK result : Execute(s, result)
    BY <1>5 DEF ForwardRuns, ForwardThrows
  <2> QED BY <2>1, LinesExecute
<1>6. ASSUME NEW s \in Stages, Reply(s) \/ Restart(s) \/ RestartInReply(s) PROVE Lines'
  BY <1>6, LinesReply, LinesRestart, LinesRestartInReply
<1> QED BY <1>1, <1>2, <1>3, <1>4, <1>5, <1>6 DEF Next

------------------------------------------------------------------------------
(* Every step keeps what the connections owe in order.                     *)

OwesAt(s) == OwesAtMostOne(s, inbox[s], queue[s], worker[s], unread[s], call[s - 1])

LEMMA OwesNone ==
    ASSUME NEW s, NEW in, NEW line, NEW w, NEW answers, answers = {}, NEW cl,
           Mute(in, line, w, Late)
    PROVE  OwesAtMostOne(s, in, line, w, answers, cl)
  BY MuteUnique DEF OwesAtMostOne

LEMMA OwesUnread ==
    ASSUME NEW s, s # 1, NEW in, NEW line, NEW w, NEW answers, NEW cl,
           Mute(in, line, w, Late), \E answer : answers = {answer},
           cl.state # "wait", cl.attempt = 1
    PROVE  OwesAtMostOne(s, in, line, w, answers, cl)
  BY MuteUnique DEF OwesAtMostOne

(* What an answer leaves: the requests that had no answer before have none,*)
(* and those of the caller before s are not overtaken by an answer.        *)
LEMMA OwesFewer ==
    ASSUME NEW s, NEW in, NEW line, NEW w, NEW answers, NEW cl, NEW in2, NEW line2, NEW w2,
           OwesAtMostOne(s, in, line, w, answers, cl), Fewer(in, line, w, in2, line2, w2),
           ~Mute(in, line, w, Late) =>
              /\ Silent(line2, s - 1) /\ ~Hearing(w2, s - 1)
              /\ ~Silent(in, s - 1) => ~Silent(in2, s - 1)
    PROVE  OwesAtMostOne(s, in2, line2, w2, answers, cl)
<1>1. Unique(in2, line2, w2, Late)
  BY DEF OwesAtMostOne, Fewer
<1>2. Mute(in, line, w, Late) => Mute(in2, line2, w2, Late)
  BY MuteJobs DEF Fewer
<1> QED BY <1>1, <1>2 DEF OwesAtMostOne

LEMMA OwesWorker ==
    ASSUME NEW s, NEW in, NEW line, NEW w, NEW answers, NEW cl, NEW w2,
           OwesAtMostOne(s, in, line, w, answers, cl),
           w2.state = "idle" <=> w.state = "idle", w.state # "idle" => w2.from = w.from
    PROVE  OwesAtMostOne(s, in, line, w2, answers, cl)
  BY DEF OwesAtMostOne, Unique, Mute, Hearing

LEMMA OwesCall ==
    ASSUME NEW s, NEW in, NEW line, NEW w, NEW answers, NEW cl, NEW cl2,
           OwesAtMostOne(s, in, line, w, answers, cl),
           s = 1 \/ cl2 = cl \/ (cl2.attempt = 1 /\ cl2.state # "wait")
    PROVE  OwesAtMostOne(s, in, line, w, answers, cl2)
  BY DEF OwesAtMostOne

(* A stage at which nothing happens, unless its worker's call is answered  *)
LEMMA OwesElsewhere ==
    ASSUME Owed, NEW s \in Stages, NEW w,
           inbox'[s] = inbox[s], queue'[s] = queue[s], unread'[s] = unread[s], w = worker[s],
           s = 1 \/ call'[s - 1] = call[s - 1]
    PROVE  OwesAtMostOne(s, inbox'[s], queue'[s], w, unread'[s], call'[s - 1])
<1>1. OwesAtMostOne(s, inbox[s], queue[s], worker[s], unread[s], call[s - 1])
  BY DEF Owed
<1> QED BY <1>1, OwesCall

LEMMA OwedEnds ==
    ASSUME Lines, Owed, NEW c \in Callers, NEW s \in Stages, NEW workers, Ends(c, workers),
           c # Gateway => s = c + 1,
           \A t \in Stages \ {s} :
              \/ /\ inbox'[t] = inbox[t] /\ queue'[t] = queue[t]
                 /\ unread'[t] = unread[t] /\ workers[t] = worker[t]
              \/ Mute(inbox'[t], queue'[t], workers[t], Late) /\ unread'[t] = {},
           OwesAtMostOne(s, inbox'[s], queue'[s], workers[s], unread'[s], call'[s - 1])
    PROVE  Owed'
<1>1. /\ \A t \in Stages \ {c} : worker'[t] = workers[t]
      /\ c # Gateway => /\ worker'[c].state # "idle"
                        /\ worker'[c].from = workers[c].from
  BY ReleasedWorkers DEF Ends
<1>2. call \in [Callers -> CallType] /\ call' = [call EXCEPT ![c] = call'[c]]
  BY DEF Ends, Released, Lines, Types
<1>3. \A d \in Callers \ {c} : call'[d] = call[d]
  BY <1>2
<1>4. ASSUME NEW t \in Stages
      PROVE  OwesAtMostOne(t, inbox'[t], queue'[t], workers[t], unread'[t], call'[t - 1])
  <2>1. CASE t = s
    BY <2>1
  <2>2. CASE t # s /\ Mute(inbox'[t], queue'[t], workers[t], Late) /\ unread'[t] = {}
    BY <2>2, OwesNone
  <2>3. CASE /\ t # s /\ inbox'[t] = inbox[t] /\ queue'[t] = queue[t]
             /\ unread'[t] = unread[t] /\ workers[t] = worker[t]
    <3>1. t = 1 \/ (t - 1 \in Callers \ {Gateway} /\ (t - 1) + 1 = t)
      BY StageNumbers
    <3>2. t = 1 \/ call'[t - 1] = call[t - 1]
      BY <1>3, <2>3, <3>1
    <3> QED BY <2>3, <3>2, OwesElsewhere
  <2> QED BY <2>1, <2>2, <2>3
<1>5. ASSUME NEW t \in Stages
      PROVE  OwesAtMostOne(t, inbox'[t], queue'[t], worker'[t], unread'[t], call'[t - 1])
  <2>1. CASE t # c
    BY <1>1, <1>4, <2>1
  <2>2. CASE t = c
    <3>1. c # Gateway /\ workers[c].state # "idle"
      <4>1. c # Gateway
        BY <2>2 DEF Stages, Gateway
      <4>2. worker[c].state = "calling" /\ c \in Stages
        BY <4>1, CallingWorker DEF Lines, Ends
      <4> QED BY <4>1, <4>2 DEF Ends, WorkersFit
    <3> QED BY <1>1, <1>4, <2>2, <3>1, OwesWorker
  <2> QED BY <2>1, <2>2
<1> QED BY <1>5 DEF Owed

LEMMA OwedInit == Init => Owed
<1> SUFFICES ASSUME Init, NEW s \in Stages PROVE OwesAt(s)
  BY DEF Owed, OwesAt
<1>1. inbox[s] = <<>> /\ queue[s] = <<>> /\ worker[s] = Idle /\ unread[s] = {}
  BY DEF Init
<1>2. Mute(<<>>, <<>>, Idle, Late)
  BY ThinEmpty
<1> QED BY <1>1, <1>2, OwesNone DEF OwesAt

LEMMA OwedBegin ==
    ASSUME Lines, Owed, NEW g, NEW chain, NEW min, Begin(g, chain, min)
    PROVE  Owed'
<1>1. /\ call' = [call EXCEPT ![Gateway] = FirstTry]
      /\ UNCHANGED <<inbox, queue, worker, unread>>
  BY DEF Begin
<1>2. \A c \in Callers \ {Gateway} : call'[c] = call[c]
  BY <1>1 DEF Lines, Types
<1>3. \A s \in Stages : OwesAtMostOne(s, inbox'[s], queue'[s], worker'[s], unread'[s], call'[s - 1])
  BY <1>1, <1>2, StageNumbers, OwesElsewhere
<1> QED BY <1>3 DEF Owed

(* A request of its own leaves a caller's connection owing what it owed.   *)
LEMMA OwedSend ==
    ASSUME Lines, Owed, NEW c \in Callers, Send(c)
    PROVE  Owed'
<1>1. PICK s : s = Target(c)
  OBVIOUS
<1>2. /\ call[c].state = "send" /\ (c = Gateway \/ unread[c + 1] = {})
      /\ call' = [call EXCEPT ![c].state = "wait"]
      /\ inbox' = [inbox EXCEPT ![s] = Append(@, Job(c))]
      /\ UNCHANGED <<queue, worker, unread>>
  BY <1>1 DEF Send
<1>3. /\ s \in Stages /\ (c # Gateway => s = c + 1)
      /\ inbox \in [Stages -> Seq(JobType)] /\ call \in [Callers -> CallType]
      /\ inbox[s] \in Seq(JobType)
  BY <1>1, TargetStage DEF Lines, Types, Target
<1>4. PICK job \in JobType : job = Job(c) /\ job.from = c
  BY <1>2, JobIsJob DEF Lines
<1>5. PICK in : in = Append(inbox[s], job)
  OBVIOUS
<1>6. /\ \A d : job.from # d /\ Silent(inbox[s], d) => Silent(in, d)
      /\ \A d : job.from # d /\ Once(inbox[s], d) => Once(in, d)
      /\ ~Silent(in, c)
      /\ \A d : Silent(in, d) => Silent(inbox[s], d)
  <2>1. PICK n \in Nat : n = Len(inbox[s])
    BY <1>3
  <2>2. /\ DOMAIN inbox[s] = 1 .. n /\ DOMAIN in = 1 .. n + 1
        /\ n + 1 \in 1 .. n + 1 /\ in[n + 1] = job
        /\ \A i \in 1 .. n : i \in 1 .. n + 1 /\ in[i] = inbox[s][i]
    BY <1>3, <1>5, <2>1
  <2>3. ~Silent(in, c) /\ \A d : Silent(in, d) => Silent(inbox[s], d)
    BY <1>4, <2>2 DEF Silent
  <2> QED BY <1>3, <1>5, <2>3, AppendShape
<1>7. /\ inbox'[s] = in /\ \A t \in Stages \ {s} : inbox'[t] = inbox[t]
      /\ \A d \in Callers \ {c} : call'[d] = call[d]
      /\ call'[c].attempt = call[c].attempt
  BY <1>2, <1>3, <1>4, <1>5 DEF CallType
<1>8. OwesAt(s)
  BY <1>3 DEF Owed, OwesAt
<1>9. c # Late
  BY StageNumbers
<1>10. Unique(in, queue[s], worker[s], Late)
  BY <1>4, <1>6, <1>8, <1>9 DEF OwesAt, OwesAtMostOne, Unique
<1>11. Mute(in, queue[s], worker[s], Late) <=> Mute(inbox[s], queue[s], worker[s], Late)
  BY <1>4, <1>6, <1>9 DEF Mute
<1>12. OwesAtMostOne(s, in, queue[s], worker[s], unread[s], call'[s - 1])
  <2>1. CASE s = 1
    BY <1>8, <1>10, <1>11, <2>1 DEF OwesAt, OwesAtMostOne
  <2>2. CASE s # 1 /\ c = Gateway
    <3>1. call'[s - 1] = call[s - 1]
      BY <1>3, <1>7, <2>2, StageNumbers
    <3>2. ~Silent(inbox[s], s - 1) => ~Silent(in, s - 1)
      BY <1>6
    <3> QED BY <1>8, <1>10, <1>11, <2>2, <3>1, <3>2 DEF OwesAt, OwesAtMostOne
  <2>3. CASE s # 1 /\ c # Gateway
    <3>0. c \in Nat /\ s = c + 1
      BY <1>3, <2>3, StageNumbers
    <3>1. s - 1 = c /\ unread[s] = {}
      BY <1>2, <2>3, <3>0
    <3> QED BY <1>6, <1>7, <1>8, <1>10, <1>11, <2>3, <3>1 DEF OwesAt, OwesAtMostOne
  <2> QED BY <2>1, <2>2, <2>3
<1>13. ASSUME NEW t \in Stages
       PROVE  OwesAtMostOne(t, inbox'[t], queue'[t], worker'[t], unread'[t], call'[t - 1])
  <2>1. CASE t = s
    BY <1>2, <1>7, <1>12, <2>1
  <2>2. CASE t # s
    <3>1. t = 1 \/ (t - 1 \in Callers \ {Gateway} /\ (t - 1) + 1 = t)
      BY StageNumbers
    <3>2. t = 1 \/ call'[t - 1] = call[t - 1]
      BY <1>3, <1>7, <2>2, <3>1
    <3> QED BY <1>2, <1>7, <2>2, <3>2, OwesElsewhere
  <2> QED BY <2>1, <2>2
<1> QED BY <1>13 DEF Owed

(* A worker that reads a late answer is owed that of its request instead.  *)
LEMMA OwedReadsLate ==
    ASSUME Lines, Owed, NEW c \in Callers, SendAndReadLate(c)
    PROVE  Owed'
<1>1. /\ call[c].state = "send" /\ c # Gateway
      /\ unread' = [unread EXCEPT ![c + 1] = {}]
      /\ UNCHANGED <<queue, sessions>>
  BY DEF SendAndReadLate
<1>2. PICK answer \in unread[c + 1], job \in JobType :
        /\ job.from = Late
        /\ inbox' = IF answer.open
                    THEN [inbox EXCEPT ![c + 1] = Append(inbox[c + 1], job)]
                    ELSE inbox
        /\ CallerGets(c, answer.id, answer.status, answer.out, worker)
  BY ReadsLateShape
<1>3. PICK s : s = c + 1
  OBVIOUS
<1>4. /\ s \in Stages /\ s # 1 /\ s - 1 = c
      /\ inbox \in [Stages -> Seq(JobType)] /\ call \in [Callers -> CallType]
      /\ unread = [t \in Stages |-> unread[t]] /\ inbox[s] \in Seq(JobType)
  <2>1. c \in Nat /\ c # 0 /\ s \in Stages
    BY <1>1, <1>3, StageNumbers DEF Gateway
  <2>2. s # 1 /\ s - 1 = c
    BY <1>3, <2>1
  <2> QED BY <2>1, <2>2 DEF Lines, Types
<1>5. call'[c] = NotCalling
  BY <1>1, <1>2, <1>4 DEF CallerGets
<1>6. call'[c].attempt = 1 /\ call'[c].state # "wait"
  BY <1>5 DEF NotCalling
<1>7. OwesAt(s) /\ unread[s] # {}
  BY <1>2, <1>3, <1>4 DEF Owed, OwesAt
<1>8. Mute(inbox[s], queue[s], worker[s], Late)
  BY <1>4, <1>7 DEF OwesAt, OwesAtMostOne
<1>9. PICK in : in = Append(inbox[s], job)
  OBVIOUS
<1>10. in \in Seq(JobType) /\ Once(in, Late)
  BY <1>2, <1>4, <1>8, <1>9, AppendShape DEF Mute
<1>11. /\ inbox'[s] = inbox[s] \/ inbox'[s] = in
       /\ \A t \in Stages \ {s} : inbox'[t] = inbox[t]
       /\ unread'[s] = {} /\ \A t \in Stages \ {s} : unread'[t] = unread[t]
  BY <1>1, <1>2, <1>3, <1>4, <1>9, <1>10
<1>12. MuteAt(s, c)
  BY <1>1, <1>4, MuteUnless DEF Lines
<1>13. OwesAtMostOne(s, inbox'[s], queue'[s], worker[s], unread'[s], call'[s - 1])
  <2>1. Unique(inbox'[s], queue[s], worker[s], Late)
    BY <1>8, <1>10, <1>11, MuteUnique DEF Unique, Mute
  <2> QED BY <1>1, <1>4, <1>6, <1>11, <1>12, <2>1 DEF OwesAtMostOne, MuteAt, Mute
<1>14. Ends(c, worker)
  BY ReadsLateEnds
<1> QED BY <1>1, <1>3, <1>4, <1>11, <1>13, <1>14, OwedEnds

(* The requests that c listened to in a line are those d listens to in new.*)
Moves(line, c, new, d) ==
    DOMAIN new = DOMAIN line /\ \A i \in DOMAIN line : new[i].from = d <=> line[i].from = c

LEMMA MovesLine ==
    ASSUME NEW line, NEW c, NEW new, NEW d, Moves(line, c, new, d)
    PROVE  (Silent(new, d) <=> Silent(line, c)) /\ (Once(new, d) <=> Once(line, c))
  BY DEF Moves, Silent, Once

LEMMA MovesLate ==
    ASSUME NEW line \in Seq(JobType), NEW c \in Callers, Silent(line, Late)
    PROVE  Moves(line, c, Redirected(line, c, Late), Late)
<1>1. PICK new : new = [i \in DOMAIN line |-> Redirect(line[i], c, Late)]
  OBVIOUS
<1>2. ASSUME NEW i \in DOMAIN line PROVE new[i].from = Late <=> line[i].from = c
  <2>1. line[i] \in JobType /\ new[i] = Redirect(line[i], c, Late)
    BY <1>1
  <2> QED BY <2>1, RedirectJob, StageNumbers DEF Silent
<1> QED BY <1>1, <1>2 DEF Moves, Redirected

LEMMA GivenUpFrom ==
    ASSUME NEW c \in Callers, NEW job, job \in JobType \/ job \in WorkType
    PROVE  /\ c = Gateway => GivenUp(job, c).from = IF job.from = c THEN Nobody ELSE job.from
           /\ c # Gateway /\ call[c].attempt = 1 => GivenUp(job, c).from # Late
           /\ c # Gateway /\ call[c].attempt # 1 =>
                 GivenUp(job, c).from = IF job.from = c THEN Late ELSE job.from
<1>1. GivenUp(job, c).from = IF Closes(c) THEN Closed(job, c).from
                             ELSE IF job.from = c THEN Late ELSE job.from
  BY GivenUpJob
<1>2. Closed(job, c).from = IF job.from = c \/ (job.from = Late /\ c # Gateway) THEN Nobody ELSE job.from
  BY ClosedJob
<1> QED BY <1>1, <1>2, StageNumbers DEF Closes

LEMMA GivenUpLine ==
    ASSUME NEW c \in Callers, NEW line \in Seq(JobType),
           NEW new, new = [i \in DOMAIN line |-> GivenUp(line[i], c)]
    PROVE  /\ c = Gateway => \A d : d # c /\ d # Nobody => Moves(line, d, new, d)
           /\ c # Gateway /\ call[c].attempt = 1 => Silent(new, Late)
           /\ c # Gateway /\ call[c].attempt # 1 /\ Silent(line, Late) => Moves(line, c, new, Late)
<1>1. ASSUME NEW i \in DOMAIN line
      PROVE  /\ c = Gateway => new[i].from = IF line[i].from = c THEN Nobody ELSE line[i].from
             /\ c # Gateway /\ call[c].attempt = 1 => new[i].from # Late
             /\ c # Gateway /\ call[c].attempt # 1 =>
                   new[i].from = IF line[i].from = c THEN Late ELSE line[i].from
  <2>1. line[i] \in JobType /\ new[i] = GivenUp(line[i], c)
    OBVIOUS
  <2> QED BY <2>1, GivenUpFrom
<1>2. DOMAIN new = DOMAIN line
  OBVIOUS
<1> QED BY <1>1, <1>2 DEF Moves, Silent

(* The requests of a stage whose caller has given up: the answer to the one*)
(* it listened to is late if the connection stays open.                    *)
LEMMA OwesGivenUp ==
    ASSUME Lines, Owed, NEW c \in Callers, NEW s \in Stages, s = Target(c), call[c].state # "idle",
           NEW workers, GivesUpAt(s, c, workers), Ends(c, workers), AttemptFails(c, workers)
    PROVE  OwesAtMostOne(s, inbox'[s], queue'[s], workers[s], unread'[s], call'[s - 1])
<1>1. /\ inbox[s] \in Seq(JobType) /\ queue[s] \in Seq(JobType)
      /\ worker[s].state # "idle" => worker[s] \in WorkType
      /\ call \in [Callers -> CallType] /\ unread = [t \in Stages |-> unread[t]]
  BY WorkingJob DEF Lines, Types
<1>2. PICK in, line, w : /\ in = inbox'[s] /\ line = queue'[s] /\ w = workers[s]
  OBVIOUS
<1>3. /\ in = [i \in DOMAIN inbox[s] |-> GivenUp(inbox[s][i], c)]
      /\ line = [i \in DOMAIN queue[s] |-> GivenUp(queue[s][i], c)]
      /\ w = IF worker[s].state = "idle" THEN worker[s] ELSE GivenUp(worker[s], c)
  BY <1>2 DEF GivesUpAt
<1>4. w.state = "idle" <=> worker[s].state = "idle"
  BY <1>1, <1>3, GivenUpJob
<1>5. OwesAt(s)
  BY DEF Owed, OwesAt
<1>6. CASE c = Gateway
  <2>1. unread' = unread /\ call' = [call EXCEPT ![c] = call'[c]]
    BY <1>6 DEF GivesUpAt, Ends, Released
  <2>2. s = 1 \/ (s - 1 \in Callers \ {Gateway} /\ call'[s - 1] = call[s - 1])
    BY <1>1, <1>6, <2>1, StageNumbers
  <2>3. \A d : d # c /\ d # Nobody =>
           /\ Silent(in, d) <=> Silent(inbox[s], d)
           /\ Once(in, d) <=> Once(inbox[s], d)
           /\ Silent(line, d) <=> Silent(queue[s], d)
           /\ Once(line, d) <=> Once(queue[s], d)
    <3>1. \A d : d # c /\ d # Nobody => Moves(inbox[s], d, in, d)
      BY <1>1, <1>3, <1>6, GivenUpLine
    <3>2. \A d : d # c /\ d # Nobody => Moves(queue[s], d, line, d)
      BY <1>1, <1>3, <1>6, GivenUpLine
    <3> QED BY <3>1, <3>2, MovesLine
  <2>4. \A d : d # c /\ d # Nobody => (Hearing(w, d) <=> Hearing(worker[s], d))
    BY <1>1, <1>3, <1>4, <1>6, GivenUpFrom DEF Hearing
  <2>5. /\ Late # c /\ Late # Nobody
        /\ s # 1 => s - 1 # c /\ s - 1 # Nobody
    BY <1>6, StageNumbers
  <2>6. /\ Unique(in, line, w, Late) <=> Unique(inbox[s], queue[s], worker[s], Late)
        /\ Mute(in, line, w, Late) <=> Mute(inbox[s], queue[s], worker[s], Late)
    BY <2>3, <2>4, <2>5 DEF Unique, Mute
  <2>7. s # 1 => /\ Silent(in, s - 1) <=> Silent(inbox[s], s - 1)
                 /\ Silent(line, s - 1) <=> Silent(queue[s], s - 1)
                 /\ Hearing(w, s - 1) <=> Hearing(worker[s], s - 1)
    BY <2>3, <2>4, <2>5
  <2>8. OwesAtMostOne(s, in, line, w, unread[s], call[s - 1])
    BY <1>5, <2>6, <2>7 DEF OwesAt, OwesAtMostOne
  <2>9. OwesAtMostOne(s, in, line, w, unread[s], call'[s - 1])
    BY <2>2, <2>8, OwesCall
  <2> QED BY <1>2, <2>1, <2>9
<1>7. CASE c # Gateway /\ call[c].attempt = 1
  <2>1. Silent(in, Late) /\ Silent(line, Late)
    BY <1>1, <1>3, <1>7, GivenUpLine
  <2>2. ~Hearing(w, Late)
    BY <1>1, <1>3, <1>4, <1>7, GivenUpFrom DEF Hearing
  <2>3. unread'[s] = {}
    BY <1>1, <1>7 DEF GivesUpAt
  <2> QED BY <1>2, <2>1, <2>2, <2>3, OwesNone DEF Mute
<1>8. CASE c # Gateway /\ call[c].attempt # 1
  <2>1. c \in Nat /\ s = c + 1 /\ c # 0
    BY <1>8, StageNumbers DEF Target, Gateway
  <2>2. s - 1 = c /\ s # 1
    BY <2>1
  <2>3. MuteAt(s, Late)
    BY <1>8, <2>2, LateHere
  <2>4. /\ call'[c] = NotCalling /\ unread'[s] = {}
    BY <1>1, <1>8 DEF AttemptFails, GivesUpAt
  <2>5. call'[c].attempt = 1 /\ call'[c].state # "wait"
    BY <2>4 DEF NotCalling
  <2>6. /\ Moves(inbox[s], c, in, Late) /\ Moves(queue[s], c, line, Late)
    BY <1>1, <1>3, <1>8, <2>3, GivenUpLine DEF MuteAt, Mute
  <2>7. Hearing(w, Late) => Hearing(worker[s], c)
    BY <1>1, <1>3, <1>4, <1>8, <2>3, GivenUpFrom DEF Hearing, MuteAt, Mute
  <2>8. Unique(inbox[s], queue[s], worker[s], c)
    BY DEF Lines, HeardOnce
  <2>9. Unique(in, line, w, Late)
    BY <2>6, <2>7, <2>8, MovesLine DEF Unique
  <2>10. Mute(in, line, w, c)
    BY <1>2 DEF Ends
  <2> QED BY <1>2, <2>2, <2>4, <2>5, <2>9, <2>10 DEF OwesAtMostOne, Mute
<1> QED BY <1>6, <1>7, <1>8

LEMMA OwedAbandons ==
    ASSUME Lines, Owed, NEW c \in Callers, SendFails(c) \/ Timeout(c)
    PROVE  Owed'
<1>1. /\ call[c].state # "idle" /\ Abandons(c)
      /\ UNCHANGED <<tokens, sessions>>
      /\ disturbed' = disturbed \/ disturbed' = disturbed \cup {Posted(c).id}
  BY DEF SendFails, Timeout
<1>2. disturbed' \subseteq Requests
  <2>1. Posted(c).id \in Requests
    BY <1>1, JobIsJob DEF Lines, JobType, RequestType
  <2> QED BY <1>1, <2>1 DEF Lines, Types
<1>3. PICK s : s = Target(c)
  OBVIOUS
<1>4. s \in Stages /\ (c # Gateway => s = c + 1)
  BY <1>3, TargetStage DEF Lines, Target
<1>5. PICK workers :
        /\ Ends(c, workers) /\ AttemptFails(c, workers) /\ GivesUpAt(s, c, workers)
        /\ \A t \in Stages \ {s} :
              inbox'[t] = inbox[t] /\ queue'[t] = queue[t] /\ workers[t] = worker[t]
  BY <1>1, <1>2, <1>3, AbandonsEnds
<1>6. \A t \in Stages \ {s} : unread'[t] = unread[t]
  BY <1>4, <1>5 DEF GivesUpAt, Lines, Types
<1>7. OwesAtMostOne(s, inbox'[s], queue'[s], workers[s], unread'[s], call'[s - 1])
  BY <1>1, <1>3, <1>4, <1>5, OwesGivenUp
<1> QED BY <1>4, <1>5, <1>6, <1>7, OwedEnds

LEMMA OwedLost ==
    ASSUME Lines, Owed, NEW c \in Callers, ConnectionLost(c)
    PROVE  Owed'
<1>1. /\ call[c].state = "wait" /\ ~Pending(c)
      /\ UNCHANGED <<inbox, queue, unread>>
  BY DEF ConnectionLost
<1>2. Ends(c, worker)
  BY ConnectionLostEnds
<1>3. PICK s : s = Target(c)
  OBVIOUS
<1>4. s \in Stages /\ (c # Gateway => s = c + 1) /\ MuteAt(s, c)
  BY <1>1, <1>3, TargetStage, PendingMute DEF Lines, Target
<1>5. OwesAt(s)
  BY <1>4 DEF Owed, OwesAt
<1>6. OwesAtMostOne(s, inbox[s], queue[s], worker[s], unread[s], call'[s - 1])
  <2>1. CASE c = Gateway
    <3>1. \A d \in Callers \ {c} : call'[d] = call[d]
      BY <1>2 DEF Ends, Released, Lines, Types
    <3>2. s = 1 \/ call'[s - 1] = call[s - 1]
      BY <1>4, <2>1, <3>1, StageNumbers
    <3> QED BY <1>5, <3>2, OwesCall DEF OwesAt
  <2>2. CASE c # Gateway
    <3>1. c \in Nat /\ c # 0 /\ s = c + 1
      BY <1>4, <2>2, StageNumbers DEF Gateway
    <3>2. s - 1 = c /\ s # 1
      BY <3>1
    <3>3. MuteAt(s, Late)
      BY <1>1, <1>4, <3>2, LateHere DEF MuteAt, Mute
    <3>4. unread[s] = {}
      BY <1>1, <1>5, <3>2 DEF OwesAt, OwesAtMostOne
    <3> QED BY <3>3, <3>4, OwesNone DEF MuteAt
  <2> QED BY <2>1, <2>2
<1> QED BY <1>1, <1>2, <1>4, <1>6, OwedEnds

(* An answer of stage s is read; "in" and "w" are what the answer has left *)
(* of the inbox and the worker.                                            *)
LEMMA OwesHeard ==
    ASSUME Lines, Owed, NEW s \in Stages, NEW job, Heard(s, job),
           job \in JobsAt(s) \/ (worker[s].state # "idle" /\ job = worker[s]),
           NEW c, c = Reader(s, job), NEW workers, Ends(c, workers),
           \E status, out : CallerGets(c, job.req.id, status, out, workers),
           NEW in \in Seq(JobType), inbox'[s] = NowLate(in, s, job), queue'[s] = queue[s],
           Fewer(inbox[s], queue[s], worker[s], in, queue[s], workers[s]),
           job.from = Late => Mute(in, queue[s], workers[s], Late),
           ~MuteAt(s, Late) /\ job.from # s - 1 =>
              /\ ~Hearing(workers[s], s - 1)
              /\ ~Silent(inbox[s], s - 1) => ~Silent(in, s - 1),
           job.from \in Callers \ {Gateway} => MuteAt(s, Late)
    PROVE  OwesAtMostOne(s, inbox'[s], queue[s], workers[s], unread[s], call'[s - 1])
<1>1. /\ c \in Callers /\ call[c].state = "wait" /\ s = Target(c)
      /\ job.from = Late => ~MuteAt(s, Late) /\ c = s - 1
      /\ job.from # Late => c = job.from
  BY ReaderWaits
<1>2. OwesAt(s) /\ call \in [Callers -> CallType]
  BY DEF Owed, OwesAt, Lines, Types
<1>3. PICK status, out : CallerGets(c, job.req.id, status, out, workers)
  OBVIOUS
<1>4. CASE c = Gateway
  <2>1. job.from = c /\ c # Late /\ (s # 1 => c # s - 1)
    BY <1>1, <1>4, LateHere, StageNumbers
  <2>2. inbox'[s] = in
    BY <2>1 DEF NowLate, Overtaken
  <2>3. \A d \in Callers \ {c} : call'[d] = call[d]
    BY <1>2 DEF Ends, Released
  <2>4. s = 1 \/ call'[s - 1] = call[s - 1]
    BY <2>1, <2>3, StageNumbers
  <2>5. ~MuteAt(s, Late) =>
           /\ Silent(queue[s], s - 1) /\ ~Hearing(workers[s], s - 1)
           /\ ~Silent(inbox[s], s - 1) => ~Silent(in, s - 1)
    BY <2>1, LateHere
  <2>6. OwesAtMostOne(s, in, queue[s], workers[s], unread[s], call[s - 1])
    BY <1>2, <2>5, OwesFewer DEF OwesAt, MuteAt
  <2> QED BY <2>2, <2>4, <2>6, OwesCall
<1>5. CASE c # Gateway /\ job.from # Late
  <2>1. c \in Nat /\ c # 0 /\ s = c + 1
    BY <1>1, <1>5, StageNumbers DEF Target, Gateway
  <2>2. s - 1 = c /\ s # 1
    BY <2>1
  <2>3. MuteAt(s, Late) /\ inbox'[s] = in
    BY <1>1, <1>5 DEF NowLate, Overtaken
  <2>4. Mute(in, queue[s], workers[s], Late)
    BY <2>3, MuteJobs DEF Fewer, MuteAt
  <2>5. unread[s] = {}
    BY <1>1, <1>2, <2>2 DEF OwesAt, OwesAtMostOne
  <2> QED BY <2>3, <2>4, <2>5, OwesNone
<1>6. CASE c # Gateway /\ job.from = Late
  <2>1. /\ ~MuteAt(s, Late) /\ c = s - 1 /\ s # 1 /\ unread[s] = {}
    BY <1>1, <1>6, LateHere
  <2>2. Mute(in, queue[s], workers[s], Late)
    BY <1>6
  <2>3. inbox'[s] = Redirected(in, c, Late)
    BY <1>1, <1>6, <2>1 DEF NowLate, Overtaken
  <2>4. Moves(in, c, inbox'[s], Late)
    BY <1>1, <2>2, <2>3, MovesLate DEF Mute
  <2>5. Once(in, c)
    <3>1. Unique(inbox[s], queue[s], worker[s], c)
      BY <1>1 DEF Lines, HeardOnce
    <3> QED BY <3>1 DEF Fewer, Unique
  <2>6. Unique(inbox'[s], queue[s], workers[s], Late)
    <3>1. Once(inbox'[s], Late)
      BY <2>4, <2>5, MovesLine
    <3> QED BY <2>2, <3>1 DEF Unique, Mute, Silent, Once
  <2>7. call'[c] = NotCalling
    BY <1>1, <1>2, <1>3, <1>6 DEF CallerGets
  <2>8. call'[c].attempt = 1 /\ call'[c].state # "wait"
    BY <2>7 DEF NotCalling
  <2>9. Mute(inbox'[s], queue[s], workers[s], c)
    BY DEF Ends
  <2> QED BY <2>1, <2>6, <2>8, <2>9 DEF OwesAtMostOne, Mute
<1> QED BY <1>4, <1>5, <1>6

(* A request goes on at its stage, or is answered, and none becomes late.  *)
LEMMA OwedSubmit ==
    ASSUME Lines, Owed, NEW s \in Stages, NEW i \in DOMAIN inbox[s], Submit(s, i)
    PROVE  Owed'
<1>1. PICK job : job = inbox[s][i]
  OBVIOUS
<1>2. PICK in : in = RemoveAt(inbox[s], i)
  OBVIOUS
<1>3. /\ inbox \in [Stages -> Seq(JobType)] /\ queue \in [Stages -> Seq(JobType)]
      /\ inbox[s] \in Seq(JobType) /\ queue[s] \in Seq(JobType)
      /\ job \in JobType /\ job \in ToSet(inbox[s]) /\ job \in JobsAt(s)
      /\ unread = [t \in Stages |-> unread[t]]
  <2>1. inbox[s] \in Seq(JobType) /\ queue[s] \in Seq(JobType)
    BY DEF Lines, Types
  <2>2. job \in JobType /\ job \in ToSet(inbox[s])
    BY <1>1, <2>1 DEF ToSet
  <2> QED BY <2>1, <2>2 DEF Lines, Types, JobsAt, Jobs
<1>4. OwesAt(s)
  BY DEF Owed, OwesAt
<1>5. ~MuteAt(s, Late) =>
         /\ s # 1 /\ job.from # s - 1
         /\ Silent(queue[s], s - 1) /\ ~Hearing(worker[s], s - 1)
         /\ ~Silent(inbox[s], s - 1) => ~Silent(in, s - 1)
  <2> SUFFICES ASSUME ~MuteAt(s, Late)
               PROVE  /\ s # 1 /\ job.from # s - 1
                      /\ Silent(queue[s], s - 1) /\ ~Hearing(worker[s], s - 1)
                      /\ ~Silent(inbox[s], s - 1) => ~Silent(in, s - 1)
    OBVIOUS
  <2>1. s # 1 /\ Silent(queue[s], s - 1) /\ ~Hearing(worker[s], s - 1)
    BY LateHere
  <2>2. Unanswered(s) /\ s > 1
    BY <2>1 DEF Unanswered, MuteAt, Mute, Silent, Hearing, Stages
  <2>3. job.from # s - 1
    BY <1>1, <2>2 DEF Submit
  <2> QED BY <1>1, <1>2, <1>3, <2>1, <2>3, RemoveKeeps
<1>6. CASE Len(queue[s]) < QueueSize
  <2>1. /\ inbox' = [inbox EXCEPT ![s] = in]
        /\ queue' = [queue EXCEPT ![s] = Append(queue[s], job)]
        /\ UNCHANGED <<call, worker, unread>>
    BY <1>1, <1>2, <1>6 DEF Submit
  <2>2. PICK line : line = Append(queue[s], job)
    OBVIOUS
  <2>3. /\ inbox'[s] = in /\ queue'[s] = line
        /\ \A t \in Stages \ {s} : inbox'[t] = inbox[t] /\ queue'[t] = queue[t]
    BY <1>3, <2>1, <2>2
  <2>4. Fewer(inbox[s], queue[s], worker[s], in, line, worker[s])
    BY <1>1, <1>2, <1>3, <2>2, ThinAccept
  <2>5. ~MuteAt(s, Late) => Silent(line, s - 1)
    BY <1>3, <1>5, <2>2, AppendShape
  <2>6. OwesAtMostOne(s, in, line, worker[s], unread[s], call[s - 1])
    BY <1>4, <1>5, <2>4, <2>5, OwesFewer DEF OwesAt, MuteAt
  <2>7. \A t \in Stages :
           OwesAtMostOne(t, inbox'[t], queue'[t], worker'[t], unread'[t], call'[t - 1])
    BY <2>1, <2>3, <2>6, OwesElsewhere
  <2> QED BY <2>7 DEF Owed
<1>7. ASSUME ~(Len(queue[s]) < QueueSize)
      PROVE  Fewer(inbox[s], queue[s], worker[s], in, queue[s], worker[s])
  BY <1>1, <1>2, <1>3, ThinRefuse
<1>8. CASE ~(Len(queue[s]) < QueueSize) /\ ~Heard(s, job)
  <2>1. /\ inbox' = [inbox EXCEPT ![s] = in]
        /\ UNCHANGED <<call, worker, queue>>
        /\ \E status, out, open : unread' = IF job.from = Late
                               THEN [unread EXCEPT ![s] = LateAnswer(job, status, out, open)]
                               ELSE unread
    <3>1. PICK status, out, open : status = 429 /\ out = <<>> /\ open = TRUE
      OBVIOUS
    <3>2. Answer(s, job, status, out, open, worker) /\ queue' = queue
      BY <1>1, <1>8, <3>1 DEF Submit
    <3>3. inbox' = [inbox EXCEPT ![s] = in]
      BY <1>1, <1>2, <1>8 DEF Submit, Heard, NowLate
    <3>4. /\ UNCHANGED <<call, worker>>
          /\ unread' = IF job.from = Late
                       THEN [unread EXCEPT ![s] = LateAnswer(job, status, out, open)] ELSE unread
      BY <1>8, <3>2, AnswerShape
    <3>5. \E st, o, op : unread' = IF job.from = Late
                               THEN [unread EXCEPT ![s] = LateAnswer(job, st, o, op)]
                               ELSE unread
      BY <3>4
    <3> QED BY <3>2, <3>3, <3>4, <3>5
  <2>2. /\ inbox'[s] = in /\ \A t \in Stages \ {s} : inbox'[t] = inbox[t] /\ unread'[t] = unread[t]
    BY <1>3, <2>1
  <2>3. OwesAtMostOne(s, in, queue[s], worker[s], unread'[s], call[s - 1])
    <3>1. CASE job.from # Late
      <4>1. unread'[s] = unread[s]
        BY <2>1, <3>1
      <4> QED BY <1>4, <1>5, <1>7, <1>8, <4>1, OwesFewer DEF OwesAt, MuteAt
    <3>2. CASE job.from = Late
      <4>1. ~MuteAt(s, Late)
        BY <1>3, <3>2, MuteJobs DEF MuteAt, JobsAt
      <4>2. /\ s # 1 /\ call[s - 1].attempt = 1
            /\ Unique(inbox[s], queue[s], worker[s], Late)
        BY <4>1, LateHere
      <4>3. call[s - 1].state # "wait"
        BY <1>8, <3>2 DEF Heard, Overtaken
      <4>4. Mute(in, queue[s], worker[s], Late)
        BY <1>1, <1>2, <1>3, <3>2, <4>2, ThinRefuse
      <4>5. PICK status, out, open : unread'[s] = LateAnswer(job, status, out, open)
        BY <1>3, <2>1, <3>2
      <4>6. \E answer : unread'[s] = {answer}
        BY <4>5 DEF LateAnswer
      <4> QED BY <4>2, <4>3, <4>4, <4>6, OwesUnread
    <3> QED BY <3>1, <3>2
  <2>4. \A t \in Stages :
           OwesAtMostOne(t, inbox'[t], queue'[t], worker'[t], unread'[t], call'[t - 1])
    BY <2>1, <2>2, <2>3, OwesElsewhere
  <2> QED BY <2>4 DEF Owed
<1>9. CASE ~(Len(queue[s]) < QueueSize) /\ Heard(s, job)
  <2>1. PICK c : c = Reader(s, job)
    OBVIOUS
  <2>2. /\ c \in Callers /\ Ends(c, worker)
        /\ queue' = queue /\ unread' = unread
        /\ \E status, out : CallerGets(c, job.req.id, status, out, worker)
        /\ inbox'[s] = NowLate(in, s, job)
        /\ \A t \in Stages \ {s} : inbox'[t] = inbox[t]
    BY <1>1, <1>2, <1>9, <2>1, RefusalEnds
  <2>3. OwesAtMostOne(s, inbox'[s], queue[s], worker[s], unread[s], call'[s - 1])
    <3>1. in \in Seq(JobType) /\ Fewer(inbox[s], queue[s], worker[s], in, queue[s], worker[s])
      BY <1>2, <1>3, <1>7, <1>9, RemoveShape
    <3>2. job.from = Late => Mute(in, queue[s], worker[s], Late)
      BY <1>1, <1>2, <1>3, <1>4, ThinRefuse DEF OwesAt, OwesAtMostOne
    <3>3. job.from \in Callers \ {Gateway} => MuteAt(s, Late)
      <4>1. ASSUME job.from \in Callers \ {Gateway} PROVE job.from = s - 1
        <5>0. job.from # Late
          BY <4>1, StageNumbers
        <5>1. Reader(s, job) = job.from /\ s = Target(job.from)
          BY <1>3, <1>9, <5>0, ReaderWaits
        <5>2. job.from \in Nat /\ s = job.from + 1
          BY <4>1, <5>1, StageNumbers DEF Target
        <5> QED BY <5>2
      <4> QED BY <1>5, <4>1
    <3> QED BY <1>3, <1>5, <1>9, <2>1, <2>2, <3>1, <3>2, <3>3, OwesHeard
  <2>4. c # Gateway => s = c + 1
    BY <1>3, <1>9, <2>1, ReaderWaits DEF Target
  <2> QED BY <2>2, <2>3, <2>4, OwedEnds
<1> QED BY <1>6, <1>8, <1>9

LEMMA OwedExecute ==
    ASSUME Lines, Owed, NEW s \in Stages, NEW result, Execute(s, result)
    PROVE  Owed'
<1>1. PICK job : job = Head(queue[s])
  OBVIOUS
<1>2. PICK after : after = Forward(sessions[s], job.req, result)
  OBVIOUS
<1>3. Ran(s, result, job, after)
  BY <1>1, <1>2, ExecuteShape DEF Lines
<1>4. PICK w : w = worker'[s]
  OBVIOUS
<1>5. PICK line : line = Tail(queue[s])
  OBVIOUS
<1>6. /\ worker[s].state = "idle" /\ queue[s] # <<>> /\ job \in JobType
      /\ queue' = [queue EXCEPT ![s] = line]
      /\ UNCHANGED <<inbox, unread>>
      /\ worker' = [worker EXCEPT ![s] = w] /\ w \in WorkType
      /\ w.req = job.req /\ w.chain = job.chain /\ w.from = job.from
      /\ call' = IF Relays(s, job, result) THEN [call EXCEPT ![s] = FirstTry] ELSE call
  BY <1>3, <1>4, <1>5 DEF Ran
<1>7. /\ queue \in [Stages -> Seq(JobType)] /\ worker = [t \in Stages |-> worker[t]]
      /\ call \in [Callers -> CallType] /\ queue[s] \in Seq(JobType)
      /\ WorkerFits(s, worker[s])
  BY DEF Lines, Types
<1>8. /\ queue'[s] = line /\ worker'[s] = w
      /\ \A t \in Stages \ {s} : queue'[t] = queue[t] /\ worker'[t] = worker[t]
  BY <1>6, <1>7
<1>9. worker[s] = Idle /\ AsJob(w) = job
  BY <1>6, <1>7, IdleIsNoWork DEF WorkerFits, AsJob, JobType
<1>10. Fewer(inbox[s], queue[s], worker[s], inbox[s], line, w)
  BY <1>1, <1>5, <1>6, <1>7, <1>9, IdleIsNoWork, ThinExecute
<1>11. ~MuteAt(s, Late) => Silent(line, s - 1) /\ ~Hearing(w, s - 1)
  <2>1. \A d : Silent(queue[s], d) => Silent(line, d) /\ job.from # d
    BY <1>1, <1>5, <1>6, <1>7, TailLine
  <2> QED BY <1>6, <2>1, LateHere DEF Hearing
<1>12. OwesAtMostOne(s, inbox[s], line, w, unread[s], call[s - 1])
  <2>1. OwesAt(s)
    BY DEF Owed, OwesAt
  <2> QED BY <1>10, <1>11, <2>1, OwesFewer DEF OwesAt, MuteAt
<1>13. ASSUME NEW t \in Stages
       PROVE  OwesAtMostOne(t, inbox'[t], queue'[t], worker'[t], unread'[t], call[t - 1])
  <2>1. CASE t = s
    BY <1>6, <1>8, <1>12, <2>1
  <2>2. CASE t # s
    BY <1>6, <1>8, <2>2 DEF Owed
  <2> QED BY <2>1, <2>2
<1>14. \A c \in Callers : call'[c] = call[c] \/ call'[c] = FirstTry
  BY <1>6, <1>7
<1>15. FirstTry.attempt = 1 /\ FirstTry.state # "wait"
  BY DEF FirstTry
<1>16. \A t \in Stages :
          OwesAtMostOne(t, inbox'[t], queue'[t], worker'[t], unread'[t], call'[t - 1])
  BY <1>13, <1>14, <1>15, StageNumbers, OwesCall
<1> QED BY <1>16 DEF Owed

LEMMA OwedReply ==
    ASSUME Lines, Owed, NEW s \in Stages, Reply(s)
    PROVE  Owed'
<1>1. PICK workers : workers = [worker EXCEPT ![s] = Idle]
  OBVIOUS
<1>2. PICK w : w = worker[s]
  OBVIOUS
<1>3. /\ w.state = "replying" /\ Answer(s, w, w.status, w.out, TRUE, workers)
      /\ inbox' = [inbox EXCEPT ![s] = NowLate(inbox[s], s, w)]
      /\ UNCHANGED <<queue, sessions, faults>>
  BY <1>1, <1>2 DEF Reply
<1>4. /\ inbox \in [Stages -> Seq(JobType)] /\ inbox[s] \in Seq(JobType)
      /\ unread = [t \in Stages |-> unread[t]]
  BY DEF Lines, Types
<1>5. /\ workers[s] = Idle /\ \A t \in Stages \ {s} : workers[t] = worker[t]
  BY <1>1, <1>2, <1>3, IdleWorkers
<1>6. OwesAt(s)
  BY DEF Owed, OwesAt
<1>7. /\ Fewer(inbox[s], queue[s], worker[s], inbox[s], queue[s], Idle)
      /\ w.from = Late => ~MuteAt(s, Late) /\ Mute(inbox[s], queue[s], Idle, Late)
  BY <1>2, <1>3, <1>6, ThinIdle DEF Hearing, MuteAt, Mute, OwesAt, OwesAtMostOne
<1>8. ~MuteAt(s, Late) => /\ Silent(queue[s], s - 1) /\ ~Hearing(Idle, s - 1)
                          /\ ~Hearing(w, s - 1)
  BY <1>2, LateHere, IdleIsNoWork DEF Hearing
<1>9. CASE ~Heard(s, w)
  <2>1. /\ inbox' = inbox /\ worker' = workers /\ UNCHANGED <<queue, call>>
        /\ \E status, out : unread' = IF w.from = Late
                               THEN [unread EXCEPT ![s] = LateAnswer(w, status, out, TRUE)]
                               ELSE unread
    <3>1. PICK status, out, open : status = w.status /\ out = w.out /\ open = TRUE
      OBVIOUS
    <3>2. Answer(s, w, status, out, open, workers)
      BY <1>3, <3>1
    <3>3. inbox' = inbox
      BY <1>3, <1>4, <1>9 DEF Heard, NowLate
    <3>4. /\ worker' = workers /\ call' = call
          /\ unread' = IF w.from = Late
                       THEN [unread EXCEPT ![s] = LateAnswer(w, status, out, open)] ELSE unread
      BY <1>9, <3>2, AnswerShape
    <3> QED BY <1>3, <3>1, <3>3, <3>4
  <2>2. \A t \in Stages \ {s} : unread'[t] = unread[t]
    BY <1>4, <2>1
  <2>3. OwesAtMostOne(s, inbox[s], queue[s], Idle, unread'[s], call[s - 1])
    <3>1. CASE w.from # Late
      <4>1. unread'[s] = unread[s]
        BY <2>1, <3>1
      <4> QED BY <1>6, <1>7, <1>8, <4>1, OwesFewer DEF OwesAt, MuteAt
    <3>2. CASE w.from = Late
      <4>1. s # 1 /\ call[s - 1].attempt = 1
        BY <1>7, <3>2, LateHere
      <4>2. call[s - 1].state # "wait"
        BY <1>9, <3>2 DEF Heard, Overtaken
      <4>3. PICK status, out : unread'[s] = LateAnswer(w, status, out, TRUE)
        BY <1>4, <2>1, <3>2
      <4>4. \E answer : unread'[s] = {answer}
        BY <4>3 DEF LateAnswer
      <4> QED BY <1>7, <3>2, <4>1, <4>2, <4>4, OwesUnread
    <3> QED BY <3>1, <3>2
  <2>4. \A t \in Stages :
           OwesAtMostOne(t, inbox'[t], queue'[t], worker'[t], unread'[t], call'[t - 1])
    BY <1>5, <2>1, <2>2, <2>3, OwesElsewhere
  <2> QED BY <2>4 DEF Owed
<1>10. CASE Heard(s, w)
  <2>1. PICK c : c = Reader(s, w)
    OBVIOUS
  <2>2. /\ c \in Callers /\ Ends(c, workers)
        /\ queue' = queue /\ unread' = unread
        /\ \E status, out : CallerGets(c, w.req.id, status, out, workers)
        /\ inbox'[s] = NowLate(inbox[s], s, w)
        /\ \A t \in Stages \ {s} : inbox'[t] = inbox[t]
    BY <1>1, <1>2, <1>10, <2>1, ReplyEnds
  <2>3. w.from \in Callers \ {Gateway} => MuteAt(s, Late)
    <3>1. ASSUME w.from \in Callers \ {Gateway} PROVE Hearing(w, s - 1)
      <4>1. Reader(s, w) = w.from /\ s = Target(w.from)
        BY <1>2, <1>3, <1>10, <3>1, ReaderWaits, StageNumbers
      <4>2. w.from \in Nat /\ s = w.from + 1
        BY <3>1, <4>1, StageNumbers DEF Target
      <4>3. w.from = s - 1
        BY <4>2
      <4> QED BY <1>3, <4>3 DEF Hearing
    <3> QED BY <1>8, <3>1
  <2>4. OwesAtMostOne(s, inbox'[s], queue[s], workers[s], unread[s], call'[s - 1])
    BY <1>2, <1>3, <1>4, <1>5, <1>7, <1>8, <1>10, <2>1, <2>2, <2>3, OwesHeard
  <2>5. c # Gateway => s = c + 1
    BY <1>2, <1>3, <1>10, <2>1, ReaderWaits DEF Target
  <2> QED BY <1>5, <2>2, <2>4, <2>5, OwedEnds
<1> QED BY <1>9, <1>10

(* The stage that died owes what it had written, and is owed nothing.      *)
LEMMA OwesDead ==
    ASSUME Lines, Owed, NEW s \in Stages, Dies(s), NEW workers, workers = Survivors(s),
           NEW answers, NEW cl,
           unread[s] = {} => answers = {},
           (\E answer : unread[s] = {answer}) => \E answer : answers = {answer},
           s = 1 \/ cl = call[s - 1]
    PROVE  OwesAtMostOne(s, inbox'[s], queue'[s], workers[s], answers, cl)
<1>1. Mute(inbox'[s], queue'[s], workers[s], Late)
  BY DiesThin
<1>2. OwesAt(s)
  BY DEF Owed, OwesAt
<1>3. CASE unread[s] = {}
  BY <1>1, <1>3, OwesNone
<1>4. CASE unread[s] # {}
  <2>1. /\ s # 1 /\ call[s - 1].state # "wait" /\ call[s - 1].attempt = 1
        /\ \E answer : unread[s] = {answer}
    BY <1>2, <1>4 DEF OwesAt, OwesAtMostOne
  <2> QED BY <1>1, <2>1, OwesUnread
<1> QED BY <1>3, <1>4

LEMMA OwedDies ==
    ASSUME Lines, Owed, NEW s \in Stages, DiesUnread(s),
           OwesAtMostOne(s, inbox'[s], queue'[s], worker'[s], unread'[s], call'[s - 1]),
           \A t \in Stages \ {s} : unread'[t] = IF t = s + 1 THEN {} ELSE unread[t]
    PROVE  Owed'
<1>1. /\ \A t \in Stages \ {s, s + 1} :
            inbox'[t] = inbox[t] /\ queue'[t] = queue[t] /\ worker'[t] = worker[t]
      /\ s + 1 \in Stages => Mute(inbox'[s + 1], queue'[s + 1], worker'[s + 1], Late)
  BY DiesShape DEF DiesUnread
<1>2. call \in [Callers -> CallType] /\ (worker[s].state = "calling" => s \in Callers)
  BY DEF Lines, Types, WorkerFits
<1>3. \A c \in Callers \ {s} : call'[c] = call[c]
  BY <1>2 DEF DiesUnread
<1>4. ASSUME NEW t \in Stages
      PROVE  OwesAtMostOne(t, inbox'[t], queue'[t], worker'[t], unread'[t], call'[t - 1])
  <2>1. CASE t = s
    BY <2>1
  <2>2. CASE t # s /\ t = s + 1
    BY <1>1, <2>2, OwesNone
  <2>3. CASE t # s /\ t # s + 1
    <3>1. t = 1 \/ (t - 1 \in Callers \ {Gateway} /\ (t - 1) + 1 = t)
      BY StageNumbers
    <3>2. t = 1 \/ call'[t - 1] = call[t - 1]
      BY <1>3, <2>3, <3>1
    <3> QED BY <1>1, <2>3, <3>2, OwesElsewhere
  <2> QED BY <2>1, <2>2, <2>3
<1> QED BY <1>4 DEF Owed

LEMMA CallBefore ==
    ASSUME Lines, NEW s \in Stages, DiesUnread(s)
    PROVE  s = 1 \/ call'[s - 1] = call[s - 1]
<1>1. call \in [Callers -> CallType] /\ s \in Nat /\ s - 1 # s
  BY StageNumbers DEF Lines, Types
<1> QED BY <1>1, StageNumbers DEF DiesUnread

LEMMA OwedRestart ==
    ASSUME Lines, Owed, NEW s \in Stages, Restart(s)
    PROVE  Owed'
<1>1. DiesUnread(s) /\ unread' = StillUnread(unread, s)
  BY LinesRestart DEF Restart
<1>2. /\ unread[s] = {} => unread'[s] = {}
      /\ (\E answer : unread[s] = {answer}) => \E answer : unread'[s] = {answer}
      /\ \A t \in Stages \ {s} : unread'[t] = IF t = s + 1 THEN {} ELSE unread[t]
  <2>1. PICK new : new = StillUnread(unread, s) /\ unread' = new
    BY <1>1
  <2> QED BY <2>1, StillUnreadFits
<1>3. OwesAtMostOne(s, inbox'[s], queue'[s], worker'[s], unread'[s], call'[s - 1])
  BY <1>1, <1>2, CallBefore, OwesDead DEF DiesUnread
<1> QED BY <1>1, <1>2, <1>3, OwedDies

LEMMA OwedRestartInReply ==
    ASSUME Lines, Owed, NEW s \in Stages, RestartInReply(s)
    PROVE  Owed'
<1>1. CASE ~Heard(s, worker[s])
  <2>1. /\ DiesUnread(s) /\ worker[s].from = Late /\ worker[s].state = "replying"
        /\ unread' = [StillUnread(unread, s) EXCEPT
                         ![s] = LateAnswer(worker[s], Undecodable, <<>>, FALSE)]
    BY <1>1, RestartInReplyDies DEF RestartInReply
  <2>2. /\ \E answer : unread'[s] = {answer}
        /\ \A t \in Stages \ {s} : unread'[t] = IF t = s + 1 THEN {} ELSE unread[t]
    BY <2>1, DyingAnswerFits
  <2>3. s # 1 /\ call[s - 1].attempt = 1
    BY <2>1, LateHere DEF MuteAt, Mute, Hearing
  <2>4. call[s - 1].state # "wait"
    BY <1>1, <2>1 DEF Heard, Overtaken
  <2>5. call'[s - 1] = call[s - 1]
    BY <2>1, <2>3, CallBefore
  <2>6. Mute(inbox'[s], queue'[s], worker'[s], Late)
    BY <2>1, DiesThin DEF DiesUnread
  <2>7. OwesAtMostOne(s, inbox'[s], queue'[s], worker'[s], unread'[s], call'[s - 1])
    BY <2>2, <2>3, <2>4, <2>5, <2>6, OwesUnread
  <2> QED BY <2>1, <2>2, <2>7, OwedDies
<1>2. CASE Heard(s, worker[s])
  <2>1. PICK workers : workers = Survivors(s)
    OBVIOUS
  <2>2. PICK c : c = Reader(s, worker[s])
    OBVIOUS
  <2>3. /\ c \in Callers /\ Ends(c, workers) /\ unread' = StillUnread(unread, s)
        /\ worker[s].state = "replying" /\ Dies(s)
    <3>1. worker[s].state = "replying" /\ Dies(s)
      BY DEF RestartInReply
    <3>2. c \in Callers /\ Ends(c, workers) /\ unread' = StillUnread(unread, s)
      BY <1>2, <2>1, <2>2, RestartInReplyEnds
    <3> QED BY <3>1, <3>2
  <2>4. /\ call[c].state = "wait" /\ s = Target(c)
        /\ worker[s].from = Late => ~MuteAt(s, Late) /\ c = s - 1
    BY <1>2, <2>2, <2>3, ReaderWaits
  <2>5. /\ unread[s] = {} => unread'[s] = {}
        /\ (\E answer : unread[s] = {answer}) => \E answer : unread'[s] = {answer}
        /\ \A t \in Stages \ {s} : unread'[t] = IF t = s + 1 THEN {} ELSE unread[t]
    <3>1. PICK new : new = StillUnread(unread, s) /\ unread' = new
      BY <2>3
    <3> QED BY <3>1, StillUnreadFits
  <2>6. OwesAt(s) /\ call \in [Callers -> CallType]
    BY DEF Owed, OwesAt, Lines, Types
  <2>7. OwesAtMostOne(s, inbox'[s], queue'[s], workers[s], unread'[s], call'[s - 1])
    <3>1. CASE c = Gateway
      <4>1. \A d \in Callers \ {c} : call'[d] = call[d]
        BY <2>3, <2>6 DEF Ends, Released
      <4>2. s = 1 \/ call'[s - 1] = call[s - 1]
        BY <3>1, <4>1, StageNumbers
      <4> QED BY <2>1, <2>3, <2>5, <4>2, OwesDead
    <3>2. CASE c # Gateway
      <4>1. c \in Nat /\ c # 0 /\ s = c + 1
        BY <2>3, <2>4, <3>2, StageNumbers DEF Target, Gateway
      <4>2. s - 1 = c /\ s # 1
        BY <4>1
      <4>3. unread[s] = {}
        BY <2>4, <2>6, <4>2 DEF OwesAt, OwesAtMostOne
      <4>4. Mute(inbox'[s], queue'[s], workers[s], Late)
        BY <2>1, <2>3, DiesThin
      <4> QED BY <2>5, <4>3, <4>4, OwesNone
    <3> QED BY <3>1, <3>2
  <2>8. ASSUME NEW t \in Stages \ {s}
        PROVE  \/ /\ inbox'[t] = inbox[t] /\ queue'[t] = queue[t]
                  /\ unread'[t] = unread[t] /\ workers[t] = worker[t]
               \/ Mute(inbox'[t], queue'[t], workers[t], Late) /\ unread'[t] = {}
    BY <2>1, <2>3, <2>5, DiesShape
  <2>9. c # Gateway => s = c + 1
    BY <2>4 DEF Target
  <2> QED BY <2>3, <2>7, <2>8, <2>9, OwedEnds
<1> QED BY <1>1, <1>2

LEMMA OwedNext ==
    ASSUME Lines, Owed, [Next]_vars
    PROVE  Owed'
<1>1. CASE UNCHANGED vars
  BY <1>1 DEF vars, Owed, OwesAtMostOne
<1>2. ASSUME NEW g \in Requests, NEW chain \in Topologies, NEW min \in MinNews,
             Begin(g, chain, min)
      PROVE  Owed'
  BY <1>2, OwedBegin
<1>3. ASSUME NEW c \in Callers, Send(c) \/ SendAndReadLate(c) \/ ConnectionLost(c) \/ SendFails(c) \/ Timeout(c)
      PROVE  Owed'
  BY <1>3, OwedSend, OwedReadsLate, OwedLost, OwedAbandons
<1>4. ASSUME NEW s \in Stages, Submits(s) PROVE Owed'
  BY <1>4, OwedSubmit DEF Submits
<1>5. ASSUME NEW s \in Stages, ForwardRuns(s) \/ ForwardThrows(s) PROVE Owed'
  <2>1. PICK result : Execute(s, result)
    BY <1>5 DEF ForwardRuns, ForwardThrows
  <2> QED BY <2>1, OwedExecute
<1>6. ASSUME NEW s \in Stages, Reply(s) \/ Restart(s) \/ RestartInReply(s) PROVE Owed'
  BY <1>6, OwedReply, OwedRestart, OwedRestartInReply
<1> QED BY <1>1, <1>2, <1>3, <1>4, <1>5, <1>6 DEF Next

LEMMA LinesAlways == Spec => [](Lines /\ Owed)
<1>1. Init => Lines /\ Owed
  BY LinesInit, OwedInit
<1>2. Lines /\ Owed /\ [Next]_vars => (Lines /\ Owed)'
  BY LinesNext, OwedNext
<1> QED BY <1>1, <1>2, PTL DEF Spec

------------------------------------------------------------------------------
(* What the runs check of the lines.                                       *)

Heards(line, c) == {i \in DOMAIN line : Hears(c, line[i])}

LEMMA HeardLine ==
    ASSUME NEW line, NEW c
    PROVE  /\ Silent(line, c) => Cardinality(Heards(line, c)) = 0
           /\ Once(line, c) => Cardinality(Heards(line, c)) \in {0, 1}
<1> DEFINE hears == Heards(line, c)
<1>2. Silent(line, c) => hears = {}
  BY DEF Silent, Hears, Heards
<1>3. ASSUME Once(line, c), hears # {} PROVE \E i : hears = {i}
  <2>1. PICK i \in DOMAIN line : Hears(c, line[i])
    BY <1>3 DEF Heards
  <2>2. hears = {i}
    BY <1>3, <2>1 DEF Once, Hears, Heards
  <2> QED BY <2>2
<1> HIDE DEF hears
<1>4. hears = {} => Cardinality(hears) = 0
  BY FS_EmptySet
<1>5. (\E i : hears = {i}) => Cardinality(hears) = 1
  BY FS_Singleton
<1>6. /\ Silent(line, c) => Cardinality(hears) = 0
      /\ Once(line, c) => Cardinality(hears) \in {0, 1}
  BY <1>2, <1>3, <1>4, <1>5
<1> QED BY <1>6 DEF hears

LEMMA HeardStage ==
    ASSUME NEW s, NEW c, Unique(inbox[s], queue[s], worker[s], c)
    PROVE  /\ Listening(s, c) \in {0, 1}
           /\ MuteAt(s, c) => Listening(s, c) = 0
<1> DEFINE a == Cardinality(Heards(inbox[s], c))
           b == Cardinality(Heards(queue[s], c))
           served == worker[s].state # "idle" /\ Hears(c, worker[s])
<1>1. served <=> Hearing(worker[s], c)
  BY DEF Hearing, Hears
<1>2. /\ Silent(inbox[s], c) => a = 0
      /\ Silent(queue[s], c) => b = 0
      /\ Once(inbox[s], c) => a \in {0, 1}
      /\ Once(queue[s], c) => b \in {0, 1}
  BY HeardLine
<1>3. Listening(s, c) = a + b + (IF served THEN 1 ELSE 0)
  BY DEF Listening, Heards
<1> HIDE DEF a, b, served
<1>4. a \in {0, 1} /\ b \in {0, 1} /\ (a = 0 \/ b = 0) /\ (served => a = 0 /\ b = 0)
  BY <1>1, <1>2 DEF Unique
<1>5. MuteAt(s, c) => a = 0 /\ b = 0 /\ ~served
  BY <1>1, <1>2 DEF MuteAt, Mute
<1> QED BY <1>3, <1>4, <1>5

LEMMA OwedStage ==
    ASSUME Lines, Owed, NEW s \in Stages
    PROVE  Listening(s, Late) + Cardinality(unread[s])
              <= (IF s = 1 \/ call[s - 1].attempt = 2 THEN 0 ELSE 1)
<1>1. OwesAt(s)
  BY DEF Owed, OwesAt
<1>2. /\ Listening(s, Late) \in {0, 1}
      /\ MuteAt(s, Late) => Listening(s, Late) = 0
  BY <1>1, HeardStage DEF OwesAt, OwesAtMostOne
<1>3. /\ unread[s] = {} => Cardinality(unread[s]) = 0
      /\ (\E answer : unread[s] = {answer}) => Cardinality(unread[s]) = 1
  BY FS_EmptySet, FS_Singleton
<1>4. CASE MuteAt(s, Late) /\ unread[s] = {}
  BY <1>2, <1>3, <1>4
<1>5. CASE MuteAt(s, Late) /\ unread[s] # {}
  <2>1. s # 1 /\ call[s - 1].attempt = 1 /\ \E answer : unread[s] = {answer}
    BY <1>1, <1>5 DEF OwesAt, OwesAtMostOne
  <2> QED BY <1>2, <1>3, <1>5, <2>1
<1>6. CASE ~MuteAt(s, Late)
  <2>1. s # 1 /\ call[s - 1].attempt = 1 /\ unread[s] = {}
    BY <1>6, LateHere
  <2> QED BY <1>2, <1>3, <2>1
<1> QED BY <1>4, <1>5, <1>6

(* Queues and session maps stay within their limits, and each caller of the*)
(* line has at most one request of its own outstanding, at the stage it has*)
(* posted it to, and only while post_binary waits for it. The connection of*)
(* a worker owes it one late answer at most, sent or not, and none once the*)
(* first attempt of a call has failed and the connection was closed.       *)
THEOREM PipelineTypeOK == Spec => []TypeOK
<1>1. Lines /\ Owed => TypeOK
  <2> SUFFICES ASSUME Lines, Owed PROVE TypeOK
    OBVIOUS
  <2>1. ASSUME NEW s \in Stages
        PROVE  /\ Len(queue[s]) <= QueueSize
               /\ DOMAIN sessions[s] \subseteq Requests
               /\ Cardinality(DOMAIN sessions[s]) <= MaxSessions
               /\ worker[s].state \in {"idle", "calling", "replying"}
    <3>1. SessionMap(sessions[s]) /\ WorkerFits(s, worker[s]) /\ Len(queue[s]) <= QueueSize
      BY DEF Lines, Types
    <3> QED BY <3>1, IdleIsNoWork DEF SessionMap, WorkerFits, WorkType
  <2>2. \A c \in Callers : call[c] \in [state : {"idle", "send", "wait"}, attempt : {1, 2}]
    BY DEF Lines, Types, CallType
  <2>3. gw.gen \in {0} \cup Requests /\ gw.hop \in Stages /\ gw.index < MaxNew
    <3>1. gw \in GenerationType
      BY DEF Lines, Types, GenerationFits
    <3> QED BY <3>1, PipelineAssumption DEF GenerationType, PipelineAssumption
  <2>4. \A g \in Requests : outcome[g].how \in {"no", "ok", "error"}
    BY DEF Lines, Types, OutcomeType
  <2>5. disturbed \subseteq Requests
    BY DEF Lines, Types
  <2>6. ASSUME NEW c \in Callers, NEW s \in Stages
        PROVE  Listening(s, c) <= (IF call[c].state = "wait" /\ s = Target(c) THEN 1 ELSE 0)
    <3>1. Listening(s, c) \in {0, 1} /\ (MuteAt(s, c) => Listening(s, c) = 0)
      BY HeardStage DEF Lines, HeardOnce
    <3>2. ~(call[c].state = "wait" /\ s = Target(c)) => MuteAt(s, c)
      BY MuteUnless DEF Lines
    <3> QED BY <3>1, <3>2
  <2> QED BY <2>1, <2>2, <2>3, <2>4, <2>5, <2>6, OwedStage DEF TypeOK
<1> QED BY <1>1, LinesAlways, PTL
------------------------------------------------------------------------------
(* A request is live if its generation has not been disturbed.             *)
(* Live requests belong to the generation in progress and are what carries *)
(* it: the caller of each has an answer to give, down to the gateway.      *)

Mode == IF gw.index = 0 THEN "prefill" ELSE "decode"

Passing(t) == worker[t].state = "calling" /\ worker[t].req.id = gw.gen

Current(s, job) ==
    /\ job.from \in Callers
    /\ gw.running /\ job.req.id = gw.gen /\ job.chain = gw.chain
    /\ job.req.mode = Mode /\ job.req.index = gw.index
    /\ gw.chain => job.from = s - 1 /\ \A t \in 1 .. s - 1 : Passing(t)
    /\ ~gw.chain => job.from = Gateway

AllCurrent ==
    \A s \in Stages : \A job \in JobsAt(s) : job.req.id \notin disturbed => Current(s, job)

(* The call of a live generation is not lost.                              *)
NoneLost ==
    \A c \in Callers :
        call[c].state = "wait" /\ Posted(c).id \notin disturbed =>
            \E job \in JobsAt(Target(c)) : job.from = c

(* What a step makes of the jobs of a stage: it may take the one c listens *)
(* to, and do anything to those that are not live.                         *)
Stays(s, c, jobs) ==
    /\ \A job \in jobs : job \in JobsAt(s) \/ job.req.id \in disturbed'
    /\ \A job \in JobsAt(s) : job \in jobs \/ job.from = c \/ job.req.id \in disturbed'

JobsWith(s, w) == Jobs(inbox'[s], queue'[s], w)

LEMMA ServedJob ==
    ASSUME NEW s, worker[s].state # "idle"
    PROVE  /\ AsJob(worker[s]) \in JobsAt(s)
           /\ AsJob(worker[s]).req = worker[s].req
           /\ AsJob(worker[s]).chain = worker[s].chain
           /\ AsJob(worker[s]).from = worker[s].from
  BY DEF JobsAt, Jobs, AsJob

(* A worker that calls for a live generation has been called for it.       *)
LEMMA CallingCurrent ==
    ASSUME AllCurrent, NEW s \in Stages, worker[s].state # "idle",
           worker[s].req.id \notin disturbed
    PROVE  Current(s, worker[s])
<1>1. /\ AsJob(worker[s]) \in JobsAt(s)
      /\ AsJob(worker[s]).req = worker[s].req
      /\ AsJob(worker[s]).chain = worker[s].chain
      /\ AsJob(worker[s]).from = worker[s].from
  BY ServedJob
<1>2. Current(s, AsJob(worker[s]))
  BY <1>1 DEF AllCurrent
<1> QED BY <1>1, <1>2 DEF Current

(* Whoever posts for a live generation posts for the one in progress.      *)
LEMMA PostedCurrent ==
    ASSUME Lines, AllCurrent, NEW c \in Callers, call[c].state # "idle",
           Posted(c).id \notin disturbed
    PROVE  /\ gw.running /\ gw.gen = Posted(c).id
           /\ Chained(c) = gw.chain
           /\ Posted(c).mode = Mode /\ Posted(c).index = gw.index
           /\ c # Gateway => gw.chain /\ \A t \in 1 .. c : Passing(t)
<1>1. CASE c = Gateway
  <2>1. gw.running
    BY <1>1 DEF Lines, CallsFit
  <2> QED BY <1>1, <2>1 DEF Posted, Request, Chained, Mode
<1>2. CASE c # Gateway
  <2>1. /\ worker[c] \in WorkType /\ worker[c].state = "calling" /\ c \in Stages
        /\ WorkerFits(c, worker[c])
    BY <1>2, CallingWorker DEF Lines, Types
  <2>2. /\ Posted(c).id = worker[c].req.id /\ Posted(c).mode = worker[c].req.mode
        /\ Posted(c).index = worker[c].req.index
    BY <1>2, <2>1 DEF Posted, WorkType, RequestType
  <2>3. Current(c, worker[c])
    BY <2>1, <2>2, CallingCurrent
  <2>4. worker[c].chain /\ Chained(c) = TRUE
    BY <1>2, <2>1 DEF WorkerFits, Chained
  <2>5. gw.chain = TRUE
    BY <2>3, <2>4 DEF Current, Lines, Types, GenerationFits, GenerationType
  <2>6. ASSUME NEW t \in 1 .. c PROVE Passing(t)
    <3>1. t \in 1 .. c - 1 \/ t = c
      BY <2>1, StageNumbers
    <3> QED BY <2>1, <2>3, <2>5, <3>1 DEF Current, Passing
  <2> QED BY <2>2, <2>3, <2>4, <2>5, <2>6 DEF Current
<1> QED BY <1>1, <1>2

(* The others' calls are as they were when c's is over.                    *)
LEMMA ReleasedKept ==
    ASSUME Lines, NEW c \in Callers, call[c].state # "idle",
           NEW workers, Released(c, workers), WorkersFit(workers),
           NEW d \in Callers, d # c, call[d].state # "idle"
    PROVE  Kept(d)
<1>1. \A s \in Stages \ {c} : worker'[s] = workers[s]
  BY ReleasedWorkers
<1>2. call'[d] = call[d]
  BY DEF Released, Lines, Types
<1>3. d = Gateway => gw' = gw
  BY DEF Released
<1>4. ASSUME d # Gateway
      PROVE  worker'[d].req = worker[d].req /\ worker'[d].out = worker[d].out
  <2>1. d \in Stages /\ worker[d].state = "calling"
    BY <1>4, CallingWorker DEF Lines
  <2> QED BY <1>1, <2>1 DEF WorkersFit
<1> QED BY <1>2, <1>3, <1>4 DEF Kept

(* The jobs are the same whether or not c's worker has its answer already. *)
LEMMA ReleasedJobs ==
    ASSUME Lines, NEW c \in Callers, call[c].state # "idle",
           NEW workers, Released(c, workers), WorkersFit(workers), NEW s \in Stages
    PROVE  JobsAt(s)' = JobsWith(s, workers[s])
<1>1. /\ \A t \in Stages \ {c} : worker'[t] = workers[t]
      /\ c # Gateway =>
            /\ worker'[c].state # "idle"
            /\ worker'[c].req = workers[c].req
            /\ worker'[c].chain = workers[c].chain
            /\ worker'[c].from = workers[c].from
  BY ReleasedWorkers
<1>2. CASE s # c
  BY <1>1, <1>2 DEF JobsAt, JobsWith
<1>3. CASE s = c
  <2>1. c # Gateway
    BY <1>3 DEF Stages, Gateway
  <2>2. workers[c].state = "calling"
    BY <1>3, <2>1, CallingWorker DEF Lines, WorkersFit
  <2>3. AsJob(worker'[c]) = AsJob(workers[c])
    BY <1>1, <2>1 DEF AsJob
  <2> QED BY <1>1, <1>3, <2>1, <2>2, <2>3 DEF JobsAt, JobsWith, Jobs
<1> QED BY <1>2, <1>3

LEMMA ReleasedCurrent ==
    ASSUME Lines, AllCurrent, NEW c \in Callers, call[c].state # "idle",
           NEW workers, Released(c, workers), WorkersFit(workers),
           disturbed \subseteq disturbed',
           \A s \in Stages : /\ Mute(inbox'[s], queue'[s], workers[s], c)
                             /\ Stays(s, c, JobsWith(s, workers[s]))
    PROVE  AllCurrent'
<1> SUFFICES ASSUME NEW s \in Stages, NEW job \in JobsAt(s)', job.req.id \notin disturbed'
             PROVE  Current(s, job)'
  BY DEF AllCurrent
<1>1. \A t \in Stages : JobsAt(t)' = JobsWith(t, workers[t])
  BY ReleasedJobs
<1>2. /\ \A t \in Stages : \A x \in JobsAt(t)' : x.from # c
      /\ \A t \in Stages : \A x \in JobsAt(t)' : x \in JobsAt(t) \/ x.req.id \in disturbed'
  BY <1>1, MuteJobs DEF JobsWith, Stays
<1>3. job \in JobsAt(s) /\ Current(s, job) /\ job.from # c
  BY <1>2 DEF AllCurrent
<1>4. /\ \A t \in Stages \ {c} : worker'[t] = workers[t]
  BY ReleasedWorkers
<1>5. ASSUME NEW t \in Stages, t # c, Passing(t)
      PROVE  /\ worker'[t].state = "calling" /\ worker'[t].req.id = gw.gen
             /\ worker'[t].from # c /\ Current(t, worker'[t])
  <2>1. worker'[t] = workers[t] /\ workers[t].state = "calling" /\ workers[t].req = worker[t].req
    BY <1>4, <1>5 DEF Passing, WorkersFit
  <2>2. AsJob(worker'[t]) \in JobsAt(t)'
    BY <2>1 DEF JobsAt, Jobs
  <2>3. /\ AsJob(worker'[t]).req = worker'[t].req /\ AsJob(worker'[t]).from = worker'[t].from
        /\ AsJob(worker'[t]).chain = worker'[t].chain
    BY DEF AsJob
  <2>4. worker'[t].req.id = gw.gen /\ gw.gen \notin disturbed'
    BY <1>3, <1>5, <2>1 DEF Current, Passing
  <2>5. Current(t, AsJob(worker'[t])) /\ AsJob(worker'[t]).from # c
    BY <1>2, <2>2, <2>3, <2>4 DEF AllCurrent
  <2> QED BY <2>1, <2>3, <2>4, <2>5 DEF Current
<1>6. s \in Nat /\ s >= 1 /\ c \in Nat
  BY StageNumbers DEF Stages
<1>7. CASE c = Gateway
  <2>1. gw.chain = TRUE /\ job.from = s - 1 /\ \A t \in 1 .. s - 1 : Passing(t)
    BY <1>3, <1>7 DEF Current, Lines, Types, GenerationFits, GenerationType
  <2>2. s >= 2
    BY <1>3, <1>6, <1>7, <2>1 DEF Gateway
  <2>3. 1 \in Stages /\ 1 # c /\ Passing(1)
    BY <1>6, <1>7, <2>1, <2>2, StageNumbers DEF Gateway
  <2>4. worker'[1].from # c /\ Current(1, worker'[1])
    BY <1>5, <2>3
  <2>5. worker'[1].from = 1 - 1
    BY <2>1, <2>4 DEF Current
  <2> QED BY <1>7, <2>4, <2>5 DEF Gateway
<1>8. CASE c # Gateway
  <2>1. gw' = gw
    BY <1>8 DEF Released
  <2>2. ASSUME gw.chain, NEW t \in 1 .. s - 1 PROVE Passing(t)'
    <3>1. t \in Stages /\ Passing(t)
      BY <1>3, <2>2, StageNumbers DEF Current, Stages
    <3>2. CASE t # c
      BY <1>5, <2>1, <3>1, <3>2 DEF Passing
    <3>3. CASE t = c
      <4>1. job.from = s - 1 /\ s - 1 # c
        BY <1>3, <2>2 DEF Current
      <4>2. c + 1 \in 1 .. s - 1 /\ c + 1 \in Stages /\ c + 1 # c
        <5>1. /\ c \in Nat /\ c \in 1 .. s - 1 /\ s - 1 # c
              /\ s \in 1 .. NumStages /\ NumStages \in Nat
          BY <1>6, <2>2, <3>3, <4>1, PipelineAssumption DEF Stages, PipelineAssumption
        <5>2. c + 1 \in 1 .. s - 1 /\ c + 1 \in 1 .. NumStages /\ c + 1 # c
          BY ONLY <5>1
        <5> QED BY <5>2 DEF Stages
      <4>3. Passing(c + 1)
        BY <1>3, <2>2, <4>2 DEF Current
      <4>4. worker'[c + 1].from # c /\ Current(c + 1, worker'[c + 1])
        BY <1>5, <4>2, <4>3
      <4>5. worker'[c + 1].from = (c + 1) - 1
        BY <2>2, <4>4 DEF Current
      <4> QED BY <1>6, <4>4, <4>5
    <3> QED BY <3>2, <3>3
  <2> QED BY <1>3, <2>1, <2>2 DEF Current, Mode
<1> QED BY <1>7, <1>8

LEMMA ReleasedLost ==
    ASSUME Lines, NoneLost, NEW c \in Callers, call[c].state # "idle",
           NEW workers, Released(c, workers), WorkersFit(workers),
           disturbed \subseteq disturbed',
           \A s \in Stages : Stays(s, c, JobsWith(s, workers[s]))
    PROVE  NoneLost'
<1> SUFFICES ASSUME NEW d \in Callers, call'[d].state = "wait", Posted(d)'.id \notin disturbed'
             PROVE  \E job \in JobsAt(Target(d))' : job.from = d
  BY DEF NoneLost
<1>1. d # c
  BY DEF Released
<1>2. call'[d] = call[d]
  BY <1>1 DEF Released, Lines, Types
<1>3. Kept(d)
  BY <1>1, <1>2, ReleasedKept
<1>4. Target(d)' = Target(d) /\ Posted(d)' = Posted(d)
  BY <1>3, KeptCall
<1>5. PICK job \in JobsAt(Target(d)) : job.from = d
  BY <1>2, <1>4 DEF NoneLost
<1>6. Target(d) \in Stages
  BY TargetStage DEF Lines
<1>7. Expected(Target(d), job)
  BY <1>6 DEF Lines, AllExpected
<1>8. job.req = Posted(d)
  BY <1>5, <1>7 DEF Expected
<1>9. job \in JobsWith(Target(d), workers[Target(d)])
  BY <1>1, <1>4, <1>5, <1>6, <1>8 DEF Stays
<1>10. job \in JobsAt(Target(d))'
  <2>1. PICK s : s = Target(d)
    OBVIOUS
  <2>2. JobsAt(s)' = JobsWith(s, workers[s])
    BY <1>6, <2>1, ReleasedJobs
  <2> QED BY <1>4, <1>9, <2>1, <2>2 DEF JobsAt
<1> QED BY <1>5, <1>10
(* A step that ends no call keeps the live requests.                       *)
LEMMA PlainCurrent ==
    ASSUME AllCurrent, gw' = gw, disturbed \subseteq disturbed',
           \A t \in Stages : worker[t].state = "calling" =>
                                worker'[t].state = "calling" /\ worker'[t].req = worker[t].req,
           \A s \in Stages : Stays(s, Nobody, JobsAt(s)')
    PROVE  AllCurrent'
<1> SUFFICES ASSUME NEW s \in Stages, NEW job \in JobsAt(s)', job.req.id \notin disturbed'
             PROVE  Current(s, job)'
  BY DEF AllCurrent
<1>1. job \in JobsAt(s) /\ Current(s, job)
  BY DEF Stays, AllCurrent
<1>2. ASSUME gw.chain, NEW t \in 1 .. s - 1 PROVE Passing(t)'
  <2>1. t \in Stages
    BY PipelineAssumption DEF PipelineAssumption, Stages
  <2>2. Passing(t)
    BY <1>1, <1>2 DEF Current
  <2> QED BY <2>1, <2>2 DEF Passing
<1> QED BY <1>1, <1>2 DEF Current, Mode

LEMMA PlainLost ==
    ASSUME Lines, NoneLost, gw' = gw, disturbed \subseteq disturbed',
           \A c \in Callers : call'[c] = call[c] \/ call'[c].state # "wait",
           \A t \in Stages : worker[t].state = "calling" =>
                                worker'[t].req = worker[t].req /\ worker'[t].out = worker[t].out,
           \A s \in Stages : Stays(s, Nobody, JobsAt(s)')
    PROVE  NoneLost'
<1> SUFFICES ASSUME NEW d \in Callers, call'[d].state = "wait", Posted(d)'.id \notin disturbed'
             PROVE  \E job \in JobsAt(Target(d))' : job.from = d
  BY DEF NoneLost
<1>1. call'[d] = call[d]
  OBVIOUS
<1>2. ASSUME d # Gateway
      PROVE  worker'[d].req = worker[d].req /\ worker'[d].out = worker[d].out
  <2>1. d \in Stages /\ worker[d].state = "calling"
    BY <1>1, <1>2, CallingWorker DEF Lines
  <2> QED BY <2>1
<1>3. Target(d)' = Target(d) /\ Posted(d)' = Posted(d)
  BY <1>1, <1>2, KeptCall DEF Kept
<1>4. PICK s : s = Target(d)
  OBVIOUS
<1>5. PICK job \in JobsAt(s) : job.from = d
  BY <1>1, <1>3, <1>4 DEF NoneLost
<1>6. s \in Stages /\ d # Nobody
  BY <1>4, TargetStage, StageNumbers DEF Lines
<1>7. job.req = Posted(d)
  BY <1>5, <1>6 DEF Lines, AllExpected, Expected
<1>8. job \in JobsAt(s)'
  BY <1>3, <1>5, <1>6, <1>7 DEF Stays
<1> QED BY <1>3, <1>4, <1>5, <1>8 DEF JobsAt

(* A step after which no request is live                                   *)
LEMMA NoLive ==
    ASSUME Lines', call'[Gateway].state = "wait" => gw'.gen \in disturbed',
           \A s \in Stages : \A job \in JobsAt(s)' : job.req.id \in disturbed'
    PROVE  AllCurrent' /\ NoneLost'
<1>1. AllCurrent'
  BY DEF AllCurrent
<1>2. ASSUME NEW c \in Callers, call'[c].state = "wait", Posted(c)'.id \notin disturbed'
      PROVE  FALSE
  <2>1. CASE c = Gateway
    BY <1>2, <2>1 DEF Posted, Request
  <2>2. CASE c # Gateway
    <3>1. c \in Stages /\ worker'[c].state = "calling"
      BY <1>2, <2>2, StageNumbers DEF Lines, CallsFit
    <3>2. worker'[c] \in WorkType
      BY <3>1, IdleIsNoWork DEF Lines, Types, WorkerFits
    <3>3. Posted(c)'.id = worker'[c].req.id
      BY <2>2, <3>2 DEF Posted, WorkType, RequestType
    <3>4. AsJob(worker'[c]) \in JobsAt(c)' /\ AsJob(worker'[c]).req = worker'[c].req
      BY <3>1 DEF JobsAt, Jobs, AsJob
    <3> QED BY <1>2, <3>1, <3>3, <3>4
  <2> QED BY <2>1, <2>2
<1>3. NoneLost'
  BY <1>2 DEF NoneLost
<1> QED BY <1>1, <1>3

(* What a stage has of a call that was given up                            *)

LEMMA SendLive ==
    ASSUME Lines, AllCurrent, NoneLost, NEW c \in Callers, Send(c)
    PROVE  /\ AllCurrent' /\ NoneLost'
           /\ \A s \in Stages :
                 JobsAt(s)' = IF s = Target(c) THEN JobsAt(s) \cup {Job(c)} ELSE JobsAt(s)
<1>1. PICK s0, job : s0 = Target(c) /\ job = Job(c)
  OBVIOUS
<1>2. /\ call[c].state = "send"
      /\ call' = [call EXCEPT ![c].state = "wait"]
      /\ inbox' = [inbox EXCEPT ![s0] = Append(inbox[s0], job)]
      /\ UNCHANGED <<gw, outcome, tokens, queue, worker, sessions, unread, faults, disturbed>>
  BY <1>1 DEF Send
<1>3. s0 \in Stages /\ inbox \in [Stages -> Seq(JobType)] /\ call \in [Callers -> CallType]
  BY <1>1, TargetStage DEF Lines, Types
<1>4. /\ job \in JobType /\ job.req = Posted(c) /\ job.chain = Chained(c) /\ job.from = c
  BY <1>1, <1>2, JobIsJob DEF Lines
<1>5. ToSet(Append(inbox[s0], job)) = ToSet(inbox[s0]) \cup {job}
  BY <1>3, <1>4, AppendShape
<1>6. \A s \in Stages : JobsAt(s)' = IF s = s0 THEN JobsAt(s) \cup {job} ELSE JobsAt(s)
  BY <1>2, <1>3, <1>5 DEF JobsAt, Jobs
<1>7. ASSUME NEW s \in Stages, NEW x \in JobsAt(s)', x.req.id \notin disturbed'
      PROVE  Current(s, x)'
  <2>1. CASE x \in JobsAt(s)
    <3>1. Current(s, x)
      BY <1>2, <1>7, <2>1 DEF AllCurrent
    <3> QED BY <1>2, <3>1 DEF Current, Mode, Passing
  <2>2. CASE s = s0 /\ x = job
    <3>1. /\ gw.running /\ gw.gen = Posted(c).id /\ Chained(c) = gw.chain
          /\ Posted(c).mode = Mode /\ Posted(c).index = gw.index
          /\ c # Gateway => gw.chain /\ \A t \in 1 .. c : Passing(t)
      BY <1>2, <1>4, <1>7, <2>2, PostedCurrent
    <3>2. c \in Nat
      BY StageNumbers
    <3>3. ASSUME gw.chain PROVE c = s - 1
      <4>1. CASE c = Gateway
        BY <1>1, <2>2, <3>1, <3>3, <4>1 DEF Lines, Types, GenerationFits, Target, Gateway
      <4>2. CASE c # Gateway
        BY <1>1, <2>2, <3>2, <4>2 DEF Target
      <4> QED BY <4>1, <4>2
    <3>4. ASSUME gw.chain, NEW t \in 1 .. s - 1 PROVE Passing(t)
      BY <3>1, <3>3, <3>4 DEF Gateway
    <3>5. Current(s, x)
      BY <1>4, <2>2, <3>1, <3>2, <3>3, <3>4 DEF Current
    <3> QED BY <1>2, <3>5 DEF Current, Mode, Passing
  <2> QED BY <1>6, <1>7, <2>1, <2>2
<1>8. ASSUME NEW d \in Callers, call'[d].state = "wait", Posted(d)'.id \notin disturbed'
      PROVE  \E x \in JobsAt(Target(d))' : x.from = d
  <2>1. Target(d)' = Target(d) /\ Posted(d)' = Posted(d)
    BY <1>2 DEF Target, Posted
  <2>2. Target(d) \in Stages
    BY TargetStage DEF Lines
  <2>3. CASE d = c
    <3>1. job \in JobsAt(s0)'
      BY <1>3, <1>6
    <3> QED BY <1>1, <1>4, <2>1, <2>3, <3>1 DEF JobsAt
  <2>4. CASE d # c
    <3>1. call[d].state = "wait"
      BY <1>2, <1>3, <1>8, <2>4
    <3>2. PICK s : s = Target(d)
      OBVIOUS
    <3>3. PICK x \in JobsAt(s) : x.from = d
      BY <1>2, <1>8, <2>1, <3>1, <3>2 DEF NoneLost
    <3>4. x \in JobsAt(s)'
      BY <1>6, <2>2, <3>2, <3>3
    <3> QED BY <2>1, <3>2, <3>3, <3>4 DEF JobsAt
  <2> QED BY <2>3, <2>4
<1> QED BY <1>1, <1>6, <1>7, <1>8 DEF AllCurrent, NoneLost

LEMMA RemoveSet ==
    ASSUME NEW T, NEW line \in Seq(T), NEW i \in DOMAIN line
    PROVE  ToSet(line) \subseteq ToSet(RemoveAt(line, i)) \cup {line[i]}
<1> DEFINE new == RemoveAt(line, i)
           n == Len(line)
<1>1. /\ n \in Nat /\ i \in 1 .. n /\ DOMAIN line = 1 .. n
      /\ new \in Seq(T) /\ Len(new) = n - 1
      /\ \A j \in 1 .. n - 1 : new[j] = line[IF j < i THEN j ELSE j + 1]
  BY RemoveShape
<1>2. DOMAIN new = 1 .. n - 1
  BY <1>1
<1> HIDE DEF new, n
<1>3. ASSUME NEW k \in 1 .. n, k # i PROVE \E j \in 1 .. n - 1 : new[j] = line[k]
  <2>1. CASE k < i
    <3>1. k \in 1 .. n - 1 /\ new[k] = line[k]
      BY <1>1, <1>3, <2>1
    <3> QED BY <3>1
  <2>2. CASE ~(k < i)
    <3>1. k - 1 \in 1 .. n - 1 /\ ~(k - 1 < i) /\ (k - 1) + 1 = k
      BY <1>1, <1>3, <2>2
    <3>2. new[k - 1] = line[k]
      BY <1>1, <3>1
    <3> QED BY <3>1, <3>2
  <2> QED BY <2>1, <2>2
<1>4. ASSUME NEW x \in ToSet(line) PROVE x \in ToSet(new) \cup {line[i]}
  <2>1. PICK k \in 1 .. n : x = line[k]
    BY <1>1 DEF ToSet
  <2>2. CASE k = i
    BY <2>1, <2>2
  <2>3. CASE k # i
    <3>1. PICK j \in 1 .. n - 1 : new[j] = line[k]
      BY <1>3, <2>3
    <3> QED BY <1>2, <2>1, <3>1 DEF ToSet
  <2> QED BY <2>2, <2>3
<1> QED BY <1>4 DEF new

LEMMA TailKeeps ==
    ASSUME NEW T, NEW line \in Seq(T), line # <<>>
    PROVE  ToSet(line) = ToSet(Tail(line)) \cup {Head(line)}
<1> DEFINE n == Len(line)
           new == Tail(line)
<1>1. n \in Nat /\ n > 0 /\ DOMAIN line = 1 .. n
  OBVIOUS
<1>2. /\ new \in Seq(T) /\ Len(new) = n - 1 /\ Head(line) = line[1] /\ line[1] \in T
      /\ \A i \in 1 .. n - 1 : new[i] = line[i + 1]
  BY <1>1, HeadTailProperties
<1>3. DOMAIN new = 1 .. n - 1
  BY <1>1, <1>2
<1> HIDE DEF new, n
<1>4. ASSUME NEW k \in 1 .. n, k # 1 PROVE k - 1 \in 1 .. n - 1 /\ new[k - 1] = line[k]
  <2>1. k - 1 \in 1 .. n - 1 /\ (k - 1) + 1 = k
    BY <1>1, <1>4
  <2> QED BY <1>2, <2>1
<1>5. \A j \in 1 .. n - 1 : j + 1 \in 1 .. n
  BY <1>1
<1>6. ASSUME NEW x \in ToSet(line) PROVE x \in ToSet(new) \cup {Head(line)}
  <2>1. PICK k \in 1 .. n : x = line[k]
    BY <1>1 DEF ToSet
  <2>2. CASE k = 1
    BY <1>2, <2>1, <2>2
  <2>3. CASE k # 1
    BY <1>3, <1>4, <2>1, <2>3 DEF ToSet
  <2> QED BY <2>2, <2>3
<1>7. ToSet(new) \cup {Head(line)} \subseteq ToSet(line)
  BY <1>1, <1>2, <1>3, <1>5 DEF ToSet
<1> QED BY <1>6, <1>7 DEF new

(* c's call is over and nothing else of what is live has changed.          *)
Releases(c, workers) ==
    /\ c \in Callers /\ call[c].state # "idle"
    /\ Released(c, workers) /\ WorkersFit(workers)
    /\ disturbed \subseteq disturbed'
    /\ \A s \in Stages : /\ Mute(inbox'[s], queue'[s], workers[s], c)
                         /\ Stays(s, c, JobsWith(s, workers[s]))

LEMMA ReleasesLive ==
    ASSUME Lines, AllCurrent, NoneLost, NEW c, NEW workers, Releases(c, workers)
    PROVE  AllCurrent' /\ NoneLost'
<1>1. /\ c \in Callers /\ call[c].state # "idle"
      /\ Released(c, workers) /\ WorkersFit(workers)
      /\ disturbed \subseteq disturbed'
      /\ \A s \in Stages : /\ Mute(inbox'[s], queue'[s], workers[s], c)
                           /\ Stays(s, c, JobsWith(s, workers[s]))
  BY DEF Releases
<1> QED BY <1>1, ReleasedCurrent, ReleasedLost

(* Nobody waits for what is not live.                                      *)
LEMMA LateDisturbed ==
    ASSUME AllCurrent, NEW s \in Stages, NEW job \in JobsAt(s), job.from \notin Callers
    PROVE  job.req.id \in disturbed
  BY DEF AllCurrent, Current

LEMMA StaysIf ==
    ASSUME Lines, AllCurrent, NEW c \in Callers, NEW s \in Stages, NEW jobs,
           disturbed \subseteq disturbed',
           \A x \in jobs : \E y \in JobsAt(s) :
               /\ x.req = y.req
               /\ x = y \/ y.from = Late \/ (y.from = c /\ Posted(c).id \in disturbed'),
           \A y \in JobsAt(s) : y \in jobs \/ y.from = c \/ y.from = Late
    PROVE  Stays(s, c, jobs)
<1>1. \A y \in JobsAt(s) : y.from = Late => y.req.id \in disturbed'
  BY LateDisturbed, StageNumbers
<1>2. \A y \in JobsAt(s) : y.from = c => y.req = Posted(c)
  BY DEF Lines, AllExpected, Expected
<1>3. ASSUME NEW x \in jobs PROVE x \in JobsAt(s) \/ x.req.id \in disturbed'
  <2>1. PICK y \in JobsAt(s) :
           /\ x.req = y.req
           /\ x = y \/ y.from = Late \/ (y.from = c /\ Posted(c).id \in disturbed')
    OBVIOUS
  <2> QED BY <1>1, <1>2, <2>1
<1> QED BY <1>1, <1>3 DEF Stays

(* What a stage has of the requests of a call that is over                 *)
LEMMA DropsJobs ==
    ASSUME NEW in \in Seq(JobType), NEW line \in Seq(JobType), NEW w \in {Idle} \cup WorkType,
           NEW c \in Callers, NEW in2, NEW line2, NEW w2,
           LineDrops(in, c, in2), LineDrops(line, c, line2), WorkerDrops(w, c, w2)
    PROVE  /\ \A x \in Jobs(in2, line2, w2) : \E y \in Jobs(in, line, w) :
                 /\ x.req = y.req
                 /\ x = y \/ y.from = Late \/ y.from = c
           /\ \A y \in Jobs(in, line, w) :
                 y \in Jobs(in2, line2, w2) \/ y.from = c \/ y.from = Late
<1>1. ASSUME NEW old \in JobType, NEW new \in JobType, Drops(old, c, new)
      PROVE  new.req = old.req /\ (new = old \/ old.from = Late \/ old.from = c)
  BY <1>1 DEF Drops, JobType
<1>2. ASSUME NEW old \in Seq(JobType), NEW new, LineDrops(old, c, new)
      PROVE  /\ \A x \in ToSet(new) : \E y \in ToSet(old) :
                   x.req = y.req /\ (x = y \/ y.from = Late \/ y.from = c)
             /\ \A y \in ToSet(old) : y \in ToSet(new) \/ y.from = c \/ y.from = Late
  <2>1. PICK n \in Nat : n = Len(old)
    OBVIOUS
  <2>2. /\ DOMAIN old = 1 .. n /\ DOMAIN new = 1 .. n
        /\ \A i \in 1 .. n : old[i] \in JobType /\ new[i] \in JobType /\ Drops(old[i], c, new[i])
    BY <1>2, <2>1 DEF LineDrops
  <2>3. \A i \in 1 .. n : /\ new[i].req = old[i].req
                          /\ new[i] = old[i] \/ old[i].from = Late \/ old[i].from = c
    BY <1>1, <2>2
  <2> QED BY <2>2, <2>3 DEF ToSet
<1>3. /\ \A x \in ToSet(in2) : \E y \in ToSet(in) :
            x.req = y.req /\ (x = y \/ y.from = Late \/ y.from = c)
      /\ \A y \in ToSet(in) : y \in ToSet(in2) \/ y.from = c \/ y.from = Late
  BY <1>2
<1>4. /\ \A x \in ToSet(line2) : \E y \in ToSet(line) :
            x.req = y.req /\ (x = y \/ y.from = Late \/ y.from = c)
      /\ \A y \in ToSet(line) : y \in ToSet(line2) \/ y.from = c \/ y.from = Late
  BY <1>2
<1>5. CASE w.state = "idle"
  <2>1. w2.state = "idle"
    BY <1>5 DEF WorkerDrops
  <2> QED BY <1>3, <1>4, <1>5, <2>1 DEF Jobs
<1>6. CASE w.state # "idle"
  <2>1. /\ w2.state # "idle"
        /\ AsJob(w) \in JobType /\ AsJob(w2) \in JobType /\ Drops(AsJob(w), c, AsJob(w2))
    <3>1. w \in WorkType /\ w2 \in WorkType /\ w2.state = w.state /\ Drops(w, c, w2)
      BY <1>6, IdleIsNoWork DEF WorkerDrops
    <3>2. AsJob(w) \in JobType /\ AsJob(w2) \in JobType
      BY <3>1 DEF AsJob, WorkType, JobType
    <3>3. Drops(AsJob(w), c, AsJob(w2))
      BY <3>1 DEF AsJob, Drops
    <3> QED BY <1>6, <3>1, <3>2, <3>3
  <2>2. /\ AsJob(w2).req = AsJob(w).req
        /\ AsJob(w2) = AsJob(w) \/ AsJob(w).from = Late \/ AsJob(w).from = c
    BY <1>1, <2>1
  <2>3. /\ \A x \in Jobs(in2, line2, w2) :
              x \in ToSet(in2) \/ x \in ToSet(line2) \/ x = AsJob(w2)
        /\ \A y \in Jobs(in, line, w) : y \in ToSet(in) \/ y \in ToSet(line) \/ y = AsJob(w)
        /\ ToSet(in) \subseteq Jobs(in, line, w) /\ ToSet(line) \subseteq Jobs(in, line, w)
        /\ AsJob(w) \in Jobs(in, line, w)
        /\ ToSet(in2) \subseteq Jobs(in2, line2, w2) /\ ToSet(line2) \subseteq Jobs(in2, line2, w2)
        /\ AsJob(w2) \in Jobs(in2, line2, w2)
    BY <1>6, <2>1 DEF Jobs
  <2>4. ASSUME NEW x \in Jobs(in2, line2, w2)
        PROVE  \E y \in Jobs(in, line, w) :
                  x.req = y.req /\ (x = y \/ y.from = Late \/ y.from = c)
    BY <1>3, <1>4, <2>2, <2>3
  <2>5. ASSUME NEW y \in Jobs(in, line, w)
        PROVE  y \in Jobs(in2, line2, w2) \/ y.from = c \/ y.from = Late
    BY <1>3, <1>4, <2>2, <2>3
  <2> QED BY <2>4, <2>5
<1> QED BY <1>5, <1>6

(* The call of c ends at the stage it is for, where c's request was, and   *)
(* elsewhere nothing happens to requests.                                  *)
LEMMA EndsReleases ==
    ASSUME Lines, AllCurrent, NEW c \in Callers, NEW workers, Ends(c, workers),
           disturbed \subseteq disturbed',
           \A s \in Stages :
               \/ inbox'[s] = inbox[s] /\ queue'[s] = queue[s] /\ workers[s] = worker[s]
               \/ Stays(s, c, JobsWith(s, workers[s]))
    PROVE  Releases(c, workers)
<1>1. ASSUME NEW s \in Stages PROVE Stays(s, c, JobsWith(s, workers[s]))
  BY DEF Stays, JobsWith, JobsAt
<1> QED BY <1>1 DEF Ends, Releases

(* What an abandoned call leaves where its request was                     *)
LeavesAt(c, workers) ==
    /\ DropsAt(Target(c), c, workers)
    /\ \A s \in Stages \ {Target(c)} :
          inbox'[s] = inbox[s] /\ queue'[s] = queue[s] /\ workers[s] = worker[s]

(* SendFails and Timeout                                                   *)
LEMMA AbandonsReleases ==
    ASSUME Lines, AllCurrent, NEW c \in Callers, call[c].state # "idle", Abandons(c),
           UNCHANGED <<tokens, sessions>>, disturbed' \subseteq Requests,
           disturbed \subseteq disturbed',
           call[c].state = "wait" => Posted(c).id \in disturbed'
    PROVE  \E workers : Releases(c, workers) /\ AttemptFails(c, workers) /\ LeavesAt(c, workers)
<1>1. PICK s0 : s0 = Target(c)
  OBVIOUS
<1>2. PICK workers :
        /\ Ends(c, workers) /\ DropsAt(s0, c, workers) /\ AttemptFails(c, workers)
        /\ \A s \in Stages \ {s0} :
              inbox'[s] = inbox[s] /\ queue'[s] = queue[s] /\ workers[s] = worker[s]
  BY <1>1, AbandonsEnds
<1>3. s0 \in Stages
  BY <1>1, TargetStage DEF Lines
<1>4. Stays(s0, c, JobsWith(s0, workers[s0]))
  <2>1. /\ worker[s0] \in {Idle} \cup WorkType
        /\ inbox[s0] \in Seq(JobType) /\ queue[s0] \in Seq(JobType)
    BY <1>3 DEF Lines, Types, WorkerFits
  <2>2. /\ \A x \in JobsWith(s0, workers[s0]) : \E y \in JobsAt(s0) :
              x.req = y.req /\ (x = y \/ y.from = Late \/ y.from = c)
        /\ \A y \in JobsAt(s0) :
              y \in JobsWith(s0, workers[s0]) \/ y.from = c \/ y.from = Late
    BY <1>2, <2>1, DropsJobs DEF DropsAt, JobsAt, JobsWith
  <2>3. \A y \in JobsAt(s0) : y.from = c => call[c].state = "wait"
    BY <1>3 DEF Lines, AllExpected, Expected
  <2> QED BY <1>3, <2>2, <2>3, StaysIf
<1>5. Releases(c, workers)
  BY <1>2, <1>4, EndsReleases
<1>6. LeavesAt(c, workers)
  BY <1>1, <1>2 DEF LeavesAt
<1> QED BY <1>2, <1>5, <1>6

LEMMA SendFailsReleases ==
    ASSUME Lines, AllCurrent, NEW c \in Callers, SendFails(c)
    PROVE  \E workers : Releases(c, workers) /\ AttemptFails(c, workers) /\ LeavesAt(c, workers)
<1>1. /\ call[c].state = "send" /\ Abandons(c)
      /\ UNCHANGED <<tokens, sessions, disturbed>>
  BY DEF SendFails
<1>2. disturbed' \subseteq Requests
  BY <1>1 DEF Lines, Types
<1> QED BY <1>1, <1>2, AbandonsReleases

LEMMA TimeoutReleases ==
    ASSUME Lines, AllCurrent, NEW c \in Callers, Timeout(c)
    PROVE  \E workers : Releases(c, workers) /\ AttemptFails(c, workers) /\ LeavesAt(c, workers)
<1>1. /\ call[c].state = "wait" /\ Abandons(c)
      /\ disturbed' = disturbed \cup {Posted(c).id}
      /\ UNCHANGED <<tokens, sessions>>
  BY DEF Timeout
<1>2. Posted(c).id \in Requests
  BY <1>1, JobIsJob DEF Lines, JobType, RequestType
<1>3. disturbed' \subseteq Requests /\ call[c].state # "idle"
  BY <1>1, <1>2 DEF Lines, Types
<1> QED BY <1>1, <1>3, AbandonsReleases

LEMMA ConnectionLostReleases ==
    ASSUME Lines, AllCurrent, NEW c \in Callers, ConnectionLost(c)
    PROVE  /\ Releases(c, worker)
           /\ \A job \in JobsAt(Target(c)) : job.from # c
<1>1. ~Pending(c) /\ UNCHANGED <<inbox, queue, disturbed>>
  BY DEF ConnectionLost
<1>2. MuteAt(Target(c), c)
  BY <1>1, PendingMute
<1>3. PICK s : s = Target(c)
  OBVIOUS
<1>4. \A job \in JobsAt(s) : job.from # c
  BY <1>2, <1>3, MuteJobs DEF MuteAt, JobsAt
<1>5. Ends(c, worker)
  BY ConnectionLostEnds
<1> QED BY <1>1, <1>3, <1>4, <1>5, EndsReleases

LEMMA ReadsLateReleases ==
    ASSUME Lines, AllCurrent, NEW c \in Callers, SendAndReadLate(c)
    PROVE  /\ Releases(c, worker) /\ c # Gateway /\ call[c].state = "send"
           /\ disturbed' = disturbed \cup {Posted(c).id}
           /\ UNCHANGED <<gw, outcome, tokens, sessions>>
<1>1. /\ c # Gateway /\ queue' = queue /\ sessions' = sessions /\ call[c].state = "send"
      /\ disturbed' = disturbed \cup {Posted(c).id}
  BY DEF SendAndReadLate
<1>2. PICK answer \in unread[c + 1], job \in JobType :
        /\ job.from = Late /\ job.req = Posted(c)
        /\ inbox' = IF answer.open
                    THEN [inbox EXCEPT ![c + 1] = Append(inbox[c + 1], job)]
                    ELSE inbox
        /\ CallerGets(c, answer.id, answer.status, answer.out, worker)
  BY ReadsLateShape
<1>3. c + 1 \in Stages /\ inbox \in [Stages -> Seq(JobType)]
  BY StageNumbers DEF Lines, Types
<1>4. /\ \A s \in Stages \ {c + 1} : inbox'[s] = inbox[s]
      /\ inbox'[c + 1] = inbox[c + 1] \/ inbox'[c + 1] = Append(inbox[c + 1], job)
  BY <1>2, <1>3
<1>5. inbox'[c + 1] = inbox[c + 1] \/ Stays(c + 1, c, JobsWith(c + 1, worker[c + 1]))
  <2>1. CASE inbox'[c + 1] = Append(inbox[c + 1], job)
    <3>1. ToSet(inbox'[c + 1]) = ToSet(inbox[c + 1]) \cup {job}
      BY <1>3, <2>1, AppendShape
    <3>2. JobsWith(c + 1, worker[c + 1]) = JobsAt(c + 1) \cup {job}
      BY <1>1, <3>1 DEF JobsWith, JobsAt, Jobs
    <3> QED BY <1>1, <1>2, <3>2 DEF Stays
  <2> QED BY <1>4, <2>1
<1>6. Ends(c, worker)
  BY ReadsLateEnds
<1>7. Releases(c, worker)
  BY <1>1, <1>4, <1>5, <1>6, EndsReleases
<1>8. UNCHANGED <<gw, outcome, tokens>>
  BY <1>1, <1>2 DEF CallerGets
<1> QED BY <1>1, <1>7, <1>8

(* A request that finds the queue full, or whose answer is ready, leaves   *)
(* the stage.                                                              *)
LEMMA SubmitJob ==
    ASSUME Lines, NEW s \in Stages, NEW i \in DOMAIN inbox[s], NEW in, in = RemoveAt(inbox[s], i)
    PROVE  /\ inbox[s][i] \in JobsAt(s) /\ inbox[s][i] \in JobType
           /\ inbox[s][i] \in ToSet(inbox[s])
           /\ inbox[s] \in Seq(JobType) /\ queue[s] \in Seq(JobType) /\ in \in Seq(JobType)
           /\ ToSet(in) \subseteq ToSet(inbox[s])
           /\ ToSet(inbox[s]) \subseteq ToSet(in) \cup {inbox[s][i]}
<1>1. inbox[s] \in Seq(JobType) /\ queue[s] \in Seq(JobType)
  BY DEF Lines, Types
<1>2. inbox[s][i] \in ToSet(inbox[s]) /\ inbox[s][i] \in JobType
  BY <1>1 DEF ToSet
<1> QED BY <1>1, <1>2, RemoveShape, RemoveLine, RemoveSet DEF JobsAt, Jobs

(* The answer to a request is read, and what the stage has of the reader   *)
(* besides is late.                                                        *)
LEMMA HeardStays ==
    ASSUME Lines, Owed, AllCurrent, NEW s \in Stages, NEW job \in JobsAt(s), Heard(s, job),
           NEW c, c = Reader(s, job), NEW in \in Seq(JobType), NEW w \in {Idle} \cup WorkType,
           NEW w0, w0 = w,
           Jobs(in, queue[s], w) \subseteq JobsAt(s),
           JobsAt(s) \subseteq Jobs(in, queue[s], w) \cup {job},
           Silent(queue[s], c), ~Hearing(w, c),
           inbox'[s] = NowLate(in, s, job), LineDrops(in, c, inbox'[s]), queue'[s] = queue[s],
           disturbed' = IF job.from = Late THEN disturbed \cup {Posted(c).id} ELSE disturbed
    PROVE  Stays(s, c, JobsWith(s, w))
<1>1. c \in Callers /\ (job.from = Late \/ job.from = c)
  BY ReaderWaits
<1>2. queue[s] \in Seq(JobType) /\ disturbed \subseteq disturbed'
  BY DEF Lines, Types
<1>3. CASE job.from = Late
  <2>1. LineDrops(queue[s], c, queue[s])
    BY <1>1, <1>2, ClosedLine
  <2>2. WorkerDrops(w, c, w)
    BY <1>1, IdleIsNoWork DEF WorkerDrops, Drops, Hearing
  <2>3. /\ \A x \in JobsWith(s, w) : \E y \in Jobs(in, queue[s], w) :
              x.req = y.req /\ (x = y \/ y.from = Late \/ y.from = c)
        /\ \A y \in Jobs(in, queue[s], w) : y \in JobsWith(s, w) \/ y.from = c \/ y.from = Late
    BY <1>1, <1>2, <2>1, <2>2, DropsJobs DEF JobsWith
  <2>4. Posted(c).id \in disturbed'
    BY <1>3
  <2>5. \A x \in JobsWith(s, w) : \E y \in JobsAt(s) :
           /\ x.req = y.req
           /\ x = y \/ y.from = Late \/ (y.from = c /\ Posted(c).id \in disturbed')
    BY <2>3, <2>4
  <2>6. \A y \in JobsAt(s) : y \in JobsWith(s, w) \/ y.from = c \/ y.from = Late
    BY <1>3, <2>3
  <2> QED BY <1>1, <1>2, <2>5, <2>6, StaysIf
<1>4. CASE job.from # Late
  <2>1. inbox'[s] = in /\ job.from = c
    BY <1>1, <1>4 DEF NowLate, Overtaken
  <2>2. JobsWith(s, w) = Jobs(in, queue[s], w)
    BY <2>1 DEF JobsWith
  <2> QED BY <2>1, <2>2 DEF Stays
<1> QED BY <1>3, <1>4

LEMMA RefusedReleases ==
    ASSUME Lines, Owed, AllCurrent, NEW s \in Stages, NEW i \in DOMAIN inbox[s], Submit(s, i),
           ~(Len(queue[s]) < QueueSize), Heard(s, inbox[s][i]), NEW c, c = Reader(s, inbox[s][i])
    PROVE  /\ Releases(c, worker) /\ call[c].state = "wait"
           /\ CallerGets(c, inbox[s][i].req.id, 429, <<>>, worker)
           /\ UNCHANGED <<queue, sessions>>
           /\ inbox[s][i].from = Late => Posted(c).id \in disturbed'
           /\ inbox[s][i].from # Late => Posted(c) = inbox[s][i].req
<1>1. PICK job : job = inbox[s][i]
  OBVIOUS
<1>2. PICK in : in = RemoveAt(inbox[s], i)
  OBVIOUS
<1>3. /\ Ends(c, worker)
      /\ queue' = queue /\ UNCHANGED <<sessions, unread>>
      /\ CallerGets(c, job.req.id, 429, <<>>, worker)
      /\ disturbed' = IF job.from = Late THEN disturbed \cup {Posted(c).id} ELSE disturbed
      /\ LineDrops(in, c, inbox'[s])
      /\ Silent(queue[s], c) /\ ~Hearing(worker[s], c)
      /\ inbox'[s] = NowLate(in, s, job)
      /\ \A t \in Stages \ {s} : inbox'[t] = inbox[t]
  BY <1>1, <1>2, RefusalEnds
<1>4. /\ job \in JobsAt(s) /\ job \in ToSet(inbox[s]) /\ in \in Seq(JobType)
      /\ ToSet(in) \subseteq ToSet(inbox[s])
      /\ ToSet(inbox[s]) \subseteq ToSet(in) \cup {job}
  BY <1>1, <1>2, SubmitJob
<1>5. /\ c \in Callers /\ call[c].state = "wait"
      /\ job.from # Late => job.req = Posted(job.from) /\ c = job.from
  BY <1>1, <1>4, ReaderWaits
<1>6. Stays(s, c, JobsWith(s, worker[s]))
  <2>1. worker[s] \in {Idle} \cup WorkType
    BY DEF Lines, Types, WorkerFits
  <2>2. /\ Jobs(in, queue[s], worker[s]) \subseteq JobsAt(s)
        /\ JobsAt(s) \subseteq Jobs(in, queue[s], worker[s]) \cup {job}
    BY <1>4 DEF JobsAt, Jobs
  <2>3. Heard(s, job) /\ c = Reader(s, job) /\ queue'[s] = queue[s]
    BY <1>1, <1>3
  <2> QED BY <1>3, <1>4, <2>1, <2>2, <2>3, HeardStays
<1>7. disturbed \subseteq disturbed'
  BY <1>3
<1>8. Releases(c, worker)
  BY <1>3, <1>5, <1>6, <1>7, EndsReleases
<1>9. job.from = Late => Posted(c).id \in disturbed'
  BY <1>3
<1> QED BY <1>1, <1>3, <1>5, <1>8, <1>9

LEMMA RepliedReleases ==
    ASSUME Lines, Owed, AllCurrent, NEW s \in Stages, Reply(s), Heard(s, worker[s]),
           NEW c, c = Reader(s, worker[s]), NEW workers, workers = [worker EXCEPT ![s] = Idle]
    PROVE  /\ Releases(c, workers)
           /\ CallerGets(c, worker[s].req.id, worker[s].status, worker[s].out, workers)
           /\ s = Target(c) /\ call[c].state = "wait"
           /\ UNCHANGED <<queue, sessions>>
           /\ worker[s].from = Late => Posted(c).id \in disturbed'
           /\ worker[s].from # Late => /\ Posted(c) = worker[s].req
                                       /\ UNCHANGED <<inbox, disturbed>>
<1>1. PICK w : w = worker[s]
  OBVIOUS
<1>2. PICK job : job = AsJob(w)
  OBVIOUS
<1>3. /\ Ends(c, workers)
      /\ UNCHANGED <<queue, sessions, unread>>
      /\ CallerGets(c, w.req.id, w.status, w.out, workers)
      /\ disturbed' = IF w.from = Late THEN disturbed \cup {Posted(c).id} ELSE disturbed
      /\ LineDrops(inbox[s], c, inbox'[s])
      /\ Silent(queue[s], c)
      /\ inbox'[s] = NowLate(inbox[s], s, w)
      /\ \A t \in Stages \ {s} : inbox'[t] = inbox[t]
      /\ workers[s] = Idle /\ \A t \in Stages \ {s} : workers[t] = worker[t]
  <2>1. /\ Ends(c, workers)
        /\ UNCHANGED <<queue, sessions, unread>>
        /\ CallerGets(c, worker[s].req.id, worker[s].status, worker[s].out, workers)
        /\ disturbed' = IF worker[s].from = Late THEN disturbed \cup {Posted(c).id} ELSE disturbed
        /\ LineDrops(inbox[s], c, inbox'[s])
        /\ Silent(queue[s], c)
        /\ inbox'[s] = NowLate(inbox[s], s, worker[s])
        /\ \A t \in Stages \ {s} : inbox'[t] = inbox[t]
    BY ReplyEnds
  <2>2. workers[s] = Idle /\ \A t \in Stages \ {s} : workers[t] = worker[t]
    BY IdleWorkers DEF Reply
  <2> QED BY ONLY <1>1, <2>1, <2>2
<1>4. w.state = "replying"
  BY <1>1 DEF Reply
<1>5. /\ job \in JobsAt(s) /\ job.from = w.from /\ job.req = w.req
      /\ inbox[s] \in Seq(JobType) /\ inbox \in [Stages -> Seq(JobType)]
  BY <1>1, <1>2, <1>4, ServedJob DEF Lines, Types
<1>6. Heard(s, job) /\ Reader(s, job) = c /\ NowLate(inbox[s], s, job) = NowLate(inbox[s], s, w)
  BY <1>1, <1>5 DEF Heard, Reader, Overtaken, NowLate
<1>7. /\ c \in Callers /\ call[c].state = "wait" /\ s = Target(c)
      /\ w.from # Late => w.req = Posted(w.from) /\ c = w.from
  BY <1>1, <1>4, ReaderWaits
<1>8. Stays(s, c, JobsWith(s, workers[s]))
  <2>1. /\ Jobs(inbox[s], queue[s], Idle) \subseteq JobsAt(s)
        /\ JobsAt(s) \subseteq Jobs(inbox[s], queue[s], Idle) \cup {job}
    BY <1>1, <1>2, IdleIsNoWork DEF JobsAt, Jobs
  <2>2. ~Hearing(Idle, c) /\ Idle \in {Idle} \cup WorkType
    BY IdleIsNoWork DEF Hearing
  <2>3. queue'[s] = queue[s] /\ inbox'[s] = NowLate(inbox[s], s, job)
    BY <1>3, <1>6
  <2>4. disturbed' = IF job.from = Late THEN disturbed \cup {Posted(c).id} ELSE disturbed
    BY <1>3, <1>5
  <2>5. PICK idle : idle = Idle
    OBVIOUS
  <2>6. Stays(s, c, JobsWith(s, idle))
    BY <1>3, <1>5, <1>6, <2>1, <2>2, <2>3, <2>4, <2>5, HeardStays
  <2> QED BY <1>3, <2>5, <2>6
<1>9. disturbed \subseteq disturbed'
  BY <1>3
<1>10. Releases(c, workers)
  <2>1. \A t \in Stages \ {s} : inbox'[t] = inbox[t] /\ queue'[t] = queue[t] /\ workers[t] = worker[t]
    BY <1>3
  <2>2. \A t \in Stages :
           \/ inbox'[t] = inbox[t] /\ queue'[t] = queue[t] /\ workers[t] = worker[t]
           \/ Stays(t, c, JobsWith(t, workers[t]))
    BY <1>8, <2>1
  <2> QED BY <1>3, <1>7, <1>9, <2>2, EndsReleases
<1>11. w.from = Late => Posted(c).id \in disturbed'
  BY <1>3
<1>12. w.from # Late => UNCHANGED <<inbox, disturbed>>
  <2>1. inbox' = [t \in Stages |-> inbox'[t]]
    BY <1>3 DEF Ends, StagesFit
  <2>2. w.from # Late => inbox'[s] = inbox[s]
    BY <1>3 DEF NowLate, Overtaken
  <2>3. w.from # Late => \A t \in Stages : inbox'[t] = inbox[t]
    BY <1>3, <2>2
  <2> QED BY <1>3, <1>5, <2>1, <2>3
<1> QED BY <1>1, <1>3, <1>7, <1>10, <1>11, <1>12
LEMMA ExecuteLive ==
    ASSUME Lines, AllCurrent, NoneLost, NEW s \in Stages, NEW result, Execute(s, result),
           NEW job, job = Head(queue[s]),
           NEW after, after = Forward(sessions[s], job.req, result)
    PROVE  /\ AllCurrent' /\ NoneLost'
           /\ Head(queue[s]) \in ToSet(queue[s]) /\ Head(queue[s]) \in JobsAt(s)
           /\ inbox' = inbox
           /\ ToSet(queue'[s]) \subseteq ToSet(queue[s])
           /\ \A t \in Stages \ {s} : queue'[t] = queue[t] /\ worker'[t] = worker[t]
                                      /\ sessions'[t] = sessions[t]
           /\ sessions'[s] = after.sessions
           /\ \A c \in Callers : c # s => call'[c] = call[c]
           /\ Relays(s, job, result) => s \in Callers /\ call'[s] = FirstTry
           /\ ~Relays(s, job, result) => call' = call
           /\ \A t \in Stages : JobsAt(t)' = JobsAt(t)
<1>1. Ran(s, result, job, after)
  BY RanSessions DEF Lines
<1>2. /\ worker[s].state = "idle" /\ queue[s] # <<>> /\ job \in JobType
      /\ queue' = [queue EXCEPT ![s] = Tail(queue[s])]
      /\ sessions' = [sessions EXCEPT ![s] = after.sessions]
      /\ disturbed \subseteq disturbed'
      /\ UNCHANGED <<gw, outcome, tokens, inbox>>
      /\ worker' = [worker EXCEPT ![s] = worker'[s]]
      /\ worker'[s] \in WorkType
      /\ worker'[s].req = job.req /\ worker'[s].chain = job.chain /\ worker'[s].from = job.from
      /\ call' = IF Relays(s, job, result) THEN [call EXCEPT ![s] = FirstTry] ELSE call
  BY <1>1 DEF Ran
<1>3. /\ queue \in [Stages -> Seq(JobType)] /\ worker = [t \in Stages |-> worker[t]]
      /\ call \in [Callers -> CallType] /\ sessions = [t \in Stages |-> sessions[t]]
  BY DEF Lines, Types
<1>4. /\ queue'[s] = Tail(queue[s]) /\ sessions'[s] = after.sessions
      /\ \A t \in Stages \ {s} : queue'[t] = queue[t] /\ worker'[t] = worker[t]
                                 /\ sessions'[t] = sessions[t]
  BY <1>2, <1>3
<1>5. Relays(s, job, result) => s \in Callers
  BY StageNumbers DEF Relays
<1>6. FirstTry.state = "send"
  BY DEF FirstTry
<1> HIDE DEF FirstTry
<1>7. /\ \A c \in Callers : c # s => call'[c] = call[c]
      /\ Relays(s, job, result) => call'[s] = FirstTry
      /\ ~Relays(s, job, result) => call' = call
  BY <1>2, <1>3, <1>5
<1>8. ToSet(queue[s]) = ToSet(queue'[s]) \cup {job}
  <2>1. queue[s] \in Seq(JobType)
    BY <1>3
  <2> QED BY <1>2, <1>4, <2>1, TailKeeps
<1>9. AsJob(worker'[s]) = job /\ worker'[s].state # "idle"
  BY <1>2, IdleIsNoWork DEF AsJob, JobType
<1>10. ASSUME NEW t \in Stages PROVE JobsAt(t)' = JobsAt(t)
  <2>1. CASE t = s
    BY <1>2, <1>8, <1>9, <2>1 DEF JobsAt, Jobs
  <2>2. CASE t # s
    BY <1>2, <1>4, <2>2 DEF JobsAt
  <2> QED BY <2>1, <2>2
<1>11. \A t \in Stages : Stays(t, Nobody, JobsAt(t)')
  BY <1>10 DEF Stays
<1>12. \A t \in Stages : worker[t].state = "calling" => worker'[t] = worker[t]
  BY <1>2, <1>4
<1>13. gw' = gw /\ disturbed \subseteq disturbed'
  BY <1>2
<1>14. AllCurrent'
  BY <1>11, <1>12, <1>13, PlainCurrent
<1>15. \A c \in Callers : call'[c] = call[c] \/ call'[c].state # "wait"
  BY <1>6, <1>7
<1>16. NoneLost'
  BY <1>11, <1>12, <1>13, <1>15, PlainLost
<1>17. job \in JobsAt(s) /\ job \in ToSet(queue[s]) /\ ToSet(queue'[s]) \subseteq ToSet(queue[s])
  BY <1>8 DEF JobsAt, Jobs
<1> QED BY <1>2, <1>4, <1>5, <1>7, <1>10, <1>14, <1>16, <1>17


(* A request goes from its connection thread to the queue, or is refused   *)
(* with nobody to hear it; a response is written to a closed socket or left*)
(* unread.                                                                 *)
LEMMA AcceptedLive ==
    ASSUME Lines, AllCurrent, NoneLost, NEW s \in Stages, NEW i \in DOMAIN inbox[s], Submit(s, i),
           Len(queue[s]) < QueueSize \/ ~Heard(s, inbox[s][i])
    PROVE  /\ AllCurrent' /\ NoneLost'
           /\ UNCHANGED <<gw, outcome, tokens, call, worker, sessions, disturbed>>
           /\ \A t \in Stages :
                 ToSet(inbox'[t]) \cup ToSet(queue'[t]) \subseteq ToSet(inbox[t]) \cup ToSet(queue[t])
<1>1. PICK job : job = inbox[s][i]
  OBVIOUS
<1>2. PICK in : in = RemoveAt(inbox[s], i)
  OBVIOUS
<1>3. /\ job \in JobsAt(s) /\ job \in JobType /\ job \in ToSet(inbox[s])
      /\ inbox[s] \in Seq(JobType) /\ queue[s] \in Seq(JobType)
      /\ ToSet(in) \subseteq ToSet(inbox[s])
      /\ ToSet(inbox[s]) \subseteq ToSet(in) \cup {job}
  BY <1>1, <1>2, SubmitJob
<1>4. /\ queue \in [Stages -> Seq(JobType)] /\ inbox \in [Stages -> Seq(JobType)]
  BY DEF Lines, Types
<1>5. /\ UNCHANGED <<gw, outcome, tokens, call, worker, sessions, disturbed>>
      /\ inbox'[s] = in /\ \A t \in Stages \ {s} : inbox'[t] = inbox[t]
      /\ \A t \in Stages \ {s} : queue'[t] = queue[t]
      /\ \/ ToSet(queue'[s]) = ToSet(queue[s]) \cup {job}
         \/ job.from \notin Callers /\ queue'[s] = queue[s]
  <2>1. CASE Len(queue[s]) < QueueSize
    <3>1. /\ queue' = [queue EXCEPT ![s] = Append(queue[s], job)]
          /\ inbox' = [inbox EXCEPT ![s] = in]
          /\ UNCHANGED <<gw, outcome, tokens, call, worker, sessions, disturbed>>
      BY <1>1, <1>2, <2>1 DEF Submit
    <3>2. queue'[s] = Append(queue[s], job) /\ \A t \in Stages \ {s} : queue'[t] = queue[t]
      BY <1>4, <3>1
    <3>3. ToSet(Append(queue[s], job)) = ToSet(queue[s]) \cup {job}
      BY <1>3, AppendShape
    <3> QED BY <1>4, <3>1, <3>2, <3>3
  <2>2. CASE ~(Len(queue[s]) < QueueSize)
    <3>1. job.from \notin Callers /\ ~Overtaken(s, job)
      BY <1>1, <2>2 DEF Heard
    <3>2. /\ Answer(s, job, 429, <<>>, TRUE, worker)
          /\ inbox' = [inbox EXCEPT ![s] = NowLate(in, s, job)]
          /\ queue' = queue /\ sessions' = sessions
      BY <1>1, <1>2, <2>2 DEF Submit
    <3>3. UNCHANGED <<gw, outcome, tokens, call, worker, disturbed>>
      BY <3>1, <3>2 DEF Answer
    <3>4. inbox' = [inbox EXCEPT ![s] = in]
      BY <3>1, <3>2 DEF NowLate
    <3> QED BY <1>4, <3>1, <3>2, <3>3, <3>4
  <2> QED BY <2>1, <2>2
<1>6. job.from \notin Callers => job.req.id \in disturbed'
  BY <1>3, <1>5, LateDisturbed
<1>7. ASSUME NEW t \in Stages
      PROVE  /\ Stays(t, Nobody, JobsAt(t)')
             /\ ToSet(inbox'[t]) \cup ToSet(queue'[t]) \subseteq ToSet(inbox[t]) \cup ToSet(queue[t])
  <2>1. CASE t = s
    BY <1>3, <1>5, <1>6, <2>1 DEF Stays, JobsAt, Jobs
  <2>2. CASE t # s
    BY <1>5, <2>2 DEF Stays, JobsAt
  <2> QED BY <2>1, <2>2
<1>8. AllCurrent'
  BY <1>5, <1>7, PlainCurrent
<1>9. NoneLost'
  BY <1>5, <1>7, PlainLost
<1> QED BY <1>5, <1>7, <1>8, <1>9

LEMMA UnheardReplyLive ==
    ASSUME Lines, AllCurrent, NoneLost, NEW s \in Stages, Reply(s), ~Heard(s, worker[s])
    PROVE  /\ AllCurrent' /\ NoneLost'
           /\ UNCHANGED <<gw, outcome, tokens, call, inbox, queue, sessions, disturbed>>
           /\ worker[s].from \notin Callers
           /\ worker'[s] = Idle /\ \A t \in Stages \ {s} : worker'[t] = worker[t]
<1>1. PICK workers : workers = [worker EXCEPT ![s] = Idle]
  OBVIOUS
<1>2. worker[s].from \notin Callers /\ ~Overtaken(s, worker[s])
  BY DEF Heard
<1>3. /\ worker[s].state = "replying"
      /\ Answer(s, worker[s], worker[s].status, worker[s].out, TRUE, workers)
      /\ inbox' = [inbox EXCEPT ![s] = NowLate(@, s, worker[s])]
      /\ UNCHANGED <<queue, sessions>>
  BY <1>1 DEF Reply
<1>4. worker' = workers /\ UNCHANGED <<gw, outcome, tokens, call, disturbed>>
  BY <1>2, <1>3 DEF Answer
<1>5. inbox' = inbox
  <2>1. inbox' = [inbox EXCEPT ![s] = inbox[s]] /\ inbox \in [Stages -> Seq(JobType)]
    BY <1>2, <1>3 DEF NowLate, Lines, Types
  <2> QED BY <2>1
<1>6. worker'[s] = Idle /\ \A t \in Stages \ {s} : worker'[t] = worker[t]
  BY <1>1, <1>3, <1>4, IdleWorkers
<1>7. AsJob(worker[s]).req.id \in disturbed
  <2>1. AsJob(worker[s]) \in JobsAt(s) /\ AsJob(worker[s]).from = worker[s].from
    BY <1>3, ServedJob
  <2> QED BY <1>2, <2>1, LateDisturbed
<1>8. ASSUME NEW t \in Stages PROVE Stays(t, Nobody, JobsAt(t)')
  <2>1. CASE t = s
    BY <1>3, <1>4, <1>5, <1>6, <1>7, <2>1, IdleIsNoWork DEF Stays, JobsAt, Jobs
  <2>2. CASE t # s
    BY <1>3, <1>5, <1>6, <2>2 DEF Stays, JobsAt
  <2> QED BY <2>1, <2>2
<1>9. \A t \in Stages : worker[t].state = "calling" => worker'[t] = worker[t]
  BY <1>3, <1>6
<1>10. AllCurrent'
  BY <1>4, <1>8, <1>9, PlainCurrent
<1>11. NoneLost'
  BY <1>4, <1>8, <1>9, PlainLost
<1> QED BY <1>2, <1>3, <1>4, <1>5, <1>6, <1>10, <1>11

(* Where no generation is in progress, or the one that is has been         *)
(* disturbed, no request is live.                                          *)
LEMMA NoneCurrent ==
    ASSUME AllCurrent, gw.running => gw.gen \in disturbed'
    PROVE  \A s \in Stages : \A job \in JobsAt(s) : job.req.id \in disturbed \cup disturbed'
  BY DEF AllCurrent, Current

LEMMA BeginLive ==
    ASSUME Lines, Lines', AllCurrent, NEW g \in Requests, NEW chain \in Topologies,
           NEW min \in MinNews, Begin(g, chain, min)
    PROVE  /\ AllCurrent' /\ NoneLost'
           /\ \A s \in Stages : \A job \in JobsAt(s) : job.req.id \in disturbed
<1>1. /\ ~gw.running /\ call' = [call EXCEPT ![Gateway] = FirstTry]
      /\ UNCHANGED <<inbox, queue, worker, disturbed>>
  BY DEF Begin
<1>2. \A s \in Stages : \A job \in JobsAt(s) : job.req.id \in disturbed
  BY <1>1, NoneCurrent
<1>3. \A s \in Stages : \A job \in JobsAt(s)' : job.req.id \in disturbed'
  BY <1>1, <1>2 DEF JobsAt
<1>4. call'[Gateway].state # "wait"
  BY <1>1, StageNumbers DEF FirstTry, Lines, Types
<1> QED BY <1>2, <1>3, <1>4, NoLive


(* A stage that dies forgets its sessions; the generation in progress is   *)
(* disturbed.                                                              *)
Forgets(s) ==
    /\ \A t \in Stages : sessions'[t] = IF t = s THEN NoSessions ELSE sessions[t]
    /\ disturbed' = disturbed \cup RunningGeneration

LEMMA ForgetsLive ==
    ASSUME Lines', AllCurrent, NEW s \in Stages, Forgets(s),
           gw'.running => gw.running /\ gw'.gen = gw.gen,
           \A t \in Stages : \A x \in JobsAt(t)' : \E y \in JobsAt(t) : x.req = y.req
    PROVE  AllCurrent' /\ NoneLost'
<1>1. /\ disturbed \subseteq disturbed'
      /\ gw.running => gw.gen \in disturbed'
  BY DEF Forgets, RunningGeneration
<1>2. \A t \in Stages : \A job \in JobsAt(t) : job.req.id \in disturbed'
  BY <1>1, NoneCurrent
<1>3. \A t \in Stages : \A job \in JobsAt(t)' : job.req.id \in disturbed'
  BY <1>2
<1>4. call'[Gateway].state = "wait" => gw'.gen \in disturbed'
  BY <1>1 DEF Lines, CallsFit
<1> QED BY <1>3, <1>4, NoLive

LEMMA DiesJobs ==
    ASSUME Lines, NEW s \in Stages, Dies(s), NEW workers, workers = Survivors(s),
           NEW t \in Stages, NEW x \in JobsWith(t, workers[t])
    PROVE  \E y \in JobsAt(t) : x.req = y.req
<1>1. /\ inbox'[s] = <<>> /\ queue'[s] = <<>> /\ workers[s] = Idle
      /\ \A u \in Stages \ {s, s + 1} :
            inbox'[u] = inbox[u] /\ queue'[u] = queue[u] /\ workers[u] = worker[u]
      /\ s + 1 \in Stages => s \in Callers /\ DropsAt(s + 1, s, workers)
  BY DiesShape
<1>2. CASE t = s
  BY <1>1, <1>2, IdleIsNoWork DEF JobsWith, Jobs, ToSet
<1>3. CASE t = s + 1
  <2>1. inbox[t] \in Seq(JobType) /\ queue[t] \in Seq(JobType) /\ worker[t] \in {Idle} \cup WorkType
    BY DEF Lines, Types, WorkerFits
  <2>2. s \in Callers /\ DropsAt(t, s, workers)
    BY <1>1, <1>3
  <2> QED BY <2>1, <2>2, DropsJobs DEF DropsAt, JobsAt, JobsWith
<1>4. CASE t # s /\ t # s + 1
  BY <1>1, <1>4 DEF JobsAt, JobsWith
<1> QED BY <1>2, <1>3, <1>4

LEMMA DiesForgets ==
    ASSUME Lines, NEW s \in Stages, Dies(s), disturbed' = disturbed \cup RunningGeneration
    PROVE  Forgets(s)
<1>1. PICK workers : workers = Survivors(s)
  OBVIOUS
<1>2. \A t \in Stages : sessions'[t] = IF t = s THEN NoSessions ELSE sessions[t]
  BY <1>1, DiesShape
<1> QED BY <1>2 DEF Forgets

LEMMA DiesLive ==
    ASSUME Lines, Lines', AllCurrent, NEW s \in Stages, DiesUnread(s)
    PROVE  /\ AllCurrent' /\ NoneLost'
           /\ Forgets(s) /\ UNCHANGED <<gw, outcome, tokens>>
<1>1. /\ Dies(s) /\ worker' = Survivors(s) /\ UNCHANGED <<gw, outcome, tokens>>
      /\ disturbed' = disturbed \cup RunningGeneration
  BY DEF DiesUnread
<1>2. PICK workers : workers = Survivors(s)
  OBVIOUS
<1>3. \A t \in Stages : \A x \in JobsWith(t, workers[t]) : \E y \in JobsAt(t) : x.req = y.req
  BY <1>1, <1>2, DiesJobs
<1>4. \A t \in Stages : JobsAt(t)' = JobsWith(t, workers[t])
  BY <1>1, <1>2 DEF JobsAt, JobsWith
<1>5. Forgets(s)
  BY <1>1, DiesForgets
<1> QED BY <1>1, <1>3, <1>4, <1>5, ForgetsLive

LEMMA RestartLive ==
    ASSUME Lines, Lines', AllCurrent, NEW s \in Stages, Restart(s)
    PROVE  /\ AllCurrent' /\ NoneLost'
           /\ Forgets(s) /\ UNCHANGED <<gw, outcome, tokens>>
  BY LinesRestart, DiesLive

LEMMA RestartInReplyLive ==
    ASSUME Lines, Lines', Owed, AllCurrent, NEW s \in Stages, RestartInReply(s)
    PROVE  /\ AllCurrent' /\ NoneLost'
           /\ Forgets(s) /\ (gw'.running => gw.running /\ gw' = gw)
           /\ tokens' = tokens
           /\ \A g \in Requests : outcome'[g].how = "ok" => outcome'[g] = outcome[g]
           /\ \A g \in Requests : outcome'[g].how = "no" => outcome[g].how = "no"
<1>1. CASE ~Heard(s, worker[s])
  <2>1. DiesUnread(s)
    BY <1>1, RestartInReplyDies
  <2> QED BY <2>1, DiesLive
<1>2. CASE Heard(s, worker[s])
  <2>1. PICK workers : workers = Survivors(s)
    OBVIOUS
  <2>2. PICK c : c = Reader(s, worker[s])
    OBVIOUS
  <2>3. PICK status, out : status = Undecodable /\ out = <<>>
    OBVIOUS
  <2>4. /\ c \in Callers /\ Ends(c, workers)
        /\ CallerGets(c, worker[s].req.id, status, out, workers)
        /\ disturbed' = disturbed \cup RunningGeneration
    BY <1>2, <2>1, <2>2, <2>3, RestartInReplyEnds
  <2>5. Dies(s)
    BY DEF RestartInReply
  <2>6. /\ tokens' = tokens /\ (gw'.running => gw.running /\ gw' = gw)
        /\ outcome' = outcome \/ outcome' = [outcome EXCEPT ![gw.gen] = Ended("error", gw.min)]
    <3>1. CASE c = Gateway
      <4>1. GenerationEnds("error") /\ tokens' = tokens
        BY <2>3, <2>4, <3>1 DEF CallerGets, GatewayGets, Undecodable
      <4> QED BY <4>1 DEF GenerationEnds, NoGeneration
    <3>2. CASE c # Gateway
      <4>1. UNCHANGED <<gw, outcome, tokens>>
        BY <2>4, <3>2 DEF CallerGets
      <4> QED BY <4>1
    <3> QED BY <3>1, <3>2
  <2>7. \A t \in Stages : JobsAt(t)' = JobsWith(t, workers[t])
    BY <2>4, ReleasedJobs DEF Ends
  <2>8. \A t \in Stages : \A x \in JobsWith(t, workers[t]) : \E y \in JobsAt(t) : x.req = y.req
    BY <2>1, <2>5, DiesJobs
  <2>9. Forgets(s)
    BY <2>4, <2>5, DiesForgets
  <2>10. AllCurrent' /\ NoneLost'
    BY <2>6, <2>7, <2>8, <2>9, ForgetsLive
  <2>11. ASSUME outcome' = [outcome EXCEPT ![gw.gen] = Ended("error", gw.min)],
                NEW g \in Requests
         PROVE  /\ outcome'[g].how = "ok" => outcome'[g] = outcome[g]
                /\ outcome'[g].how = "no" => outcome[g].how = "no"
    <3>1. outcome \in [Requests -> OutcomeType]
      BY DEF Lines, Types
    <3>2. Ended("error", gw.min).how = "error"
      BY DEF Ended
    <3> HIDE DEF Ended
    <3>3. outcome'[g] = Ended("error", gw.min) \/ outcome'[g] = outcome[g]
      BY <2>11, <3>1
    <3> QED BY <3>2, <3>3
  <2> QED BY <2>6, <2>9, <2>10, <2>11
<1> QED BY <1>1, <1>2

LEMMA LiveNext ==
    ASSUME Lines, Lines', Owed, AllCurrent, NoneLost, [Next]_vars
    PROVE  AllCurrent' /\ NoneLost'
<1>1. CASE UNCHANGED vars
  BY <1>1, PlainCurrent, PlainLost DEF vars, Stays, JobsAt
<1>2. ASSUME NEW g \in Requests, NEW chain \in Topologies, NEW min \in MinNews,
             Begin(g, chain, min)
      PROVE  AllCurrent' /\ NoneLost'
  BY <1>2, BeginLive
<1>3. ASSUME NEW c \in Callers, Send(c) \/ SendAndReadLate(c) \/ ConnectionLost(c)
      PROVE  AllCurrent' /\ NoneLost'
  BY <1>3, SendLive, ReleasesLive, ConnectionLostReleases, ReadsLateReleases
<1>4. ASSUME NEW c \in Callers, SendFails(c) \/ Timeout(c)
      PROVE  AllCurrent' /\ NoneLost'
  <2>1. PICK workers : Releases(c, workers)
    BY <1>4, SendFailsReleases, TimeoutReleases
  <2> QED BY <2>1, ReleasesLive
<1>5. ASSUME NEW s \in Stages, NEW i \in DOMAIN inbox[s], Submit(s, i)
      PROVE  AllCurrent' /\ NoneLost'
  <2>1. CASE Len(queue[s]) < QueueSize \/ ~Heard(s, inbox[s][i])
    BY <1>5, <2>1, AcceptedLive
  <2>2. CASE ~(Len(queue[s]) < QueueSize) /\ Heard(s, inbox[s][i])
    BY <1>5, <2>2, RefusedReleases, ReleasesLive
  <2> QED BY <2>1, <2>2
<1>6. ASSUME NEW s \in Stages, NEW result, Execute(s, result) PROVE AllCurrent' /\ NoneLost'
  BY <1>6, ExecuteLive
<1>7. ASSUME NEW s \in Stages, Reply(s) PROVE AllCurrent' /\ NoneLost'
  <2>1. CASE ~Heard(s, worker[s])
    BY <1>7, <2>1, UnheardReplyLive
  <2>2. CASE Heard(s, worker[s])
    <3>1. PICK workers : workers = [worker EXCEPT ![s] = Idle]
      OBVIOUS
    <3>2. Releases(Reader(s, worker[s]), workers)
      BY <1>7, <2>2, <3>1, RepliedReleases
    <3> QED BY <3>2, ReleasesLive
  <2> QED BY <2>1, <2>2
<1>8. ASSUME NEW s \in Stages, Restart(s) \/ RestartInReply(s) PROVE AllCurrent' /\ NoneLost'
  BY <1>8, RestartLive, RestartInReplyLive
<1> QED BY <1>1, <1>2, <1>3, <1>4, <1>5, <1>6, <1>7, <1>8
        DEF Next, Submits, ForwardRuns, ForwardThrows

------------------------------------------------------------------------------
(* An undisturbed generation is in one place at a time.                    *)

Serving(s) == worker[s].state # "idle" /\ worker[s].req.id = gw.gen

Lined(s) == \E job \in ToSet(inbox[s]) \cup ToSet(queue[s]) : job.req.id = gw.gen

Active(s) ==
    \/ Lined(s)
    \/ Serving(s) /\ worker[s].state = "replying"
    \/ Serving(s) /\ worker[s].state = "calling" /\ call[s].state = "send"

Undisturbed == gw.running /\ gw.gen \notin disturbed

Exclusive ==
    Undisturbed =>
        /\ call[Gateway].state = "send" => \A s \in Stages : ~Lined(s) /\ ~Serving(s)
        /\ \A s \in Stages : Lined(s) => ~Serving(s)
        /\ \A s, t \in Stages : Active(s) /\ Active(t) => s = t

ExclusiveNow == Lines /\ AllCurrent => Exclusive

LEMMA ExclusiveHolds == ExclusiveNow
<1> SUFFICES ASSUME Lines, AllCurrent, Undisturbed
             PROVE  /\ call[Gateway].state = "send" => \A s \in Stages : ~Lined(s) /\ ~Serving(s)
                    /\ \A s \in Stages : Lined(s) => ~Serving(s)
                    /\ \A s, t \in Stages : Active(s) /\ Active(t) => s = t
  BY DEF ExclusiveNow, Exclusive
<1> DEFINE g == gw.gen
           Ours(s) == {job \in JobsAt(s) : job.req.id = g}
<1>1. ASSUME NEW s \in Stages, Serving(s)
      PROVE  AsJob(worker[s]) \in Ours(s) /\ AsJob(worker[s]).from = worker[s].from
  BY <1>1, ServedJob DEF Serving
<1>2. ASSUME NEW s \in Stages, Lined(s)
      PROVE  \E job \in Ours(s) : job \in ToSet(inbox[s]) \cup ToSet(queue[s])
  BY <1>2 DEF Lined, JobsAt, Jobs
<1>3. ASSUME NEW s \in Stages, NEW job \in Ours(s)
      PROVE  /\ job.from = (IF gw.chain THEN s - 1 ELSE Gateway)
             /\ gw.chain => \A t \in 1 .. s - 1 : t \in Stages /\ Serving(t) /\ worker[t].state = "calling"
             /\ job.from \in Callers
             /\ call[job.from].state = "wait"
             /\ s = Target(job.from)
  <2>1. Current(s, job)
    BY DEF AllCurrent, Undisturbed
  <2>2. gw.chain \in BOOLEAN
    BY DEF Lines, Types, GenerationFits, GenerationType
  <2>3. job.from \in Callers /\ job.from = (IF gw.chain THEN s - 1 ELSE Gateway)
    BY <2>1, <2>2 DEF Current
  <2>4. ASSUME gw.chain, NEW t \in 1 .. s - 1
        PROVE  t \in Stages /\ Serving(t) /\ worker[t].state = "calling"
    <3>1. t \in Stages
      BY PipelineAssumption DEF PipelineAssumption, Stages
    <3> QED BY <2>1, <2>4, <3>1 DEF Current, Passing, Serving
  <2> QED BY <2>3, <2>4 DEF Lines, AllExpected, Expected
<1>4. ASSUME NEW s \in Stages, Lined(s), Serving(s) PROVE FALSE
  <2>1. PICK job \in Ours(s) : job \in ToSet(inbox[s]) \cup ToSet(queue[s])
    BY <1>2, <1>4
  <2>2. AsJob(worker[s]) \in Ours(s) /\ AsJob(worker[s]).from = worker[s].from
    BY <1>1, <1>4
  <2>3. PICK c \in Callers : job.from = c /\ worker[s].from = c
    BY <1>3, <2>1, <2>2
  <2>4. Unique(inbox[s], queue[s], worker[s], c)
    BY DEF Lines, HeardOnce
  <2>5. Hearing(worker[s], c)
    BY <1>4, <2>3 DEF Hearing, Serving
  <2> QED BY <2>1, <2>3, <2>4, <2>5 DEF Unique, Silent, ToSet
<1>5. ASSUME NEW s \in Stages, NEW job \in Ours(s) PROVE call[Gateway].state = "wait"
  <2>1. CASE ~gw.chain
    BY <1>3, <2>1
  <2>2. CASE gw.chain /\ s = 1
    BY <1>3, <2>2 DEF Gateway
  <2>3. CASE gw.chain /\ s # 1
    <3>1. 1 \in 1 .. s - 1
      BY <2>3, PipelineAssumption DEF PipelineAssumption, Stages
    <3>2. 1 \in Stages /\ Serving(1)
      BY <1>3, <2>3, <3>1
    <3>3. AsJob(worker[1]) \in Ours(1)
      BY <1>1, <3>2
    <3>4. PICK x \in Ours(1) : TRUE
      BY <3>3
    <3>5. x.from = 1 - 1 /\ call[x.from].state = "wait"
      BY <1>3, <2>3, <3>2
    <3> QED BY <3>5 DEF Gateway
  <2> QED BY <2>1, <2>2, <2>3
<1>6. ASSUME NEW s \in Stages, Active(s) PROVE \E job \in Ours(s) : TRUE
  BY <1>1, <1>2, <1>6 DEF Active
<1>7. ASSUME NEW s \in Stages, NEW t \in Stages, Active(s), Active(t), s < t PROVE FALSE
  <2>1. PICK job \in Ours(t) : TRUE
    BY <1>6, <1>7
  <2>2. PICK x \in Ours(s) : TRUE
    BY <1>6, <1>7
  <2>3. s \in Nat /\ t \in Nat /\ s >= 1
    BY StageNumbers DEF Stages
  <2>4. CASE ~gw.chain
    <3>1. s = Target(Gateway) /\ t = Target(Gateway)
      BY <1>3, <2>1, <2>2, <2>4
    <3> QED BY <1>7, <2>3, <3>1
  <2>5. CASE gw.chain
    <3>1. s \in 1 .. t - 1
      BY <1>7, <2>3
    <3>2. Serving(s) /\ worker[s].state = "calling"
      BY <1>3, <2>1, <2>5, <3>1
    <3>3. call[s].state = "send"
      BY <1>4, <1>7, <3>2 DEF Active
    <3>4. CASE t = s + 1
      <4>1. job.from = t - 1 /\ call[job.from].state = "wait" /\ t - 1 = s
        BY <1>3, <2>1, <2>3, <2>5, <3>4
      <4> QED BY <3>3, <4>1
    <3>5. CASE t # s + 1
      <4>1. s + 1 \in 1 .. t - 1 /\ (s + 1) - 1 = s
        BY <1>7, <2>3, <3>5
      <4>2. PICK u : u = s + 1
        OBVIOUS
      <4>3. u \in Stages /\ Serving(u)
        BY <1>3, <2>1, <2>5, <4>1, <4>2
      <4>4. PICK y \in Ours(u) : TRUE
        BY <1>1, <4>3
      <4>5. y.from = u - 1 /\ call[y.from].state = "wait" /\ u - 1 = s
        BY <1>3, <2>5, <4>1, <4>2, <4>3
      <4> QED BY <3>3, <4>5
    <3> QED BY <3>4, <3>5
  <2> QED BY <2>4, <2>5
<1>8. ASSUME NEW s \in Stages, NEW t \in Stages, Active(s), Active(t) PROVE s = t
  <2>1. s \in Nat /\ t \in Nat
    BY StageNumbers
  <2>2. s < t \/ t < s \/ s = t
    BY <2>1
  <2> QED BY <1>7, <1>8, <2>2
<1>9. ASSUME call[Gateway].state = "send", NEW s \in Stages PROVE ~Lined(s) /\ ~Serving(s)
  BY <1>1, <1>2, <1>5, <1>9
<1> QED BY <1>4, <1>8, <1>9

LEMMA ExclusiveNext == ExclusiveNow'
  BY ExclusiveHolds, PTL
------------------------------------------------------------------------------
(* How far an undisturbed generation is.                                   *)

(* The rows of its sessions before the step it is in, and after it         *)
Before == IF gw.index = 0 THEN 0 ELSE PromptLen + gw.index - 1
After  == PromptLen + gw.index

(* The reference run's frame of this step: its prompt, or its last token   *)
IsFrame(frame) ==
    /\ Len(frame) = After - Before
    /\ \A i \in 1 .. After - Before : frame[i] = Before + i

KvAt(k, t) == IF t <= k THEN After ELSE Before

Advanced(k) == \A t \in Stages : Held(t) = KvAt(k, t)

(* The answer of a stage has failed: the generation will.                  *)
Doomed == \E s \in Stages : Serving(s) /\ worker[s].state = "replying" /\ worker[s].status # 200

(* The first k stages have this step and the others have not: the request  *)
(* is with stage k + 1, or its answer on the way back from stage k.        *)
Marching(k) ==
    /\ \A t \in Stages : Keeps(sessions[t], gw.gen, KvAt(k, t))
    /\ call[Gateway].state = "send" => k = gw.hop - 1
    /\ \A s \in Stages :
          /\ Lined(s) => k = s - 1
          /\ Serving(s) => IsFrame(worker[s].out)
          /\ Serving(s) /\ worker[s].state = "replying" => k = IF gw.chain THEN NumStages ELSE s
          /\ Serving(s) /\ worker[s].state = "calling" /\ call[s].state = "send" => k = s

(* The tokens so far are the reference run's, and none of them ends it.    *)
Prefix ==
    /\ Len(tokens[gw.gen]) = gw.index
    /\ \A i \in 1 .. gw.index :
          tokens[gw.gen][i] = TRUE /\ ~(i >= gw.min /\ i - 1 \in StopTokens)

Generating ==
    Undisturbed =>
        /\ Prefix /\ IsFrame(gw.frame)
        /\ \E k \in 0 .. NumStages : Advanced(k) /\ (Doomed \/ Marching(k))

(* A generation that has not begun has left nothing anywhere.              *)
Untouched ==
    \A g \in Requests \ disturbed : outcome[g].how = "no" /\ ~(gw.running /\ gw.gen = g) =>
        tokens[g] = <<>> /\ \A s \in Stages : g \notin DOMAIN sessions[s]

Whole ==
    Lines /\ Owed /\ AllCurrent /\ NoneLost /\ Untouched /\ Generating
    /\ UndisturbedIsReference

(* What a step leaves of the generation in progress: its tokens and its    *)
(* sessions,                                                               *)
Untroubled ==
    /\ gw' = gw /\ tokens'[gw.gen] = tokens[gw.gen] /\ disturbed \subseteq disturbed'
    /\ \A s \in Stages :
          /\ gw.gen \in DOMAIN sessions'[s] <=> gw.gen \in DOMAIN sessions[s]
          /\ gw.gen \in DOMAIN sessions[s] => sessions'[s][gw.gen] = sessions[s][gw.gen]

(* and its requests and calls.                                             *)
SameWork(s) ==
    /\ Lined(s)' => Lined(s)
    /\ Serving(s)' <=> Serving(s)
    /\ Serving(s) => /\ worker'[s].state = worker[s].state
                     /\ worker'[s].status = worker[s].status
                     /\ worker'[s].out = worker[s].out
    /\ Serving(s) /\ worker[s].state = "calling" /\ call'[s].state = "send" => call[s].state = "send"

LEMMA UntroubledFacts ==
    ASSUME Untroubled, Undisturbed'
    PROVE  /\ Undisturbed
           /\ Before' = Before /\ After' = After
           /\ Prefix' <=> Prefix
           /\ \A k : Advanced(k) => Advanced(k)'
           /\ \A frame : IsFrame(frame)' <=> IsFrame(frame)
<1>1. gw' = gw /\ tokens'[gw.gen] = tokens[gw.gen] /\ disturbed \subseteq disturbed'
  BY DEF Untroubled
<1>2. Undisturbed /\ Before' = Before /\ After' = After /\ (Prefix' <=> Prefix)
  BY <1>1 DEF Undisturbed, Before, After, Prefix
<1>3. \A t \in Stages : Held(t)' = Held(t)
  BY <1>1 DEF Untroubled, Held
<1>4. ASSUME NEW k, Advanced(k) PROVE Advanced(k)'
  BY <1>2, <1>3, <1>4 DEF Advanced, KvAt
<1>5. ASSUME NEW frame PROVE IsFrame(frame)' <=> IsFrame(frame)
  BY <1>2 DEF IsFrame
<1> QED BY <1>2, <1>4, <1>5

LEMMA GeneratingFrame ==
    ASSUME Generating, Undisturbed', Untroubled, \A s \in Stages : SameWork(s),
           call'[Gateway].state = "send" => call[Gateway].state = "send"
    PROVE  Generating'
<1>1. /\ Undisturbed /\ Before' = Before /\ After' = After /\ (Prefix' <=> Prefix)
      /\ \A k : Advanced(k) => Advanced(k)'
      /\ \A frame : IsFrame(frame)' <=> IsFrame(frame)
  BY UntroubledFacts
<1>2. gw' = gw
  BY DEF Untroubled
<1>3. Prefix' /\ IsFrame(gw.frame)'
  BY <1>1, <1>2 DEF Generating, IsFrame
<1>4. PICK k \in 0 .. NumStages : Advanced(k) /\ (Doomed \/ Marching(k))
  BY <1>1 DEF Generating
<1>5. ASSUME Doomed PROVE Doomed'
  BY <1>5 DEF Doomed, SameWork
<1>6. ASSUME Marching(k) PROVE Marching(k)'
  <2>1. \A t \in Stages : Keeps(sessions[t], gw.gen, KvAt(k, t))'
    BY <1>1, <1>2, <1>6 DEF Marching, Untroubled, Keeps, KvAt
  <2>2. ASSUME NEW s \in Stages
        PROVE  /\ Lined(s)' => k = s - 1
               /\ Serving(s)' => IsFrame(worker[s].out)'
               /\ Serving(s)' /\ worker'[s].state = "replying" => k = IF gw'.chain THEN NumStages ELSE s
               /\ Serving(s)' /\ worker'[s].state = "calling" /\ call'[s].state = "send" => k = s
    <3>1. SameWork(s)
      OBVIOUS
    <3>2. /\ Lined(s) => k = s - 1
          /\ Serving(s) => IsFrame(worker[s].out)
          /\ Serving(s) /\ worker[s].state = "replying" => k = IF gw.chain THEN NumStages ELSE s
          /\ Serving(s) /\ worker[s].state = "calling" /\ call[s].state = "send" => k = s
      BY <1>6 DEF Marching
    <3>3. Serving(s)' => IsFrame(worker[s].out)'
      <4>1. ASSUME Serving(s)' PROVE IsFrame(worker[s].out) /\ worker'[s].out = worker[s].out
        BY <3>1, <3>2, <4>1 DEF SameWork
      <4> QED BY <1>1, <4>1 DEF IsFrame
    <3> QED BY <1>2, <3>1, <3>2, <3>3 DEF SameWork
  <2>3. call'[Gateway].state = "send" => k = gw'.hop - 1
    BY <1>2, <1>6 DEF Marching
  <2> QED BY <2>1, <2>2, <2>3 DEF Marching
<1>7. Advanced(k)' /\ (Doomed \/ Marching(k))'
  BY <1>1, <1>4, <1>5, <1>6
<1> QED BY <1>3, <1>7 DEF Generating

LEMMA GeneratingDoomed ==
    ASSUME Generating, Undisturbed', Untroubled, Doomed'
    PROVE  Generating'
<1>1. /\ Undisturbed /\ Before' = Before /\ After' = After /\ (Prefix' <=> Prefix)
      /\ \A k : Advanced(k) => Advanced(k)'
  BY UntroubledFacts
<1>2. Prefix' /\ IsFrame(gw.frame)'
  BY <1>1 DEF Generating, IsFrame, Untroubled
<1>3. PICK k \in 0 .. NumStages : Advanced(k)
  BY <1>1 DEF Generating
<1>4. Advanced(k)'
  BY <1>1, <1>3
<1> QED BY <1>2, <1>4 DEF Generating

(* Where no answer has failed the generation is at its frontier.           *)
LEMMA GeneratingMarches ==
    ASSUME Generating, Undisturbed, ~Doomed
    PROVE  Prefix /\ IsFrame(gw.frame) /\ \E k \in 0 .. NumStages : Advanced(k) /\ Marching(k)
  BY DEF Generating

Here == \A k \in 0 .. NumStages : Prefix /\ IsFrame(gw.frame) /\ Marching(k) => Generating

LEMMA HereHolds == Here
<1> SUFFICES ASSUME NEW k \in 0 .. NumStages, Prefix, IsFrame(gw.frame), Marching(k)
             PROVE  Generating
  BY DEF Here
<1>1. Advanced(k)
  BY DEF Advanced, Marching, Keeps, Held, Faithful, KvAt
<1> QED BY <1>1 DEF Generating

LEMMA HereNext == Here'
  BY HereHolds, PTL

LEMMA BeginGenerating ==
    ASSUME Lines, Lines', AllCurrent, Untouched, NEW g \in Requests, NEW chain \in Topologies,
           NEW min \in MinNews, Begin(g, chain, min)
    PROVE  Generating'
<1> SUFFICES ASSUME Undisturbed' PROVE Generating'
  BY DEF Generating
<1>1. /\ ~gw.running /\ outcome[g].how = "no"
      /\ gw' = [gen |-> g, chain |-> chain, min |-> min, running |-> TRUE,
                index |-> 0, hop |-> 1, frame |-> [i \in 1 .. PromptLen |-> i]]
      /\ call' = [call EXCEPT ![Gateway] = FirstTry]
      /\ UNCHANGED <<outcome, tokens, inbox, queue, worker, sessions, faults, disturbed>>
  BY DEF Begin
<1>2. /\ gw'.gen = g /\ gw'.index = 0 /\ gw'.hop = 1 /\ gw'.frame = [i \in 1 .. PromptLen |-> i]
  BY <1>1
<1>3. g \notin disturbed
  BY <1>1, <1>2 DEF Undisturbed
<1>4. tokens[g] = <<>> /\ \A s \in Stages : g \notin DOMAIN sessions[s]
  BY <1>1, <1>3 DEF Untouched
<1>5. Prefix'
  BY <1>1, <1>2, <1>4 DEF Prefix
<1>6. Before' = 0 /\ After' = PromptLen /\ After' - Before' = PromptLen /\ PromptLen \in Nat
  BY <1>2, PipelineAssumption DEF Before, After, PipelineAssumption
<1>7. IsFrame(gw.frame)'
  BY <1>2, <1>6 DEF IsFrame
<1>8. ASSUME NEW s \in Stages PROVE ~Lined(s)' /\ ~Serving(s)'
  <2>1. \A job \in JobsAt(s) : job.req.id \in disturbed
    BY BeginLive
  <2>2. ASSUME Lined(s)' PROVE FALSE
    BY <1>1, <1>2, <1>3, <2>1, <2>2 DEF Lined, JobsAt, Jobs
  <2>3. ASSUME Serving(s)' PROVE FALSE
    <3>1. worker[s].state # "idle" /\ worker[s].req.id = g
      BY <1>1, <1>2, <2>3 DEF Serving
    <3> QED BY <1>3, <2>1, <3>1, ServedJob
  <2> QED BY <2>2, <2>3
<1>9. PICK k : k = 0
  OBVIOUS
<1>10. Marching(k)'
  <2>1. ASSUME NEW t \in Stages PROVE Keeps(sessions[t], gw.gen, KvAt(k, t))'
    <3>1. ~(t <= k)
      BY <1>9, StageNumbers DEF Stages
    <3>2. KvAt(k, t)' = 0
      BY <1>6, <3>1 DEF KvAt
    <3> QED BY <1>1, <1>2, <1>4, <3>2 DEF Keeps
  <2>2. k = gw'.hop - 1
    BY <1>2, <1>9
  <2> QED BY <1>8, <2>1, <2>2 DEF Marching
<1>11. k \in 0 .. NumStages
  BY <1>9, StageNumbers
<1> QED BY <1>5, <1>7, <1>10, <1>11, HereNext DEF Here

LEMMA SendGenerating ==
    ASSUME Lines, AllCurrent, NoneLost, Exclusive, Generating, NEW c \in Callers, Send(c)
    PROVE  Generating'
<1> SUFFICES ASSUME Undisturbed' PROVE Generating'
  BY DEF Generating
<1>1. PICK s0, job : s0 = Target(c) /\ job = Job(c)
  OBVIOUS
<1>2. /\ call[c].state = "send"
      /\ call' = [call EXCEPT ![c].state = "wait"]
      /\ inbox' = [inbox EXCEPT ![s0] = Append(inbox[s0], job)]
      /\ UNCHANGED <<gw, outcome, tokens, queue, worker, sessions, faults, disturbed>>
  BY <1>1 DEF Send
<1>3. s0 \in Stages /\ inbox \in [Stages -> Seq(JobType)] /\ call \in [Callers -> CallType]
  BY <1>1, TargetStage DEF Lines, Types
<1>4. job \in JobType /\ job.req = Posted(c)
  BY <1>1, <1>2, JobIsJob DEF Lines
<1>5. ToSet(Append(inbox[s0], job)) = ToSet(inbox[s0]) \cup {job}
  BY <1>3, <1>4, AppendShape
<1>6. /\ \A d \in Callers : call'[d].state = "send" => call[d].state = "send" /\ d # c
      /\ call'[c].state = "wait"
  BY <1>2, <1>3 DEF CallType
<1>7. /\ Untroubled
      /\ \A s \in Stages : /\ Serving(s)' <=> Serving(s)
                           /\ Lined(s)' => Lined(s) \/ (s = s0 /\ Posted(c).id = gw.gen)
  <2>1. Untroubled
    BY <1>2 DEF Untroubled
  <2>2. ASSUME NEW s \in Stages
        PROVE  /\ Serving(s)' <=> Serving(s)
               /\ Lined(s)' => Lined(s) \/ (s = s0 /\ Posted(c).id = gw.gen)
    <3>1. Serving(s)' <=> Serving(s)
      BY <1>2 DEF Serving
    <3>2. ToSet(inbox'[s]) = IF s = s0 THEN ToSet(inbox[s]) \cup {job} ELSE ToSet(inbox[s])
      BY <1>2, <1>3, <1>5
    <3>3. ASSUME Lined(s)' PROVE Lined(s) \/ (s = s0 /\ Posted(c).id = gw.gen)
      BY <1>2, <1>4, <3>2, <3>3 DEF Lined
    <3> QED BY <3>1, <3>3
  <2> QED BY <2>1, <2>2
<1>8. ASSUME NEW s \in Stages, worker[s].state = "calling", call'[s].state = "send"
      PROVE  call[s].state = "send" /\ s # c
  <2>1. s \in Callers
    BY <1>8 DEF Lines, Types, WorkerFits
  <2> QED BY <1>6, <1>8, <2>1
<1>9. CASE Posted(c).id # gw.gen
  <2>1. \A s \in Stages : SameWork(s)
    BY <1>2, <1>7, <1>8, <1>9 DEF SameWork
  <2> QED BY <1>6, <1>7, <2>1, GeneratingFrame, StageNumbers
<1>10. CASE Posted(c).id = gw.gen
  <2>1. Undisturbed
    BY <1>7, UntroubledFacts
  <2>2. c = Gateway \/ (c \in Stages /\ Serving(c) /\ worker[c].state = "calling")
    <3>1. CASE c # Gateway
      <4>1. c \in Stages /\ worker[c].state = "calling"
        BY <1>2, <3>1, CallingWorker DEF Lines
      <4>2. Posted(c).id = worker[c].req.id
        BY <1>2, <3>1, JobIsJob DEF Lines
      <4> QED BY <1>10, <4>1, <4>2 DEF Serving
    <3> QED BY <3>1
  <2>3. ~Doomed
    <3> SUFFICES ASSUME NEW s \in Stages, Serving(s), worker[s].state = "replying" PROVE FALSE
      BY DEF Doomed
    <3>1. CASE c = Gateway
      BY <1>2, <2>1, <3>1 DEF Exclusive
    <3>2. CASE c # Gateway
      BY <1>2, <2>1, <2>2, <3>2 DEF Exclusive, Active
    <3> QED BY <3>1, <3>2
  <2>4. PICK k \in 0 .. NumStages : Prefix /\ IsFrame(gw.frame) /\ Marching(k)
    BY <2>1, <2>3, GeneratingMarches
  <2>5. k = s0 - 1
    <3>1. CASE c = Gateway
      BY <1>1, <1>2, <2>4, <3>1 DEF Marching, Target
    <3>2. CASE c # Gateway
      <4>1. k = c /\ s0 = c + 1 /\ c \in Nat
        BY <1>1, <1>2, <2>2, <2>4, <3>2, StageNumbers DEF Marching, Target
      <4> QED BY <4>1
    <3> QED BY <3>1, <3>2
  <2>6. /\ Prefix' /\ IsFrame(gw.frame)'
        /\ \A t \in Stages : Keeps(sessions[t], gw.gen, KvAt(k, t))'
    BY <1>2, <2>4 DEF Prefix, IsFrame, Before, After, Marching, Keeps, KvAt
  <2>7. ASSUME NEW s \in Stages
        PROVE  /\ Lined(s)' => k = s - 1
               /\ Serving(s)' => IsFrame(worker[s].out)'
               /\ Serving(s)' /\ worker'[s].state = "replying" => k = IF gw'.chain THEN NumStages ELSE s
               /\ Serving(s)' /\ worker'[s].state = "calling" /\ call'[s].state = "send" => k = s
    <3>1. /\ Lined(s) => k = s - 1
          /\ Serving(s) => IsFrame(worker[s].out)
          /\ Serving(s) /\ worker[s].state = "replying" => k = IF gw.chain THEN NumStages ELSE s
          /\ Serving(s) /\ worker[s].state = "calling" /\ call[s].state = "send" => k = s
      BY <2>4 DEF Marching
    <3>2. IsFrame(worker[s].out)' <=> IsFrame(worker[s].out)
      BY <1>2 DEF IsFrame, Before, After
    <3> QED BY <1>2, <1>7, <1>8, <2>5, <3>1, <3>2
  <2>8. call'[Gateway].state = "send" => k = gw'.hop - 1
    BY <1>2, <1>6, <2>4, StageNumbers DEF Marching
  <2>9. Marching(k)'
    BY <2>6, <2>7, <2>8 DEF Marching
  <2> QED BY <2>6, <2>9, HereNext DEF Here
<1> QED BY <1>9, <1>10

------------------------------------------------------------------------------
(* A call that is over leaves the generation in progress as it was, if it  *)
(* is another's or is sent again, and dooms it if it is its own and failed.*)

(* What a step makes of a stage before c gets its answer                   *)
Beside(s, w) ==
    /\ Lined(s)' => Lined(s)
    /\ (w.state # "idle" /\ w.req.id = gw.gen) <=> Serving(s)
    /\ Serving(s) => w.state = worker[s].state /\ w.status = worker[s].status /\ w.out = worker[s].out

LEMMA OthersGenerating ==
    ASSUME Lines, Generating, Undisturbed', NEW c \in Callers \ {Gateway}, NEW workers,
           Releases(c, workers), Posted(c).id # gw.gen, UNCHANGED <<tokens, sessions>>,
           \A s \in Stages : Beside(s, workers[s])
    PROVE  Generating'
<1>1. /\ call[c].state # "idle" /\ Released(c, workers) /\ WorkersFit(workers)
      /\ disturbed \subseteq disturbed' /\ gw' = gw
  BY DEF Releases, Released
<1>2. Untroubled
  BY <1>1 DEF Untroubled
<1>3. /\ \A s \in Stages \ {c} : worker'[s] = workers[s]
      /\ worker'[c].req = workers[c].req
  BY <1>1, ReleasedWorkers
<1>4. c \in Stages /\ worker[c].state = "calling" /\ Posted(c).id = worker[c].req.id
  BY <1>1, CallingWorker, JobIsJob DEF Lines
<1>5. workers[c].req = worker[c].req
  BY <1>1, <1>4 DEF WorkersFit
<1>6. \A d \in Callers : d # c => call'[d] = call[d]
  BY <1>1 DEF Released, Lines, Types
<1>7. ASSUME NEW s \in Stages PROVE SameWork(s)
  <2>1. Beside(s, workers[s])
    OBVIOUS
  <2>2. CASE s = c
    <3>1. ~Serving(s) /\ ~Serving(s)'
      BY <1>1, <1>3, <1>4, <1>5, <2>2 DEF Serving
    <3> QED BY <2>1, <3>1 DEF SameWork, Beside
  <2>3. CASE s # c
    <3>1. worker'[s] = workers[s]
      BY <1>3, <2>3
    <3>2. Serving(s)' <=> Serving(s)
      BY <1>1, <2>1, <3>1 DEF Serving, Beside
    <3>3. worker[s].state = "calling" => call'[s] = call[s]
      BY <1>6, <2>3 DEF Lines, Types, WorkerFits
    <3> QED BY <2>1, <3>1, <3>2, <3>3 DEF SameWork, Beside
  <2> QED BY <2>2, <2>3
<1>8. call'[Gateway] = call[Gateway]
  BY <1>6, StageNumbers
<1> QED BY <1>2, <1>7, <1>8, GeneratingFrame

LEMMA DoomGenerating ==
    ASSUME Lines, Generating, Undisturbed', NEW c \in Callers \ {Gateway}, NEW workers,
           Releases(c, workers), Posted(c).id = gw.gen, UNCHANGED <<tokens, sessions>>,
           call'[c].state = "idle", worker'[c].status # 200
    PROVE  Generating'
<1>1. /\ call[c].state # "idle" /\ Released(c, workers) /\ WorkersFit(workers)
      /\ disturbed \subseteq disturbed' /\ gw' = gw
  BY DEF Releases, Released
<1>2. Untroubled
  BY <1>1 DEF Untroubled
<1>3. c \in Stages /\ worker[c].state = "calling" /\ Posted(c).id = worker[c].req.id
  BY <1>1, CallingWorker, JobIsJob DEF Lines
<1>4. workers[c].req = worker[c].req
  BY <1>1, <1>3 DEF WorkersFit
<1>5. /\ worker'[c].state # "idle" /\ worker'[c].state # "calling"
      /\ worker'[c].req = workers[c].req /\ WorkerFits(c, worker'[c])
  BY <1>1, <1>3, ReleasedWorkers
<1>6. worker'[c].state = "replying"
  BY <1>5, IdleIsNoWork DEF WorkerFits, WorkType
<1>7. Serving(c)'
  BY <1>1, <1>3, <1>4, <1>5 DEF Serving
<1>8. Doomed'
  BY <1>3, <1>6, <1>7 DEF Doomed
<1> QED BY <1>2, <1>8, GeneratingDoomed

(* The answer of a call that failed                                        *)
LEMMA FailedGenerating ==
    ASSUME Lines, Generating, Undisturbed', NEW c \in Callers \ {Gateway}, NEW workers,
           Releases(c, workers), UNCHANGED <<tokens, sessions>>,
           \A s \in Stages : Posted(c).id # gw.gen => Beside(s, workers[s]),
           NEW status, status # 200, NEW out,
           call' = [call EXCEPT ![c] = NotCalling],
           worker' = [workers EXCEPT ![c] = Replying(workers[c], status, out)]
    PROVE  Generating'
<1>1. CASE Posted(c).id # gw.gen
  BY <1>1, OthersGenerating
<1>2. CASE Posted(c).id = gw.gen
  <2>1. call[c].state # "idle" /\ WorkersFit(workers)
    BY DEF Releases
  <2>2. NotCalling.state = "idle"
    BY DEF NotCalling
  <2> HIDE DEF NotCalling
  <2>3. call'[c].state = "idle"
    BY <2>2 DEF Lines, Types
  <2>4. c \in Stages /\ workers[c] \in WorkType
    <3>1. c \in Stages /\ worker[c].state = "calling"
      BY <2>1, CallingWorker DEF Lines
    <3>2. workers[c].state = "calling" /\ WorkerFits(c, workers[c])
      BY <2>1, <3>1 DEF WorkersFit
    <3> QED BY <3>1, <3>2, IdleIsNoWork DEF WorkerFits
  <2>5. Replying(workers[c], status, out).status = status
    BY <2>4 DEF Replying, WorkType
  <2> HIDE DEF Replying
  <2>6. worker'[c] = Replying(workers[c], status, out)
    BY <2>1, <2>4 DEF WorkersFit
  <2> QED BY <1>2, <2>3, <2>5, <2>6, DoomGenerating
<1> QED BY <1>1, <1>2

LEMMA ResendGenerating ==
    ASSUME Lines, Generating, Undisturbed', UNCHANGED <<gw, tokens, sessions>>,
           disturbed \subseteq disturbed', \A s \in Stages : Beside(s, worker'[s]),
           \A c \in Callers : call'[c].state = "send" => call[c].state = "send"
    PROVE  Generating'
<1>1. Untroubled
  BY DEF Untroubled
<1>2. ASSUME NEW s \in Stages PROVE SameWork(s)
  <2>1. worker[s].state = "calling" => s \in Callers
    BY DEF Lines, Types, WorkerFits
  <2>2. Beside(s, worker'[s])
    OBVIOUS
  <2>3. Serving(s)' <=> Serving(s)
    BY <2>2 DEF Beside, Serving
  <2> QED BY <2>1, <2>2, <2>3 DEF SameWork, Beside
<1> QED BY <1>1, <1>2, GeneratingFrame, StageNumbers

LEMMA StillBeside ==
    ASSUME UNCHANGED <<gw, inbox, queue>>, NEW s \in Stages
    PROVE  Beside(s, worker[s])
  BY DEF Beside, Lined, Serving

LEMMA DropsRequests ==
    ASSUME NEW old \in Seq(JobType), NEW c, NEW new, LineDrops(old, c, new)
    PROVE  \A x \in ToSet(new) : \E y \in ToSet(old) : x.req = y.req
<1>1. PICK n \in Nat : n = Len(old)
  OBVIOUS
<1>2. /\ DOMAIN old = 1 .. n /\ DOMAIN new = 1 .. n
      /\ \A i \in 1 .. n : new[i].req = old[i].req
  BY <1>1 DEF LineDrops, Drops
<1> QED BY <1>2 DEF ToSet

LEMMA LeavesBeside ==
    ASSUME Lines, gw' = gw, NEW c \in Callers, NEW workers, LeavesAt(c, workers), NEW s \in Stages
    PROVE  Beside(s, workers[s])
<1>1. PICK s0 : s0 = Target(c)
  OBVIOUS
<1>2. /\ DropsAt(s0, c, workers)
      /\ s # s0 => inbox'[s] = inbox[s] /\ queue'[s] = queue[s] /\ workers[s] = worker[s]
  BY <1>1 DEF LeavesAt
<1>3. CASE s = s0
  <2>1. inbox[s] \in Seq(JobType) /\ queue[s] \in Seq(JobType)
    BY DEF Lines, Types
  <2>2. /\ \A x \in ToSet(inbox'[s]) : \E y \in ToSet(inbox[s]) : x.req = y.req
        /\ \A x \in ToSet(queue'[s]) : \E y \in ToSet(queue[s]) : x.req = y.req
    BY <1>2, <1>3, <2>1, DropsRequests DEF DropsAt
  <2>3. Lined(s)' => Lined(s)
    BY <2>2 DEF Lined
  <2>4. WorkerDrops(worker[s], c, workers[s])
    BY <1>2, <1>3 DEF DropsAt
  <2> QED BY <2>3, <2>4 DEF Beside, WorkerDrops, Drops, Serving
<1>4. CASE s # s0
  BY <1>2, <1>4 DEF Beside, Lined, Serving
<1> QED BY <1>3, <1>4

LEMMA AttemptFailsTo ==
    ASSUME Lines, Undisturbed', NEW c \in Callers, NEW workers, AttemptFails(c, workers)
    PROVE  /\ gw' = gw
           /\ \/ /\ worker' = workers
                 /\ \A d \in Callers : call'[d].state = "send" => d = c \/ call[d].state = "send"
              \/ /\ c # Gateway
                 /\ call' = [call EXCEPT ![c] = NotCalling]
                 /\ \E status, out : status # 200 /\ worker' = [workers EXCEPT ![c] = Replying(workers[c], status, out)]
<1>1. CASE call[c].attempt = 1
  <2> DEFINE again == [state |-> "send", attempt |-> 2]
  <2>1. call' = [call EXCEPT ![c] = again] /\ worker' = workers /\ gw' = gw
    BY <1>1 DEF AttemptFails
  <2> HIDE DEF again
  <2>2. \A d \in Callers : d # c => call'[d] = call[d]
    BY <2>1 DEF Lines, Types
  <2> QED BY <2>1, <2>2
<1>2. CASE call[c].attempt # 1 /\ c = Gateway
  <2>1. gw' = NoGeneration
    BY <1>2 DEF AttemptFails, GenerationEnds
  <2> QED BY <2>1 DEF NoGeneration, Undisturbed
<1>3. CASE call[c].attempt # 1 /\ c # Gateway
  <2>1. PICK status, out : status = 400 /\ out = <<>>
    OBVIOUS
  <2>2. /\ call' = [call EXCEPT ![c] = NotCalling] /\ gw' = gw
        /\ worker' = [workers EXCEPT ![c] = Replying(workers[c], status, out)]
    BY <1>3, <2>1 DEF AttemptFails
  <2>3. status # 200
    BY <2>1
  <2> HIDE DEF NotCalling, Replying
  <2> QED BY <1>3, <2>2, <2>3
<1> QED BY <1>1, <1>2, <1>3

LEMMA SendFailsGenerating ==
    ASSUME Lines, AllCurrent, Generating, NEW c \in Callers, SendFails(c)
    PROVE  Generating'
<1> SUFFICES ASSUME Undisturbed' PROVE Generating'
  BY DEF Generating
<1>1. call[c].state = "send" /\ UNCHANGED <<tokens, sessions, disturbed>>
  BY DEF SendFails
<1>2. PICK workers : Releases(c, workers) /\ AttemptFails(c, workers) /\ LeavesAt(c, workers)
  BY SendFailsReleases
<1>3. /\ gw' = gw
      /\ \/ /\ worker' = workers
            /\ \A d \in Callers : call'[d].state = "send" => d = c \/ call[d].state = "send"
         \/ /\ c # Gateway
            /\ call' = [call EXCEPT ![c] = NotCalling]
            /\ \E status, out : status # 200 /\ worker' = [workers EXCEPT ![c] = Replying(workers[c], status, out)]
  BY <1>2, AttemptFailsTo
<1>4. \A s \in Stages : Beside(s, workers[s])
  BY <1>2, <1>3, LeavesBeside
<1>5. CASE /\ worker' = workers
           /\ \A d \in Callers : call'[d].state = "send" => d = c \/ call[d].state = "send"
  BY <1>1, <1>3, <1>4, <1>5, ResendGenerating
<1>6. CASE /\ c # Gateway
           /\ call' = [call EXCEPT ![c] = NotCalling]
           /\ \E status, out : status # 200 /\ worker' = [workers EXCEPT ![c] = Replying(workers[c], status, out)]
  <2>1. PICK status, out : status # 200 /\ worker' = [workers EXCEPT ![c] = Replying(workers[c], status, out)]
    BY <1>6
  <2> HIDE DEF NotCalling, Replying
  <2> QED BY <1>1, <1>2, <1>4, <1>6, <2>1, FailedGenerating
<1> QED BY <1>3, <1>5, <1>6

(* A timeout disturbs the generation whose call it was; a connection is    *)
(* lost only where a stage has restarted since.                            *)
LEMMA GivenUpGenerating ==
    ASSUME Lines, Generating, Undisturbed', NEW c \in Callers, NEW workers, Releases(c, workers),
           AttemptFails(c, workers), Posted(c).id \in disturbed', UNCHANGED <<tokens, sessions>>,
           gw' = gw => \A s \in Stages : Beside(s, workers[s])
    PROVE  Generating'
<1>1. gw' = gw
  BY AttemptFailsTo
<1>2. Posted(c).id # gw.gen
  BY <1>1 DEF Undisturbed
<1>3. c # Gateway
  BY <1>2 DEF Posted, Request
<1> QED BY <1>1, <1>2, <1>3, OthersGenerating

LEMMA ConnectionLostGenerating ==
    ASSUME Lines, AllCurrent, NoneLost, Generating, NEW c \in Callers, ConnectionLost(c)
    PROVE  Generating'
<1> SUFFICES ASSUME Undisturbed' PROVE Generating'
  BY DEF Generating
<1>1. /\ call[c].state = "wait" /\ AttemptFails(c, worker)
      /\ UNCHANGED <<tokens, inbox, queue, sessions, disturbed>>
  BY DEF ConnectionLost
<1>2. Releases(c, worker) /\ \A job \in JobsAt(Target(c)) : job.from # c
  BY ConnectionLostReleases
<1>3. Posted(c).id \in disturbed'
  BY <1>1, <1>2 DEF NoneLost
<1>4. gw' = gw => \A s \in Stages : Beside(s, worker[s])
  BY <1>1, StillBeside
<1> QED BY <1>1, <1>2, <1>3, <1>4, GivenUpGenerating

LEMMA TimeoutGenerating ==
    ASSUME Lines, AllCurrent, Generating, NEW c \in Callers, Timeout(c)
    PROVE  Generating'
<1> SUFFICES ASSUME Undisturbed' PROVE Generating'
  BY DEF Generating
<1>1. Posted(c).id \in disturbed' /\ UNCHANGED <<tokens, sessions>>
  BY DEF Timeout
<1>2. PICK workers : Releases(c, workers) /\ AttemptFails(c, workers) /\ LeavesAt(c, workers)
  BY TimeoutReleases
<1>3. gw' = gw => \A s \in Stages : Beside(s, workers[s])
  BY <1>2, LeavesBeside
<1> QED BY <1>1, <1>2, <1>3, GivenUpGenerating

(* The call that reads a late answer disturbs its own generation.          *)
LEMMA ReadsLateGenerating ==
    ASSUME Lines, AllCurrent, Generating, NEW c \in Callers, SendAndReadLate(c)
    PROVE  Generating'
<1> SUFFICES ASSUME Undisturbed' PROVE Generating'
  BY DEF Generating
<1>1. /\ Releases(c, worker) /\ c # Gateway
      /\ disturbed' = disturbed \cup {Posted(c).id}
      /\ UNCHANGED <<gw, tokens, sessions>>
  BY ReadsLateReleases
<1>2. Posted(c).id # gw.gen
  BY <1>1 DEF Undisturbed
<1>3. PICK answer \in unread[c + 1], job \in JobType :
         /\ job.req = Posted(c)
         /\ inbox' = IF answer.open
                     THEN [inbox EXCEPT ![c + 1] = Append(inbox[c + 1], job)]
                     ELSE inbox
  BY ReadsLateShape
<1>4. inbox \in [Stages -> Seq(JobType)] /\ queue' = queue
  BY DEF SendAndReadLate, Lines, Types
<1>5. ASSUME NEW s \in Stages PROVE Beside(s, worker[s])
  <2>1. inbox'[s] = inbox[s] \/ inbox'[s] = Append(inbox[s], job)
    BY <1>3, <1>4
  <2>2. ToSet(inbox'[s]) \subseteq ToSet(inbox[s]) \cup {job}
    <3>1. inbox[s] \in Seq(JobType)
      BY <1>4
    <3>2. ToSet(Append(inbox[s], job)) = ToSet(inbox[s]) \cup {job}
      BY <1>3, <3>1, AppendShape
    <3> QED BY <2>1, <3>2
  <2>3. Lined(s)' => Lined(s)
    BY <1>1, <1>2, <1>3, <1>4, <2>2 DEF Lined
  <2> QED BY <2>3 DEF Beside, Serving
<1> QED BY <1>1, <1>2, <1>5, OthersGenerating

(* The queue is full, or the answer comes.                                 *)
LEMMA RefusedGenerating ==
    ASSUME Lines, Owed, AllCurrent, Generating, NEW s \in Stages, NEW i \in DOMAIN inbox[s],
           Submit(s, i), ~(Len(queue[s]) < QueueSize), Heard(s, inbox[s][i])
    PROVE  Generating'
<1> SUFFICES ASSUME Undisturbed' PROVE Generating'
  BY DEF Generating
<1>1. PICK c, id, status, out : /\ c = Reader(s, inbox[s][i]) /\ id = inbox[s][i].req.id
                                /\ status = 429 /\ out = <<>>
  OBVIOUS
<1>2. Releases(c, worker) /\ UNCHANGED <<queue, sessions>>
  BY <1>1, RefusedReleases
<1>3. c \in Callers /\ status # 200
  BY <1>1, <1>2 DEF Releases
<1>4. CallerGets(c, id, status, out, worker)
  BY <1>1, RefusedReleases
<1>5. c # Gateway
  <2> SUFFICES ASSUME c = Gateway PROVE FALSE
    OBVIOUS
  <2>1. GatewayGets(status, out)
    BY <1>4 DEF CallerGets
  <2>2. gw' = NoGeneration
    BY <1>3, <2>1 DEF GatewayGets, GenerationEnds
  <2> QED BY <2>2 DEF NoGeneration, Undisturbed
<1>6. /\ call' = [call EXCEPT ![c] = NotCalling] /\ gw' = gw /\ tokens' = tokens
      /\ worker' = [worker EXCEPT ![c] = Replying(worker[c], 502, <<>>)]
  <2>1. status # 200 /\ status # Undecodable
    BY <1>1 DEF Undecodable
  <2> HIDE DEF NotCalling, Replying
  <2> QED BY <1>4, <1>5, <2>1 DEF CallerGets
<1>7. ASSUME NEW t \in Stages PROVE Beside(t, worker[t])
  <2>1. PICK in : in = RemoveAt(inbox[s], i)
    OBVIOUS
  <2>2. LineDrops(in, c, inbox'[s]) /\ \A u \in Stages \ {s} : inbox'[u] = inbox[u]
    BY <1>1, <2>1, RefusalEnds
  <2>3. in \in Seq(JobType) /\ ToSet(in) \subseteq ToSet(inbox[s])
    BY <2>1, SubmitJob
  <2>4. \A x \in ToSet(inbox'[t]) : \E y \in ToSet(inbox[t]) : x.req = y.req
    BY <2>2, <2>3, DropsRequests
  <2>5. Lined(t)' => Lined(t)
    BY <1>2, <1>6, <2>4 DEF Lined
  <2> QED BY <1>6, <2>5 DEF Beside, Serving
<1>8. PICK status2, out2 : status2 = 502 /\ out2 = <<>>
  OBVIOUS
<1>9. /\ status2 # 200 /\ worker' = [worker EXCEPT ![c] = Replying(worker[c], status2, out2)]
  BY <1>6, <1>8
<1> HIDE DEF NotCalling, Replying
<1>10. /\ c \in Callers \ {Gateway} /\ Releases(c, worker) /\ UNCHANGED <<tokens, sessions>>
       /\ \A t \in Stages : Posted(c).id # gw.gen => Beside(t, worker[t])
       /\ call' = [call EXCEPT ![c] = NotCalling]
  BY <1>2, <1>3, <1>5, <1>6, <1>7
<1> QED BY ONLY Lines, Generating, Undisturbed', <1>9, <1>10, FailedGenerating

(* An answer that succeeds comes from the frontier and is the reference's. *)
LEMMA AnswerIsFrame ==
    ASSUME Lines, AllCurrent, Exclusive, Generating, Undisturbed, NEW s \in Stages,
           worker[s].state = "replying", worker[s].status = 200, Serving(s)
    PROVE  /\ Prefix /\ IsFrame(gw.frame) /\ IsFrame(worker[s].out)
           /\ \E k \in 0 .. NumStages : /\ Advanced(k) /\ Marching(k)
                                        /\ k = IF gw.chain THEN NumStages ELSE s
           /\ Last(worker[s].out) = After
           /\ worker[s].from = IF gw.chain THEN s - 1 ELSE Gateway
<1>1. ~Doomed
  <2> SUFFICES ASSUME NEW t \in Stages, Serving(t), worker[t].state = "replying", worker[t].status # 200
               PROVE  FALSE
    BY DEF Doomed
  <2>1. Active(s) /\ Active(t)
    BY DEF Active
  <2> QED BY <2>1 DEF Exclusive
<1>2. PICK k \in 0 .. NumStages : Prefix /\ IsFrame(gw.frame) /\ Advanced(k) /\ Marching(k)
  BY <1>1, GeneratingMarches
<1>3. IsFrame(worker[s].out) /\ k = IF gw.chain THEN NumStages ELSE s
  BY <1>2 DEF Marching
<1>4. Last(worker[s].out) = After
  <2>1. /\ gw.index \in Nat /\ PromptLen \in Nat \ {0}
    BY PipelineAssumption DEF PipelineAssumption, Lines, Types, GenerationFits, GenerationType
  <2>2. PICK n \in Nat : n = After - Before /\ n >= 1 /\ Before + n = After
    BY <2>1 DEF After, Before
  <2>3. Len(worker[s].out) = n /\ worker[s].out[n] = Before + n
    BY <1>3, <2>2 DEF IsFrame
  <2> QED BY <2>2, <2>3 DEF Last
<1>5. Current(s, worker[s])
  BY CallingCurrent DEF Serving, Undisturbed
<1>6. worker[s].from = IF gw.chain THEN s - 1 ELSE Gateway
  <2>1. gw.chain \in BOOLEAN
    BY DEF Lines, Types, GenerationFits, GenerationType
  <2> QED BY <1>5, <2>1 DEF Current
<1> QED BY <1>2, <1>3, <1>4, <1>6

LEMMA RelayedGenerating ==
    ASSUME Lines, Owed, AllCurrent, Exclusive, Generating, NEW s \in Stages, Reply(s),
           Heard(s, worker[s]), NEW c, c = Reader(s, worker[s]), c # Gateway
    PROVE  Generating'
<1> SUFFICES ASSUME Undisturbed' PROVE Generating'
  BY DEF Generating
<1>1. PICK workers, id, status, out :
         /\ workers = [worker EXCEPT ![s] = Idle]
         /\ id = worker[s].req.id /\ status = worker[s].status /\ out = worker[s].out
  OBVIOUS
<1>2. /\ Releases(c, workers) /\ CallerGets(c, id, status, out, workers)
      /\ s = Target(c) /\ call[c].state = "wait"
      /\ UNCHANGED <<queue, sessions>>
      /\ worker[s].from = Late => Posted(c).id \in disturbed'
      /\ worker[s].from # Late => Posted(c) = worker[s].req /\ UNCHANGED <<inbox, disturbed>>
  BY <1>1, RepliedReleases
<1>3. worker[s].state = "replying" /\ disturbed \subseteq disturbed'
  BY <1>2 DEF Reply, Releases
<1>4. c \in Callers \ {Gateway} /\ c # s
  BY <1>2, TargetStage DEF Releases, Lines
<1>5. workers[s] = Idle /\ \A t \in Stages \ {s} : workers[t] = worker[t]
  BY <1>1, <1>3, IdleWorkers
<1>15. PICK taken : taken = IF id = Posted(c).id THEN out ELSE [i \in DOMAIN out |-> Stray]
  OBVIOUS
<1> DEFINE answer == CASE status = 200         -> Replying(workers[c], 200, taken)
                       [] status = Undecodable -> Replying(workers[c], 400, <<>>)
                       [] OTHER                -> Replying(workers[c], 502, <<>>)
<1>6. /\ call' = [call EXCEPT ![c] = NotCalling] /\ UNCHANGED <<gw, outcome, tokens>>
      /\ worker' = [workers EXCEPT ![c] = answer]
  BY <1>2, <1>4, <1>15 DEF CallerGets
<1>7. \E new, given : /\ answer = Replying(workers[c], new, given)
                      /\ IF status = 200 THEN new = 200 /\ given = taken ELSE new # 200
  <2>1. PICK good, bad, undecoded, none : good = 200 /\ bad = 502 /\ undecoded = 400 /\ none = <<>>
    OBVIOUS
  <2>2. answer = CASE status = good        -> Replying(workers[c], good, taken)
                   [] status = Undecodable -> Replying(workers[c], undecoded, none)
                   [] OTHER                -> Replying(workers[c], bad, none)
    BY <2>1
  <2>3. good = 200 /\ bad # 200 /\ undecoded # 200 /\ Undecodable # good
    BY <2>1 DEF Undecodable
  <2> HIDE DEF answer, Replying
  <2>4. CASE status = good
    <3>1. answer = Replying(workers[c], good, taken) /\ status = 200
      BY <2>2, <2>3, <2>4
    <3> WITNESS good, taken
    <3> QED BY <2>3, <3>1
  <2>5. CASE status # good /\ status = Undecodable
    <3>1. answer = Replying(workers[c], undecoded, none) /\ status # 200 /\ undecoded # 200
      BY <2>2, <2>3, <2>5
    <3> WITNESS undecoded, none
    <3> QED BY <3>1
  <2>6. CASE status # good /\ status # Undecodable
    <3>1. answer = Replying(workers[c], bad, none) /\ status # 200 /\ bad # 200
      BY <2>2, <2>3, <2>6
    <3> WITNESS bad, none
    <3> QED BY <3>1
  <2> QED BY <2>4, <2>5, <2>6
<1> HIDE DEF answer, NotCalling, Replying
<1>8. PICK new, given : /\ answer = Replying(workers[c], new, given)
                        /\ IF status = 200 THEN new = 200 /\ given = taken ELSE new # 200
  BY <1>7
<1>9. /\ worker' = [workers EXCEPT ![c] = Replying(workers[c], new, given)]
      /\ IF status = 200 THEN new = 200 /\ given = taken ELSE new # 200
  BY <1>6, <1>8
<1>10. ASSUME Posted(c).id # gw.gen, NEW t \in Stages PROVE Beside(t, workers[t])
  <2>1. CASE t = s
    <3>1. worker[s].from = Late => AsJob(worker[s]).req.id \in disturbed
      <4>1. AsJob(worker[s]) \in JobsAt(s) /\ AsJob(worker[s]).from = worker[s].from
        BY <1>3, ServedJob
      <4> QED BY <4>1, LateDisturbed, StageNumbers
    <3>2. ~Serving(s)
      BY <1>2, <1>3, <1>6, <1>10, <3>1, ServedJob DEF Serving, Undisturbed
    <3>3. LineDrops(inbox[s], c, inbox'[s]) /\ inbox[s] \in Seq(JobType)
      BY <1>1, ReplyEnds DEF Lines, Types
    <3>4. \A x \in ToSet(inbox'[s]) : \E y \in ToSet(inbox[s]) : x.req = y.req
      BY <3>3, DropsRequests
    <3>5. Lined(s)' => Lined(s)
      BY <1>2, <1>6, <3>4 DEF Lined
    <3> QED BY <1>5, <2>1, <3>2, <3>5, IdleIsNoWork DEF Beside
  <2>2. CASE t # s
    <3>1. inbox'[t] = inbox[t]
      BY <1>1, <2>2, ReplyEnds
    <3> QED BY <1>2, <1>5, <1>6, <2>2, <3>1 DEF Beside, Lined, Serving
  <2> QED BY <2>1, <2>2
<1>11. UNCHANGED <<tokens, sessions>>
  BY <1>2, <1>6
<1>12. CASE Posted(c).id # gw.gen
  BY <1>2, <1>4, <1>10, <1>11, <1>12, OthersGenerating
<1>13. CASE status # 200
  <2>1. new # 200 /\ worker' = [workers EXCEPT ![c] = Replying(workers[c], new, given)]
    BY <1>9, <1>13
  <2>2. \A t \in Stages : Posted(c).id # gw.gen => Beside(t, workers[t])
    BY <1>10
  <2>3. /\ c \in Callers \ {Gateway} /\ Releases(c, workers)
        /\ call' = [call EXCEPT ![c] = NotCalling]
    BY <1>2, <1>4, <1>6
  <2> QED BY ONLY Lines, Generating, Undisturbed', <1>11, <2>1, <2>2, <2>3, FailedGenerating
<1>14. CASE Posted(c).id = gw.gen /\ status = 200
  <2>15. worker[s].from # Late
    BY <1>2, <1>6, <1>14 DEF Undisturbed
  <2>16. /\ Posted(c) = worker[s].req /\ c = worker[s].from /\ taken = out
         /\ UNCHANGED <<inbox, queue, sessions, disturbed>>
    BY <1>1, <1>2, <1>15, <2>15 DEF Reader
  <2>1. Undisturbed /\ Serving(s)
    BY <1>3, <1>6, <1>14, <2>16 DEF Undisturbed, Serving
  <2>2. /\ Prefix /\ IsFrame(gw.frame) /\ IsFrame(out)
        /\ \E k \in 0 .. NumStages : /\ Advanced(k) /\ Marching(k)
                                     /\ k = IF gw.chain THEN NumStages ELSE s
        /\ c = IF gw.chain THEN s - 1 ELSE Gateway
    <3>1. worker[s].status = 200 /\ out = worker[s].out
      BY <1>1, <1>14
    <3> QED BY <1>3, <2>1, <2>16, <3>1, AnswerIsFrame
  <2>3. gw.chain
    BY <1>4, <2>2
  <2>4. PICK k \in 0 .. NumStages : Marching(k) /\ k = NumStages
    BY <2>2, <2>3
  <2>5. c \in Stages /\ worker[c].state = "calling" /\ workers[c] \in WorkType
    <3>1. c \in Stages /\ worker[c].state = "calling"
      BY <1>2, <1>4, CallingWorker DEF Lines
    <3>2. workers[c] = worker[c]
      BY <1>4, <1>5, <3>1
    <3> QED BY <3>1, <3>2, WorkingJob
  <2>6. /\ Replying(workers[c], new, given).state = "replying"
        /\ Replying(workers[c], new, given).out = out
    BY <1>9, <1>14, <2>5, <2>16 DEF Replying, WorkType
  <2>7. workers = [t \in Stages |-> workers[t]]
    BY <1>2 DEF Releases, WorkersFit
  <2>8. /\ worker'[c] = Replying(workers[c], new, given)
        /\ \A t \in Stages \ {c} : worker'[t] = workers[t]
    BY <1>9, <2>5, <2>7
  <2>9. worker'[s].state = "idle" /\ \A t \in Stages \ {c, s} : worker'[t] = worker[t]
    BY <1>4, <1>5, <2>8, IdleIsNoWork
  <2>10. \A d \in Callers : d # c => call'[d] = call[d]
    BY <1>6 DEF Lines, Types
  <2>11. /\ Prefix' /\ IsFrame(gw.frame)' /\ IsFrame(out)'
         /\ \A t \in Stages : Keeps(sessions[t], gw.gen, KvAt(k, t))'
         /\ \A frame : IsFrame(frame)' <=> IsFrame(frame)
    <3>1. Before' = Before /\ After' = After
      BY <1>6 DEF Before, After
    <3>2. \A frame : IsFrame(frame)' <=> IsFrame(frame)
      BY <3>1 DEF IsFrame
    <3>3. IsFrame(gw.frame)' /\ IsFrame(out)'
      BY <1>6, <2>2, <3>1 DEF IsFrame
    <3>4. Prefix'
      BY <1>6, <2>2 DEF Prefix
    <3>5. \A t \in Stages : Keeps(sessions[t], gw.gen, KvAt(k, t))'
      BY <1>6, <2>4, <2>16, <3>1 DEF Marching, Keeps, KvAt
    <3> QED BY <3>2, <3>3, <3>4, <3>5
  <2>12. ASSUME NEW t \in Stages
         PROVE  /\ Lined(t)' => k = t - 1
                /\ Serving(t)' => IsFrame(worker[t].out)'
                /\ Serving(t)' /\ worker'[t].state = "replying" => k = IF gw'.chain THEN NumStages ELSE t
                /\ Serving(t)' /\ worker'[t].state = "calling" /\ call'[t].state = "send" => k = t
    <3>1. Lined(t)' => k = t - 1
      BY <1>6, <2>4, <2>16 DEF Lined, Marching
    <3>2. CASE t = s
      BY <2>9, <3>1, <3>2 DEF Serving
    <3>3. CASE t = c
      BY <1>6, <2>3, <2>4, <2>6, <2>8, <2>11, <3>1, <3>3 DEF Serving, IsFrame
    <3>4. CASE t # s /\ t # c
      <4>1. worker'[t] = worker[t] /\ (Serving(t)' <=> Serving(t))
        BY <1>6, <2>9, <3>4 DEF Serving
      <4>2. worker[t].state = "calling" => call'[t] = call[t]
        BY <2>10, <3>4 DEF Lines, Types, WorkerFits
      <4>3. IsFrame(worker[t].out)' <=> IsFrame(worker[t].out)
        BY <2>11, <4>1 DEF IsFrame
      <4> QED BY <1>6, <2>4, <3>1, <4>1, <4>2, <4>3 DEF Marching
    <3> QED BY <3>2, <3>3, <3>4
  <2>13. call'[Gateway].state = "send" => k = gw'.hop - 1
    BY <1>4, <1>6, <2>4, <2>10, StageNumbers DEF Marching
  <2>14. Marching(k)'
    BY <2>11, <2>12, <2>13 DEF Marching
  <2> QED BY <2>11, <2>14, HereNext DEF Here
<1> QED BY <1>12, <1>13, <1>14

(* The gateway posts the frame it got to the next stage.                   *)
LEMMA HopGenerating ==
    ASSUME Lines, AllCurrent, Exclusive, Generating, Undisturbed', NEW s \in Stages, Serving(s),
           worker[s].state = "replying", worker[s].status = 200, s = Target(Gateway),
           ~gw.chain, HopAnswers(worker[s].out), worker' = [worker EXCEPT ![s] = Idle],
           UNCHANGED <<inbox, queue, sessions, disturbed>>
    PROVE  Generating'
<1>1. PICK out : out = worker[s].out
  OBVIOUS
<1>2. /\ gw' = [gw EXCEPT !.hop = @ + 1, !.frame = out]
      /\ call' = [call EXCEPT ![Gateway] = FirstTry]
      /\ UNCHANGED <<outcome, tokens>>
  BY <1>1 DEF HopAnswers
<1>3. gw \in GenerationType /\ gw.hop \in Nat /\ s = gw.hop
  BY StageNumbers DEF Lines, Types, GenerationFits, GenerationType, Target
<1>4. /\ gw'.gen = gw.gen /\ gw'.index = gw.index /\ gw'.chain = gw.chain /\ gw'.min = gw.min
      /\ gw'.running = gw.running /\ gw'.hop = gw.hop + 1 /\ gw'.frame = out
  BY <1>2, <1>3 DEF GenerationType
<1>5. Undisturbed
  BY <1>4 DEF Undisturbed
<1>6. PICK k \in 0 .. NumStages : Marching(k) /\ k = s /\ Prefix /\ IsFrame(out)
  BY <1>1, <1>5, AnswerIsFrame
<1>7. Before' = Before /\ After' = After
  BY <1>4 DEF Before, After
<1>8. \A frame : IsFrame(frame)' <=> IsFrame(frame)
  BY <1>7 DEF IsFrame
<1>9. IsFrame(gw.frame)'
  BY <1>4, <1>6, <1>7 DEF IsFrame
<1>10. Prefix'
  BY <1>2, <1>4, <1>6 DEF Prefix
<1>11. \A t \in Stages : Keeps(sessions[t], gw.gen, KvAt(k, t))'
  BY <1>4, <1>6, <1>7 DEF Marching, Keeps, KvAt
<1>12. /\ worker'[s] = Idle /\ \A t \in Stages \ {s} : worker'[t] = worker[t]
       /\ \A d \in Callers : d # Gateway => call'[d] = call[d]
  BY <1>2, IdleWorkers DEF Lines, Types
<1>13. ASSUME NEW t \in Stages
       PROVE  /\ Lined(t)' => k = t - 1
              /\ Serving(t)' => IsFrame(worker[t].out)'
              /\ Serving(t)' /\ worker'[t].state = "replying" => k = IF gw'.chain THEN NumStages ELSE t
              /\ Serving(t)' /\ worker'[t].state = "calling" /\ call'[t].state = "send" => k = t
  <2>1. Lined(t)' => k = t - 1
    BY <1>4, <1>6 DEF Lined, Marching
  <2>2. CASE t = s
    BY <1>12, <2>1, <2>2, IdleIsNoWork DEF Serving
  <2>3. CASE t # s
    <3>1. worker'[t] = worker[t] /\ (Serving(t)' <=> Serving(t))
      BY <1>4, <1>12, <2>3 DEF Serving
    <3>2. worker[t].state = "calling" => call'[t] = call[t]
      BY <1>12 DEF Lines, Types, WorkerFits, Stages, Gateway
    <3>3. IsFrame(worker[t].out)' <=> IsFrame(worker[t].out)
      BY <1>7, <3>1 DEF IsFrame
    <3> QED BY <1>4, <1>6, <2>1, <3>1, <3>2, <3>3 DEF Marching
  <2> QED BY <2>2, <2>3
<1>14. k = gw'.hop - 1
  BY <1>3, <1>4, <1>6
<1>15. Marching(k)'
  BY <1>11, <1>13, <1>14 DEF Marching
<1> QED BY <1>9, <1>10, <1>15, HereNext DEF Here

(* The last stage has answered: the next step begins.                      *)
LEMMA TokenGenerating ==
    ASSUME Lines, Lines', AllCurrent, Exclusive, Exclusive', Generating, Undisturbed',
           NEW s \in Stages, Serving(s),
           worker[s].state = "replying", worker[s].status = 200, s = Target(Gateway),
           gw.chain \/ gw.hop = NumStages,
           TokenArrives(worker[s].out), worker' = [worker EXCEPT ![s] = Idle],
           UNCHANGED <<inbox, queue, sessions, disturbed>>
    PROVE  Generating'
<1>1. PICK out, isRef, marker :
         /\ out = worker[s].out /\ isRef = (Last(out) = PromptLen + gw.index)
         /\ tokens' = [tokens EXCEPT ![gw.gen] = Append(@, isRef)]
         /\ marker \in MayBeMarker(isRef, gw.index)
         /\ IF gw.index + 1 = MaxNew \/ StopsAfter(gw.index + 1, gw.min, marker)
            THEN GenerationEnds("ok")
            ELSE /\ gw' = [gw EXCEPT !.index = @ + 1, !.hop = 1,
                                     !.frame = <<IF isRef THEN PromptLen + gw.index + 1 ELSE Stray>>]
                 /\ call' = [call EXCEPT ![Gateway] = FirstTry]
  BY DEF TokenArrives
<1>2. ~(gw.index + 1 = MaxNew \/ StopsAfter(gw.index + 1, gw.min, marker))
  <2> SUFFICES ASSUME GenerationEnds("ok") PROVE FALSE
    BY <1>1
  <2>1. gw' = NoGeneration
    BY DEF GenerationEnds
  <2> QED BY <2>1 DEF NoGeneration, Undisturbed
<1>3. gw \in GenerationType /\ gw.index \in Nat /\ gw.hop \in Nat /\ s = gw.hop
  BY StageNumbers DEF Lines, Types, GenerationFits, GenerationType, Target
<1>4. PICK frame, index : /\ frame = <<IF isRef THEN PromptLen + gw.index + 1 ELSE Stray>>
                          /\ index = gw.index + 1
  OBVIOUS
<1>5. /\ gw' = [gw EXCEPT !.index = index, !.hop = 1, !.frame = frame]
       /\ call' = [call EXCEPT ![Gateway] = FirstTry]
  BY <1>1, <1>2, <1>3, <1>4 DEF GenerationType
<1>6. /\ gw'.gen = gw.gen /\ gw'.index = index /\ gw'.chain = gw.chain /\ gw'.min = gw.min
       /\ gw'.running = gw.running /\ gw'.hop = 1 /\ gw'.frame = frame
  BY <1>3, <1>5 DEF GenerationType
<1>7. /\ gw'.gen = gw.gen /\ gw'.index = gw.index + 1 /\ gw'.chain = gw.chain /\ gw'.min = gw.min
      /\ gw'.running = gw.running /\ gw'.hop = 1
      /\ gw'.frame = <<IF isRef THEN PromptLen + gw.index + 1 ELSE Stray>>
      /\ call' = [call EXCEPT ![Gateway] = FirstTry]
  BY <1>4, <1>5, <1>6
<1>8. Undisturbed
  BY <1>7 DEF Undisturbed
<1>9. PICK k \in 0 .. NumStages : /\ Marching(k) /\ k = (IF gw.chain THEN NumStages ELSE s)
                                  /\ Prefix /\ Last(out) = After
  BY <1>1, <1>8, AnswerIsFrame
<1>10. k = NumStages
  BY <1>3, <1>9
<1>11. isRef = TRUE
  BY <1>1, <1>9 DEF After
<1>12. PromptLen \in Nat \ {0}
  BY PipelineAssumption DEF PipelineAssumption
<1>13. Before' = After /\ After' = After + 1 /\ After # 0 /\ After \in Nat
  BY <1>3, <1>7, <1>12 DEF Before, After
<1>14. IsFrame(gw.frame)'
  <2>1. gw'.frame = <<After + 1>>
    BY <1>3, <1>7, <1>11, <1>12 DEF After
  <2> QED BY <1>13, <2>1 DEF IsFrame
<1>15. Prefix'
  <2>1. gw.gen \in Requests /\ tokens \in [Requests -> Seq(BOOLEAN)]
    BY <1>8 DEF Lines, Types, GenerationFits, Undisturbed
  <2>2. tokens'[gw.gen] = Append(tokens[gw.gen], TRUE) /\ tokens[gw.gen] \in Seq(BOOLEAN)
    BY <1>1, <1>11, <2>1
  <2>3. /\ Len(tokens[gw.gen]) = gw.index
        /\ \A i \in 1 .. gw.index : tokens[gw.gen][i] = TRUE /\ ~(i >= gw.min /\ i - 1 \in StopTokens)
    BY <1>9 DEF Prefix
  <2>4. ~(gw.index + 1 >= gw.min /\ gw.index \in StopTokens)
    BY <1>1, <1>2, <1>11 DEF MayBeMarker, StopsAfter
  <2>5. Len(tokens'[gw.gen]) = gw.index + 1
    BY <2>2, <2>3
  <2>6. ASSUME NEW i \in 1 .. gw.index + 1
        PROVE  tokens'[gw.gen][i] = TRUE /\ ~(i >= gw.min /\ i - 1 \in StopTokens)
    <3>1. CASE i = gw.index + 1
      <4>1. tokens'[gw.gen][i] = TRUE /\ i - 1 = gw.index
        BY <1>3, <2>2, <2>3, <3>1
      <4> QED BY <2>4, <3>1, <4>1
    <3>2. CASE i # gw.index + 1
      <4>1. i \in 1 .. gw.index
        BY <1>3, <3>2
      <4>2. tokens'[gw.gen][i] = tokens[gw.gen][i]
        <5>1. PICK old : old = tokens[gw.gen]
          OBVIOUS
        <5>2. old \in Seq(BOOLEAN) /\ tokens'[gw.gen] = Append(old, TRUE) /\ i \in 1 .. Len(old)
          BY <2>2, <2>3, <4>1, <5>1
        <5>3. Append(old, TRUE)[i] = old[i]
          BY ONLY <5>2
        <5> QED BY <5>1, <5>2, <5>3
      <4> QED BY <2>3, <4>1, <4>2
    <3> QED BY <3>1, <3>2
  <2> QED BY <1>7, <2>5, <2>6 DEF Prefix
<1>16. PICK z : z = 0
  OBVIOUS
<1>17. ASSUME NEW t \in Stages PROVE Keeps(sessions[t], gw.gen, KvAt(z, t))'
  <2>1. t <= k /\ ~(t <= z)
    BY <1>10, <1>16, StageNumbers DEF Stages
  <2>2. Keeps(sessions[t], gw.gen, After)
    BY <1>9, <2>1 DEF Marching, KvAt
  <2>3. KvAt(z, t)' = After
    BY <1>13, <2>1 DEF KvAt
  <2> QED BY <1>7, <2>2, <2>3 DEF Keeps
<1>18. call'[Gateway].state = "send"
  <2>1. FirstTry.state = "send"
    BY DEF FirstTry
  <2> HIDE DEF FirstTry
  <2> QED BY <1>7, <2>1, StageNumbers DEF Lines, Types
<1>19. \A t \in Stages : ~Lined(t)' /\ ~Serving(t)'
  BY <1>18 DEF Exclusive
<1>20. Marching(z)'
  BY <1>7, <1>16, <1>17, <1>19 DEF Marching
<1>21. z \in 0 .. NumStages
  BY <1>16, StageNumbers
<1> QED BY <1>14, <1>15, <1>20, <1>21, HereNext DEF Here

LEMMA AnsweredGenerating ==
    ASSUME Lines, Lines', Owed, AllCurrent, Exclusive, Exclusive', Generating, NEW s \in Stages, Reply(s),
           worker[s].from = Gateway
    PROVE  Generating'
<1> SUFFICES ASSUME Undisturbed' PROVE Generating'
  BY DEF Generating
<1>1. PICK c, workers, id, status, out :
         /\ c = Gateway /\ workers = [worker EXCEPT ![s] = Idle]
         /\ id = worker[s].req.id /\ status = worker[s].status /\ out = worker[s].out
  OBVIOUS
<1>2. c = Reader(s, worker[s]) /\ Heard(s, worker[s]) /\ worker[s].from # Late
  BY <1>1, StageNumbers DEF Reader, Heard
<1>3. /\ CallerGets(c, id, status, out, workers)
      /\ Posted(c) = worker[s].req /\ s = Target(c)
      /\ UNCHANGED <<inbox, queue, sessions, disturbed>>
  BY <1>1, <1>2, RepliedReleases
<1>4. worker[s].state = "replying" /\ UNCHANGED <<inbox, queue, sessions, disturbed>>
  BY <1>3 DEF Reply
<1>5. GatewayGets(status, out) /\ worker' = workers
  BY <1>1, <1>3 DEF CallerGets
<1>6. Serving(s)
  BY <1>1, <1>3, <1>4 DEF Posted, Request, Serving
<1>7. status = 200
  <2> SUFFICES ASSUME status # 200 PROVE FALSE
    OBVIOUS
  <2>1. gw' = NoGeneration
    BY <1>5 DEF GatewayGets, GenerationEnds
  <2> QED BY <2>1 DEF NoGeneration, Undisturbed
<1>8. CASE ~gw.chain /\ HopAnswers(out)
  BY <1>1, <1>3, <1>4, <1>5, <1>6, <1>7, <1>8, HopGenerating
<1>9. CASE (gw.chain \/ gw.hop = NumStages) /\ TokenArrives(out)
  BY <1>1, <1>3, <1>4, <1>5, <1>6, <1>7, <1>9, TokenGenerating
<1> QED BY <1>5, <1>7, <1>8, <1>9 DEF GatewayGets

(* The request at the front belongs to another generation.                 *)
LEMMA ExecuteOther ==
    ASSUME Lines, AllCurrent, NoneLost, Generating, Undisturbed', NEW s \in Stages, NEW result,
           Execute(s, result), NEW job, job = Head(queue[s]), job.req.id # gw.gen
    PROVE  Generating'
<1>1. PICK after : after = Forward(sessions[s], job.req, result)
  OBVIOUS
<1>2. /\ inbox' = inbox
      /\ ToSet(queue'[s]) \subseteq ToSet(queue[s])
      /\ \A t \in Stages \ {s} : queue'[t] = queue[t] /\ worker'[t] = worker[t]
                                 /\ sessions'[t] = sessions[t]
      /\ sessions'[s] = after.sessions
      /\ \A c \in Callers : c # s => call'[c] = call[c]
  BY <1>1, ExecuteLive
<1>3. /\ Ran(s, result, job, after)
      /\ \A q \in DOMAIN after.sessions \ {job.req.id} :
            q \in DOMAIN sessions[s] /\ after.sessions[q] = sessions[s][q]
  BY <1>1, RanSessions DEF Lines
<1>4. /\ UNCHANGED <<gw, tokens>> /\ worker[s].state = "idle"
      /\ disturbed' = disturbed \cup (DOMAIN sessions[s] \ DOMAIN after.sessions)
      /\ worker'[s].req = job.req
  BY <1>3 DEF Ran
<1>5. gw.gen \in DOMAIN sessions[s] => gw.gen \in DOMAIN after.sessions
  BY <1>4 DEF Undisturbed
<1>6. Untroubled
  <2>1. ASSUME NEW t \in Stages
        PROVE  /\ gw.gen \in DOMAIN sessions'[t] <=> gw.gen \in DOMAIN sessions[t]
               /\ gw.gen \in DOMAIN sessions[t] => sessions'[t][gw.gen] = sessions[t][gw.gen]
    <3>1. CASE t = s
      BY <1>2, <1>3, <1>5, <3>1
    <3>2. CASE t # s
      BY <1>2, <3>2
    <3> QED BY <3>1, <3>2
  <2> QED BY <1>4, <2>1 DEF Untroubled
<1>7. ASSUME NEW t \in Stages PROVE SameWork(t)
  <2>1. CASE t = s
    <3>1. ~Serving(s) /\ ~Serving(s)'
      BY <1>4 DEF Serving
    <3>2. Lined(s)' => Lined(s)
      BY <1>2, <1>4 DEF Lined
    <3> QED BY <2>1, <3>1, <3>2 DEF SameWork
  <2>2. CASE t # s
    <3>1. /\ queue'[t] = queue[t] /\ worker'[t] = worker[t] /\ inbox'[t] = inbox[t]
          /\ gw'.gen = gw.gen
      BY <1>2, <1>4, <2>2
    <3>2. (Lined(t)' <=> Lined(t)) /\ (Serving(t)' <=> Serving(t))
      BY <3>1 DEF Lined, Serving
    <3>3. worker[t].state = "calling" => call'[t] = call[t]
      BY <1>2, <2>2 DEF Lines, Types, WorkerFits
    <3> QED BY <3>1, <3>2, <3>3 DEF SameWork
  <2> QED BY <2>1, <2>2
<1>8. call'[Gateway] = call[Gateway]
  BY <1>2, StageNumbers DEF Stages, Gateway
<1> QED BY <1>6, <1>7, <1>8, GeneratingFrame

(* Until it is executed a request carries the reference run's frame, and   *)
(* the sessions of its stage are before it.                                *)
LEMMA FrontContinues ==
    ASSUME Lines, AllCurrent, Exclusive, Generating, Undisturbed, NEW s \in Stages,
           NEW job \in JobsAt(s), job.req.id = gw.gen, job \in ToSet(queue[s]), job \in JobType
    PROVE  /\ Prefix /\ IsFrame(gw.frame) /\ job.chain = gw.chain
           /\ Continues(job.req, Before, After - Before)
           /\ Keeps(sessions[s], gw.gen, Before)
           /\ Before # 0 => job.req.mode = "decode"
           /\ \E k \in 0 .. NumStages : Advanced(k) /\ Marching(k) /\ k = s - 1
<1>1. Lined(s)
  BY DEF Lined
<1>2. ~Doomed
  <2> SUFFICES ASSUME NEW t \in Stages, Serving(t), worker[t].state = "replying" PROVE FALSE
    BY DEF Doomed
  <2>1. t = s
    BY <1>1 DEF Exclusive, Active
  <2> QED BY <1>1, <2>1 DEF Exclusive
<1>3. PICK k \in 0 .. NumStages : Advanced(k) /\ Marching(k) /\ k = s - 1
  BY <1>1, <1>2 DEF Generating, Marching
<1>4. Prefix /\ IsFrame(gw.frame)
  BY DEF Generating
<1>5. Current(s, job)
  BY DEF AllCurrent, Undisturbed
<1>6. /\ call[job.from].state = "wait" /\ job.req = Posted(job.from) /\ job.from \in Callers
  BY <1>5 DEF Current, Lines, AllExpected, Expected
<1>7. IsFrame(job.req.tokens)
  <2>1. CASE job.from = Gateway
    BY <1>4, <1>6, <2>1 DEF Posted, Request
  <2>2. CASE job.from # Gateway
    <3>1. PICK c : c = job.from
      OBVIOUS
    <3>2. c \in Callers /\ call[c].state # "idle" /\ c # Gateway
      BY <1>6, <2>2, <3>1
    <3>3. c \in Stages /\ worker[c] \in WorkType /\ worker[c].state = "calling"
      BY <3>2, CallingWorker DEF Lines
    <3>4. job.req.id = worker[c].req.id /\ job.req.tokens = worker[c].out
      BY <1>6, <3>1, <3>2, <3>3 DEF Posted, WorkType, RequestType
    <3>5. Serving(c)
      BY <3>3, <3>4 DEF Serving
    <3> QED BY <1>3, <3>3, <3>4, <3>5 DEF Marching
  <2> QED BY <2>1, <2>2
<1>8. gw.index \in Nat /\ PromptLen \in Nat \ {0} /\ gw.gen \in Requests
  BY PipelineAssumption DEF PipelineAssumption, Lines, Types, GenerationFits, GenerationType, Undisturbed
<1>9. /\ Before \in Nat /\ After \in Nat /\ After - Before \in Nat /\ After # 0
      /\ gw.index = 0 => Before = 0
      /\ gw.index # 0 => After - Before = 1 /\ Before # 0
  BY <1>8 DEF Before, After
<1>10. job.req \in RequestType
  BY DEF JobType
<1>11. /\ IsRequest(job.req) /\ job.req.kv = TRUE /\ job.req.tokens # <<>>
       /\ job.req.mode = IF gw.index = 0 THEN "prefill" ELSE "decode"
  BY <1>5, <1>10, RequestIsRequest DEF RequestType, Frames, Current, Mode
<1>12. WellFormed(job.req)
  BY <1>7, <1>9, <1>11 DEF WellFormed, IsFrame
<1>13. Continues(job.req, Before, After - Before)
  BY <1>7, <1>11, <1>12 DEF Continues, IsFrame
<1>14. Keeps(sessions[s], gw.gen, Before)
  <2>1. ~(s <= k)
    BY <1>3, StageNumbers DEF Stages
  <2> QED BY <1>3, <2>1 DEF Marching, KvAt
<1> QED BY <1>3, <1>4, <1>5, <1>9, <1>11, <1>13, <1>14 DEF Current

(* It belongs to the generation: the stage executes the step.              *)
LEMMA ExecuteOwn ==
    ASSUME Lines, AllCurrent, NoneLost, Exclusive, Exclusive', Generating, Undisturbed',
           NEW s \in Stages, NEW result, Execute(s, result), NEW job, job = Head(queue[s]),
           job.req.id = gw.gen
    PROVE  Generating'
<1>1. PICK after : after = Forward(sessions[s], job.req, result)
  OBVIOUS
<1>2. /\ job \in ToSet(queue[s]) /\ job \in JobsAt(s) /\ inbox' = inbox
      /\ ToSet(queue'[s]) \subseteq ToSet(queue[s])
      /\ \A t \in Stages \ {s} : queue'[t] = queue[t] /\ worker'[t] = worker[t]
                                 /\ sessions'[t] = sessions[t]
      /\ sessions'[s] = after.sessions
      /\ \A c \in Callers : c # s => call'[c] = call[c]
  BY <1>1, ExecuteLive
<1>3. /\ Ran(s, result, job, after)
      /\ job.req.id \in DOMAIN after.sessions
  BY <1>1, RanSessions DEF Lines
<1>4. /\ UNCHANGED <<gw, outcome, tokens>> /\ worker[s].state = "idle"
      /\ disturbed \subseteq disturbed' /\ job \in JobType
      /\ SessionMap(sessions[s])
      /\ worker'[s].req = job.req
      /\ worker'[s].state = IF Relays(s, job, result) THEN "calling" ELSE "replying"
      /\ worker'[s].status = IF result = "done" THEN 200 ELSE 400
      /\ worker'[s].out = after.out
  BY <1>3 DEF Ran
<1>5. Undisturbed
  BY <1>4 DEF Undisturbed
<1>6. /\ Prefix /\ IsFrame(gw.frame) /\ job.chain = gw.chain
      /\ Continues(job.req, Before, After - Before)
      /\ Keeps(sessions[s], gw.gen, Before)
      /\ Before # 0 => job.req.mode = "decode"
      /\ \E k \in 0 .. NumStages : Advanced(k) /\ Marching(k) /\ k = s - 1
  BY <1>2, <1>4, <1>5, FrontContinues
<1>7. PICK k \in 0 .. NumStages : Advanced(k) /\ Marching(k) /\ k = s - 1
  BY <1>6
<1>8. PICK n, rows : n = After - Before /\ rows = Before
  OBVIOUS
<1>9. /\ n \in Nat /\ rows \in Nat /\ rows + n = After /\ After # 0
  <2>1. gw.index \in Nat /\ PromptLen \in Nat \ {0}
    BY PipelineAssumption DEF PipelineAssumption, Lines, Types, GenerationFits, GenerationType
  <2> QED BY <1>8, <2>1 DEF Before, After
<1>10. /\ Continues(job.req, rows, n) /\ Keeps(sessions[s], job.req.id, rows)
       /\ rows # 0 => job.req.mode = "decode"
  BY <1>6, <1>8
<1>11. /\ after.sessions[job.req.id].seqLen = rows + n
       /\ result = "done" => /\ Faithful(after.sessions[job.req.id], rows + n)
                             /\ Len(after.out) = n
                             /\ \A i \in 1 .. n : after.out[i] = rows + i
  <2>1. PICK S, req : S = sessions[s] /\ req = job.req
    OBVIOUS
  <2>2. /\ SessionMap(S) /\ rows \in Nat /\ n \in Nat /\ Continues(req, rows, n)
        /\ Keeps(S, req.id, rows) /\ (rows # 0 => req.mode = "decode")
        /\ after = Forward(S, req, result)
    BY <1>1, <1>4, <1>9, <1>10, <2>1
  <2>3. /\ after.sessions[req.id].seqLen = rows + n
        /\ result = "done" => /\ Faithful(after.sessions[req.id], rows + n)
                              /\ Len(after.out) = n
                              /\ \A i \in 1 .. n : after.out[i] = rows + i
    BY ONLY <2>2, ForwardMarches
  <2> QED BY <2>1, <2>3
<1>12. Before' = Before /\ After' = After /\ Prefix' /\ IsFrame(gw.frame)'
       /\ \A frame : IsFrame(frame)' <=> IsFrame(frame)
  <2>1. Before' = Before /\ After' = After
    BY <1>4 DEF Before, After
  <2> QED BY <1>4, <1>6, <2>1 DEF Prefix, IsFrame
<1>13. s \in 0 .. NumStages /\ s \in Nat /\ k \in Nat /\ s = k + 1
  BY <1>7, StageNumbers DEF Stages
<1>14. Serving(s)'
  BY <1>4, IdleIsNoWork DEF Serving
<1>15. CASE result # "done"
  <2>1. Doomed'
    <3>1. worker'[s].state = "replying" /\ worker'[s].status # 200
      BY <1>4, <1>15 DEF Relays
    <3> QED BY <1>14, <3>1 DEF Doomed
  <2>2. ASSUME NEW t \in Stages PROVE Held(t)' = KvAt(s, t)'
    <3>1. CASE t = s
      <4>1. Held(t)' = After
        BY <1>2, <1>3, <1>4, <1>9, <1>11, <3>1 DEF Held
      <4> QED BY <1>12, <1>13, <3>1, <4>1 DEF KvAt
    <3>2. CASE t # s
      <4>1. Held(t) = KvAt(k, t) /\ Held(t)' = Held(t)
        BY <1>2, <1>4, <1>7, <3>2 DEF Advanced, Held
      <4>2. t <= k <=> t <= s
        BY <1>13, <3>2, StageNumbers DEF Stages
      <4> QED BY <1>12, <4>1, <4>2 DEF KvAt
    <3> QED BY <3>1, <3>2
  <2>3. Advanced(s)'
    BY <2>2 DEF Advanced
  <2> QED BY <1>12, <1>13, <2>1, <2>3 DEF Generating
<1>16. CASE result = "done"
  <2>1. ASSUME NEW t \in Stages PROVE Keeps(sessions[t], gw.gen, KvAt(s, t))'
    <3>1. CASE t = s
      <4>1. KvAt(s, t)' = After
        BY <1>12, <1>13, <3>1 DEF KvAt
      <4>2. gw.gen \in DOMAIN sessions'[t] /\ Faithful(sessions'[t][gw.gen], After)
        BY <1>2, <1>3, <1>9, <1>11, <1>16, <3>1
      <4> QED BY <1>4, <1>9, <4>1, <4>2 DEF Keeps
    <3>2. CASE t # s
      <4>1. t <= k <=> t <= s
        BY <1>13, <3>2, StageNumbers DEF Stages
      <4>2. KvAt(s, t)' = KvAt(k, t)
        BY <1>12, <4>1 DEF KvAt
      <4>3. Keeps(sessions[t], gw.gen, KvAt(k, t))
        BY <1>7 DEF Marching
      <4> QED BY <1>2, <1>4, <3>2, <4>2, <4>3 DEF Keeps
    <3> QED BY <3>1, <3>2
  <2>2. Lined(s)
    BY <1>2 DEF Lined
  <2>3. call'[Gateway].state # "send"
    <3>1. call'[Gateway] = call[Gateway]
      BY <1>2, StageNumbers DEF Stages, Gateway
    <3> QED BY <1>5, <2>2, <3>1 DEF Exclusive
  <2>4. IsFrame(worker[s].out)'
    <3>1. Len(worker'[s].out) = n /\ \A i \in 1 .. n : worker'[s].out[i] = rows + i
      BY <1>4, <1>11, <1>16
    <3> QED BY <1>8, <1>12, <3>1 DEF IsFrame
  <2>5. ASSUME NEW t \in Stages
        PROVE  /\ Lined(t)' => s = t - 1
               /\ Serving(t)' => IsFrame(worker[t].out)'
               /\ Serving(t)' /\ worker'[t].state = "replying" => s = IF gw'.chain THEN NumStages ELSE t
               /\ Serving(t)' /\ worker'[t].state = "calling" /\ call'[t].state = "send" => s = t
    <3>1. CASE t = s
      <4>1. ~Lined(s)'
        BY <1>14 DEF Exclusive
      <4>2. worker'[s].state = "replying" => s = IF gw'.chain THEN NumStages ELSE s
        <5> SUFFICES ASSUME worker'[s].state = "replying", gw'.chain PROVE s = NumStages
          OBVIOUS
        <5>1. ~Relays(s, job, result) /\ job.chain
          BY <1>4, <1>6
        <5>2. ~(s < NumStages)
          BY <1>16, <5>1 DEF Relays
        <5> QED BY <1>13, <5>2, StageNumbers
      <4> QED BY <2>4, <3>1, <4>1, <4>2
    <3>2. CASE t # s
      <4>1. /\ queue'[t] = queue[t] /\ worker'[t] = worker[t] /\ inbox'[t] = inbox[t]
            /\ gw'.gen = gw.gen
        BY <1>2, <1>4, <3>2
      <4>2. (Lined(t)' <=> Lined(t)) /\ (Serving(t)' <=> Serving(t))
        BY <4>1 DEF Lined, Serving
      <4>3. worker[t].state = "calling" => call'[t] = call[t]
        BY <1>2, <3>2 DEF Lines, Types, WorkerFits
      <4>4. ~Active(t)
        BY <1>5, <2>2, <3>2 DEF Exclusive, Active
      <4>5. Serving(t) => IsFrame(worker[t].out)
        BY <1>7 DEF Marching
      <4>6. Serving(t)' => IsFrame(worker[t].out)'
        BY <1>12, <4>1, <4>2, <4>5 DEF IsFrame
      <4> QED BY <4>1, <4>2, <4>3, <4>4, <4>6 DEF Active
    <3> QED BY <3>1, <3>2
  <2>6. Marching(s)'
    BY <2>1, <2>3, <2>5 DEF Marching
  <2> QED BY <1>12, <1>13, <2>6, HereNext DEF Here
<1> QED BY <1>15, <1>16

LEMMA ExecuteGenerating ==
    ASSUME Lines, AllCurrent, NoneLost, Exclusive, Exclusive', Generating,
           NEW s \in Stages, NEW result, Execute(s, result)
    PROVE  Generating'
<1> SUFFICES ASSUME Undisturbed' PROVE Generating'
  BY DEF Generating
<1>1. PICK job : job = Head(queue[s])
  OBVIOUS
<1> QED BY <1>1, ExecuteOther, ExecuteOwn

(* A request goes from its connection thread to the queue.                 *)
LEMMA AcceptedGenerating ==
    ASSUME Lines, AllCurrent, NoneLost, Generating, NEW s \in Stages, NEW i \in DOMAIN inbox[s],
           Submit(s, i), Len(queue[s]) < QueueSize \/ ~Heard(s, inbox[s][i])
    PROVE  Generating'
<1> SUFFICES ASSUME Undisturbed' PROVE Generating'
  BY DEF Generating
<1>1. /\ UNCHANGED <<gw, outcome, tokens, call, worker, sessions, disturbed>>
      /\ \A t \in Stages :
            ToSet(inbox'[t]) \cup ToSet(queue'[t]) \subseteq ToSet(inbox[t]) \cup ToSet(queue[t])
  BY AcceptedLive
<1>3. Untroubled
  BY <1>1 DEF Untroubled
<1>4. ASSUME NEW t \in Stages PROVE SameWork(t)
  BY <1>1 DEF SameWork, Lined, Serving
<1> QED BY <1>1, <1>3, <1>4, GeneratingFrame

(* An answer goes to a closed socket: it was not the generation's.         *)
LEMMA UnheardReplyGenerating ==
    ASSUME Lines, AllCurrent, NoneLost, Generating, NEW s \in Stages, Reply(s),
           ~Heard(s, worker[s])
    PROVE  Generating'
<1> SUFFICES ASSUME Undisturbed' PROVE Generating'
  BY DEF Generating
<1>1. /\ UNCHANGED <<gw, outcome, tokens, call, inbox, queue, sessions, disturbed>>
      /\ worker[s].from \notin Callers
      /\ worker'[s] = Idle /\ \A t \in Stages \ {s} : worker'[t] = worker[t]
  BY UnheardReplyLive
<1>2. ~Serving(s)
  <2> SUFFICES ASSUME Serving(s) PROVE FALSE
    OBVIOUS
  <2>1. worker[s].req.id \notin disturbed
    BY <1>1 DEF Undisturbed, Serving
  <2>2. Current(s, worker[s])
    BY <2>1, CallingCurrent DEF Serving
  <2> QED BY <1>1, <2>2 DEF Current
<1>3. Untroubled
  BY <1>1 DEF Untroubled
<1>4. ASSUME NEW t \in Stages PROVE SameWork(t)
  <2>1. CASE t = s
    BY <1>1, <1>2, <2>1, IdleIsNoWork DEF SameWork, Lined, Serving
  <2>2. CASE t # s
    BY <1>1, <2>2 DEF SameWork, Lined, Serving
  <2> QED BY <2>1, <2>2
<1> QED BY <1>1, <1>3, <1>4, GeneratingFrame

(* A restart disturbs the generation in progress.                          *)
LEMMA ForgetsGenerating ==
    ASSUME NEW s \in Stages, Forgets(s), gw'.running => gw.running /\ gw' = gw
    PROVE  Generating'
  BY DEF Forgets, RunningGeneration, Generating, Undisturbed

LEMMA GeneratingNext ==
    ASSUME Lines, Lines', Owed, AllCurrent, NoneLost, Untouched, Exclusive, Exclusive', Generating,
           [Next]_vars
    PROVE  Generating'
<1>1. CASE UNCHANGED vars
  <2>1. gw' = gw /\ disturbed' = disturbed
    BY <1>1 DEF vars
  <2>2. CASE ~Undisturbed
    BY <2>1, <2>2 DEF Generating, Undisturbed
  <2>3. CASE Undisturbed
    <3>1. Untroubled /\ \A s \in Stages : SameWork(s)
      BY <1>1 DEF vars, Untroubled, SameWork, Lined, Serving
    <3>2. call' = call /\ Undisturbed'
      BY <1>1, <2>3 DEF vars, Undisturbed
    <3> QED BY <3>1, <3>2, GeneratingFrame
  <2> QED BY <2>2, <2>3
<1>2. ASSUME NEW g \in Requests, NEW chain \in Topologies, NEW min \in MinNews,
             Begin(g, chain, min)
      PROVE  Generating'
  BY <1>2, BeginGenerating
<1>3. ASSUME NEW c \in Callers,
             Send(c) \/ SendAndReadLate(c) \/ ConnectionLost(c) \/ SendFails(c) \/ Timeout(c)
      PROVE  Generating'
  BY <1>3, SendGenerating, ReadsLateGenerating, ConnectionLostGenerating, SendFailsGenerating,
     TimeoutGenerating
<1>4. ASSUME NEW s \in Stages, NEW i \in DOMAIN inbox[s], Submit(s, i)
      PROVE  Generating'
  <2>1. CASE Len(queue[s]) < QueueSize \/ ~Heard(s, inbox[s][i])
    BY <1>4, <2>1, AcceptedGenerating
  <2>2. CASE ~(Len(queue[s]) < QueueSize) /\ Heard(s, inbox[s][i])
    BY <1>4, <2>2, RefusedGenerating
  <2> QED BY <2>1, <2>2
<1>5. ASSUME NEW s \in Stages, NEW result, Execute(s, result) PROVE Generating'
  BY <1>5, ExecuteGenerating
<1>6. ASSUME NEW s \in Stages, Reply(s) PROVE Generating'
  <2>1. CASE ~Heard(s, worker[s])
    BY <1>6, <2>1, UnheardReplyGenerating
  <2>2. CASE worker[s].from = Gateway
    BY <1>6, <2>2, AnsweredGenerating
  <2>3. CASE Heard(s, worker[s]) /\ worker[s].from # Gateway
    <3>1. PICK c : c = Reader(s, worker[s])
      OBVIOUS
    <3>2. c # Gateway
      <4>1. CASE worker[s].from # Late
        BY <2>3, <3>1, <4>1 DEF Reader
      <4>2. CASE worker[s].from = Late
        <5>1. ~MuteAt(s, Late) /\ c = s - 1
          BY <1>6, <2>3, <3>1, <4>2, ReaderWaits DEF Reply
        <5> QED BY <5>1, LateHere
      <4> QED BY <4>1, <4>2
    <3> QED BY <1>6, <2>3, <3>1, <3>2, RelayedGenerating
  <2> QED BY <2>1, <2>2, <2>3
<1>7. ASSUME NEW s \in Stages, Restart(s) PROVE Generating'
  BY <1>7, RestartLive, ForgetsGenerating
<1>8. ASSUME NEW s \in Stages, RestartInReply(s) PROVE Generating'
  BY <1>8, RestartInReplyLive, ForgetsGenerating
<1> QED BY <1>1, <1>2, <1>3, <1>4, <1>5, <1>6, <1>7, <1>8
        DEF Next, Submits, ForwardRuns, ForwardThrows

------------------------------------------------------------------------------
(* What a step writes into the results of the generations: nothing, an     *)
(* error of the one in progress, or a token of it.                         *)

Plain ==
    /\ UNCHANGED <<outcome, tokens>>
    /\ gw.running => gw'.running /\ gw'.gen = gw.gen

Failed ==
    /\ gw.running
    /\ tokens' = tokens
    /\ outcome' = [outcome EXCEPT ![gw.gen] = Ended("error", gw.min)]

Arrived ==
    /\ gw.running
    /\ \E out : TokenArrives(out) /\ (Undisturbed => Prefix /\ Last(out) = After)

(* A stage gets a session for a request, which is the generation's in      *)
(* progress unless it was disturbed.                                       *)
NothingNew ==
    /\ disturbed \subseteq disturbed'
    /\ \A s \in Stages : \A g \in DOMAIN sessions'[s] :
          g \in DOMAIN sessions[s] \/ (gw.running /\ g = gw.gen) \/ g \in disturbed'

Ledger == NothingNew /\ (Plain \/ Failed \/ Arrived)

LEMMA SameSessions ==
    ASSUME sessions' = sessions, disturbed \subseteq disturbed'
    PROVE  NothingNew
  BY DEF NothingNew

LEMMA CallingGateway ==
    ASSUME Lines, call[Gateway].state # "idle"
    PROVE  gw.running
  BY DEF Lines, CallsFit

LEMMA FailsLedger ==
    ASSUME Lines, NEW c \in Callers, call[c].state # "idle", NEW workers,
           AttemptFails(c, workers), tokens' = tokens
    PROVE  Plain \/ Failed
<1>1. CASE GenerationEnds("error") /\ c = Gateway
  BY <1>1, CallingGateway DEF GenerationEnds, Failed
<1>2. CASE ~(GenerationEnds("error") /\ c = Gateway)
  BY <1>2 DEF AttemptFails, Plain
<1> QED BY <1>1, <1>2

LEMMA GetsLedger ==
    ASSUME Lines, NEW c \in Callers, call[c].state # "idle", NEW id, NEW status, status # 200,
           NEW out, NEW workers, CallerGets(c, id, status, out, workers)
    PROVE  Plain \/ Failed
<1>1. CASE c = Gateway
  <2>1. GenerationEnds("error") /\ tokens' = tokens
    BY <1>1 DEF CallerGets, GatewayGets
  <2> QED BY <1>1, <2>1, CallingGateway DEF GenerationEnds, Failed
<1>2. CASE c # Gateway
  BY <1>2 DEF CallerGets, Plain
<1> QED BY <1>1, <1>2

LEMMA CallsLedger ==
    ASSUME Lines, AllCurrent, NEW c \in Callers,
           Send(c) \/ SendAndReadLate(c) \/ ConnectionLost(c) \/ SendFails(c) \/ Timeout(c)
    PROVE  Ledger
<1>1. NothingNew
  BY SameSessions DEF Send, SendAndReadLate, ConnectionLost, SendFails, Timeout
<1>2. CASE Send(c)
  BY <1>1, <1>2 DEF Send, Ledger, Plain
<1>3. CASE SendAndReadLate(c)
  BY <1>1, <1>3, ReadsLateReleases DEF Ledger, Plain
<1>4. CASE ConnectionLost(c) \/ SendFails(c) \/ Timeout(c)
  <2>1. PICK workers : AttemptFails(c, workers)
    BY <1>4, SendFailsReleases, TimeoutReleases DEF ConnectionLost
  <2>2. call[c].state # "idle" /\ tokens' = tokens
    BY <1>4 DEF ConnectionLost, SendFails, Timeout
  <2> QED BY <1>1, <2>1, <2>2, FailsLedger DEF Ledger
<1> QED BY <1>2, <1>3, <1>4

LEMMA SubmitLedger ==
    ASSUME Lines, Owed, AllCurrent, NoneLost, NEW s \in Stages, NEW i \in DOMAIN inbox[s],
           Submit(s, i)
    PROVE  Ledger
<1>1. CASE Len(queue[s]) < QueueSize \/ ~Heard(s, inbox[s][i])
  <2>1. UNCHANGED <<gw, outcome, tokens, sessions, disturbed>>
    BY <1>1, AcceptedLive
  <2> QED BY <2>1, SameSessions DEF Ledger, Plain
<1>2. CASE ~(Len(queue[s]) < QueueSize) /\ Heard(s, inbox[s][i])
  <2>1. PICK c, id, status, out : /\ c = Reader(s, inbox[s][i]) /\ id = inbox[s][i].req.id
                                  /\ status = 429 /\ out = <<>>
    OBVIOUS
  <2>2. CallerGets(c, id, status, out, worker) /\ Releases(c, worker) /\ sessions' = sessions
    BY <1>2, <2>1, RefusedReleases
  <2>3. c \in Callers /\ call[c].state # "idle" /\ disturbed \subseteq disturbed'
    BY <2>2 DEF Releases
  <2>4. status # 200
    BY <2>1
  <2>5. NothingNew
    BY <2>2, <2>3, SameSessions
  <2> QED BY <2>2, <2>3, <2>4, <2>5, GetsLedger DEF Ledger
<1> QED BY <1>1, <1>2

LEMMA ExecuteLedger ==
    ASSUME Lines, AllCurrent, NoneLost, NEW s \in Stages, NEW result, Execute(s, result)
    PROVE  Ledger
<1>1. PICK job : job = Head(queue[s])
  OBVIOUS
<1>2. PICK after : after = Forward(sessions[s], job.req, result)
  OBVIOUS
<1>3. /\ job \in JobsAt(s) /\ sessions'[s] = after.sessions
      /\ \A t \in Stages \ {s} : sessions'[t] = sessions[t]
  BY <1>1, <1>2, ExecuteLive
<1>4. /\ Ran(s, result, job, after)
      /\ \A q \in DOMAIN after.sessions \ {job.req.id} : q \in DOMAIN sessions[s]
  BY <1>1, <1>2, RanSessions DEF Lines
<1>5. UNCHANGED <<gw, outcome, tokens>> /\ disturbed \subseteq disturbed'
  BY <1>4 DEF Ran
<1>6. job.req.id \in disturbed' \/ (gw.running /\ job.req.id = gw.gen)
  BY <1>3, <1>5 DEF AllCurrent, Current
<1>7. NothingNew
  <2> SUFFICES ASSUME NEW t \in Stages, NEW g \in DOMAIN sessions'[t]
               PROVE  g \in DOMAIN sessions[t] \/ (gw.running /\ g = gw.gen) \/ g \in disturbed'
    BY <1>5 DEF NothingNew
  <2>1. CASE t = s
    BY <1>3, <1>4, <1>6, <2>1
  <2>2. CASE t # s
    BY <1>3, <2>2
  <2> QED BY <2>1, <2>2
<1> QED BY <1>5, <1>7 DEF Ledger, Plain

LEMMA ReplyLedger ==
    ASSUME Lines, Owed, AllCurrent, NoneLost, Exclusive, Generating, NEW s \in Stages, Reply(s)
    PROVE  Ledger
<1>1. CASE ~Heard(s, worker[s])
  <2>1. UNCHANGED <<gw, outcome, tokens, sessions, disturbed>>
    BY <1>1, UnheardReplyLive
  <2> QED BY <2>1, SameSessions DEF Ledger, Plain
<1>2. CASE Heard(s, worker[s])
  <2>1. PICK c, id, status, out, workers :
           /\ c = Reader(s, worker[s]) /\ id = worker[s].req.id
           /\ status = worker[s].status /\ out = worker[s].out
           /\ workers = [worker EXCEPT ![s] = Idle]
    OBVIOUS
  <2>2. /\ Releases(c, workers) /\ CallerGets(c, id, status, out, workers)
        /\ worker[s].state = "replying" /\ sessions' = sessions
        /\ worker[s].from # Late => Posted(c) = worker[s].req
    BY <1>2, <2>1, RepliedReleases DEF Reply
  <2>3. c \in Callers /\ call[c].state # "idle" /\ disturbed \subseteq disturbed'
    BY <2>2 DEF Releases
  <2>4. NothingNew
    BY <2>2, <2>3, SameSessions
  <2>5. CASE status # 200
    BY <2>2, <2>3, <2>4, <2>5, GetsLedger DEF Ledger
  <2>6. CASE c # Gateway
    BY <2>2, <2>4, <2>6 DEF CallerGets, Ledger, Plain
  <2>7. CASE status = 200 /\ c = Gateway
    <3>1. GatewayGets(status, out) /\ gw.running
      BY <2>2, <2>3, <2>7, CallingGateway DEF CallerGets
    <3>2. CASE HopAnswers(out)
      <4>1. gw'.running = gw.running /\ gw'.gen = gw.gen
        BY <3>2 DEF HopAnswers, Lines, Types, GenerationFits, GenerationType
      <4> QED BY <2>4, <3>2, <4>1 DEF HopAnswers, Ledger, Plain
    <3>3. CASE TokenArrives(out)
      <4>1. worker[s].from # Late
        <5> SUFFICES ASSUME worker[s].from = Late PROVE FALSE
          OBVIOUS
        <5>1. ~MuteAt(s, Late) /\ c = s - 1
          BY <1>2, <2>1, <2>2, ReaderWaits
        <5> QED BY <2>7, <5>1, LateHere
      <4>2. worker[s].status = 200 /\ Serving(s)
        BY <2>1, <2>2, <2>7, <4>1 DEF Posted, Request, Serving
      <4>3. Undisturbed => Prefix /\ Last(out) = After
        BY <2>1, <2>2, <4>2, AnswerIsFrame
      <4> QED BY <2>4, <3>1, <3>3, <4>3 DEF Ledger, Arrived
    <3> QED BY <2>7, <3>1, <3>2, <3>3 DEF GatewayGets
  <2> QED BY <2>5, <2>6, <2>7
<1> QED BY <1>1, <1>2

LEMMA RestartLedger ==
    ASSUME Lines, Lines', Owed, AllCurrent, NEW s \in Stages, Restart(s) \/ RestartInReply(s)
    PROVE  Ledger
<1>1. Forgets(s)
  BY RestartLive, RestartInReplyLive
<1>2. NothingNew
  <2>1. disturbed \subseteq disturbed'
    BY <1>1 DEF Forgets
  <2>2. \A t \in Stages : sessions'[t] = sessions[t] \/ sessions'[t] = NoSessions
    BY <1>1 DEF Forgets
  <2>3. DOMAIN NoSessions = {}
    BY DEF NoSessions
  <2> QED BY <2>1, <2>2, <2>3 DEF NothingNew
<1>3. CASE Restart(s) \/ ~Heard(s, worker[s])
  <2>1. UNCHANGED <<gw, outcome, tokens>>
    BY <1>3, RestartLive, RestartInReplyDies DEF DiesUnread
  <2> QED BY <1>2, <2>1 DEF Ledger, Plain
<1>4. CASE RestartInReply(s) /\ Heard(s, worker[s])
  <2>1. PICK c, id, status, out, workers :
           /\ c = Reader(s, worker[s]) /\ id = worker[s].req.id
           /\ status = Undecodable /\ out = <<>> /\ workers = Survivors(s)
    OBVIOUS
  <2>2. c \in Callers /\ Ends(c, workers) /\ CallerGets(c, id, status, out, workers)
    BY <1>4, <2>1, RestartInReplyEnds
  <2>3. call[c].state # "idle"
    BY <2>2 DEF Ends
  <2>4. status # 200
    BY <2>1 DEF Undecodable
  <2> QED BY <1>2, <2>2, <2>3, <2>4, GetsLedger DEF Ledger
<1> QED BY <1>3, <1>4

LEMMA LedgerNext ==
    ASSUME Lines, Lines', Owed, AllCurrent, NoneLost, Exclusive, Generating, [Next]_vars
    PROVE  Ledger
<1>1. CASE UNCHANGED vars
  BY <1>1 DEF vars, Ledger, Plain, NothingNew
<1>2. ASSUME NEW g \in Requests, NEW chain \in Topologies, NEW min \in MinNews,
             Begin(g, chain, min)
      PROVE  Ledger
  BY <1>2, SameSessions DEF Begin, Ledger, Plain
<1> QED BY <1>1, <1>2, CallsLedger, SubmitLedger, ExecuteLedger, ReplyLedger, RestartLedger
        DEF Next, Submits, ForwardRuns, ForwardThrows

(* The first stop marker that is not too early is where the reference ends.*)
LEMMA ReferenceEnds ==
    ASSUME NEW n \in 1 .. MaxNew, NEW min \in Nat,
           n = MaxNew \/ (n >= min /\ n - 1 \in StopTokens),
           \A i \in 1 .. n - 1 : ~(i >= min /\ i - 1 \in StopTokens)
    PROVE  ReferenceLength(min) = n
<1> DEFINE ends == {MaxNew} \cup {i \in 1 .. MaxNew : i >= min /\ i - 1 \in StopTokens}
<1>1. MaxNew \in Nat
  BY PipelineAssumption DEF PipelineAssumption
<1>2. n \in ends /\ \A i \in ends : i \in 1 .. MaxNew
  BY <1>1
<1>3. ASSUME NEW i \in ends PROVE n <= i
  <2> SUFFICES ASSUME ~(n <= i) PROVE FALSE
    OBVIOUS
  <2>1. i \in 1 .. n - 1 /\ i # MaxNew
    BY <1>1, <1>2, <1>3
  <2>2. i >= min /\ i - 1 \in StopTokens
    BY <1>3, <2>1
  <2> QED BY <2>1, <2>2
<1>4. ReferenceLength(min) = CHOOSE x \in ends : \A y \in ends : x <= y
  BY DEF ReferenceLength, Min
<1> HIDE DEF ends
<1>5. PICK x : x = CHOOSE z \in ends : \A y \in ends : z <= y
  OBVIOUS
<1>6. x \in ends /\ \A y \in ends : x <= y
  BY <1>2, <1>3, <1>5
<1>7. x <= n /\ n <= x /\ x \in Nat
  BY <1>1, <1>2, <1>3, <1>6
<1> QED BY <1>4, <1>5, <1>7

LEMMA ArrivedResults ==
    ASSUME Lines, Arrived
    PROVE  \E isRef \in BOOLEAN :
             /\ tokens' = [tokens EXCEPT ![gw.gen] = Append(tokens[gw.gen], isRef)]
             /\ \/ outcome' = outcome /\ gw'.running /\ gw'.gen = gw.gen
                \/ /\ outcome' = [outcome EXCEPT ![gw.gen] = Ended("ok", gw.min)]
                   /\ Undisturbed => /\ isRef /\ Prefix
                                     /\ \/ gw.index + 1 = MaxNew
                                        \/ gw.index + 1 >= gw.min /\ gw.index \in StopTokens
<1>1. PICK out : TokenArrives(out) /\ (Undisturbed => Prefix /\ Last(out) = After)
  BY DEF Arrived
<1>2. PICK isRef : isRef = (Last(out) = PromptLen + gw.index)
  OBVIOUS
<1>3. PICK index, frame : /\ index = gw.index + 1
                         /\ frame = <<IF isRef THEN PromptLen + gw.index + 1 ELSE Stray>>
  OBVIOUS
<1>4. PICK marker \in MayBeMarker(isRef, gw.index) :
         /\ tokens' = [tokens EXCEPT ![gw.gen] = Append(@, isRef)]
         /\ IF gw.index + 1 = MaxNew \/ StopsAfter(gw.index + 1, gw.min, marker)
            THEN GenerationEnds("ok")
            ELSE /\ gw' = [gw EXCEPT !.index = @ + 1, !.hop = 1,
                                     !.frame = <<IF isRef THEN PromptLen + gw.index + 1 ELSE Stray>>]
                 /\ outcome' = outcome
  BY <1>1, <1>2 DEF TokenArrives
<1>5. /\ tokens' = [tokens EXCEPT ![gw.gen] = Append(tokens[gw.gen], isRef)]
      /\ IF gw.index + 1 = MaxNew \/ StopsAfter(gw.index + 1, gw.min, marker)
         THEN GenerationEnds("ok")
         ELSE /\ gw' = [gw EXCEPT !.index = index, !.hop = 1, !.frame = frame]
              /\ outcome' = outcome
  BY <1>3, <1>4
<1>6. isRef \in BOOLEAN /\ (Undisturbed => isRef)
  BY <1>1, <1>2 DEF After
<1>7. CASE ~(gw.index + 1 = MaxNew \/ StopsAfter(gw.index + 1, gw.min, marker))
  <2>1. gw' = [gw EXCEPT !.index = index, !.hop = 1, !.frame = frame]
    BY <1>5, <1>7
  <2>2. gw'.running = gw.running /\ gw'.gen = gw.gen
    BY <2>1 DEF Lines, Types, GenerationFits, GenerationType
  <2>3. outcome' = outcome /\ gw'.running /\ gw'.gen = gw.gen
    BY <1>5, <1>7, <2>2 DEF Arrived
  <2> QED BY <1>5, <1>6, <2>3
<1>8. CASE gw.index + 1 = MaxNew \/ StopsAfter(gw.index + 1, gw.min, marker)
  <2>1. outcome' = [outcome EXCEPT ![gw.gen] = Ended("ok", gw.min)]
    BY <1>5, <1>8 DEF GenerationEnds
  <2>2. Undisturbed => /\ isRef /\ Prefix
                       /\ \/ gw.index + 1 = MaxNew
                          \/ gw.index + 1 >= gw.min /\ gw.index \in StopTokens
    <3> SUFFICES ASSUME Undisturbed, gw.index + 1 # MaxNew
                 PROVE  gw.index + 1 >= gw.min /\ gw.index \in StopTokens
      BY <1>1, <1>6
    <3>1. isRef
      BY <1>6
    <3>2. marker = (gw.index \in StopTokens)
      BY <3>1 DEF MayBeMarker
    <3> QED BY <1>8, <3>2 DEF StopsAfter
  <2> QED BY <1>5, <1>6, <2>1, <2>2
<1> QED BY <1>7, <1>8

(* A generation other than the one in progress keeps its results; the one  *)
(* in progress goes on or has an outcome.                                  *)
LEMMA LedgerOthers ==
    ASSUME Lines, Ledger, NEW g \in Requests
    PROVE  /\ ~(gw.running /\ gw.gen = g) => outcome'[g] = outcome[g] /\ tokens'[g] = tokens[g]
           /\ gw.running /\ gw.gen = g =>
                 (gw'.running /\ gw'.gen = g /\ outcome'[g] = outcome[g]) \/ outcome'[g].how # "no"
<1>1. outcome \in [Requests -> OutcomeType] /\ tokens \in [Requests -> Seq(BOOLEAN)]
  BY DEF Lines, Types
<1>2. Ended("ok", gw.min).how # "no" /\ Ended("error", gw.min).how # "no"
  BY DEF Ended
<1> HIDE DEF Ended
<1>3. CASE Plain
  BY <1>3 DEF Plain
<1>4. CASE Failed
  BY <1>1, <1>2, <1>4 DEF Failed
<1>5. CASE Arrived
  <2>1. PICK isRef \in BOOLEAN :
             /\ tokens' = [tokens EXCEPT ![gw.gen] = Append(tokens[gw.gen], isRef)]
             /\ \/ outcome' = outcome /\ gw'.running /\ gw'.gen = gw.gen
                \/ outcome' = [outcome EXCEPT ![gw.gen] = Ended("ok", gw.min)]
    BY <1>5, ArrivedResults
  <2>2. gw.running
    BY <1>5 DEF Arrived
  <2> QED BY <1>1, <1>2, <2>1, <2>2
<1> QED BY <1>3, <1>4, <1>5 DEF Ledger

LEMMA UntouchedNext ==
    ASSUME Lines, Untouched, Ledger
    PROVE  Untouched'
<1> SUFFICES ASSUME NEW g \in Requests \ disturbed', outcome'[g].how = "no",
                    ~(gw'.running /\ gw'.gen = g)
             PROVE  tokens'[g] = <<>> /\ \A s \in Stages : g \notin DOMAIN sessions'[s]
  BY DEF Untouched
<1>1. ~(gw.running /\ gw.gen = g) /\ outcome'[g] = outcome[g] /\ tokens'[g] = tokens[g]
  BY LedgerOthers
<1>2. g \in Requests \ disturbed /\ outcome[g].how = "no"
  BY <1>1 DEF Ledger, NothingNew
<1>3. tokens[g] = <<>> /\ \A s \in Stages : g \notin DOMAIN sessions[s]
  BY <1>1, <1>2 DEF Untouched
<1> QED BY <1>1, <1>3 DEF Ledger, NothingNew

LEMMA UndisturbedNext ==
    ASSUME Lines, UndisturbedIsReference, Ledger
    PROVE  UndisturbedIsReference'
<1> SUFFICES ASSUME NEW g \in Requests \ disturbed', outcome'[g].how = "ok"
             PROVE  /\ Len(tokens'[g]) = ReferenceLength(outcome'[g].min)
                    /\ \A i \in DOMAIN tokens'[g] : tokens'[g][i]
  BY DEF UndisturbedIsReference, ReferenceLength
<1>1. g \in Requests \ disturbed
  BY DEF Ledger, NothingNew
<1>2. CASE outcome'[g] = outcome[g] /\ tokens'[g] = tokens[g]
  BY <1>1, <1>2 DEF UndisturbedIsReference
<1>3. CASE ~(outcome'[g] = outcome[g] /\ tokens'[g] = tokens[g])
  <2>1. gw.running /\ gw.gen = g
    BY <1>3, LedgerOthers
  <2>2. Undisturbed /\ outcome[g].how = "no"
    BY <1>1, <2>1 DEF Undisturbed, Lines, CallsFit
  <2>3. outcome \in [Requests -> OutcomeType] /\ tokens \in [Requests -> Seq(BOOLEAN)]
    BY DEF Lines, Types
  <2>4. Ended("error", gw.min).how = "error" /\ Ended("ok", gw.min).min = gw.min
    BY DEF Ended
  <2> HIDE DEF Ended
  <2>5. Arrived
    BY <1>3, <2>1, <2>2, <2>3, <2>4 DEF Ledger, Plain, Failed
  <2>6. PICK isRef \in BOOLEAN :
             /\ tokens' = [tokens EXCEPT ![gw.gen] = Append(tokens[gw.gen], isRef)]
             /\ outcome' = [outcome EXCEPT ![gw.gen] = Ended("ok", gw.min)]
             /\ isRef /\ Prefix
             /\ \/ gw.index + 1 = MaxNew
                \/ gw.index + 1 >= gw.min /\ gw.index \in StopTokens
    BY <2>1, <2>2, <2>5, ArrivedResults
  <2>7. PICK old : old = tokens[g]
    OBVIOUS
  <2>8. /\ old \in Seq(BOOLEAN) /\ tokens'[g] = Append(old, TRUE)
        /\ outcome'[g].min = gw.min
    BY <2>1, <2>3, <2>4, <2>6, <2>7
  <2>9. /\ Len(old) = gw.index
        /\ \A i \in 1 .. gw.index : old[i] = TRUE /\ ~(i >= gw.min /\ i - 1 \in StopTokens)
    BY <2>1, <2>6, <2>7 DEF Prefix
  <2>10. gw.index \in Nat /\ gw.index + 1 \in 1 .. MaxNew /\ gw.min \in Nat
    BY PipelineAssumption DEF PipelineAssumption, Lines, Types, GenerationFits, GenerationType
  <2>11. PICK n : n = gw.index + 1
    OBVIOUS
  <2>12. ReferenceLength(gw.min) = n
    <3>1. n - 1 = gw.index /\ n \in 1 .. MaxNew
      BY <2>10, <2>11
    <3> QED BY <2>6, <2>9, <2>10, <2>11, <3>1, ReferenceEnds
  <2>13. Len(Append(old, TRUE)) = n
    BY <2>8, <2>9, <2>10, <2>11
  <2>14. ASSUME NEW i \in DOMAIN Append(old, TRUE) PROVE Append(old, TRUE)[i]
    <3>1. i \in 1 .. Len(old) \/ i = Len(old) + 1
      BY <2>8, <2>14
    <3>2. ASSUME i \in 1 .. Len(old) PROVE Append(old, TRUE)[i] = old[i]
      BY ONLY <2>8, <3>2
    <3> QED BY <2>8, <2>9, <3>1, <3>2
  <2> QED BY <2>8, <2>12, <2>13, <2>14
<1> QED BY <1>2, <1>3

------------------------------------------------------------------------------
LEMMA WholeInit == Init => Whole
<1> SUFFICES ASSUME Init PROVE Whole
  OBVIOUS
<1>1. Lines /\ Owed
  BY LinesInit, OwedInit
<1>2. /\ gw.running = FALSE
      /\ \A g \in Requests : outcome[g].how = "no" /\ tokens[g] = <<>>
      /\ \A s \in Stages : /\ inbox[s] = <<>> /\ queue[s] = <<>>
                           /\ worker[s] = Idle /\ DOMAIN sessions[s] = {}
      /\ \A c \in Callers : call[c].state = "idle"
  BY DEF Init, NoGeneration, Ended, NotCalling, NoSessions
<1>3. \A s \in Stages : JobsAt(s) = {}
  BY <1>2, IdleIsNoWork DEF JobsAt, Jobs, ToSet
<1>4. AllCurrent /\ NoneLost
  BY <1>2, <1>3 DEF AllCurrent, NoneLost
<1>5. Untouched /\ Generating /\ UndisturbedIsReference
  BY <1>2 DEF Untouched, Generating, Undisturbed, UndisturbedIsReference
<1> QED BY <1>1, <1>4, <1>5 DEF Whole

LEMMA WholeNext == Whole /\ [Next]_vars => Whole'
<1> SUFFICES ASSUME Whole, [Next]_vars PROVE Whole'
  OBVIOUS
<1>1. /\ Lines /\ Owed /\ AllCurrent /\ NoneLost /\ Untouched /\ Generating
      /\ UndisturbedIsReference
  BY DEF Whole
<1>2. Lines' /\ Owed'
  BY <1>1, LinesNext, OwedNext
<1>3. AllCurrent' /\ NoneLost'
  BY <1>1, <1>2, LiveNext
<1>4. Exclusive /\ Exclusive'
  BY <1>1, <1>2, <1>3, ExclusiveHolds, ExclusiveNext DEF ExclusiveNow
<1>5. Generating'
  BY <1>1, <1>2, <1>4, GeneratingNext
<1>6. Ledger
  BY <1>1, <1>2, <1>4, LedgerNext
<1>7. Untouched' /\ UndisturbedIsReference'
  BY <1>1, <1>6, UntouchedNext, UndisturbedNext
<1> QED BY <1>2, <1>3, <1>5, <1>7 DEF Whole

(* Whatever throws, is lost or sent again, the generation in progress has  *)
(* one request that counts, unless a timeout, a restart, an eviction or a  *)
(* late answer has disturbed it, and the sessions of its stages agree on   *)
(* where it is.                                                            *)
THEOREM WholeAlways == Spec => []Whole
<1> QED BY WholeInit, WholeNext, PTL DEF Spec

(* While no timeout, restart, eviction or late answer hits a generation,   *)
(* every stage holds the positions of the steps before this one or this one*)
(* too, and none is ahead of the stage that feeds it: a call that is sent  *)
(* again because its first attempt did not arrive moves no stage twice,    *)
(* whatever requests of earlier generations are still executed meanwhile.  *)
THEOREM PipelineKvLockstep == Spec => []KvLockstep
<1>1. Whole => KvLockstep
  <2> SUFFICES ASSUME Whole, Undisturbed
               PROVE  \A s \in Stages : /\ Held(s) \in {Before, After}
                                        /\ s > 1 => Held(s) <= Held(s - 1)
    BY DEF KvLockstep, Undisturbed, Before, After
  <2>1. PICK k \in 0 .. NumStages : Advanced(k)
    BY DEF Whole, Generating
  <2>2. Before \in Nat /\ After \in Nat /\ Before <= After
    <3>1. gw.index \in Nat /\ PromptLen \in Nat \ {0}
      BY PipelineAssumption
         DEF PipelineAssumption, Whole, Lines, Types, GenerationFits, GenerationType
    <3> QED BY <3>1 DEF Before, After
  <2>3. ASSUME NEW s \in Stages PROVE Held(s) = KvAt(k, s) /\ KvAt(k, s) \in {Before, After}
    BY <2>1 DEF Advanced, KvAt
  <2>4. ASSUME NEW s \in Stages, s > 1 PROVE Held(s) <= Held(s - 1)
    <3>1. s - 1 \in Stages /\ (s <= k => s - 1 <= k)
      BY <2>4, StageNumbers DEF Stages
    <3>2. Held(s) = KvAt(k, s) /\ Held(s - 1) = KvAt(k, s - 1)
      BY <2>3, <3>1
    <3> QED BY <2>2, <3>1, <3>2 DEF KvAt
  <2> QED BY <2>3, <2>4
<1> QED BY <1>1, WholeAlways, PTL

(* A generation that the gateway reports ok and that met no timeout,       *)
(* restart, eviction or late answer has the tokens of the reference run, up*)
(* to its first stop marker that min_new_tokens allows and no further:     *)
(* throws, refusals, lost calls and what earlier generations left behind,  *)
(* the answers that stages still owe them included, change nothing.        *)
THEOREM UndisturbedAlwaysReference == Spec => []UndisturbedIsReference
<1>1. Whole => UndisturbedIsReference
  BY DEF Whole
<1> QED BY <1>1, WholeAlways, PTL

=============================================================================
