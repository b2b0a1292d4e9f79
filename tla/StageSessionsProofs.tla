------------------------ MODULE StageSessionsProofs ------------------------
(***************************************************************************)
(* Proofs about the sessions of one native stage and about the memory that *)
(* StageMemory adds to them: for every set of request ids, every session   *)
(* limit, every length of prompts and generations and any number of faults.*)
(***************************************************************************)
EXTENDS StageMemory, StageRuntimeProofs

------------------------------------------------------------------------------
(* The inductive invariant. NoHoles and CacheFollowsClient are inductive   *)
(* once the sessions have their types; SessionMap says in addition that the*)
(* map is finite, so that its cardinality counts.                          *)
Types ==
    /\ SessionMap(sessions)
    /\ fed \in [Requests -> 0 .. MaxLen]
    /\ torn \subseteq Requests
    /\ holed \subseteq Requests
    /\ faults \in 0 .. MaxFaults

Inv == Types /\ NoHoles /\ CacheFollowsClient

Clean(S, holes) == \A r \in DOMAIN S \ holes : NoHole(S[r])

Follows(S, f, gone) ==
    \A r \in Requests \ gone : f[r] > 0 => r \in DOMAIN S /\ Faithful(S[r], f[r])

LEMMA InvParts == (NoHoles <=> Clean(sessions, holed))
                  /\ (CacheFollowsClient <=> Follows(sessions, fed, torn))
  BY DEF NoHoles, Clean, NoHole, CacheFollowsClient, Follows, Faithful

LEMMA InvPartsNext == (NoHoles' <=> Clean(sessions', holed'))
                      /\ (CacheFollowsClient' <=> Follows(sessions', fed', torn'))
  BY DEF NoHoles, Clean, NoHole, CacheFollowsClient, Follows, Faithful

(* A forward that does not throw leaves no hole; what it starts from has   *)
(* none unless an earlier forward threw and its session is still there.    *)
LEMMA ForwardClean ==
    ASSUME NEW S, SessionMap(S), NEW req, IsRequest(req), NEW outcome,
           NEW holes, NEW holes2, Clean(S, holes),
           \A q : q # req.id /\ q \in holes => q \in holes2,
           req.id \notin holes2 =>
               /\ outcome # "early"
               /\ req.id \notin holes \/ req.id \notin DOMAIN S \/ StartsOver(req)
    PROVE  Clean(Forward(S, req, outcome).sessions, holes2)
<1> DEFINE after == Forward(S, req, outcome).sessions
<1>1. /\ SessionMap(after)
      /\ after[req.id] = Served(Base(S, req), req, outcome)
      /\ DOMAIN after \subseteq DOMAIN S \cup {req.id}
      /\ \A q \in DOMAIN after \ {req.id} : after[q] = S[q]
  BY ForwardShape
<1> HIDE DEF after
<1>2. ASSUME NEW q \in DOMAIN after \ holes2, q # req.id PROVE NoHole(after[q])
  BY <1>1, <1>2 DEF Clean
<1>3. ASSUME req.id \notin holes2 PROVE NoHole(after[req.id])
  <2>1. outcome # "early" /\ Base(S, req) \in SessionType
    BY <1>3, FreshType DEF Base, SessionMap
  <2>2. NoHole(Base(S, req))
    BY <1>3, FreshNoHole DEF Base, Clean
  <2> QED BY <1>1, <2>1, <2>2, ServedNoHole
<1> QED BY <1>2, <1>3 DEF Clean, after

(* The other clients still find what they fed, or know they were evicted.  *)
LEMMA ForwardFollows ==
    ASSUME NEW S, SessionMap(S), NEW req, IsRequest(req), NEW outcome,
           NEW f, NEW g, NEW gone, NEW gone2, Follows(S, f, gone),
           \A q \in Requests \ {req.id} : g[q] = f[q] /\ (q \in gone => q \in gone2),
           DOMAIN S \ DOMAIN Forward(S, req, outcome).sessions \subseteq gone2,
           req.id \notin gone2 /\ g[req.id] > 0 =>
               Faithful(Served(Base(S, req), req, outcome), g[req.id])
    PROVE  Follows(Forward(S, req, outcome).sessions, g, gone2)
<1> DEFINE after == Forward(S, req, outcome).sessions
<1>1. /\ req.id \in DOMAIN after
      /\ after[req.id] = Served(Base(S, req), req, outcome)
      /\ \A q \in DOMAIN after \ {req.id} : after[q] = S[q]
  BY ForwardShape
<1>2. DOMAIN S \ DOMAIN after \subseteq gone2
  OBVIOUS
<1> HIDE DEF after
<1>3. ASSUME NEW q \in Requests \ gone2, q # req.id, g[q] > 0
      PROVE  q \in DOMAIN after /\ Faithful(after[q], g[q])
  BY <1>1, <1>2, <1>3 DEF Follows
<1> QED BY <1>1, <1>3 DEF Follows, after

LEMMA InvInit == Init => Inv
<1> SUFFICES ASSUME Init PROVE Inv
  OBVIOUS
<1>1. DOMAIN sessions = {} /\ sessions = [r \in DOMAIN sessions |-> sessions[r]]
  BY DEF Init, NoSessions
<1>2. SessionMap(sessions)
  BY <1>1, FS_EmptySet, RuntimeAssumption DEF SessionMap, RuntimeAssumption
<1>3. Types
  BY <1>2, SessionsAssumption DEF Init, Types, SessionsAssumption
<1>4. Clean(sessions, holed) /\ Follows(sessions, fed, torn)
  BY <1>1 DEF Init, Clean, Follows
<1> QED BY <1>3, <1>4, InvParts DEF Inv

LEMMA InvPrefill ==
    ASSUME Inv, NEW r \in Requests, NEW n \in PromptLens, Prefill(r, n)
    PROVE  Inv'
<1> DEFINE req == Request(r, "prefill", 0, [i \in 1 .. n |-> i])
           after == Forward(sessions, req, "done").sessions
<1>1. n \in Nat \ {0} /\ n \in 0 .. MaxLen
  BY SessionsAssumption DEF Prefill, SessionsAssumption
<1>2. req.id = r
  BY DEF Request
<1>3. IsRequest(req) /\ StartsOver(req) /\ Faithful(Served(Fresh, req, "done"), n)
  BY <1>1, PrefillFaithful
<1> HIDE DEF req
<1>4. /\ sessions' = after
      /\ fed' = [fed EXCEPT ![r] = n]
      /\ torn' = (torn \ {r}) \cup (DOMAIN sessions \ DOMAIN after)
      /\ holed' = holed \ {r}
      /\ faults' = faults
  BY DEF Prefill, Evicted, req
<1>5. Types /\ SessionMap(sessions) /\ Clean(sessions, holed) /\ Follows(sessions, fed, torn)
  BY InvParts DEF Inv, Types
<1>6. SessionMap(after)
  BY <1>3, <1>5, ForwardShape
<1>7. Types'
  BY <1>1, <1>4, <1>5, <1>6 DEF Types, SessionMap
<1>8. Clean(after, holed')
  BY <1>2, <1>3, <1>4, <1>5, ForwardClean
<1>9. Follows(after, fed', torn')
  <2>1. Base(sessions, req) = Fresh
    BY <1>3 DEF Base
  <2>2. fed'[r] = n /\ \A q \in Requests \ {r} : fed'[q] = fed[q]
    BY <1>4, <1>5 DEF Types
  <2>3. \A q \in Requests \ {req.id} : fed'[q] = fed[q] /\ (q \in torn => q \in torn')
    BY <1>2, <1>4, <2>2
  <2>4. DOMAIN sessions \ DOMAIN after \subseteq torn'
    BY <1>4
  <2>5. Faithful(Served(Base(sessions, req), req, "done"), fed'[req.id])
    BY <1>2, <1>3, <2>1, <2>2
  <2> QED BY <1>3, <1>5, <2>3, <2>4, <2>5, ForwardFollows
<1> QED BY <1>4, <1>7, <1>8, <1>9, InvPartsNext DEF Inv

LEMMA DecodeRequest ==
    ASSUME NEW r \in Requests, NEW n \in Nat
    PROVE  LET req == Request(r, "decode", n + 1, <<n + 1>>) IN
           /\ IsRequest(req)
           /\ req.id = r /\ req.mode = "decode" /\ req.kv = TRUE
           /\ req.tokens = <<n + 1>>
           /\ ~StartsOver(req)
  BY DEF Request, IsRequest, StartsOver

LEMMA InvDecode ==
    ASSUME Inv, NEW r \in Requests, Decode(r)
    PROVE  Inv'
<1> DEFINE n == fed[r]
           req == Request(r, "decode", n + 1, <<n + 1>>)
           after == Forward(sessions, req, "done").sessions
<1>1. n \in Nat /\ n > 0 /\ n + 1 \in 0 .. MaxLen
  BY SessionsAssumption DEF Decode, Inv, Types, SessionsAssumption
<1>2. /\ IsRequest(req) /\ req.id = r /\ req.mode = "decode" /\ req.kv = TRUE
      /\ req.tokens = <<n + 1>> /\ ~StartsOver(req)
  BY <1>1, DecodeRequest
<1>3. /\ sessions' = after
      /\ fed' = [fed EXCEPT ![r] = n + 1]
      /\ torn' = torn \cup (DOMAIN sessions \ DOMAIN after)
      /\ holed' = IF r \in DOMAIN sessions THEN holed ELSE holed \ {r}
      /\ faults' = faults
  BY DEF Decode, Evicted
<1> HIDE DEF req, n
<1>4. Types /\ SessionMap(sessions) /\ Clean(sessions, holed) /\ Follows(sessions, fed, torn)
  BY InvParts DEF Inv, Types
<1>5. SessionMap(after)
  BY <1>2, <1>4, ForwardShape
<1>6. Types'
  BY <1>1, <1>3, <1>4, <1>5 DEF Types, SessionMap
<1>7. Clean(after, holed')
  BY <1>2, <1>3, <1>4, ForwardClean
<1>8. Follows(after, fed', torn')
  <2>1. fed'[r] = n + 1 /\ \A q \in Requests \ {r} : fed'[q] = fed[q]
    BY <1>3, <1>4 DEF Types
  <2>2. ASSUME r \notin torn'
        PROVE  Faithful(Served(Base(sessions, req), req, "done"), n + 1)
    <3>1. r \in DOMAIN sessions /\ Faithful(sessions[r], n)
      BY <1>1, <1>3, <1>4, <2>2 DEF Follows, n
    <3>2. Base(sessions, req) = sessions[r] /\ sessions[r] \in SessionType
      BY <1>2, <1>4, <3>1 DEF Base, SessionMap
    <3> QED BY <1>1, <1>2, <3>1, <3>2, DecodeFaithful
  <2>3. \A q \in Requests \ {req.id} : fed'[q] = fed[q] /\ (q \in torn => q \in torn')
    BY <1>2, <1>3, <2>1
  <2>4. DOMAIN sessions \ DOMAIN after \subseteq torn'
    BY <1>3
  <2>5. req.id \notin torn' => Faithful(Served(Base(sessions, req), req, "done"), fed'[req.id])
    BY <1>2, <2>1, <2>2
  <2> QED BY <1>2, <1>4, <2>3, <2>4, <2>5, ForwardFollows
<1> QED BY <1>3, <1>6, <1>7, <1>8, InvPartsNext DEF Inv

LEMMA InvThrow ==
    ASSUME Inv, NEW r \in Requests, NEW outcome, Throw(r, outcome)
    PROVE  Inv'
<1> DEFINE n == fed[r]
           req == Request(r, "decode", n + 1, <<n + 1>>)
           after == Forward(sessions, req, outcome).sessions
<1>1. n \in Nat /\ faults + 1 \in 0 .. MaxFaults
  BY SessionsAssumption DEF Throw, Inv, Types, SessionsAssumption
<1>2. IsRequest(req) /\ req.id = r
  BY <1>1, DecodeRequest
<1>3. /\ sessions' = after
      /\ fed' = fed
      /\ torn' = torn \cup {r} \cup (DOMAIN sessions \ DOMAIN after)
      /\ holed' = holed \cup {r}
      /\ faults' = faults + 1
  BY DEF Throw, Evicted
<1> HIDE DEF req, n
<1>4. Types /\ SessionMap(sessions) /\ Clean(sessions, holed) /\ Follows(sessions, fed, torn)
  BY InvParts DEF Inv, Types
<1>5. SessionMap(after)
  BY <1>2, <1>4, ForwardShape
<1>6. Types'
  BY <1>1, <1>3, <1>4, <1>5 DEF Types, SessionMap
<1>7. Clean(after, holed')
  BY <1>2, <1>3, <1>4, ForwardClean
<1>8. Follows(after, fed', torn')
  <2>1. \A q \in Requests \ {req.id} : fed'[q] = fed[q] /\ (q \in torn => q \in torn')
    BY <1>3
  <2>2. DOMAIN sessions \ DOMAIN after \subseteq torn'
    BY <1>3
  <2>3. req.id \in torn'
    BY <1>2, <1>3
  <2> QED BY <1>2, <1>4, <2>1, <2>2, <2>3, ForwardFollows
<1> QED BY <1>3, <1>6, <1>7, <1>8, InvPartsNext DEF Inv

LEMMA OddRequest ==
    ASSUME NEW r \in Requests, fed \in [Requests -> 0 .. MaxLen], NEW req \in OddRequests(r)
    PROVE  /\ IsRequest(req) /\ req.id = r /\ ~StartsOver(req)
           /\ ~req.kv \/ ~WellFormed(req)
<1>1. fed[r] + 1 \in Nat
  BY SessionsAssumption DEF SessionsAssumption
<1>2. CASE req = Request(r, "decode", fed[r] + 1, <<Stray, Stray>>)
  BY <1>1, <1>2 DEF Request, IsRequest, StartsOver, WellFormed, Stray
<1>3. CASE req = Request(r, "other", 0, <<Stray>>)
  BY <1>1, <1>3 DEF Request, IsRequest, StartsOver, WellFormed, Stray
<1>4. CASE req = [Request(r, "decode", fed[r] + 1, <<Stray>>) EXCEPT !.kv = FALSE]
  BY <1>1, <1>4 DEF Request, IsRequest, StartsOver, WellFormed, Stray
<1> QED BY <1>2, <1>3, <1>4 DEF OddRequests

LEMMA InvOdd ==
    ASSUME Inv, NEW r \in Requests, NEW req \in OddRequests(r), Odd(r, req)
    PROVE  Inv'
<1> DEFINE after == Forward(sessions, req, "done").sessions
<1>1. fed \in [Requests -> 0 .. MaxLen] /\ faults + 1 \in 0 .. MaxFaults
  BY SessionsAssumption DEF Odd, Inv, Types, SessionsAssumption
<1>2. /\ IsRequest(req) /\ req.id = r /\ ~StartsOver(req)
      /\ ~req.kv \/ ~WellFormed(req)
  BY <1>1, OddRequest
<1>3. /\ sessions' = after
      /\ fed' = fed
      /\ torn' = torn \cup (DOMAIN sessions \ DOMAIN after)
      /\ holed' = IF r \in DOMAIN sessions THEN holed ELSE holed \ {r}
      /\ faults' = faults + 1
  BY DEF Odd, Evicted
<1>4. Types /\ SessionMap(sessions) /\ Clean(sessions, holed) /\ Follows(sessions, fed, torn)
  BY InvParts DEF Inv, Types
<1>5. SessionMap(after)
  BY <1>2, <1>4, ForwardShape
<1>6. Types'
  BY <1>1, <1>3, <1>4, <1>5 DEF Types, SessionMap
<1>7. Clean(after, holed')
  <2>1. \A q : q # req.id /\ q \in holed => q \in holed'
    BY <1>2, <1>3
  <2>2. req.id \notin holed' => req.id \notin holed \/ req.id \notin DOMAIN sessions
    BY <1>2, <1>3
  <2> QED BY <1>2, <1>4, <2>1, <2>2, ForwardClean
<1>8. Follows(after, fed', torn')
  <2>1. \A q \in Requests \ {req.id} : fed'[q] = fed[q] /\ (q \in torn => q \in torn')
    BY <1>3
  <2>2. DOMAIN sessions \ DOMAIN after \subseteq torn'
    BY <1>3
  <2>3. ASSUME r \notin torn', fed[r] > 0
        PROVE  Faithful(Served(Base(sessions, req), req, "done"), fed[r])
    <3>1. r \in DOMAIN sessions /\ Faithful(sessions[r], fed[r])
      BY <1>3, <1>4, <2>3 DEF Follows
    <3>2. Base(sessions, req) = sessions[r] /\ sessions[r] \in SessionType
      BY <1>2, <1>4, <3>1 DEF Base, SessionMap
    <3>3. fed[r] \in Nat
      BY <1>1, SessionsAssumption DEF SessionsAssumption
    <3> QED BY <1>2, <3>1, <3>2, <3>3, OddFaithful
  <2>4. req.id \notin torn' /\ fed'[req.id] > 0
            => Faithful(Served(Base(sessions, req), req, "done"), fed'[req.id])
    BY <1>2, <1>3, <2>3
  <2> QED BY <1>2, <1>4, <2>1, <2>2, <2>4, ForwardFollows
<1> QED BY <1>3, <1>6, <1>7, <1>8, InvPartsNext DEF Inv

LEMMA InvRestart == Inv /\ Restart => Inv'
<1> SUFFICES ASSUME Inv, Restart PROVE Inv'
  OBVIOUS
<1>1. /\ sessions' = NoSessions /\ fed' = fed /\ holed' = {}
      /\ torn' = torn \cup DOMAIN sessions
      /\ faults' = faults + 1 /\ faults' \in 0 .. MaxFaults
  BY SessionsAssumption DEF Restart, Inv, Types, SessionsAssumption
<1>2. DOMAIN NoSessions = {} /\ NoSessions = [r \in DOMAIN NoSessions |-> NoSessions[r]]
  BY DEF NoSessions
<1>3. SessionMap(NoSessions)
  BY <1>2, FS_EmptySet, RuntimeAssumption DEF SessionMap, RuntimeAssumption
<1>4. Types /\ SessionMap(sessions) /\ Follows(sessions, fed, torn)
  BY InvParts DEF Inv, Types
<1>5. Types'
  BY <1>1, <1>3, <1>4 DEF Types, SessionMap
<1>6. Clean(sessions', holed') /\ Follows(sessions', fed', torn')
  BY <1>1, <1>2, <1>4 DEF Clean, Follows
<1> QED BY <1>5, <1>6, InvPartsNext DEF Inv

LEMMA InvNext == Inv /\ [Next]_vars => Inv'
<1> SUFFICES ASSUME Inv, [Next]_vars PROVE Inv'
  OBVIOUS
<1>1. CASE \E r \in Requests : \E n \in PromptLens : Prefill(r, n)
  BY <1>1, InvPrefill
<1>2. CASE \E r \in Requests : Decode(r)
  BY <1>2, InvDecode
<1>3. CASE \E r \in Requests : \E outcome \in {"early", "late"} : Throw(r, outcome)
  BY <1>3, InvThrow
<1>4. CASE \E r \in Requests : \E req \in OddRequests(r) : Odd(r, req)
  BY <1>4, InvOdd
<1>5. CASE Restart
  BY <1>5, InvRestart
<1>6. CASE UNCHANGED vars
  BY <1>6 DEF vars, Inv, Types, NoHoles, CacheFollowsClient
<1> QED BY <1>1, <1>2, <1>3, <1>4, <1>5, <1>6 DEF Next

LEMMA InvAlways == Spec => []Inv
  BY InvInit, InvNext, PTL DEF Spec

(* However requests come, throw and are restarted, the map holds at most   *)
(* max_sessions sessions, each of them whole.                              *)
THEOREM TypeCorrect == Spec => []TypeOK
<1>1. Inv => TypeOK
  BY DEF Inv, Types, SessionMap, SessionType, RowValues, TypeOK
<1> QED BY <1>1, InvAlways, PTL

(* Attention reads no row that resize() filled with zeros, except in a     *)
(* session one of whose forwards threw.                                    *)
THEOREM NoHolesAlways == Spec => []NoHoles
  BY InvAlways, PTL DEF Inv

(* A generation that was not evicted, lost or left half done finds exactly *)
(* the positions it fed, whoever else used the stage in between.           *)
THEOREM CacheFollows == Spec => []CacheFollowsClient
  BY InvAlways, PTL DEF Inv

------------------------------------------------------------------------------
EvictStep ==
    \A r \in DOMAIN sessions \ DOMAIN sessions' :
        \/ DOMAIN sessions' = {}
        \/ Cardinality(DOMAIN sessions') = MaxSessions

LEMMA EvictNext == Inv /\ [Next]_vars => [EvictStep]_sessions
<1> SUFFICES ASSUME Inv, [Next]_vars PROVE EvictStep \/ UNCHANGED sessions
  OBVIOUS
<1>1. SessionMap(sessions) /\ fed \in [Requests -> 0 .. MaxLen]
  BY DEF Inv, Types
<1>2. ASSUME NEW req, IsRequest(req), NEW outcome,
             sessions' = Forward(sessions, req, outcome).sessions
      PROVE  EvictStep
  BY <1>1, <1>2, ForwardEvicts DEF EvictStep
<1>3. ASSUME NEW r \in Requests, NEW n \in PromptLens, Prefill(r, n) PROVE EvictStep
  BY <1>2, <1>3, PrefillFaithful, SessionsAssumption DEF Prefill, SessionsAssumption
<1>4. ASSUME NEW r \in Requests, fed[r] \in Nat,
             Decode(r) \/ \E outcome \in {"early", "late"} : Throw(r, outcome)
      PROVE  EvictStep
  <2> DEFINE req == Request(r, "decode", fed[r] + 1, <<fed[r] + 1>>)
  <2>1. IsRequest(req)
    BY <1>4, DecodeRequest
  <2>2. \E outcome : sessions' = Forward(sessions, req, outcome).sessions
    BY <1>4 DEF Decode, Throw
  <2> QED BY <1>2, <2>1, <2>2
<1>5. ASSUME NEW r \in Requests, NEW req \in OddRequests(r), Odd(r, req) PROVE EvictStep
  BY <1>1, <1>2, <1>5, OddRequest DEF Odd
<1>6. CASE Restart
  BY <1>6 DEF Restart, NoSessions, EvictStep
<1>7. CASE UNCHANGED vars
  BY <1>7 DEF vars
<1>8. \A r \in Requests : fed[r] \in Nat
  BY <1>1, SessionsAssumption DEF SessionsAssumption
<1> QED BY <1>3, <1>4, <1>5, <1>6, <1>7, <1>8 DEF Next

(* A forward erases sessions of others only if that leaves the map full.   *)
THEOREM EvictionMakesRoom == Spec => EvictsOnlyForRoom
<1>1. [EvictStep]_sessions => [\A r \in DOMAIN sessions \ DOMAIN sessions' :
                                  \/ DOMAIN sessions' = {}
                                  \/ Cardinality(DOMAIN sessions') = MaxSessions]_sessions
  BY DEF EvictStep
<1> QED BY <1>1, EvictNext, InvAlways, PTL DEF EvictsOnlyForRoom, Spec

------------------------------------------------------------------------------
(* What StageMemory adds: its behaviours are behaviours of StageSessions,  *)
(* so that what is proved of those holds of a stage with its memory, and   *)
(* the sampler's stream follows each generation.                           *)

LEMMA StepIsStep == [MemoryNext]_<<vars, memoryVars>> => [Next]_vars
<1>1. ASSUME NEW r \in Requests, NEW n \in PromptLens, MPrefill(r, n) PROVE Next
  BY <1>1 DEF MPrefill, Next
<1>2. ASSUME NEW r \in Requests, MDecode(r) PROVE Next
  BY <1>2 DEF MDecode, Next
<1>3. ASSUME NEW r \in Requests, NEW outcome \in {"early", "late"}, MThrow(r, outcome) PROVE Next
  BY <1>3 DEF MThrow, Next
<1>4. ASSUME NEW r \in Requests, NEW req \in OddRequests(r), MOdd(r, req) PROVE Next
  BY <1>4 DEF MOdd, Next
<1>5. ASSUME MRestart PROVE Next
  BY <1>5 DEF MRestart, Next
<1> QED
  BY <1>1, <1>2, <1>3, <1>4, <1>5 DEF MemoryNext

(* Nothing in the memory of a stage keeps it from serving a forward, or    *)
(* changes what the forward does to the sessions.                          *)
THEOREM MemoryIsSuperposed == MemorySpec => Spec
<1>1. MemoryInit => Init
  BY DEF MemoryInit
<1> QED
  BY <1>1, StepIsStep, PTL DEF MemorySpec, Spec

------------------------------------------------------------------------------
(* The sampler.                                                            *)

Stream(n) == [seeded |-> TRUE, draws |-> n]

(* SeedReproduces, with the memory of exactly the sessions there are       *)
SeedInv ==
    /\ DOMAIN memory = DOMAIN sessions
    /\ answered \in [Requests -> Nat]
    /\ SeedReproduces

(* A forward gives its request's session another memory, and the others    *)
(* keep theirs.                                                            *)
LEMMA RememberShape ==
    ASSUME Types, NEW req, IsRequest(req), NEW outcome, Remember(req, outcome),
           sessions' = Forward(sessions, req, outcome).sessions
    PROVE  /\ DOMAIN memory' = DOMAIN sessions'
           /\ \A q \in DOMAIN sessions' \ {req.id} : memory'[q] = memory[q]
           /\ req.id \in DOMAIN sessions'
           /\ memory'[req.id].rng =
                 Drawn(IF req.id \in DOMAIN memory /\ ~StartsOver(req) THEN memory[req.id].rng
                                                                       ELSE FreshMemory.rng,
                       Base(sessions, req).seqLen, outcome)
<1>1. req.id \in DOMAIN sessions'
  BY ForwardShape DEF Types
<1>2. SessionFor(sessions, req)[req.id] = Base(sessions, req)
  BY FoundShape DEF Types
<1>3. memory'[req.id] = Executed(req, outcome)
  BY <1>1 DEF Remember
<1>4. Executed(req, outcome).rng =
          Drawn((IF req.id \in DOMAIN memory /\ ~StartsOver(req) THEN memory[req.id]
                                                                 ELSE FreshMemory).rng,
                Base(sessions, req).seqLen, outcome)
  BY <1>2 DEF Executed
<1> QED
  BY <1>1, <1>3, <1>4 DEF Remember

(* What a step of one client leaves of the others' streams                 *)
LEMMA OthersDraw ==
    ASSUME Inv, Inv', SeedInv, NEW r \in Requests, NEW q \in Requests \ {r},
           \A p \in DOMAIN sessions' \ {r} : memory'[p] = memory[p],
           fed'[q] = fed[q], answered'[q] = answered[q],
           q \in torn => q \in torn', q \in odd => q \in odd',
           q \notin torn' \cup odd', fed'[q] > 0
    PROVE  memory'[q].rng = Stream(answered'[q])
<1>1. memory[q].rng = Stream(answered[q])
  BY DEF SeedInv, SeedReproduces, Stream
<1>2. q \in DOMAIN sessions'
  BY DEF Inv, CacheFollowsClient
<1> QED
  BY <1>1, <1>2

LEMMA SeedPrefill ==
    ASSUME Inv, Inv', SeedInv, NEW r \in Requests, NEW n \in PromptLens, MPrefill(r, n)
    PROVE  SeedInv'
<1> DEFINE req == Request(r, "prefill", 0, [i \in 1 .. n |-> i])
<1>1. n \in Nat \ {0}
  BY SessionsAssumption DEF SessionsAssumption
<1>2. IsRequest(req) /\ StartsOver(req) /\ req.id = r
  BY <1>1, PrefillFaithful DEF Request
<1>3. sessions' = Forward(sessions, req, "done").sessions /\ Remember(req, "done")
  BY DEF MPrefill, Prefill
<1> HIDE DEF req
<1>4. /\ DOMAIN memory' = DOMAIN sessions'
      /\ \A q \in DOMAIN sessions' \ {r} : memory'[q] = memory[q]
      /\ memory'[r].rng = Drawn(FreshMemory.rng, Base(sessions, req).seqLen, "done")
  BY <1>2, <1>3, RememberShape DEF Inv
<1>5. Base(sessions, req).seqLen = 0
  BY <1>2 DEF Base, Fresh
<1>6. memory'[r].rng = Stream(1)
  <2>1. Drawn(FreshMemory.rng, Base(sessions, req).seqLen, "done") = Stream(0 + 1)
    BY <1>5 DEF Drawn, Reseed, Stream
  <2>2. 0 + 1 = 1
    OBVIOUS
  <2> QED
    BY <1>4, <2>1, <2>2
<1>7. /\ answered' = [answered EXCEPT ![r] = 1]
      /\ odd' = odd \ {r}
      /\ fed' = [fed EXCEPT ![r] = n]
      /\ torn \ {r} \subseteq torn'
  BY DEF MPrefill, Prefill
<1>8. answered' \in [Requests -> Nat] /\ answered'[r] = 1
  BY <1>7 DEF SeedInv
<1>9. ASSUME NEW q \in Requests \ (torn' \cup odd'), fed'[q] > 0, q # r
      PROVE  memory'[q].rng = Stream(answered'[q])
  <2>1. fed'[q] = fed[q] /\ answered'[q] = answered[q]
    BY <1>7, <1>9 DEF Inv, Types, SeedInv
  <2>2. (q \in torn => q \in torn') /\ (q \in odd => q \in odd')
    BY <1>7, <1>9
  <2> QED
    BY <1>4, <1>9, <2>1, <2>2, OthersDraw
<1>10. SeedReproduces'
  BY <1>6, <1>8, <1>9 DEF SeedReproduces, Stream
<1> QED
  BY <1>4, <1>8, <1>10 DEF SeedInv

LEMMA SeedDecode ==
    ASSUME Inv, Inv', SeedInv, NEW r \in Requests, MDecode(r)
    PROVE  SeedInv'
<1> DEFINE req == Request(r, "decode", fed[r] + 1, <<fed[r] + 1>>)
<1>1. fed[r] \in Nat /\ fed[r] > 0
  BY SessionsAssumption DEF Inv, Types, MDecode, Decode, SessionsAssumption
<1>2. IsRequest(req) /\ ~StartsOver(req) /\ req.id = r
  BY <1>1, DecodeRequest
<1>3. sessions' = Forward(sessions, req, "done").sessions /\ Remember(req, "done")
  BY DEF MDecode, Decode
<1> HIDE DEF req
<1>4. /\ DOMAIN memory' = DOMAIN sessions'
      /\ \A q \in DOMAIN sessions' \ {r} : memory'[q] = memory[q]
      /\ r \in DOMAIN memory =>
            memory'[r].rng = Drawn(memory[r].rng, Base(sessions, req).seqLen, "done")
  BY <1>2, <1>3, RememberShape DEF Inv
<1>5. /\ answered' = [answered EXCEPT ![r] = @ + 1]
      /\ odd' = odd
      /\ fed' = [fed EXCEPT ![r] = fed[r] + 1]
      /\ torn \subseteq torn'
  BY DEF MDecode, Decode
<1>6. answered' \in [Requests -> Nat] /\ answered'[r] = answered[r] + 1
  BY <1>5 DEF SeedInv
<1>7. ASSUME r \notin torn' \cup odd' PROVE memory'[r].rng = Stream(answered'[r])
  <2>1. memory[r].rng = Stream(answered[r])
    BY <1>1, <1>5, <1>7 DEF SeedInv, SeedReproduces, Stream
  <2>2. r \in DOMAIN sessions /\ sessions[r].seqLen = fed[r]
    BY <1>1, <1>5, <1>7 DEF Inv, CacheFollowsClient
  <2>3. r \in DOMAIN memory /\ Base(sessions, req).seqLen # 0
    BY <1>1, <1>2, <2>2 DEF SeedInv, Base
  <2>4. Drawn(Stream(answered[r]), Base(sessions, req).seqLen, "done") = Stream(answered[r] + 1)
    BY <2>3 DEF Drawn, Reseed, Stream
  <2> QED
    BY <1>4, <1>6, <2>1, <2>3, <2>4
<1>8. ASSUME NEW q \in Requests \ (torn' \cup odd'), fed'[q] > 0, q # r
      PROVE  memory'[q].rng = Stream(answered'[q])
  <2>1. fed'[q] = fed[q] /\ answered'[q] = answered[q]
    BY <1>5, <1>8 DEF Inv, Types, SeedInv
  <2> QED
    BY <1>4, <1>5, <1>8, <2>1, OthersDraw
<1>9. SeedReproduces'
  BY <1>7, <1>8 DEF SeedReproduces, Stream
<1> QED
  BY <1>4, <1>6, <1>9 DEF SeedInv

(* A forward that throws leaves its generation torn, and one that is odd   *)
(* is counted as such: the streams of the others are not touched.          *)
LEMMA SeedAside ==
    ASSUME Inv, Inv', SeedInv, NEW r \in Requests, NEW req, IsRequest(req), req.id = r,
           NEW outcome, Remember(req, outcome),
           sessions' = Forward(sessions, req, outcome).sessions,
           UNCHANGED <<fed, answered>>, torn \subseteq torn', odd \subseteq odd',
           r \in torn' \cup odd'
    PROVE  SeedInv'
<1>1. /\ DOMAIN memory' = DOMAIN sessions'
      /\ \A q \in DOMAIN sessions' \ {r} : memory'[q] = memory[q]
  BY RememberShape DEF Inv
<1>2. ASSUME NEW q \in Requests \ (torn' \cup odd'), fed'[q] > 0
      PROVE  memory'[q].rng = Stream(answered'[q])
  BY <1>1, <1>2, OthersDraw
<1>3. SeedReproduces'
  BY <1>2 DEF SeedReproduces, Stream
<1> QED
  BY <1>1, <1>3 DEF SeedInv

LEMMA SeedNext == Inv /\ Inv' /\ SeedInv /\ [MemoryNext]_<<vars, memoryVars>> => SeedInv'
<1> SUFFICES ASSUME Inv, Inv', SeedInv, [MemoryNext]_<<vars, memoryVars>> PROVE SeedInv'
  OBVIOUS
<1>1. ASSUME NEW r \in Requests, NEW n \in PromptLens, MPrefill(r, n) PROVE SeedInv'
  BY <1>1, SeedPrefill
<1>2. ASSUME NEW r \in Requests, MDecode(r) PROVE SeedInv'
  BY <1>2, SeedDecode
<1>3. ASSUME NEW r \in Requests, NEW outcome \in {"early", "late"}, MThrow(r, outcome)
      PROVE  SeedInv'
  <2> DEFINE req == Request(r, "decode", fed[r] + 1, <<fed[r] + 1>>)
  <2>1. fed[r] \in Nat
    BY SessionsAssumption DEF Inv, Types, SessionsAssumption
  <2>2. IsRequest(req) /\ req.id = r
    BY <2>1, DecodeRequest
  <2>3. /\ sessions' = Forward(sessions, req, outcome).sessions
        /\ Remember(req, outcome)
        /\ UNCHANGED <<fed, answered>>
        /\ torn \subseteq torn' /\ odd \subseteq odd' /\ r \in torn' \cup odd'
    BY <1>3 DEF MThrow, Throw
  <2> HIDE DEF req
  <2> QED
    BY <2>2, <2>3, SeedAside
<1>4. ASSUME NEW r \in Requests, NEW req \in OddRequests(r), MOdd(r, req) PROVE SeedInv'
  <2>1. IsRequest(req) /\ req.id = r
    BY OddRequest DEF Inv, Types
  <2>2. /\ sessions' = Forward(sessions, req, "done").sessions
        /\ Remember(req, "done")
        /\ UNCHANGED <<fed, answered>>
        /\ torn \subseteq torn' /\ odd \subseteq odd' /\ r \in torn' \cup odd'
    BY <1>4 DEF MOdd, Odd
  <2> QED
    BY <2>1, <2>2, SeedAside
<1>5. ASSUME MRestart PROVE SeedInv'
  <2>1. /\ DOMAIN memory' = {} /\ DOMAIN sessions' = {}
        /\ UNCHANGED <<fed, answered, odd>>
        /\ torn' = torn \cup DOMAIN sessions
    BY <1>5 DEF MRestart, Restart, NoSessions
  <2>2. \A r \in Requests \ torn' : ~(fed'[r] > 0)
    BY <2>1 DEF Inv, CacheFollowsClient
  <2> QED
    BY <2>1, <2>2 DEF SeedInv, SeedReproduces
<1>6. ASSUME UNCHANGED <<vars, memoryVars>> PROVE SeedInv'
  BY <1>6 DEF vars, memoryVars, SeedInv, SeedReproduces
<1> QED
  BY <1>1, <1>2, <1>3, <1>4, <1>5, <1>6 DEF MemoryNext

LEMMA SeedInit == MemoryInit => SeedInv
  BY DEF MemoryInit, Init, NoSessions, SeedInv, SeedReproduces

(* Whoever uses the stage in between: a generation that was not evicted,   *)
(* lost or left half done draws its n-th token with the n-th number of the *)
(* stream of its seed.                                                     *)
THEOREM SeedIsReproduced == MemorySpec => []SeedReproduces
<1>1. MemorySpec => []Inv
  BY MemoryIsSuperposed, InvAlways
<1>2. SeedInv => SeedReproduces
  BY DEF SeedInv
<1> QED
  BY <1>1, <1>2, SeedInit, SeedNext, PTL DEF MemorySpec

------------------------------------------------------------------------------
(* The transposed copy of V. Beyond TransposeAgrees: past the rows of the  *)
(* session it holds nothing but zeros, which is what a row that a later    *)
(* resize() skips is.                                                      *)

CopyOf(vT, rows) ==
    /\ vT \in Seq(RowValues)
    /\ Len(vT) >= Len(rows)
    /\ \A p \in DOMAIN vT : vT[p] = IF p <= Len(rows) THEN rows[p] ELSE "gap"

CopyInv ==
    /\ DOMAIN memory = DOMAIN sessions
    /\ \A r \in DOMAIN sessions : CopyOf(memory[r].vT, sessions[r].rows)

(* The buffer after the first i of the n positions that a forward writes   *)
(* from before + 1 on, with rows as the forward leaves them: what is still *)
(* to be written may hold anything.                                        *)
CopySoFar(vT, rows, size, before, n, i) ==
    /\ vT \in Seq(RowValues)
    /\ Len(vT) >= size
    /\ i > 0 => Len(vT) >= before + i
    /\ \A p \in DOMAIN vT :
          p \notin before + i + 1 .. before + n =>
              vT[p] = IF p <= Len(rows) THEN rows[p] ELSE "gap"

LEMMA MaxOfThree ==
    ASSUME NEW a \in Nat, NEW b \in Nat, NEW c \in Nat
    PROVE  /\ Max({a, b, c}) \in Nat
           /\ Max({a, b, c}) >= a
<1> DEFINE Tops(x) == x \in {a, b, c} /\ \A y \in {a, b, c} : x >= y
<1>1. \E x \in {a, b, c} : Tops(x)
  <2>1. CASE a >= b /\ a >= c
    BY <2>1
  <2>2. CASE b >= a /\ b >= c
    BY <2>2
  <2>3. CASE c >= a /\ c >= b
    BY <2>3
  <2> QED BY <2>1, <2>2, <2>3
<1>2. Tops(CHOOSE x \in {a, b, c} : Tops(x))
  BY <1>1
<1>3. Tops(Max({a, b, c}))
  BY <1>2 DEF Max
<1> QED BY <1>3

(* A buffer that is too small is copied anew, into one that is not.        *)
LEMMA RegrownShape ==
    ASSUME NEW vT \in Seq(RowValues), NEW rows \in Seq(RowValues),
           NEW required \in Nat, required <= Len(rows)
    PROVE  /\ Regrown(vT, rows, required) \in Seq(RowValues)
           /\ Len(Regrown(vT, rows, required)) >= required
           /\ \A p \in DOMAIN Regrown(vT, rows, required) :
                 Regrown(vT, rows, required)[p] = IF p <= required THEN rows[p] ELSE "gap"
<1>1. PICK capacity : capacity = Max({required, 2 * Len(vT), MinCapacity})
  OBVIOUS
<1>2. capacity \in Nat /\ capacity >= required
  <2>1. 2 * Len(vT) \in Nat /\ MinCapacity \in Nat
    BY MemoryAssumption DEF MemoryAssumption
  <2>2. PICK twice \in Nat : twice = 2 * Len(vT)
    BY <2>1
  <2> QED BY <1>1, <2>1, <2>2, MaxOfThree
<1>3. PICK w : w = Regrown(vT, rows, required)
  OBVIOUS
<1>4. w = [p \in 1 .. capacity |-> IF p <= required THEN rows[p] ELSE "gap"]
  BY <1>1, <1>3 DEF Regrown, Transpose
<1>5. w \in Seq(RowValues) /\ Len(w) = capacity
  <2>1. ASSUME NEW p \in 1 .. capacity PROVE w[p] \in RowValues
    BY <1>2, <1>4 DEF RowValues
  <2> QED BY <1>2, <1>4, <2>1
<1>6. \A p \in DOMAIN w : w[p] = IF p <= required THEN rows[p] ELSE "gap"
  BY <1>4
<1> QED BY <1>2, <1>3, <1>5, <1>6

LEMMA AttendCopies ==
    ASSUME NEW vT, NEW rows \in Seq(RowValues), NEW size \in Nat, NEW before \in Nat,
           NEW n \in Nat, NEW i \in 0 .. n - 1,
           Len(rows) = IF size < before + n THEN before + n ELSE size,
           CopySoFar(vT, rows, size, before, n, i)
    PROVE  CopySoFar(Attend(vT, rows, before + (i + 1)), rows, size, before, n, i + 1)
<1>1. PICK position \in Nat : position = before + i + 1
  OBVIOUS
<1>2. position <= Len(rows) /\ position >= 1 /\ position <= before + n
  BY <1>1
<1>3. vT \in Seq(RowValues) /\ Len(vT) >= size
  BY DEF CopySoFar
<1>4. PICK w : w = Attend(vT, rows, position)
  OBVIOUS
<1>5. CASE Len(vT) < position
  <2>1. w = Regrown(vT, rows, position)
    BY <1>4, <1>5 DEF Attend
  <2>2. /\ w \in Seq(RowValues) /\ Len(w) >= position
        /\ \A p \in DOMAIN w : w[p] = IF p <= position THEN rows[p] ELSE "gap"
    BY <1>2, <1>3, <2>1, RegrownShape
  <2>3. Len(w) >= size
    BY <1>3, <1>5, <2>2
  <2>4. ASSUME NEW p \in DOMAIN w, p \notin before + (i + 1) + 1 .. before + n
        PROVE  w[p] = IF p <= Len(rows) THEN rows[p] ELSE "gap"
    <3>1. p \in Nat /\ p >= 1
      BY <2>2
    <3>2. CASE p <= position
      BY <1>2, <2>2, <3>1, <3>2
    <3>3. CASE p > position
      <4>1. p > before + n /\ p > size
        BY <1>1, <1>3, <1>5, <2>4, <3>1, <3>3
      <4>2. p > Len(rows)
        BY <3>1, <4>1
      <4> QED BY <2>2, <3>1, <3>3, <4>2, <1>2
    <3> QED BY <3>1, <3>2, <3>3
  <2>5. CopySoFar(w, rows, size, before, n, i + 1)
    BY <1>1, <2>2, <2>3, <2>4 DEF CopySoFar
  <2> QED BY <1>1, <1>4, <2>5
<1>6. CASE Len(vT) >= position
  <2>1. w = [vT EXCEPT ![position] = rows[position]]
    BY <1>1, <1>3, <1>4, <1>6 DEF Attend
  <2>2. rows[position] \in RowValues
    BY <1>2
  <2>3. w \in Seq(RowValues) /\ Len(w) = Len(vT)
    <3>1. ASSUME NEW p \in 1 .. Len(vT) PROVE w[p] \in RowValues
      BY <1>3, <2>1, <2>2
    <3>2. DOMAIN vT = 1 .. Len(vT) /\ Len(vT) \in Nat
      BY <1>3
    <3>3. w = [p \in DOMAIN vT |-> w[p]]
      BY <2>1
    <3> QED BY <3>1, <3>2, <3>3
  <2>4. ASSUME NEW p \in DOMAIN w, p \notin before + (i + 1) + 1 .. before + n
        PROVE  w[p] = IF p <= Len(rows) THEN rows[p] ELSE "gap"
    <3>1. p \in Nat /\ p \in DOMAIN vT
      BY <1>3, <2>1
    <3>2. CASE p = position
      BY <1>2, <1>3, <2>1, <3>1, <3>2
    <3>3. CASE p # position
      <4>1. p \notin before + i + 1 .. before + n
        BY <1>1, <2>4, <3>1, <3>3
      <4> QED BY <2>1, <3>1, <3>3, <4>1 DEF CopySoFar
    <3> QED BY <3>2, <3>3
  <2>5. CopySoFar(w, rows, size, before, n, i + 1)
    BY <1>1, <1>3, <1>6, <2>3, <2>4 DEF CopySoFar
  <2> QED BY <1>1, <1>4, <2>5
<1> QED BY <1>3, <1>5, <1>6

(* The loop over the tokens of a forward does what its text says: the      *)
(* recursive function exists, by the smallest number of tokens for which   *)
(* it would not.                                                           *)
AttendSteps(kept, vT, rows, before, n) ==
    kept = [i \in 0 .. n |-> IF i = 0 THEN vT ELSE Attend(kept[i - 1], rows, before + i)]

LEMMA AttendStepsExist ==
    ASSUME NEW vT, NEW rows, NEW before \in Nat, NEW n \in Nat
    PROVE  \E kept : AttendSteps(kept, vT, rows, before, n)
<1> DEFINE Stuck == {m \in Nat : ~ \E kept : AttendSteps(kept, vT, rows, before, m)}
<1>1. ASSUME Stuck # {} PROVE FALSE
  <2>1. PICK m \in Stuck : \A k \in Stuck : m <= k
    BY <1>1, SmallestNat
  <2>2. CASE m = 0
    <3>1. AttendSteps([i \in 0 .. 0 |-> vT], vT, rows, before, 0)
      BY DEF AttendSteps
    <3> QED BY <2>1, <2>2, <3>1
  <2>3. CASE m # 0
    <3>1. m - 1 \in Nat /\ m - 1 \notin Stuck
      BY <2>1, <2>3
    <3>2. PICK kept : AttendSteps(kept, vT, rows, before, m - 1)
      BY <3>1
    <3>3. PICK more : more = [i \in 0 .. m |-> IF i = m THEN Attend(kept[m - 1], rows, before + m)
                                                        ELSE kept[i]]
      OBVIOUS
    <3>4. more = [i \in 0 .. m |-> IF i = 0 THEN vT ELSE Attend(more[i - 1], rows, before + i)]
      <4>1. ASSUME NEW i \in 0 .. m
            PROVE  more[i] = IF i = 0 THEN vT ELSE Attend(more[i - 1], rows, before + i)
        <5>1. CASE i = m
          <6>1. more[i] = Attend(kept[m - 1], rows, before + m)
            BY <3>3, <5>1
          <6>2. more[i - 1] = kept[m - 1]
            BY <3>1, <3>3, <5>1
          <6> QED BY <2>3, <5>1, <6>1, <6>2
        <5>2. CASE i # m
          <6>1. i \in 0 .. m - 1 /\ more[i] = kept[i]
            BY <3>1, <3>3, <5>2
          <6>2. kept[i] = IF i = 0 THEN vT ELSE Attend(kept[i - 1], rows, before + i)
            BY <3>2, <6>1 DEF AttendSteps
          <6>3. i # 0 => more[i - 1] = kept[i - 1]
            BY <3>3, <6>1
          <6> QED BY <6>1, <6>2, <6>3
        <5> QED BY <5>1, <5>2
      <4> QED BY <3>3, <4>1
    <3>5. \E any : AttendSteps(any, vT, rows, before, m)
      BY <3>4 DEF AttendSteps
    <3> QED BY <2>1, <3>5
  <2> QED BY <2>2, <2>3
<1> QED BY <1>1

LEMMA AttendAllSteps ==
    ASSUME NEW vT, NEW rows, NEW before \in Nat, NEW n \in Nat
    PROVE  \E kept : /\ AttendSteps(kept, vT, rows, before, n)
                     /\ AttendAll(vT, rows, before, n) = kept[n]
<1> DEFINE kept == CHOOSE kept : AttendSteps(kept, vT, rows, before, n)
<1>1. AttendSteps(kept, vT, rows, before, n)
  BY AttendStepsExist
<1>2. AttendAll(vT, rows, before, n) = kept[n]
  BY DEF AttendAll, AttendSteps
<1> QED BY <1>1, <1>2

LEMMA AttendAllCopies ==
    ASSUME NEW vT, NEW rows \in Seq(RowValues), NEW size \in Nat, NEW before \in Nat,
           NEW n \in Nat,
           Len(rows) = IF size < before + n THEN before + n ELSE size,
           CopySoFar(vT, rows, size, before, n, 0)
    PROVE  CopySoFar(AttendAll(vT, rows, before, n), rows, size, before, n, n)
<1>1. PICK kept : /\ AttendSteps(kept, vT, rows, before, n)
                  /\ AttendAll(vT, rows, before, n) = kept[n]
  BY AttendAllSteps
<1> DEFINE Wrong == {i \in 0 .. n : ~CopySoFar(kept[i], rows, size, before, n, i)}
<1>2. ASSUME Wrong # {} PROVE FALSE
  <2>1. PICK m \in Wrong : \A k \in Wrong : m <= k
    <3>1. Wrong \in SUBSET Nat
      OBVIOUS
    <3> HIDE DEF Wrong
    <3> QED BY <1>2, <3>1, SmallestNat
  <2>2. CASE m = 0
    <3>1. kept[0] = vT
      BY <1>1 DEF AttendSteps
    <3> QED BY <2>1, <2>2, <3>1
  <2>3. CASE m # 0
    <3>1. PICK i \in 0 .. n - 1 : m = i + 1 /\ i \notin Wrong
      BY <2>1, <2>3
    <3>2. CopySoFar(kept[i], rows, size, before, n, i)
      BY <3>1
    <3>3. kept[m] = Attend(kept[i], rows, before + (i + 1))
      BY <1>1, <3>1 DEF AttendSteps
    <3>4. CopySoFar(kept[m], rows, size, before, n, m)
      BY <3>1, <3>2, <3>3, AttendCopies
    <3> QED BY <2>1, <3>4
  <2> QED BY <2>2, <2>3
<1>3. CopySoFar(kept[n], rows, size, before, n, n)
  BY <1>2
<1> QED BY <1>1, <1>3

(* What resize() does: as long as needed and no longer, with zeros where   *)
(* it skips.                                                               *)
LEMMA WriteRowsSize ==
    ASSUME NEW rows \in Seq(RowValues), NEW before \in Nat, NEW tokens \in Seq(Nat)
    PROVE  /\ Len(WriteRows(rows, before, tokens)) =
                  IF Len(rows) < before + Len(tokens) THEN before + Len(tokens) ELSE Len(rows)
           /\ \A p \in DOMAIN WriteRows(rows, before, tokens) :
                 p > Len(rows) /\ p <= before => WriteRows(rows, before, tokens)[p] = "gap"
<1>1. PICK w : w = WriteRows(rows, before, tokens)
  OBVIOUS
<1>2. PICK size \in Nat : size = IF Len(rows) < before + Len(tokens)
                                 THEN before + Len(tokens) ELSE Len(rows)
  OBVIOUS
<1>3. DOMAIN w = 1 .. size
  BY <1>1, <1>2 DEF WriteRows
<1>4. w \in Seq(RowValues)
  BY <1>1, WriteRowsShape DEF Written
<1>5. Len(w) = size
  BY <1>3, <1>4
<1>6. ASSUME NEW p \in 1 .. size, p > Len(rows), p <= before PROVE w[p] = "gap"
  BY <1>1, <1>2, <1>6 DEF WriteRows
<1> QED BY <1>1, <1>2, <1>3, <1>5, <1>6

(* A forward that ran its layers, from an agreeing copy to an agreeing one *)
LEMMA CopyWritten ==
    ASSUME NEW vT, NEW rows \in Seq(RowValues), CopyOf(vT, rows),
           NEW before \in Nat, NEW tokens \in Seq(Nat), Len(tokens) >= 1
    PROVE  CopyOf(AttendAll(vT, WriteRows(rows, before, tokens), before, Len(tokens)),
                  WriteRows(rows, before, tokens))
<1>1. PICK w : w = WriteRows(rows, before, tokens)
  OBVIOUS
<1>2. PICK n \in Nat : n = Len(tokens) /\ n >= 1
  OBVIOUS
<1>3. PICK size \in Nat : size = Len(rows)
  OBVIOUS
<1>4. Written(w, rows, before, tokens)
  BY <1>1, WriteRowsShape
<1>5. /\ w \in Seq(RowValues)
      /\ Len(w) = IF size < before + n THEN before + n ELSE size
      /\ \A p \in DOMAIN w : p > size /\ p <= before => w[p] = "gap"
  BY <1>1, <1>2, <1>3, <1>4, WriteRowsSize DEF Written
<1>6. CopySoFar(vT, w, size, before, n, 0)
  <2>1. ASSUME NEW p \in DOMAIN vT, p \notin before + 0 + 1 .. before + n
        PROVE  vT[p] = IF p <= Len(w) THEN w[p] ELSE "gap"
    <3>1. p \in Nat /\ p >= 1 /\ vT[p] = IF p <= size THEN rows[p] ELSE "gap"
      BY <1>3 DEF CopyOf
    <3>2. p \notin before + 1 .. before + n
      BY <2>1
    <3>3. CASE p <= size
      <4>1. w[p] = rows[p]
        BY <1>2, <1>3, <1>4, <3>1, <3>2, <3>3 DEF Written
      <4> QED BY <1>5, <3>1, <3>3, <4>1
    <3>4. CASE p > size /\ p <= before
      <4>1. p <= Len(w)
        BY <1>2, <1>5, <3>1, <3>4
      <4> QED BY <1>5, <3>1, <3>4, <4>1
    <3>5. CASE p > size /\ p > before + n
      BY <1>5, <3>1, <3>5
    <3> QED BY <1>2, <3>1, <3>2, <3>3, <3>4, <3>5
  <2> QED BY <1>3, <2>1 DEF CopyOf, CopySoFar
<1>7. CopySoFar(AttendAll(vT, w, before, n), w, size, before, n, n)
  BY <1>5, <1>6, AttendAllCopies
<1>8. PICK x : x = AttendAll(vT, w, before, n)
  OBVIOUS
<1>9. CopyOf(x, w)
  <2>1. \A p : p \notin before + n + 1 .. before + n
    BY <1>2
  <2> QED BY <1>2, <1>5, <1>7, <1>8, <2>1 DEF CopySoFar, CopyOf
<1> QED BY <1>1, <1>2, <1>8, <1>9

LEMMA CopyForward ==
    ASSUME Types, CopyInv, NEW req, IsRequest(req), NEW outcome, Remember(req, outcome),
           sessions' = Forward(sessions, req, outcome).sessions
    PROVE  CopyInv'
<1>1. /\ req.id \in DOMAIN sessions'
      /\ sessions'[req.id] = Served(Base(sessions, req), req, outcome)
      /\ DOMAIN sessions' \subseteq DOMAIN sessions \cup {req.id}
      /\ \A q \in DOMAIN sessions' \ {req.id} : sessions'[q] = sessions[q]
  BY ForwardShape DEF Types
<1>2. /\ DOMAIN memory' = DOMAIN sessions'
      /\ \A q \in DOMAIN sessions' \ {req.id} : memory'[q] = memory[q]
      /\ memory'[req.id] = Executed(req, outcome)
  BY <1>1 DEF Remember
<1>3. PICK session \in SessionType : session = Base(sessions, req)
  BY FreshType DEF Base, Types, SessionMap
<1>4. SessionFor(sessions, req)[req.id] = session
  BY <1>3, FoundShape DEF Types
<1>5. PICK vT : /\ vT = (IF req.id \in DOMAIN memory /\ ~StartsOver(req)
                         THEN memory[req.id] ELSE FreshMemory).vT
                /\ CopyOf(vT, session.rows)
  <2>1. CopyOf(FreshMemory.vT, Fresh.rows)
    BY DEF CopyOf, FreshMemory, Fresh
  <2> QED BY <1>3, <2>1 DEF CopyInv, Base
<1>6. PICK rows : rows = sessions'[req.id].rows
  OBVIOUS
<1>7. rows = IF outcome = "early" THEN session.rows
             ELSE WriteRows(session.rows, session.seqLen, req.tokens)
  <2>1. Advance(session, req) \in SessionType
    BY AdvanceType
  <2> QED BY <1>1, <1>3, <1>6, <2>1 DEF Served, SessionType
<1>8. memory'[req.id].vT = IF outcome = "early" THEN vT
                           ELSE AttendAll(vT, rows, session.seqLen, Len(req.tokens))
  BY <1>2, <1>4, <1>5, <1>6 DEF Executed
<1>9. CopyOf(memory'[req.id].vT, rows)
  <2>1. CASE outcome = "early"
    BY <1>5, <1>7, <1>8, <2>1
  <2>2. CASE outcome # "early"
    <3>1. CopyOf(AttendAll(vT, rows, session.seqLen, Len(req.tokens)), rows)
      BY <1>5, <1>7, <2>2, CopyWritten DEF SessionType, IsRequest
    <3> QED BY <1>8, <2>2, <3>1
  <2> QED BY <2>1, <2>2
<1>10. ASSUME NEW q \in DOMAIN sessions', q # req.id
       PROVE  CopyOf(memory'[q].vT, sessions'[q].rows)
  BY <1>1, <1>2, <1>10 DEF CopyInv
<1> QED BY <1>2, <1>6, <1>9, <1>10 DEF CopyInv

LEMMA CopyNext == Inv /\ CopyInv /\ [MemoryNext]_<<vars, memoryVars>> => CopyInv'
<1> SUFFICES ASSUME Inv, CopyInv, [MemoryNext]_<<vars, memoryVars>> PROVE CopyInv'
  OBVIOUS
<1>1. ASSUME NEW r \in Requests, NEW n \in PromptLens, MPrefill(r, n) PROVE CopyInv'
  <2>1. PICK req : req = Request(r, "prefill", 0, [i \in 1 .. n |-> i])
    OBVIOUS
  <2>2. n \in Nat \ {0}
    BY SessionsAssumption DEF SessionsAssumption
  <2>3. IsRequest(req)
    BY <2>1, <2>2, PrefillFaithful
  <2>4. sessions' = Forward(sessions, req, "done").sessions /\ Remember(req, "done")
    BY <1>1, <2>1 DEF MPrefill, Prefill
  <2> QED BY <2>3, <2>4, CopyForward DEF Inv
<1>2. ASSUME NEW r \in Requests, MDecode(r) PROVE CopyInv'
  <2>1. PICK req : req = Request(r, "decode", fed[r] + 1, <<fed[r] + 1>>)
    OBVIOUS
  <2>2. IsRequest(req)
    <3>1. fed[r] \in Nat
      BY SessionsAssumption DEF Inv, Types, SessionsAssumption
    <3> QED BY <2>1, <3>1, DecodeRequest
  <2>3. sessions' = Forward(sessions, req, "done").sessions /\ Remember(req, "done")
    BY <1>2, <2>1 DEF MDecode, Decode
  <2> QED BY <2>2, <2>3, CopyForward DEF Inv
<1>3. ASSUME NEW r \in Requests, NEW outcome \in {"early", "late"}, MThrow(r, outcome)
      PROVE  CopyInv'
  <2>1. PICK req : req = Request(r, "decode", fed[r] + 1, <<fed[r] + 1>>)
    OBVIOUS
  <2>2. IsRequest(req)
    <3>1. fed[r] \in Nat
      BY SessionsAssumption DEF Inv, Types, SessionsAssumption
    <3> QED BY <2>1, <3>1, DecodeRequest
  <2>3. sessions' = Forward(sessions, req, outcome).sessions /\ Remember(req, outcome)
    BY <1>3, <2>1 DEF MThrow, Throw
  <2> QED BY <2>2, <2>3, CopyForward DEF Inv
<1>4. ASSUME NEW r \in Requests, NEW req \in OddRequests(r), MOdd(r, req) PROVE CopyInv'
  <2>1. IsRequest(req)
    BY OddRequest DEF Inv, Types
  <2>2. sessions' = Forward(sessions, req, "done").sessions /\ Remember(req, "done")
    BY <1>4 DEF MOdd, Odd
  <2> QED BY <2>1, <2>2, CopyForward DEF Inv
<1>5. ASSUME MRestart PROVE CopyInv'
  <2>1. DOMAIN memory' = {} /\ DOMAIN sessions' = {}
    BY <1>5 DEF MRestart, Restart, NoSessions
  <2> QED BY <2>1 DEF CopyInv
<1>6. ASSUME UNCHANGED <<vars, memoryVars>> PROVE CopyInv'
  BY <1>6 DEF vars, memoryVars, CopyInv
<1> QED
  BY <1>1, <1>2, <1>3, <1>4, <1>5, <1>6 DEF MemoryNext

(* Through growth of the buffer, forwards that throw half way, positions   *)
(* written a second time and holes: at every position that a layer has     *)
(* written or zeroed, the transposed copy equals cache.v.                  *)
THEOREM TransposeAlwaysAgrees == MemorySpec => []TransposeAgrees
<1>1. MemoryInit => CopyInv
  BY DEF MemoryInit, Init, NoSessions, CopyInv
<1>2. MemorySpec => []Inv
  BY MemoryIsSuperposed, InvAlways
<1>3. ASSUME Inv, CopyInv PROVE TransposeAgrees
  <2>1. ASSUME NEW r \in DOMAIN sessions
        PROVE  /\ Len(memory[r].vT) >= Len(sessions[r].rows)
               /\ \A p \in DOMAIN sessions[r].rows : memory[r].vT[p] = sessions[r].rows[p]
    <3>1. sessions[r].rows \in Seq(RowValues)
      BY <1>3 DEF Inv, Types, SessionMap, SessionType
    <3>2. CopyOf(memory[r].vT, sessions[r].rows)
      BY <1>3 DEF CopyInv
    <3> QED BY <3>1, <3>2 DEF CopyOf
  <2> QED BY <2>1 DEF TransposeAgrees
<1> QED
  BY <1>1, <1>2, <1>3, CopyNext, PTL DEF MemorySpec
==============================================================================
