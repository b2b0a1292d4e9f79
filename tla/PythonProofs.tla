---------------------------- MODULE PythonProofs ----------------------------
(***************************************************************************)
(* Proofs about the two Python components. Of the backpressure guard of    *)
(* the gateway, for every finite set of threads and every set of queue     *)
(* capacities with a largest one. Of the stage and its two caches, for     *)
(* every set of requests and threads and every capacity of the caches.     *)
(***************************************************************************)
EXTENDS GatewayBackpressure, PythonStage, FiniteSetTheorems, TLAPS

------------------------------------------------------------------------------
(* The guard.                                                              *)

(* A thread is in acquire() only for a request that asks for the guard.    *)
InAcquireIsGuarded ==
    \A t \in Threads :
        thread[t] \in {"acquiring", "refused", "waiting", "woken"}
            => request[t].guarded /\ request[t].limit \in QueueLimits

(* The inductive invariant: that the counter of waiters does not become    *)
(* negative needs that it counts them, and that a release frees the guard  *)
(* needs that nobody else is in it.                                        *)
Inv == TypeOK /\ OneGuardedGeneration /\ InAcquireIsGuarded

LEMMA LongestIsLargest ==
    Longest \in QueueLimits /\ Longest \in Nat /\ \A n \in QueueLimits : n <= Longest
<1>1. PICK k \in QueueLimits : \A m \in QueueLimits : m <= k
  BY GuardAssumption DEF GuardAssumption
<1>2. Longest \in QueueLimits /\ \A m \in QueueLimits : m <= Longest
  BY <1>1 DEF Longest
<1> QED BY <1>2, GuardAssumption DEF GuardAssumption

LEMMA RequestFields ==
    ASSUME NEW q \in Requests
    PROVE  /\ q.guarded \in BOOLEAN
           /\ q.empty \in BOOLEAN
           /\ q.guarded => q.limit \in QueueLimits
  BY GuardAssumption DEF GuardAssumption, Requests, Unguarded

LEMMA NothingIsRequest == Nothing \in Requests /\ ~Nothing.guarded
  BY DEF Requests, Unguarded, Nothing

LEMMA WaitersFinite ==
    IsFiniteSet(Waiters) /\ Cardinality(Waiters) \in Nat
<1>1. Waiters \subseteq Threads
  BY DEF Waiters
<1>2. IsFiniteSet(Waiters)
  BY <1>1, GuardAssumption, FS_Subset DEF GuardAssumption
<1> QED BY <1>2, FS_CardinalityType

------------------------------------------------------------------------------
LEMMA InvInit == Init => Inv
<1> SUFFICES ASSUME Init PROVE Inv
  OBVIOUS
<1>1. TypeOK
  BY NothingIsRequest, LongestIsLargest DEF Init, TypeOK
<1>2. Waiters = {}
  BY DEF Init, Waiters
<1>3. waiting = Cardinality(Waiters)
  BY <1>2, FS_EmptySet DEF Init
<1>4. \A t \in Threads : ~InGuard(t)
  BY DEF Init, InGuard
<1> QED BY <1>1, <1>3, <1>4 DEF Inv, OneGuardedGeneration, InAcquireIsGuarded, Init

(* How a step of one thread changes the set of waiters.                    *)
LEMMA WaitersAdd ==
    ASSUME TypeOK, NEW t \in Threads, thread[t] = "acquiring", AcquireWaits(t)
    PROVE  Waiters' = Waiters \cup {t} /\ t \notin Waiters
  BY DEF TypeOK, AcquireWaits, At, Waiters

LEMMA WaitersRemove ==
    ASSUME TypeOK, NEW t \in Threads, AcquireAfterWait(t)
    PROVE  Waiters' = Waiters \ {t} /\ t \in Waiters
  BY DEF TypeOK, AcquireAfterWait, At, Waiters

LEMMA WaitersSame ==
    ASSUME TypeOK, NEW t \in Threads,
           \/ AcquireFree(t) \/ AcquireRefused(t) \/ WaitAgain(t) \/ Build(t)
           \/ BuildRaises(t) \/ GenerationDone(t) \/ Refuse(t)
           \/ \E q \in Requests : Arrive(t, q)
    PROVE  Waiters' = Waiters
<1> USE DEF TypeOK, At, Waiters
<1>1. CASE AcquireFree(t)
  BY <1>1 DEF AcquireFree
<1>2. CASE AcquireRefused(t)
  BY <1>2 DEF AcquireRefused
<1>3. CASE WaitAgain(t)
  BY <1>3 DEF WaitAgain
<1>4. CASE Build(t)
  BY <1>4 DEF Build
<1>5. CASE BuildRaises(t)
  BY <1>5 DEF BuildRaises
<1>6. CASE GenerationDone(t)
  BY <1>6 DEF GenerationDone, NotifyAll
<1>7. CASE Refuse(t)
  BY <1>7 DEF Refuse
<1>8. ASSUME NEW q \in Requests, Arrive(t, q) PROVE Waiters' = Waiters
  BY <1>8 DEF Arrive
<1> QED BY <1>1, <1>2, <1>3, <1>4, <1>5, <1>6, <1>7, <1>8

LEMMA RoomMeansBelowLongest ==
    ASSUME TypeOK, InAcquireIsGuarded, NEW t \in Threads, AcquireWaits(t)
    PROVE  waiting + 1 <= Longest
<1> DEFINE limit == request[t].limit
<1>1. limit \in QueueLimits
  BY DEF AcquireWaits, InAcquireIsGuarded
<1>2. ~(waiting >= limit)
  BY DEF AcquireWaits, QueueFull
<1> HIDE DEF limit
<1>3. Longest \in Nat /\ limit \in Nat
  BY <1>1, LongestIsLargest, GuardAssumption DEF GuardAssumption
<1>4. limit <= Longest
  BY <1>1, LongestIsLargest
<1>5. waiting \in Nat
  BY <1>3 DEF TypeOK
<1> QED BY <1>2, <1>3, <1>4, <1>5

LEMMA InvNext == Inv /\ [Next]_vars => Inv'
<1> SUFFICES ASSUME Inv, [Next]_vars PROVE Inv'
  OBVIOUS
<1>1. TypeOK /\ OneGuardedGeneration /\ InAcquireIsGuarded
  BY DEF Inv
<1> USE <1>1, GuardAssumption, LongestIsLargest, RequestFields, NothingIsRequest
    DEF GuardAssumption
<1> USE DEF TypeOK, InAcquireIsGuarded, At, Forget
<1>2. waiting = Cardinality(Waiters)
  BY DEF OneGuardedGeneration
<1>3. ASSUME NEW t \in Threads, AcquireFree(t) PROVE Inv'
  <2>1. Waiters' = Waiters
    BY <1>3, WaitersSame
  <2>2. TypeOK' /\ InAcquireIsGuarded'
    BY <1>3 DEF AcquireFree
  <2>3. \A u \in Threads : InGuard(u)' <=> u = t
    BY <1>3 DEF AcquireFree, OneGuardedGeneration, InGuard
  <2> QED BY <1>3, <2>1, <2>2, <2>3, <1>2 DEF Inv, OneGuardedGeneration, AcquireFree
<1>4. ASSUME NEW t \in Threads, AcquireRefused(t) PROVE Inv'
  <2>1. Waiters' = Waiters
    BY <1>4, WaitersSame
  <2>2. TypeOK' /\ InAcquireIsGuarded'
    BY <1>4 DEF AcquireRefused
  <2>3. \A u \in Threads : InGuard(u)' <=> InGuard(u)
    BY <1>4 DEF AcquireRefused, InGuard
  <2> QED BY <1>4, <2>1, <2>2, <2>3, <1>2 DEF Inv, OneGuardedGeneration, AcquireRefused
<1>5. ASSUME NEW t \in Threads, AcquireWaits(t) PROVE Inv'
  <2>1. thread[t] = "acquiring"
    BY <1>5 DEF AcquireWaits
  <2>2. Waiters' = Waiters \cup {t} /\ t \notin Waiters
    BY <1>5, <2>1, WaitersAdd
  <2>3. Cardinality(Waiters') = Cardinality(Waiters) + 1
    BY <2>2, WaitersFinite, FS_AddElement
  <2>4. waiting + 1 <= Longest
    BY <1>5, RoomMeansBelowLongest
  <2>5. TypeOK' /\ InAcquireIsGuarded'
    BY <1>5, <2>4 DEF AcquireWaits
  <2>6. \A u \in Threads : InGuard(u)' <=> InGuard(u)
    BY <1>5 DEF AcquireWaits, InGuard
  <2> QED BY <1>5, <2>3, <2>5, <2>6, <1>2 DEF Inv, OneGuardedGeneration, AcquireWaits
<1>6. ASSUME NEW t \in Threads, WaitAgain(t) PROVE Inv'
  <2>1. Waiters' = Waiters
    BY <1>6, WaitersSame
  <2>2. TypeOK' /\ InAcquireIsGuarded'
    BY <1>6 DEF WaitAgain
  <2>3. \A u \in Threads : InGuard(u)' <=> InGuard(u)
    BY <1>6 DEF WaitAgain, InGuard
  <2> QED BY <1>6, <2>1, <2>2, <2>3, <1>2 DEF Inv, OneGuardedGeneration, WaitAgain
<1>7. ASSUME NEW t \in Threads, AcquireAfterWait(t) PROVE Inv'
  <2>1. Waiters' = Waiters \ {t} /\ t \in Waiters
    BY <1>7, WaitersRemove
  <2>2. Cardinality(Waiters') = Cardinality(Waiters) - 1 /\ Cardinality(Waiters') \in Nat
    <3>1. Cardinality(Waiters \ {t}) = Cardinality(Waiters) - 1
      BY <2>1, WaitersFinite, FS_RemoveElement
    <3>2. IsFiniteSet(Waiters \ {t})
      BY WaitersFinite, FS_Subset
    <3> QED BY <2>1, <3>1, <3>2, FS_CardinalityType
  <2>3. waiting - 1 \in 0 .. Longest
    BY <2>2, <1>2
  <2>4. TypeOK' /\ InAcquireIsGuarded'
    BY <1>7, <2>3 DEF AcquireAfterWait
  <2>5. \A u \in Threads : InGuard(u)' <=> u = t
    BY <1>7 DEF AcquireAfterWait, SlotTaken, OneGuardedGeneration, InGuard
  <2> QED BY <1>7, <2>2, <2>4, <2>5, <1>2 DEF Inv, OneGuardedGeneration, AcquireAfterWait
<1>8. ASSUME NEW t \in Threads, Build(t) PROVE Inv'
  <2>1. Waiters' = Waiters
    BY <1>8, WaitersSame
  <2>2. TypeOK' /\ InAcquireIsGuarded'
    BY <1>8 DEF Build
  <2>3. \A u \in Threads : InGuard(u)' <=> InGuard(u)
    BY <1>8 DEF Build, InGuard
  <2> QED BY <1>8, <2>1, <2>2, <2>3, <1>2 DEF Inv, OneGuardedGeneration, Build
<1>9. ASSUME NEW t \in Threads, BuildRaises(t) PROVE Inv'
  <2>1. Waiters' = Waiters
    BY <1>9, WaitersSame
  <2>2. TypeOK' /\ InAcquireIsGuarded'
    BY <1>9 DEF BuildRaises
  <2>3. \A u \in Threads : InGuard(u)' => InGuard(u)
    BY <1>9 DEF BuildRaises, InGuard
  <2> QED BY <1>9, <2>1, <2>2, <2>3, <1>2 DEF Inv, OneGuardedGeneration, BuildRaises
<1>10. ASSUME NEW t \in Threads, GenerationDone(t) PROVE Inv'
  <2>1. Waiters' = Waiters
    BY <1>10, WaitersSame
  <2>2. CASE request[t].guarded
    <3>1. InGuard(t) /\ inflight = 1
      BY <1>10, <2>2 DEF GenerationDone, InGuard, OneGuardedGeneration
    <3>2. inflight' = 0
      BY <1>10, <2>2, <3>1 DEF GenerationDone, Released
    <3>3. \A u \in Threads : ~InGuard(u)'
      <4>1. ~InGuard(t)'
        BY <1>10 DEF GenerationDone, InGuard, Nothing
      <4>2. ASSUME NEW u \in Threads, u # t PROVE ~InGuard(u)'
        <5>1. ~InGuard(u)
          BY <3>1, <4>2 DEF OneGuardedGeneration
        <5>2. request'[u] = request[u] /\ (thread'[u] = thread[u] \/ thread'[u] = "woken")
          BY <1>10, <2>2, <4>2 DEF GenerationDone, NotifyAll
        <5> QED BY <5>1, <5>2 DEF InGuard
      <4> QED BY <4>1, <4>2
    <3>4. TypeOK' /\ InAcquireIsGuarded'
      BY <1>10, <2>2, <3>2 DEF GenerationDone, NotifyAll
    <3> QED BY <1>10, <2>1, <3>2, <3>3, <3>4, <1>2 DEF Inv, OneGuardedGeneration, GenerationDone
  <2>3. CASE ~request[t].guarded
    <3>1. TypeOK' /\ InAcquireIsGuarded'
      BY <1>10, <2>3 DEF GenerationDone
    <3>2. \A u \in Threads : InGuard(u)' <=> InGuard(u)
      BY <1>10, <2>3 DEF GenerationDone, InGuard
    <3> QED BY <1>10, <2>1, <2>3, <3>1, <3>2, <1>2 DEF Inv, OneGuardedGeneration, GenerationDone
  <2> QED BY <2>2, <2>3
<1>11. ASSUME NEW t \in Threads, Refuse(t) PROVE Inv'
  <2>1. Waiters' = Waiters
    BY <1>11, WaitersSame
  <2>2. TypeOK' /\ InAcquireIsGuarded'
    BY <1>11 DEF Refuse
  <2>3. \A u \in Threads : InGuard(u)' <=> InGuard(u)
    BY <1>11 DEF Refuse, InGuard
  <2> QED BY <1>11, <2>1, <2>2, <2>3, <1>2 DEF Inv, OneGuardedGeneration, Refuse
<1>12. ASSUME NEW t \in Threads, NEW q \in Requests, Arrive(t, q) PROVE Inv'
  <2>1. Waiters' = Waiters
    BY <1>12, WaitersSame
  <2>2. TypeOK' /\ InAcquireIsGuarded'
    BY <1>12 DEF Arrive
  <2>3. \A u \in Threads : InGuard(u)' => InGuard(u)
    BY <1>12 DEF Arrive, InGuard
  <2> QED BY <1>12, <2>1, <2>2, <2>3, <1>2 DEF Inv, OneGuardedGeneration, Arrive
<1>13. CASE UNCHANGED vars
  BY <1>13 DEF vars, Inv, OneGuardedGeneration, InGuard, Waiters
<1> QED BY <1>3, <1>4, <1>5, <1>6, <1>7, <1>8, <1>9, <1>10, <1>11, <1>12, <1>13
        DEF Next, Serve

LEMMA InvAlways == Spec => []Inv
  BY InvInit, InvNext, PTL DEF Spec

(* The counters of the guard stay in their ranges, for any number of       *)
(* threads: release() never makes _inflight negative, and _waiting never   *)
(* passes the largest capacity a request brings.                           *)
THEOREM TypeCorrect == Spec => []TypeOK
  BY InvAlways, PTL DEF Inv

(* At most one guarded request is between acquire and release, and         *)
(* _waiting counts the waiting threads, however they barge and wake.       *)
THEOREM GuardIsExclusive == Spec => []OneGuardedGeneration
  BY InvAlways, PTL DEF Inv

------------------------------------------------------------------------------
(* No lost wakeup.                                                         *)
LEMMA WakesNext == Inv /\ FreeGuardWakes /\ [Next]_vars => FreeGuardWakes'
<1> SUFFICES ASSUME Inv, FreeGuardWakes, [Next]_vars PROVE FreeGuardWakes'
  OBVIOUS
<1> USE GuardAssumption DEF GuardAssumption, Inv, TypeOK, At, FreeGuardWakes
<1>1. ASSUME NEW t \in Threads, AcquireFree(t) \/ AcquireAfterWait(t) PROVE FreeGuardWakes'
  BY <1>1 DEF AcquireFree, AcquireAfterWait
<1>2. ASSUME NEW t \in Threads, AcquireWaits(t) \/ WaitAgain(t) \/ AcquireRefused(t)
      PROVE FreeGuardWakes'
  BY <1>2 DEF AcquireWaits, WaitAgain, AcquireRefused, SlotTaken
<1>3. ASSUME NEW t \in Threads,
             \/ Build(t) \/ BuildRaises(t) \/ Refuse(t)
             \/ \E q \in Requests : Arrive(t, q)
      PROVE  FreeGuardWakes'
  <2>1. Waiters' = Waiters
    BY <1>3, WaitersSame
  <2>2. inflight' = inflight
    BY <1>3 DEF Build, BuildRaises, Refuse, Arrive
  <2>3. \A u \in Threads : thread[u] = "woken" => thread'[u] = "woken"
    BY <1>3 DEF Build, BuildRaises, Refuse, Arrive
  <2> QED BY <2>1, <2>2, <2>3
<1>4. ASSUME NEW t \in Threads, GenerationDone(t) PROVE FreeGuardWakes'
  <2>1. Waiters' = Waiters
    BY <1>4, WaitersSame
  <2>2. CASE request[t].guarded
    BY <1>4, <2>1, <2>2 DEF GenerationDone, NotifyAll, Waiters
  <2>3. CASE ~request[t].guarded
    BY <1>4, <2>1, <2>3 DEF GenerationDone
  <2> QED BY <2>2, <2>3
<1>5. CASE UNCHANGED vars
  BY <1>5 DEF vars, Waiters
<1> QED BY <1>1, <1>2, <1>3, <1>4, <1>5 DEF Next, Serve

(* If the guard is free, no thread sleeps in wait() unless a woken one is  *)
(* on its way: one notify_all per release is enough.                       *)
THEOREM WakeupsNotLost == Spec => []FreeGuardWakes
<1>1. Init => FreeGuardWakes
  BY DEF Init, FreeGuardWakes, Waiters
<1> QED BY <1>1, InvAlways, WakesNext, PTL DEF Spec

------------------------------------------------------------------------------
(* Refinement of SingleFlight.                                             *)
LEMMA PromiseInit == Init => Promise!Init
  BY DEF Init, Promise!Init, Waiters

LEMMA PromiseNext ==
    Inv /\ [Next]_vars => [Promise!Next]_<<inflight = 1, Waiters>>
<1> SUFFICES ASSUME Inv, [Next]_vars
             PROVE  Promise!Next \/ UNCHANGED <<inflight = 1, Waiters>>
  OBVIOUS
<1> USE GuardAssumption DEF GuardAssumption, Inv, TypeOK
<1>1. ASSUME NEW t \in Threads, AcquireFree(t) PROVE Promise!Enter
  <2>1. Waiters' = Waiters
    BY <1>1, WaitersSame
  <2> QED BY <1>1, <2>1 DEF AcquireFree, Promise!Enter
<1>2. ASSUME NEW t \in Threads, AcquireWaits(t) PROVE Promise!Queue(t)
  <2>1. thread[t] = "acquiring"
    BY <1>2 DEF AcquireWaits
  <2>2. Waiters' = Waiters \cup {t} /\ t \notin Waiters
    BY <1>2, <2>1, WaitersAdd
  <2>3. Cardinality(Waiters) < Longest
    BY <1>2, RoomMeansBelowLongest, LongestIsLargest, WaitersFinite DEF OneGuardedGeneration
  <2>4. inflight = 1 /\ inflight' = inflight
    BY <1>2 DEF AcquireWaits
  <2>5. Promise!Cardinality(Waiters) = Cardinality(Waiters)
    BY DEF Promise!Cardinality, Cardinality
  <2> QED BY <2>2, <2>3, <2>4, <2>5 DEF Promise!Queue
<1>3. ASSUME NEW t \in Threads, AcquireAfterWait(t) PROVE Promise!Turn(t)
  <2>1. Waiters' = Waiters \ {t} /\ t \in Waiters
    BY <1>3, WaitersRemove
  <2> QED BY <1>3, <2>1 DEF AcquireAfterWait, SlotTaken, Promise!Turn
<1>4. ASSUME NEW t \in Threads, GenerationDone(t)
      PROVE  Promise!Leave \/ UNCHANGED <<inflight = 1, Waiters>>
  <2>1. Waiters' = Waiters
    BY <1>4, WaitersSame
  <2>2. CASE request[t].guarded
    <3>1. inflight = 1
      BY <1>4, <2>2 DEF GenerationDone, InGuard, OneGuardedGeneration
    <3>2. inflight' = 0
      BY <1>4, <2>2, <3>1 DEF GenerationDone, Released
    <3> QED BY <2>1, <3>1, <3>2 DEF Promise!Leave
  <2>3. CASE ~request[t].guarded
    BY <1>4, <2>1, <2>3 DEF GenerationDone
  <2> QED BY <2>2, <2>3
<1>5. ASSUME NEW t \in Threads,
             \/ AcquireRefused(t) \/ WaitAgain(t) \/ Build(t) \/ BuildRaises(t) \/ Refuse(t)
             \/ \E q \in Requests : Arrive(t, q)
      PROVE  UNCHANGED <<inflight = 1, Waiters>>
  <2>1. Waiters' = Waiters
    BY <1>5, WaitersSame
  <2> QED BY <1>5, <2>1 DEF AcquireRefused, WaitAgain, Build, BuildRaises, Refuse, Arrive
<1>6. CASE UNCHANGED vars
  BY <1>6 DEF vars, Waiters
<1> QED BY <1>1, <1>2, <1>3, <1>4, <1>5, <1>6 DEF Next, Serve, Promise!Next

(* The guard, leaks included, is the bounded single flight of SingleFlight.*)
THEOREM GuardImplementsSingleFlight == Spec => ImplementsSingleFlight
  BY InvAlways, PromiseInit, PromiseNext, PTL DEF ImplementsSingleFlight, Promise!Spec, Spec

------------------------------------------------------------------------------
(* Ordered maps: what is in them, and what the operations of LruMap do to  *)
(* that.                                                                   *)

Pairs(m) == {m[i] : i \in DOMAIN m}

OnePerKey(m) == \A i, j \in DOMAIN m : m[i].key = m[j].key => i = j

AreEntries(T) == \A e \in T : e = [key |-> e.key, val |-> e.val]

LEMMA KeysOfPairs ==
    ASSUME NEW m
    PROVE  Keys(m) = {e.key : e \in Pairs(m)}
  BY DEF Keys, Pairs

LEMMA PairsTyped ==
    ASSUME NEW T, NEW m \in Seq(T)
    PROVE  \A e \in Pairs(m) : e \in T
  BY DEF Pairs

LEMMA LookupFinds ==
    ASSUME NEW T, AreEntries(T), NEW m \in Seq(T), OnePerKey(m)
    PROVE  /\ \A e \in Pairs(m) : Lookup(m, e.key) = e.val
           /\ \A k \in Keys(m) : [key |-> k, val |-> Lookup(m, k)] \in Pairs(m)
           /\ \A e, f \in Pairs(m) : e.key = f.key => e = f
<1>1. ASSUME NEW i \in DOMAIN m PROVE Place(m, m[i].key) = i
  BY DEF Place, OnePerKey
<1>2. ASSUME NEW i \in DOMAIN m PROVE m[i] = [key |-> m[i].key, val |-> m[i].val]
  <2>1. m[i] \in T
    OBVIOUS
  <2> QED BY <2>1 DEF AreEntries
<1>3. \A i \in DOMAIN m : Lookup(m, m[i].key) = m[i].val
  BY <1>1 DEF Lookup
<1>4. \A e \in Pairs(m) : Lookup(m, e.key) = e.val
  BY <1>3 DEF Pairs
<1>5. ASSUME NEW k \in Keys(m) PROVE [key |-> k, val |-> Lookup(m, k)] \in Pairs(m)
  <2>1. PICK i \in DOMAIN m : m[i].key = k
    BY DEF Keys
  <2>2. m[i] = [key |-> k, val |-> Lookup(m, k)]
    BY <1>2, <1>3, <2>1
  <2> QED BY <2>2 DEF Pairs
<1> QED BY <1>4, <1>5 DEF Pairs, OnePerKey

LEMMA WithoutShape ==
    ASSUME NEW T, NEW m \in Seq(T), OnePerKey(m), NEW k
    PROVE  /\ Without(m, k) \in Seq(T)
           /\ OnePerKey(Without(m, k))
           /\ Pairs(Without(m, k)) = {e \in Pairs(m) : e.key # k}
           /\ Len(Without(m, k)) = IF k \in Keys(m) THEN Len(m) - 1 ELSE Len(m)
<1>1. CASE k \notin Keys(m)
  <2>1. Without(m, k) = m
    BY <1>1 DEF Without
  <2>2. \A e \in Pairs(m) : e.key # k
    BY <1>1 DEF Keys, Pairs
  <2> QED BY <1>1, <2>1, <2>2
<1>2. CASE k \in Keys(m)
  <2>1. PICK n \in DOMAIN m : m[n].key = k
    BY <1>2 DEF Keys
  <2>2. Place(m, k) = n
    BY <2>1 DEF Place, OnePerKey
  <2>3. PICK w : w = SubSeq(m, 1, n - 1) \o SubSeq(m, n + 1, Len(m))
    OBVIOUS
  <2>4. Without(m, k) = w
    BY <1>2, <2>2, <2>3 DEF Without, RemoveAt
  <2>5. n \in 1 .. Len(m) /\ Len(m) \in Nat
    BY <2>1
  <2>6. PICK low : low = SubSeq(m, 1, n - 1)
    OBVIOUS
  <2>7. low \in Seq(T) /\ Len(low) = n - 1 /\ \A j \in 1 .. n - 1 : low[j] = m[j]
    BY <2>5, <2>6
  <2>8. PICK high : high = SubSeq(m, n + 1, Len(m))
    OBVIOUS
  <2>9. high \in Seq(T) /\ Len(high) = Len(m) - n /\ \A j \in 1 .. Len(m) - n : high[j] = m[j + n]
    BY <2>5, <2>8
  <2>10. w = low \o high
    BY <2>3, <2>6, <2>8
  <2>11. w \in Seq(T) /\ Len(w) = Len(m) - 1
    BY <2>5, <2>7, <2>9, <2>10
  <2>12. \A j \in 1 .. Len(w) : w[j] = IF j < n THEN m[j] ELSE m[j + 1]
    <3>1. ASSUME NEW j \in 1 .. Len(w), j < n PROVE w[j] = m[j]
      BY <2>5, <2>7, <2>9, <2>10, <2>11, <3>1
    <3>2. ASSUME NEW j \in 1 .. Len(w), ~(j < n) PROVE w[j] = m[j + 1]
      <4>1. w[j] = high[j - (n - 1)]
        <5>1. j > Len(low) /\ j <= Len(low) + Len(high) /\ j \in Nat
          BY <2>5, <2>7, <2>9, <2>11, <3>2
        <5>2. w[j] = high[j - Len(low)]
          BY <2>7, <2>9, <2>10, <5>1
        <5> QED BY <2>7, <5>2
      <4>2. j - (n - 1) \in 1 .. Len(m) - n /\ j - (n - 1) + n = j + 1
        BY <2>5, <2>11, <3>2
      <4> QED BY <2>9, <4>1, <4>2
    <3> QED BY <3>1, <3>2
  <2>13. OnePerKey(w)
    <3>1. ASSUME NEW i \in DOMAIN w, NEW j \in DOMAIN w, w[i].key = w[j].key PROVE i = j
      <4>1. i \in 1 .. Len(w) /\ j \in 1 .. Len(w)
        BY <2>11
      <4>2. PICK a \in 1 .. Len(m) : a = (IF i < n THEN i ELSE i + 1) /\ w[i] = m[a]
        <5>1. w[i] = IF i < n THEN m[i] ELSE m[i + 1]
          BY <2>12, <4>1
        <5>2. (IF i < n THEN i ELSE i + 1) \in 1 .. Len(m)
          BY <2>5, <2>11, <4>1
        <5> QED BY <5>1, <5>2
      <4>3. PICK b \in 1 .. Len(m) : b = (IF j < n THEN j ELSE j + 1) /\ w[j] = m[b]
        <5>1. w[j] = IF j < n THEN m[j] ELSE m[j + 1]
          BY <2>12, <4>1
        <5>2. (IF j < n THEN j ELSE j + 1) \in 1 .. Len(m)
          BY <2>5, <2>11, <4>1
        <5> QED BY <5>1, <5>2
      <4>4. a = b
        BY <3>1, <4>2, <4>3 DEF OnePerKey
      <4> QED BY <2>5, <4>1, <4>2, <4>3, <4>4
    <3> QED BY <3>1 DEF OnePerKey
  <2>14. ASSUME NEW e \in Pairs(w) PROVE e \in Pairs(m) /\ e.key # k
    <3>1. PICK j \in 1 .. Len(w) : w[j] = e
      BY <2>11 DEF Pairs
    <3>2. PICK a \in 1 .. Len(m) : a = (IF j < n THEN j ELSE j + 1) /\ e = m[a]
      BY <2>5, <2>11, <2>12, <3>1
    <3>3. a # n
      BY <2>5, <3>1, <3>2
    <3> QED BY <2>1, <3>2, <3>3 DEF Pairs, OnePerKey
  <2>15. ASSUME NEW e \in Pairs(m), e.key # k PROVE e \in Pairs(w)
    <3>1. PICK a \in 1 .. Len(m) : m[a] = e
      BY DEF Pairs
    <3>2. a # n
      BY <2>1, <2>15, <3>1
    <3>3. PICK j \in 1 .. Len(w) : j = IF a < n THEN a ELSE a - 1
      BY <2>5, <2>11, <3>2
    <3>4. w[j] = m[a]
      BY <2>5, <2>12, <3>2, <3>3
    <3> QED BY <2>11, <3>1, <3>4 DEF Pairs
  <2> QED BY <1>2, <2>4, <2>11, <2>13, <2>14, <2>15
<1> QED BY <1>1, <1>2

(* The map with one more pair at its end, or another pair for its key.     *)
With(m, k, v) == Append(Without(m, k), [key |-> k, val |-> v])

LEMMA WithShape ==
    ASSUME NEW T, NEW m \in Seq(T), OnePerKey(m), NEW k, NEW v, [key |-> k, val |-> v] \in T
    PROVE  /\ With(m, k, v) \in Seq(T)
           /\ OnePerKey(With(m, k, v))
           /\ Len(With(m, k, v)) >= 1
           /\ k \in Keys(m) => Len(With(m, k, v)) = Len(m)
           /\ With(m, k, v)[Len(With(m, k, v))] = [key |-> k, val |-> v]
           /\ Pairs(With(m, k, v)) =
                 {e \in Pairs(m) : e.key # k} \cup {[key |-> k, val |-> v]}
<1>1. PICK w \in Seq(T) : w = Without(m, k)
  BY WithoutShape
<1>2. /\ (k \in Keys(m) => Len(w) = Len(m) - 1) /\ OnePerKey(w)
      /\ Pairs(w) = {e \in Pairs(m) : e.key # k}
  BY <1>1, WithoutShape
<1>3. PICK pair \in T : pair = [key |-> k, val |-> v]
  OBVIOUS
<1>4. PICK a : a = Append(w, pair)
  OBVIOUS
<1>5. /\ a \in Seq(T) /\ Len(a) = Len(w) + 1 /\ Len(w) \in Nat
      /\ a[Len(a)] = pair
      /\ \A i \in 1 .. Len(w) : a[i] = w[i]
      /\ DOMAIN a = 1 .. Len(w) + 1 /\ DOMAIN w = 1 .. Len(w)
  BY <1>4
<1>6. \A i \in DOMAIN w : w[i].key # k
  BY <1>2 DEF Pairs
<1>7. OnePerKey(a)
  <2>1. ASSUME NEW i \in DOMAIN a, NEW j \in DOMAIN a, a[i].key = a[j].key PROVE i = j
    <3>1. CASE i = Len(a) \/ j = Len(a)
      BY <1>3, <1>5, <1>6, <2>1, <3>1
    <3>2. CASE i # Len(a) /\ j # Len(a)
      <4>1. i \in DOMAIN w /\ j \in DOMAIN w
        BY <1>5, <3>2
      <4> QED BY <1>2, <1>5, <2>1, <4>1 DEF OnePerKey
    <3> QED BY <3>1, <3>2
  <2> QED BY <2>1 DEF OnePerKey
<1>8. Pairs(a) = Pairs(w) \cup {pair}
  <2>1. ASSUME NEW e \in Pairs(a) PROVE e \in Pairs(w) \cup {pair}
    <3>1. PICK i \in DOMAIN a : a[i] = e
      BY DEF Pairs
    <3> QED BY <1>5, <3>1 DEF Pairs
  <2>2. ASSUME NEW e \in Pairs(w) PROVE e \in Pairs(a)
    <3>1. PICK i \in DOMAIN w : w[i] = e
      BY DEF Pairs
    <3>2. i \in DOMAIN a /\ a[i] = e
      BY <1>5, <3>1
    <3> QED BY <3>2 DEF Pairs
  <2>3. pair \in Pairs(a)
    BY <1>5 DEF Pairs
  <2> QED BY <2>1, <2>2, <2>3
<1>9. a = With(m, k, v)
  BY <1>1, <1>3, <1>4 DEF With
<1> QED BY <1>2, <1>3, <1>5, <1>7, <1>8, <1>9

LEMMA TouchShape ==
    ASSUME NEW T, AreEntries(T), NEW m \in Seq(T), OnePerKey(m), NEW k
    PROVE  /\ Touch(m, k) \in Seq(T)
           /\ OnePerKey(Touch(m, k))
           /\ Pairs(Touch(m, k)) = Pairs(m) /\ Len(Touch(m, k)) = Len(m)
<1>1. CASE k \in Keys(m)
  <2>1. PICK v : v = Lookup(m, k)
    OBVIOUS
  <2>2. [key |-> k, val |-> v] \in Pairs(m)
    BY <1>1, <2>1, LookupFinds
  <2>3. [key |-> k, val |-> v] \in T
    BY <2>2, PairsTyped
  <2>4. \A e \in Pairs(m) : e.key = k => e = [key |-> k, val |-> v]
    <3>1. \A e, f \in Pairs(m) : e.key = f.key => e = f
      BY LookupFinds
    <3> QED BY <2>2, <3>1
  <2>5. Touch(m, k) = With(m, k, v)
    BY <1>1, <2>1 DEF Touch, With
  <2>6. {e \in Pairs(m) : e.key # k} \cup {[key |-> k, val |-> v]} = Pairs(m)
    BY <2>2, <2>4
  <2>7. /\ With(m, k, v) \in Seq(T)
        /\ OnePerKey(With(m, k, v))
        /\ Len(With(m, k, v)) = Len(m)
        /\ Pairs(With(m, k, v)) = {e \in Pairs(m) : e.key # k} \cup {[key |-> k, val |-> v]}
    BY <1>1, <2>3, WithShape
  <2> QED BY <2>5, <2>6, <2>7
<1>2. CASE k \notin Keys(m)
  BY <1>2 DEF Touch
<1> QED BY <1>1, <1>2

(* What popitem() leaves is the end of the map.                            *)
LEMMA NewestShape ==
    ASSUME NEW T, NEW m \in Seq(T), OnePerKey(m), NEW max \in Nat, max >= 1
    PROVE  /\ Newest(m, max) \in Seq(T)
           /\ OnePerKey(Newest(m, max))
           /\ Pairs(Newest(m, max)) \subseteq Pairs(m)
           /\ Len(m) >= 1 => m[Len(m)] \in Pairs(Newest(m, max))
           /\ Len(m) <= max => Newest(m, max) = m
           /\ Len(Newest(m, max)) <= max
<1>1. PICK first \in Nat : first = IF Len(m) > max THEN Len(m) - max + 1 ELSE 1
  OBVIOUS
<1>2. first >= 1 /\ first <= Len(m) + 1 /\ (Len(m) >= 1 => first <= Len(m))
  BY <1>1
<1>3. PICK s : s = SubSeq(m, first, Len(m))
  OBVIOUS
<1>4. /\ s \in Seq(T) /\ Len(s) = Len(m) - first + 1
      /\ \A i \in 1 .. Len(m) - first + 1 : s[i] = m[first + i - 1]
  BY <1>2, <1>3
<1>5. s = Newest(m, max)
  BY <1>1, <1>3 DEF Newest
<1>6. \A i \in DOMAIN s : first + i - 1 \in DOMAIN m /\ s[i] = m[first + i - 1] /\ i \in Nat
  BY <1>2, <1>4
<1>7. OnePerKey(s)
  <2>1. ASSUME NEW i \in DOMAIN s, NEW j \in DOMAIN s, s[i].key = s[j].key PROVE i = j
    <3>1. first + i - 1 = first + j - 1
      BY <1>6, <2>1 DEF OnePerKey
    <3> QED BY <1>6, <3>1
  <2> QED BY <2>1 DEF OnePerKey
<1>8. Pairs(s) \subseteq Pairs(m)
  BY <1>6 DEF Pairs
<1>9. ASSUME Len(m) >= 1 PROVE m[Len(m)] \in Pairs(s)
  <2>1. PICK i \in 1 .. Len(m) - first + 1 : i = Len(m) - first + 1
    BY <1>2, <1>9
  <2>2. i \in DOMAIN s /\ s[i] = m[Len(m)]
    BY <1>2, <1>4, <2>1
  <2> QED BY <2>2 DEF Pairs
<1>10. ASSUME Len(m) <= max PROVE s = m
  <2>1. first = 1
    BY <1>1, <1>10
  <2> QED BY <1>3, <2>1
<1>11. Len(s) <= max
  BY <1>1, <1>4
<1> QED BY <1>4, <1>5, <1>7, <1>8, <1>9, <1>10, <1>11

LEMMA PutShape ==
    ASSUME NEW T, NEW m \in Seq(T), OnePerKey(m),
           NEW k, NEW v, [key |-> k, val |-> v] \in T, NEW max \in Nat \ {0}
    PROVE  /\ Put(m, k, v, max) \in Seq(T)
           /\ OnePerKey(Put(m, k, v, max))
           /\ Len(Put(m, k, v, max)) <= max
           /\ [key |-> k, val |-> v] \in Pairs(Put(m, k, v, max))
           /\ \A e \in Pairs(Put(m, k, v, max)) :
                 e = [key |-> k, val |-> v] \/ (e \in Pairs(m) /\ e.key # k)
           /\ Len(With(m, k, v)) <= max =>
                 \A e \in Pairs(m) : e.key # k => e \in Pairs(Put(m, k, v, max))
<1>1. PICK w : w = With(m, k, v)
  OBVIOUS
<1>2. PICK pair \in T : pair = [key |-> k, val |-> v]
  OBVIOUS
<1>3. /\ w \in Seq(T) /\ OnePerKey(w) /\ Len(w) >= 1 /\ w[Len(w)] = pair
      /\ Pairs(w) = {e \in Pairs(m) : e.key # k} \cup {pair}
  BY <1>1, <1>2, WithShape
<1>4. /\ Newest(w, max) \in Seq(T)
      /\ OnePerKey(Newest(w, max))
      /\ Len(Newest(w, max)) <= max
      /\ Pairs(Newest(w, max)) \subseteq Pairs(w)
      /\ w[Len(w)] \in Pairs(Newest(w, max))
      /\ Len(w) <= max => Newest(w, max) = w
  <2>1. w \in Seq(T) /\ OnePerKey(w) /\ Len(w) >= 1 /\ max \in Nat /\ max >= 1
    BY <1>3
  <2> QED BY ONLY <2>1, NewestShape
<1>5. Put(m, k, v, max) = Newest(w, max)
  BY <1>1 DEF Put, With
<1> QED BY <1>1, <1>2, <1>3, <1>4, <1>5

LEMMA KeysCounted ==
    ASSUME NEW T, NEW m \in Seq(T), OnePerKey(m)
    PROVE  Cardinality(Keys(m)) = Len(m)
<1>1. PICK n \in Nat : n = Len(m) /\ DOMAIN m = 1 .. n
  OBVIOUS
<1>2. PICK f : f = [i \in 1 .. n |-> m[i].key]
  OBVIOUS
<1>3. f \in Bijection(1 .. n, Keys(m))
  <2>1. f \in [1 .. n -> Keys(m)]
    BY <1>1, <1>2 DEF Keys
  <2>2. \A i, j \in 1 .. n : f[i] = f[j] => i = j
    BY <1>1, <1>2 DEF OnePerKey
  <2>3. \A k \in Keys(m) : \E i \in 1 .. n : f[i] = k
    BY <1>1, <1>2 DEF Keys
  <2> QED BY <2>1, <2>2, <2>3 DEF Bijection, Injection, Surjection, IsInjective
<1>4. IsFiniteSet(1 .. n) /\ Cardinality(1 .. n) = IF 1 > n THEN 0 ELSE n - 1 + 1
  BY FS_Interval
<1>5. Cardinality(Keys(m)) = Cardinality(1 .. n)
  BY <1>3, <1>4, FS_Bijection DEF ExistsBijection
<1> QED BY <1>1, <1>4, <1>5

------------------------------------------------------------------------------
(* The stage.                                                              *)

StepIds == [id : RequestIds, step : Nat]

(* What a cache object holds: steps, as a whole or torn                    *)
Pieces == StepIds \cup [id : RequestIds, step : Nat, torn : {TRUE}]

Fed(r, n) == [i \in 1 .. n |-> [id |-> r, step |-> i - 1]]

Copies == [id : use.clients, step : 0 .. use.steps, copy : 1 .. use.copies]

FlowPlaces == {"asking", "hit", "checking", "creating", "executing", "storing", "validating"}

Flowing == [at : FlowPlaces, msg : Copies, obj : Nat, before : Nat, after : Nat,
            out : Seq(Pieces)]

KvEntries == [key : use.clients, val : Nat]

AnswerEntries == [key : StepIds, val : Seq(Pieces)]

ClientStates == [is : {"ready", "waiting", "finished", "failed"},
                 step : Nat, copy : Nat, got : Seq(Seq(Pieces))]

Spoilings == {"torn", "raced", "overlapped", "forgotten"}

StageTypes ==
    /\ use \in Settings
    /\ kv \in Seq(KvEntries)
    /\ caches \in Seq(Seq(Pieces))
    /\ answers \in Seq(AnswerEntries)
    /\ flow \in [Workers -> {Idle} \cup Flowing]
    /\ net \subseteq Copies
    /\ client \in [RequestIds -> ClientStates]
    /\ spoilt \in [RequestIds -> SUBSET Spoilings]

Busy(t) == flow[t] # Idle

StepOf(r) == [id |-> r, step |-> client[r].step]

------------------------------------------------------------------------------
(* The state: what follows from the types, and what no move of a flow      *)
(* changes.                                                                *)

LEMMA EntriesArePairs == AreEntries(KvEntries) /\ AreEntries(AnswerEntries)
  BY DEF AreEntries, KvEntries, AnswerEntries

LEMMA SettingTypes ==
    ASSUME StageTypes
    PROVE  /\ use.clients \subseteq RequestIds /\ use.threads \subseteq Workers
           /\ use.entries \in Nat \ {0} /\ use.answers \in Nat \ {0}
           /\ use.steps \in Nat /\ use.copies \in Nat \ {0}
  BY PythonStageAssumption DEF StageTypes

LEMMA FlowTyped ==
    ASSUME StageTypes, NEW t \in Workers
    PROVE  /\ Busy(t) => /\ flow[t] \in Flowing /\ flow[t].at \in FlowPlaces
                         /\ flow[t].msg \in Copies
           /\ Busy(t) <=> flow[t].at # "idle"
<1>1. flow[t] \in {Idle} \cup Flowing
  BY DEF StageTypes
<1>2. ASSUME flow[t] = Idle PROVE flow[t].at = "idle"
  BY <1>2 DEF Idle
<1>3. ASSUME flow[t] \in Flowing
      PROVE  flow[t].at \in FlowPlaces /\ flow[t].msg \in Copies /\ flow[t].at # "idle"
  BY <1>3 DEF Flowing, FlowPlaces
<1> QED BY <1>1, <1>2, <1>3 DEF Busy

LEMMA CopyTyped ==
    ASSUME StageTypes, NEW m \in Copies
    PROVE  /\ m.id \in use.clients /\ m.id \in RequestIds
           /\ m.step \in Nat /\ m.step <= use.steps /\ m.copy \in Nat
           /\ Answer(m) \in StepIds /\ Answer(m).id = m.id /\ Answer(m).step = m.step
<1>1. m.id \in use.clients /\ m.step \in 0 .. use.steps /\ m.copy \in 1 .. use.copies
  BY DEF Copies
<1> QED BY <1>1, SettingTypes DEF Answer, StepIds

LEMMA ClientTyped ==
    ASSUME StageTypes, NEW r \in RequestIds
    PROVE  /\ client[r] \in ClientStates
           /\ client[r].is \in {"ready", "waiting", "finished", "failed"}
           /\ client[r].step \in Nat /\ client[r].copy \in Nat
           /\ client[r].got \in Seq(Seq(Pieces))
           /\ StepOf(r) \in StepIds /\ StepOf(r).id = r /\ StepOf(r).step = client[r].step
<1>1. client[r] \in ClientStates
  BY DEF StageTypes
<1>2. /\ client[r].is \in {"ready", "waiting", "finished", "failed"}
      /\ client[r].step \in Nat /\ client[r].copy \in Nat
      /\ client[r].got \in Seq(Seq(Pieces))
  BY <1>1 DEF ClientStates
<1> QED BY <1>1, <1>2 DEF StepOf, StepIds


(* A move of a flow that goes on with its message.                         *)
LEMMA FlowMoves ==
    ASSUME StageTypes, NEW t \in Workers, NEW g \in Flowing,
           flow' = [flow EXCEPT ![t] = g], UNCHANGED use
    PROVE  /\ flow'[t] = g
           /\ \A u \in Workers : u # t => flow'[u] = flow[u]
           /\ flow' \in [Workers -> ({Idle} \cup Flowing)']
           /\ Copies' = Copies
           /\ KvEntries' = KvEntries /\ AnswerEntries' = AnswerEntries
<1>1. flow \in [Workers -> {Idle} \cup Flowing]
  BY DEF StageTypes
<1>2. Copies' = Copies
  BY DEF Copies
<1>3. ({Idle} \cup Flowing)' = {Idle} \cup Flowing
  BY <1>2 DEF Flowing
<1>4. KvEntries' = KvEntries /\ AnswerEntries' = AnswerEntries
  BY DEF KvEntries, AnswerEntries
<1> QED BY <1>1, <1>2, <1>3, <1>4

(* What has happened to a session does not go away.                        *)
LEMMA Spoils ==
    ASSUME StageTypes, NEW rs, NEW what \in Spoilings, Spoil(rs, what)
    PROVE  /\ spoilt' \in [RequestIds -> SUBSET Spoilings]
           /\ \A r \in RequestIds : spoilt[r] \subseteq spoilt'[r]
           /\ \A r \in RequestIds \cap rs : what \in spoilt'[r]
<1>1. spoilt \in [RequestIds -> SUBSET Spoilings]
  BY DEF StageTypes
<1>2. ASSUME NEW r \in RequestIds
      PROVE  spoilt'[r] = IF r \in rs THEN spoilt[r] \cup {what} ELSE spoilt[r]
  BY DEF Spoil
<1>3. spoilt' \in [RequestIds -> SUBSET Spoilings]
  BY <1>1 DEF Spoil
<1> QED BY <1>2, <1>3

LEMMA NothingFed == ASSUME NEW r PROVE Fed(r, 0) = <<>>
  BY DEF Fed

LEMMA FedOnce ==
    ASSUME NEW r \in RequestIds, NEW n \in Nat
    PROVE  /\ Fed(r, n) \in Seq(Pieces) /\ Len(Fed(r, n)) = n
           /\ Append(Fed(r, n), [id |-> r, step |-> n]) = Fed(r, n + 1)
           /\ \A j, k \in DOMAIN Fed(r, n) :
                 Fed(r, n)[j].step = Fed(r, n)[k].step => j = k
<1>1. PICK s : s = Fed(r, n)
  OBVIOUS
<1>2. \A i \in 1 .. n : [id |-> r, step |-> i - 1] \in Pieces
  <2>1. \A i \in 1 .. n : [id |-> r, step |-> i - 1] \in StepIds
    BY DEF StepIds
  <2> QED BY <2>1 DEF Pieces
<1>3. /\ s \in Seq(Pieces) /\ Len(s) = n /\ DOMAIN s = 1 .. n
      /\ \A i \in 1 .. n : s[i] = [id |-> r, step |-> i - 1]
  BY <1>1, <1>2 DEF Fed
<1>4. PICK e \in Pieces : e = [id |-> r, step |-> n]
  BY DEF StepIds, Pieces
<1>5. PICK l : l = Fed(r, n + 1)
  OBVIOUS
<1>6. DOMAIN l = 1 .. n + 1 /\ \A i \in 1 .. n + 1 : l[i] = [id |-> r, step |-> i - 1]
  BY <1>5 DEF Fed
<1>7. Append(s, e) = l
  <2>1. PICK a : a = Append(s, e)
    OBVIOUS
  <2>2. a \in Seq(Pieces) /\ Len(a) = n + 1 /\ a[n + 1] = e /\ \A i \in 1 .. n : a[i] = s[i]
    BY <1>3, <2>1
  <2>3. l \in Seq(Pieces) /\ Len(l) = n + 1
    <3>1. \A i \in 1 .. n + 1 : [id |-> r, step |-> i - 1] \in StepIds
      BY DEF StepIds
    <3>2. \A i \in 1 .. n + 1 : [id |-> r, step |-> i - 1] \in Pieces
      BY <3>1 DEF Pieces
    <3> QED BY <1>5, <3>2 DEF Fed
  <2>4. \A i \in 1 .. n + 1 : a[i] = l[i]
    <3>1. l[n + 1] = [id |-> r, step |-> (n + 1) - 1] /\ (n + 1) - 1 = n
      BY <1>6
    <3>2. \A i \in 1 .. n : a[i] = l[i]
      BY <1>3, <1>6, <2>2
    <3>3. a[n + 1] = l[n + 1]
      BY <1>4, <2>2, <3>1
    <3> QED BY <3>2, <3>3
  <2> QED BY <2>1, <2>2, <2>3, <2>4
<1>8. ASSUME NEW j \in DOMAIN s, NEW k \in DOMAIN s, s[j].step = s[k].step
      PROVE  j = k
  <2>1. j \in 1 .. n /\ k \in 1 .. n
    BY <1>3
  <2>2. s[j].step = j - 1 /\ s[k].step = k - 1
    BY <1>3, <2>1
  <2>3. j - 1 = k - 1
    BY <1>8, <2>2
  <2> QED BY <2>1, <2>3
<1> QED BY <1>1, <1>3, <1>4, <1>5, <1>7, <1>8

------------------------------------------------------------------------------
(* In every setting the two caches stay within their bounds.               *)

WellFormed ==
    /\ StageTypes
    /\ OnePerKey(kv) /\ Len(kv) <= use.entries
    /\ OnePerKey(answers) /\ Len(answers) <= use.answers
    /\ \A e \in Pairs(kv) : e.val \in DOMAIN caches
    /\ \A t \in Workers : flow[t].at = "executing" => flow[t].obj \in DOMAIN caches
    /\ \A r \in RequestIds :
          /\ client[r].is \in {"ready", "waiting"} => client[r].step <= use.steps
          /\ Len(client[r].got) = client[r].step

(* The parts of the state that the moves of a flow leave alone or change   *)
(* in the same way.                                                        *)
LEMMA WellFormedMove ==
    ASSUME WellFormed, NEW t \in Workers, NEW g \in Flowing, flow' = [flow EXCEPT ![t] = g],
           UNCHANGED <<use, client>>, net' \subseteq net,
           spoilt' \in [RequestIds -> SUBSET Spoilings],
           kv' \in Seq(KvEntries), OnePerKey(kv'), Len(kv') <= use.entries,
           answers' \in Seq(AnswerEntries), OnePerKey(answers'), Len(answers') <= use.answers,
           caches' \in Seq(Seq(Pieces)), DOMAIN caches \subseteq DOMAIN caches',
           \A e \in Pairs(kv') : e.val \in DOMAIN caches',
           g.at = "executing" => g.obj \in DOMAIN caches'
    PROVE  WellFormed'
<1>1. StageTypes
  BY DEF WellFormed
<1>2. /\ flow'[t] = g /\ \A u \in Workers : u # t => flow'[u] = flow[u]
      /\ flow' \in [Workers -> ({Idle} \cup Flowing)'] /\ Copies' = Copies
      /\ KvEntries' = KvEntries /\ AnswerEntries' = AnswerEntries
  BY <1>1, FlowMoves
<1>3. StageTypes'
  BY <1>1, <1>2 DEF StageTypes, ClientStates, StepIds, Pieces
<1>4. ASSUME NEW u \in Workers, flow'[u].at = "executing" PROVE flow'[u].obj \in DOMAIN caches'
  <2>1. CASE u = t
    BY <1>2, <1>4, <2>1
  <2>2. CASE u # t
    <3>1. flow[u].obj \in DOMAIN caches
      BY <1>2, <1>4, <2>2 DEF WellFormed
    <3> QED BY <1>2, <2>2, <3>1
  <2> QED BY <2>1, <2>2
<1>5. \A e \in Pairs(kv)' : e.val \in DOMAIN caches'
  BY DEF Pairs
<1> QED BY <1>3, <1>4, <1>5 DEF WellFormed, OnePerKey

(* Touching or dropping an entry keeps an ordered map one.                 *)
LEMMA Shrinks ==
    ASSUME NEW T, AreEntries(T), NEW m \in Seq(T), OnePerKey(m), NEW k,
           NEW l, l \in {Without(m, k), Touch(m, k), m}
    PROVE  l \in Seq(T) /\ OnePerKey(l) /\ Len(l) <= Len(m) /\ Pairs(l) \subseteq Pairs(m)
<1>1. CASE l = Without(m, k)
  <2>1. /\ Without(m, k) \in Seq(T) /\ OnePerKey(Without(m, k))
        /\ Pairs(Without(m, k)) = {e \in Pairs(m) : e.key # k}
        /\ Len(Without(m, k)) = IF k \in Keys(m) THEN Len(m) - 1 ELSE Len(m)
    BY WithoutShape
  <2>2. Len(m) \in Nat
    OBVIOUS
  <2> QED BY <1>1, <2>1, <2>2
<1>2. CASE l = Touch(m, k)
  <2>1. /\ Touch(m, k) \in Seq(T) /\ OnePerKey(Touch(m, k))
        /\ Pairs(Touch(m, k)) = Pairs(m) /\ Len(Touch(m, k)) = Len(m)
    BY TouchShape
  <2>2. Len(m) \in Nat
    OBVIOUS
  <2> QED BY <1>2, <2>1, <2>2
<1>3. CASE l = m
  <2>1. Len(m) \in Nat
    OBVIOUS
  <2> QED BY <1>3, <2>1
<1> QED BY <1>1, <1>2, <1>3

(* The flow before it executes.                                            *)
LEMMA EarlyWellFormed ==
    ASSUME WellFormed, NEW t \in use.threads, UNCHANGED use,
           \/ AskAnswers(t) \/ ReportHit(t) \/ CheckPrefilled(t)
           \/ \E m \in net : Receive(t, m)
    PROVE  WellFormed'
<1>1. StageTypes /\ t \in Workers
  BY SettingTypes DEF WellFormed
<1>2. /\ kv \in Seq(KvEntries) /\ OnePerKey(kv) /\ AreEntries(KvEntries) /\ Len(kv) <= use.entries
      /\ answers \in Seq(AnswerEntries) /\ OnePerKey(answers) /\ AreEntries(AnswerEntries)
      /\ Len(answers) <= use.answers /\ caches \in Seq(Seq(Pieces))
      /\ \A e \in Pairs(kv) : e.val \in DOMAIN caches
      /\ use.entries \in Nat /\ use.answers \in Nat
  BY <1>1, EntriesArePairs, SettingTypes DEF WellFormed, StageTypes
<1>3. PICK r, k :
         /\ kv' \in {Without(kv, r), Touch(kv, r), kv}
         /\ answers' \in {Without(answers, k), Touch(answers, k), answers}
  <2>1. PICK r : r = flow[t].msg.id
    OBVIOUS
  <2>2. PICK k : k = Answer(flow[t].msg)
    OBVIOUS
  <2>3. CASE AskAnswers(t)
    BY <2>2, <2>3 DEF AskAnswers
  <2>4. CASE ReportHit(t)
    BY <2>1, <2>4 DEF ReportHit
  <2>5. CASE CheckPrefilled(t)
    BY <2>1, <2>5 DEF CheckPrefilled, ResetOrFind
  <2>6. CASE \E m \in net : Receive(t, m)
    BY <2>6 DEF Receive
  <2> QED BY <2>3, <2>4, <2>5, <2>6
<1>4. /\ kv' \in Seq(KvEntries) /\ OnePerKey(kv') /\ Len(kv') <= Len(kv)
      /\ Pairs(kv') \subseteq Pairs(kv)
  <2>1. PICK l : l = kv'
    OBVIOUS
  <2>2. l \in {Without(kv, r), Touch(kv, r), kv}
    BY <1>3, <2>1
  <2>3. l \in Seq(KvEntries) /\ OnePerKey(l) /\ Len(l) <= Len(kv) /\ Pairs(l) \subseteq Pairs(kv)
    BY <1>2, <2>2, Shrinks
  <2> QED BY <2>1, <2>3
<1>5. answers' \in Seq(AnswerEntries) /\ OnePerKey(answers') /\ Len(answers') <= Len(answers)
  <2>1. PICK l : l = answers'
    OBVIOUS
  <2>2. l \in {Without(answers, k), Touch(answers, k), answers}
    BY <1>3, <2>1
  <2>3. l \in Seq(AnswerEntries) /\ OnePerKey(l) /\ Len(l) <= Len(answers)
    BY <1>2, <2>2, Shrinks
  <2> QED BY <2>1, <2>3
<1>6. UNCHANGED <<use, caches, client>> /\ net' \subseteq net
  BY DEF AskAnswers, ReportHit, CheckPrefilled, Receive
<1>7. \E g \in Flowing : flow' = [flow EXCEPT ![t] = g] /\ g.at # "executing"
  <2>1. ASSUME flow[t].at \in FlowPlaces PROVE flow[t] \in Flowing
    <3>1. flow[t].at # "idle"
      BY <2>1 DEF FlowPlaces
    <3> QED BY <1>1, <3>1, FlowTyped
  <2>2. CASE AskAnswers(t)
    <3>1. flow[t] \in Flowing
      BY <2>1, <2>2 DEF AskAnswers, FlowPlaces
    <3>2. PICK key : key = Answer(flow[t].msg)
      OBVIOUS
    <3>3. CASE key \in Keys(answers)
      <4>1. Lookup(answers, key) \in Seq(Pieces)
        <5>1. [key |-> key, val |-> Lookup(answers, key)] \in Pairs(answers)
          BY <1>2, <3>3, LookupFinds
        <5>2. [key |-> key, val |-> Lookup(answers, key)] \in AnswerEntries
          BY <1>2, <5>1, PairsTyped
        <5> QED BY <5>2 DEF AnswerEntries
      <4>2. PICK v \in Seq(Pieces) : v = Lookup(answers, key)
        BY <4>1
      <4>3. PICK g : g = [flow[t] EXCEPT !.at = "hit", !.out = v]
        OBVIOUS
      <4>4. g \in Flowing /\ g.at = "hit"
        BY <3>1, <4>3 DEF Flowing, FlowPlaces
      <4>5. flow' = [flow EXCEPT ![t] = g]
        BY <2>2, <3>2, <3>3, <4>2, <4>3 DEF AskAnswers
      <4> QED BY <4>4, <4>5
    <3>4. CASE key \notin Keys(answers)
      <4>1. PICK g : g = [flow[t] EXCEPT !.at = "checking"]
        OBVIOUS
      <4>2. g \in Flowing /\ g.at = "checking"
        BY <3>1, <4>1 DEF Flowing, FlowPlaces
      <4>3. flow' = [flow EXCEPT ![t] = g]
        BY <2>2, <3>2, <3>4, <4>1 DEF AskAnswers, GoTo
      <4> QED BY <4>2, <4>3
    <3> QED BY <3>3, <3>4
  <2>3. CASE ReportHit(t)
    <3>1. flow[t] \in Flowing
      BY <2>1, <2>3 DEF ReportHit, FlowPlaces
    <3>2. PICK q : q = flow[t].msg.id
      OBVIOUS
    <3>3. PICK n \in Nat : n = IF q \in Keys(kv) THEN Len(caches[Lookup(kv, q)]) ELSE 0
      <4>1. ASSUME q \in Keys(kv) PROVE Len(caches[Lookup(kv, q)]) \in Nat
        <5>1. PICK e : e = [key |-> q, val |-> Lookup(kv, q)]
          OBVIOUS
        <5>2. e \in Pairs(kv) /\ e.val = Lookup(kv, q)
          BY <1>2, <4>1, <5>1, LookupFinds
        <5>3. caches[e.val] \in Seq(Pieces)
          <6>1. PICK o : o = e.val
            OBVIOUS
          <6>2. o \in DOMAIN caches
            BY <1>2, <5>2, <6>1
          <6> QED BY <1>2, <6>1, <6>2
        <5> QED BY <5>2, <5>3
      <4> QED BY <4>1
    <3>4. PICK g : g = [flow[t] EXCEPT !.at = "validating", !.before = n, !.after = n]
      OBVIOUS
    <3>5. g \in Flowing /\ g.at = "validating"
      BY <3>1, <3>4 DEF Flowing, FlowPlaces
    <3>6. flow' = [flow EXCEPT ![t] = g]
      BY <2>3, <3>2, <3>3, <3>4 DEF ReportHit
    <3> QED BY <3>5, <3>6
  <2>4. CASE CheckPrefilled(t)
    <3>1. flow[t] \in Flowing
      BY <2>1, <2>4 DEF CheckPrefilled, FlowPlaces
    <3>2. PICK g : g = [flow[t] EXCEPT !.at = "creating"]
      OBVIOUS
    <3>3. g \in Flowing /\ g.at = "creating"
      BY <3>1, <3>2 DEF Flowing, FlowPlaces
    <3>4. flow' = [flow EXCEPT ![t] = g]
      BY <2>4, <3>2 DEF CheckPrefilled, GoTo
    <3> QED BY <3>3, <3>4
  <2>5. CASE \E m \in net : Receive(t, m)
    <3>1. PICK m \in net : Receive(t, m)
      BY <2>5
    <3>2. m \in Copies
      BY <1>1 DEF StageTypes
    <3>3. PICK place \in {"asking", "checking"} : place = IF Dedupe THEN "asking" ELSE "checking"
      OBVIOUS
    <3>4. PICK g : g = [at |-> place, msg |-> m, obj |-> 0, before |-> 0, after |-> 0, out |-> <<>>]
      OBVIOUS
    <3>5. <<>> \in Seq(Pieces) /\ place \in FlowPlaces
      BY <3>3 DEF FlowPlaces
    <3>6. g \in Flowing /\ g.at = place
      BY <3>2, <3>4, <3>5 DEF Flowing
    <3>7. flow' = [flow EXCEPT ![t] = g]
      BY <3>1, <3>3, <3>4 DEF Receive
    <3> QED BY <3>3, <3>6, <3>7
  <2> QED BY <2>2, <2>3, <2>4, <2>5
<1>8. /\ Len(kv') <= use.entries /\ Len(answers') <= use.answers
      /\ \A e \in Pairs(kv') : e.val \in DOMAIN caches'
  <2>1. Len(kv) \in Nat /\ Len(answers) \in Nat /\ Len(kv') \in Nat /\ Len(answers') \in Nat
    BY <1>2, <1>4, <1>5
  <2> QED BY <1>2, <1>4, <1>5, <1>6, <2>1
<1>9. caches' \in Seq(Seq(Pieces)) /\ DOMAIN caches \subseteq DOMAIN caches'
  BY <1>2, <1>6
<1>10. PICK g \in Flowing : flow' = [flow EXCEPT ![t] = g] /\ g.at # "executing"
  BY <1>7
<1>11. spoilt' \in [RequestIds -> SUBSET Spoilings]
  <2>1. CASE UNCHANGED spoilt
    BY <1>1, <2>1 DEF StageTypes
  <2>2. CASE \E m \in net : Receive(t, m)
    <3>1. PICK rs : Spoil(rs, "overlapped")
      BY <2>2 DEF Receive
    <3>2. PICK what \in Spoilings : what = "overlapped"
      BY DEF Spoilings
    <3> QED BY <1>1, <3>1, <3>2, Spoils
  <2> QED BY <2>1, <2>2 DEF AskAnswers, ReportHit, CheckPrefilled
<1> QED BY <1>1, <1>4, <1>5, <1>6, <1>8, <1>9, <1>10, <1>11, WellFormedMove

LEMMA CreateWellFormed ==
    ASSUME WellFormed, NEW t \in use.threads, UNCHANGED use, GetOrCreate(t)
    PROVE  WellFormed'
<1>1. StageTypes /\ t \in Workers /\ flow[t].at = "creating"
  BY SettingTypes DEF WellFormed, GetOrCreate
<1>2. flow[t] \in Flowing /\ flow[t].msg \in Copies
  BY <1>1, FlowTyped
<1>3. PICK r \in use.clients : r = flow[t].msg.id
  BY <1>1, <1>2, CopyTyped
<1>4. PICK o : o = IF r \in Keys(kv) THEN Lookup(kv, r) ELSE Len(caches) + 1
  OBVIOUS
<1>5. PICK max \in Nat \ {0} : max = use.entries
  BY <1>1, SettingTypes
<1>6. /\ kv' = Put(kv, r, o, max)
      /\ caches' = IF r \in Keys(kv) THEN caches ELSE Append(caches, <<>>)
      /\ flow' = [flow EXCEPT ![t].at = "executing", ![t].obj = o]
      /\ UNCHANGED <<answers, net, client>>
  BY <1>3, <1>4, <1>5 DEF GetOrCreate
<1>7. /\ kv \in Seq(KvEntries) /\ OnePerKey(kv) /\ AreEntries(KvEntries)
      /\ caches \in Seq(Seq(Pieces))
  BY <1>1, EntriesArePairs DEF WellFormed, StageTypes
<1>8. \A e \in Pairs(kv) : e.val \in DOMAIN caches
  BY DEF WellFormed
<1>9. /\ o \in Nat /\ o \in DOMAIN caches'
      /\ caches' \in Seq(Seq(Pieces)) /\ DOMAIN caches \subseteq DOMAIN caches'
  <2>1. CASE r \in Keys(kv)
    <3>1. PICK e : e = [key |-> r, val |-> Lookup(kv, r)]
      OBVIOUS
    <3>2. e \in Pairs(kv) /\ e.val = o
      BY <1>4, <1>7, <2>1, <3>1, LookupFinds
    <3>3. o \in DOMAIN caches /\ caches' = caches
      BY <1>6, <1>8, <2>1, <3>2
    <3> QED BY <1>7, <3>3
  <2>2. CASE r \notin Keys(kv)
    <3>1. PICK empty \in Seq(Pieces) : empty = <<>>
      <4>1. <<>> \in Seq(Pieces)
        OBVIOUS
      <4> QED BY <4>1
    <3>2. caches' = Append(caches, empty) /\ o = Len(caches) + 1
      BY <1>4, <1>6, <2>2, <3>1
    <3> QED BY <1>7, <3>1, <3>2
  <2> QED BY <2>1, <2>2
<1>10. [key |-> r, val |-> o] \in KvEntries
  BY <1>3, <1>9 DEF KvEntries
<1>11. /\ kv' \in Seq(KvEntries) /\ OnePerKey(kv') /\ Len(kv') <= max
       /\ \A e \in Pairs(kv') : e = [key |-> r, val |-> o] \/ (e \in Pairs(kv) /\ e.key # r)
  <2>1. PICK p : p = Put(kv, r, o, max)
    OBVIOUS
  <2>2. /\ p \in Seq(KvEntries) /\ OnePerKey(p) /\ Len(p) <= max
        /\ \A e \in Pairs(p) : e = [key |-> r, val |-> o] \/ (e \in Pairs(kv) /\ e.key # r)
    BY <1>7, <1>10, <2>1, PutShape
  <2> QED BY <1>6, <2>1, <2>2
<1>12. \A e \in Pairs(kv') : e.val \in DOMAIN caches'
  BY <1>8, <1>9, <1>11
<1>13. PICK g \in Flowing : flow' = [flow EXCEPT ![t] = g] /\ g.obj = o
  <2>1. PICK g : g = [flow[t] EXCEPT !.at = "executing", !.obj = o]
    OBVIOUS
  <2>2. g \in Flowing /\ g.obj = o
    BY <1>2, <1>9, <2>1 DEF Flowing, FlowPlaces
  <2>3. flow' = [flow EXCEPT ![t] = g]
    BY <1>6, <2>1
  <2> QED BY <2>2, <2>3
<1>14. answers' \in Seq(AnswerEntries) /\ OnePerKey(answers') /\ Len(answers') <= use.answers
  BY <1>1, <1>6 DEF WellFormed, StageTypes
<1>15. UNCHANGED <<use, client>> /\ net' \subseteq net /\ Len(kv') <= use.entries
  BY <1>5, <1>6, <1>11
<1>16. spoilt' \in [RequestIds -> SUBSET Spoilings]
  <2>1. PICK rs : Spoil(rs, "raced")
    BY DEF GetOrCreate
  <2>2. PICK what \in Spoilings : what = "raced"
    BY DEF Spoilings
  <2> QED BY <1>1, <2>1, <2>2, Spoils
<1> QED BY <1>1, <1>9, <1>11, <1>12, <1>13, <1>14, <1>15, <1>16, WellFormedMove

LEMMA ExecuteWellFormed ==
    ASSUME WellFormed, NEW t \in use.threads, UNCHANGED use, Execute(t)
    PROVE  WellFormed'
<1>1. StageTypes /\ t \in Workers /\ flow[t].at = "executing"
  BY SettingTypes DEF WellFormed, Execute
<1>2. flow[t] \in Flowing /\ flow[t].msg \in Copies
  BY <1>1, FlowTyped
<1>3. PICK o : o = flow[t].obj
  OBVIOUS
<1>4. o \in DOMAIN caches /\ caches \in Seq(Seq(Pieces))
  BY <1>1, <1>3 DEF WellFormed, StageTypes
<1>5. PICK c \in Seq(Pieces) : c = caches[o]
  BY <1>4
<1>6. PICK step \in Pieces : step = Answer(flow[t].msg)
  BY <1>1, <1>2, CopyTyped DEF Pieces
<1>7. PICK done \in Seq(Pieces) : done = Append(c, step)
  <2>1. Append(c, step) \in Seq(Pieces)
    BY <1>5, <1>6
  <2> QED BY <2>1
<1>8. Len(c) \in Nat /\ Len(done) \in Nat
  BY <1>5, <1>7
<1>9. /\ caches' = [caches EXCEPT ![o] = done]
      /\ flow' = [flow EXCEPT ![t].at = IF Dedupe THEN "storing" ELSE "validating",
                              ![t].before = Len(c), ![t].after = Len(done), ![t].out = done]
      /\ UNCHANGED <<kv, answers, net, client, spoilt>>
  BY <1>3, <1>5, <1>6, <1>7 DEF Execute
<1>10. caches' \in Seq(Seq(Pieces)) /\ DOMAIN caches' = DOMAIN caches
  <2>1. /\ DOMAIN caches' = DOMAIN caches /\ caches'[o] = done
        /\ \A i \in DOMAIN caches : i # o => caches'[i] = caches[i]
    BY <1>4, <1>9
  <2>2. ASSUME NEW i \in DOMAIN caches PROVE caches'[i] \in Seq(Pieces)
    <3>1. caches[i] \in Seq(Pieces)
      BY <1>4
    <3> QED BY <1>7, <2>1, <3>1
  <2>3. PICK n \in Nat : n = Len(caches) /\ DOMAIN caches = 1 .. n
    BY <1>4
  <2>4. caches' \in [1 .. n -> Seq(Pieces)]
    BY <1>9, <2>1, <2>2, <2>3
  <2> QED BY <2>1, <2>4
<1>11. PICK place \in {"storing", "validating"} :
          place = IF Dedupe THEN "storing" ELSE "validating"
  OBVIOUS
<1>12. PICK g \in Flowing : flow' = [flow EXCEPT ![t] = g] /\ g.at # "executing"
  <2>1. PICK g : g = [flow[t] EXCEPT !.at = place, !.before = Len(c), !.after = Len(done),
                                     !.out = done]
    OBVIOUS
  <2>2. place \in FlowPlaces
    BY <1>11 DEF FlowPlaces
  <2>3. g \in Flowing /\ g.at = place
    BY <1>2, <1>7, <1>8, <2>1, <2>2 DEF Flowing
  <2>4. flow' = [flow EXCEPT ![t] = g]
    BY <1>9, <1>11, <2>1
  <2> QED BY <1>11, <2>3, <2>4
<1>13. /\ kv' \in Seq(KvEntries) /\ OnePerKey(kv') /\ Len(kv') <= use.entries
       /\ answers' \in Seq(AnswerEntries) /\ OnePerKey(answers') /\ Len(answers') <= use.answers
       /\ \A e \in Pairs(kv') : e.val \in DOMAIN caches'
       /\ spoilt' \in [RequestIds -> SUBSET Spoilings]
  BY <1>1, <1>9, <1>10 DEF WellFormed, StageTypes
<1>14. UNCHANGED <<use, client>> /\ net' \subseteq net /\ DOMAIN caches \subseteq DOMAIN caches'
  BY <1>9, <1>10
<1> QED BY <1>1, <1>10, <1>12, <1>13, <1>14, WellFormedMove

LEMMA StoreWellFormed ==
    ASSUME WellFormed, NEW t \in use.threads, UNCHANGED use, StoreAnswer(t)
    PROVE  WellFormed'
<1>1. StageTypes /\ t \in Workers /\ flow[t].at = "storing"
  BY SettingTypes DEF WellFormed, StoreAnswer
<1>2. flow[t] \in Flowing /\ flow[t].msg \in Copies
  BY <1>1, FlowTyped
<1>3. PICK k \in StepIds : k = Answer(flow[t].msg)
  BY <1>1, <1>2, CopyTyped
<1>4. PICK v \in Seq(Pieces) : v = flow[t].out
  BY <1>2 DEF Flowing
<1>5. PICK max \in Nat \ {0} : max = use.answers
  BY <1>1, SettingTypes
<1>6. [key |-> k, val |-> v] \in AnswerEntries
  BY DEF AnswerEntries
<1>7. answers' \in Seq(AnswerEntries) /\ OnePerKey(answers') /\ Len(answers') <= use.answers
  <2>1. PICK p : p = Put(answers, k, v, max)
    OBVIOUS
  <2>2. answers \in Seq(AnswerEntries) /\ OnePerKey(answers)
    BY <1>1 DEF WellFormed, StageTypes
  <2>3. p \in Seq(AnswerEntries) /\ OnePerKey(p) /\ Len(p) <= max
    BY <1>6, <2>1, <2>2, PutShape
  <2>4. answers' = p
    BY <1>3, <1>4, <1>5, <2>1 DEF StoreAnswer, Stored
  <2> QED BY <1>5, <2>3, <2>4
<1>8. PICK g \in Flowing : flow' = [flow EXCEPT ![t] = g] /\ g.at = "validating"
  <2>1. PICK g : g = [flow[t] EXCEPT !.at = "validating"]
    OBVIOUS
  <2>2. g \in Flowing /\ g.at = "validating"
    BY <1>2, <2>1 DEF Flowing, FlowPlaces
  <2>3. flow' = [flow EXCEPT ![t] = g]
    BY <2>1 DEF StoreAnswer, GoTo
  <2> QED BY <2>2, <2>3
<1>9. UNCHANGED <<use, kv, caches, client, net>>
  BY DEF StoreAnswer
<1>10. /\ kv' \in Seq(KvEntries) /\ OnePerKey(kv') /\ Len(kv') <= use.entries
       /\ \A e \in Pairs(kv') : e.val \in DOMAIN caches'
       /\ caches' \in Seq(Seq(Pieces)) /\ DOMAIN caches \subseteq DOMAIN caches'
       /\ net' \subseteq net
  BY <1>1, <1>9 DEF WellFormed, StageTypes
<1>11. spoilt' \in [RequestIds -> SUBSET Spoilings]
  <2>1. PICK rs : Spoil(rs, "forgotten")
    BY DEF StoreAnswer
  <2>2. PICK what \in Spoilings : what = "forgotten"
    BY DEF Spoilings
  <2> QED BY <1>1, <2>1, <2>2, Spoils
<1> QED BY <1>1, <1>7, <1>8, <1>9, <1>10, <1>11, WellFormedMove

LEMMA AnswerWellFormed ==
    ASSUME WellFormed, NEW t \in use.threads, NEW ok, AnswerWith(t, ok),
           flow[t].at \in FlowPlaces, UNCHANGED <<use, kv, answers, net>>,
           caches' \in Seq(Seq(Pieces)), DOMAIN caches' = DOMAIN caches,
           spoilt' \in [RequestIds -> SUBSET Spoilings]
    PROVE  WellFormed'
<1>1. StageTypes /\ t \in Workers
  BY SettingTypes DEF WellFormed
<1>2. flow[t] \in Flowing /\ flow[t].msg \in Copies
  <2>1. flow[t].at # "idle"
    BY DEF FlowPlaces
  <2> QED BY <1>1, <2>1, FlowTyped
<1>3. PICK r \in RequestIds : r = flow[t].msg.id
  BY <1>1, <1>2, CopyTyped
<1>4. PICK c \in ClientStates : c = client[r]
  BY <1>1, ClientTyped
<1>5. /\ c.is \in {"ready", "waiting", "finished", "failed"} /\ c.step \in Nat /\ c.copy \in Nat
      /\ c.got \in Seq(Seq(Pieces)) /\ Len(c.got) = c.step
      /\ c.is \in {"ready", "waiting"} => c.step <= use.steps
  <2>1. /\ Len(client[r].got) = client[r].step
        /\ client[r].is \in {"ready", "waiting"} => client[r].step <= use.steps
    BY DEF WellFormed
  <2> QED BY <1>4, <2>1 DEF ClientStates
<1>6. PICK out \in Seq(Pieces) : out = flow[t].out
  BY <1>2 DEF Flowing
<1>7. PICK d \in ClientStates :
         /\ client' = [client EXCEPT ![r] = d] /\ Len(d.got) = d.step
         /\ d.is \in {"ready", "waiting"} => d.step <= use.steps
  <2>1. client' = [client EXCEPT ![r] = Heard(c, ok, out)] \/ client' = client
    BY <1>3, <1>4, <1>6 DEF AnswerWith
  <2>2. CASE client' = client
    <3>1. client' = [client EXCEPT ![r] = c]
      BY <1>1, <1>4, <2>2 DEF StageTypes
    <3> QED BY <1>5, <3>1
  <2>3. CASE client' = [client EXCEPT ![r] = Heard(c, ok, out)] /\ ~ok
    <3>1. PICK d : d = [c EXCEPT !.is = "failed"]
      OBVIOUS
    <3>2. d \in ClientStates /\ d.is = "failed" /\ d.step = c.step /\ d.got = c.got
      BY <1>4, <3>1 DEF ClientStates
    <3>3. d = Heard(c, ok, out)
      BY <2>3, <3>1 DEF Heard
    <3> QED BY <1>5, <2>3, <3>2, <3>3
  <2>4. CASE client' = [client EXCEPT ![r] = Heard(c, ok, out)] /\ ok /\ c.is = "waiting"
    <3>1. PICK is \in {"ready", "finished"} :
             is = IF c.step = use.steps THEN "finished" ELSE "ready"
      OBVIOUS
    <3>2. PICK got \in Seq(Seq(Pieces)) : got = Append(c.got, out) /\ Len(got) = Len(c.got) + 1
      <4>1. PICK T : T = Seq(Pieces)
        OBVIOUS
      <4>2. Append(c.got, out) \in Seq(T) /\ Len(Append(c.got, out)) = Len(c.got) + 1
        BY <1>5, <1>6, <4>1
      <4> QED BY <4>1, <4>2
    <3>3. PICK n \in Nat : n = c.step + 1
      BY <1>5
    <3>4. PICK d : d = [is |-> is, step |-> n, copy |-> 0, got |-> got]
      OBVIOUS
    <3>5. d \in ClientStates /\ d.is = is /\ d.step = n /\ d.got = got
      BY <3>4 DEF ClientStates
    <3>6. d = Heard(c, ok, out)
      BY <2>4, <3>1, <3>2, <3>3, <3>4 DEF Heard
    <3>7. d.is \in {"ready", "waiting"} => d.step <= use.steps
      <4>1. use.steps \in Nat
        BY <1>1, SettingTypes
      <4> QED BY <1>5, <2>4, <3>1, <3>3, <3>5, <4>1
    <3> QED BY <1>5, <2>4, <3>2, <3>3, <3>5, <3>6, <3>7
  <2>5. client' = client \/ c.is = "waiting"
    BY <1>3, <1>4 DEF AnswerWith
  <2> QED BY <2>1, <2>2, <2>3, <2>4, <2>5
<1>8. client' \in [RequestIds -> ClientStates] /\ client'[r] = d
      /\ \A q \in RequestIds : q # r => client'[q] = client[q]
  BY <1>1, <1>7 DEF StageTypes
<1>9. flow' = [flow EXCEPT ![t] = Idle]
  BY DEF AnswerWith
<1>10. /\ flow' \in [Workers -> {Idle} \cup Flowing] /\ flow'[t].at = "idle"
       /\ \A u \in Workers : u # t => flow'[u] = flow[u]
  BY <1>1, <1>9 DEF StageTypes, Idle
<1>11. /\ Copies' = Copies /\ Flowing' = Flowing /\ KvEntries' = KvEntries
       /\ AnswerEntries' = AnswerEntries /\ ClientStates' = ClientStates
  BY DEF Copies, Flowing, KvEntries, AnswerEntries, ClientStates
<1>12. StageTypes'
  BY <1>1, <1>8, <1>10, <1>11 DEF StageTypes
<1>13. ASSUME NEW u \in Workers, flow'[u].at = "executing" PROVE flow'[u].obj \in DOMAIN caches
  BY <1>10, <1>13 DEF WellFormed
<1>14. ASSUME NEW q \in RequestIds
       PROVE  /\ client'[q].is \in {"ready", "waiting"} => client'[q].step <= use.steps
              /\ Len(client'[q].got) = client'[q].step
  <2>1. CASE q = r
    BY <1>7, <1>8, <2>1
  <2>2. CASE q # r
    BY <1>8, <2>2 DEF WellFormed
  <2> QED BY <2>1, <2>2
<1> QED BY <1>12, <1>13, <1>14 DEF WellFormed, OnePerKey, Pairs

LEMMA SendWellFormed ==
    ASSUME WellFormed, NEW r \in use.clients, UNCHANGED use, Send(r)
    PROVE  WellFormed'
<1>1. /\ StageTypes /\ r \in RequestIds
      /\ client[r].is \in {"ready", "waiting"} /\ client[r].copy < use.copies
      /\ use.steps \in Nat /\ use.copies \in Nat
  BY SettingTypes DEF WellFormed, Send
<1>2. /\ client[r] \in ClientStates /\ client[r].step \in Nat /\ client[r].copy \in Nat
      /\ client[r].step <= use.steps /\ Len(client[r].got) = client[r].step
  BY <1>1, ClientTyped DEF WellFormed
<1>3. Copy(r) \in Copies
  <2>1. client[r].step \in 0 .. use.steps /\ client[r].copy + 1 \in 1 .. use.copies
    BY <1>1, <1>2
  <2> QED BY <2>1 DEF Copy, Copies
<1>4. PICK d \in ClientStates :
         client' = [client EXCEPT ![r] = d] /\ d.step = client[r].step /\ d.got = client[r].got
  <2>1. PICK k \in Nat : k = client[r].copy + 1
    BY <1>2
  <2>2. PICK d : d = [client[r] EXCEPT !.is = "waiting", !.copy = k]
    OBVIOUS
  <2>3. d \in ClientStates /\ d.step = client[r].step /\ d.got = client[r].got
    BY <1>2, <2>2 DEF ClientStates
  <2>4. client' = [client EXCEPT ![r] = d]
    BY <2>1, <2>2 DEF Send
  <2> QED BY <2>3, <2>4
<1>5. client' \in [RequestIds -> ClientStates] /\ client'[r] = d
      /\ \A q \in RequestIds : q # r => client'[q] = client[q]
  BY <1>1, <1>4 DEF StageTypes
<1>6. net' = net \cup {Copy(r)} /\ UNCHANGED <<use, kv, caches, answers, flow, spoilt>>
  BY DEF Send
<1>7. /\ Copies' = Copies /\ Flowing' = Flowing /\ KvEntries' = KvEntries
      /\ AnswerEntries' = AnswerEntries /\ ClientStates' = ClientStates
  BY <1>6 DEF Copies, Flowing, KvEntries, AnswerEntries, ClientStates
<1>8. StageTypes'
  BY <1>1, <1>3, <1>5, <1>6, <1>7 DEF StageTypes
<1>9. ASSUME NEW q \in RequestIds
      PROVE  /\ client'[q].is \in {"ready", "waiting"} => client'[q].step <= use.steps
             /\ Len(client'[q].got) = client'[q].step
  <2>1. CASE q = r
    BY <1>2, <1>4, <1>5, <2>1
  <2>2. CASE q # r
    BY <1>5, <2>2 DEF WellFormed
  <2> QED BY <2>1, <2>2
<1> QED BY <1>6, <1>8, <1>9 DEF WellFormed, OnePerKey, Pairs

(* A forward that throws changes its cache object at most.                 *)
LEMMA Throws ==
    ASSUME WellFormed, NEW t \in use.threads, Throw(t)
    PROVE  /\ caches' \in Seq(Seq(Pieces)) /\ DOMAIN caches' = DOMAIN caches
           /\ \A i \in DOMAIN caches : i # flow[t].obj => caches'[i] = caches[i]
           /\ spoilt' \in [RequestIds -> SUBSET Spoilings]
           /\ \A r \in RequestIds : spoilt[r] \subseteq spoilt'[r]
           /\ \/ UNCHANGED <<caches, spoilt>>
              \/ /\ flow[t].msg.step > 0 => "torn" \in spoilt'[flow[t].msg.id]
                 /\ Len(caches'[flow[t].obj]) = Len(caches[flow[t].obj]) + 1
<1>1. /\ StageTypes /\ t \in Workers /\ flow[t].at = "executing"
      /\ caches \in Seq(Seq(Pieces)) /\ spoilt \in [RequestIds -> SUBSET Spoilings]
  BY SettingTypes DEF WellFormed, StageTypes, Throw
<1>2. flow[t] \in Flowing /\ flow[t].msg \in Copies
  BY <1>1, FlowTyped
<1>3. PICK m \in Copies : m = flow[t].msg
  BY <1>2
<1>4. m.id \in RequestIds /\ m.step \in Nat
  BY <1>1, CopyTyped
<1>5. PICK o \in DOMAIN caches : o = flow[t].obj
  BY <1>1 DEF WellFormed
<1>6. CASE UNCHANGED <<caches, spoilt>>
  BY <1>1, <1>6
<1>7. CASE /\ caches' = [caches EXCEPT ![o] = Append(@, Torn(m))]
           /\ Spoil(IF m.step > 0 THEN {m.id} ELSE {}, "torn")
  <2>1. PICK part \in Pieces : part = Torn(m)
    BY <1>4 DEF Torn, Pieces
  <2>2. PICK c \in Seq(Pieces) : c = caches[o]
    BY <1>1
  <2>3. PICK done \in Seq(Pieces) : done = Append(c, part) /\ Len(done) = Len(c) + 1
    <3>1. Append(c, part) \in Seq(Pieces) /\ Len(Append(c, part)) = Len(c) + 1
      OBVIOUS
    <3> QED BY <3>1
  <2>4. /\ DOMAIN caches' = DOMAIN caches /\ caches'[o] = done
        /\ \A i \in DOMAIN caches : i # o => caches'[i] = caches[i]
    BY <1>1, <1>7, <2>1, <2>2, <2>3
  <2>5. caches' \in Seq(Seq(Pieces))
    <3>1. ASSUME NEW i \in DOMAIN caches PROVE caches'[i] \in Seq(Pieces)
      <4>1. caches[i] \in Seq(Pieces)
        BY <1>1
      <4> QED BY <2>4, <4>1
    <3>2. PICK n \in Nat : n = Len(caches) /\ DOMAIN caches = 1 .. n
      BY <1>1
    <3>3. caches' = [i \in 1 .. n |-> caches'[i]]
      BY <1>7, <2>4, <3>2
    <3>4. caches' \in [1 .. n -> Seq(Pieces)]
      BY <2>4, <3>1, <3>2, <3>3
    <3> QED BY <3>4
  <2>6. PICK rs : rs = IF m.step > 0 THEN {m.id} ELSE {}
    OBVIOUS
  <2>7. PICK what \in Spoilings : what = "torn"
    BY DEF Spoilings
  <2>8. Spoil(rs, what)
    BY <1>7, <2>6, <2>7
  <2>9. /\ spoilt' \in [RequestIds -> SUBSET Spoilings]
        /\ \A r \in RequestIds : spoilt[r] \subseteq spoilt'[r]
        /\ \A r \in RequestIds \cap rs : what \in spoilt'[r]
    BY <1>1, <2>8, Spoils
  <2> QED BY <1>3, <1>4, <1>5, <2>2, <2>3, <2>4, <2>5, <2>6, <2>7, <2>9
<1> QED BY <1>3, <1>5, <1>6, <1>7 DEF Throw

LEMMA WellFormedInit == StageInit => WellFormed
<1> SUFFICES ASSUME StageInit PROVE WellFormed
  OBVIOUS
<1>1. /\ use \in Settings /\ kv = <<>> /\ caches = <<>> /\ answers = <<>>
      /\ flow = [t \in Workers |-> Idle] /\ net = {}
      /\ client = [r \in RequestIds |-> [is |-> "ready", step |-> 0, copy |-> 0, got |-> <<>>]]
      /\ spoilt = [r \in RequestIds |-> {}]
  BY DEF StageInit
<1>2. PICK start \in ClientStates : start = [is |-> "ready", step |-> 0, copy |-> 0, got |-> <<>>]
  <2>1. <<>> \in Seq(Seq(Pieces))
    OBVIOUS
  <2> QED BY <2>1 DEF ClientStates
<1>3. StageTypes
  <2>1. client \in [RequestIds -> ClientStates]
    BY <1>1, <1>2
  <2>2. flow \in [Workers -> {Idle} \cup Flowing] /\ spoilt \in [RequestIds -> SUBSET Spoilings]
    BY <1>1
  <2>3. kv \in Seq(KvEntries) /\ caches \in Seq(Seq(Pieces)) /\ answers \in Seq(AnswerEntries)
    BY <1>1
  <2> QED BY <1>1, <2>1, <2>2, <2>3 DEF StageTypes
<1>4. /\ Len(kv) <= use.entries /\ Len(answers) <= use.answers
      /\ OnePerKey(kv) /\ OnePerKey(answers) /\ Pairs(kv) = {}
  <2>1. use.entries \in Nat /\ use.answers \in Nat
    BY <1>3, SettingTypes
  <2> QED BY <1>1, <2>1 DEF OnePerKey, Pairs
<1>5. \A t \in Workers : flow[t].at # "executing"
  BY <1>1 DEF Idle
<1>6. ASSUME NEW r \in RequestIds
      PROVE  client[r].step <= use.steps /\ Len(client[r].got) = client[r].step
  <2>1. client[r].step = 0 /\ client[r].got = <<>>
    BY <1>1
  <2> QED BY <1>3, <2>1, SettingTypes
<1> QED BY <1>3, <1>4, <1>5, <1>6 DEF WellFormed

LEMMA WellFormedNext == WellFormed /\ [StageNext]_stageVars => WellFormed'
<1> SUFFICES ASSUME WellFormed, [StageNext]_stageVars PROVE WellFormed'
  OBVIOUS
<1>1. CASE UNCHANGED stageVars
  <2>1. UNCHANGED <<use, kv, caches, answers, flow, net, client, spoilt>>
    BY <1>1 DEF stageVars
  <2>2. /\ Copies' = Copies /\ Flowing' = Flowing /\ KvEntries' = KvEntries
        /\ AnswerEntries' = AnswerEntries /\ ClientStates' = ClientStates
    BY <2>1 DEF Copies, Flowing, KvEntries, AnswerEntries, ClientStates
  <2>3. StageTypes'
    BY <2>1, <2>2 DEF WellFormed, StageTypes
  <2> QED BY <2>1, <2>3 DEF WellFormed, OnePerKey, Pairs
<1>2. ASSUME NEW r \in use.clients, Send(r), UNCHANGED use PROVE WellFormed'
  BY <1>2, SendWellFormed
<1>3. ASSUME NEW t \in use.threads, NEW m \in net, Receive(t, m), UNCHANGED use PROVE WellFormed'
  BY <1>3, EarlyWellFormed
<1>4. ASSUME NEW t \in use.threads, FlowStep(t), UNCHANGED use PROVE WellFormed'
  <2>1. CASE AskAnswers(t) \/ ReportHit(t) \/ CheckPrefilled(t)
    BY <1>4, <2>1, EarlyWellFormed
  <2>2. CASE RefuseDecode(t)
    <3>1. /\ AnswerWith(t, FALSE) /\ flow[t].at \in FlowPlaces
          /\ UNCHANGED <<use, kv, caches, answers, net, spoilt>>
      BY <1>4, <2>2 DEF RefuseDecode, FlowPlaces
    <3>2. PICK ok : ok = FALSE
      OBVIOUS
    <3>3. /\ caches' \in Seq(Seq(Pieces)) /\ DOMAIN caches' = DOMAIN caches
          /\ spoilt' \in [RequestIds -> SUBSET Spoilings]
      BY <3>1 DEF WellFormed, StageTypes
    <3> QED BY <1>4, <3>1, <3>2, <3>3, AnswerWellFormed
  <2>3. CASE GetOrCreate(t)
    BY <1>4, <2>3, CreateWellFormed
  <2>4. CASE Execute(t)
    BY <1>4, <2>4, ExecuteWellFormed
  <2>5. CASE StoreAnswer(t)
    BY <1>4, <2>5, StoreWellFormed
  <2>6. CASE Validate(t)
    <3>1. /\ AnswerWith(t, StepValid(t)) /\ flow[t].at \in FlowPlaces
          /\ UNCHANGED <<use, kv, caches, answers, net, spoilt>>
      BY <1>4, <2>6 DEF Validate, FlowPlaces
    <3>2. PICK ok : ok = StepValid(t)
      OBVIOUS
    <3>3. /\ caches' \in Seq(Seq(Pieces)) /\ DOMAIN caches' = DOMAIN caches
          /\ spoilt' \in [RequestIds -> SUBSET Spoilings]
      BY <3>1 DEF WellFormed, StageTypes
    <3> QED BY <1>4, <3>1, <3>2, <3>3, AnswerWellFormed
  <2>7. CASE Throw(t)
    <3>1. /\ AnswerWith(t, FALSE) /\ flow[t].at \in FlowPlaces
          /\ UNCHANGED <<use, kv, answers, net>>
      BY <1>4, <2>7 DEF Throw, FlowPlaces
    <3>2. PICK ok : ok = FALSE
      OBVIOUS
    <3>3. /\ caches' \in Seq(Seq(Pieces)) /\ DOMAIN caches' = DOMAIN caches
          /\ spoilt' \in [RequestIds -> SUBSET Spoilings]
      BY <1>4, <2>7, Throws
    <3> QED BY <1>4, <3>1, <3>2, <3>3, AnswerWellFormed
  <2> QED BY <1>4, <2>1, <2>2, <2>3, <2>4, <2>5, <2>6, <2>7 DEF FlowStep
<1> QED BY <1>1, <1>2, <1>3, <1>4 DEF StageNext

(* Every variable of the Python stage keeps its type, whatever the setting:*)
(* both caches stay ordered maps within their max_entries, and each live   *)
(* entry has a cache object.                                               *)
THEOREM StageTypesCorrect == StageSpec => []StageTypeOK
<1>1. WellFormed => StageTypeOK
  <2> SUFFICES ASSUME WellFormed PROVE StageTypeOK
    OBVIOUS
  <2>1. /\ StageTypes /\ kv \in Seq(KvEntries) /\ answers \in Seq(AnswerEntries)
        /\ OnePerKey(kv) /\ OnePerKey(answers)
    BY DEF WellFormed, StageTypes
  <2>2. IsLruMap(kv, use.entries) /\ IsLruMap(answers, use.answers)
    <3>1. Cardinality(Keys(kv)) = Len(kv) /\ Cardinality(Keys(answers)) = Len(answers)
      BY <2>1, KeysCounted
    <3> QED BY <3>1 DEF IsLruMap, WellFormed
  <2>3. ASSUME NEW i \in DOMAIN kv PROVE kv[i].key \in RequestIds /\ kv[i].val \in DOMAIN caches
    <3>1. PICK e \in Pairs(kv) : e = kv[i]
      BY DEF Pairs
    <3>2. e \in KvEntries
      BY <2>1, <3>1, PairsTyped
    <3>3. e.key \in RequestIds
      BY <2>1, <3>2, SettingTypes DEF KvEntries
    <3> QED BY <3>1, <3>3 DEF WellFormed
  <2>4. ASSUME NEW r \in RequestIds
        PROVE  client[r].is \in {"ready", "waiting", "finished", "failed"}
               /\ Len(client[r].got) = client[r].step
    BY <2>1, ClientTyped DEF WellFormed
  <2> QED BY <2>2, <2>3, <2>4 DEF StageTypeOK, Keys
<1> QED BY <1>1, WellFormedInit, WellFormedNext, PTL DEF StageSpec
------------------------------------------------------------------------------
(* What an undisturbed session keeps, whatever happens to the others.      *)

Serves(t, r) == Busy(t) /\ flow[t].msg.id = r

Underway(m) == m \in net \/ \E t \in Workers : Busy(t) /\ flow[t].msg = m

(* The step that the client of r is at has been executed.                  *)
Ran(r) ==
    \/ \E t \in Workers : /\ Serves(t, r) /\ flow[t].at \in {"storing", "validating"}
                          /\ flow[t].msg.step = client[r].step
    \/ use.copies # 1 /\ StepOf(r) \in Keys(answers)

(* What is on its way has been asked for, and what is remembered is right. *)
Ordered(r) ==
    /\ \A m \in Copies : m.id = r /\ Underway(m) => m.step <= client[r].step
    /\ \A e \in Pairs(answers) : e.key.id = r =>
          e.key.step <= client[r].step /\ e.val = Fed(r, e.key.step + 1)

(* Where steps are sent once, one copy at most is under way, it is the one *)
(* that the client waits for, and no answer is asked for again.            *)
Once(r) ==
    use.copies = 1 =>
        /\ client[r].is = "ready" => client[r].copy = 0
        /\ client[r].is = "waiting" => client[r].copy = 1
        /\ \A m \in Copies : m.id = r /\ Underway(m) =>
              client[r].is = "waiting" /\ m.step = client[r].step
        /\ \A m \in net : m.id = r =>
              /\ \A n \in net : n.id = r => n = m
              /\ \A t \in Workers : ~Serves(t, r)
        /\ \A t \in Workers : Serves(t, r) =>
              /\ \A u \in Workers : Serves(u, r) => u = t
              /\ flow[t].at # "hit"
              /\ flow[t].at \in {"storing", "validating"} =>
                    flow[t].after = flow[t].before + 1
        /\ StepOf(r) \in Keys(answers) =>
              \E t \in Workers : Serves(t, r) /\ flow[t].at = "validating"

(* No two flows serve one step.                                            *)
Apart(r) ==
    \A t, u \in Workers :
        Serves(t, r) /\ Serves(u, r) /\ flow[t].msg.step = flow[u].msg.step => t = u

(* Where steps may be sent again, the cache of answers knows every step    *)
(* that has been executed.                                                 *)
Remembered(r) ==
    use.copies # 1 =>
        /\ \A s \in Nat : s < client[r].step => [id |-> r, step |-> s] \in Keys(answers)
        /\ \A t \in Workers : Serves(t, r) =>
              /\ flow[t].at \in {"checking", "creating", "executing"} =>
                    Answer(flow[t].msg) \notin Keys(answers)
              /\ flow[t].at \in {"hit", "validating"} => Answer(flow[t].msg) \in Keys(answers)

(* A flow that executes has the steps before its own, in its request's     *)
(* live cache object or in one that has been evicted.                      *)
FlowRight(t, r) ==
    /\ flow[t].at = "creating" => (flow[t].msg.step = 0 <=> r \notin Keys(kv))
    /\ flow[t].at = "executing" =>
          /\ caches[flow[t].obj] = Fed(r, flow[t].msg.step)
          /\ \A e \in Pairs(kv) : e.key = r => e.val = flow[t].obj
    /\ flow[t].at \in {"hit", "storing", "validating"} =>
          flow[t].out = Fed(r, flow[t].msg.step + 1)

FlowsRight(r) == \A t \in Workers : Serves(t, r) => FlowRight(t, r)

(* The live cache object holds the steps that have been executed, each     *)
(* once. Only that of a prefill that threw, and will begin anew, may hold  *)
(* a torn one.                                                             *)
Held(r) == Fed(r, client[r].step + IF Ran(r) THEN 1 ELSE 0)

CacheRight(r) ==
    \A e \in Pairs(kv) : e.key = r =>
        \/ caches[e.val] = Held(r)
        \/ client[r].step = 0 /\ ~Ran(r) /\ Len(caches[e.val]) <= 1

GotRight(r) == client[r].got = [i \in 1 .. client[r].step |-> Fed(r, i)]

Sound(r) ==
    /\ Ordered(r) /\ Once(r) /\ Apart(r) /\ Remembered(r)
    /\ FlowsRight(r) /\ CacheRight(r) /\ GotRight(r)

(* No cache object is that of two requests, live or in use.                *)
Owned ==
    /\ \A e, f \in Pairs(kv) : e.val = f.val => e = f
    /\ \A t \in Workers : flow[t].at = "executing" =>
          \A e \in Pairs(kv) : e.val = flow[t].obj => e.key = flow[t].msg.id
    /\ \A t, u \in Workers :
          flow[t].at = "executing" /\ flow[u].at = "executing" /\ flow[t].obj = flow[u].obj
              => flow[t].msg.id = flow[u].msg.id

(* The inductive invariant. That an answer is right needs that the live    *)
(* cache object is, that needs which steps have been executed already      *)
(* (Ran), and that what is under way is the step that its client is at:    *)
(* since nothing is sent twice (Once), or since the answers know what has  *)
(* been executed (Remembered). Owned holds of disturbed sessions too: they *)
(* must not reach another's cache object.                                  *)
StageInv ==
    /\ WellFormed /\ Owned
    /\ \A r \in RequestIds : Undisturbed(r) => Sound(r)

LEMMA StaysDisturbed ==
    ASSUME UNCHANGED use, NEW r \in RequestIds, spoilt[r] \subseteq spoilt'[r]
    PROVE  Undisturbed(r)' => Undisturbed(r)
<1>1. \A what : what \in spoilt[r] => what \in spoilt'[r]
  OBVIOUS
<1> QED BY <1>1 DEF Undisturbed

(* A flow before execution serves the step that its client is at, and      *)
(* that step has not been executed.                                        *)
LEMMA Current ==
    ASSUME WellFormed, NEW r \in RequestIds, Sound(r), NEW t \in Workers, Serves(t, r),
           flow[t].at \in {"checking", "creating", "executing"}
    PROVE  /\ flow[t].msg.step = client[r].step /\ ~Ran(r)
           /\ \A u \in Workers : /\ Serves(u, r)
                                 /\ flow[u].at \in {"checking", "creating", "executing"}
                                 => u = t
<1> DEFINE Early(u) == flow[u].at \in {"checking", "creating", "executing"}
<1>1. StageTypes
  BY DEF WellFormed
<1>2. ASSUME NEW u \in Workers, Serves(u, r), Early(u)
      PROVE  flow[u].msg.step = client[r].step
  <2>1. PICK m \in Copies : m = flow[u].msg /\ m.id = r
    BY <1>1, <1>2, FlowTyped DEF Serves
  <2>2. Underway(m)
    BY <1>2, <2>1 DEF Underway, Serves
  <2>3. CASE use.copies = 1
    BY <2>1, <2>2, <2>3 DEF Sound, Once
  <2>4. CASE use.copies # 1
    <3>1. Answer(m) \notin Keys(answers)
      BY <1>2, <2>1, <2>4 DEF Sound, Remembered
    <3>2. m.step \in Nat /\ client[r].step \in Nat
      BY <1>1, CopyTyped, ClientTyped
    <3>3. ~(m.step < client[r].step)
      BY <2>1, <2>4, <3>1, <3>2 DEF Sound, Remembered, Answer
    <3>4. m.step <= client[r].step
      BY <2>1, <2>2 DEF Sound, Ordered
    <3> QED BY <2>1, <3>2, <3>3, <3>4
  <2> QED BY <2>3, <2>4
<1>3. flow[t].msg.step = client[r].step
  BY <1>2
<1>4. \A u \in Workers : Serves(u, r) /\ Early(u) => u = t
  BY <1>2, <1>3 DEF Sound, Apart
<1>5. ASSUME Ran(r) PROVE FALSE
  <2>1. CASE \E u \in Workers : /\ Serves(u, r) /\ flow[u].at \in {"storing", "validating"}
                                /\ flow[u].msg.step = client[r].step
    <3>1. PICK u \in Workers : /\ Serves(u, r) /\ flow[u].at \in {"storing", "validating"}
                               /\ flow[u].msg.step = client[r].step
      BY <2>1
    <3>2. u = t
      BY <1>3, <3>1 DEF Sound, Apart
    <3> QED BY <3>1, <3>2
  <2>2. CASE use.copies # 1 /\ StepOf(r) \in Keys(answers)
    <3>1. Answer(flow[t].msg) \notin Keys(answers)
      BY <2>2 DEF Sound, Remembered
    <3>2. Answer(flow[t].msg) = StepOf(r)
      BY <1>3 DEF Answer, StepOf, Serves
    <3> QED BY <2>2, <3>1, <3>2
  <2> QED BY <1>5, <2>1, <2>2 DEF Ran
<1> QED BY <1>3, <1>4, <1>5

(* A step of others: nothing of r changes, except that its entry may leave *)
(* the KV cache, if no decode step of it is about to use it, and answers   *)
(* may be forgotten where they are not asked for again.                    *)
LEMMA Elsewhere ==
    ASSUME WellFormed, WellFormed', NEW r \in RequestIds, Sound(r), UNCHANGED use,
           client'[r] = client[r],
           \A t \in Workers : Serves(t, r)' <=> Serves(t, r),
           \A t \in Workers : Serves(t, r) => flow'[t] = flow[t],
           \A m : m.id = r => (m \in net' <=> m \in net),
           \A e \in Pairs(answers') : e.key.id = r => e \in Pairs(answers),
           use.copies # 1 =>
               \A k \in StepIds : k.id = r /\ k \in Keys(answers) => k \in Keys(answers'),
           \A e \in Pairs(kv') : e.key = r => e \in Pairs(kv) /\ caches'[e.val] = caches[e.val],
           r \in Keys(kv') \/ r \notin Keys(kv) \/
               \A t \in Workers : Serves(t, r) /\ flow[t].at = "creating" => flow[t].msg.step = 0,
           \A t \in Workers : Serves(t, r) /\ flow[t].at = "executing" =>
               caches'[flow[t].obj] = caches[flow[t].obj]
    PROVE  Sound(r)'
<1>1. StageTypes /\ StageTypes' /\ Copies' = Copies
  BY DEF WellFormed, Copies
<1>2. StepOf(r)' = StepOf(r) /\ StepOf(r) \in StepIds /\ StepOf(r).id = r
  BY <1>1, ClientTyped DEF StepOf
<1>3. ASSUME NEW m \in Copies, m.id = r, Underway(m)' PROVE Underway(m)
  <2>1. CASE m \in net'
    BY <1>3, <2>1 DEF Underway
  <2>2. CASE \E u \in Workers : Busy(u)' /\ flow'[u].msg = m
    <3>1. PICK u \in Workers : Busy(u)' /\ flow'[u].msg = m
      BY <2>2
    <3>2. Serves(u, r)'
      BY <1>3, <3>1 DEF Serves
    <3>3. Serves(u, r) /\ flow[u].msg = m
      BY <3>1, <3>2
    <3> QED BY <3>3 DEF Underway, Serves
  <2> QED BY <1>3, <2>1, <2>2 DEF Underway
<1>4. /\ \A k \in StepIds : k.id = r /\ k \in Keys(answers') => k \in Keys(answers)
      /\ r \in Keys(kv') => r \in Keys(kv)
  <2>1. PICK a, b : a = answers' /\ b = kv'
    OBVIOUS
  <2>2. /\ Keys(a) = {e.key : e \in Pairs(a)} /\ Keys(answers) = {e.key : e \in Pairs(answers)}
        /\ Keys(b) = {e.key : e \in Pairs(b)} /\ Keys(kv) = {e.key : e \in Pairs(kv)}
    BY KeysOfPairs
  <2> QED BY <2>1, <2>2
<1>5. Ordered(r)'
  BY <1>1, <1>3 DEF Sound, Ordered, Fed
<1>6. Once(r)'
  <2> SUFFICES ASSUME use.copies = 1 PROVE Once(r)'
    BY DEF Once
  <2>1. \A m \in net' : m.id = r =>
              /\ \A n \in net' : n.id = r => n = m
              /\ \A t \in Workers : ~Serves(t, r)'
    BY DEF Sound, Once
  <2>2. \A t \in Workers : Serves(t, r)' =>
              /\ \A u \in Workers : Serves(u, r)' => u = t
              /\ flow'[t].at # "hit"
              /\ flow'[t].at \in {"storing", "validating"} =>
                    flow'[t].after = flow'[t].before + 1
    BY DEF Sound, Once
  <2>3. StepOf(r)' \in Keys(answers') =>
              \E t \in Workers : Serves(t, r)' /\ flow'[t].at = "validating"
    BY <1>2, <1>4 DEF Sound, Once
  <2> QED BY <1>1, <1>3, <2>1, <2>2, <2>3 DEF Sound, Once
<1>7. Apart(r)'
  BY DEF Sound, Apart
<1>8. Remembered(r)'
  <2> SUFFICES ASSUME use.copies # 1 PROVE Remembered(r)'
    BY DEF Remembered
  <2>1. ASSUME NEW s \in Nat, s < client[r].step
        PROVE  [id |-> r, step |-> s] \in Keys(answers')
    <3> DEFINE k == [id |-> r, step |-> s]
    <3>1. k \in StepIds /\ k.id = r
      BY DEF StepIds
    <3>2. k \in Keys(answers)
      BY <2>1 DEF Sound, Remembered
    <3> HIDE DEF k
    <3>3. k \in Keys(answers')
      BY <3>1, <3>2
    <3> QED BY <3>3 DEF k
  <2>2. ASSUME NEW t \in Workers, Serves(t, r)'
        PROVE  /\ flow'[t].at \in {"checking", "creating", "executing"} =>
                     Answer(flow'[t].msg) \notin Keys(answers')
               /\ flow'[t].at \in {"hit", "validating"} => Answer(flow'[t].msg) \in Keys(answers')
    <3>1. Serves(t, r) /\ flow'[t] = flow[t]
      BY <2>2
    <3>2. PICK k \in StepIds : k = Answer(flow[t].msg) /\ k.id = r
      BY <1>1, <3>1, FlowTyped, CopyTyped DEF Serves
    <3> QED BY <1>4, <3>1, <3>2 DEF Sound, Remembered
  <2> QED BY <2>1, <2>2 DEF Remembered, Answer
<1>9. FlowsRight(r)'
  <2>1. ASSUME NEW t \in Workers, Serves(t, r)' PROVE FlowRight(t, r)'
    <3>1. Serves(t, r) /\ flow'[t] = flow[t] /\ FlowRight(t, r)
      BY <2>1 DEF Sound, FlowsRight
    <3>2. flow[t].at = "creating" => (flow[t].msg.step = 0 <=> r \notin Keys(kv'))
      BY <1>4, <3>1 DEF FlowRight
    <3>3. flow[t].at = "executing" =>
              /\ caches'[flow[t].obj] = Fed(r, flow[t].msg.step)
              /\ \A e \in Pairs(kv') : e.key = r => e.val = flow[t].obj
      BY <3>1 DEF FlowRight
    <3> QED BY <3>1, <3>2, <3>3 DEF FlowRight, Fed
  <2> QED BY <2>1 DEF FlowsRight
<1>10. (Ran(r)' <=> Ran(r)) /\ Held(r)' = Held(r)
  <2>1. Ran(r)' <=> Ran(r)
    BY <1>2, <1>4 DEF Ran
  <2> QED BY <2>1 DEF Held, Fed
<1>11. CacheRight(r)'
  BY <1>10 DEF Sound, CacheRight
<1>12. GotRight(r)'
  BY DEF Sound, GotRight, Fed
<1> QED BY <1>5, <1>6, <1>7, <1>8, <1>9, <1>11, <1>12 DEF Sound

(* A step of the flow t, for request q: sessions of other requests are     *)
(* sound as before, those that it disturbs excepted.                       *)
LEMMA Others ==
    ASSUME StageInv, WellFormed', UNCHANGED use, NEW t, NEW q,
           \A u \in Workers : u # t => flow'[u] = flow[u],
           t \in Workers /\ Busy(t) => flow[t].msg.id = q,
           t \in Workers /\ Busy(t)' => flow'[t].msg.id = q,
           \A r \in RequestIds : spoilt[r] \subseteq spoilt'[r],
           \A r \in RequestIds : r # q => client'[r] = client[r],
           \A m : m.id # q => (m \in net' <=> m \in net),
           \A e \in Pairs(answers') : e.key.id # q => e \in Pairs(answers),
           \A k \in StepIds : k.id # q /\ k \in Keys(answers) =>
               k \in Keys(answers') \/ "forgotten" \in spoilt'[k.id],
           \A e \in Pairs(kv') : e.key # q => e \in Pairs(kv),
           \A r \in RequestIds : r # q /\ r \in Keys(kv) =>
               r \in Keys(kv') \/ "raced" \in spoilt'[r] \/ ~Checked(r),
           \A i \in DOMAIN caches :
               \/ caches'[i] = caches[i]
               \/ t \in Workers /\ flow[t].at = "executing" /\ flow[t].obj = i
    PROVE  \A r \in RequestIds : r # q /\ Undisturbed(r)' => Sound(r)'
<1> SUFFICES ASSUME NEW r \in RequestIds, r # q, Undisturbed(r)' PROVE Sound(r)'
  OBVIOUS
<1>1. WellFormed /\ StageTypes /\ Sound(r)
  BY StaysDisturbed DEF StageInv, WellFormed
<1>2. \A u \in Workers : (Serves(u, r)' <=> Serves(u, r)) /\ (Serves(u, r) => flow'[u] = flow[u])
  BY DEF Serves, Busy
<1>3. use.copies # 1 =>
         \A k \in StepIds : k.id = r /\ k \in Keys(answers) => k \in Keys(answers')
  BY DEF Undisturbed
<1>4. ASSUME NEW e \in Pairs(kv'), e.key = r
      PROVE  e \in Pairs(kv) /\ caches'[e.val] = caches[e.val]
  <2>1. e \in Pairs(kv)
    BY <1>4
  <2>2. e.val \in DOMAIN caches
    BY <1>1, <2>1 DEF WellFormed
  <2>3. ASSUME t \in Workers, flow[t].at = "executing", flow[t].obj = e.val PROVE FALSE
    <3>1. Busy(t)
      BY <1>1, <2>3, FlowTyped
    <3> QED BY <1>4, <2>1, <2>3, <3>1 DEF StageInv, Owned
  <2> QED BY <2>1, <2>2, <2>3
<1>5. ASSUME r \in Keys(kv), r \notin Keys(kv'),
             NEW u \in Workers, Serves(u, r), flow[u].at = "creating"
      PROVE  flow[u].msg.step = 0
  <2>1. ~Checked(r)
    BY <1>5 DEF Undisturbed
  <2>2. flow[u].msg.step \in Nat
    BY <1>1, <1>5, FlowTyped, CopyTyped DEF Serves
  <2> QED BY <1>5, <2>1, <2>2 DEF Checked, Serves
<1>6. ASSUME NEW u \in Workers, Serves(u, r), flow[u].at = "executing"
      PROVE  caches'[flow[u].obj] = caches[flow[u].obj]
  <2>1. flow[u].obj \in DOMAIN caches
    BY <1>1, <1>6 DEF WellFormed
  <2>2. ASSUME t \in Workers, flow[t].at = "executing", flow[t].obj = flow[u].obj PROVE FALSE
    <3>1. Busy(t)
      BY <1>1, <2>2, FlowTyped
    <3>2. flow[t].msg.id = flow[u].msg.id
      BY <1>6, <2>2 DEF StageInv, Owned
    <3> QED BY <1>6, <2>2, <3>1, <3>2 DEF Serves
  <2> QED BY <2>1, <2>2
<1> QED BY <1>1, <1>2, <1>3, <1>4, <1>5, <1>6, Elsewhere

(* A flow that goes on with its message: what is under way, and what is    *)
(* remembered, stays in order.                                             *)
LEMMA MoveSound ==
    ASSUME WellFormed, NEW r \in RequestIds, Sound(r), NEW t \in Workers, Serves(t, r),
           NEW g \in Flowing, flow' = [flow EXCEPT ![t] = g], g.msg = flow[t].msg,
           UNCHANGED <<use, net, client>>, flow[t].at # "validating",
           \A e \in Pairs(answers') : e.key.id = r =>
               \/ e \in Pairs(answers)
               \/ e.key = Answer(g.msg) /\ e.val = Fed(r, g.msg.step + 1) /\ g.at = "validating",
           use.copies # 1 =>
               \A k \in StepIds : k.id = r /\ k \in Keys(answers) => k \in Keys(answers'),
           use.copies = 1 =>
               /\ g.at # "hit"
               /\ g.at \in {"storing", "validating"} => g.after = g.before + 1,
           use.copies # 1 =>
               /\ g.at \in {"checking", "creating", "executing"} =>
                     Answer(g.msg) \notin Keys(answers')
               /\ g.at \in {"hit", "validating"} => Answer(g.msg) \in Keys(answers')
    PROVE  /\ Ordered(r)' /\ Once(r)' /\ Apart(r)' /\ Remembered(r)' /\ GotRight(r)'
           /\ flow'[t] = g /\ \A u \in Workers : u # t => flow'[u] = flow[u]
           /\ \A u \in Workers : Serves(u, r)' <=> Serves(u, r)
           /\ \A u \in Workers : Serves(u, r) => flow'[u].msg = flow[u].msg
           /\ StepOf(r)' = StepOf(r)
<1>1. StageTypes
  BY DEF WellFormed
<1>2. /\ flow'[t] = g /\ \A u \in Workers : u # t => flow'[u] = flow[u]
      /\ Copies' = Copies
  BY <1>1, FlowMoves
<1>3. Busy(t)' /\ Busy(t)
  <2>1. g # Idle
    <3>1. g.at \in FlowPlaces
      BY DEF Flowing
    <3> QED BY <3>1 DEF Idle, FlowPlaces
  <2> QED BY <1>2, <2>1 DEF Busy, Serves
<1>4. ASSUME NEW u \in Workers
      PROVE  (Serves(u, r)' <=> Serves(u, r)) /\ (Busy(u)' <=> Busy(u)) /\ flow'[u].msg = flow[u].msg
  <2>1. CASE u = t
    BY <1>2, <1>3, <2>1 DEF Serves
  <2>2. CASE u # t
    BY <1>2, <2>2 DEF Serves, Busy
  <2> QED BY <2>1, <2>2
<1>5. StepOf(r)' = StepOf(r) /\ StepOf(r) \in StepIds /\ StepOf(r).id = r
  BY <1>1, ClientTyped DEF StepOf
<1>6. ASSUME NEW m \in Copies PROVE Underway(m)' <=> Underway(m)
  BY <1>4 DEF Underway
<1>7. PICK m \in Copies : m = flow[t].msg /\ m.id = r
  BY <1>1, <1>3, FlowTyped DEF Serves
<1>8. PICK a \in StepIds : a = Answer(m) /\ a.id = r /\ a.step = m.step
  BY <1>1, <1>7, CopyTyped
<1>9. Underway(m) /\ m.step <= client[r].step
  <2>1. Underway(m)
    BY <1>3, <1>7 DEF Underway
  <2> QED BY <1>7, <2>1 DEF Sound, Ordered
<1>10. Ordered(r)'
  <2>1. ASSUME NEW e \in Pairs(answers'), e.key.id = r
        PROVE  e.key.step <= client[r].step /\ e.val = Fed(r, e.key.step + 1)
    <3>1. CASE e \in Pairs(answers)
      BY <2>1, <3>1 DEF Sound, Ordered
    <3>2. CASE e.key = Answer(g.msg) /\ e.val = Fed(r, g.msg.step + 1)
      BY <1>7, <1>8, <1>9, <3>2
    <3> QED BY <2>1, <3>1, <3>2
  <2> QED BY <1>2, <1>6, <2>1 DEF Sound, Ordered, Fed
<1>11. \A k \in StepIds : k.id = r /\ k \in Keys(answers') =>
          k \in Keys(answers) \/ (k = a /\ g.at = "validating")
  <2>1. PICK b : b = answers'
    OBVIOUS
  <2>2. /\ Keys(b) = {e.key : e \in Pairs(b)} /\ Keys(answers) = {e.key : e \in Pairs(answers)}
    BY KeysOfPairs
  <2> QED BY <1>7, <1>8, <2>1, <2>2
<1>12. Once(r)'
  <2> SUFFICES ASSUME use.copies = 1 PROVE Once(r)'
    BY DEF Once
  <2>1. ASSUME NEW u \in Workers, Serves(u, r)' PROVE u = t
    BY <1>4, <2>1 DEF Sound, Once
  <2>2. \A u \in Workers : Serves(u, r)' =>
              /\ \A v \in Workers : Serves(v, r)' => v = u
              /\ flow'[u].at # "hit"
              /\ flow'[u].at \in {"storing", "validating"} =>
                    flow'[u].after = flow'[u].before + 1
    BY <1>2, <2>1
  <2>3. ASSUME StepOf(r) \in Keys(answers')
        PROVE  \E u \in Workers : Serves(u, r)' /\ flow'[u].at = "validating"
    <3>1. StepOf(r) \notin Keys(answers)
      <4>1. ASSUME StepOf(r) \in Keys(answers) PROVE FALSE
        <5>1. PICK u \in Workers : Serves(u, r) /\ flow[u].at = "validating"
          BY <4>1 DEF Sound, Once
        <5> QED BY <1>4, <2>1, <5>1
      <4> QED BY <4>1
    <3>2. g.at = "validating"
      BY <1>5, <1>11, <2>3, <3>1
    <3> QED BY <1>2, <1>4, <3>2
  <2>4. \A n \in net : n.id = r =>
           /\ \A l \in net : l.id = r => l = n
           /\ \A u \in Workers : ~Serves(u, r)
    BY DEF Sound, Once
  <2>5. \A n \in Copies : n.id = r /\ Underway(n)' =>
              client[r].is = "waiting" /\ n.step = client[r].step
    BY <1>6 DEF Sound, Once
  <2> QED BY <1>2, <1>4, <1>5, <2>2, <2>3, <2>4, <2>5 DEF Sound, Once
<1>13. Apart(r)'
  BY <1>4 DEF Sound, Apart
<1>14. Remembered(r)'
  <2> SUFFICES ASSUME use.copies # 1 PROVE Remembered(r)'
    BY DEF Remembered
  <2>1. ASSUME NEW s \in Nat, s < client[r].step
        PROVE  [id |-> r, step |-> s] \in Keys(answers')
    <3> DEFINE k == [id |-> r, step |-> s]
    <3>1. k \in StepIds /\ k.id = r
      BY DEF StepIds
    <3>2. k \in Keys(answers)
      BY <2>1 DEF Sound, Remembered
    <3> HIDE DEF k
    <3>3. k \in Keys(answers')
      BY <3>1, <3>2
    <3> QED BY <3>3 DEF k
  <2>2. ASSUME NEW u \in Workers, Serves(u, r)'
        PROVE  /\ flow'[u].at \in {"checking", "creating", "executing"} =>
                     Answer(flow'[u].msg) \notin Keys(answers')
               /\ flow'[u].at \in {"hit", "validating"} => Answer(flow'[u].msg) \in Keys(answers')
    <3>1. CASE u = t
      BY <1>2, <3>1
    <3>2. CASE u # t
      <4>1. Serves(u, r) /\ flow'[u] = flow[u]
        BY <1>2, <1>4, <2>2, <3>2
      <4>2. PICK n \in Copies : n = flow[u].msg /\ n.id = r
        BY <1>1, <4>1, FlowTyped DEF Serves
      <4>3. PICK k \in StepIds : k = Answer(n) /\ k.id = r /\ k.step = n.step
        BY <1>1, <4>2, CopyTyped
      <4>4. k # a
        BY <1>7, <1>8, <3>2, <4>1, <4>2, <4>3 DEF Sound, Apart
      <4>5. k \in Keys(answers') <=> k \in Keys(answers)
        BY <1>11, <4>3, <4>4
      <4> QED BY <4>1, <4>2, <4>3, <4>5 DEF Sound, Remembered
    <3> QED BY <3>1, <3>2
  <2> QED BY <2>1, <2>2 DEF Remembered, Answer
<1>15. GotRight(r)'
  BY DEF Sound, GotRight, Fed
<1> QED BY <1>2, <1>4, <1>5, <1>10, <1>12, <1>13, <1>14, <1>15

(* Which steps have been executed does not change when a flow goes on,     *)
(* unless it executes.                                                     *)
LEMMA RanKept ==
    ASSUME WellFormed, NEW r \in RequestIds, NEW t \in Workers, Serves(t, r),
           UNCHANGED <<use, client>>,
           \A u \in Workers : u # t => flow'[u] = flow[u],
           Serves(t, r)', flow'[t].msg = flow[t].msg,
           flow[t].at \in {"storing", "validating"} => flow'[t].at \in {"storing", "validating"},
           flow'[t].at \in {"storing", "validating"} =>
               \/ flow[t].at \in {"storing", "validating"}
               \/ use.copies # 1 /\ Answer(flow[t].msg) \in Keys(answers),
           use.copies # 1 => (StepOf(r) \in Keys(answers) => StepOf(r) \in Keys(answers')),
           StepOf(r) \in Keys(answers') =>
               \/ StepOf(r) \in Keys(answers)
               \/ StepOf(r) = Answer(flow[t].msg) /\ flow[t].at \in {"storing", "validating"}
    PROVE  (Ran(r)' <=> Ran(r)) /\ Held(r)' = Held(r)
<1>1. StageTypes
  BY DEF WellFormed
<1>2. StepOf(r)' = StepOf(r) /\ StepOf(r).id = r /\ StepOf(r).step = client[r].step
  BY <1>1, ClientTyped DEF StepOf
<1>3. Answer(flow[t].msg) = StepOf(r) <=> flow[t].msg.step = client[r].step
  BY DEF Answer, StepOf, Serves
<1>4. ASSUME Ran(r) PROVE Ran(r)'
  <2>1. CASE use.copies # 1 /\ StepOf(r) \in Keys(answers)
    BY <1>2, <2>1 DEF Ran
  <2>2. CASE \E u \in Workers : /\ Serves(u, r) /\ flow[u].at \in {"storing", "validating"}
                                /\ flow[u].msg.step = client[r].step
    <3>1. PICK u \in Workers : /\ Serves(u, r) /\ flow[u].at \in {"storing", "validating"}
                               /\ flow[u].msg.step = client[r].step
      BY <2>2
    <3>2. /\ Serves(u, r)' /\ flow'[u].at \in {"storing", "validating"}
          /\ flow'[u].msg.step = client[r].step
      <4>1. CASE u = t
        BY <3>1, <4>1
      <4>2. CASE u # t
        BY <3>1, <4>2 DEF Serves, Busy
      <4> QED BY <4>1, <4>2
    <3> QED BY <3>2 DEF Ran
  <2> QED BY <1>4, <2>1, <2>2 DEF Ran
<1>5. ASSUME Ran(r)' PROVE Ran(r)
  <2>1. CASE use.copies # 1 /\ StepOf(r) \in Keys(answers')
    BY <1>3, <2>1 DEF Ran
  <2>2. CASE \E u \in Workers : /\ Serves(u, r)' /\ flow'[u].at \in {"storing", "validating"}
                                /\ flow'[u].msg.step = client[r].step
    <3>1. PICK u \in Workers : /\ Serves(u, r)' /\ flow'[u].at \in {"storing", "validating"}
                               /\ flow'[u].msg.step = client[r].step
      BY <2>2
    <3>2. CASE u = t
      BY <1>3, <3>1, <3>2 DEF Ran
    <3>3. CASE u # t
      BY <3>1, <3>3 DEF Ran, Serves, Busy
    <3> QED BY <3>2, <3>3
  <2> QED BY <1>2, <1>5, <2>1, <2>2 DEF Ran
<1>6. Ran(r)' <=> Ran(r)
  BY <1>4, <1>5
<1> QED BY <1>6 DEF Held, Fed

(* A move that leaves the KV cache as it is.                               *)
LEMMA MoveRight ==
    ASSUME NEW r \in RequestIds, Sound(r), NEW t \in Workers,
           \A u \in Workers : u # t => flow'[u] = flow[u],
           \A u \in Workers : Serves(u, r)' <=> Serves(u, r),
           FlowRight(t, r)', UNCHANGED <<caches, client>>,
           Pairs(kv') \subseteq Pairs(kv), r \in Keys(kv) <=> r \in Keys(kv'),
           Ran(r)' <=> Ran(r), Held(r)' = Held(r)
    PROVE  FlowsRight(r)' /\ CacheRight(r)'
<1>1. ASSUME NEW u \in Workers, Serves(u, r)' PROVE FlowRight(u, r)'
  <2>1. CASE u = t
    BY <2>1
  <2>2. CASE u # t
    <3>1. Serves(u, r) /\ FlowRight(u, r) /\ flow'[u] = flow[u]
      BY <1>1, <2>2 DEF Sound, FlowsRight
    <3>2. flow[u].at = "creating" => (flow[u].msg.step = 0 <=> r \notin Keys(kv'))
      BY <3>1 DEF FlowRight
    <3>3. flow[u].at = "executing" =>
             /\ caches[flow[u].obj] = Fed(r, flow[u].msg.step)
             /\ \A e \in Pairs(kv') : e.key = r => e.val = flow[u].obj
      BY <3>1 DEF FlowRight
    <3> QED BY <3>1, <3>2, <3>3 DEF FlowRight, Fed
  <2> QED BY <2>1, <2>2
<1>2. FlowsRight(r)'
  BY <1>1 DEF FlowsRight
<1>3. CacheRight(r)'
  BY DEF Sound, CacheRight
<1> QED BY <1>2, <1>3

(* Ownership, where no flow begins to execute and the KV cache gains no    *)
(* entry.                                                                  *)
LEMMA OwnedStays ==
    ASSUME Owned, Pairs(kv') \subseteq Pairs(kv),
           \A t \in Workers : flow'[t].at = "executing" => flow'[t] = flow[t]
    PROVE  Owned'
  BY DEF Owned

LEMMA AskAnswersKeeps ==
    ASSUME StageInv, NEW t \in use.threads, AskAnswers(t), UNCHANGED use
    PROVE  StageInv'
<1>1. PICK m : m = flow[t].msg
  OBVIOUS
<1>2. PICK k : k = Answer(m)
  OBVIOUS
<1>3. /\ WellFormed /\ StageTypes /\ t \in Workers /\ flow[t].at = "asking" /\ Busy(t)
      /\ flow[t] \in Flowing /\ m \in Copies /\ m.id \in RequestIds
  <2>1. StageTypes /\ t \in Workers /\ flow[t].at = "asking"
    BY SettingTypes DEF StageInv, WellFormed, AskAnswers
  <2> QED BY <1>1, <2>1, FlowTyped, CopyTyped DEF StageInv
<1>4. WellFormed'
  BY <1>3, EarlyWellFormed
<1>5. UNCHANGED <<use, kv, caches, net, client, spoilt>>
  BY DEF AskAnswers
<1>6. Pairs(answers') = Pairs(answers) /\ Keys(answers') = Keys(answers)
  <2>1. answers' = Touch(answers, k)
    BY <1>1, <1>2 DEF AskAnswers
  <2>2. answers \in Seq(AnswerEntries) /\ OnePerKey(answers) /\ AreEntries(AnswerEntries)
    BY <1>3, EntriesArePairs DEF WellFormed, StageTypes
  <2>3. Pairs(Touch(answers, k)) = Pairs(answers)
    BY <2>2, TouchShape
  <2>4. PICK a : a = answers'
    OBVIOUS
  <2>5. Keys(a) = Keys(answers)
    BY <2>1, <2>3, <2>4, KeysOfPairs
  <2> QED BY <2>1, <2>3, <2>4, <2>5
<1>7. PICK g \in Flowing :
         /\ flow' = [flow EXCEPT ![t] = g] /\ g.msg = m
         /\ k \in Keys(answers) => g.at = "hit" /\ [key |-> k, val |-> g.out] \in Pairs(answers)
         /\ k \notin Keys(answers) => g.at = "checking"
  <2>1. CASE k \in Keys(answers)
    <3>1. answers \in Seq(AnswerEntries) /\ OnePerKey(answers) /\ AreEntries(AnswerEntries)
      BY <1>3, EntriesArePairs DEF WellFormed, StageTypes
    <3>2. [key |-> k, val |-> Lookup(answers, k)] \in Pairs(answers)
      BY <2>1, <3>1, LookupFinds
    <3>3. [key |-> k, val |-> Lookup(answers, k)] \in AnswerEntries
      BY <3>1, <3>2, PairsTyped
    <3>4. PICK v \in Seq(Pieces) : v = Lookup(answers, k)
      BY <3>3 DEF AnswerEntries
    <3>5. PICK g : g = [flow[t] EXCEPT !.at = "hit", !.out = v]
      OBVIOUS
    <3>6. g \in Flowing /\ g.msg = m /\ g.at = "hit" /\ g.out = v
      BY <1>1, <1>3, <3>5 DEF Flowing, FlowPlaces
    <3>7. flow' = [flow EXCEPT ![t] = g]
      BY <1>1, <1>2, <2>1, <3>4, <3>5 DEF AskAnswers
    <3> QED BY <2>1, <3>2, <3>4, <3>6, <3>7
  <2>2. CASE k \notin Keys(answers)
    <3>1. PICK g : g = [flow[t] EXCEPT !.at = "checking"]
      OBVIOUS
    <3>2. g \in Flowing /\ g.msg = m /\ g.at = "checking"
      BY <1>1, <1>3, <3>1 DEF Flowing, FlowPlaces
    <3>3. flow' = [flow EXCEPT ![t] = g]
      BY <1>1, <1>2, <2>2, <3>1 DEF AskAnswers, GoTo
    <3> QED BY <2>2, <3>2, <3>3
  <2> QED BY <2>1, <2>2
<1>8. flow'[t] = g /\ \A u \in Workers : u # t => flow'[u] = flow[u]
  BY <1>3, <1>5, <1>7, FlowMoves
<1>9. PICK r \in RequestIds : r = m.id
  BY <1>3
<1>10. Owned'
  BY <1>5, <1>7, <1>8, OwnedStays DEF StageInv
<1>11. \A q \in RequestIds : q # r /\ Undisturbed(q)' => Sound(q)'
  BY <1>1, <1>3, <1>4, <1>5, <1>6, <1>7, <1>8, <1>9, Others
<1>12. ASSUME Undisturbed(r)' PROVE Sound(r)'
  <2>1. Sound(r) /\ Serves(t, r)
    BY <1>1, <1>3, <1>5, <1>9, <1>12, StaysDisturbed DEF StageInv, Serves
  <2>2. k \in StepIds /\ k.id = r /\ k.step = m.step
    BY <1>2, <1>3, <1>9, CopyTyped
  <2>3. k \in Keys(answers) => g.out = Fed(r, m.step + 1)
    <3>1. ASSUME k \in Keys(answers) PROVE g.out = Fed(r, m.step + 1)
      <4>1. PICK e \in Pairs(answers) : e = [key |-> k, val |-> g.out]
        BY <1>7, <3>1
      <4> QED BY <2>1, <2>2, <4>1 DEF Sound, Ordered
    <3> QED BY <3>1
  <2>4. use.copies = 1 => k \notin Keys(answers)
    <3>1. ASSUME use.copies = 1, k \in Keys(answers) PROVE FALSE
      <4>1. Underway(m)
        BY <1>1, <1>3 DEF Underway
      <4>2. m.step = client[r].step
        BY <1>3, <1>9, <2>1, <3>1, <4>1 DEF Sound, Once
      <4>3. StepOf(r) = k
        BY <1>2, <1>9, <4>2 DEF StepOf, Answer
      <4>4. PICK u \in Workers : Serves(u, r) /\ flow[u].at = "validating"
        BY <2>1, <3>1, <4>3 DEF Sound, Once
      <4>5. u = t
        BY <1>3, <2>1, <3>1, <4>4 DEF Sound, Once
      <4> QED BY <1>3, <4>4, <4>5
    <3> QED BY <3>1
  <2>5. /\ Ordered(r)' /\ Once(r)' /\ Apart(r)' /\ Remembered(r)' /\ GotRight(r)'
        /\ \A u \in Workers : Serves(u, r)' <=> Serves(u, r)
    BY <1>1, <1>2, <1>3, <1>5, <1>6, <1>7, <2>1, <2>4, MoveSound
  <2>6. (Ran(r)' <=> Ran(r)) /\ Held(r)' = Held(r)
    BY <1>1, <1>3, <1>5, <1>6, <1>7, <1>8, <2>1, <2>5, RanKept
  <2>7. FlowRight(t, r)'
    BY <1>7, <1>8, <2>3 DEF FlowRight, Fed
  <2>8. FlowsRight(r)' /\ CacheRight(r)'
    BY <1>3, <1>5, <1>8, <2>1, <2>5, <2>6, <2>7, MoveRight
  <2> QED BY <2>5, <2>8 DEF Sound
<1> QED BY <1>4, <1>9, <1>10, <1>11, <1>12 DEF StageInv

LEMMA KvTouched ==
    ASSUME WellFormed, NEW r, kv' = Touch(kv, r), UNCHANGED use
    PROVE  Pairs(kv') = Pairs(kv) /\ Keys(kv') = Keys(kv)
<1>1. kv \in Seq(KvEntries) /\ OnePerKey(kv) /\ AreEntries(KvEntries)
  BY EntriesArePairs DEF WellFormed, StageTypes
<1>2. Pairs(Touch(kv, r)) = Pairs(kv)
  BY <1>1, TouchShape
<1>3. PICK a : a = kv'
  OBVIOUS
<1>4. Keys(a) = Keys(kv)
  BY <1>2, <1>3, KeysOfPairs
<1> QED BY <1>2, <1>3, <1>4

LEMMA ReportHitKeeps ==
    ASSUME StageInv, NEW t \in use.threads, ReportHit(t), UNCHANGED use
    PROVE  StageInv'
<1>1. PICK m : m = flow[t].msg
  OBVIOUS
<1>3. /\ WellFormed /\ StageTypes /\ t \in Workers /\ flow[t].at = "hit" /\ Busy(t)
      /\ flow[t] \in Flowing /\ m \in Copies /\ m.id \in RequestIds
  <2>1. StageTypes /\ t \in Workers /\ flow[t].at = "hit"
    BY SettingTypes DEF StageInv, WellFormed, ReportHit
  <2> QED BY <1>1, <2>1, FlowTyped, CopyTyped DEF StageInv
<1>4. WellFormed'
  BY <1>3, EarlyWellFormed
<1>5. UNCHANGED <<use, answers, caches, net, client, spoilt>>
  BY DEF ReportHit
<1>6. Pairs(kv') = Pairs(kv) /\ Keys(kv') = Keys(kv)
  <2>1. PICK r : r = m.id
    OBVIOUS
  <2>2. kv' = Touch(kv, r)
    BY <1>1, <2>1 DEF ReportHit
  <2> QED BY <1>3, <2>2, KvTouched
<1>7. PICK g \in Flowing :
         flow' = [flow EXCEPT ![t] = g] /\ g.msg = m /\ g.at = "validating" /\ g.out = flow[t].out
  <2>1. flow'[t] \in ({Idle} \cup Flowing)' /\ ({Idle} \cup Flowing)' = {Idle} \cup Flowing
    <3>1. Copies' = Copies
      BY <1>5 DEF Copies
    <3> QED BY <1>3, <1>4, <3>1 DEF WellFormed, StageTypes, Flowing
  <2>2. PICK n : n = IF flow[t].msg.id \in Keys(kv) THEN Len(caches[Lookup(kv, flow[t].msg.id)]) ELSE 0
    OBVIOUS
  <2>3. PICK g : g = [flow[t] EXCEPT !.at = "validating", !.before = n, !.after = n]
    OBVIOUS
  <2>4. flow' = [flow EXCEPT ![t] = g]
    BY <2>2, <2>3 DEF ReportHit
  <2>5. flow'[t] = g
    BY <1>3, <2>4 DEF StageTypes
  <2>6. g.msg = m /\ g.at = "validating" /\ g.out = flow[t].out
    BY <1>1, <1>3, <2>3 DEF Flowing
  <2>7. g \in Flowing
    BY <2>1, <2>5, <2>6 DEF Idle
  <2> QED BY <2>4, <2>6, <2>7
<1>8. flow'[t] = g /\ \A u \in Workers : u # t => flow'[u] = flow[u]
  BY <1>3, <1>5, <1>7, FlowMoves
<1>9. PICK r \in RequestIds : r = m.id
  BY <1>3
<1>10. Owned'
  BY <1>5, <1>6, <1>7, <1>8, OwnedStays DEF StageInv
<1>11. \A q \in RequestIds : q # r /\ Undisturbed(q)' => Sound(q)'
  <2>1. flow[t].msg.id = r /\ flow'[t].msg.id = r
    BY <1>1, <1>7, <1>8, <1>9
  <2>2. \A q \in RequestIds : spoilt[q] \subseteq spoilt'[q]
    BY <1>5
  <2> QED BY <1>3, <1>4, <1>5, <1>6, <1>8, <2>1, <2>2, Others
<1>12. ASSUME Undisturbed(r)' PROVE Sound(r)'
  <2>1. Sound(r) /\ Serves(t, r)
    BY <1>1, <1>3, <1>5, <1>9, <1>12, StaysDisturbed DEF StageInv, Serves
  <2>2. use.copies # 1 /\ Answer(m) \in Keys(answers) /\ flow[t].out = Fed(r, m.step + 1)
    <3>1. use.copies # 1
      BY <1>3, <2>1 DEF Sound, Once
    <3>2. Answer(m) \in Keys(answers)
      BY <1>1, <1>3, <2>1, <3>1 DEF Sound, Remembered
    <3> QED BY <1>1, <1>3, <2>1, <3>1, <3>2 DEF Sound, FlowsRight, FlowRight
  <2>3. /\ Ordered(r)' /\ Once(r)' /\ Apart(r)' /\ Remembered(r)' /\ GotRight(r)'
        /\ \A u \in Workers : Serves(u, r)' <=> Serves(u, r)
    BY <1>1, <1>3, <1>5, <1>7, <2>1, <2>2, MoveSound
  <2>4. (Ran(r)' <=> Ran(r)) /\ Held(r)' = Held(r)
    BY <1>1, <1>3, <1>5, <1>7, <1>8, <2>1, <2>2, <2>3, RanKept
  <2>5. FlowRight(t, r)'
    BY <1>7, <1>8, <2>2 DEF FlowRight, Fed
  <2>6. FlowsRight(r)' /\ CacheRight(r)'
    BY <1>3, <1>5, <1>6, <1>8, <2>1, <2>3, <2>4, <2>5, MoveRight
  <2> QED BY <2>3, <2>6 DEF Sound
<1> QED BY <1>4, <1>9, <1>10, <1>11, <1>12 DEF StageInv

LEMMA CheckPrefilledKeeps ==
    ASSUME StageInv, NEW t \in use.threads, CheckPrefilled(t), UNCHANGED use
    PROVE  StageInv'
<1>1. PICK m : m = flow[t].msg
  OBVIOUS
<1>2. PICK r : r = m.id
  OBVIOUS
<1>3. /\ WellFormed /\ StageTypes /\ t \in Workers /\ flow[t].at = "checking" /\ Busy(t)
      /\ flow[t] \in Flowing /\ m \in Copies /\ r \in RequestIds
  <2>1. StageTypes /\ t \in Workers /\ flow[t].at = "checking"
    BY SettingTypes DEF StageInv, WellFormed, CheckPrefilled
  <2> QED BY <1>1, <1>2, <2>1, FlowTyped, CopyTyped DEF StageInv
<1>4. WellFormed'
  BY <1>3, EarlyWellFormed
<1>5. UNCHANGED <<use, answers, caches, net, client, spoilt>>
  BY DEF CheckPrefilled
<1>6. /\ m.step = 0 => Pairs(kv') = {e \in Pairs(kv) : e.key # r}
      /\ m.step # 0 => Pairs(kv') = Pairs(kv) /\ r \in Keys(kv)
  <2>1. /\ m.step = 0 => kv' = Without(kv, r)
        /\ m.step # 0 => r \in Keys(kv) /\ kv' = Touch(kv, r)
    BY <1>1, <1>2 DEF CheckPrefilled, ResetOrFind
  <2>2. kv \in Seq(KvEntries) /\ OnePerKey(kv)
    BY <1>3 DEF WellFormed, StageTypes
  <2>3. Pairs(Without(kv, r)) = {e \in Pairs(kv) : e.key # r}
    BY <2>2, WithoutShape
  <2>4. m.step # 0 => Pairs(kv') = Pairs(kv)
    BY <1>3, <2>1, KvTouched
  <2> QED BY <2>1, <2>3, <2>4
<1>7. \A q : q \in Keys(kv') <=> q \in Keys(kv) /\ (q = r => m.step # 0)
  <2>1. PICK b : b = kv'
    OBVIOUS
  <2>2. Keys(b) = {e.key : e \in Pairs(b)} /\ Keys(kv) = {e.key : e \in Pairs(kv)}
    BY KeysOfPairs
  <2> QED BY <1>6, <2>1, <2>2
<1>8. PICK g \in Flowing : flow' = [flow EXCEPT ![t] = g] /\ g.msg = m /\ g.at = "creating"
  <2>1. PICK g : g = [flow[t] EXCEPT !.at = "creating"]
    OBVIOUS
  <2>2. g \in Flowing /\ g.msg = m /\ g.at = "creating"
    BY <1>1, <1>3, <2>1 DEF Flowing, FlowPlaces
  <2>3. flow' = [flow EXCEPT ![t] = g]
    BY <2>1 DEF CheckPrefilled, GoTo
  <2> QED BY <2>2, <2>3
<1>9. flow'[t] = g /\ \A u \in Workers : u # t => flow'[u] = flow[u]
  BY <1>3, <1>5, <1>8, FlowMoves
<1>10. Owned'
  BY <1>5, <1>6, <1>8, <1>9, OwnedStays DEF StageInv
<1>11. \A q \in RequestIds : q # r /\ Undisturbed(q)' => Sound(q)'
  BY <1>1, <1>2, <1>3, <1>4, <1>5, <1>6, <1>7, <1>8, <1>9, Others
<1>12. ASSUME Undisturbed(r)' PROVE Sound(r)'
  <2>1. Sound(r) /\ Serves(t, r)
    BY <1>1, <1>2, <1>3, <1>5, <1>12, StaysDisturbed DEF StageInv, Serves
  <2>2. /\ m.step = client[r].step /\ ~Ran(r)
        /\ \A u \in Workers : /\ Serves(u, r)
                              /\ flow[u].at \in {"checking", "creating", "executing"}
                              => u = t
    BY <1>1, <1>3, <2>1, Current
  <2>3. use.copies # 1 => Answer(m) \notin Keys(answers)
    BY <1>1, <1>3, <2>1 DEF Sound, Remembered
  <2>4. /\ Ordered(r)' /\ Once(r)' /\ Apart(r)' /\ Remembered(r)' /\ GotRight(r)'
        /\ \A u \in Workers : Serves(u, r)' <=> Serves(u, r)
    BY <1>1, <1>3, <1>5, <1>8, <2>1, <2>3, MoveSound
  <2>5. (Ran(r)' <=> Ran(r)) /\ Held(r)' = Held(r)
    BY <1>1, <1>3, <1>5, <1>8, <1>9, <2>1, <2>4, RanKept
  <2>6. ASSUME NEW u \in Workers, Serves(u, r)' PROVE FlowRight(u, r)'
    <3>1. CASE u = t
      <4>1. g.msg.step = 0 <=> r \notin Keys(kv')
        BY <1>6, <1>7, <1>8
      <4> QED BY <1>8, <1>9, <3>1, <4>1 DEF FlowRight
    <3>2. CASE u # t
      <4>1. Serves(u, r) /\ flow'[u] = flow[u]
        BY <1>9, <2>4, <2>6, <3>2
      <4>2. flow[u].at \notin {"creating", "executing"}
        BY <2>2, <3>2, <4>1
      <4> QED BY <2>1, <4>1, <4>2 DEF Sound, FlowsRight, FlowRight, Fed
    <3> QED BY <3>1, <3>2
  <2>7. FlowsRight(r)'
    BY <2>6 DEF FlowsRight
  <2>8. CacheRight(r)'
    <3>1. Pairs(kv') \subseteq Pairs(kv)
      BY <1>6
    <3> QED BY <1>5, <2>1, <2>5, <3>1 DEF Sound, CacheRight
  <2> QED BY <2>4, <2>7, <2>8 DEF Sound
<1> QED BY <1>4, <1>3, <1>10, <1>11, <1>12 DEF StageInv

LEMMA StoreAnswerKeeps ==
    ASSUME StageInv, NEW t \in use.threads, StoreAnswer(t), UNCHANGED use
    PROVE  StageInv'
<1>1. PICK m : m = flow[t].msg
  OBVIOUS
<1>2. PICK r : r = m.id
  OBVIOUS
<1>3. /\ WellFormed /\ StageTypes /\ t \in Workers /\ flow[t].at = "storing" /\ Busy(t)
      /\ flow[t] \in Flowing /\ m \in Copies /\ r \in RequestIds
  <2>1. StageTypes /\ t \in Workers /\ flow[t].at = "storing"
    BY SettingTypes DEF StageInv, WellFormed, StoreAnswer
  <2> QED BY <1>1, <1>2, <2>1, FlowTyped, CopyTyped DEF StageInv
<1>4. WellFormed'
  BY <1>3, StoreWellFormed
<1>5. UNCHANGED <<use, kv, caches, net, client>>
  BY DEF StoreAnswer
<1>6. PICK k \in StepIds : k = Answer(m) /\ k.id = r /\ k.step = m.step
  BY <1>2, <1>3, CopyTyped
<1>7. PICK v \in Seq(Pieces) : v = flow[t].out
  BY <1>3 DEF Flowing
<1>8. PICK e \in AnswerEntries : e = [key |-> k, val |-> v]
  BY <1>6 DEF AnswerEntries
<1>9. /\ e \in Pairs(answers')
      /\ \A f \in Pairs(answers') : f = e \/ (f \in Pairs(answers) /\ f.key # k)
  <2>1. PICK max \in Nat \ {0} : max = use.answers
    BY <1>3, SettingTypes
  <2>2. answers' = Put(answers, k, v, max)
    BY <1>1, <1>6, <1>7, <2>1 DEF StoreAnswer, Stored
  <2>3. answers \in Seq(AnswerEntries) /\ OnePerKey(answers) /\ [key |-> k, val |-> v] \in AnswerEntries
    BY <1>3, <1>8 DEF WellFormed, StageTypes
  <2>4. /\ [key |-> k, val |-> v] \in Pairs(Put(answers, k, v, max))
        /\ \A f \in Pairs(Put(answers, k, v, max)) :
              f = [key |-> k, val |-> v] \/ (f \in Pairs(answers) /\ f.key # k)
    BY <2>3, PutShape
  <2> QED BY <1>8, <2>2, <2>4
<1>10. k \in Keys(answers') /\ \A j \in Keys(answers') : j = k \/ j \in Keys(answers)
  <2>1. PICK a : a = answers'
    OBVIOUS
  <2>2. Keys(a) = {f.key : f \in Pairs(a)} /\ Keys(answers) = {f.key : f \in Pairs(answers)}
    BY KeysOfPairs
  <2> QED BY <1>8, <1>9, <2>1, <2>2
<1>11. /\ \A q \in RequestIds : spoilt[q] \subseteq spoilt'[q]
       /\ \A j \in StepIds : j \in Keys(answers) =>
             j \in Keys(answers') \/ "forgotten" \in spoilt'[j.id]
  <2>1. PICK rs : rs = {j.id : j \in Keys(answers) \ Keys(answers')}
    OBVIOUS
  <2>2. PICK what \in Spoilings : what = "forgotten"
    BY DEF Spoilings
  <2>3. Spoil(rs, what)
    BY <2>1, <2>2 DEF StoreAnswer
  <2>4. /\ \A q \in RequestIds : spoilt[q] \subseteq spoilt'[q]
        /\ \A q \in RequestIds \cap rs : what \in spoilt'[q]
    BY <1>3, <2>3, Spoils
  <2>5. ASSUME NEW j \in StepIds, j \in Keys(answers), j \notin Keys(answers')
        PROVE  "forgotten" \in spoilt'[j.id]
    <3>1. j.id \in rs /\ j.id \in RequestIds
      BY <2>1, <2>5 DEF StepIds
    <3> QED BY <2>2, <2>4, <3>1
  <2> QED BY <2>4, <2>5
<1>12. PICK g \in Flowing :
          /\ flow' = [flow EXCEPT ![t] = g] /\ g.msg = m /\ g.at = "validating"
          /\ g.out = v /\ g.after = flow[t].after /\ g.before = flow[t].before
  <2>1. PICK g : g = [flow[t] EXCEPT !.at = "validating"]
    OBVIOUS
  <2>2. /\ g \in Flowing /\ g.msg = m /\ g.at = "validating"
        /\ g.out = v /\ g.after = flow[t].after /\ g.before = flow[t].before
    BY <1>1, <1>3, <1>7, <2>1 DEF Flowing, FlowPlaces
  <2>3. flow' = [flow EXCEPT ![t] = g]
    BY <2>1 DEF StoreAnswer, GoTo
  <2> QED BY <2>2, <2>3
<1>13. flow'[t] = g /\ \A u \in Workers : u # t => flow'[u] = flow[u]
  BY <1>3, <1>5, <1>12, FlowMoves
<1>14. Owned'
  BY <1>5, <1>12, <1>13, OwnedStays DEF StageInv
<1>15. \A q \in RequestIds : q # r /\ Undisturbed(q)' => Sound(q)'
  <2>1. \A f \in Pairs(answers') : f.key.id # r => f \in Pairs(answers)
    BY <1>6, <1>8, <1>9
  <2>2. flow[t].msg.id = r /\ flow'[t].msg.id = r
    BY <1>1, <1>2, <1>12, <1>13
  <2> QED BY <1>3, <1>4, <1>5, <1>11, <1>13, <2>1, <2>2, Others
<1>16. ASSUME Undisturbed(r)' PROVE Sound(r)'
  <2>1. Sound(r) /\ Serves(t, r)
    BY <1>1, <1>2, <1>3, <1>5, <1>11, <1>16, StaysDisturbed DEF StageInv, Serves
  <2>2. v = Fed(r, m.step + 1) /\ (use.copies = 1 => g.after = g.before + 1)
    <3>1. FlowRight(t, r)
      BY <1>3, <2>1 DEF Sound, FlowsRight
    <3> QED BY <1>1, <1>3, <1>7, <1>12, <2>1, <3>1 DEF FlowRight, Sound, Once
  <2>3. use.copies # 1 => \A j \in StepIds : j.id = r /\ j \in Keys(answers) => j \in Keys(answers')
    BY <1>5, <1>11, <1>16 DEF Undisturbed
  <2>4. \A f \in Pairs(answers') : f.key.id = r =>
           \/ f \in Pairs(answers)
           \/ f.key = Answer(g.msg) /\ f.val = Fed(r, g.msg.step + 1) /\ g.at = "validating"
    BY <1>6, <1>8, <1>9, <1>12, <2>2
  <2>5. /\ Ordered(r)' /\ Once(r)' /\ Apart(r)' /\ Remembered(r)' /\ GotRight(r)'
        /\ \A u \in Workers : Serves(u, r)' <=> Serves(u, r)
    <3>1. /\ g.at # "hit" /\ Answer(g.msg) \in Keys(answers')
          /\ g.at \notin {"checking", "creating", "executing"} /\ g.msg = flow[t].msg
          /\ flow' = [flow EXCEPT ![t] = g] /\ flow[t].at # "validating"
      BY <1>1, <1>3, <1>6, <1>10, <1>12
    <3>2. WellFormed /\ UNCHANGED <<use, net, client>>
      BY <1>3, <1>5
    <3> QED BY <1>3, <2>1, <2>2, <2>3, <2>4, <3>1, <3>2, MoveSound
  <2>6. (Ran(r)' <=> Ran(r)) /\ Held(r)' = Held(r)
    <3>1. StepOf(r) \in StepIds /\ StepOf(r).id = r
      BY <1>3, ClientTyped
    <3> QED BY <1>1, <1>3, <1>5, <1>6, <1>10, <1>12, <1>13, <2>1, <2>3, <2>5, <3>1, RanKept
  <2>7. FlowRight(t, r)'
    BY <1>12, <1>13, <2>2 DEF FlowRight, Fed
  <2>8. FlowsRight(r)' /\ CacheRight(r)'
    BY <1>3, <1>5, <1>13, <2>1, <2>5, <2>6, <2>7, MoveRight
  <2> QED BY <2>5, <2>8 DEF Sound
<1> QED BY <1>3, <1>4, <1>14, <1>15, <1>16 DEF StageInv

LEMMA GetOrCreateKeeps ==
    ASSUME StageInv, NEW t \in use.threads, GetOrCreate(t), UNCHANGED use
    PROVE  StageInv'
<1>1. PICK m : m = flow[t].msg
  OBVIOUS
<1>2. PICK r : r = m.id
  OBVIOUS
<1>3. /\ WellFormed /\ StageTypes /\ t \in Workers /\ flow[t].at = "creating" /\ Busy(t)
      /\ flow[t] \in Flowing /\ m \in Copies /\ r \in RequestIds /\ r \in use.clients
      /\ m.step \in Nat
  <2>1. StageTypes /\ t \in Workers /\ flow[t].at = "creating"
    BY SettingTypes DEF StageInv, WellFormed, GetOrCreate
  <2> QED BY <1>1, <1>2, <2>1, FlowTyped, CopyTyped DEF StageInv
<1>4. WellFormed'
  BY <1>3, CreateWellFormed
<1>5. UNCHANGED <<use, answers, net, client>>
  BY DEF GetOrCreate
<1>6. PICK o : o = IF r \in Keys(kv) THEN Lookup(kv, r) ELSE Len(caches) + 1
  OBVIOUS
<1>7. PICK max \in Nat \ {0} : max = use.entries
  BY <1>3, SettingTypes
<1>8. /\ kv' = Put(kv, r, o, max)
      /\ caches' = IF r \in Keys(kv) THEN caches ELSE Append(caches, <<>>)
      /\ flow' = [flow EXCEPT ![t].at = "executing", ![t].obj = o]
  BY <1>1, <1>2, <1>6, <1>7 DEF GetOrCreate
<1>9. /\ kv \in Seq(KvEntries) /\ OnePerKey(kv) /\ AreEntries(KvEntries)
      /\ caches \in Seq(Seq(Pieces))
  BY <1>3, EntriesArePairs DEF WellFormed, StageTypes
<1>10. /\ o \in Nat /\ \A i \in DOMAIN caches : caches'[i] = caches[i]
       /\ r \in Keys(kv) => [key |-> r, val |-> o] \in Pairs(kv)
       /\ r \notin Keys(kv) => o \notin DOMAIN caches /\ caches'[o] = <<>>
  <2>1. CASE r \in Keys(kv)
    <3>1. [key |-> r, val |-> o] \in Pairs(kv)
      BY <1>6, <1>9, <2>1, LookupFinds
    <3>2. [key |-> r, val |-> o] \in KvEntries
      BY <1>9, <3>1, PairsTyped
    <3> QED BY <1>8, <2>1, <3>1, <3>2 DEF KvEntries
  <2>2. CASE r \notin Keys(kv)
    <3>1. PICK empty \in Seq(Pieces) : empty = <<>>
      <4>1. <<>> \in Seq(Pieces)
        OBVIOUS
      <4> QED BY <4>1
    <3>2. caches' = Append(caches, empty) /\ o = Len(caches) + 1
      BY <1>6, <1>8, <2>2, <3>1
    <3> QED BY <1>9, <2>2, <3>1, <3>2
  <2> QED BY <2>1, <2>2
<1>11. PICK e \in KvEntries : e = [key |-> r, val |-> o]
  BY <1>3, <1>10 DEF KvEntries
<1>12. /\ e \in Pairs(kv')
       /\ \A f \in Pairs(kv') : f = e \/ (f \in Pairs(kv) /\ f.key # r)
  <2>1. [key |-> r, val |-> o] \in KvEntries
    BY <1>11
  <2>2. /\ [key |-> r, val |-> o] \in Pairs(Put(kv, r, o, max))
        /\ \A f \in Pairs(Put(kv, r, o, max)) :
              f = [key |-> r, val |-> o] \/ (f \in Pairs(kv) /\ f.key # r)
    BY <1>9, <2>1, PutShape
  <2> QED BY <1>8, <1>11, <2>2
<1>13. /\ \A q \in RequestIds : spoilt[q] \subseteq spoilt'[q]
       /\ \A q \in RequestIds : q \in Keys(kv) =>
             q \in Keys(kv') \/ "raced" \in spoilt'[q] \/ ~Checked(q)
  <2>1. PICK rs : rs = {v \in Keys(kv) \ Keys(kv') : Checked(v)}
    OBVIOUS
  <2>2. PICK what \in Spoilings : what = "raced"
    BY DEF Spoilings
  <2>3. Spoil(rs, what)
    BY <2>1, <2>2 DEF GetOrCreate
  <2>4. /\ \A q \in RequestIds : spoilt[q] \subseteq spoilt'[q]
        /\ \A q \in RequestIds \cap rs : what \in spoilt'[q]
    BY <1>3, <2>3, Spoils
  <2> QED BY <2>1, <2>2, <2>4
<1>14. PICK g \in Flowing :
          flow' = [flow EXCEPT ![t] = g] /\ g.msg = m /\ g.at = "executing" /\ g.obj = o
  <2>1. PICK g : g = [flow[t] EXCEPT !.at = "executing", !.obj = o]
    OBVIOUS
  <2>2. g \in Flowing /\ g.msg = m /\ g.at = "executing" /\ g.obj = o
    BY <1>1, <1>3, <1>10, <2>1 DEF Flowing, FlowPlaces
  <2>3. flow' = [flow EXCEPT ![t] = g]
    BY <1>8, <2>1
  <2> QED BY <2>2, <2>3
<1>15. flow'[t] = g /\ \A u \in Workers : u # t => flow'[u] = flow[u]
  BY <1>3, <1>5, <1>14, FlowMoves
<1>16. /\ \A f \in Pairs(kv) : f.val = o => f.key = r
       /\ \A u \in Workers : flow[u].at = "executing" /\ flow[u].obj = o => flow[u].msg.id = r
  <2>1. CASE r \in Keys(kv)
    <3>1. e \in Pairs(kv) /\ e.key = r /\ e.val = o
      BY <1>10, <1>11, <2>1
    <3> QED BY <3>1 DEF StageInv, Owned
  <2>2. CASE r \notin Keys(kv)
    BY <1>3, <1>10, <2>2 DEF WellFormed
  <2> QED BY <2>1, <2>2
<1>17. Owned'
  <2>1. ASSUME NEW f \in Pairs(kv'), NEW h \in Pairs(kv'), f.val = h.val PROVE f = h
    <3>1. CASE f \in Pairs(kv) /\ h \in Pairs(kv)
      BY <2>1, <3>1 DEF StageInv, Owned
    <3>2. CASE f = e \/ h = e
      BY <1>11, <1>12, <1>16, <2>1, <3>2
    <3> QED BY <1>12, <2>1, <3>1, <3>2
  <2>2. ASSUME NEW u \in Workers, flow'[u].at = "executing",
               NEW f \in Pairs(kv'), f.val = flow'[u].obj
        PROVE  f.key = flow'[u].msg.id
    <3>1. CASE u = t
      BY <1>2, <1>11, <1>12, <1>14, <1>15, <1>16, <2>2, <3>1
    <3>2. CASE u # t
      BY <1>11, <1>12, <1>15, <1>16, <2>2, <3>2 DEF StageInv, Owned
    <3> QED BY <3>1, <3>2
  <2>3. ASSUME NEW u \in Workers, NEW v \in Workers, flow'[u].at = "executing",
               flow'[v].at = "executing", flow'[u].obj = flow'[v].obj
        PROVE  flow'[u].msg.id = flow'[v].msg.id
    <3>1. CASE u # t /\ v # t
      BY <1>15, <2>3, <3>1 DEF StageInv, Owned
    <3>2. CASE u = t \/ v = t
      BY <1>2, <1>14, <1>15, <1>16, <2>3, <3>2
    <3> QED BY <3>1, <3>2
  <2> QED BY <2>1, <2>2, <2>3 DEF Owned
<1>18. \A q \in RequestIds : q # r /\ Undisturbed(q)' => Sound(q)'
  <2>1. \A f \in Pairs(kv') : f.key # r => f \in Pairs(kv)
    BY <1>11, <1>12
  <2>2. flow[t].msg.id = r /\ flow'[t].msg.id = r
    BY <1>1, <1>2, <1>14, <1>15
  <2> QED BY <1>3, <1>4, <1>5, <1>10, <1>13, <1>15, <2>1, <2>2, Others
<1>19. ASSUME Undisturbed(r)' PROVE Sound(r)'
  <2>1. Sound(r) /\ Serves(t, r)
    BY <1>1, <1>2, <1>3, <1>5, <1>13, <1>19, StaysDisturbed DEF StageInv, Serves
  <2>2. /\ m.step = client[r].step /\ ~Ran(r)
        /\ \A u \in Workers : /\ Serves(u, r)
                              /\ flow[u].at \in {"checking", "creating", "executing"}
                              => u = t
    BY <1>1, <1>3, <2>1, Current
  <2>3. use.copies # 1 => Answer(m) \notin Keys(answers)
    BY <1>1, <1>3, <2>1 DEF Sound, Remembered
  <2>4. /\ Ordered(r)' /\ Once(r)' /\ Apart(r)' /\ Remembered(r)' /\ GotRight(r)'
        /\ \A u \in Workers : Serves(u, r)' <=> Serves(u, r)
    BY <1>1, <1>3, <1>5, <1>14, <2>1, <2>3, MoveSound
  <2>5. (Ran(r)' <=> Ran(r)) /\ Held(r)' = Held(r)
    BY <1>1, <1>3, <1>5, <1>14, <1>15, <2>1, <2>4, RanKept
  <2>6. caches'[o] = Fed(r, m.step)
    <3>1. m.step = 0 <=> r \notin Keys(kv)
      BY <1>1, <1>3, <2>1 DEF Sound, FlowsRight, FlowRight
    <3>2. CASE r \in Keys(kv)
      <4>1. e \in Pairs(kv) /\ e.key = r /\ e.val = o /\ caches'[o] = caches[o]
        BY <1>3, <1>10, <1>11, <3>2 DEF WellFormed
      <4>2. caches[o] = Held(r)
        BY <2>1, <2>2, <3>1, <3>2, <4>1 DEF Sound, CacheRight
      <4> QED BY <1>3, <2>2, <4>1, <4>2 DEF Held
    <3>3. CASE r \notin Keys(kv)
      BY <1>10, <3>1, <3>3, NothingFed
    <3> QED BY <3>2, <3>3
  <2>7. \A f \in Pairs(kv') : f.key = r => f.val = o
    BY <1>11, <1>12
  <2>8. ASSUME NEW u \in Workers, Serves(u, r)' PROVE FlowRight(u, r)'
    <3>1. CASE u = t
      <4>1. FlowRight(t, r)' <=>
               /\ caches'[g.obj] = Fed(r, g.msg.step)'
               /\ \A f \in Pairs(kv') : f.key = r => f.val = g.obj
        BY <1>14, <1>15 DEF FlowRight
      <4> QED BY <1>14, <2>6, <2>7, <3>1, <4>1 DEF Fed
    <3>2. CASE u # t
      <4>1. Serves(u, r) /\ flow'[u] = flow[u]
        BY <1>15, <2>4, <2>8, <3>2
      <4>2. flow[u].at \notin {"creating", "executing"}
        BY <2>2, <3>2, <4>1
      <4> QED BY <2>1, <4>1, <4>2 DEF Sound, FlowsRight, FlowRight, Fed
    <3> QED BY <3>1, <3>2
  <2>9. FlowsRight(r)'
    BY <2>8 DEF FlowsRight
  <2>10. CacheRight(r)'
    <3>1. Held(r) = Fed(r, m.step)
      BY <1>3, <2>2 DEF Held
    <3>2. \A f \in Pairs(kv') : f.key = r => caches'[f.val] = Held(r)'
      BY <2>5, <2>6, <2>7, <3>1
    <3> QED BY <3>2 DEF CacheRight
  <2> QED BY <2>4, <2>9, <2>10 DEF Sound
<1> QED BY <1>3, <1>4, <1>17, <1>18, <1>19 DEF StageInv

LEMMA ExecuteKeeps ==
    ASSUME StageInv, NEW t \in use.threads, Execute(t), UNCHANGED use
    PROVE  StageInv'
<1>1. PICK m : m = flow[t].msg
  OBVIOUS
<1>2. PICK r : r = m.id
  OBVIOUS
<1>3. /\ WellFormed /\ StageTypes /\ t \in Workers /\ flow[t].at = "executing" /\ Busy(t)
      /\ flow[t] \in Flowing /\ m \in Copies /\ r \in RequestIds /\ m.step \in Nat
      /\ Answer(m) = [id |-> r, step |-> m.step]
  <2>1. StageTypes /\ t \in Workers /\ flow[t].at = "executing"
    BY SettingTypes DEF StageInv, WellFormed, Execute
  <2> QED BY <1>1, <1>2, <2>1, FlowTyped, CopyTyped DEF StageInv, Answer
<1>4. WellFormed'
  BY <1>3, ExecuteWellFormed
<1>5. UNCHANGED <<use, kv, answers, net, client, spoilt>>
  BY DEF Execute
<1>6. PICK o : o = flow[t].obj
  OBVIOUS
<1>7. o \in DOMAIN caches /\ caches \in Seq(Seq(Pieces))
  BY <1>3, <1>6 DEF WellFormed, StageTypes
<1>8. PICK c \in Seq(Pieces) : c = caches[o]
  BY <1>7
<1>9. PICK done : done = Append(c, Answer(m))
  OBVIOUS
<1>10. PICK place \in {"storing", "validating"} :
          place = IF Dedupe THEN "storing" ELSE "validating"
  OBVIOUS
<1>11. /\ caches' = [caches EXCEPT ![o] = done]
       /\ flow' = [flow EXCEPT ![t].at = place, ![t].before = Len(c),
                               ![t].after = Len(done), ![t].out = done]
  BY <1>1, <1>6, <1>8, <1>9, <1>10 DEF Execute
<1>12. caches'[o] = done /\ \A i \in DOMAIN caches : i # o => caches'[i] = caches[i]
  BY <1>7, <1>11
<1>13. PICK g \in Flowing :
          /\ flow' = [flow EXCEPT ![t] = g] /\ g.msg = m /\ g.at = place
          /\ g.out = done /\ g.before = Len(c) /\ g.after = Len(done)
  <2>1. PICK g : g = [flow[t] EXCEPT !.at = place, !.before = Len(c),
                                     !.after = Len(done), !.out = done]
    OBVIOUS
  <2>2. flow' = [flow EXCEPT ![t] = g]
    BY <1>11, <2>1
  <2>3. /\ g.msg = m /\ g.at = place /\ g.out = done
        /\ g.before = Len(c) /\ g.after = Len(done)
    BY <1>1, <1>3, <2>1 DEF Flowing
  <2>4. flow'[t] = g
    BY <1>3, <2>2 DEF StageTypes
  <2>5. flow'[t] \in {Idle} \cup Flowing
    <3>1. Copies' = Copies
      BY <1>5 DEF Copies
    <3> QED BY <1>3, <1>4, <3>1 DEF WellFormed, StageTypes, Flowing
  <2>6. g \in Flowing
    BY <1>10, <2>3, <2>4, <2>5 DEF Idle
  <2> QED BY <2>2, <2>3, <2>6
<1>14. flow'[t] = g /\ \A u \in Workers : u # t => flow'[u] = flow[u]
  BY <1>3, <1>5, <1>13, FlowMoves
<1>15. Owned'
  BY <1>5, <1>10, <1>13, <1>14, OwnedStays DEF StageInv
<1>16. \A q \in RequestIds : q # r /\ Undisturbed(q)' => Sound(q)'
  <2>1. flow[t].msg.id = r /\ flow'[t].msg.id = r
    BY <1>1, <1>2, <1>13, <1>14
  <2>2. \A q \in RequestIds : spoilt[q] \subseteq spoilt'[q]
    BY <1>5
  <2>3. \A i \in DOMAIN caches :
           caches'[i] = caches[i] \/ (flow[t].at = "executing" /\ flow[t].obj = i)
    BY <1>3, <1>6, <1>12
  <2> QED BY <1>3, <1>4, <1>5, <1>14, <2>1, <2>2, <2>3, Others
<1>17. ASSUME Undisturbed(r)' PROVE Sound(r)'
  <2>1. Sound(r) /\ Serves(t, r)
    BY <1>1, <1>2, <1>3, <1>5, <1>17, StaysDisturbed DEF StageInv, Serves
  <2>2. /\ m.step = client[r].step /\ ~Ran(r)
        /\ \A u \in Workers : /\ Serves(u, r)
                              /\ flow[u].at \in {"checking", "creating", "executing"}
                              => u = t
    BY <1>1, <1>3, <2>1, Current
  <2>3. /\ c = Fed(r, m.step) /\ done = Fed(r, m.step + 1)
        /\ Len(done) = Len(c) + 1
        /\ \A e \in Pairs(kv) : e.key = r => e.val = o
    <3>1. c = Fed(r, m.step) /\ \A e \in Pairs(kv) : e.key = r => e.val = o
      BY <1>1, <1>3, <1>6, <1>8, <2>1 DEF Sound, FlowsRight, FlowRight
    <3>2. /\ Append(Fed(r, m.step), [id |-> r, step |-> m.step]) = Fed(r, m.step + 1)
          /\ Len(Fed(r, m.step)) = m.step
      BY <1>3, FedOnce
    <3>3. Len(Fed(r, m.step + 1)) = m.step + 1
      <4>1. PICK n \in Nat : n = m.step + 1
        BY <1>3
      <4> QED BY <1>3, <4>1, FedOnce
    <3> QED BY <1>3, <1>9, <3>1, <3>2, <3>3
  <2>4. use.copies # 1 => g.at = "storing"
    BY <1>5, <1>10, <1>13, <1>17 DEF Undisturbed
  <2>5. /\ Ordered(r)' /\ Once(r)' /\ Apart(r)' /\ Remembered(r)' /\ GotRight(r)'
        /\ \A u \in Workers : Serves(u, r)' <=> Serves(u, r)
    BY <1>1, <1>3, <1>5, <1>10, <1>13, <2>1, <2>3, <2>4, MoveSound
  <2>6. Ran(r)' /\ Held(r)' = Fed(r, m.step + 1)
    <3>1. Ran(r)'
      BY <1>3, <1>5, <1>10, <1>13, <1>14, <2>1, <2>2, <2>5 DEF Ran
    <3> QED BY <1>5, <2>2, <3>1 DEF Held, Fed
  <2>7. ASSUME NEW u \in Workers, Serves(u, r)' PROVE FlowRight(u, r)'
    <3>1. CASE u = t
      BY <1>10, <1>13, <1>14, <2>3, <3>1 DEF FlowRight, Fed
    <3>2. CASE u # t
      <4>1. Serves(u, r) /\ flow'[u] = flow[u]
        BY <1>14, <2>5, <2>7, <3>2
      <4>2. flow[u].at \notin {"creating", "executing"}
        BY <2>2, <3>2, <4>1
      <4> QED BY <2>1, <4>1, <4>2 DEF Sound, FlowsRight, FlowRight, Fed
    <3> QED BY <3>1, <3>2
  <2>8. FlowsRight(r)'
    BY <2>7 DEF FlowsRight
  <2>9. CacheRight(r)'
    <3>1. \A e \in Pairs(kv') : e.key = r => caches'[e.val] = Held(r)'
      BY <1>5, <1>12, <2>3, <2>6
    <3> QED BY <3>1 DEF CacheRight
  <2> QED BY <2>5, <2>8, <2>9 DEF Sound
<1> QED BY <1>3, <1>4, <1>15, <1>16, <1>17 DEF StageInv

LEMMA SendKeeps ==
    ASSUME StageInv, NEW r \in use.clients, Send(r), UNCHANGED use
    PROVE  StageInv'
<1>1. /\ WellFormed /\ StageTypes /\ r \in RequestIds /\ client[r] \in ClientStates
      /\ client[r].is \in {"ready", "waiting"} /\ client[r].copy < use.copies
      /\ client[r].step \in Nat /\ client[r].copy \in Nat /\ use.copies \in Nat
  <2>1. StageTypes
    BY DEF StageInv, WellFormed
  <2> QED BY <2>1, SettingTypes, ClientTyped DEF StageInv, Send
<1>2. WellFormed'
  BY <1>1, SendWellFormed
<1>3. UNCHANGED <<use, kv, caches, answers, flow, spoilt>>
  BY DEF Send
<1>4. PICK n : n = Copy(r)
  OBVIOUS
<1>5. net' = net \cup {n} /\ n.id = r /\ n.step = client[r].step
  BY <1>4 DEF Send, Copy
<1>6. /\ \A q \in RequestIds : q # r => client'[q] = client[q]
      /\ client'[r].is = "waiting" /\ client'[r].copy = client[r].copy + 1
      /\ client'[r].step = client[r].step /\ client'[r].got = client[r].got
  <2>1. client' = [client EXCEPT ![r].is = "waiting", ![r].copy = client[r].copy + 1]
    BY DEF Send
  <2>2. client \in [RequestIds -> ClientStates]
    BY <1>1 DEF StageTypes
  <2>3. client'[r] = [client[r] EXCEPT !.is = "waiting", !.copy = client[r].copy + 1]
    BY <1>1, <2>1, <2>2
  <2>4. \A q \in RequestIds : q # r => client'[q] = client[q]
    BY <1>1, <2>1, <2>2
  <2> QED BY <1>1, <2>3, <2>4 DEF ClientStates
<1>7. \A q : \A t \in Workers : Serves(t, q)' <=> Serves(t, q)
  BY <1>3 DEF Serves, Busy
<1>8. Owned'
  <2>1. Pairs(kv') \subseteq Pairs(kv) /\ \A t \in Workers : flow'[t] = flow[t]
    BY <1>3
  <2> QED BY <2>1, OwnedStays DEF StageInv
<1>9. ASSUME NEW q \in RequestIds, q # r, Undisturbed(q)' PROVE Sound(q)'
  <2>1. Sound(q)
    BY <1>3, <1>9, StaysDisturbed DEF StageInv
  <2>2. /\ client'[q] = client[q]
        /\ \A t \in Workers : Serves(t, q)' <=> Serves(t, q)
        /\ \A t \in Workers : Serves(t, q) => flow'[t] = flow[t]
        /\ \A m : m.id = q => (m \in net' <=> m \in net)
    BY <1>3, <1>5, <1>6, <1>7, <1>9
  <2>3. /\ answers' = answers /\ kv' = kv /\ caches' = caches
        /\ q \in Keys(kv') \/ q \notin Keys(kv)
    BY <1>3
  <2> QED BY <1>1, <1>2, <1>3, <2>1, <2>2, <2>3, Elsewhere
<1>10. ASSUME Undisturbed(r)' PROVE Sound(r)'
  <2>1. Sound(r)
    BY <1>1, <1>3, <1>10, StaysDisturbed DEF StageInv
  <2>2. Copies' = Copies /\ StepOf(r)' = StepOf(r)
    BY <1>3, <1>6 DEF Copies, StepOf
  <2>3. \A m \in Copies : Underway(m)' => m = n \/ Underway(m)
    BY <1>3, <1>5 DEF Underway, Busy
  <2>4. Ordered(r)'
    <3>1. ASSUME NEW m \in Copies, m.id = r, Underway(m)' PROVE m.step <= client[r].step
      <4>1. CASE m = n
        BY <1>1, <1>5, <4>1
      <4>2. CASE m # n
        BY <2>1, <2>3, <3>1, <4>2 DEF Sound, Ordered
      <4> QED BY <4>1, <4>2
    <3> QED BY <1>3, <1>6, <2>1, <2>2, <3>1 DEF Sound, Ordered, Fed
  <2>5. Once(r)'
    <3> SUFFICES ASSUME use.copies = 1 PROVE Once(r)'
      BY <1>3 DEF Once
    <3>1. client[r].copy = 0 /\ client[r].is # "waiting"
      BY <1>1, <2>1 DEF Sound, Once
    <3>2. \A m \in Copies : m.id = r => ~Underway(m)
      BY <2>1, <3>1 DEF Sound, Once
    <3>3. \A t \in Workers : ~Serves(t, r)
      <4>1. ASSUME NEW t \in Workers, Serves(t, r) PROVE FALSE
        <5>1. flow[t].msg \in Copies /\ Underway(flow[t].msg) /\ flow[t].msg.id = r
          BY <1>1, <4>1, FlowTyped DEF Serves, Underway
        <5> QED BY <3>2, <5>1
      <4> QED BY <4>1
    <3>4. \A m \in net : m.id # r
      BY <1>1, <3>2 DEF Underway, StageTypes
    <3>5. StepOf(r) \notin Keys(answers)
      BY <2>1, <3>3 DEF Sound, Once
    <3>6. \A m \in Copies : m.id = r /\ Underway(m)' => m.step = client[r].step
      BY <1>5, <2>3, <3>2
    <3>7. \A m \in net' : m.id = r => m = n
      BY <1>5, <3>4
    <3> QED BY <1>1, <1>3, <1>6, <1>7, <2>2, <3>1, <3>3, <3>5, <3>6, <3>7 DEF Once
  <2>6. Apart(r)'
    BY <1>3, <1>7, <2>1 DEF Sound, Apart
  <2>7. Remembered(r)'
    BY <1>3, <1>6, <1>7, <2>1 DEF Sound, Remembered, Answer
  <2>8. FlowsRight(r)'
    BY <1>3, <1>7, <2>1 DEF Sound, FlowsRight, FlowRight, Fed
  <2>9. CacheRight(r)'
    <3>1. (Ran(r)' <=> Ran(r)) /\ Held(r)' = Held(r)
      <4>1. Ran(r)' <=> Ran(r)
        BY <1>3, <1>6, <1>7, <2>2 DEF Ran
      <4> QED BY <1>6, <4>1 DEF Held, Fed
    <3> QED BY <1>3, <1>6, <2>1, <3>1 DEF Sound, CacheRight
  <2>10. GotRight(r)'
    BY <1>6, <2>1 DEF Sound, GotRight, Fed
  <2> QED BY <2>4, <2>5, <2>6, <2>7, <2>8, <2>9, <2>10 DEF Sound
<1> QED BY <1>2, <1>8, <1>9, <1>10 DEF StageInv

LEMMA ReceiveKeeps ==
    ASSUME StageInv, NEW t \in use.threads, NEW m \in net, Receive(t, m), UNCHANGED use
    PROVE  StageInv'
<1>1. PICK r : r = m.id
  OBVIOUS
<1>2. /\ WellFormed /\ StageTypes /\ t \in Workers /\ flow[t] = Idle /\ ~Busy(t)
      /\ m \in Copies /\ r \in RequestIds
  <2>1. StageTypes /\ t \in Workers /\ flow[t] = Idle
    BY SettingTypes DEF StageInv, WellFormed, Receive
  <2>2. m \in Copies
    BY <2>1 DEF StageTypes
  <2> QED BY <1>1, <2>1, <2>2, CopyTyped DEF StageInv, Busy
<1>3. WellFormed'
  BY <1>2, EarlyWellFormed
<1>4. UNCHANGED <<use, kv, caches, answers, client>> /\ net' = net \ {m}
  BY DEF Receive
<1>5. PICK g : g = [at |-> IF Dedupe THEN "asking" ELSE "checking",
                    msg |-> m, obj |-> 0, before |-> 0, after |-> 0, out |-> <<>>]
  OBVIOUS
<1>6. /\ flow'[t] = g /\ g.msg = m /\ g.at \in {"asking", "checking"}
      /\ Dedupe => g.at = "asking"
      /\ \A u \in Workers : u # t => flow'[u] = flow[u]
  <2>1. flow' = [flow EXCEPT ![t] = g]
    BY <1>5 DEF Receive
  <2> QED BY <1>2, <1>5, <2>1 DEF StageTypes
<1>7. Busy(t)' /\ \A q : \A u \in Workers : Serves(u, q)' <=> Serves(u, q) \/ (u = t /\ q = r)
  <2>1. Busy(t)'
    <3>1. flow'[t].at # "idle"
      BY <1>6
    <3> QED BY <3>1 DEF Busy, Idle
  <2> QED BY <1>1, <1>2, <1>6, <2>1 DEF Serves, Busy
<1>8. /\ \A q \in RequestIds : spoilt[q] \subseteq spoilt'[q]
      /\ Overlaps(m) => "overlapped" \in spoilt'[r]
  <2>1. PICK rs : rs = IF Overlaps(m) THEN {m.id} ELSE {}
    OBVIOUS
  <2>2. PICK what \in Spoilings : what = "overlapped"
    BY DEF Spoilings
  <2>3. Spoil(rs, what)
    BY <2>1, <2>2 DEF Receive
  <2>4. /\ \A q \in RequestIds : spoilt[q] \subseteq spoilt'[q]
        /\ \A q \in RequestIds \cap rs : what \in spoilt'[q]
    BY <1>2, <2>3, Spoils
  <2> QED BY <1>1, <1>2, <2>1, <2>2, <2>4
<1>9. Owned'
  <2>1. \A u \in Workers : flow'[u].at = "executing" => flow'[u] = flow[u]
    BY <1>6
  <2> QED BY <1>4, <2>1, OwnedStays DEF StageInv
<1>10. \A q \in RequestIds : q # r /\ Undisturbed(q)' => Sound(q)'
  <2>1. ~Busy(t) /\ flow'[t].msg.id = r
    BY <1>1, <1>2, <1>6
  <2>2. \A n : n.id # r => (n \in net' <=> n \in net)
    BY <1>1, <1>4
  <2> QED BY <1>3, <1>4, <1>6, <1>8, <2>1, <2>2, Others
<1>11. ASSUME Undisturbed(r)' PROVE Sound(r)'
  <2>1. Sound(r) /\ ~Overlaps(m) /\ (use.copies # 1 => g.at = "asking")
    <3>1. Sound(r)
      BY <1>2, <1>4, <1>8, <1>11, StaysDisturbed DEF StageInv
    <3> QED BY <1>4, <1>6, <1>8, <1>11, <3>1 DEF Undisturbed
  <2>2. Copies' = Copies /\ StepOf(r)' = StepOf(r)
    BY <1>4 DEF Copies, StepOf
  <2>3. \A n \in Copies : Underway(n)' => Underway(n)
    <3>1. Underway(m)
      BY DEF Underway
    <3>2. ASSUME NEW n \in Copies, Underway(n)', n # m PROVE Underway(n)
      <4>1. CASE n \in net'
        BY <1>4, <4>1 DEF Underway
      <4>2. CASE \E u \in Workers : Busy(u)' /\ flow'[u].msg = n
        <5>1. PICK u \in Workers : Busy(u)' /\ flow'[u].msg = n
          BY <4>2
        <5>2. u # t /\ flow'[u] = flow[u]
          BY <1>6, <3>2, <5>1
        <5> QED BY <5>1, <5>2 DEF Underway, Busy
      <4> QED BY <3>2, <4>1, <4>2 DEF Underway
    <3> QED BY <3>1, <3>2
  <2>4. Ordered(r)'
    BY <1>4, <2>1, <2>2, <2>3 DEF Sound, Ordered, Fed
  <2>5. Once(r)'
    <3> SUFFICES ASSUME use.copies = 1 PROVE Once(r)'
      BY <1>4 DEF Once
    <3>1. (\A n \in net : n.id = r => n = m) /\ \A u \in Workers : ~Serves(u, r)
      BY <1>1, <2>1 DEF Sound, Once
    <3>2. \A n \in net' : n.id # r
      BY <1>4, <3>1
    <3>3. \A u \in Workers : Serves(u, r)' => u = t
      BY <1>7, <3>1
    <3>4. StepOf(r) \notin Keys(answers)
      BY <2>1, <3>1 DEF Sound, Once
    <3>5. \A u \in Workers : Serves(u, r)' =>
              /\ \A v \in Workers : Serves(v, r)' => v = u
              /\ flow'[u].at # "hit"
              /\ flow'[u].at \notin {"storing", "validating"}
      BY <1>6, <3>3
    <3> QED BY <1>4, <2>1, <2>2, <2>3, <3>2, <3>4, <3>5 DEF Sound, Once
  <2>6. Apart(r)'
    <3>1. ASSUME NEW u \in Workers, NEW v \in Workers, Serves(u, r)', Serves(v, r)',
                 flow'[u].msg.step = flow'[v].msg.step, u # v
          PROVE  FALSE
      <4>1. CASE u # t /\ v # t
        BY <1>6, <1>7, <2>1, <3>1, <4>1 DEF Sound, Apart
      <4>2. CASE u = t
        <5>1. Serves(v, r) /\ flow[v].msg.step = m.step
          BY <1>6, <1>7, <3>1, <4>2
        <5> QED BY <1>1, <2>1, <5>1 DEF Overlaps, Serves, Busy, Answer
      <4>3. CASE v = t
        <5>1. Serves(u, r) /\ flow[u].msg.step = m.step
          BY <1>6, <1>7, <3>1, <4>3
        <5> QED BY <1>1, <2>1, <5>1 DEF Overlaps, Serves, Busy, Answer
      <4> QED BY <4>1, <4>2, <4>3
    <3> QED BY <3>1 DEF Apart
  <2>7. Remembered(r)'
    <3> SUFFICES ASSUME use.copies # 1 PROVE Remembered(r)'
      BY <1>4 DEF Remembered
    <3>1. ASSUME NEW u \in Workers, Serves(u, r)'
          PROVE  /\ flow'[u].at \in {"checking", "creating", "executing"} =>
                       Answer(flow'[u].msg) \notin Keys(answers)
                 /\ flow'[u].at \in {"hit", "validating"} => Answer(flow'[u].msg) \in Keys(answers)
      <4>1. CASE u = t
        BY <1>6, <2>1, <4>1
      <4>2. CASE u # t
        BY <1>6, <1>7, <2>1, <3>1, <4>2 DEF Sound, Remembered
      <4> QED BY <4>1, <4>2
    <3> QED BY <1>4, <2>1, <3>1 DEF Sound, Remembered, Answer
  <2>8. FlowsRight(r)'
    <3>1. ASSUME NEW u \in Workers, Serves(u, r)' PROVE FlowRight(u, r)'
      <4>1. CASE u = t
        BY <1>6, <4>1 DEF FlowRight
      <4>2. CASE u # t
        BY <1>4, <1>6, <1>7, <2>1, <3>1, <4>2 DEF Sound, FlowsRight, FlowRight, Fed
      <4> QED BY <4>1, <4>2
    <3> QED BY <3>1 DEF FlowsRight
  <2>9. CacheRight(r)'
    <3>1. (Ran(r)' <=> Ran(r)) /\ Held(r)' = Held(r)
      <4>1. \A u \in Workers :
               /\ Serves(u, r)' /\ flow'[u].at \in {"storing", "validating"}
                     <=> Serves(u, r) /\ flow[u].at \in {"storing", "validating"}
               /\ Serves(u, r) => flow'[u] = flow[u]
        BY <1>2, <1>6, <1>7 DEF Serves
      <4>2. Ran(r)' <=> Ran(r)
        BY <1>4, <2>2, <4>1 DEF Ran
      <4> QED BY <1>4, <4>2 DEF Held, Fed
    <3> QED BY <1>4, <2>1, <3>1 DEF Sound, CacheRight
  <2>10. GotRight(r)'
    BY <1>4, <2>1 DEF Sound, GotRight, Fed
  <2> QED BY <2>4, <2>5, <2>6, <2>7, <2>8, <2>9, <2>10 DEF Sound
<1> QED BY <1>2, <1>3, <1>9, <1>10, <1>11 DEF StageInv

(* A flow ends with an answer: a refusal, a throw, which may have left a   *)
(* torn step in its cache object, or the activation.                       *)
LEMMA AnsweredKeeps ==
    ASSUME StageInv, WellFormed', NEW t \in use.threads, NEW ok \in BOOLEAN, AnswerWith(t, ok),
           flow[t].at \in {"checking", "executing", "validating"},
           ok => flow[t].at = "validating",
           use.copies = 1 /\ flow[t].at = "validating" /\ flow[t].after = flow[t].before + 1 => ok,
           UNCHANGED <<use, kv, answers, net>>,
           \A q \in RequestIds : spoilt[q] \subseteq spoilt'[q],
           \A i \in DOMAIN caches :
               caches'[i] = caches[i] \/ (flow[t].at = "executing" /\ flow[t].obj = i),
           \/ UNCHANGED caches
           \/ /\ flow[t].at = "executing"
              /\ flow[t].msg.step > 0 => "torn" \in spoilt'[flow[t].msg.id]
              /\ Len(caches'[flow[t].obj]) = Len(caches[flow[t].obj]) + 1
    PROVE  StageInv'
<1>1. PICK m : m = flow[t].msg
  OBVIOUS
<1>2. PICK r : r = m.id
  OBVIOUS
<1>3. /\ WellFormed /\ StageTypes /\ t \in Workers /\ Busy(t) /\ flow[t] \in Flowing
      /\ m \in Copies /\ r \in RequestIds /\ m.step \in Nat
  <2>1. StageTypes /\ t \in Workers
    BY SettingTypes DEF StageInv, WellFormed
  <2>2. Busy(t) /\ flow[t] \in Flowing /\ m \in Copies
    BY <1>1, <2>1, FlowTyped
  <2> QED BY <1>2, <2>1, <2>2, CopyTyped DEF StageInv
<1>4. PICK c \in ClientStates : c = client[r]
  BY <1>3, ClientTyped
<1>5. /\ c.is \in {"ready", "waiting", "finished", "failed"} /\ c.step \in Nat /\ c.copy \in Nat
      /\ c.got \in Seq(Seq(Pieces)) /\ Len(c.got) = c.step
  <2>1. Len(client[r].got) = client[r].step
    BY <1>3 DEF WellFormed
  <2> QED BY <1>4, <2>1 DEF ClientStates
<1>6. PICK hears \in BOOLEAN : hears = (c.is = "waiting" /\ c.step = m.step /\ c.copy = m.copy)
  OBVIOUS
<1>7. /\ flow' = [flow EXCEPT ![t] = Idle]
      /\ client' = IF hears THEN [client EXCEPT ![r] = Heard(c, ok, flow[t].out)] ELSE client
  BY <1>1, <1>2, <1>4, <1>6 DEF AnswerWith
<1>8. /\ flow'[t] = Idle /\ flow'[t].at = "idle"
      /\ \A u \in Workers : u # t => flow'[u] = flow[u]
  BY <1>3, <1>7 DEF StageTypes, Idle
<1>9. \A q : \A u \in Workers : Serves(u, q)' <=> Serves(u, q) /\ u # t
  BY <1>8 DEF Serves, Busy
<1>10. \A q \in RequestIds : q # r => client'[q] = client[q]
  BY <1>3, <1>7 DEF StageTypes
<1>11. PICK advances \in BOOLEAN : advances = (hears /\ ok)
  OBVIOUS
<1>12. /\ advances => /\ client'[r].is \in {"ready", "finished"} /\ client'[r].copy = 0
                      /\ client'[r].step = c.step + 1
                      /\ client'[r].got = Append(c.got, flow[t].out)
       /\ ~advances => /\ client'[r].is = IF hears THEN "failed" ELSE c.is
                       /\ client'[r].copy = c.copy
                       /\ client'[r].step = c.step /\ client'[r].got = c.got
  <2>1. CASE advances
    <3>1. client'[r] = Heard(c, TRUE, flow[t].out)
      BY <1>3, <1>7, <1>11, <2>1 DEF StageTypes
    <3> QED BY <2>1, <3>1 DEF Heard
  <2>2. CASE ~advances /\ hears
    <3>1. client'[r] = [c EXCEPT !.is = "failed"]
      BY <1>3, <1>7, <1>11, <2>2 DEF StageTypes, Heard
    <3> QED BY <1>4, <2>2, <3>1 DEF ClientStates
  <2>3. CASE ~hears
    <3>1. client'[r] = c
      BY <1>4, <1>7, <2>3
    <3> QED BY <1>11, <2>3, <3>1
  <2> QED BY <2>1, <2>2, <2>3
<1>13. Owned'
  <2>1. \A u \in Workers : flow'[u].at = "executing" => flow'[u] = flow[u]
    BY <1>8
  <2> QED BY <2>1, OwnedStays DEF StageInv
<1>14. \A q \in RequestIds : q # r /\ Undisturbed(q)' => Sound(q)'
  <2>1. flow[t].msg.id = r /\ ~Busy(t)'
    BY <1>1, <1>2, <1>8 DEF Busy
  <2>2. \A i \in DOMAIN caches :
           caches'[i] = caches[i] \/ (flow[t].at = "executing" /\ flow[t].obj = i)
    OBVIOUS
  <2>3. UNCHANGED <<kv, answers, net>> /\ \A q \in RequestIds : spoilt[q] \subseteq spoilt'[q]
    OBVIOUS
  <2>4. /\ \A e \in Pairs(answers') : e.key.id # r => e \in Pairs(answers)
        /\ \A e \in Pairs(kv') : e.key # r => e \in Pairs(kv)
        /\ \A n : n.id # r => (n \in net' <=> n \in net)
    BY <2>3
  <2>5. \A k \in StepIds : k.id # r /\ k \in Keys(answers) =>
           k \in Keys(answers') \/ "forgotten" \in spoilt'[k.id]
    BY <2>3
  <2>6. \A q \in RequestIds : q # r /\ q \in Keys(kv) =>
           q \in Keys(kv') \/ "raced" \in spoilt'[q] \/ ~Checked(q)
    BY <2>3
  <2> QED BY <1>3, <1>8, <1>10, <2>1, <2>2, <2>3, <2>4, <2>5, <2>6, Others, SMTT(60)
<1>15. ASSUME Undisturbed(r)' PROVE Sound(r)'
  <2>1. Sound(r) /\ Serves(t, r)
    BY <1>1, <1>2, <1>3, <1>15, StaysDisturbed DEF StageInv, Serves
  <2>2. Underway(m) /\ m.step <= c.step
    <3>1. Underway(m)
      BY <1>1, <1>3 DEF Underway
    <3> QED BY <1>2, <1>3, <1>4, <2>1, <3>1 DEF Sound, Ordered
  <2>3. Copies' = Copies
    BY DEF Copies
  <2>4. ASSUME NEW n \in Copies, n.id = r, Underway(n)' PROVE Underway(n)
    <3>1. CASE n \in net
      BY <3>1 DEF Underway
    <3>2. CASE \E u \in Workers : Busy(u)' /\ flow'[u].msg = n
      <4>1. PICK u \in Workers : Busy(u)' /\ flow'[u].msg = n
        BY <3>2
      <4>2. Serves(u, r)'
        BY <2>4, <4>1 DEF Serves
      <4>3. u # t /\ Serves(u, r) /\ flow[u].msg = n
        BY <1>8, <1>9, <4>1, <4>2
      <4> QED BY <4>3 DEF Underway, Serves
    <3> QED BY <2>4, <3>1, <3>2 DEF Underway
  <2>5. ASSUME flow[t].at = "validating"
        PROVE  /\ flow[t].out = Fed(r, m.step + 1)
               /\ use.copies # 1 => Answer(m) \in Keys(answers)
    BY <1>1, <1>3, <2>1, <2>5 DEF Sound, FlowsRight, FlowRight, Remembered
  <2>6. advances => /\ flow[t].at = "validating" /\ c.step = m.step
                    /\ flow[t].out = Fed(r, c.step + 1)
    BY <1>6, <1>11, <2>5
  <2>7. StepOf(r) \in Keys(answers) /\ ~advances => use.copies # 1
    <3>1. ASSUME StepOf(r) \in Keys(answers), use.copies = 1 PROVE advances
      <4>1. PICK u \in Workers : Serves(u, r) /\ flow[u].at = "validating"
        BY <2>1, <3>1 DEF Sound, Once
      <4>2. u = t /\ flow[t].after = flow[t].before + 1
        BY <1>3, <2>1, <3>1, <4>1 DEF Sound, Once
      <4>3. ok
        BY <3>1, <4>1, <4>2
      <4>4. c.is = "waiting" /\ m.step = c.step /\ c.copy = 1
        BY <1>2, <1>3, <1>4, <2>1, <2>2, <3>1 DEF Sound, Once
      <4>5. m.copy = 1
        <5>1. m.copy \in 1 .. 1
          BY <1>3, <3>1 DEF Copies
        <5> QED BY <5>1
      <4>6. hears
        BY <1>6, <4>4, <4>5
      <4> QED BY <1>11, <4>3, <4>6
    <3> QED BY <3>1
  <2>8. \A s : [id |-> r, step |-> s] \in Keys(answers) => s <= c.step
    <3>1. ASSUME NEW s, [id |-> r, step |-> s] \in Keys(answers) PROVE s <= c.step
      <4>1. PICK e \in Pairs(answers) : e.key = [id |-> r, step |-> s]
        BY <3>1, KeysOfPairs
      <4> QED BY <1>4, <2>1, <4>1 DEF Sound, Ordered
    <3> QED BY <3>1
  <2>9. StepOf(r)' = [id |-> r, step |-> client'[r].step] /\ StepOf(r) = [id |-> r, step |-> c.step]
    BY <1>4 DEF StepOf
  <2>10. advances => StepOf(r)' \notin Keys(answers)
    BY <1>5, <1>12, <2>8, <2>9
  <2>11. Ordered(r)'
    <3>1. client'[r].step \in Nat /\ c.step <= client'[r].step
      BY <1>5, <1>12
    <3>2. ASSUME NEW n \in Copies, n.id = r, Underway(n)' PROVE n.step <= client'[r].step
      <4>1. n.step <= c.step /\ n.step \in Nat
        BY <1>3, <1>4, <2>1, <2>4, <3>2, CopyTyped DEF Sound, Ordered
      <4> QED BY <1>5, <3>1, <4>1
    <3>3. ASSUME NEW e \in Pairs(answers), e.key.id = r
          PROVE  e.key.step <= client'[r].step /\ e.val = Fed(r, e.key.step + 1)
      <4>1. e.key.step <= c.step /\ e.val = Fed(r, e.key.step + 1)
        BY <1>4, <2>1, <3>3 DEF Sound, Ordered
      <4>2. e.key.step \in Nat
        <5>1. answers \in Seq(AnswerEntries)
          BY <1>3 DEF StageTypes
        <5>2. e \in AnswerEntries
          BY <5>1, PairsTyped
        <5> QED BY <5>2 DEF AnswerEntries, StepIds
      <4> QED BY <1>5, <3>1, <4>1, <4>2
    <3> QED BY <2>3, <3>2, <3>3 DEF Ordered, Fed
  <2>12. Once(r)'
    <3> SUFFICES ASSUME use.copies = 1 PROVE Once(r)'
      BY DEF Once
    <3>1. c.is = "waiting" /\ m.step = c.step /\ c.copy = 1
      BY <1>2, <1>3, <1>4, <2>1, <2>2 DEF Sound, Once
    <3>2. m.copy = 1
      <4>1. m.copy \in 1 .. 1
        BY <1>3 DEF Copies
      <4> QED BY <4>1
    <3>3. hears
      BY <1>6, <3>1, <3>2
    <3>4. client'[r].is # "waiting" /\ (client'[r].is = "ready" => client'[r].copy = 0)
      BY <1>12, <3>3
    <3>5. \A u \in Workers : Serves(u, r) => u = t
      BY <1>3, <2>1 DEF Sound, Once
    <3>6. \A u \in Workers : ~Serves(u, r)'
      BY <1>9, <3>5
    <3>7. \A n \in net : n.id # r
      BY <1>3, <2>1 DEF Sound, Once
    <3>8. ASSUME NEW n \in Copies, n.id = r, Underway(n)' PROVE FALSE
      <4>1. PICK u \in Workers : Busy(u)' /\ flow'[u].msg = n
        BY <3>7, <3>8 DEF Underway
      <4>2. Serves(u, r)'
        BY <3>8, <4>1 DEF Serves
      <4> QED BY <3>6, <4>2
    <3>9. StepOf(r)' \notin Keys(answers)
      <4>1. CASE advances
        BY <2>10, <4>1
      <4>2. CASE ~advances
        BY <1>12, <2>7, <2>9, <4>2
      <4> QED BY <4>1, <4>2
    <3> QED BY <2>3, <3>4, <3>6, <3>7, <3>8, <3>9 DEF Once
  <2>13. Apart(r)'
    BY <1>8, <1>9, <2>1 DEF Sound, Apart
  <2>14. Remembered(r)'
    <3> SUFFICES ASSUME use.copies # 1 PROVE Remembered(r)'
      BY DEF Remembered
    <3>1. ASSUME NEW s \in Nat, s < client'[r].step
          PROVE  [id |-> r, step |-> s] \in Keys(answers)
      <4>1. CASE s < c.step
        BY <1>4, <2>1, <4>1 DEF Sound, Remembered
      <4>2. CASE ~(s < c.step)
        <5>1. advances /\ s = c.step
          BY <1>5, <1>12, <3>1, <4>2
        <5> QED BY <1>2, <2>5, <2>6, <5>1 DEF Answer
      <4> QED BY <4>1, <4>2
    <3>2. ASSUME NEW u \in Workers, Serves(u, r)'
          PROVE  /\ flow'[u].at \in {"checking", "creating", "executing"} =>
                       Answer(flow'[u].msg) \notin Keys(answers)
                 /\ flow'[u].at \in {"hit", "validating"} => Answer(flow'[u].msg) \in Keys(answers)
      BY <1>8, <1>9, <2>1, <3>2 DEF Sound, Remembered
    <3> QED BY <3>1, <3>2 DEF Remembered, Answer
  <2>15. flow[t].at \in {"checking", "executing"} =>
            /\ m.step = c.step /\ ~Ran(r)
            /\ \A u \in Workers : /\ Serves(u, r)
                                  /\ flow[u].at \in {"checking", "creating", "executing"}
                                  => u = t
    BY <1>1, <1>3, <1>4, <2>1, Current
  <2>16. FlowsRight(r)'
    <3>1. ASSUME NEW u \in Workers, Serves(u, r)' PROVE FlowRight(u, r)'
      <4>1. Serves(u, r) /\ flow'[u] = flow[u] /\ u # t
        BY <1>8, <1>9, <3>1
      <4>2. flow[u].at = "executing" => caches'[flow[u].obj] = caches[flow[u].obj]
        BY <1>3, <2>15, <4>1 DEF WellFormed
      <4> QED BY <2>1, <4>1, <4>2 DEF Sound, FlowsRight, FlowRight, Fed
    <3> QED BY <3>1 DEF FlowsRight
  <2>17. CASE advances
    <3>1. Ran(r)
      BY <1>1, <1>3, <1>4, <2>1, <2>6, <2>17 DEF Ran
    <3>2. ~Ran(r)'
      <4>1. ASSUME NEW u \in Workers, Serves(u, r)', flow'[u].msg.step = client'[r].step
            PROVE  FALSE
        <5>1. Serves(u, r) /\ flow'[u] = flow[u]
          BY <1>8, <1>9, <4>1
        <5>2. flow[u].msg \in Copies /\ Underway(flow[u].msg) /\ flow[u].msg.id = r
          BY <1>3, <5>1, FlowTyped DEF Serves, Underway
        <5>3. flow[u].msg.step <= c.step
          BY <1>4, <2>1, <5>2 DEF Sound, Ordered
        <5> QED BY <1>5, <1>12, <2>17, <4>1, <5>1, <5>3
      <4> QED BY <2>10, <2>17, <4>1 DEF Ran
    <3>3. Held(r)' = Held(r)
      BY <1>4, <1>5, <1>12, <2>17, <3>1, <3>2 DEF Held, Fed
    <3>4. UNCHANGED caches
      BY <2>6, <2>17
    <3>5. CacheRight(r)'
      BY <2>1, <3>1, <3>3, <3>4 DEF Sound, CacheRight
    <3>6. GotRight(r)'
      <4>1. PICK n \in Nat : n = c.step
        BY <1>5
      <4>2. PICK old : old = c.got
        OBVIOUS
      <4>3. PICK last \in Seq(Pieces) : last = Fed(r, n + 1)
        <5>1. PICK k \in Nat : k = n + 1
          OBVIOUS
        <5>2. Fed(r, k) \in Seq(Pieces)
          BY <1>3, <5>1, FedOnce
        <5> QED BY <5>1, <5>2
      <4>4. old = [i \in 1 .. n |-> Fed(r, i)]
        BY <1>4, <2>1, <4>1, <4>2 DEF Sound, GotRight
      <4>5. client'[r].step = n + 1 /\ client'[r].got = Append(old, last)
        BY <1>12, <2>6, <2>17, <4>1, <4>2, <4>3
      <4>6. PICK new : new = [i \in 1 .. n + 1 |-> Fed(r, i)]
        OBVIOUS
      <4>7. Append(old, last) = new
        <5>1. PICK a : a = Append(old, last)
          OBVIOUS
        <5>2. \A i \in 1 .. n : old[i] = Fed(r, i)
          BY <4>4
        <5>3. PICK S : S = Seq(Pieces)
          OBVIOUS
        <5>4. old \in Seq(S) /\ Len(old) = n /\ last \in S
          BY <1>5, <4>1, <4>2, <5>3
        <5>5. a \in Seq(S) /\ Len(a) = n + 1 /\ a[n + 1] = last /\ \A i \in 1 .. n : a[i] = old[i]
          BY <5>1, <5>4
        <5>6. new \in Seq(S) /\ Len(new) = n + 1
          <6>1. \A i \in 1 .. n + 1 : Fed(r, i) \in S
            <7>1. ASSUME NEW i \in 1 .. n + 1 PROVE Fed(r, i) \in S
              <8>1. i \in Nat
                OBVIOUS
              <8> QED BY <1>3, <5>3, <8>1, FedOnce
            <7> QED BY <7>1
          <6> QED BY <4>6, <6>1
        <5>7. \A i \in 1 .. n + 1 : a[i] = new[i]
          BY <4>3, <4>6, <5>2, <5>5
        <5> QED BY <5>1, <5>5, <5>6, <5>7
      <4> QED BY <4>5, <4>6, <4>7 DEF GotRight, Fed
    <3> QED BY <2>11, <2>12, <2>13, <2>14, <2>16, <3>5, <3>6 DEF Sound
  <2>18. CASE ~advances
    <3>1. /\ client'[r].step = c.step /\ client'[r].got = c.got
          /\ StepOf(r)' = StepOf(r)
      BY <1>12, <2>9, <2>18
    <3>2. GotRight(r)'
      BY <1>4, <2>1, <3>1 DEF Sound, GotRight, Fed
    <3>3. Ran(r)' => Ran(r)
      BY <1>4, <1>8, <1>9, <3>1 DEF Ran
    <3>4. Ran(r) => Ran(r)'
      <4>1. CASE use.copies # 1 /\ StepOf(r) \in Keys(answers)
        BY <3>1, <4>1 DEF Ran
      <4>2. CASE \E u \in Workers : /\ Serves(u, r) /\ flow[u].at \in {"storing", "validating"}
                                    /\ flow[u].msg.step = client[r].step
        <5>1. PICK u \in Workers : /\ Serves(u, r) /\ flow[u].at \in {"storing", "validating"}
                                   /\ flow[u].msg.step = client[r].step
          BY <4>2
        <5>2. CASE u # t
          BY <1>4, <1>8, <1>9, <3>1, <5>1, <5>2 DEF Ran
        <5>3. CASE u = t
          <6>1. flow[t].at = "validating" /\ m.step = c.step
            BY <1>1, <1>4, <5>1, <5>3
          <6>2. use.copies # 1
            <7>1. ASSUME use.copies = 1 PROVE FALSE
              <8>1. c.is = "waiting" /\ c.copy = 1 /\ flow[t].after = flow[t].before + 1
                BY <1>2, <1>3, <1>4, <2>1, <2>2, <6>1, <7>1 DEF Sound, Once
              <8>2. m.copy = 1
                <9>1. m.copy \in 1 .. 1
                  BY <1>3, <7>1 DEF Copies
                <9> QED BY <9>1
              <8>3. hears
                BY <1>6, <6>1, <8>1, <8>2
              <8>4. ok
                BY <6>1, <7>1, <8>1
              <8> QED BY <1>11, <2>18, <8>3, <8>4
            <7> QED BY <7>1
          <6>3. StepOf(r) \in Keys(answers)
            BY <1>2, <2>5, <2>9, <6>1, <6>2 DEF Answer
          <6> QED BY <4>1, <6>2, <6>3
        <5> QED BY <5>2, <5>3
      <4> QED BY <4>1, <4>2 DEF Ran
    <3>5. Held(r)' = Held(r)
      BY <1>4, <3>1, <3>3, <3>4 DEF Held, Fed
    <3>6. CASE UNCHANGED caches
      <4>1. CacheRight(r)'
        BY <1>4, <2>1, <3>1, <3>3, <3>5, <3>6 DEF Sound, CacheRight
      <4> QED BY <2>11, <2>12, <2>13, <2>14, <2>16, <3>2, <4>1 DEF Sound
    <3>7. CASE ~UNCHANGED caches
      <4>1. /\ flow[t].at = "executing" /\ Len(caches'[flow[t].obj]) = Len(caches[flow[t].obj]) + 1
            /\ m.step = 0 /\ c.step = 0 /\ ~Ran(r)
        <5>1. /\ flow[t].at = "executing" /\ (m.step > 0 => "torn" \in spoilt'[r])
              /\ Len(caches'[flow[t].obj]) = Len(caches[flow[t].obj]) + 1
          BY <1>1, <1>2, <3>7
        <5>2. ~(m.step > 0)
          BY <1>15, <5>1 DEF Undisturbed
        <5>3. m.step = c.step /\ ~Ran(r)
          BY <2>15, <5>1
        <5> QED BY <1>3, <5>1, <5>2, <5>3
      <4>2. /\ caches[flow[t].obj] = Fed(r, m.step)
            /\ \A e \in Pairs(kv) : e.key = r => e.val = flow[t].obj
        BY <1>1, <1>3, <2>1, <4>1 DEF Sound, FlowsRight, FlowRight
      <4>3. Len(caches'[flow[t].obj]) <= 1
        BY <4>1, <4>2, NothingFed
      <4>4. CacheRight(r)'
        BY <3>1, <3>3, <4>1, <4>2, <4>3 DEF CacheRight
      <4> QED BY <2>11, <2>12, <2>13, <2>14, <2>16, <3>2, <4>4 DEF Sound
    <3> QED BY <3>6, <3>7
  <2> QED BY <2>17, <2>18
<1> QED BY <1>3, <1>13, <1>14, <1>15 DEF StageInv

LEMMA RefuseDecodeKeeps ==
    ASSUME StageInv, WellFormed', NEW t \in use.threads, RefuseDecode(t), UNCHANGED use
    PROVE  StageInv'
<1>1. PICK ok \in BOOLEAN : ok = FALSE
  OBVIOUS
<1>2. /\ AnswerWith(t, ok) /\ flow[t].at = "checking"
      /\ UNCHANGED <<use, kv, caches, answers, net, spoilt>>
  BY <1>1 DEF RefuseDecode
<1> QED BY <1>1, <1>2, AnsweredKeeps

LEMMA ThrowKeeps ==
    ASSUME StageInv, WellFormed', NEW t \in use.threads, Throw(t), UNCHANGED use
    PROVE  StageInv'
<1>1. PICK ok \in BOOLEAN : ok = FALSE
  OBVIOUS
<1>2. /\ AnswerWith(t, ok) /\ flow[t].at = "executing"
      /\ UNCHANGED <<use, kv, answers, net>>
  BY <1>1 DEF Throw
<1>3. /\ \A i \in DOMAIN caches : i # flow[t].obj => caches'[i] = caches[i]
      /\ \A q \in RequestIds : spoilt[q] \subseteq spoilt'[q]
      /\ \/ UNCHANGED <<caches, spoilt>>
         \/ /\ flow[t].msg.step > 0 => "torn" \in spoilt'[flow[t].msg.id]
            /\ Len(caches'[flow[t].obj]) = Len(caches[flow[t].obj]) + 1
  BY Throws DEF StageInv
<1>4. \A i \in DOMAIN caches : caches'[i] = caches[i] \/ flow[t].obj = i
  BY <1>3
<1> QED BY <1>1, <1>2, <1>3, <1>4, AnsweredKeeps

LEMMA ValidateKeeps ==
    ASSUME StageInv, WellFormed', NEW t \in use.threads, Validate(t), UNCHANGED use
    PROVE  StageInv'
<1>1. flow[t].at = "validating" /\ flow[t].before \in Nat /\ flow[t].after \in Nat
  <2>1. StageTypes /\ t \in Workers /\ flow[t].at = "validating"
    BY SettingTypes DEF StageInv, WellFormed, Validate
  <2>2. flow[t] \in Flowing
    BY <2>1, FlowTyped
  <2> QED BY <2>1, <2>2 DEF Flowing
<1>2. PICK ok \in BOOLEAN : ok = StepValid(t)
  <2>1. CASE flow[t].msg.step = 0
    <3>1. StepValid(t) = (flow[t].after >= 1)
      BY <2>1 DEF StepValid
    <3>2. (flow[t].after >= 1) \in BOOLEAN
      BY <1>1
    <3> QED BY <3>1, <3>2
  <2>2. CASE flow[t].msg.step # 0
    <3>1. StepValid(t) = (flow[t].after = flow[t].before + 1)
      BY <2>2 DEF StepValid
    <3> QED BY <3>1
  <2> QED BY <2>1, <2>2
<1>3. AnswerWith(t, ok) /\ UNCHANGED <<use, kv, caches, answers, net, spoilt>>
  BY <1>2 DEF Validate
<1>4. flow[t].after = flow[t].before + 1 => ok
  BY <1>1, <1>2 DEF StepValid
<1> QED BY <1>1, <1>3, <1>4, AnsweredKeeps

LEMMA StageInvInit == StageInit => StageInv
<1> SUFFICES ASSUME StageInit PROVE StageInv
  OBVIOUS
<1>1. /\ kv = <<>> /\ answers = <<>> /\ net = {} /\ flow = [t \in Workers |-> Idle]
      /\ client = [r \in RequestIds |-> [is |-> "ready", step |-> 0, copy |-> 0, got |-> <<>>]]
  BY DEF StageInit
<1>2. /\ \A t \in Workers : ~Busy(t) /\ flow[t].at = "idle"
      /\ Pairs(kv) = {} /\ Pairs(answers) = {} /\ Keys(answers) = {}
  BY <1>1 DEF Busy, Idle, Pairs, Keys
<1>3. Owned
  BY <1>2 DEF Owned
<1>4. ASSUME NEW r \in RequestIds PROVE Sound(r)
  <2>1. client[r].is = "ready" /\ client[r].step = 0 /\ client[r].copy = 0 /\ client[r].got = <<>>
    BY <1>1
  <2>2. \A m : ~Underway(m)
    BY <1>1, <1>2 DEF Underway
  <2>3. \A t \in Workers : ~Serves(t, r)
    BY <1>2 DEF Serves
  <2>4. Ordered(r) /\ Once(r) /\ Apart(r) /\ Remembered(r)
    BY <1>1, <1>2, <2>1, <2>2, <2>3 DEF Ordered, Once, Apart, Remembered
  <2>5. FlowsRight(r) /\ CacheRight(r) /\ GotRight(r)
    BY <1>2, <2>1, <2>3 DEF FlowsRight, CacheRight, GotRight
  <2> QED BY <2>4, <2>5 DEF Sound
<1> QED BY <1>3, <1>4, WellFormedInit DEF StageInv

LEMMA StageInvStutters == StageInv /\ UNCHANGED stageVars => StageInv'
<1> SUFFICES ASSUME StageInv, UNCHANGED stageVars PROVE StageInv'
  OBVIOUS
<1>1. UNCHANGED <<use, kv, caches, answers, flow, net, client, spoilt>>
  BY DEF stageVars
<1>2. WellFormed'
  BY WellFormedNext DEF StageInv
<1>3. \A t \in Workers : \A q : Serves(t, q)' <=> Serves(t, q)
  BY <1>1 DEF Serves, Busy
<1>4. Owned'
  <2>1. Pairs(kv') \subseteq Pairs(kv) /\ \A t \in Workers : flow'[t] = flow[t]
    BY <1>1
  <2> QED BY <2>1, OwnedStays DEF StageInv
<1>5. ASSUME NEW r \in RequestIds, Undisturbed(r)' PROVE Sound(r)'
  <2>1. Sound(r)
    BY <1>1, <1>5, StaysDisturbed DEF StageInv
  <2>2. answers' = answers /\ kv' = kv /\ caches' = caches /\ net' = net
        /\ client'[r] = client[r] /\ \A t \in Workers : flow'[t] = flow[t]
    BY <1>1
  <2>3. r \in Keys(kv') \/ r \notin Keys(kv)
    BY <1>1
  <2> QED BY <1>1, <1>2, <1>3, <2>1, <2>2, <2>3, Elsewhere DEF StageInv
<1> QED BY <1>2, <1>4, <1>5 DEF StageInv

LEMMA StageInvNext == StageInv /\ [StageNext]_stageVars => StageInv'
<1> SUFFICES ASSUME StageInv, [StageNext]_stageVars PROVE StageInv'
  OBVIOUS
<1>1. WellFormed'
  BY WellFormedNext DEF StageInv
<1>2. CASE UNCHANGED stageVars
  BY <1>2, StageInvStutters
<1>3. ASSUME NEW r \in use.clients, Send(r), UNCHANGED use PROVE StageInv'
  BY <1>3, SendKeeps
<1>4. ASSUME NEW t \in use.threads, NEW m \in net, Receive(t, m), UNCHANGED use PROVE StageInv'
  BY <1>4, ReceiveKeeps
<1>5. ASSUME NEW t \in use.threads, FlowStep(t), UNCHANGED use PROVE StageInv'
  <2>1. CASE AskAnswers(t)
    BY <1>5, <2>1, AskAnswersKeeps
  <2>2. CASE ReportHit(t)
    BY <1>5, <2>2, ReportHitKeeps
  <2>3. CASE CheckPrefilled(t)
    BY <1>5, <2>3, CheckPrefilledKeeps
  <2>4. CASE RefuseDecode(t)
    BY <1>1, <1>5, <2>4, RefuseDecodeKeeps
  <2>5. CASE GetOrCreate(t)
    BY <1>5, <2>5, GetOrCreateKeeps
  <2>6. CASE Execute(t)
    BY <1>5, <2>6, ExecuteKeeps
  <2>7. CASE Throw(t)
    BY <1>1, <1>5, <2>7, ThrowKeeps
  <2>8. CASE StoreAnswer(t)
    BY <1>5, <2>8, StoreAnswerKeeps
  <2>9. CASE Validate(t)
    BY <1>1, <1>5, <2>9, ValidateKeeps
  <2> QED BY <1>5, <2>1, <2>2, <2>3, <2>4, <2>5, <2>6, <2>7, <2>8, <2>9 DEF FlowStep
<1> QED BY <1>2, <1>3, <1>4, <1>5 DEF StageNext

(* What a client takes for the answer to a step of an undisturbed session  *)
(* was computed over exactly its own earlier steps, however many clients,  *)
(* threads, copies and entries there are, and whatever the sessions beside *)
(* it go through.                                                          *)
THEOREM AnswersAlwaysReference == StageSpec => []OkAnswersAreReference
<1>1. StageInv => OkAnswersAreReference
  <2> SUFFICES ASSUME StageInv, NEW r \in RequestIds, Undisturbed(r)
               PROVE  client[r].got = [i \in 1 .. client[r].step |-> Reference(r, i - 1)]
    BY DEF OkAnswersAreReference
  <2>1. GotRight(r) /\ client[r].step \in Nat
    BY ClientTyped DEF StageInv, WellFormed, Sound
  <2>2. \A i \in 1 .. client[r].step : Reference(r, i - 1) = Fed(r, i)
    BY <2>1 DEF Reference, Fed
  <2> QED BY <2>1, <2>2 DEF GotRight
<1> QED BY <1>1, StageInvInit, StageInvNext, PTL DEF StageSpec

(* A repeated forward never appends its step, nor a part of it, to the live*)
(* cache object of an undisturbed session a second time, in every setting. *)
THEOREM LiveCacheAlwaysAppendsOnce == StageSpec => []LiveCacheAppendsOnce
<1>1. StageInv => LiveCacheAppendsOnce
  <2> SUFFICES ASSUME StageInv, NEW i \in DOMAIN kv, Undisturbed(kv[i].key),
                      NEW c, c = caches[kv[i].val], NEW j \in DOMAIN c, NEW k \in DOMAIN c,
                      c[j].id = c[k].id /\ c[j].step = c[k].step
               PROVE  j = k
    BY DEF LiveCacheAppendsOnce
  <2>1. PICK e \in Pairs(kv) : e = kv[i]
    BY DEF Pairs
  <2>2. StageTypes /\ kv \in Seq(KvEntries)
    BY DEF StageInv, WellFormed, StageTypes
  <2>3. PICK r \in RequestIds : r = e.key
    <3>1. e \in KvEntries
      BY <2>2, PairsTyped
    <3> QED BY <2>2, <3>1, SettingTypes DEF KvEntries
  <2>4. Sound(r) /\ client[r].step \in Nat
    BY <2>1, <2>2, <2>3, ClientTyped DEF StageInv
  <2>5. CASE c = Held(r)
    <3>1. PICK n \in Nat : c = Fed(r, n)
      BY <2>4, <2>5 DEF Held
    <3>2. \A a, b \in DOMAIN Fed(r, n) : Fed(r, n)[a].step = Fed(r, n)[b].step => a = b
      BY FedOnce
    <3> QED BY <3>1, <3>2
  <2>6. CASE Len(c) <= 1
    <3>1. c \in Seq(Pieces)
      BY <2>1, <2>2 DEF StageInv, WellFormed, StageTypes
    <3> QED BY <2>6, <3>1
  <2> QED BY <2>1, <2>3, <2>4, <2>5, <2>6 DEF Sound, CacheRight
<1> QED BY <1>1, StageInvInit, StageInvNext, PTL DEF StageSpec
=============================================================================
