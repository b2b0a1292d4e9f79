------------------------- MODULE GatewayBackpressure -------------------------
(***************************************************************************)
(* The GatewayBackpressureGuard of the Python gateway, as the thread-pool  *)
(* threads of /generate and /chat use it. A block under the guard's lock   *)
(* is one step; Condition.wait gives the lock up, so a woken thread tests  *)
(* inflight again in a step of its own and may find that a newcomer has    *)
(* taken the free slot. Between acquire and the try/finally that releases, *)
(* /chat builds a GenerateRequest, whose validator may raise.              *)
(***************************************************************************)
EXTENDS Naturals, FiniteSets

CONSTANTS
    Threads,       \* thread-pool threads that serve requests
    QueueLimits,   \* values of feature_flags.backpressure_queue_size
    MayRaise       \* BOOLEAN: some /chat requests have an empty message list

ASSUME GuardAssumption ==
    /\ IsFiniteSet(Threads)
    /\ QueueLimits \subseteq Nat
    /\ \E n \in QueueLimits : \A m \in QueueLimits : m <= n
    /\ MayRaise \in BOOLEAN

VARIABLES
    inflight,  \* _inflight
    waiting,   \* _waiting
    thread,    \* where each thread is in its handler
    request    \* the request each thread serves

vars == <<inflight, waiting, thread, request>>

(* What matters of a request: backpressure_enabled, the queue size it      *)
(* brings along, and whether it is a /chat request without any message,    *)
(* which the schema of /chat lets through and that of /generate does not.  *)
Unguarded == [guarded : {FALSE}, limit : {0}, empty : {FALSE, MayRaise}]

Requests ==
    Unguarded \cup
        [guarded : {TRUE}, limit : QueueLimits, empty : {FALSE, MayRaise}]

Nothing == [guarded |-> FALSE, limit |-> 0, empty |-> FALSE]

Init ==
    /\ inflight = 0
    /\ waiting = 0
    /\ thread = [t \in Threads |-> "idle"]
    /\ request = [t \in Threads |-> Nothing]

At(t, place) == thread' = [thread EXCEPT ![t] = place]

Forget(t) == request' = [request EXCEPT ![t] = Nothing]

(* FastAPI hands a request to a thread.                                    *)
Arrive(t, q) ==
    /\ thread[t] = "idle"
    /\ request' = [request EXCEPT ![t] = q]
    /\ At(t, IF q.guarded THEN "acquiring" ELSE "building")
    /\ UNCHANGED <<inflight, waiting>>

------------------------------------------------------------------------------
(* acquire()                                                               *)

AcquireFree(t) ==
    /\ thread[t] = "acquiring"
    /\ inflight = 0
    /\ inflight' = 1
    /\ At(t, "building")
    /\ UNCHANGED <<waiting, request>>

QueueFullLate(limit) == limit = 0 \/ waiting > limit

QueueFull(limit) == limit = 0 \/ waiting >= limit

AcquireRefused(t) ==
    /\ thread[t] = "acquiring"
    /\ inflight > 0
    /\ QueueFull(request[t].limit)
    /\ At(t, "refused")
    /\ UNCHANGED <<inflight, waiting, request>>

AcquireWaits(t) ==
    /\ thread[t] = "acquiring"
    /\ inflight > 0
    /\ ~QueueFull(request[t].limit)
    /\ waiting' = waiting + 1
    /\ At(t, "waiting")
    /\ UNCHANGED <<inflight, request>>

(* wait() returns: the thread holds the lock again and tests inflight.     *)
SlotTakenUnchecked == FALSE

SlotTaken == inflight > 0

WaitAgain(t) ==
    /\ thread[t] = "woken"
    /\ SlotTaken
    /\ At(t, "waiting")
    /\ UNCHANGED <<inflight, waiting, request>>

AcquireAfterWait(t) ==
    /\ thread[t] = "woken"
    /\ ~SlotTaken
    /\ inflight' = 1
    /\ waiting' = waiting - 1
    /\ At(t, "building")
    /\ UNCHANGED request

------------------------------------------------------------------------------
(* The rest of the handler, and release()                                  *)

(* The GenerateRequest is complete; the handler enters its try block.      *)
Build(t) ==
    /\ thread[t] = "building"
    /\ ~request[t].empty
    /\ At(t, "generating")
    /\ UNCHANGED <<inflight, waiting, request>>

(* The validator raises outside the try block: the finally does not run.   *)
BuildRaises(t) ==
    /\ thread[t] = "building"
    /\ request[t].empty
    /\ At(t, "idle")
    /\ Forget(t)
    /\ UNCHANGED <<inflight, waiting>>

NotifyNobody == thread

NotifyAll == [u \in Threads |-> IF thread[u] = "waiting" THEN "woken" ELSE thread[u]]

ReleasedKeepingSlot == inflight

Released == IF inflight > 0 THEN inflight - 1 ELSE inflight

GenerationDone(t) ==
    /\ thread[t] = "generating"
    /\ IF request[t].guarded
       THEN /\ inflight' = Released
            /\ thread' = [NotifyAll EXCEPT ![t] = "idle"]
       ELSE /\ At(t, "idle")
            /\ UNCHANGED inflight
    /\ Forget(t)
    /\ UNCHANGED waiting

(* The handler answers 429.                                                *)
Refuse(t) ==
    /\ thread[t] = "refused"
    /\ At(t, "idle")
    /\ Forget(t)
    /\ UNCHANGED <<inflight, waiting>>

Serve(t) ==
    \/ AcquireFree(t) \/ AcquireRefused(t) \/ AcquireWaits(t)
    \/ WaitAgain(t) \/ AcquireAfterWait(t)
    \/ Build(t) \/ BuildRaises(t) \/ GenerationDone(t) \/ Refuse(t)

Next == \E t \in Threads : Serve(t) \/ \E q \in Requests : Arrive(t, q)

Spec == Init /\ [][Next]_vars

(* Fairness of the operating system's scheduler towards every thread that  *)
(* has something to do. A generation ends because each of its stage calls  *)
(* has a timeout. Nothing says that requests arrive.                       *)
FairSpec == Spec /\ \A t \in Threads : WF_vars(Serve(t))

------------------------------------------------------------------------------
InGuard(t) ==
    request[t].guarded /\ thread[t] \in {"building", "generating"}

Waiters == {t \in Threads : thread[t] \in {"waiting", "woken"}}

Longest == CHOOSE n \in QueueLimits : \A m \in QueueLimits : m <= n

(* Every variable keeps its type; the two counters of the guard stay in    *)
(* their ranges, which release() does not enforce by itself.               *)
TypeOK ==
    /\ inflight \in {0, 1}
    /\ waiting \in 0 .. Longest
    /\ thread \in [Threads -> {"idle", "acquiring", "refused", "waiting",
                               "woken", "building", "generating"}]
    /\ request \in [Threads -> Requests]

(* _inflight and _waiting tell the truth: whatever order threads acquire,  *)
(* barge, wake and release in, at most one guarded request is between its  *)
(* acquire and its release, and the 429 of another reports real numbers.   *)
OneGuardedGeneration ==
    /\ \A t, u \in Threads : InGuard(t) /\ InGuard(u) => t = u
    /\ (\E t \in Threads : InGuard(t)) => inflight = 1
    /\ waiting = Cardinality(Waiters)

(* No wakeup is lost: if nobody holds the guard, no thread sleeps in       *)
(* wait() unless a woken one is on its way to take the guard or leave it   *)
(* to a newcomer whose release will notify again.                          *)
FreeGuardWakes ==
    inflight = 0 /\ Waiters # {} => \E t \in Threads : thread[t] = "woken"

(* Every request gets an answer once no more requests arrive. The premise  *)
(* is needed: a newcomer may take the free guard before a woken waiter, so *)
(* a steady stream of newcomers can keep one thread waiting for ever. What *)
(* else can keep it waiting is a guard that nobody will release.           *)
NoArrival == \A t \in Threads : thread[t] = "idle" => thread'[t] = "idle"

(* /chat takes the guard and then builds a GenerateRequest in front of its *)
(* try block. A validator that raises there leaves the guard taken by      *)
(* nobody, and every guarded request is refused or waits from then on.     *)
Leaked == inflight = 1 /\ \A t \in Threads : ~InGuard(t)

EveryRequestEnds ==
    <>[][NoArrival]_vars =>
        \A t \in Threads : thread[t] # "idle" ~> (thread[t] = "idle" \/ Leaked)

(* The guard implements the bounded single flight of SingleFlight, also    *)
(* when it is leaked: callers enter, queue up and take turns only as       *)
(* promised.                                                               *)
Promise ==
    INSTANCE SingleFlight WITH
        Callers <- Threads,
        MaxWaiting <- Longest,
        busy <- inflight = 1,
        line <- Waiters

ImplementsSingleFlight == Promise!Spec
===============================================================================
