-------------------------- MODULE ForwardBrokerProofs --------------------------
(***************************************************************************)
(* Proofs about the forward broker, for every set of connection threads,   *)
(* every queue size and every value the uninitialised flag may hold.       *)
(***************************************************************************)
EXTENDS ForwardBroker, FiniteSetTheorems, TLAPS

(* TypeOK is inductive by itself.                                          *)

LEMMA TypeInit == Init => TypeOK
<1> SUFFICES ASSUME Init PROVE TypeOK
  OBVIOUS
<1>1. stopRequested \in BOOLEAN
  BY BrokerAssumption DEF BrokerAssumption, Init
<1>2. queue \in Seq(Conns) /\ Len(queue) <= MaxQueueSize
  BY BrokerAssumption DEF BrokerAssumption, Init
<1> QED BY <1>1, <1>2, BrokerAssumption DEF BrokerAssumption, Init, TypeOK, Codes

LEMMA TypeNext == TypeOK /\ [Next]_vars => TypeOK'
<1> SUFFICES ASSUME TypeOK, [Next]_vars PROVE TypeOK'
  OBVIOUS
<1> USE BrokerAssumption DEF BrokerAssumption, TypeOK, Codes, TooMany, Unavailable
<1>1. CASE FinishConstruction
  BY <1>1 DEF FinishConstruction
<1>2. ASSUME NEW c \in Conns, Submit(c) PROVE TypeOK'
  <2>1. CASE RefuseStopping(c)
    BY <2>1 DEF RefuseStopping, Answered
  <2>2. CASE RefuseFull(c)
    BY <2>2 DEF RefuseFull, Answered
  <2>3. CASE Enqueue(c)
    BY <2>3 DEF Enqueue, Full
  <2> QED BY <1>2, <2>1, <2>2, <2>3 DEF Submit
<1>3. ASSUME NEW c \in Conns, Notify(c) PROVE TypeOK'
  BY <1>3 DEF Notify, WakeWorker
<1>4. ASSUME NEW c \in Conns, Collect(c) PROVE TypeOK'
  BY <1>4 DEF Collect
<1>5. CASE Run
  <2>1. CASE Park
    BY <2>1 DEF Park
  <2>2. CASE SpuriousWakeup
    BY <2>2 DEF SpuriousWakeup
  <2>3. CASE Exit
    BY <2>3 DEF Exit
  <2>4. CASE Take
    BY <2>4 DEF Take
  <2>5. ASSUME NEW code \in Results, FinishJob(code) PROVE TypeOK'
    BY <2>5 DEF FinishJob
  <2> QED BY <1>5, <2>1, <2>2, <2>3, <2>4, <2>5 DEF Run
<1>6. CASE Stop
  <2>1. CASE RequestStop
    BY <2>1 DEF RequestStop
  <2>2. CASE NotifyStop
    BY <2>2 DEF NotifyStop, WakeWorker
  <2>3. CASE Join
    BY <2>3 DEF Join
  <2> QED BY <1>6, <2>1, <2>2, <2>3 DEF Stop
<1>7. CASE UNCHANGED vars
  BY <1>7 DEF vars
<1> QED BY <1>1, <1>2, <1>3, <1>4, <1>5, <1>6, <1>7 DEF Next

(* Every reachable state is well typed, and the deque never holds more     *)
(* than max_queue_size_ jobs.                                              *)
THEOREM TypeCorrect == Spec => []TypeOK
  BY TypeInit, TypeNext, PTL DEF Spec

------------------------------------------------------------------------------
(* Job conservation.                                                       *)

LEMMA ConservationInit == Init => JobConservation
  BY BrokerAssumption DEF BrokerAssumption, Init, JobConservation, Unanswered, Queued

LEMMA ConservationNext ==
  TypeOK /\ JobConservation /\ [Next]_vars => JobConservation'
<1> SUFFICES ASSUME TypeOK, JobConservation, [Next]_vars PROVE JobConservation'
  OBVIOUS
<1> USE BrokerAssumption DEF BrokerAssumption, JobConservation, Unanswered, Queued
<1>1. CASE FinishConstruction
  BY <1>1 DEF FinishConstruction
<1>2. ASSUME NEW c \in Conns, Submit(c) PROVE JobConservation'
  <2>1. CASE RefuseStopping(c)
    <3>1. /\ handler[c] = "idle"
          /\ handler' = [handler EXCEPT ![c] = "waiting"]
          /\ promise' = [promise EXCEPT ![c] = Unavailable]
          /\ UNCHANGED <<queue, current>>
      BY <2>1 DEF RefuseStopping, Answered
    <3>2. \A d \in Conns : Unanswered(d)' <=> Unanswered(d)
      BY <3>1 DEF TypeOK, Unavailable
    <3>3. \A d \in Conns : handler'[d] = "idle" => promise'[d] = None
      BY <3>1 DEF TypeOK
    <3> QED BY <3>1, <3>2, <3>3
  <2>2. CASE RefuseFull(c)
    <3>1. /\ handler[c] = "idle"
          /\ handler' = [handler EXCEPT ![c] = "waiting"]
          /\ promise' = [promise EXCEPT ![c] = TooMany]
          /\ UNCHANGED <<queue, current>>
      BY <2>2 DEF RefuseFull, Answered
    <3>2. \A d \in Conns : Unanswered(d)' <=> Unanswered(d)
      BY <3>1 DEF TypeOK, TooMany
    <3>3. \A d \in Conns : handler'[d] = "idle" => promise'[d] = None
      BY <3>1 DEF TypeOK
    <3> QED BY <3>1, <3>2, <3>3
  <2>3. CASE Enqueue(c)
    <3>1. /\ handler[c] = "idle"
          /\ queue' = Append(queue, c)
          /\ handler' = [handler EXCEPT ![c] = "notifying"]
          /\ UNCHANGED <<current, promise>>
      BY <2>3 DEF Enqueue
    <3>2. ~Queued(c) /\ current # c /\ promise[c] = None
      BY <3>1
    <3>3. /\ Len(queue') = Len(queue) + 1
          /\ \A i \in 1 .. Len(queue) : queue'[i] = queue[i]
          /\ queue'[Len(queue) + 1] = c
      BY <3>1 DEF TypeOK
    <3>4. \A d \in Conns : Queued(d)' <=> Queued(d) \/ d = c
      BY <3>3 DEF TypeOK
    <3>5. \A d \in Conns : Unanswered(d)' <=> Unanswered(d) \/ d = c
      BY <3>1, <3>2 DEF TypeOK
    <3>6. \A i, j \in 1 .. Len(queue') : queue'[i] = queue'[j] => i = j
      BY <3>2, <3>3 DEF TypeOK
    <3>7. \A i \in 1 .. Len(queue') : queue'[i] # current'
      BY <3>1, <3>2, <3>3 DEF TypeOK
    <3>8. \A d \in Conns : handler'[d] = "idle" => promise'[d] = None
      BY <3>1 DEF TypeOK
    <3> QED BY <3>1, <3>4, <3>5, <3>6, <3>7, <3>8
  <2> QED BY <1>2, <2>1, <2>2, <2>3 DEF Submit
<1>3. ASSUME NEW c \in Conns, Notify(c) PROVE JobConservation'
  BY <1>3 DEF Notify, TypeOK
<1>4. ASSUME NEW c \in Conns, Collect(c) PROVE JobConservation'
  <2>1. /\ handler[c] = "waiting" /\ promise[c] # None
        /\ handler' = [handler EXCEPT ![c] = "idle"]
        /\ promise' = [promise EXCEPT ![c] = None]
        /\ UNCHANGED <<queue, current>>
    BY <1>4 DEF Collect
  <2>2. \A d \in Conns : Unanswered(d)' <=> Unanswered(d)
    BY <2>1 DEF TypeOK
  <2>3. \A d \in Conns : handler'[d] = "idle" => promise'[d] = None
    BY <2>1 DEF TypeOK
  <2> QED BY <2>1, <2>2, <2>3
<1>5. CASE Run
  <2>1. CASE Park
    BY <2>1 DEF Park
  <2>2. CASE SpuriousWakeup
    BY <2>2 DEF SpuriousWakeup
  <2>3. CASE Exit
    BY <2>3 DEF Exit
  <2>4. CASE Take
    <3>1. /\ queue # <<>>
          /\ worker = "checking"
          /\ current' = queue[1]
          /\ queue' = Tail(queue)
          /\ UNCHANGED <<handler, promise>>
      BY <2>4 DEF Take, TypeOK
    <3>2. /\ Len(queue) > 0
          /\ Len(queue') = Len(queue) - 1
          /\ \A i \in 1 .. Len(queue') : queue'[i] = queue[i + 1]
      BY <3>1 DEF TypeOK
    <3>3. current = None
      BY <3>1 DEF TypeOK
    <3>4. \A d \in Conns : Queued(d) <=> (Queued(d)' \/ d = current')
      <4> SUFFICES ASSUME NEW d \in Conns
                   PROVE  Queued(d) <=> (Queued(d)' \/ d = current')
        OBVIOUS
      <4>1. ASSUME Queued(d) PROVE Queued(d)' \/ d = current'
        <5>1. PICK i \in 1 .. Len(queue) : queue[i] = d
          BY <4>1
        <5>2. CASE i = 1
          BY <5>1, <5>2, <3>1
        <5>3. CASE i > 1
          <6>1. i - 1 \in 1 .. Len(queue') /\ queue'[i - 1] = d
            BY <5>1, <5>3, <3>2 DEF TypeOK
          <6> QED BY <6>1
        <5> QED BY <5>1, <5>2, <5>3 DEF TypeOK
      <4>2. ASSUME Queued(d)' PROVE Queued(d)
        <5>1. PICK i \in 1 .. Len(queue') : queue'[i] = d
          BY <4>2
        <5>2. i + 1 \in 1 .. Len(queue) /\ queue[i + 1] = d
          BY <5>1, <3>2 DEF TypeOK
        <5> QED BY <5>2
      <4>3. ASSUME d = current' PROVE Queued(d)
        BY <4>3, <3>1, <3>2 DEF TypeOK
      <4> QED BY <4>1, <4>2, <4>3
    <3>5. \A i, j \in 1 .. Len(queue') : queue'[i] = queue'[j] => i = j
      <4> SUFFICES ASSUME NEW i \in 1 .. Len(queue'), NEW j \in 1 .. Len(queue'),
                          queue'[i] = queue'[j]
                   PROVE  i = j
        OBVIOUS
      <4>1. i + 1 \in 1 .. Len(queue) /\ j + 1 \in 1 .. Len(queue)
        BY <3>2 DEF TypeOK
      <4>2. queue[i + 1] = queue[j + 1]
        BY <3>2
      <4> QED BY <4>1, <4>2
    <3>6. \A i \in 1 .. Len(queue') : queue'[i] # current'
      <4> SUFFICES ASSUME NEW i \in 1 .. Len(queue'), queue'[i] = queue[1] PROVE FALSE
        BY <3>1
      <4>1. i + 1 \in 1 .. Len(queue) /\ queue[i + 1] = queue[1] /\ 1 \in 1 .. Len(queue)
        BY <3>2 DEF TypeOK
      <4> QED BY <4>1
    <3>7. \A d \in Conns : Unanswered(d)' <=> Unanswered(d)
      BY <3>1
    <3> QED BY <3>1, <3>3, <3>4, <3>5, <3>6, <3>7
  <2>5. ASSUME NEW code \in Results, FinishJob(code) PROVE JobConservation'
    <3>1. /\ worker = "running"
          /\ promise' = [promise EXCEPT ![current] = code]
          /\ current' = None
          /\ UNCHANGED <<queue, handler>>
      BY <2>5 DEF FinishJob
    <3>2. current \in Conns /\ Unanswered(current) /\ code # None
      BY <3>1 DEF TypeOK
    <3>3. \A d \in Conns : Queued(d)' <=> Queued(d)
      BY <3>1
    <3>4. \A d \in Conns : Unanswered(d)' <=> Unanswered(d) /\ d # current
      BY <3>1, <3>2 DEF TypeOK
    <3>5. ~Queued(current)
      OBVIOUS
    <3>6. \A i \in 1 .. Len(queue') : queue'[i] # current'
      BY <3>1 DEF TypeOK
    <3>7. \A d \in Conns : handler'[d] = "idle" => promise'[d] = None
      BY <3>1, <3>2 DEF TypeOK
    <3> QED BY <3>1, <3>3, <3>4, <3>5, <3>6, <3>7
  <2> QED BY <1>5, <2>1, <2>2, <2>3, <2>4, <2>5 DEF Run
<1>6. CASE Stop
  BY <1>6 DEF Stop, RequestStop, NotifyStop, Join
<1>7. CASE UNCHANGED vars
  BY <1>7 DEF vars
<1> QED BY <1>1, <1>2, <1>3, <1>4, <1>5, <1>6, <1>7 DEF Next

(* No job is lost and no promise is satisfied twice, whatever the threads  *)
(* do and in whatever order.                                               *)
THEOREM JobsConserved == Spec => []JobConservation
<1>1. Init => TypeOK /\ JobConservation
  BY TypeInit, ConservationInit
<1>2. TypeOK /\ JobConservation /\ [Next]_vars => (TypeOK /\ JobConservation)'
  BY TypeNext, ConservationNext
<1> QED BY <1>1, <1>2, PTL DEF Spec

LEMMA ConservationBoundsBacklog == TypeOK /\ JobConservation => BoundedBacklog
<1> SUFFICES ASSUME TypeOK, JobConservation PROVE BoundedBacklog
  OBVIOUS
<1> USE BrokerAssumption DEF BrokerAssumption
<1> DEFINE Waiting == {c \in Conns : Unanswered(c)}
           slot[c \in Waiting] ==
             IF c = current THEN 0 ELSE CHOOSE i \in 1 .. Len(queue) : queue[i] = c
<1>1. \A c \in Waiting : c # current => slot[c] \in 1 .. Len(queue) /\ queue[slot[c]] = c
  <2> SUFFICES ASSUME NEW c \in Waiting, c # current
               PROVE  slot[c] \in 1 .. Len(queue) /\ queue[slot[c]] = c
    OBVIOUS
  <2>1. \E i \in 1 .. Len(queue) : queue[i] = c
    BY DEF JobConservation, Queued
  <2> QED BY <2>1
<1>2. \A c \in Waiting : c = current => slot[c] = 0
  OBVIOUS
<1>3. Len(queue) \in Nat /\ Len(queue) <= MaxQueueSize
  BY DEF TypeOK
<1>4. slot \in [Waiting -> 0 .. MaxQueueSize]
  <2>1. \A c \in Waiting : slot[c] \in 0 .. MaxQueueSize
    BY <1>1, <1>2, <1>3
  <2> QED BY <2>1
<1>5. \A c, d \in Waiting : slot[c] = slot[d] => c = d
  BY <1>1, <1>2, <1>3
<1> HIDE DEF slot
<1>6. slot \in Injection(Waiting, 0 .. MaxQueueSize)
  BY <1>4, <1>5 DEF Injection, IsInjective
<1>7. IsFiniteSet(0 .. MaxQueueSize) /\ Cardinality(0 .. MaxQueueSize) = MaxQueueSize + 1
  BY FS_Interval
<1>8. Cardinality(Waiting) <= MaxQueueSize + 1
  BY <1>6, <1>7, FS_Injection
<1> QED BY <1>8 DEF BoundedBacklog

(* At most max_queue_size_ jobs wait behind the one being executed.        *)
THEOREM BacklogBounded == Spec => []BoundedBacklog
  BY TypeCorrect, JobsConserved, ConservationBoundsBacklog, PTL

------------------------------------------------------------------------------
(* Lost wakeups.                                                           *)

LEMMA WakeupNext == TypeOK /\ NoLostWakeup /\ [Next]_vars => NoLostWakeup'
<1> SUFFICES ASSUME TypeOK, NoLostWakeup, [Next]_vars PROVE NoLostWakeup'
  OBVIOUS
<1> USE DEF NoLostWakeup
<1>1. CASE FinishConstruction
  BY <1>1 DEF FinishConstruction
<1>2. ASSUME NEW c \in Conns, Submit(c) PROVE NoLostWakeup'
  <2>1. CASE RefuseStopping(c)
    BY <2>1 DEF RefuseStopping, Answered, TypeOK
  <2>2. CASE RefuseFull(c)
    BY <2>2 DEF RefuseFull, Answered, TypeOK
  <2>3. CASE Enqueue(c)
    BY <2>3 DEF Enqueue, TypeOK
  <2> QED BY <1>2, <2>1, <2>2, <2>3 DEF Submit
<1>3. ASSUME NEW c \in Conns, Notify(c) PROVE NoLostWakeup'
  BY <1>3 DEF Notify, WakeWorker, TypeOK
<1>4. ASSUME NEW c \in Conns, Collect(c) PROVE NoLostWakeup'
  BY <1>4 DEF Collect, TypeOK
<1>5. CASE Run
  BY <1>5 DEF Run, Park, SpuriousWakeup, Exit, Take, FinishJob
<1>6. CASE Stop
  BY <1>6 DEF Stop, RequestStop, NotifyStop, Join, WakeWorker
<1>7. CASE UNCHANGED vars
  BY <1>7 DEF vars
<1> QED BY <1>1, <1>2, <1>3, <1>4, <1>5, <1>6, <1>7 DEF Next

(* The worker never sleeps on work: notifying after the mutex is released  *)
(* loses no wakeup, because the wait predicate is tested under the mutex.  *)
THEOREM WakeupsNotLost == Spec => []NoLostWakeup
<1>1. Init => TypeOK /\ NoLostWakeup
  BY TypeInit DEF Init, NoLostWakeup
<1>2. TypeOK /\ NoLostWakeup /\ [Next]_vars => (TypeOK /\ NoLostWakeup)'
  BY TypeNext, WakeupNext
<1> QED BY <1>1, <1>2, PTL DEF Spec

------------------------------------------------------------------------------
(* Refinement. After the construction the flag tells whether the           *)
(* destructor has been reached.                                            *)

StopKnown ==
    /\ constructed => (stopRequested <=> stopper # "idle")
    /\ stopper # "idle" => constructed

LEMMA StopKnownNext == TypeOK /\ StopKnown /\ [Next]_vars => StopKnown'
<1> SUFFICES ASSUME TypeOK, StopKnown, [Next]_vars PROVE StopKnown'
  OBVIOUS
<1>1. CASE FinishConstruction
  BY <1>1 DEF StopKnown, FinishConstruction
<1>2. CASE Stop
  BY <1>2 DEF StopKnown, Stop, RequestStop, NotifyStop, Join
<1>3. ASSUME UNCHANGED <<constructed, stopRequested, stopper>> PROVE StopKnown'
  BY <1>3 DEF StopKnown
<1> QED BY <1>1, <1>2, <1>3
        DEF Next, vars, Submit, RefuseStopping, RefuseFull, Enqueue, Notify, Collect,
            Run, Park, SpuriousWakeup, Exit, Take, FinishJob

LEMMA RefinementInit == Init => Service!Init
  BY DEF Init, Service!Init, line

LEMMA RefinementNext ==
  TypeOK /\ JobConservation /\ StopKnown /\ [Next]_vars => [Service!Next]_(Service!vars)
<1> SUFFICES ASSUME TypeOK, JobConservation, StopKnown, [Next]_vars
             PROVE  Service!Next \/ UNCHANGED Service!vars
  OBVIOUS
<1> USE BrokerAssumption DEF BrokerAssumption
<1> DEFINE asked == {c \in Conns : handler[c] # "idle"}
<1>1. line \in Seq(Conns)
  BY DEF line, TypeOK
<1>2. CASE FinishConstruction
  BY <1>2 DEF FinishConstruction, Service!vars, line
<1>3. ASSUME NEW c \in Conns, Submit(c) PROVE Service!Next
  <2>1. CASE RefuseStopping(c)
    <3>1. c \notin asked /\ stopper # "idle" /\ UNCHANGED <<line, stopper>>
      BY <2>1 DEF RefuseStopping, StopKnown, line
    <3>2. asked' = asked \cup {c}
      BY <2>1 DEF RefuseStopping, Answered, TypeOK
    <3>3. promise' = [promise EXCEPT ![c] = Unavailable]
      BY <2>1 DEF RefuseStopping, Answered
    <3>4. Service!Refuse(c, Unavailable)
      BY <3>1, <3>2, <3>3 DEF Service!Refuse, Unavailable, Service!Unavailable
    <3> QED BY <3>4 DEF Service!Next, Unavailable, Service!Unavailable
  <2>2. CASE RefuseFull(c)
    <3>1. c \notin asked /\ stopper = "idle" /\ UNCHANGED <<line, stopper>>
      BY <2>2 DEF RefuseFull, StopKnown, line
    <3>2. asked' = asked \cup {c}
      BY <2>2 DEF RefuseFull, Answered, TypeOK
    <3>3. promise' = [promise EXCEPT ![c] = TooMany]
      BY <2>2 DEF RefuseFull, Answered
    <3>4. Len(line) >= MaxQueueSize
      BY <2>2 DEF RefuseFull, Full, line, TypeOK
    <3>5. Service!Refuse(c, TooMany)
      BY <3>1, <3>2, <3>3, <3>4 DEF Service!Refuse, TooMany, Service!TooMany
    <3> QED BY <3>5 DEF Service!Next, TooMany, Service!TooMany
  <2>3. CASE Enqueue(c)
    <3>1. c \notin asked /\ stopper = "idle" /\ UNCHANGED <<promise, stopper>>
      BY <2>3 DEF Enqueue, StopKnown
    <3>2. asked' = asked \cup {c}
      BY <2>3 DEF Enqueue, TypeOK
    <3>3. Len(line) <= MaxQueueSize
      BY <2>3 DEF Enqueue, Full, line, TypeOK
    <3>4. line' = Append(line, c)
      BY <2>3 DEF Enqueue, line, TypeOK
    <3>5. Service!Admit(c)
      BY <3>1, <3>2, <3>3, <3>4 DEF Service!Admit
    <3> QED BY <3>5 DEF Service!Next
  <2> QED BY <1>3, <2>1, <2>2, <2>3 DEF Submit
<1>4. ASSUME NEW c \in Conns, Notify(c) PROVE UNCHANGED Service!vars
  <2>1. asked' = asked
    BY <1>4 DEF Notify, TypeOK
  <2> QED BY <1>4, <2>1 DEF Notify, Service!vars, line
<1>5. ASSUME NEW c \in Conns, Collect(c) PROVE Service!Next
  <2>1. c \in asked /\ promise[c] # None /\ UNCHANGED <<line, stopper>>
    BY <1>5 DEF Collect, line
  <2>2. asked' = asked \ {c}
    BY <1>5 DEF Collect, TypeOK
  <2>3. promise' = [promise EXCEPT ![c] = None]
    BY <1>5 DEF Collect
  <2>4. Service!Collect(c)
    BY <2>1, <2>2, <2>3 DEF Service!Collect
  <2> QED BY <2>4 DEF Service!Next
<1>6. CASE Run
  <2>1. CASE Park \/ SpuriousWakeup \/ Exit
    BY <2>1 DEF Park, SpuriousWakeup, Exit, Service!vars, line
  <2>2. CASE Take
    <3>1. current = None /\ queue # <<>> /\ current' = Head(queue) /\ queue' = Tail(queue)
      BY <2>2 DEF Take, TypeOK
    <3>2. current' # None
      BY <3>1 DEF TypeOK
    <3>3. line = queue
      BY <3>1 DEF line, TypeOK
    <3>4. line' = queue
      BY <3>1, <3>2 DEF line, TypeOK
    <3> QED BY <2>2, <3>3, <3>4 DEF Take, Service!vars
  <2>3. ASSUME NEW code \in Results, FinishJob(code) PROVE Service!Next
    <3>1. current \in Conns /\ current' = None /\ queue' = queue
      BY <2>3 DEF FinishJob, TypeOK
    <3>2. line = <<current>> \o queue /\ line' = queue
      BY <3>1 DEF line, TypeOK
    <3>3. line # <<>> /\ Head(line) = current /\ Tail(line) = queue
      BY <3>1, <3>2 DEF TypeOK
    <3>4. UNCHANGED <<handler, stopper>> /\ promise' = [promise EXCEPT ![current] = code]
      BY <2>3 DEF FinishJob
    <3>5. Service!Serve(code)
      BY <3>2, <3>3, <3>4 DEF Service!Serve
    <3> QED BY <3>5 DEF Service!Next
  <2> QED BY <1>6, <2>1, <2>2, <2>3 DEF Run
<1>7. CASE Stop
  <2>1. CASE RequestStop
    <3>1. Service!Shutdown
      BY <2>1 DEF RequestStop, Service!Shutdown, line
    <3> QED BY <3>1 DEF Service!Next
  <2>2. CASE NotifyStop \/ Join
    BY <2>2 DEF NotifyStop, Join, Service!vars, line
  <2> QED BY <1>7, <2>1, <2>2 DEF Stop
<1>8. CASE UNCHANGED vars
  BY <1>8 DEF vars, Service!vars, line
<1> QED BY <1>2, <1>3, <1>4, <1>5, <1>6, <1>7, <1>8 DEF Next

(* The broker's threads, mutex and condition variable implement a bounded  *)
(* line served in order: admission, refusal, service and answer each take  *)
(* effect at one instant, and the rest of what the threads do is invisible *)
(* to the connection threads that call submit().                           *)
THEOREM BrokerImplementsService == Spec => ImplementsService
<1>1. Init => TypeOK /\ JobConservation /\ StopKnown
  BY TypeInit, ConservationInit DEF Init, StopKnown
<1>2. TypeOK /\ JobConservation /\ StopKnown /\ [Next]_vars
        => (TypeOK /\ JobConservation /\ StopKnown)'
  BY TypeNext, ConservationNext, StopKnownNext
<1> QED BY <1>1, <1>2, RefinementInit, RefinementNext, PTL
        DEF Spec, ImplementsService, Service!Spec
=============================================================================
