---------------------------- MODULE ForwardBroker ----------------------------
(***************************************************************************)
(* The ForwardBroker of a native stage (dli_stage_cpp/src/server.cpp): the *)
(* detached connection threads submit /forward-binary requests to a deque  *)
(* bounded by max_queue_size_, one worker thread executes them, and each   *)
(* connection thread blocks on the future of its own job.                  *)
(*                                                                         *)
(* A critical section of mutex_ is one step; a call of cv_.notify_* is a   *)
(* step of its own because the code makes it after releasing the mutex.    *)
(* A job is named by the thread that submitted it: the thread is blocked   *)
(* in future.get() until the job is answered, so it has one job at most.   *)
(***************************************************************************)
EXTENDS Naturals, Sequences, FiniteSets

CONSTANTS
    Conns,         \* connection threads (one per accepted socket)
    MaxQueueSize,  \* max_queue_size_
    Results,       \* status codes handle_forward_binary may end with
    Garbage,       \* values the storage of stop_requested_ may hold at first
    None           \* "no value": an unset promise, no current job

ASSUME BrokerAssumption ==
    /\ MaxQueueSize \in Nat \ {0}
    /\ Results \subseteq Nat
    /\ Garbage \subseteq BOOLEAN
    /\ None \notin Conns
    /\ None \notin Nat

TooMany     == 429
Unavailable == 503
Codes       == Results \cup {TooMany, Unavailable}

VARIABLES
    queue,          \* queue_: submitted jobs the worker has not taken
    stopRequested,  \* stop_requested_
    constructed,    \* the constructor has initialised stop_requested_
    worker,         \* where the worker thread is in run()
    current,        \* the job the worker is executing, or None
    handler,        \* where each connection thread is in submit()/get()
    promise,        \* the value of each thread's future, or None
    stopper         \* where the destructor is in stop()

vars == <<queue, stopRequested, constructed, worker, current,
          handler, promise, stopper>>

Init ==
    /\ queue = <<>>
    /\ stopRequested \in Garbage
    /\ constructed = FALSE
    /\ worker = "checking"
    /\ current = None
    /\ handler = [c \in Conns |-> "idle"]
    /\ promise = [c \in Conns |-> None]
    /\ stopper = "idle"

------------------------------------------------------------------------------
(* Construction. worker_ is declared before stop_requested_, so its thread *)
(* is already running when the flag gets its initial value.                *)

FinishConstruction ==
    /\ ~constructed
    /\ constructed' = TRUE
    /\ stopRequested' = FALSE
    /\ UNCHANGED <<queue, worker, current, handler, promise, stopper>>

------------------------------------------------------------------------------
(* submit(): three outcomes under the mutex, then notify_one.              *)

FullOffByOne == Len(queue) > MaxQueueSize

Full == Len(queue) >= MaxQueueSize

Answered(c, code) ==
    /\ handler' = [handler EXCEPT ![c] = "waiting"]
    /\ promise' = [promise EXCEPT ![c] = code]

RefuseStopping(c) ==
    /\ constructed
    /\ handler[c] = "idle"
    /\ stopRequested
    /\ Answered(c, Unavailable)
    /\ UNCHANGED <<queue, stopRequested, constructed, worker, current, stopper>>

RefuseFull(c) ==
    /\ constructed
    /\ handler[c] = "idle"
    /\ ~stopRequested
    /\ Full
    /\ Answered(c, TooMany)
    /\ UNCHANGED <<queue, stopRequested, constructed, worker, current, stopper>>

Enqueue(c) ==
    /\ constructed
    /\ handler[c] = "idle"
    /\ ~stopRequested
    /\ ~Full
    /\ queue' = Append(queue, c)
    /\ handler' = [handler EXCEPT ![c] = "notifying"]
    /\ UNCHANGED <<stopRequested, constructed, worker, current, promise, stopper>>

NoWake == UNCHANGED worker

(* cv_.notify_one / notify_all: only the worker ever waits on cv_.         *)
WakeWorker == worker' = IF worker = "parked" THEN "checking" ELSE worker

Notify(c) ==
    /\ handler[c] = "notifying"
    /\ handler' = [handler EXCEPT ![c] = "waiting"]
    /\ WakeWorker
    /\ UNCHANGED <<queue, stopRequested, constructed, current, promise, stopper>>

(* future.get() returns; the thread sends the response and may come back.  *)
Collect(c) ==
    /\ handler[c] = "waiting"
    /\ promise[c] # None
    /\ handler' = [handler EXCEPT ![c] = "idle"]
    /\ promise' = [promise EXCEPT ![c] = None]
    /\ UNCHANGED <<queue, stopRequested, constructed, worker, current, stopper>>

------------------------------------------------------------------------------
(* run(): the wait predicate, the exit test and the pop share one critical *)
(* section; the job runs outside the mutex.                                *)

Park ==
    /\ worker = "checking"
    /\ ~stopRequested
    /\ queue = <<>>
    /\ worker' = "parked"
    /\ UNCHANGED <<queue, stopRequested, constructed, current, handler, promise, stopper>>

SpuriousWakeup ==
    /\ worker = "parked"
    /\ worker' = "checking"
    /\ UNCHANGED <<queue, stopRequested, constructed, current, handler, promise, stopper>>

ExitWithoutDraining ==
    /\ worker = "checking"
    /\ stopRequested
    /\ worker' = "exited"
    /\ UNCHANGED <<queue, stopRequested, constructed, current, handler, promise, stopper>>

Exit ==
    /\ worker = "checking"
    /\ stopRequested
    /\ queue = <<>>
    /\ worker' = "exited"
    /\ UNCHANGED <<queue, stopRequested, constructed, current, handler, promise, stopper>>

TakeWithoutPop ==
    /\ worker = "checking"
    /\ queue # <<>>
    /\ current' = Head(queue)
    /\ worker' = "running"
    /\ UNCHANGED <<queue, stopRequested, constructed, handler, promise, stopper>>

TakeLast ==
    /\ worker = "checking"
    /\ queue # <<>>
    /\ current' = queue[Len(queue)]
    /\ queue' = SubSeq(queue, 1, Len(queue) - 1)
    /\ worker' = "running"
    /\ UNCHANGED <<stopRequested, constructed, handler, promise, stopper>>

Take ==
    /\ worker = "checking"
    /\ queue # <<>>
    /\ current' = Head(queue)
    /\ queue' = Tail(queue)
    /\ worker' = "running"
    /\ UNCHANGED <<stopRequested, constructed, handler, promise, stopper>>

(* Whatever handle_forward_binary does, an exception included, the promise *)
(* of the job is given a value.                                            *)
FinishJob(code) ==
    /\ worker = "running"
    /\ promise' = [promise EXCEPT ![current] = code]
    /\ current' = None
    /\ worker' = "checking"
    /\ UNCHANGED <<queue, stopRequested, constructed, handler, stopper>>

------------------------------------------------------------------------------
(* stop(), called by the destructor when HttpServer::run returns.          *)

RequestStop ==
    /\ constructed
    /\ stopper = "idle"
    /\ stopRequested' = TRUE
    /\ stopper' = "notifying"
    /\ UNCHANGED <<queue, constructed, worker, current, handler, promise>>

NotifyStop ==
    /\ stopper = "notifying"
    /\ stopper' = "joining"
    /\ WakeWorker
    /\ UNCHANGED <<queue, stopRequested, constructed, current, handler, promise>>

Join ==
    /\ stopper = "joining"
    /\ worker = "exited"
    /\ stopper' = "joined"
    /\ UNCHANGED <<queue, stopRequested, constructed, worker, current, handler, promise>>

------------------------------------------------------------------------------
Submit(c) == RefuseStopping(c) \/ RefuseFull(c) \/ Enqueue(c)
Run       == Park \/ SpuriousWakeup \/ Exit \/ Take \/ \E code \in Results : FinishJob(code)
Stop      == RequestStop \/ NotifyStop \/ Join

Next ==
    \/ FinishConstruction
    \/ \E c \in Conns : Submit(c) \/ Notify(c) \/ Collect(c)
    \/ Run
    \/ Stop

Spec == Init /\ [][Next]_vars

(* The scheduler runs every thread that can run, and a job ends: its       *)
(* socket calls carry SO_RCVTIMEO and SO_SNDTIMEO. Nothing obliges a       *)
(* client to send a request, the condition variable to wake spuriously, or *)
(* the server to stop.                                                     *)
Fairness ==
    /\ WF_vars(FinishConstruction)
    /\ WF_vars(Park \/ Exit \/ Take)
    /\ WF_vars(\E code \in Results : FinishJob(code))
    /\ \A c \in Conns : WF_vars(Notify(c)) /\ WF_vars(Collect(c))
    /\ WF_vars(NotifyStop)
    /\ WF_vars(Join)

FairSpec == Spec /\ Fairness

------------------------------------------------------------------------------
(* Properties.                                                             *)

(* The queue never holds more than max_queue_size_ jobs, the worker has a  *)
(* current job exactly while it runs one, and every variable keeps its     *)
(* type.                                                                   *)
TypeOK ==
    /\ queue \in Seq(Conns)
    /\ Len(queue) <= MaxQueueSize
    /\ stopRequested \in BOOLEAN
    /\ constructed \in BOOLEAN
    /\ worker \in {"checking", "parked", "running", "exited"}
    /\ current \in Conns \cup {None}
    /\ current # None <=> worker = "running"
    /\ handler \in [Conns -> {"idle", "notifying", "waiting"}]
    /\ promise \in [Conns -> Codes \cup {None}]
    /\ stopper \in {"idle", "notifying", "joining", "joined"}

Queued(c)     == \E i \in 1 .. Len(queue) : queue[i] = c
Unanswered(c) == handler[c] # "idle" /\ promise[c] = None

(* No job is lost and no promise is satisfied twice: a thread that waits   *)
(* without an answer has its job in exactly one place, the queue or the    *)
(* worker's hands, nobody else's job is in either, and a thread that goes  *)
(* back to its socket leaves no answer behind for its next request.        *)
JobConservation ==
    /\ \A c \in Conns : handler[c] = "idle" => promise[c] = None
    /\ \A c \in Conns : Unanswered(c) <=> (Queued(c) \/ current = c)
    /\ \A i, j \in 1 .. Len(queue) : queue[i] = queue[j] => i = j
    /\ \A i \in 1 .. Len(queue) : queue[i] # current

(* The broker admits max_queue_size_ jobs besides the one being executed,  *)
(* and answers 429 to the rest at once instead of making them wait.        *)
BoundedBacklog ==
    Cardinality({c \in Conns : Unanswered(c)}) <= MaxQueueSize + 1

(* A parked worker with something to do has a notification coming: the     *)
(* notify_one made after the mutex is released, or the one of stop().      *)
NoLostWakeup ==
    worker = "parked" =>
        /\ queue # <<>> => \E c \in Conns : handler[c] = "notifying"
        /\ stopRequested => stopper = "notifying"

(* A queued job keeps its place: jobs leave the front of the deque and     *)
(* join its back, so the forwards of a session are executed in the order   *)
(* in which they were admitted.                                            *)
line == (IF current = None THEN <<>> ELSE <<current>>) \o queue

Service == INSTANCE ForwardService WITH
    line     <- line,
    asked    <- {c \in Conns : handler[c] # "idle"},
    answer   <- promise,
    stopping <- stopper # "idle"

ImplementsService == Service!Spec

(* Every connection thread blocked in future.get() is answered, also when  *)
(* the destructor stops the worker meanwhile: it drains the queue before it*)
(* exits. (The premise is about the initial state: the storage of          *)
(* stop_requested_ happened to hold false.)                                *)
EveryForwardAnswered ==
    ~stopRequested =>
        \A c \in Conns : (handler[c] = "notifying") ~> (promise[c] # None)

(* The only way for an admitted forward to hang is that the worker thread   *)
(* has left run() without it: the thread read stop_requested_ as true      *)
(* before the constructor had initialised it, and found the queue empty.   *)
Stranded(c) == worker = "exited" /\ Queued(c)

AnsweredOrStranded ==
    \A c \in Conns : (handler[c] = "notifying") ~> (promise[c] # None \/ Stranded(c))

(* A destructor that has set the flag gets its worker back.                *)
StopCompletes == (stopper = "notifying") ~> (stopper = "joined")
=============================================================================
