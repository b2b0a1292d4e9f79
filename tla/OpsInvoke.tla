------------------------------ MODULE OpsInvoke -------------------------------
(***************************************************************************)
(* POST /generate from the browser to the native gateway: handleInvoke of  *)
(* ops-ui/server.js with its in-flight lock, the call to the pod, the      *)
(* second attempt through kubectl port-forward when the first one brings   *)
(* no answer, and the gateway at the other end, whose connection threads   *)
(* take turns at generation_mutex and learn of an abandoned call only when *)
(* they try to answer it.                                                  *)
(*                                                                         *)
(* All calls are long inference calls to one namespace, runtime, target    *)
(* and path, so they share one lock key.                                   *)
(***************************************************************************)
EXTENDS Naturals, FiniteSets

CONSTANTS
    Calls,        \* calls of the browser, each made once
    Nobody,       \* no call holds the key
    Timeout,      \* BOOLEAN: timeoutMs > 0
    Signals       \* BOOLEAN: kubectl may be killed by somebody else

ASSUME InvokeAssumption ==
    /\ Nobody \notin Calls
    /\ Timeout \in BOOLEAN
    /\ Signals \in BOOLEAN

Attempts == {"pod", "forward"}

VARIABLES
    inFlight,  \* the call that holds the key in IN_FLIGHT_INVOKES
    call,      \* where each call is in handleInvoke
    outcome,   \* what a call will be answered once its child is gone
    child,     \* the kubectl port-forward of each call
    jobs,      \* attempts the gateway has received: [call, via]
    blocked,   \* those whose thread waits for generation_mutex
    running    \* the one that holds it (at most one)

gateway == <<jobs, blocked, running>>
vars    == <<inFlight, call, outcome, child, gateway>>

Init ==
    /\ inFlight = Nobody
    /\ call = [c \in Calls |-> "new"]
    /\ outcome = [c \in Calls |-> 0]
    /\ child = [c \in Calls |-> "none"]
    /\ jobs = {} /\ blocked = {} /\ running = {}

Job(c, via) == [call |-> c, via |-> via]

GoTo(c, place) == call' = [call EXCEPT ![c] = place]

(* sendJson, and the finally block that gives the key back                 *)
KeyAfterKept(c) == inFlight

KeyAfter(c) == Nobody

Answer(c, code) ==
    /\ GoTo(c, "answered")
    /\ outcome' = [outcome EXCEPT ![c] = code]
    /\ inFlight' = KeyAfter(c)

------------------------------------------------------------------------------
(* handleInvoke up to the first attempt                                    *)

TakeKey(c) ==
    /\ call[c] = "new"
    /\ inFlight = Nobody
    /\ inFlight' = c
    /\ GoTo(c, "resolving")
    /\ UNCHANGED <<outcome, child, gateway>>

Drop(c) ==
    /\ call[c] = "new"
    /\ inFlight # Nobody
    /\ GoTo(c, "answered")
    /\ outcome' = [outcome EXCEPT ![c] = 429]
    /\ UNCHANGED <<inFlight, child, gateway>>

(* kubectl fails, or there is no pod or no candidate address               *)
ResolveFails(c) ==
    /\ call[c] = "resolving"
    /\ \E code \in {404, 500} : Answer(c, code)
    /\ UNCHANGED <<child, gateway>>

CallPod(c) ==
    /\ call[c] = "resolving"
    /\ GoTo(c, "pod")
    /\ jobs' = jobs \cup {Job(c, "pod")}
    /\ UNCHANGED <<inFlight, outcome, child, blocked, running>>

PodUnreachable(c) ==
    /\ call[c] = "resolving"
    /\ GoTo(c, "spawning")
    /\ UNCHANGED <<inFlight, outcome, child, gateway>>

(* The AbortController fires; the gateway is not told.                     *)
AbortPod(c) ==
    /\ Timeout
    /\ call[c] = "pod"
    /\ GoTo(c, "spawning")
    /\ UNCHANGED <<inFlight, outcome, child, gateway>>

------------------------------------------------------------------------------
(* tryPortForwardCall                                                      *)

Spawn(c) ==
    /\ call[c] = "spawning"
    /\ GoTo(c, "starting")
    /\ child' = [child EXCEPT ![c] = "alive"]
    /\ UNCHANGED <<inFlight, outcome, gateway>>

Settle(c, code) ==
    /\ GoTo(c, "stopping")
    /\ outcome' = [outcome EXCEPT ![c] = code]

CallForward(c) ==
    /\ call[c] = "starting"
    /\ child[c] = "alive"
    /\ GoTo(c, "forward")
    /\ jobs' = jobs \cup {Job(c, "forward")}
    /\ UNCHANGED <<inFlight, outcome, child, blocked, running>>

(* The startup timer, or the child's exit event                            *)
StartFails(c) ==
    /\ call[c] = "starting"
    /\ Settle(c, 502)
    /\ UNCHANGED <<inFlight, child, gateway>>

AbortForward(c) ==
    /\ call[c] = "forward"
    /\ Timeout \/ child[c] # "alive"
    /\ Settle(c, 502)
    /\ UNCHANGED <<inFlight, child, gateway>>

ChildExits(c) ==
    /\ call[c] \in {"starting", "forward"}
    /\ child[c] = "alive"
    /\ child' = [child EXCEPT ![c] = "exited"]
    /\ UNCHANGED <<inFlight, call, outcome, gateway>>

ChildKilled(c) ==
    /\ Signals
    /\ call[c] \in {"starting", "forward"}
    /\ child[c] = "alive"
    /\ child' = [child EXCEPT ![c] = "killed"]
    /\ UNCHANGED <<inFlight, call, outcome, gateway>>

(* stopChildProcess returns at once if the child has an exit code, and     *)
(* otherwise waits for its exit event, which SIGTERM brings about. A child *)
(* that died of a signal has no exit code, and its event is in the past.   *)
Terminate(c) ==
    /\ call[c] = "stopping"
    /\ child[c] = "alive"
    /\ child' = [child EXCEPT ![c] = "terminated"]
    /\ UNCHANGED <<inFlight, call, outcome, gateway>>

GoneAlways(c) == TRUE

GoneByEvent(c) == child[c] = "terminated"

Gone(c) == child[c] \in {"exited", "terminated"}

Stopped(c) ==
    /\ call[c] = "stopping"
    /\ Gone(c)
    /\ Answer(c, outcome[c])
    /\ UNCHANGED <<child, gateway>>

------------------------------------------------------------------------------
(* The native gateway: one thread per connection, one generation at a time *)

Busy == running # {}

Block(j) ==
    /\ j \in jobs \ (blocked \cup running)
    /\ Busy
    /\ blocked' = blocked \cup {j}
    /\ UNCHANGED <<inFlight, call, outcome, child, jobs, running>>

Lock(j) ==
    /\ j \in jobs \ running
    /\ ~Busy
    /\ running' = running \cup {j}
    /\ blocked' = blocked \ {j}
    /\ UNCHANGED <<inFlight, call, outcome, child, jobs>>

Listening(j) == call[j.call] = j.via /\ (j.via = "forward" => child[j.call] = "alive")

UnlockedIfHeard(j) == IF Listening(j) THEN running \ {j} ELSE running

Unlocked(j) == running \ {j}

(* The generation ends and its thread sends the answer. 200 stands for any *)
(* answer of the gateway: handleInvoke passes its status on inside a 200.  *)
Generated(j) ==
    /\ j \in running
    /\ running' = Unlocked(j)
    /\ jobs' = jobs \ {j}
    /\ IF ~Listening(j)
       THEN UNCHANGED <<inFlight, call, outcome>>
       ELSE IF j.via = "pod"
            THEN Answer(j.call, 200)
            ELSE Settle(j.call, 200) /\ UNCHANGED inFlight
    /\ UNCHANGED <<child, blocked>>

Proceed(c) ==
    \/ TakeKey(c) \/ Drop(c) \/ ResolveFails(c) \/ CallPod(c) \/ PodUnreachable(c)
    \/ AbortPod(c) \/ Spawn(c) \/ CallForward(c) \/ StartFails(c)
    \/ AbortForward(c) \/ Terminate(c) \/ Stopped(c)

Work(j) == Block(j) \/ Lock(j) \/ Generated(j)

Next ==
    \/ \E c \in Calls : Proceed(c) \/ ChildExits(c) \/ ChildKilled(c)
    \/ \E c \in Calls, via \in Attempts : Work(Job(c, via))

Spec == Init /\ [][Next]_vars

(* Node runs callbacks that are due and timers that have expired, kubectl  *)
(* obeys SIGTERM, and the gateway gets every generation to an end (the     *)
(* property GenerationEndsAtLast of NativePipeline). Nothing makes the     *)
(* browser call, or kubectl die.                                           *)
FairSpec ==
    /\ Spec
    /\ \A c \in Calls : WF_vars(call[c] # "new" /\ Proceed(c))
    /\ \A c \in Calls, via \in Attempts : WF_vars(Work(Job(c, via)))

------------------------------------------------------------------------------
Open(c) == call[c] \notin {"new", "answered"}

Codes == {200, 404, 429, 500, 502}

(* Every variable keeps its type, and generation_mutex has one owner.      *)
TypeOK ==
    /\ inFlight \in Calls \cup {Nobody}
    /\ call \in [Calls -> {"new", "resolving", "pod", "spawning", "starting",
                           "forward", "stopping", "answered"}]
    /\ outcome \in [Calls -> Codes \cup {0}]
    /\ child \in [Calls -> {"none", "alive", "exited", "terminated", "killed"}]
    /\ jobs \subseteq [call : Calls, via : Attempts]
    /\ blocked \subseteq jobs \ running
    /\ running \subseteq jobs
    /\ Cardinality(running) <= 1

(* The key is held exactly while a call is being handled, whichever of its *)
(* many returns handleInvoke takes: the next call is neither locked out by *)
(* an answered one nor let in beside an open one.                          *)
KeyFollowsCall == \A c \in Calls : Open(c) <=> inFlight = c

(* No kubectl port-forward outlives the call it was started for.           *)
NoOrphanedChild == \A c \in Calls : child[c] = "alive" => Open(c)

(* Every call that was accepted is answered, whichever way it takes; only  *)
(* a kubectl that died of a signal can keep stopChildProcess waiting.      *)
CallsAreAnswered ==
    \A c \in Calls : Open(c) ~> (call[c] = "answered" \/ child[c] = "killed")

(* What the gateway is left with after a timeout is worked off in the end. *)
GatewayGetsIdle == <>[](\A c \in Calls : ~Open(c)) => <>[](jobs = {})
===============================================================================
