--------------------------- MODULE ForwardService ---------------------------
(***************************************************************************)
(* What a stage promises the threads that call its forward broker, without *)
(* saying how: a bounded line of forwards served one at a time, in the     *)
(* order in which they were admitted, each admitted forward answered once  *)
(* with a result of the runtime, and an overloaded or stopping stage       *)
(* answering at once instead of waiting.                                   *)
(***************************************************************************)
EXTENDS Naturals, Sequences

CONSTANTS
    Conns,         \* threads that submit forwards, each one at a time
    MaxQueueSize,  \* forwards that may wait behind the one being served
    Results,       \* HTTP status codes a served forward may end with
    None           \* "no answer yet"

TooMany     == 429
Unavailable == 503

VARIABLES
    line,      \* admitted forwards, the one being served first
    asked,     \* the threads that wait for an answer
    answer,    \* the answer each thread can read, or None
    stopping   \* the stage is being shut down

vars == <<line, asked, answer, stopping>>

Init ==
    /\ line = <<>>
    /\ asked = {}
    /\ answer = [c \in Conns |-> None]
    /\ stopping = FALSE

(* The line holds the forward being served and MaxQueueSize waiting ones.  *)
Admit(c) ==
    /\ c \notin asked
    /\ ~stopping
    /\ Len(line) <= MaxQueueSize
    /\ line' = Append(line, c)
    /\ asked' = asked \cup {c}
    /\ UNCHANGED <<answer, stopping>>

Refuse(c, code) ==
    /\ c \notin asked
    /\ \/ code = TooMany /\ ~stopping /\ Len(line) >= MaxQueueSize
       \/ code = Unavailable /\ stopping
    /\ asked' = asked \cup {c}
    /\ answer' = [answer EXCEPT ![c] = code]
    /\ UNCHANGED <<line, stopping>>

Serve(code) ==
    /\ line # <<>>
    /\ answer' = [answer EXCEPT ![Head(line)] = code]
    /\ line' = Tail(line)
    /\ UNCHANGED <<asked, stopping>>

Collect(c) ==
    /\ c \in asked
    /\ answer[c] # None
    /\ asked' = asked \ {c}
    /\ answer' = [answer EXCEPT ![c] = None]
    /\ UNCHANGED <<line, stopping>>

Shutdown ==
    /\ ~stopping
    /\ stopping' = TRUE
    /\ UNCHANGED <<line, asked, answer>>

Next ==
    \/ \E c \in Conns : Admit(c) \/ Collect(c)
    \/ \E c \in Conns : \E code \in {TooMany, Unavailable} : Refuse(c, code)
    \/ \E code \in Results : Serve(code)
    \/ Shutdown

Spec == Init /\ [][Next]_vars
=============================================================================
