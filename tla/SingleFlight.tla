----------------------------- MODULE SingleFlight -----------------------------
(***************************************************************************)
(* What "single-flight with a queue" promises the callers of the Python    *)
(* gateway: one guarded generation at a time, a bounded number of callers  *)
(* waiting for their turn, everybody else turned away. The order in which  *)
(* waiting callers get their turn is not promised.                         *)
(***************************************************************************)
EXTENDS Naturals, FiniteSets

CONSTANTS Callers, MaxWaiting

VARIABLES busy, line   \* somebody generates, who waits

Init == busy = FALSE /\ line = {}

Enter ==
    /\ ~busy
    /\ busy' = TRUE
    /\ UNCHANGED line

Queue(c) ==
    /\ busy
    /\ c \notin line
    /\ Cardinality(line) < MaxWaiting
    /\ line' = line \cup {c}
    /\ UNCHANGED busy

Turn(c) ==
    /\ ~busy
    /\ c \in line
    /\ busy' = TRUE
    /\ line' = line \ {c}

Leave ==
    /\ busy
    /\ busy' = FALSE
    /\ UNCHANGED line

Next == Enter \/ Leave \/ \E c \in Callers : Queue(c) \/ Turn(c)

Spec == Init /\ [][Next]_<<busy, line>>
===============================================================================
