---------------------------- MODULE StageSessions ----------------------------
(***************************************************************************)
(* The sessions of one native stage over its lifetime. Several generations *)
(* use the stage through its single worker thread, one forward at a time;  *)
(* each starts with a prefill and continues with decode steps, in any      *)
(* interleaving. A forward may throw, a client may send a request that the *)
(* KV bookkeeping calls invalid or that asks for no KV cache at all, and   *)
(* the process may be restarted, which loses the map.                      *)
(***************************************************************************)
EXTENDS StageRuntime

CONSTANTS
    PromptLens,   \* numbers of tokens a prefill may carry
    MaxLen,       \* bound: positions a generation feeds
    MaxFaults     \* bound: forwards that throw, odd requests and restarts

ASSUME SessionsAssumption ==
    /\ PromptLens \subseteq Nat \ {0}
    /\ MaxLen \in Nat
    /\ MaxFaults \in Nat

VARIABLES
    sessions,   \* sessions_
    fed,        \* how many positions each client believes the stage holds
    torn,       \* requests whose session was evicted, lost or left half done
    holed,      \* requests with a forward that threw since their prefill
    faults

vars == <<sessions, fed, torn, holed, faults>>

Init ==
    /\ sessions = NoSessions
    /\ fed = [r \in Requests |-> 0]
    /\ torn = {}
    /\ holed = {}
    /\ faults = 0

Evicted(after) == DOMAIN sessions \ DOMAIN after

(* A generation starts, or starts again after it failed.                   *)
Prefill(r, n) ==
    LET after == Forward(sessions, Request(r, "prefill", 0, [i \in 1 .. n |-> i]), "done").sessions
    IN  /\ n <= MaxLen
        /\ sessions' = after
        /\ fed' = [fed EXCEPT ![r] = n]
        /\ torn' = (torn \ {r}) \cup Evicted(after)
        /\ holed' = holed \ {r}
        /\ UNCHANGED faults

Decode(r) ==
    LET next  == fed[r] + 1
        after == Forward(sessions, Request(r, "decode", next, <<next>>), "done").sessions
    IN  /\ fed[r] > 0
        /\ next <= MaxLen
        /\ sessions' = after
        /\ fed' = [fed EXCEPT ![r] = next]
        /\ torn' = torn \cup Evicted(after)
        /\ holed' = IF r \in DOMAIN sessions THEN holed ELSE holed \ {r}
        /\ UNCHANGED faults

(* The layers throw: the stage answers 400 and keeps what it has done.     *)
Throw(r, outcome) ==
    LET next  == fed[r] + 1
        after == Forward(sessions, Request(r, "decode", next, <<next>>), outcome).sessions
    IN  /\ faults < MaxFaults
        /\ fed[r] > 0
        /\ next <= MaxLen
        /\ sessions' = after
        /\ torn' = torn \cup {r} \cup Evicted(after)
        /\ holed' = holed \cup {r}
        /\ faults' = faults + 1
        /\ UNCHANGED fed

(* A request the bookkeeping rejects without refusing it (an unknown mode, *)
(* a decode of two tokens) or with kv_cache_enabled false: the layers run  *)
(* all the same, at the position where the session stands.                 *)
Odd(r, req) ==
    LET after == Forward(sessions, req, "done").sessions
    IN  /\ faults < MaxFaults
        /\ sessions' = after
        /\ torn' = torn \cup Evicted(after)
        /\ holed' = IF r \in DOMAIN sessions THEN holed ELSE holed \ {r}
        /\ faults' = faults + 1
        /\ UNCHANGED fed

OddRequests(r) ==
    {Request(r, "decode", fed[r] + 1, <<Stray, Stray>>),
     Request(r, "other", 0, <<Stray>>),
     [Request(r, "decode", fed[r] + 1, <<Stray>>) EXCEPT !.kv = FALSE]}

Restart ==
    /\ faults < MaxFaults
    /\ sessions' = NoSessions
    /\ torn' = torn \cup DOMAIN sessions
    /\ holed' = {}
    /\ faults' = faults + 1
    /\ UNCHANGED fed

Next ==
    \/ \E r \in Requests : \E n \in PromptLens : Prefill(r, n)
    \/ \E r \in Requests : Decode(r)
    \/ \E r \in Requests : \E outcome \in {"early", "late"} : Throw(r, outcome)
    \/ \E r \in Requests : \E req \in OddRequests(r) : Odd(r, req)
    \/ Restart

Spec == Init /\ [][Next]_vars

------------------------------------------------------------------------------
(* Properties.                                                             *)

(* Every session has its fields, and whichever requests come the map holds *)
(* at most max_sessions sessions once a forward has pruned it.             *)
TypeOK ==
    /\ DOMAIN sessions \subseteq Requests
    /\ Cardinality(DOMAIN sessions) <= MaxSessions
    /\ \A r \in DOMAIN sessions :
           /\ sessions[r].seqLen \in Nat
           /\ sessions[r].valid \in BOOLEAN
           /\ sessions[r].rows \in Seq({"ref", "off", "gap"})
    /\ fed \in [Requests -> 0 .. MaxLen]
    /\ torn \subseteq Requests
    /\ holed \subseteq Requests
    /\ faults \in 0 .. MaxFaults

(* What attention reads was written: without a forward that threw, the rows*)
(* below seq_len hold no zeros left by resize(), whatever odd requests were*)
(* served in between.                                                      *)
NoHoles ==
    \A r \in DOMAIN sessions \ holed :
        /\ sessions[r].seqLen <= Len(sessions[r].rows)
        /\ \A p \in 1 .. sessions[r].seqLen : sessions[r].rows[p] # "gap"

(* A generation whose session was neither evicted nor lost nor left half   *)
(* done finds at the stage exactly the positions it fed, equal to those of *)
(* the reference run: the other generations and the odd requests served in *)
(* between leave no trace.                                                 *)
CacheFollowsClient ==
    \A r \in Requests \ torn : fed[r] > 0 =>
        /\ r \in DOMAIN sessions
        /\ sessions[r].seqLen = fed[r]
        /\ RefUpTo(sessions[r].rows, fed[r])

(* Eviction makes room and no more: a forward that erases the session of   *)
(* another request leaves the map full, with the requester's session in it.*)
EvictsOnlyForRoom ==
    [][\A r \in DOMAIN sessions \ DOMAIN sessions' :
           \/ DOMAIN sessions' = {}
           \/ Cardinality(DOMAIN sessions') = MaxSessions]_sessions
=============================================================================
