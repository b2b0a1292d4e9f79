---------------------------- MODULE StageRuntime ----------------------------
(***************************************************************************)
(* LlamaPartialRuntime::forward of a native stage, as operators on its     *)
(* sessions_ map (dli_stage_cpp/src/runtimes/llama_partial_runtime.cpp and *)
(* llama_cpu_executor.cpp). There are no variables here: StageSessions     *)
(* runs the operators on one stage, NativePipeline on a line of stages.    *)
(*                                                                         *)
(* Activations are abstracted to what can go wrong with them. The reference*)
(* run of a request feeds position 1, 2, 3, ... once each, in that order.  *)
(* An input vector carries the position of the reference run it is equal   *)
(* to, or Stray; a K/V row of the cache is "ref" (what the reference run   *)
(* holds at that position), "off" (something else), or "gap" (zeros that   *)
(* resize() put there and no layer wrote).                                 *)
(***************************************************************************)
EXTENDS Naturals, Sequences, FiniteSets

CONSTANTS
    Requests,     \* request ids, in the order of the std::map's keys
    MaxSessions   \* DLI_NATIVE_MAX_SESSIONS, at least 1

ASSUME RuntimeAssumption ==
    /\ Requests \subseteq Nat
    /\ MaxSessions \in Nat \ {0}

Stray == 0    \* an input vector that the reference run does not have

NoSessions == <<>>
Fresh      == [seqLen |-> 0, valid |-> TRUE, rows |-> <<>>]

Request(id, mode, index, tokens) ==
    [id |-> id, mode |-> mode, index |-> index, tokens |-> tokens, kv |-> TRUE]

------------------------------------------------------------------------------
(* prune_sessions_except: begin() of the map, or its successor when begin()*)
(* is the session to keep, is erased until max_sessions are left: what     *)
(* stays is the kept session and the largest of the other keys.            *)

RetainedTooFew(ids, keep) ==
    {r \in ids : r = keep \/ Cardinality({q \in ids \ {keep} : q > r}) + 2 < MaxSessions}

RetainedOneTooMany(ids, keep) ==
    {r \in ids : r = keep \/ Cardinality({q \in ids \ {keep} : q > r}) < MaxSessions}

Retained(ids, keep) ==
    {r \in ids : r = keep \/ Cardinality({q \in ids \ {keep} : q > r}) + 1 < MaxSessions}

(* session_for_request: a prefill at index 0 forgets the old session, and  *)
(* a request without a session gets a fresh one.                           *)
SessionForKeepingOld(sessions, req) ==
    [r \in Retained(DOMAIN sessions \cup {req.id}, req.id) |->
        IF r \in DOMAIN sessions THEN sessions[r] ELSE Fresh]

StartsOver(req) == req.mode = "prefill" /\ req.index = 0

SessionFor(sessions, req) ==
    [r \in Retained(DOMAIN sessions \cup {req.id}, req.id) |->
        IF r \in DOMAIN sessions /\ ~(r = req.id /\ StartsOver(req))
        THEN sessions[r] ELSE Fresh]

(* update_kv_cache_for_request: seq_len moves before anything is executed; *)
(* valid is sticky.                                                        *)
WellFormed(req) ==
    \/ req.mode = "prefill" /\ req.tokens # <<>>
    \/ req.mode = "decode" /\ Len(req.tokens) = 1

AdvanceAlways(session, req) ==
    [session EXCEPT !.seqLen = @ + Len(req.tokens), !.valid = @ /\ WellFormed(req)]

Advance(session, req) ==
    IF ~req.kv THEN session
    ELSE [session EXCEPT !.seqLen = IF WellFormed(req) THEN @ + Len(req.tokens) ELSE @,
                         !.valid  = @ /\ WellFormed(req)]

------------------------------------------------------------------------------
(* run_layer / attention: the token t of the request is written at position*)
(* kv_seq_before + t, after a resize that fills what was skipped with      *)
(* zeros, and attends everything up to and including its own position.     *)

RefUpTo(rows, pos) == pos <= Len(rows) /\ \A p \in 1 .. pos : rows[p] = "ref"

WriteRows(rows, before, tokens) ==
    LET last == before + Len(tokens)
        size == IF Len(rows) < last THEN last ELSE Len(rows)
        Row(p) == IF /\ RefUpTo(rows, before)
                     /\ \A q \in before + 1 .. p : tokens[q - before] = q
                  THEN "ref" ELSE "off"
    IN  [p \in 1 .. size |->
            CASE p \in before + 1 .. last -> Row(p)
              [] p <= Len(rows) /\ p \notin before + 1 .. last -> rows[p]
              [] OTHER -> "gap"]

(* The activations the executor returns, one per token of the request.     *)
Activations(rows, before, n) ==
    [i \in 1 .. n |-> IF rows[before + i] = "ref" THEN before + i ELSE Stray]

(* forward: the session is found and its seq_len advanced, then the layers *)
(* run. They may throw before a row is complete in every layer ("early": a *)
(* token id out of range, an allocation that fails) or after ("late": the  *)
(* partition has no output norm or lm_head).                               *)
Outcomes == {"done", "early", "late"}

ForwardAtSeqAfter(sessions, req, outcome) ==
    LET found   == SessionFor(sessions, req)
        session == found[req.id]
        before  == Advance(session, req).seqLen
        rows    == IF outcome = "early" THEN session.rows
                   ELSE WriteRows(session.rows, before, req.tokens)
    IN  [sessions |-> [found EXCEPT ![req.id] = [Advance(session, req) EXCEPT !.rows = rows]],
         out      |-> IF outcome = "done"
                      THEN Activations(rows, before, Len(req.tokens)) ELSE <<>>]

Forward(sessions, req, outcome) ==
    LET found   == SessionFor(sessions, req)
        session == found[req.id]
        before  == session.seqLen
        rows    == IF outcome = "early" THEN session.rows
                   ELSE WriteRows(session.rows, before, req.tokens)
    IN  [sessions |-> [found EXCEPT ![req.id] = [Advance(session, req) EXCEPT !.rows = rows]],
         out      |-> IF outcome = "done"
                      THEN Activations(rows, before, Len(req.tokens)) ELSE <<>>]
=============================================================================
