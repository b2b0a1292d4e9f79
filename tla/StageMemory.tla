----------------------------- MODULE StageMemory -----------------------------
(***************************************************************************)
(* What a session's LlamaCpuExecutor keeps beside the K/V rows that        *)
(* StageRuntime describes (dli_stage_cpp/src/runtimes/                     *)
(* llama_cpu_executor.cpp), superposed on the steps of StageSessions:      *)
(*   - cache.v_t, the transposed copy of V that the ggml attention reads   *)
(*     instead of cache.v, with a capacity that grows in steps;            *)
(*   - rng_, the random stream of the sampler, if the stage is the last.   *)
(* Every action is the action of StageSessions with what it does to this   *)
(* memory, so its behaviours are behaviours of StageSessions.              *)
(*                                                                         *)
(* A row of V is the tag StageRuntime gives it; "gap" are the zeros of a   *)
(* freshly grown buffer too. All clients sample and send the same seed     *)
(* with every step, so that a stream is the seed it was started from and   *)
(* the number of draws taken.                                              *)
(***************************************************************************)
EXTENDS StageSessions, FiniteSetsExt

CONSTANT MinCapacity   \* the smallest capacity of v_t, 16 in the code

ASSUME MemoryAssumption == MinCapacity \in Nat \ {0}

VARIABLES
    memory,    \* session -> [vT, rng]
    answered,  \* how many tokens each client got since its last prefill
    odd        \* sessions that served an odd request since their prefill

memoryVars == <<memory, answered, odd>>

FreshMemory == [vT |-> <<>>, rng |-> [seeded |-> FALSE, draws |-> 0]]

MemoryInit ==
    /\ Init
    /\ memory = <<>>
    /\ answered = [r \in Requests |-> 0]
    /\ odd = {}

------------------------------------------------------------------------------
(* attention(): after cache.v holds the row of this position, v_t gets it  *)
(* too, or is copied anew from cache.v when it has become too small.       *)

TransposeAllButLast(rows, capacity, required) ==
    [p \in 1 .. capacity |-> IF p < required THEN rows[p] ELSE "gap"]

Transpose(rows, capacity, required) ==
    [p \in 1 .. capacity |-> IF p <= required THEN rows[p] ELSE "gap"]

Regrown(vT, rows, required) ==
    Transpose(rows, Max({required, 2 * Len(vT), MinCapacity}), required)

Attend(vT, rows, position) ==
    IF Len(vT) < position
    THEN Regrown(vT, rows, position)
    ELSE [vT EXCEPT ![position] = rows[position]]

AttendAll(vT, rows, before, n) ==
    LET kept[i \in 0 .. n] ==
            IF i = 0 THEN vT ELSE Attend(kept[i - 1], rows, before + i)
    IN  kept[n]

(* execute_terminal starts the stream of the given seed when the session   *)
(* holds no position yet, and draws once if the layers did not throw.      *)
ReseedAlways(rng, before) == [seeded |-> TRUE, draws |-> 0]

Reseed(rng, before) == IF before = 0 THEN [seeded |-> TRUE, draws |-> 0] ELSE rng

Drawn(rng, before, outcome) ==
    IF outcome = "done" THEN [Reseed(rng, before) EXCEPT !.draws = @ + 1] ELSE Reseed(rng, before)

(* One forward. What it writes follows from the session before and after.  *)
Executed(req, outcome) ==
    LET old    == SessionFor(sessions, req)[req.id]
        mine   == IF req.id \in DOMAIN memory /\ ~StartsOver(req) THEN memory[req.id] ELSE FreshMemory
        rows   == sessions'[req.id].rows
        before == old.seqLen
    IN  [vT  |-> IF outcome = "early" THEN mine.vT
                 ELSE AttendAll(mine.vT, rows, before, Len(req.tokens)),
         rng |-> Drawn(mine.rng, before, outcome)]

Remember(req, outcome) ==
    memory' = [r \in DOMAIN sessions' |->
                  IF r = req.id THEN Executed(req, outcome) ELSE memory[r]]

------------------------------------------------------------------------------
MPrefill(r, n) ==
    /\ Prefill(r, n)
    /\ Remember(Request(r, "prefill", 0, [i \in 1 .. n |-> i]), "done")
    /\ answered' = [answered EXCEPT ![r] = 1]
    /\ odd' = odd \ {r}

MDecode(r) ==
    /\ Decode(r)
    /\ Remember(Request(r, "decode", fed[r] + 1, <<fed[r] + 1>>), "done")
    /\ answered' = [answered EXCEPT ![r] = @ + 1]
    /\ UNCHANGED odd

MThrow(r, outcome) ==
    /\ Throw(r, outcome)
    /\ Remember(Request(r, "decode", fed[r] + 1, <<fed[r] + 1>>), outcome)
    /\ UNCHANGED <<answered, odd>>

MOdd(r, req) ==
    /\ Odd(r, req)
    /\ Remember(req, "done")
    /\ odd' = odd \cup {r}
    /\ UNCHANGED answered

MRestart ==
    /\ Restart
    /\ memory' = <<>>
    /\ UNCHANGED <<answered, odd>>

MemoryNext ==
    \/ \E r \in Requests : \E n \in PromptLens : MPrefill(r, n)
    \/ \E r \in Requests : MDecode(r)
    \/ \E r \in Requests : \E outcome \in {"early", "late"} : MThrow(r, outcome)
    \/ \E r \in Requests : \E req \in OddRequests(r) : MOdd(r, req)
    \/ MRestart

MemorySpec == MemoryInit /\ [][MemoryNext]_<<vars, memoryVars>>

------------------------------------------------------------------------------
(* Properties.                                                             *)

(* The ggml attention reads what the scalar one would: at every position   *)
(* any layer has written or zeroed, the transposed copy equals cache.v,    *)
(* through growth, forwards that throw half way, positions written a second*)
(* time and holes.                                                         *)
TransposeAgrees ==
    \A r \in DOMAIN sessions :
        /\ Len(memory[r].vT) >= Len(sessions[r].rows)
        /\ \A p \in DOMAIN sessions[r].rows : memory[r].vT[p] = sessions[r].rows[p]

(* A fixed seed is reproducible (docs/ARCHITECTURE.md section 11.8): the   *)
(* n-th token of a generation that was not evicted, lost or left half done *)
(* is drawn with the n-th number of the stream of its seed, whoever used   *)
(* the stage in between. Requests under its own id that are no step of it  *)
(* do consume numbers.                                                     *)
SeedReproduces ==
    \A r \in Requests \ (torn \cup odd) : fed[r] > 0 =>
        memory[r].rng = [seeded |-> TRUE, draws |-> answered[r]]
==============================================================================
