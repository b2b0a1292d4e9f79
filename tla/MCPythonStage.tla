---------------------------- MODULE MCPythonStage ----------------------------
(***************************************************************************)
(* Instances of PythonStage. The binary route serves two requests, one     *)
(* flow at a time, with repeated, late and reordered copies of a step and  *)
(* a KV cache of one entry. The JSON route serves two requests with two    *)
(* threads and one entry, so that an entry may be evicted at any moment of *)
(* a flow; and one request whose copies may run beside each other, with    *)
(* answers that are forgotten.                                             *)
(***************************************************************************)
EXTENDS PythonStage

CONSTANTS r1, r2, t1, t2

MCSettings ==
    {[clients |-> {r1, r2}, threads |-> {t1}, entries |-> 1, answers |-> 4,
      steps |-> 1, copies |-> 2],
     [clients |-> {r1, r2}, threads |-> {t1, t2}, entries |-> 1, answers |-> 2,
      steps |-> 2, copies |-> 1],
     [clients |-> {r1}, threads |-> {t1, t2}, entries |-> 1, answers |-> 2,
      steps |-> 2, copies |-> 2]}
==============================================================================
