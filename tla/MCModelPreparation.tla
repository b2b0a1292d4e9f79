------------------------- MODULE MCModelPreparation -------------------------
(***************************************************************************)
(* A source model of three layers and one with tied embeddings. Slug 1 is  *)
(* cut into two or three stages in the shared work directory, or into two  *)
(* in a job of its own; slug 2 is made of the first two layers. One run is *)
(* told not to upload. The last three options are refused: more layers than*)
(* the model has, more stages than layers, no output.weight.               *)
(***************************************************************************)
EXTENDS ModelPreparation, TLC

Option(slug, source, layers, stages, own) ==
    [slug |-> slug, source |-> source, layers |-> layers, stages |-> stages, own |-> own,
     upload |-> TRUE]

MCOptions ==
    {Option(1, "llama", 0, 2, FALSE), Option(1, "llama", 0, 3, FALSE),
     Option(2, "llama", 2, 2, FALSE), Option(1, "llama", 0, 2, TRUE),
     [Option(1, "llama", 0, 3, FALSE) EXCEPT !.upload = FALSE],
     Option(2, "llama", 4, 2, FALSE), Option(2, "llama", 0, 4, TRUE), Option(2, "tied", 0, 2, FALSE)}

MCPublished ==
    "tied" :> [blocks |-> 2, tied |-> TRUE, llama |-> TRUE, build |-> 3] @@
    "llama" :> [blocks |-> 3, tied |-> FALSE, llama |-> TRUE, build |-> 1]
=============================================================================
