--------------------------- MODULE MCModelRollout ---------------------------
(***************************************************************************)
(* Two stages. As deployed: a model of three layers whose map was written  *)
(* by hand, one layer and two. "resplit": the same model as the controller *)
(* splits it. "other": a second model with the split of the first. "short":*)
(* a third one, prepared for one stage.                                    *)
(***************************************************************************)
EXTENDS ModelRollout, TLC

Model(blocks, build) == [blocks |-> blocks, tied |-> FALSE, llama |-> TRUE, build |-> build]

Generated(slug, model, S) ==
    [slug |-> slug, model |-> model, layers |-> model.blocks,
     split |-> [k \in 1 .. S |-> LayersOf(model.blocks, S, k)]]

MCCatalog ==
    "deployed" :> [slug |-> 1, model |-> Model(3, 1), layers |-> 3, split |-> <<<<0>>, <<1, 2>>>>] @@
    "resplit"  :> Generated(2, Model(3, 1), 2) @@
    "other"    :> [slug |-> 3, model |-> Model(3, 2), layers |-> 3, split |-> <<<<0>>, <<1, 2>>>>] @@
    "short"    :> Generated(4, Model(1, 3), 1)
=============================================================================
