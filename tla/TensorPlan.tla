----------------------------- MODULE TensorPlan -----------------------------
(***************************************************************************)
(* How the native tools cut a GGUF file into the shards of a partition     *)
(* graph and how a shard is checked: by the validator when it is made      *)
(* (dli_tools_cpp, with partition_plan.cpp, partition_tensor_assignment.cpp*)
(* and gguf_inspector.cpp of dli_common_cpp) and by the stage that loads it*)
(* (llama_partial_runtime.cpp). A GGUF file is its metadata, the set of its*)
(* tensor names and the build its tensor data comes from. A tensor is named*)
(* by the prefix in front of its layer, or by itself, and two of them stand*)
(* for the tensors of a layer.                                             *)
(***************************************************************************)
EXTENDS StageMap

Tensor(name, layer) == [name |-> name, layer |-> layer]

Embedding == Tensor("token_embd.weight", None)
Norm      == Tensor("output_norm.weight", None)
LmHead    == Tensor("output.weight", None)
Block(i)  == {Tensor("blk.attn", i), Tensor("blk.ffn", i)}

(* A model as published: its layers, and whether it has an output.weight,  *)
(* which a model with tied embeddings lacks.                               *)
TensorsOf(model) ==
    (UNION {Block(i) : i \in 0 .. model.blocks - 1})
        \cup {Embedding, Norm, Tensor("rope_freqs.weight", None)}
        \cup (IF model.tied THEN {} ELSE {LmHead})

------------------------------------------------------------------------------
(* build_llama_tensor_name_plan: required names and required prefixes      *)

RequiredNames(part) ==
    (IF part.embedding THEN {Embedding} ELSE {})
        \cup (IF part.norm THEN {Norm} ELSE {})
        \cup (IF part.lm_head THEN {LmHead} ELSE {})

RequiredLayers(part) == ToSet(part.layers)

HasPrefix(tensor, layer) == tensor \in Block(layer)

Matches(tensor, part) ==
    \/ tensor \in RequiredNames(part)
    \/ \E layer \in RequiredLayers(part) : HasPrefix(tensor, layer)

(* assign_tensors_to_partition: a prefix is there if any tensor has it     *)
Missing(tensors, part) ==
    \/ ~(RequiredNames(part) \subseteq tensors)
    \/ \E layer \in RequiredLayers(part) : \A t \in tensors : ~HasPrefix(t, layer)

Assigned(tensors, part) == {t \in tensors : Matches(t, part)}

------------------------------------------------------------------------------
(* dli-partition-manifest, and load_partition_manifest, which reads back   *)
(* what it wrote: one manifest for each partition of a map that was read.  *)

Partitions(read) == ToSet(read.partitions)
Ids(read) == {part.partition_id : part \in Partitions(read)}
PartitionOf(k, read) == CHOOSE part \in Partitions(read) : part.partition_id = k

ManifestRefused(read, model) ==
    \/ ~Accepted(read)
    \/ \E part \in Partitions(read) : Missing(TensorsOf(model), part)

Manifest(part, model) == [part |-> part, tensors |-> Assigned(TensorsOf(model), part)]

Manifests(read, model) == [k \in Ids(read) |-> Manifest(PartitionOf(k, read), model)]

(* write_one_shard: all metadata of the source, the dli.* keys of the      *)
(* manifest and the data of its tensors. A manifest of another model may   *)
(* name a tensor the source does not have.                                 *)
Writable(manifest, model) == manifest.tensors \subseteq TensorsOf(model)

Shard(manifest, model) ==
    [part |-> manifest.part, tensors |-> manifest.tensors, data |-> model.build]

(* A file gguf_write_to_file could not finish: its header is complete, what*)
(* follows is not.                                                         *)
Cut(shard) == [shard EXCEPT !.data = None]

------------------------------------------------------------------------------
(* validate_one_shard. Only metadata and names are looked at.              *)

Identity(part) == <<part.stage_id, part.partition_id>>
Contents(part) == <<part.layers, part.embedding, part.norm, part.lm_head, part.next_stage_url>>

ValidShard(shard, manifest, part) ==
    /\ Identity(shard.part) = Identity(manifest.part)
    /\ manifest.part.stage_id = part.stage_id
    /\ Contents(shard.part) = Contents(part)
    /\ shard.tensors = manifest.tensors
    /\ ~Missing(shard.tensors, part)
    /\ shard.tensors = Assigned(shard.tensors, part)

ValidPartitionIfListed(k, read, manifests, shards) ==
    k \in Ids(read) =>
        /\ k \in DOMAIN shards
        /\ ValidShard(shards[k], manifests[k], PartitionOf(k, read))

(* find_partition_config throws for a manifest of a partition that the map *)
(* does not list.                                                          *)
ValidPartition(k, read, manifests, shards) ==
    /\ k \in Ids(read)
    /\ k \in DOMAIN shards
    /\ ValidShard(shards[k], manifests[k], PartitionOf(k, read))

(* dli-gguf-shard-validate goes through the manifests it finds.            *)
Validated(read, manifests, shards) ==
    /\ Accepted(read)
    /\ \A k \in DOMAIN manifests : ValidPartition(k, read, manifests, shards)

------------------------------------------------------------------------------
(* A stage's runtime compares the shard it finds with its own item of the  *)
(* map (load_shard_metadata_from_gguf, validate_shard_against_stage_config)*)
(* and loads the data of all its tensors; a file that was cut is too short.*)

LoadableWithAnyLayers(shard, part) ==
    /\ shard.part.stage_id = part.stage_id
    /\ shard.part.next_stage_url = part.next_stage_url
    /\ shard.part.embedding = part.embedding
    /\ shard.part.norm = part.norm
    /\ shard.part.lm_head = part.lm_head
    /\ shard.data # None

Loadable(shard, part) ==
    /\ shard.part.stage_id = part.stage_id
    /\ Contents(shard.part) = Contents(part)
    /\ shard.data # None
=============================================================================
