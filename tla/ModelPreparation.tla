-------------------------- MODULE ModelPreparation --------------------------
(***************************************************************************)
(* dli-native-model-controller prepare: it downloads a GGUF model, splits  *)
(* its layers into a stage map, runs the manifest, shard and validation    *)
(* tools over a work directory, copies what they leave into an artifact    *)
(* directory and pushes that to the artifact repository of the hub, unless *)
(* it is told --no-upload. Then it prints the payload that activates the   *)
(* model.                                                                  *)
(*                                                                         *)
(* A preparation is one run of it: a Kubernetes job in a work directory of *)
(* its own, or an operator's run in a work directory that earlier runs have*)
(* left behind. Nothing is cleaned up: the manifests directory serves every*)
(* slug, the shards and artifacts of one slug share a directory. A run that*)
(* fails or is killed leaves what it wrote. Models are republished under   *)
(* the same revision while runs are under way.                             *)
(***************************************************************************)
EXTENDS TensorPlan

CONSTANTS
    Preparations,   \* runs of the controller
    Options,        \* [slug, source, layers, stages, own, upload]: layers = 0 for the model's count
    Published,      \* [source -> [blocks, tied, llama, build]], a model as TensorPlan has it
    MaxBuilds,      \* bound: how often a source is republished
    MaxBadWrites    \* bound: how many shard files the writer fails to write

Sources == DOMAIN Published
Slugs   == {o.slug : o \in Options}
Shared  == 0

ASSUME PreparationAssumption ==
    /\ Preparations \subseteq Nat \ {Shared}
    /\ \A o \in Options : /\ o.source \in Sources /\ o.own \in BOOLEAN /\ o.upload \in BOOLEAN
                         /\ o.layers \in Int /\ o.stages \in Int
    /\ \A s \in Sources : Published[s].blocks \in Int

VARIABLES
    builds,      \* [source -> which build of the model the repository holds]
    work,        \* [directory -> [manifests, shards, artifacts]]
    prep,        \* [preparation -> [at, options, model, map, base]]
    commits,     \* the artifact repository: a sequence of [slug -> directory]
    payloads,    \* activation payloads printed: [slug, map, upload], by a run that uploads or not
    badWrites    \* bound: shard files not written or cut

vars == <<builds, work, prep, commits, payloads, badWrites>>

------------------------------------------------------------------------------
(* Stage maps are kept as what generate_stage_map makes them from          *)

StageMapOf(slug, layers, stages) == [slug |-> slug, layers |-> layers, stages |-> stages]

Layers(o) == IF o.layers > 0 THEN o.layers ELSE Published[o.source].blocks

StageMaps ==
    {StageMapOf(o.slug, Layers(o), o.stages) : o \in {o \in Options : Splittable(Layers(o), o.stages)}}

Read == [m \in StageMaps |-> ReadGateway(GeneratedMap(m.slug, m.layers, m.stages))]

NoFiles == <<>>
NoDirectory == [shards |-> NoFiles, map |-> StageMapOf(None, 0, 0), full |-> None]

EmptyWork ==
    [manifests |-> NoFiles,
     shards    |-> [s \in Slugs |-> NoFiles],
     artifacts |-> [s \in Slugs |-> NoDirectory]]

Idle == [at |-> "idle"]

Init ==
    /\ builds = [s \in Sources |-> Published[s].build]
    /\ work = [d \in Preparations \cup {Shared} |-> EmptyWork]
    /\ prep = [p \in Preparations |-> Idle]
    /\ commits = <<[s \in Slugs |-> NoDirectory]>>
    /\ payloads = {}
    /\ badWrites = 0

Running(p) == prep[p].at \notin {"idle", "done", "failed"}

Dir(p) == IF prep[p].options.own THEN p ELSE Shared

GoTo(p, at) == prep' = [prep EXCEPT ![p].at = at]

(* A run ends, well or not. The directory of a job goes with its pod.      *)
End(p, at) ==
    /\ prep' = [prep EXCEPT ![p] = [at |-> at]]
    /\ work' = IF prep[p].options.own THEN [work EXCEPT ![p] = EmptyWork] ELSE work

Fail(p) == End(p, "failed")

(* A step that writes to the work directory, and may die half way          *)
Leaves(p, files, done, at) ==
    IF done THEN work' = [work EXCEPT ![Dir(p)] = files] /\ GoTo(p, at)
    ELSE /\ prep' = [prep EXCEPT ![p] = [at |-> "failed"]]
         /\ work' = [work EXCEPT ![Dir(p)] = IF prep[p].options.own THEN EmptyWork ELSE files]

(* Files, with the ones that are there already kept unless written again   *)
Written(files, there) ==
    [k \in DOMAIN files \cup DOMAIN there |-> IF k \in DOMAIN files THEN files[k] ELSE there[k]]

(* The files of the n lowest partitions: what a loop over a sorted listing *)
(* has come to                                                             *)
Lowest(n, ids) == {k \in ids : Cardinality({i \in ids : i < k}) < n}

------------------------------------------------------------------------------
(* Runs are numbered as they start. A work directory has one at a time.    *)
Begin(p) ==
    /\ prep[p].at = "idle"
    /\ \A q \in Preparations : q < p => prep[q].at # "idle"
    /\ \E o \in Options :
           /\ o.own \/ \A q \in Preparations : Running(q) => prep[q].options.own
           /\ prep' = [prep EXCEPT ![p] = [at |-> "download", options |-> o]]
    /\ UNCHANGED <<builds, work, commits, payloads, badWrites>>

(* download_model, inspect_gguf, the checks of prepare and split_layers,   *)
(* and generate_stage_map                                                  *)
Download(p) ==
    /\ prep[p].at = "download"
    /\ LET o      == prep[p].options
           model  == [Published[o.source] EXCEPT !.build = builds[o.source]]
       IN  IF model.llama /\ Splittable(Layers(o), o.stages)
           THEN /\ prep' = [prep EXCEPT ![p] =
                       [at |-> "manifests", options |-> o, model |-> model,
                        map |-> StageMapOf(o.slug, Layers(o), o.stages)]]
                /\ UNCHANGED work
           ELSE Fail(p)
    /\ UNCHANGED <<builds, commits, payloads, badWrites>>

(* dli-partition-manifest: the manifests of the lowest n partitions are    *)
(* written before it ends or is killed.                                    *)
WriteManifests(p) ==
    /\ prep[p].at = "manifests"
    /\ LET read == Read[prep[p].map]
       IN  IF ManifestRefused(read, prep[p].model)
           THEN Fail(p)
           ELSE LET new == Manifests(read, prep[p].model)
                IN  \E n \in 0 .. Cardinality(DOMAIN new) :
                        Leaves(p, [work[Dir(p)] EXCEPT !.manifests =
                                      Written([k \in Lowest(n, DOMAIN new) |-> new[k]], @)],
                               n = Cardinality(DOMAIN new), "shards")
    /\ UNCHANGED <<builds, commits, payloads, badWrites>>

(* dli-gguf-shard-writer: one shard for each manifest of the directory, in *)
(* the order of their names. It ignores what gguf_write_to_file returns: a *)
(* file in bad is the one that was there before or ends where the disk was *)
(* full. The writer gives up at a manifest it cannot serve, and may be     *)
(* killed, also while it writes the next file.                             *)
NotWritten(old, new) ==
    {[k \in DOMAIN old \cup (DOMAIN new \ kept) |->
        IF k \in DOMAIN new \ kept THEN Cut(new[k]) ELSE old[k]] :
        kept \in SUBSET DOMAIN new}

WriteShards(p) ==
    /\ prep[p].at = "shards"
    /\ LET manifests == work[Dir(p)].manifests
           slug  == prep[p].options.slug
           old   == work[Dir(p)].shards[slug]
           ids   == DOMAIN manifests
           fits  == {k \in ids : \A i \in ids : i <= k => Writable(manifests[i], prep[p].model)}
           Shards(ks) == [k \in ks |-> Shard(manifests[k], prep[p].model)]
       IN  \E n \in 0 .. Cardinality(fits) :
               LET good == Lowest(n, fits)
                   done == n = Cardinality(ids)
               IN  \E bad \in {{}} \cup
                             (IF done THEN {b \in SUBSET good : Cardinality(b) + badWrites <= MaxBadWrites}
                              ELSE {Lowest(n + 1, fits) \ good}) :
                   \E left \in NotWritten(old, Shards(bad)) :
                       /\ Leaves(p, [work[Dir(p)] EXCEPT !.shards[slug] =
                                         Written(Shards(good \ bad), left)], done, "validate")
                       /\ badWrites' = badWrites + IF done THEN Cardinality(bad) ELSE 0
    /\ UNCHANGED <<builds, commits, payloads>>

(* dli-gguf-shard-validate                                                 *)
Validate(p) ==
    /\ prep[p].at = "validate"
    /\ IF Validated(Read[prep[p].map], work[Dir(p)].manifests,
                    work[Dir(p)].shards[prep[p].options.slug])
       THEN GoTo(p, "collect") /\ UNCHANGED work
       ELSE Fail(p)
    /\ UNCHANGED <<builds, commits, payloads, badWrites>>

CopiedIfMissing(files, there) == Written(there, files)

(* copy_file with overwrite_existing                                       *)
Copied(files, there) == Written(files, there)

(* The full model, then every shard that list_shards finds, then the map   *)
Collect(p) ==
    /\ prep[p].at = "collect"
    /\ LET slug   == prep[p].options.slug
           shards == work[Dir(p)].shards[slug]
       IN  \E n \in 0 .. Cardinality(DOMAIN shards) + 1 :
               LET done == n > Cardinality(DOMAIN shards)
               IN  Leaves(p, [work[Dir(p)] EXCEPT !.artifacts[slug] =
                         [shards |-> Copied([k \in Lowest(n, DOMAIN shards) |-> shards[k]], @.shards),
                          map    |-> IF done THEN prep[p].map ELSE @.map,
                          full   |-> prep[p].model.build]], done, "clone")
    /\ UNCHANGED <<builds, commits, payloads, badWrites>>

(* upload_artifacts: it returns at once when it is told --no-upload; else  *)
(* it clones what has been committed so far.                               *)
Clone(p) ==
    /\ prep[p].at = "clone"
    /\ prep' = [prep EXCEPT ![p] =
           [at |-> IF @.options.upload THEN "push" ELSE "print",
            options |-> @.options, map |-> @.map, base |-> Len(commits)]]
    /\ UNCHANGED <<builds, work, commits, payloads, badWrites>>

(* The commit replaces the directory of the slug in the clone. There is no *)
(* commit when nothing has changed; a push that is no fast-forward fails.  *)
Committed(p) ==
    [commits[prep[p].base] EXCEPT ![prep[p].options.slug] =
        work[Dir(p)].artifacts[prep[p].options.slug]]

PushedOrNot(p) ==
    IF prep[p].base = Len(commits)
    THEN commits' = Append(commits, Committed(p)) /\ GoTo(p, "print") /\ UNCHANGED work
    ELSE UNCHANGED commits /\ GoTo(p, "print") /\ UNCHANGED work

PushedByForce(p) ==
    commits' = Append(commits, Committed(p)) /\ GoTo(p, "print") /\ UNCHANGED work

Pushed(p) ==
    IF prep[p].base = Len(commits)
    THEN commits' = Append(commits, Committed(p)) /\ GoTo(p, "print") /\ UNCHANGED work
    ELSE Fail(p) /\ UNCHANGED commits

Push(p) ==
    /\ prep[p].at = "push"
    /\ IF Committed(p) = commits[prep[p].base]
       THEN GoTo(p, "print") /\ UNCHANGED <<commits, work>>
       ELSE Pushed(p)
    /\ UNCHANGED <<builds, payloads, badWrites>>

PrintActivation(p) ==
    /\ prep[p].at = "print"
    /\ payloads' = payloads \cup
           {[slug |-> prep[p].options.slug, map |-> prep[p].map, upload |-> prep[p].options.upload]}
    /\ End(p, "done")
    /\ UNCHANGED <<builds, commits, badWrites>>

(* A step that fails without a trace, or the death of the process          *)
Die(p) ==
    /\ Running(p)
    /\ Fail(p)
    /\ UNCHANGED <<builds, commits, payloads, badWrites>>

(* Somebody uploads the source model anew: same revision, other tensors    *)
Republish(s) ==
    /\ builds[s] < MaxBuilds
    /\ builds' = [builds EXCEPT ![s] = @ + 1]
    /\ UNCHANGED <<work, prep, commits, payloads, badWrites>>

Next ==
    \/ \E p \in Preparations :
           \/ Begin(p) \/ Download(p) \/ WriteManifests(p) \/ WriteShards(p)
           \/ Validate(p) \/ Collect(p) \/ Clone(p) \/ Push(p) \/ PrintActivation(p) \/ Die(p)
    \/ \E s \in Sources : Republish(s)

Spec == Init /\ [][Next]_vars

------------------------------------------------------------------------------
Directories == {commits[i][s] : i \in DOMAIN commits, s \in Slugs} \ {NoDirectory}

ShardsOf(directory) == {directory.shards[k] : k \in DOMAIN directory.shards}

(* Each tensor is in one shard at most, and the tensors of the layers that *)
(* the map assigns and those outside the blocks are in one.                *)
Partitioned(directory) ==
    /\ \A a, b \in ShardsOf(directory) : a # b => a.tensors \cap b.tensors = {}
    /\ {Embedding, Norm, LmHead} \cup UNION {Block(i) : i \in 0 .. directory.map.layers - 1}
           \subseteq UNION {shard.tensors : shard \in ShardsOf(directory)}

(* Every directory that was ever pushed holds one shard for each partition *)
(* of its stage map and no other, each stamped with what the map says of   *)
(* that partition, and together they hold the tensors of all its layers:   *)
(* also when manifests and shards of an earlier run, of other stage counts *)
(* or other slugs, lay in the work directory, when that run died on the way*)
(* or when a shard file could not be written.                              *)
PublishedIsWhole ==
    \A directory \in Directories :
        LET read == Read[directory.map]
        IN  /\ DOMAIN directory.shards = Ids(read)
            /\ \A k \in Ids(read) : directory.shards[k].part = PartitionOf(k, read)
            /\ Partitioned(directory)

(* Unless a shard file could not be written when the writer reported it as *)
(* written, the shards of a directory and its full model come from the same*)
(* build of the model, whatever the source repository and earlier runs in  *)
(* the same directory have been doing.                                     *)
PublishedIsOneBuild ==
    badWrites = 0 =>
        \A directory \in Directories :
            \A shard \in ShardsOf(directory) : shard.data = directory.full

(* What the payload of a run that uploads activates has been in the        *)
(* artifact repository: its slug with its stage map. A run that lost the   *)
(* race to push, or died before, prints none. With --no-upload the same    *)
(* payload is printed, and nothing is promised of the repository it names. *)
PayloadsWerePublished ==
    \A payload \in payloads : payload.upload =>
        \E i \in DOMAIN commits : commits[i][payload.slug].map = payload.map

(* A push changes the directory of one slug and loses no other run's       *)
(* commit: the other directories are those of the commit before, also when *)
(* two runs have cloned the same one.                                      *)
PushKeepsOtherSlugs ==
    \A i \in 1 .. Len(commits) - 1 :
        Cardinality({s \in Slugs : commits[i + 1][s] # commits[i][s]}) = 1

(* A payload's stage map means the same to everybody who reads it: each    *)
(* stage finds in it what the gateway does, and the URLs that the gateway's*)
(* walk follows lead through the layers in order, from the embedding to the*)
(* head.                                                                   *)
PayloadsRouteEveryLayer ==
    \A payload \in payloads :
        LET text  == GeneratedMap(payload.map.slug, payload.map.layers, payload.map.stages)
            read  == Read[payload.map]
            route == GatewayRoute(read.partitions, read.first)
            Stage(k) == ReadStage(text, k)
        IN  /\ \A k \in Ids(read) : Contents(Stage(k)) = Contents(PartitionOf(k, read))
            /\ FlattenSeq([i \in DOMAIN route |-> Stage(route[i]).layers])
                   = [i \in 1 .. payload.map.layers |-> i - 1]
            /\ Stage(route[1]).embedding /\ Stage(route[Len(route)]).lm_head
=============================================================================
