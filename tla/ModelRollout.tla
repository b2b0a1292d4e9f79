---------------------------- MODULE ModelRollout ----------------------------
(***************************************************************************)
(* Activating a prepared model: activateNativeModel of the operations UI   *)
(* patches the config map and restarts the deployments of the gateway and  *)
(* of the stages one after the other, each in a kubectl call that may fail *)
(* before or after it has taken effect. Two requests may do so at the same *)
(* time; nothing holds one back while the other is under way.              *)
(*                                                                         *)
(* A restarted deployment starts a new pod and keeps the old one until the *)
(* new one is ready (rolling update of one replica). A pod's init container*)
(* fetches the file of its deployment unless the volume has one; then the  *)
(* container reads the stage map of the config map, the stage checks its   *)
(* shard against it and the gateway checks the map itself. A container that*)
(* ends is started again, in the same pod.                                 *)
(***************************************************************************)
EXTENDS TensorPlan

CONSTANTS
    Activations,    \* requests to activate a model
    NumStages,      \* the stages that have a deployment
    Catalog,        \* [payload -> [slug, model, layers, split]]: what the config map may say
    Initial,        \* the payload of the config map as deployed
    AtRoot,         \* payloads whose shards lie at the root of their repository
    MaxCrashes,     \* bound: containers that end while they serve
    MaxTruncated    \* bound: downloads that end early unnoticed

Payloads == DOMAIN Catalog
Gateway  == 0
Stages   == 1 .. NumStages
Deployments == 0 .. NumStages

ASSUME NumStagesAssumption == NumStages \in Nat \ {0}
VARIABLES
    config,     \* the payload in the config map
    act,        \* [activation -> [at, payload, next]]: next is the deployment to restart
    patcher,    \* history: the last activation that patched the config map, if any
    tokenizer,  \* the gateway's volume has the full model that its deployment names
    shards,     \* the stages' volumes: the shard file of each
    deploy,     \* [deployment -> [serving, pending]]: the pod that is ready, the one to be
    crashes, truncated  \* bounds

rolloutVars == <<config, act, patcher, tokenizer, shards, deploy, crashes, truncated>>

volumes == <<tokenizer, shards, truncated>>

------------------------------------------------------------------------------
NoPod   == [map |-> "none"]
NoShard == [data |-> None]

Text == [p \in Payloads |-> WrittenMap(Catalog[p].slug, Catalog[p].layers, Catalog[p].split)]
Parsed == [p \in Payloads |-> ReadGateway(Text[p])]
Item == [p \in Payloads |-> [k \in Stages |-> ReadStage(Text[p], k)]]

(* The shard of stage k that the preparation of a payload has made         *)
Prepared(p, k) == Shard(Manifest(PartitionOf(k, Parsed[p]), Catalog[p].model), Catalog[p].model)

(* A stage map is written as the controller and the UI write theirs and as *)
(* the first one is: a chain of stages with the layers in order. What lies *)
(* at the root of a repository has been made from a model that has them.   *)
ASSUME CatalogAssumption ==
    /\ Initial \in Payloads /\ NoPod.map \notin Payloads
    /\ \A p \in Payloads :
           LET split == Catalog[p].split
           IN  /\ split \in Seq(Seq(Nat)) /\ split # <<>>
               /\ FlattenSeq(split) = [i \in 1 .. Catalog[p].layers |-> i - 1]
    /\ AtRoot \subseteq Payloads
    /\ \A p \in AtRoot : ~ManifestRefused(Parsed[p], Catalog[p].model)

Inactive == [at |-> "idle", payload |-> Initial, next |-> Gateway]

RolloutInit ==
    /\ config = Initial
    /\ act = [a \in Activations |-> Inactive]
    /\ patcher = {}
    /\ tokenizer = FALSE
    /\ shards = [k \in Stages |-> NoShard]
    /\ deploy = [d \in Deployments |-> [serving |-> NoPod, pending |-> "init"]]
    /\ crashes = 0
    /\ truncated = 0

------------------------------------------------------------------------------
(* activateNativeModel: one request. An error of kubectl, or its timeout,  *)
(* ends it, whether or not the cluster has done what it was told.          *)

Request(a) ==
    /\ act[a].at = "idle"
    /\ \E p \in Payloads :
           act' = [act EXCEPT ![a] = [at |-> "patch", payload |-> p, next |-> Gateway]]
    /\ UNCHANGED <<config, patcher, volumes, deploy, crashes>>

PatchConfigMap(a) ==
    /\ act[a].at = "patch"
    /\ \E took, ok \in BOOLEAN :
           /\ ok => took
           /\ config' = IF took THEN act[a].payload ELSE config
           /\ patcher' = IF took THEN {a} ELSE patcher
           /\ act' = [act EXCEPT ![a] = [Inactive EXCEPT !.at = IF ok THEN "restart" ELSE "failed"]]
    /\ UNCHANGED <<volumes, deploy, crashes>>

Further(a) ==
    IF act[a].next = NumStages THEN [Inactive EXCEPT !.at = "done"] ELSE [act[a] EXCEPT !.next = @ + 1]

ErrorIgnored(a, ok) == [act EXCEPT ![a] = Further(a)]

Restarted(a, ok) == [act EXCEPT ![a] = IF ok THEN Further(a) ELSE [Inactive EXCEPT !.at = "failed"]]

(* restartNativeDeployments: the gateway's first, then the stages'. A pod  *)
(* that is not ready yet gives way to the new one.                         *)
RestartDeployment(a) ==
    /\ act[a].at = "restart"
    /\ \E took, ok \in BOOLEAN :
           /\ ok => took
           /\ deploy' = IF took THEN [deploy EXCEPT ![act[a].next].pending = "init"] ELSE deploy
           /\ act' = Restarted(a, ok)
    /\ UNCHANGED <<config, patcher, volumes, crashes>>

------------------------------------------------------------------------------
(* The init containers. A file that is there is used. A stage's is fetched *)
(* from the root of the repository, and kept under the same name; when     *)
(* there is none the container fails and is tried again. So does the       *)
(* gateway's for the payload of any activation: the name of its file begins*)
(* with the directory of the slug, which nobody makes on the volume.       *)

InitGateway ==
    /\ deploy[Gateway].pending = "init"
    /\ config = Initial
    /\ tokenizer' = TRUE
    /\ deploy' = [deploy EXCEPT ![Gateway].pending = "start"]
    /\ UNCHANGED <<config, act, patcher, shards, crashes, truncated>>

Fetched(k) == {Prepared(config, k)} \cup (IF truncated < MaxTruncated THEN {Cut(Prepared(config, k))} ELSE {})

InitStage(k) ==
    /\ deploy[k].pending = "init"
    /\ IF shards[k] # NoShard THEN UNCHANGED volumes
       ELSE /\ config \in AtRoot /\ k \in Ids(Parsed[config])
            /\ \E shard \in Fetched(k) :
                   /\ shards' = [shards EXCEPT ![k] = shard]
                   /\ truncated' = truncated + IF shard = Prepared(config, k) THEN 0 ELSE 1
            /\ UNCHANGED tokenizer
    /\ deploy' = [deploy EXCEPT ![k].pending = "start"]
    /\ UNCHANGED <<config, act, patcher, crashes>>

(* main of the gateway and of a stage, with the constructor of the runtime.*)
(* The gateway's model path is an argument of its deployment, the initial  *)
(* model's whatever is active.                                             *)
GatewayStarts == Accepted(Parsed[config]) /\ tokenizer

StageStarts(k) ==
    /\ Item[config][k].service_name # None
    /\ Loadable(shards[k], Item[config][k])

Pod(d) == [map |-> config, shard |-> IF d = Gateway THEN NoShard ELSE shards[d]]

(* The new pod is ready and takes the place of the old one. A container    *)
(* that cannot start is tried again.                                       *)
StartContainer(d) ==
    /\ deploy[d].pending = "start"
    /\ IF d = Gateway THEN GatewayStarts ELSE StageStarts(d)
    /\ deploy' = [deploy EXCEPT ![d] = [serving |-> Pod(d), pending |-> "none"]]
    /\ UNCHANGED <<config, act, patcher, volumes, crashes>>

(* A container that serves ends, and its pod has to start it again, unless *)
(* there is a new pod to come anyway.                                      *)
Crash(d) ==
    /\ deploy[d].serving # NoPod
    /\ crashes < MaxCrashes
    /\ crashes' = crashes + 1
    /\ deploy' = [deploy EXCEPT ![d] =
           [serving |-> NoPod, pending |-> IF @.pending = "none" THEN "start" ELSE @.pending]]
    /\ UNCHANGED <<config, act, patcher, volumes>>

RolloutNext ==
    \/ \E a \in Activations : Request(a) \/ PatchConfigMap(a) \/ RestartDeployment(a)
    \/ InitGateway
    \/ \E k \in Stages : InitStage(k)
    \/ \E d \in Deployments : StartContainer(d) \/ Crash(d)

RolloutSpec == RolloutInit /\ [][RolloutNext]_rolloutVars

------------------------------------------------------------------------------
(* An activation has completed, and no other has patched the config map    *)
(* since.                                                                  *)
Activated == \E a \in patcher : act[a].at = "done"

(* After that, each pod serves under the payload of the config map or has  *)
(* one on the way that will: whatever other activations have been doing    *)
(* before or do still, failed ones included, and whichever containers have *)
(* ended and started again.                                                *)
PodsFollowConfig ==
    Activated =>
        \A d \in Deployments : deploy[d].pending = "none" => deploy[d].serving.map = config

(* When all that serve have started under the same stage map, the walk of  *)
(* the gateway through it finds every layer of the model once and in order,*)
(* with the tensors for it, between the embedding and the head: whatever   *)
(* the volumes had cached, and whichever payloads were active before. A map*)
(* of more stages than are deployed leads nowhere.                         *)
ReadyPipelineIsWhole ==
    \A p \in Payloads :
        (\A d \in Deployments : deploy[d].serving.map = p) /\ Len(Catalog[p].split) <= NumStages =>
            LET route    == GatewayRoute(Parsed[p].partitions, 1)
                Serves(i) == deploy[route[i]].serving.shard
            IN  /\ FlattenSeq([i \in DOMAIN route |-> Serves(i).part.layers])
                       = [i \in 1 .. Catalog[p].layers |-> i - 1]
                /\ \A i \in DOMAIN route :
                       \A layer \in ToSet(Serves(i).part.layers) : Block(layer) \subseteq Serves(i).tensors
                /\ Embedding \in Serves(1).tensors
                /\ {Norm, LmHead} \subseteq Serves(Len(route)).tensors

(* README.md:206-208: the native profile downloads model-scoped artifacts: *)
(* each stage init container downloads <model-slug>/partition-<id>. So the *)
(* pods that a completed activation has brought up serve the shards of the *)
(* active model. They need not: the file that is cached has no slug in its *)
(* name.                                                                   *)
ServesActivatedModel ==
    Activated =>
        \A k \in Stages :
            deploy[k].pending = "none" => deploy[k].serving.shard.data = Catalog[config].model.build
=============================================================================
