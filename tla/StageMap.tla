------------------------------ MODULE StageMap ------------------------------
(***************************************************************************)
(* stage_map.yaml, the partition graph of the native pipeline: how the     *)
(* model controller writes it (dli_tools_cpp), how the gateway and the     *)
(* stages read it, each with a line parser of its own (config.cpp of       *)
(* dli_gateway_cpp and dli_stage_cpp), and what the gateway accepts.       *)
(*                                                                         *)
(* A file is a sequence of lines [indent, key, value]; blank lines and     *)
(* comments are left out. The services and URLs of a pipeline are numbered:*)
(* n stands for the service name of stage n and for its /forward-binary    *)
(* URL, None for an empty string and for the null that value_after_colon   *)
(* turns into one. Fields nothing here depends on (physical_node,          *)
(* partition_file, backend, topology) are left out. "dash" stands for the  *)
(* dash of a list item, alone or in front of the key stage_id.             *)
(***************************************************************************)
EXTENDS Integers, Sequences, FiniteSets, SequencesExt, FiniteSetsExt

None == 0

Line(indent, key, value) == [indent |-> indent, key |-> key, value |-> value]

------------------------------------------------------------------------------
(* split_layers: the first num_layers % num_stages stages get one layer    *)
(* more. FirstLayer(L, S, k) is the loop's cursor when it comes to stage k.     *)

StageSize(L, S, k) == L \div S + (IF k <= L % S THEN 1 ELSE 0)

FirstLayer(L, S, k) == (k - 1) * (L \div S) + Min({k - 1, L % S})

Splittable(L, S) == 0 < S /\ S <= L

LayersOf(L, S, k) == [i \in 1 .. StageSize(L, S, k) |-> FirstLayer(L, S, k) + i - 1]

NextStageIsItself(S, k) == IF k < S THEN k ELSE None

NextStage(S, k) == IF k < S THEN k + 1 ELSE None

(* The components of one stage stand between its name and its successor.   *)
StageItem(S, k, layers) ==
    << Line(0, "dash_stage_id", k),
       Line(2, "partition_id", k),
       Line(2, "service_name", k),
       Line(2, "components", None),
       Line(4, "embedding", k = 1),
       Line(4, "layers", None) >>
    \o [i \in DOMAIN layers |-> Line(4, "dash", layers[i])]
    \o << Line(4, "norm", k = S),
          Line(4, "lm_head", k = S),
          Line(2, "next_stage_url", NextStage(S, k)) >>

(* split is the sequence of the stages' layers. The map of the initial     *)
(* config map is written like this by hand.                                *)
WrittenMap(slug, L, split) ==
    << Line(0, "model_slug", slug),
       Line(0, "num_layers", L),
       Line(0, "inference_gateway", None),
       Line(2, "first_stage_url", 1),
       Line(0, "inference_stages", None) >>
    \o FlattenSeq([k \in DOMAIN split |-> StageItem(Len(split), k, split[k])])
    \o << Line(0, "topology", None) >>

(* generate_stage_map                                                      *)
GeneratedMap(slug, L, S) == WrittenMap(slug, L, [k \in 1 .. S |-> LayersOf(L, S, k)])

------------------------------------------------------------------------------
(* What both parsers do with a line below a stage item. The cursor is the  *)
(* partition read so far and where in its item the cursor is, which is what*)
(* the flags inside_components and inside_layers say; a line indented by   *)
(* two spaces or less leaves the components.                               *)

NoPartition == [stage_id |-> None]

NewPartition(id) ==
    [stage_id |-> id, partition_id |-> id, service_name |-> None, next_stage_url |-> None,
     embedding |-> FALSE, layers |-> <<>>, norm |-> FALSE, lm_head |-> FALSE]

StageFields == {"service_name", "next_stage_url"}
Components  == {"embedding", "norm", "lm_head"}

Cursor(part) == [part |-> part, inside |-> "item"]

StaysInside(cursor, line) == cursor.inside # "item" /\ line.indent > 2

BelowStage(cursor, line, fields) ==
    LET stays == StaysInside(cursor, line)
        at    == IF stays THEN cursor ELSE Cursor(cursor.part)
    IN  CASE line.key = "components" -> [cursor EXCEPT !.inside = "components"]
          [] line.key \in fields /\ ~stays -> [at EXCEPT !.part[line.key] = line.value]
          [] line.key \in Components /\ stays -> [at EXCEPT !.part[line.key] = line.value]
          [] line.key = "layers" /\ stays -> [at EXCEPT !.inside = "layers"]
          [] line.key = "dash" /\ at.inside = "layers" ->
               [at EXCEPT !.part.layers = Append(@, line.value)]
          [] OTHER -> at

(* The gateway's parser: a list item or another top-level key finishes the *)
(* partition.                                                              *)
GatewayStart ==
    [section |-> "top", at |-> Cursor(NoPartition), partitions |-> <<>>,
     num_layers |-> 0, first |-> None]

Finish(read) ==
    IF read.at.part = NoPartition THEN read
    ELSE LET part == read.at.part
             id   == IF part.partition_id = None THEN part.stage_id ELSE part.partition_id
         IN  [read EXCEPT
                !.partitions = Append(@, [part EXCEPT !.partition_id = id]),
                !.at = Cursor(NoPartition)]

ReadTopLevelKey(read, line) ==
    CASE line.key = "num_layers" -> [read EXCEPT !.num_layers = line.value]
      [] line.key = "inference_gateway" ->
           [read EXCEPT !.section = "gateway", !.at = Cursor(NoPartition)]
      [] line.key = "inference_stages" -> [Finish(read) EXCEPT !.section = "stages"]
      [] OTHER -> [Finish(read) EXCEPT !.section = "top"]

ReadBelow(read, line) ==
    CASE read.section = "gateway" /\ line.key = "first_stage_url" ->
           [read EXCEPT !.first = line.value]
      [] read.section = "stages" /\ read.at.part # NoPartition ->
           [read EXCEPT !.at = BelowStage(@, line, StageFields \cup {"partition_id"})]
      [] OTHER -> read

ReadGatewayLine(read, line) ==
    IF line.key = "dash_stage_id" /\ read.section = "stages"
    THEN [Finish(read) EXCEPT !.at = Cursor(NewPartition(line.value))]
    ELSE IF line.indent = 0 THEN ReadTopLevelKey(read, line) ELSE ReadBelow(read, line)

ReadGateway(file) ==
    LET read[i \in 0 .. Len(file)] ==
            IF i = 0 THEN GatewayStart ELSE ReadGatewayLine(read[i - 1], file[i])
    IN  Finish(read[Len(file)])

(* The stage's parser looks for one id, and stops at the first other       *)
(* top-level key behind the list. It ignores partition ids.                *)
StageStart(id) ==
    [section |-> "before", mine |-> FALSE,
     at |-> Cursor([NewPartition(id) EXCEPT !.partition_id = None])]

ReadStageListLine(id, read, line) ==
    IF line.key = "dash_stage_id"
    THEN IF line.value = id
         THEN [read EXCEPT !.mine = TRUE, !.at = Cursor([@.part EXCEPT !.layers = <<>>])]
         ELSE [read EXCEPT !.mine = FALSE]
    ELSE IF line.indent = 0 /\ line.key # "inference_stages"
    THEN [read EXCEPT !.section = "behind"]
    ELSE IF read.mine THEN [read EXCEPT !.at = BelowStage(@, line, StageFields)] ELSE read

ReadStageLine(id, read, line) ==
    CASE read.section = "before" ->
           IF line.indent = 0 /\ line.key = "inference_stages"
           THEN [read EXCEPT !.section = "stages"] ELSE read
      [] read.section = "stages" -> ReadStageListLine(id, read, line)
      [] read.section = "behind" -> read

ReadStage(file, id) ==
    LET read[i \in 0 .. Len(file)] ==
            IF i = 0 THEN StageStart(id) ELSE ReadStageLine(id, read[i - 1], file[i])
    IN  read[Len(file)].at.part

StageReadable(file, id) == ReadStage(file, id).service_name # None

------------------------------------------------------------------------------
(* validate_partition_graph. It looks at counts and at the layers of all   *)
(* partitions together, not at their order in the list.                    *)

Owners(parts, component) == {i \in DOMAIN parts : parts[i][component]}
Terminals(parts) == {i \in DOMAIN parts : parts[i].next_stage_url = None}

AssignedLayers(parts) == FlattenSeq([i \in DOMAIN parts |-> parts[i].layers])

RolesValid(parts) ==
    /\ \A i \in DOMAIN parts : parts[i].partition_id # None /\ parts[i].service_name # None
    /\ Terminals(parts) \subseteq Owners(parts, "lm_head")
    /\ Cardinality(Owners(parts, "embedding")) = 1
    /\ Cardinality(Owners(parts, "lm_head")) = 1
    /\ Cardinality(Terminals(parts)) = 1

LayersValid(parts, num_layers) ==
    /\ \A layer \in ToSet(AssignedLayers(parts)) : layer >= 0
    /\ IsInjective(AssignedLayers(parts))
    /\ num_layers > 0 => ToSet(AssignedLayers(parts)) = 0 .. num_layers - 1

ValidGraph(parts, num_layers) ==
    parts # <<>> /\ RolesValid(parts) /\ LayersValid(parts, num_layers)

(* load_gateway_config_from_file throws otherwise: a partition must have an*)
(* id and a service name when it is finished, and the graph must be valid. *)
Accepted(read) ==
    /\ \A part \in ToSet(read.partitions) : part.stage_id > 0 /\ part.service_name # None
    /\ ValidGraph(read.partitions, read.num_layers)

------------------------------------------------------------------------------
(* The stages a generation step visits: the gateway calls them in the order*)
(* of its list, the first at first_stage_url and each other one at the next*)
(* URL of the partition listed before it, up to the terminal partition. In *)
(* a chain it calls the first only and each stage follows its own next URL.*)

EndsWalk(part) == part.next_stage_url = None \/ part.lm_head

UpToTerminal(parts) == 1 .. Min({i \in DOMAIN parts : EndsWalk(parts[i])})

GatewayRoute(parts, first) ==
    [i \in UpToTerminal(parts) |-> IF i = 1 THEN first ELSE parts[i - 1].next_stage_url]
=============================================================================
