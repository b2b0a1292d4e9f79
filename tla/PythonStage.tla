----------------------------- MODULE PythonStage -----------------------------
(***************************************************************************)
(* One stage of the Python pipeline in KV-cache mode: the forward flow of  *)
(* inference_stage/app.py with its two caches, the transformer KV cache    *)
(* and the cache of earlier answers that makes duplicate forwards          *)
(* idempotent. /forward runs in a thread pool, so flows interleave         *)
(* wherever neither cache's lock nor the entry's lock is held;             *)
(* /forward-binary runs on the event loop, one flow at a time (one thread).*)
(*                                                                         *)
(* The clients follow the generation loop of the Python gateway: prefill,  *)
(* then one decode step after the other. A step may be sent again before   *)
(* it is answered, the case the cache of answers is for; the first copy is *)
(* still executed, possibly much later or beside the next one. A forward   *)
(* may throw, before a layer has appended or after some have. What the     *)
(* layers compute is abstracted to the steps whose keys and values the KV  *)
(* cache holds, as a whole or torn.                                        *)
(***************************************************************************)
EXTENDS LruMap, FiniteSets

CONSTANTS
    RequestIds,  \* request ids
    Workers,     \* thread-pool threads
    Dedupe,      \* feature_flags.forward_dedupe_enabled
    Settings     \* the ways the stage is deployed and used, records with
                 \*   clients  requests that come, a subset of RequestIds
                 \*   threads  threads that serve them: one for /forward-binary
                 \*   entries  max_entries of StageKVCacheManager
                 \*   answers  max_entries of StageForwardCache
                 \*   steps    bound: last decode step of a generation
                 \*   copies   bound: how often a step is sent

ASSUME PythonStageAssumption ==
    /\ Dedupe \in BOOLEAN
    /\ Settings \subseteq
          [clients : SUBSET RequestIds, threads : SUBSET Workers, entries : Nat \ {0},
           answers : Nat \ {0}, steps : Nat, copies : Nat \ {0}]

VARIABLES
    use,      \* the element of Settings, which never changes
    kv,       \* StageKVCacheManager._entries: request id -> cache object
    caches,   \* the steps each cache object holds, in the order appended
    answers,  \* StageForwardCache._store: request and step -> activation
    flow,     \* where each thread is in the flow, and its local variables
    net,      \* copies on their way to the stage
    client,   \* the step and copy each client waits for, and what it got
    spoilt    \* what has happened to each request's session; only the
              \* properties read it

stageVars == <<use, kv, caches, answers, flow, net, client, spoilt>>

Idle == [at |-> "idle"]

StageInit ==
    /\ use \in Settings
    /\ kv = <<>>
    /\ caches = <<>>
    /\ answers = <<>>
    /\ flow = [t \in Workers |-> Idle]
    /\ net = {}
    /\ client = [r \in RequestIds |->
                    [is |-> "ready", step |-> 0, copy |-> 0, got |-> <<>>]]
    /\ spoilt = [r \in RequestIds |-> {}]

(* What happens to the requests rs                                         *)
Spoil(rs, what) ==
    spoilt' = [r \in RequestIds |-> IF r \in rs THEN spoilt[r] \cup {what} ELSE spoilt[r]]

------------------------------------------------------------------------------
(* The client: one step at a time, each possibly sent more than once.      *)

Copy(r) == [id |-> r, step |-> client[r].step, copy |-> client[r].copy + 1]

Send(r) ==
    /\ client[r].is \in {"ready", "waiting"}
    /\ client[r].copy < use.copies
    /\ net' = net \cup {Copy(r)}
    /\ client' = [client EXCEPT ![r].is = "waiting", ![r].copy = @ + 1]
    /\ UNCHANGED <<kv, caches, answers, flow, spoilt>>

(* Only the answer to the copy sent last is heard. An error ends the       *)
(* generation, as raise_for_status does in the gateway.                    *)
Heard(c, ok, out) ==
    IF ~ok
    THEN [c EXCEPT !.is = "failed"]
    ELSE [is |-> IF c.step = use.steps THEN "finished" ELSE "ready",
          step |-> c.step + 1, copy |-> 0, got |-> Append(c.got, out)]

AnswerWith(t, ok) ==
    LET m == flow[t].msg
        c == client[m.id]
    IN  /\ flow' = [flow EXCEPT ![t] = Idle]
        /\ client' = IF c.is = "waiting" /\ c.step = m.step /\ c.copy = m.copy
                     THEN [client EXCEPT ![m.id] = Heard(c, ok, flow[t].out)]
                     ELSE client

------------------------------------------------------------------------------
(* _run_forward_flow: first the cache of answers                           *)

Answer(m) == [id |-> m.id, step |-> m.step]

(* Two flows at once for one step of a request                             *)
Overlaps(m) == \E u \in Workers : flow[u] # Idle /\ Answer(flow[u].msg) = Answer(m)

Receive(t, m) ==
    /\ flow[t] = Idle
    /\ m \in net
    /\ net' = net \ {m}
    /\ flow' = [flow EXCEPT ![t] =
          [at |-> IF Dedupe THEN "asking" ELSE "checking",
           msg |-> m, obj |-> 0, before |-> 0, after |-> 0, out |-> <<>>]]
    /\ Spoil(IF Overlaps(m) THEN {m.id} ELSE {}, "overlapped")
    /\ UNCHANGED <<kv, caches, answers, client>>

GoTo(t, place) == flow' = [flow EXCEPT ![t].at = place]

AskAnswers(t) ==
    /\ flow[t].at = "asking"
    /\ LET k == Answer(flow[t].msg)
       IN  /\ answers' = Touch(answers, k)
           /\ IF k \in Keys(answers)
              THEN flow' = [flow EXCEPT ![t].at = "hit",
                                            ![t].out = Lookup(answers, k)]
              ELSE GoTo(t, "checking")
    /\ UNCHANGED <<kv, caches, net, client, spoilt>>

(* A hit reports the length of the KV cache as it finds it, before = after.*)
ReportHit(t) ==
    /\ flow[t].at = "hit"
    /\ LET r == flow[t].msg.id
           n == IF r \in Keys(kv) THEN Len(caches[Lookup(kv, r)]) ELSE 0
       IN  /\ kv' = Touch(kv, r)
           /\ flow' = [flow EXCEPT ![t].at = "validating",
                                       ![t].before = n, ![t].after = n]
    /\ UNCHANGED <<caches, answers, net, client, spoilt>>

------------------------------------------------------------------------------
(* _execute_stage_forward_with_cache_policy                                *)

ResetOrAssume(m) ==
    IF m.step = 0 THEN kv' = Without(kv, m.id) ELSE kv' = Touch(kv, m.id)

ResetOrFind(m) ==
    IF m.step = 0
    THEN kv' = Without(kv, m.id)
    ELSE m.id \in Keys(kv) /\ kv' = Touch(kv, m.id)

CheckPrefilled(t) ==
    /\ flow[t].at = "checking"
    /\ ResetOrFind(flow[t].msg)
    /\ GoTo(t, "creating")
    /\ UNCHANGED <<caches, answers, net, client, spoilt>>

(* 409: a decode step without a prefill                                    *)
RefuseDecode(t) ==
    /\ flow[t].at = "checking"
    /\ flow[t].msg.step > 0
    /\ flow[t].msg.id \notin Keys(kv)
    /\ AnswerWith(t, FALSE)
    /\ UNCHANGED <<kv, caches, answers, net, spoilt>>

(* get_or_create, under the manager's lock. A decode step that has been    *)
(* checked may find that its entry has been evicted since ("raced"), and   *)
(* begins a new one.                                                       *)
Checked(r) ==
    \E u \in Workers : /\ flow[u].at = "creating"
                       /\ flow[u].msg.id = r
                       /\ flow[u].msg.step > 0

GetOrCreate(t) ==
    /\ flow[t].at = "creating"
    /\ LET r == flow[t].msg.id
           old == r \in Keys(kv)
           obj == IF old THEN Lookup(kv, r) ELSE Len(caches) + 1
       IN  /\ kv' = Put(kv, r, obj, use.entries)
           /\ caches' = IF old THEN caches ELSE Append(caches, <<>>)
           /\ flow' = [flow EXCEPT ![t].at = "executing", ![t].obj = obj]
           /\ Spoil({v \in Keys(kv) \ Keys(kv') : Checked(v)}, "raced")
    /\ UNCHANGED <<answers, net, client>>

(* Under the entry's lock: the layers append to the cache object, which    *)
(* may have left the map since.                                            *)
Execute(t) ==
    /\ flow[t].at = "executing"
    /\ LET c == caches[flow[t].obj]
           done == Append(c, Answer(flow[t].msg))
       IN  /\ caches' = [caches EXCEPT ![flow[t].obj] = done]
           /\ flow' = [flow EXCEPT
                ![t].at = IF Dedupe THEN "storing" ELSE "validating",
                ![t].before = Len(c), ![t].after = Len(done), ![t].out = done]
    /\ UNCHANGED <<kv, answers, net, client, spoilt>>

(* The forward throws and is answered 500, nothing is remembered of it,    *)
(* and the cache object keeps what the first layers have appended, if any. *)
(* A prefill that is sent again begins anew, a decode step goes on behind  *)
(* the torn one.                                                           *)
Torn(m) == [id |-> m.id, step |-> m.step, torn |-> TRUE]

Throw(t) ==
    /\ flow[t].at = "executing"
    /\ LET m == flow[t].msg
       IN  \/ UNCHANGED <<caches, spoilt>>
           \/ /\ caches' = [caches EXCEPT ![flow[t].obj] = Append(@, Torn(m))]
              /\ Spoil(IF m.step > 0 THEN {m.id} ELSE {}, "torn")
    /\ AnswerWith(t, FALSE)
    /\ UNCHANGED <<kv, answers, net>>

StoreNothing(t) == answers

Stored(t) == Put(answers, Answer(flow[t].msg), flow[t].out, use.answers)

StoreAnswer(t) ==
    /\ flow[t].at = "storing"
    /\ answers' = Stored(t)
    /\ GoTo(t, "validating")
    /\ Spoil({k.id : k \in Keys(answers) \ Keys(answers')}, "forgotten")
    /\ UNCHANGED <<kv, caches, net, client>>

------------------------------------------------------------------------------
(* _validate_kv_cache_step, for a prefill of one token                     *)
StepValid(t) ==
    IF flow[t].msg.step = 0
    THEN flow[t].after >= 1
    ELSE flow[t].after = flow[t].before + 1

Validate(t) ==
    /\ flow[t].at = "validating"
    /\ AnswerWith(t, StepValid(t))
    /\ UNCHANGED <<kv, caches, answers, net, spoilt>>

FlowStep(t) ==
    \/ AskAnswers(t) \/ ReportHit(t) \/ CheckPrefilled(t) \/ RefuseDecode(t)
    \/ GetOrCreate(t) \/ Execute(t) \/ Throw(t) \/ StoreAnswer(t)
    \/ Validate(t)

StageNext ==
    /\ \/ \E r \in use.clients : Send(r)
       \/ \E t \in use.threads : FlowStep(t) \/ \E m \in net : Receive(t, m)
    /\ UNCHANGED use

StageSpec == StageInit /\ [][StageNext]_stageVars

------------------------------------------------------------------------------
(* Step s of request r, computed over exactly the steps before it.         *)
Reference(r, s) == [i \in 1 .. s + 1 |-> [id |-> r, step |-> i - 1]]

IsLruMap(m, max) == Len(m) <= max /\ Cardinality(Keys(m)) = Len(m)

(* Every variable keeps its type: both caches stay ordered maps within     *)
(* their bounds, and every live entry has a cache object.                  *)
StageTypeOK ==
    /\ IsLruMap(kv, use.entries)
    /\ IsLruMap(answers, use.answers)
    /\ Keys(kv) \subseteq RequestIds
    /\ \A i \in DOMAIN kv : kv[i].val \in DOMAIN caches
    /\ \A r \in RequestIds :
          /\ client[r].is \in {"ready", "waiting", "finished", "failed"}
          /\ Len(client[r].got) = client[r].step

(* What spoils a session: a decode step threw after a layer had appended,  *)
(* its entry was evicted between the check for it and its use, two copies  *)
(* of one step ran at the same time, or, where steps are sent again, the   *)
(* answer to one had left the cache of answers. An eviction at any other   *)
(* moment, a forward that throws before it has appended, a prefill that    *)
(* throws, and late copies do not.                                         *)
Undisturbed(r) ==
    /\ spoilt[r] \cap {"torn", "raced", "overlapped"} = {}
    /\ use.copies = 1 \/ (Dedupe /\ "forgotten" \notin spoilt[r])

(* What a client takes for the answer to a step of such a session was      *)
(* computed over its own earlier steps, all of them, in order and once     *)
(* each: a session that has been evicted is refused and never silently     *)
(* rebuilt, no late copy advances the KV cache, no answer is handed out    *)
(* that was remembered for another step.                                   *)
OkAnswersAreReference ==
    \A r \in RequestIds : Undisturbed(r) =>
        client[r].got = [i \in 1 .. client[r].step |-> Reference(r, i - 1)]

(* The promise of the cache of answers: a repeated forward never appends   *)
(* the same step, nor a part of it, to the live KV state a second time.    *)
LiveCacheAppendsOnce ==
    \A i \in DOMAIN kv : Undisturbed(kv[i].key) =>
        LET c == caches[kv[i].val]
        IN  \A j, k \in DOMAIN c : c[j].id = c[k].id /\ c[j].step = c[k].step => j = k
===============================================================================
