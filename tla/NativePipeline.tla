--------------------------- MODULE NativePipeline ---------------------------
(***************************************************************************)
(* The native data path: one gateway that generates tokens and a line of   *)
(* stages, each with its forward queue, its single worker and its sessions,*)
(* joined by calls of PersistentHttpClient::post_binary that are sent again*)
(* once when the first attempt throws.                                     *)
(*                                                                         *)
(* The gateway runs one generation at a time (its generation mutex) and    *)
(* calls every stage in turn; a generation with                            *)
(* native_stage_chaining_enabled calls the first stage only, whose worker  *)
(* calls the next stage while it holds its own request. A caller that      *)
(* gives up on its first attempt closes its socket: the stage does not     *)
(* notice and executes the request all the same. Nothing is closed after   *)
(* the second attempt: the client of a worker lives as long as its process,*)
(* and its next call, of whatever generation, reads the late answer.       *)
(*                                                                         *)
(* Callers are numbered: 0 is the gateway, s the worker of stage s. The    *)
(* forward queue here is the line of ForwardService, which ForwardBroker   *)
(* implements.                                                             *)
(***************************************************************************)
EXTENDS StageRuntime, SequencesExt, FiniteSetsExt

CONSTANTS
    NumStages,   \* partitions, the last one terminal
    Topologies,  \* values of native_stage_chaining_enabled
    QueueSize,   \* DLI_NATIVE_FORWARD_QUEUE_SIZE
    PromptLen,   \* tokens of a prompt
    MaxNew,      \* max_new_tokens
    MinNews,     \* values of min_new_tokens
    StopTokens,  \* indices of the reference run's tokens that are stop markers
    MaxFaults    \* bound: lost calls, timeouts, throws and restarts

ASSUME PipelineAssumption ==
    /\ NumStages \in Nat \ {0}
    /\ Topologies \subseteq BOOLEAN
    /\ QueueSize \in Nat \ {0}
    /\ PromptLen \in Nat \ {0}
    /\ MaxNew \in Nat \ {0}
    /\ MinNews \subseteq Nat
    /\ StopTokens \subseteq Nat
    /\ 0 \notin Requests

Stages  == 1 .. NumStages
Gateway == 0
Callers == 0 .. NumStages - 1
Nobody  == NumStages

(* The listener of a request of stage s whose call is over while its answer*)
(* will still come in the connection that the worker of stage s - 1 has to *)
(* stage s.                                                                *)
Late    == NumStages + 1

VARIABLES
    gw,         \* the generation in progress
    outcome,    \* how each generation ended, and the min_new_tokens it had
    tokens,     \* generated_token_ids: is each the reference run's token?
    call,       \* the post_binary each caller is in
    inbox,      \* requests in the connection threads of a stage
    queue,      \* forward queue of a stage
    worker,     \* what the worker of a stage is doing
    sessions,   \* sessions_ of a stage
    unread,     \* the late answer that waits in a stage's connection to the one before
    faults,
    disturbed   \* generations hit by a timeout, restart, eviction or late answer

vars == <<gw, outcome, tokens, call, inbox, queue, worker, sessions, unread, faults, disturbed>>

NotCalling == [state |-> "idle", attempt |-> 1]
FirstTry   == [state |-> "send", attempt |-> 1]
Idle       == [state |-> "idle"]

NoGeneration ==
    [gen |-> 0, chain |-> FALSE, min |-> 0, running |-> FALSE,
     index |-> 0, hop |-> 1, frame |-> <<>>]

Ended(how, min) == [how |-> how, min |-> min]

Init ==
    /\ gw = NoGeneration
    /\ outcome = [g \in Requests |-> Ended("no", 0)]
    /\ tokens = [g \in Requests |-> <<>>]
    /\ call = [c \in Callers |-> NotCalling]
    /\ inbox = [s \in Stages |-> <<>>]
    /\ queue = [s \in Stages |-> <<>>]
    /\ worker = [s \in Stages |-> Idle]
    /\ sessions = [s \in Stages |-> NoSessions]
    /\ unread = [s \in Stages |-> {}]
    /\ faults = 0
    /\ disturbed = {}

Target(c) == IF c = Gateway THEN gw.hop ELSE c + 1
Chained(c) == IF c = Gateway THEN gw.chain ELSE TRUE

(* The frame a caller posts: the gateway's own, or the response frame of   *)
(* the worker's stage, which repeats id, mode and index.                   *)
Posted(c) ==
    IF c = Gateway
    THEN Request(gw.gen, IF gw.index = 0 THEN "prefill" ELSE "decode", gw.index, gw.frame)
    ELSE [worker[c].req EXCEPT !.tokens = worker[c].out]

Fault == faults < MaxFaults /\ faults' = faults + 1

------------------------------------------------------------------------------
(* The gateway: run_stub_generation and forward_through_partition_graph.   *)

(* make_request_id draws the id at random: any order of the map's keys.    *)
Begin(g, chain, min) ==
    /\ ~gw.running
    /\ outcome[g].how = "no"
    /\ gw' = [gen |-> g, chain |-> chain, min |-> min, running |-> TRUE,
              index |-> 0, hop |-> 1, frame |-> [i \in 1 .. PromptLen |-> i]]
    /\ call' = [call EXCEPT ![Gateway] = FirstTry]
    /\ UNCHANGED <<outcome, tokens, inbox, queue, worker, sessions, unread, faults, disturbed>>

GenerationEnds(how) ==
    /\ gw' = NoGeneration
    /\ outcome' = [outcome EXCEPT ![gw.gen] = Ended(how, gw.min)]
    /\ call' = [call EXCEPT ![Gateway] = NotCalling]

(* should_stop_after: n tokens are generated, the last of them at index    *)
(* n - 1. Any token that is not the reference run's may be a stop marker.  *)
StopsAfter(n, min, marker) == n >= min /\ marker

MayBeMarker(isRef, index) == IF isRef THEN {index \in StopTokens} ELSE BOOLEAN

(* The terminal stage has answered: the token is kept, and fed next unless *)
(* it is the last one. It is the reference run's token if it was computed  *)
(* from the reference run's activation.                                    *)
TokenArrives(out) ==
    LET isRef == Last(out) = PromptLen + gw.index
    IN  /\ tokens' = [tokens EXCEPT ![gw.gen] = Append(@, isRef)]
        /\ \E marker \in MayBeMarker(isRef, gw.index) :
           IF gw.index + 1 = MaxNew \/ StopsAfter(gw.index + 1, gw.min, marker)
           THEN GenerationEnds("ok")
           ELSE /\ gw' = [gw EXCEPT !.index = @ + 1, !.hop = 1,
                                    !.frame = <<IF isRef THEN PromptLen + gw.index + 1 ELSE Stray>>]
                /\ call' = [call EXCEPT ![Gateway] = FirstTry]
                /\ UNCHANGED outcome

HopAnswers(out) ==
    /\ gw' = [gw EXCEPT !.hop = @ + 1, !.frame = out]
    /\ call' = [call EXCEPT ![Gateway] = FirstTry]
    /\ UNCHANGED <<outcome, tokens>>

GatewayGets(status, out) ==
    \/ /\ status # 200
       /\ GenerationEnds("error")
       /\ UNCHANGED tokens
    \/ /\ status = 200
       /\ ~gw.chain
       /\ gw.hop < NumStages
       /\ HopAnswers(out)
    \/ /\ status = 200
       /\ gw.chain \/ gw.hop = NumStages
       /\ TokenArrives(out)

(* The status of an answer that decode_frame rejects *)
Undecodable == 0

(* A worker gets the answer of the next stage and finishes its own request:*)
(* the downstream frame becomes its response, anything but 2xx a 502, and  *)
(* the exception of decode_frame a 400.                                    *)
Replying(w, status, out) ==
    [w EXCEPT !.state = "replying", !.status = status, !.out = out]

------------------------------------------------------------------------------
(* PersistentHttpClient::post_binary.                                      *)

Job(c) == [req |-> Posted(c), chain |-> Chained(c), from |-> c]

Redirect(job, c, to)    == IF job.from = c THEN [job EXCEPT !.from = to] ELSE job
Redirected(line, c, to) == [i \in DOMAIN line |-> Redirect(line[i], c, to)]

(* The caller closes its connection: whatever the stage has of the calls   *)
(* on it goes on, and the answers go to a closed socket.                   *)
Closed(job, c) ==
    IF c = Gateway THEN Redirect(job, c, Nobody)
    ELSE Redirect(Redirect(job, c, Nobody), Late, Nobody)

(* post_binary closes after its first attempt. The gateway's client closes *)
(* as the generation that fails destroys it; that of a worker is static.   *)
ClosesAtTheEnd(c) == c = Gateway

Closes(c) == call[c].attempt = 1 \/ c = Gateway

GivenUp(job, c) == IF Closes(c) THEN Closed(job, c) ELSE Redirect(job, c, Late)

(* post_binary_once has thrown: the same bytes are sent once more; the     *)
(* second exception leaves post_binary. It ends the generation at the      *)
(* gateway, and answers 400 at a worker.                                   *)
AttemptFailsTwice(c, workers) ==
    IF call[c].attempt < 3
    THEN /\ call' = [call EXCEPT ![c] = [state |-> "send", attempt |-> @.attempt + 1]]
         /\ worker' = workers
         /\ UNCHANGED <<gw, outcome>>
    ELSE IF c = Gateway
    THEN GenerationEnds("error") /\ worker' = workers
    ELSE /\ call' = [call EXCEPT ![c] = NotCalling]
         /\ worker' = [workers EXCEPT ![c] = Replying(@, 400, <<>>)]
         /\ UNCHANGED <<gw, outcome>>

AttemptFails(c, workers) ==
    IF call[c].attempt = 1
    THEN /\ call' = [call EXCEPT ![c] = [state |-> "send", attempt |-> 2]]
         /\ worker' = workers
         /\ UNCHANGED <<gw, outcome>>
    ELSE IF c = Gateway
    THEN GenerationEnds("error") /\ worker' = workers
    ELSE /\ call' = [call EXCEPT ![c] = NotCalling]
         /\ worker' = [workers EXCEPT ![c] = Replying(@, 400, <<>>)]
         /\ UNCHANGED <<gw, outcome>>

(* What the failure leaves of the stage's requests, which the stage itself *)
(* does not notice, and of what lay unread in the connection.              *)
Abandons(c) ==
    LET s == Target(c)
        Left(line) == [i \in DOMAIN line |-> GivenUp(line[i], c)]
    IN  /\ inbox' = [inbox EXCEPT ![s] = Left(@)]
        /\ queue' = [queue EXCEPT ![s] = Left(@)]
        /\ unread' = IF c = Gateway THEN unread ELSE [unread EXCEPT ![s] = {}]
        /\ AttemptFails(c, [worker EXCEPT ![s] = IF @.state = "idle" THEN @ ELSE GivenUp(@, c)])

SendFailsAfterWrite(c) ==
    /\ call[c].state = "send"
    /\ Fault
    /\ AttemptFails(c, worker)
    /\ inbox' = [inbox EXCEPT ![Target(c)] = Append(@, Closed(Job(c), c))]
    /\ UNCHANGED <<tokens, queue, sessions, unread, disturbed>>

(* A connect that fails, or a keep-alive connection that is gone, throws   *)
(* before the stage has seen anything.                                     *)
SendFails(c) ==
    /\ call[c].state = "send"
    /\ Fault
    /\ Abandons(c)
    /\ UNCHANGED <<tokens, sessions, disturbed>>

Hears(c, job) == job.from = c
Pending(c) ==
    LET s == Target(c)
    IN  \/ \E i \in DOMAIN inbox[s] : Hears(c, inbox[s][i])
        \/ \E i \in DOMAIN queue[s] : Hears(c, queue[s][i])
        \/ worker[s].state # "idle" /\ Hears(c, worker[s])

Timeout(c) ==
    /\ call[c].state = "wait"
    /\ Pending(c)
    /\ Fault
    /\ Abandons(c)
    /\ disturbed' = disturbed \cup {Posted(c).id}
    /\ UNCHANGED <<tokens, sessions>>

(* The stage went away with the request: recv sees the closed connection.  *)
ConnectionLost(c) ==
    /\ call[c].state = "wait"
    /\ ~Pending(c)
    /\ AttemptFails(c, worker)
    /\ UNCHANGED <<tokens, inbox, queue, sessions, unread, faults, disturbed>>

(* recv returns whatever answer comes next in the connection; nobody       *)
(* compares its id with the request's. Another request's activation is not *)
(* one of this request's reference run.                                    *)
CallerGets(c, id, status, out, workers) ==
    IF c = Gateway
    THEN GatewayGets(status, out) /\ worker' = workers
    ELSE LET taken == IF id = Posted(c).id THEN out ELSE [i \in DOMAIN out |-> Stray]
         IN  /\ call' = [call EXCEPT ![c] = NotCalling]
             /\ worker' = [workers EXCEPT ![c] =
                              CASE status = 200         -> Replying(@, 200, taken)
                                [] status = Undecodable -> Replying(@, 400, <<>>)
                                [] OTHER                -> Replying(@, 502, <<>>)]
             /\ UNCHANGED <<gw, outcome, tokens>>

Send(c) ==
    /\ call[c].state = "send"
    /\ c = Gateway \/ unread[c + 1] = {}
    /\ call' = [call EXCEPT ![c].state = "wait"]
    /\ inbox' = [inbox EXCEPT ![Target(c)] = Append(@, Job(c))]
    /\ UNCHANGED <<gw, outcome, tokens, queue, worker, sessions, unread, faults, disturbed>>

(* The worker's connection holds the answer to an earlier call: it is read *)
(* in place of the answer to this one, which is late in turn. "open" says  *)
(* that the stage which wrote it is still there to take the request.       *)
SendAndReadLate(c) ==
    /\ call[c].state = "send"
    /\ c # Gateway
    /\ \E answer \in unread[c + 1] :
           /\ inbox' = IF answer.open
                       THEN [inbox EXCEPT ![c + 1] = Append(@, [Job(c) EXCEPT !.from = Late])]
                       ELSE inbox
           /\ CallerGets(c, answer.id, answer.status, answer.out, worker)
    /\ unread' = [unread EXCEPT ![c + 1] = {}]
    /\ disturbed' = disturbed \cup {Posted(c).id}
    /\ UNCHANGED <<queue, sessions, faults>>

------------------------------------------------------------------------------
(* A stage. Connection threads submit in any order; the worker takes the   *)
(* queue from the front.                                                   *)

(* A late answer is the next one its connection's caller reads if it waits *)
(* for another; that one is late then.                                     *)
Overtaken(s, job) == job.from = Late /\ call[s - 1].state = "wait"

NowLate(line, s, job) == IF Overtaken(s, job) THEN Redirected(line, s - 1, Late) ELSE line

LateAnswer(job, status, out, open) ==
    {[id |-> job.req.id, status |-> status, out |-> out, open |-> open]}

Answer(s, job, status, out, open, workers) ==
    LET c == IF job.from = Late THEN s - 1 ELSE job.from
    IN  IF job.from \in Callers \/ Overtaken(s, job)
        THEN /\ CallerGets(c, job.req.id, status, out, workers)
             /\ disturbed' = IF job.from = Late THEN disturbed \cup {Posted(c).id} ELSE disturbed
             /\ UNCHANGED unread
        ELSE /\ worker' = workers
             /\ unread' = IF job.from = Late
                          THEN [unread EXCEPT ![s] = LateAnswer(job, status, out, open)]
                          ELSE unread
             /\ UNCHANGED <<gw, outcome, tokens, call, disturbed>>

(* A connection thread reads the next request after it has answered the    *)
(* one before.                                                             *)
Unanswered(s) ==
    \/ \E i \in DOMAIN inbox[s] : inbox[s][i].from = Late
    \/ \E i \in DOMAIN queue[s] : queue[s][i].from = Late
    \/ worker[s].state # "idle" /\ worker[s].from = Late

Submit(s, i) ==
    LET job == inbox[s][i]
    IN  /\ ~(s > 1 /\ job.from = s - 1 /\ Unanswered(s))
        /\ IF Len(queue[s]) < QueueSize
           THEN /\ queue' = [queue EXCEPT ![s] = Append(@, job)]
                /\ inbox' = [inbox EXCEPT ![s] = RemoveAt(@, i)]
                /\ UNCHANGED <<gw, outcome, tokens, call, worker, unread, disturbed>>
           ELSE /\ Answer(s, job, 429, <<>>, TRUE, worker)
                /\ inbox' = [inbox EXCEPT ![s] = NowLate(RemoveAt(@, i), s, job)]
                /\ UNCHANGED queue
        /\ UNCHANGED <<sessions, faults>>

(* runtime.forward, then the response or the call of the next stage.       *)
Executed(s, job, status, out) ==
    LET chained == job.chain /\ status = 200 /\ s < NumStages
    IN  /\ worker' = [worker EXCEPT ![s] =
                        [req |-> job.req, chain |-> job.chain, from |-> job.from,
                         state |-> IF chained THEN "calling" ELSE "replying",
                         status |-> status, out |-> out]]
        /\ call' = IF chained THEN [call EXCEPT ![s] = FirstTry] ELSE call

Execute(s, result) ==
    LET job   == Head(queue[s])
        after == Forward(sessions[s], job.req, result)
    IN  /\ worker[s].state = "idle"
        /\ queue[s] # <<>>
        /\ queue' = [queue EXCEPT ![s] = Tail(@)]
        /\ sessions' = [sessions EXCEPT ![s] = after.sessions]
        /\ disturbed' = disturbed \cup (DOMAIN sessions[s] \ DOMAIN after.sessions)
        /\ Executed(s, job, IF result = "done" THEN 200 ELSE 400, after.out)
        /\ UNCHANGED <<gw, outcome, tokens, inbox, unread>>

ForwardRuns(s)   == Execute(s, "done") /\ UNCHANGED faults
ForwardThrows(s) == \E result \in {"early", "late"} : Execute(s, result) /\ Fault

ReplyOnlySuccess(s) ==
    /\ worker[s].state = "replying"
    /\ IF worker[s].status = 200
       THEN /\ Answer(s, worker[s], 200, worker[s].out, TRUE, [worker EXCEPT ![s] = Idle])
            /\ inbox' = [inbox EXCEPT ![s] = NowLate(@, s, worker[s])]
       ELSE UNCHANGED <<gw, outcome, tokens, call, worker, inbox, unread, disturbed>>
    /\ UNCHANGED <<queue, sessions, faults>>

Reply(s) ==
    /\ worker[s].state = "replying"
    /\ Answer(s, worker[s], worker[s].status, worker[s].out, TRUE, [worker EXCEPT ![s] = Idle])
    /\ inbox' = [inbox EXCEPT ![s] = NowLate(@, s, worker[s])]
    /\ UNCHANGED <<queue, sessions, faults>>

(* A stage dies with its requests and sessions, and with its connection to *)
(* the next stage; Kubernetes starts it again.                             *)
Dies(s) ==
    LET Left(lines) == [t \in Stages |->
                           IF t = s THEN <<>>
                           ELSE IF t = s + 1 THEN [i \in DOMAIN lines[t] |-> Closed(lines[t][i], s)]
                           ELSE lines[t]]
    IN  /\ Fault
        /\ sessions' = [sessions EXCEPT ![s] = NoSessions]
        /\ inbox' = Left(inbox)
        /\ queue' = Left(queue)

Survivors(s) ==
    [t \in Stages |-> IF t = s THEN Idle
                      ELSE IF t = s + 1 /\ worker[t].state # "idle" THEN Closed(worker[t], s)
                      ELSE worker[t]]

(* What the dead stage had written can still be read, what was written to  *)
(* it cannot.                                                              *)
StillUnread(answers, s) ==
    [t \in Stages |-> IF t = s THEN {[answer EXCEPT !.open = FALSE] : answer \in answers[t]}
                      ELSE IF t = s + 1 THEN {} ELSE answers[t]]

RunningGeneration == IF gw.running THEN {gw.gen} ELSE {}

Restart(s) ==
    /\ Dies(s)
    /\ worker' = Survivors(s)
    /\ call' = IF worker[s].state = "calling" THEN [call EXCEPT ![s] = NotCalling] ELSE call
    /\ unread' = StillUnread(unread, s)
    /\ disturbed' = disturbed \cup RunningGeneration
    /\ UNCHANGED <<gw, outcome, tokens>>

(* It dies while it sends a response. read_http_response takes what came   *)
(* before the connection ended for the whole body, so nothing is sent      *)
(* again, and decode_frame throws because the lengths do not add up.       *)
RestartInReply(s) ==
    LET job == worker[s]
    IN  /\ worker[s].state = "replying"
        /\ worker[s].from # Nobody
        /\ worker[s].status = 200
        /\ Dies(s)
        /\ IF job.from = Late /\ ~Overtaken(s, job)
           THEN /\ worker' = Survivors(s)
                /\ unread' = [StillUnread(unread, s) EXCEPT
                                 ![s] = LateAnswer(job, Undecodable, <<>>, FALSE)]
                /\ UNCHANGED <<gw, outcome, tokens, call>>
           ELSE /\ CallerGets(IF job.from = Late THEN s - 1 ELSE job.from,
                              job.req.id, Undecodable, <<>>, Survivors(s))
                /\ unread' = StillUnread(unread, s)
        /\ disturbed' = disturbed \cup RunningGeneration

------------------------------------------------------------------------------
Submits(s) == \E i \in DOMAIN inbox[s] : Submit(s, i)

Next ==
    \/ \E g \in Requests : \E chain \in Topologies : \E min \in MinNews : Begin(g, chain, min)
    \/ \E c \in Callers : Send(c) \/ SendAndReadLate(c) \/ ConnectionLost(c)
    \/ \E c \in Callers : SendFails(c) \/ Timeout(c)
    \/ \E s \in Stages : Submits(s) \/ ForwardRuns(s) \/ Reply(s)
    \/ \E s \in Stages : ForwardThrows(s) \/ Restart(s) \/ RestartInReply(s)

Spec == Init /\ [][Next]_vars

(* Threads are not held back for ever while one of them can run: less than *)
(* the fairness of the operating system to each of them, and enough here.  *)
(* Nothing obliges a call to fail.                                         *)
Progress ==
    \/ \E c \in Callers : Send(c) \/ SendAndReadLate(c) \/ ConnectionLost(c)
    \/ \E s \in Stages : ForwardRuns(s) \/ Reply(s) \/ Submits(s)

Fairness == WF_vars(Progress)

FairSpec == Spec /\ Fairness

------------------------------------------------------------------------------
(* Properties.                                                             *)

Listening(s, c) ==
    Cardinality({i \in DOMAIN inbox[s] : Hears(c, inbox[s][i])})
  + Cardinality({i \in DOMAIN queue[s] : Hears(c, queue[s][i])})
  + (IF worker[s].state # "idle" /\ Hears(c, worker[s]) THEN 1 ELSE 0)

(* The queue of a stage is bounded. A caller has at most one request of its*)
(* own outstanding, and its connection owes it at most one answer to a call*)
(* that is over: none after the first attempt of a call has failed.        *)
TypeOK ==
    /\ \A s \in Stages :
           /\ Len(queue[s]) <= QueueSize
           /\ DOMAIN sessions[s] \subseteq Requests
           /\ Cardinality(DOMAIN sessions[s]) <= MaxSessions
           /\ worker[s].state \in {"idle", "calling", "replying"}
           /\ Listening(s, Late) + Cardinality(unread[s])
                 <= (IF s = 1 \/ call[s - 1].attempt = 2 THEN 0 ELSE 1)
    /\ \A c \in Callers :
           /\ call[c] \in [state : {"idle", "send", "wait"}, attempt : {1, 2}]
           /\ \A s \in Stages :
                  Listening(s, c) <= (IF call[c].state = "wait" /\ s = Target(c) THEN 1 ELSE 0)
    /\ gw.gen \in {0} \cup Requests /\ gw.hop \in Stages /\ gw.index < MaxNew
    /\ \A g \in Requests : outcome[g].how \in {"no", "ok", "error"}
    /\ disturbed \subseteq Requests

Held(s) == IF gw.gen \in DOMAIN sessions[s] THEN sessions[s][gw.gen].seqLen ELSE 0

(* The stages advance in lockstep while nothing disturbs the generation:   *)
(* each holds the positions of the steps before this one or this one too,  *)
(* and no stage is ahead of the one that feeds it. A call that is sent     *)
(* again because the first attempt did not arrive moves no stage twice.    *)
(* What disturbs it includes a late answer read in place of its own.       *)
KvLockstep ==
    gw.running /\ gw.gen \notin disturbed =>
        LET before == IF gw.index = 0 THEN 0 ELSE PromptLen + gw.index - 1
            after  == PromptLen + gw.index
        IN  \A s \in Stages :
                /\ Held(s) \in {before, after}
                /\ s > 1 => Held(s) <= Held(s - 1)

(* Where the reference run ends: at its first stop marker that is not too  *)
(* early, or at MaxNew tokens.                                             *)
ReferenceLength(min) ==
    Min({MaxNew} \cup {n \in 1 .. MaxNew : n >= min /\ n - 1 \in StopTokens})

(* A generation that is reported ok and met no timeout, restart or eviction*)
(* of its own, and none of whose calls read the late answer to another, has*)
(* the tokens of the reference run, all of them and no more: calls of      *)
(* earlier generations that are still being executed, requests that threw  *)
(* and calls that were sent again because the first never arrived leave no *)
(* trace.                                                                  *)
UndisturbedIsReference ==
    \A g \in Requests \ disturbed : outcome[g].how = "ok" =>
        /\ Len(tokens[g]) = ReferenceLength(outcome[g].min)
        /\ \A i \in DOMAIN tokens[g] : tokens[g][i]

(* How often one decode step can be executed by stage s: the gateway sends *)
(* a call twice at most, and in a chain so does every worker on the way,   *)
(* for each of the executions it is asked for.                             *)
Executions(s) == IF TRUE \in Topologies THEN 2 ^ s ELSE 2

(* Retries are bounded: a session never holds more rows than the prompt and*)
(* that many executions of every decode step.                              *)
RetryAmplification ==
    \A s \in Stages : \A g \in DOMAIN sessions[s] :
        sessions[s][g].seqLen <= PromptLen + Executions(s) * (MaxNew - 1)

(* Distributed decoding gives the tokens of a single-stage run             *)
(* (ARCHITECTURE.md section 11.8, "same tokens"): whatever was retried,    *)
(* lost or evicted, a generation reported ok has the reference tokens.     *)
OkIsReference ==
    \A g \in Requests : outcome[g].how = "ok" => \A i \in DOMAIN tokens[g] : tokens[g][i]

(* Every generation ends, in success or in error: no chain of workers that *)
(* hold their request while they call, full queue or lost answer blocks the*)
(* gateway, which holds the generation mutex meanwhile.                    *)
GenerationEndsAtLast == gw.running ~> ~gw.running
=============================================================================
