------------------------------ MODULE OpsHistory ------------------------------
(***************************************************************************)
(* The run history of the operations UI (ops-ui/server.js): the array      *)
(* historyEntries, the file metrics-history.ndjson behind it, the lazy     *)
(* load by the first request, and historyWriteChain, the promise chain     *)
(* that puts the writes in a line. Node runs one callback at a time, so a  *)
(* step is what happens between two awaits; everything else may happen     *)
(* while a file operation is awaited. writeFile truncates the file, then   *)
(* writes it.                                                              *)
(*                                                                         *)
(* A record is its id and the request that posted it; what normalization   *)
(* makes of its fields is left out. The page posts one record at a time.   *)
(* The server may stop before any step; a file operation that fails has    *)
(* done nothing, or, if it is writeFile, has perhaps truncated the file.   *)
(*                                                                         *)
(* What OpsInvoke, the other part of the server, has too is named          *)
(* HistoryInit, HistoryNext, HistorySpec, historyVars and HistoryTypeOK.   *)
(***************************************************************************)
EXTENDS Naturals, Sequences, FiniteSets

CONSTANTS
    Requests,      \* requests to /api/history, each served once
    OldRecords,    \* number of records in the file at first
    MaxEntries,    \* HISTORY_MAX_ENTRIES
    EarlyRequests, \* BOOLEAN: requests may arrive during the first load
    MaxFaults,     \* bound: file operations that fail
    MaxRestarts    \* bound: restarts of the server

ASSUME HistoryAssumption ==
    /\ OldRecords \in Nat
    /\ MaxEntries \in Nat \ {0}
    /\ EarlyRequests \in BOOLEAN
    /\ MaxFaults \in Nat
    /\ MaxRestarts \in Nat

VARIABLES
    file,      \* the records of the file, in order
    entries,   \* historyEntries
    nextSeq,   \* nextHistorySeq
    loaded,    \* historyLoaded, set before the load begins
    seen,      \* what the loading request has read
    chain,     \* requests whose writes are in historyWriteChain
    job,       \* where the first of them is
    payload,   \* what compactHistoryFile has serialized
    poisoned,  \* historyWriteChain is a rejected promise
    request,   \* where each request is, and what it asks for
    deleted,   \* records a client has asked to delete
    mishaps,   \* history: "load" and "cut", as soon as one has happened
    astray,    \* history: array and file have been separated in this run
    faults,
    restarts

mem   == <<entries, nextSeq, loaded, seen>>
write == <<chain, job, payload, poisoned>>
env   == <<deleted, mishaps, astray, faults, restarts>>
historyVars == <<file, mem, write, request, env>>

RangeOf(s) == {s[i] : i \in DOMAIN s}

Old == [i \in 1 .. OldRecords |-> [id |-> i, by |-> "before"]]

Quiet == [at |-> "new", kind |-> "get", ids |-> {}, rec |-> [id |-> 0, by |-> "before"]]

HistoryInit ==
    /\ file = Old
    /\ entries = <<>> /\ nextSeq = 1 /\ loaded = FALSE /\ seen = <<>>
    /\ chain = <<>> /\ job = "idle" /\ payload = <<>> /\ poisoned = FALSE
    /\ request = [p \in Requests |-> Quiet]
    /\ deleted = {} /\ mishaps = {} /\ astray = FALSE
    /\ faults = 0 /\ restarts = 0

Loading == \E p \in Requests : request[p].at \in {"reading", "parsing"}

MoveTo(p, place) == request' = [request EXCEPT ![p].at = place]

------------------------------------------------------------------------------
(* A request arrives; the first one loads the file (ensureHistoryLoaded).  *)

Arrive(p, kind, ids) ==
    /\ request[p].at = "new"
    /\ EarlyRequests \/ ~Loading
    /\ request' = [request EXCEPT ![p].at = IF loaded THEN "ready" ELSE "reading",
                                  ![p].kind = kind, ![p].ids = ids]
    /\ loaded' = TRUE
    /\ deleted' = deleted \cup
                    {e \in RangeOf(file) \cup RangeOf(entries) : e.id \in ids}
    /\ UNCHANGED <<file, entries, nextSeq, seen, write, mishaps, astray, faults,
                   restarts>>

(* The page deletes the records the user has ticked, ids it was shown, or  *)
(* all records.                                                            *)
Ask(p) ==
    \/ Arrive(p, "get", {})
    \/ Arrive(p, "post", {})
    \/ Arrive(p, "clear", {})
    \/ \E ticked \in (SUBSET RangeOf(file)) \ {{}} :
          Arrive(p, "delete", {e.id : e \in ticked})

ReadFile(p) ==
    /\ request[p].at = "reading"
    /\ seen' = file
    /\ MoveTo(p, "parsing")
    /\ UNCHANGED <<file, entries, nextSeq, loaded, write, env>>

(* mkdir rejects, or readFile for another reason than a missing file: the  *)
(* request fails, and those that follow find an empty history loaded.      *)
LoadFails(p) ==
    /\ request[p].at = "reading"
    /\ faults < MaxFaults
    /\ faults' = faults + 1
    /\ MoveTo(p, "failed")
    /\ mishaps' = mishaps \cup {"load"}
    /\ astray' = TRUE
    /\ UNCHANGED <<file, mem, write, deleted, restarts>>

OldestEntries(s) == SubSeq(s, 1, IF Len(s) > MaxEntries THEN MaxEntries ELSE Len(s))

(* splice(0, length - HISTORY_MAX_ENTRIES)                                 *)
Trimmed(s) ==
    SubSeq(s, IF Len(s) > MaxEntries THEN Len(s) - MaxEntries + 1 ELSE 1, Len(s))

SeqUnchanged(s) == nextSeq

SeqAfter(s) ==
    LET ids == {e.id : e \in RangeOf(s)} \cup {nextSeq - 1}
    IN  1 + CHOOSE n \in ids : \A m \in ids : m <= n

FinishLoad(p) ==
    /\ request[p].at = "parsing"
    /\ entries' = Trimmed(entries \o seen)
    /\ nextSeq' = SeqAfter(seen)
    /\ MoveTo(p, "ready")
    /\ UNCHANGED <<file, loaded, seen, write, env>>

------------------------------------------------------------------------------
(* The request joins the chain of writes.                                  *)

Get(p) ==
    /\ request[p].at = "ready"
    /\ request[p].kind = "get"
    /\ MoveTo(p, "ok")
    /\ UNCHANGED <<file, mem, write, env>>

JoinChain(p) ==
    IF poisoned
    THEN UNCHANGED chain
    ELSE chain' = Append(chain, p)

Joined == IF poisoned THEN "failed" ELSE "chained"

(* normalizeHistoryEntry: of the fields it fills in, the id matters here.  *)
NormalizedEntry(p) == [id |-> nextSeq, by |-> p]

(* The record gets its id in the same step, chained or not.                *)
Post(p) ==
    /\ request[p].at = "ready"
    /\ request[p].kind = "post"
    /\ request' = [request EXCEPT ![p].at = Joined,
                                  ![p].rec = NormalizedEntry(p)]
    /\ nextSeq' = nextSeq + 1
    /\ JoinChain(p)
    /\ UNCHANGED <<file, entries, loaded, seen, job, payload, poisoned, env>>

Delete(p) ==
    /\ request[p].at = "ready"
    /\ request[p].kind \in {"delete", "clear"}
    /\ MoveTo(p, Joined)
    /\ JoinChain(p)
    /\ UNCHANGED <<file, mem, job, payload, poisoned, env>>

------------------------------------------------------------------------------
(* The writes, one after the other                                         *)

Active == request[Head(chain)]

WriteDone ==
    /\ chain' = Tail(chain)
    /\ job' = "idle"
    /\ MoveTo(Head(chain), "ok")

(* appendFile, then the push, then compaction if the array is too long     *)
AppendRecord ==
    /\ chain # <<>> /\ job = "idle" /\ Active.kind = "post"
    /\ file' = Append(file, Active.rec)
    /\ job' = "appended"
    /\ UNCHANGED <<mem, chain, payload, poisoned, request, env>>

NeedsCompaction(s) == Len(s) > MaxEntries

PushRecord ==
    LET all == Append(entries, Active.rec)
    IN  /\ job = "appended"
        /\ entries' = Trimmed(all)
        /\ IF NeedsCompaction(all)
           THEN /\ payload' = Trimmed(all)
                /\ job' = "compacting"
                /\ UNCHANGED <<chain, request>>
           ELSE /\ WriteDone
                /\ UNCHANGED payload
        /\ UNCHANGED <<file, nextSeq, loaded, seen, poisoned, env>>

(* The records whose id is not in ids, in their order                      *)
Staying(s, ids) == {i \in DOMAIN s : s[i].id \notin ids}

Nth(S, n) == CHOOSE i \in S : Cardinality({j \in S : j <= i}) = n

Kept(s, ids) ==
    [n \in 1 .. Cardinality(Staying(s, ids)) |-> s[Nth(Staying(s, ids), n)]]

DeleteFromArray ==
    /\ chain # <<>> /\ job = "idle" /\ Active.kind = "delete"
    /\ entries' = Kept(entries, Active.ids)
    /\ WriteDone
    /\ UNCHANGED <<file, nextSeq, loaded, seen, payload, poisoned, env>>

DeleteRecords ==
    /\ chain # <<>> /\ job = "idle" /\ Active.kind = "delete"
    /\ entries' = Kept(entries, Active.ids)
    /\ payload' = Kept(entries, Active.ids)
    /\ job' = "compacting"
    /\ UNCHANGED <<file, nextSeq, loaded, seen, chain, poisoned, request, env>>

ClearRecords ==
    /\ chain # <<>> /\ job = "idle" /\ Active.kind = "clear"
    /\ entries' = <<>>
    /\ payload' = <<>>
    /\ job' = "compacting"
    /\ deleted' = deleted \cup RangeOf(entries)
    /\ UNCHANGED <<file, nextSeq, loaded, seen, chain, poisoned, request,
                   mishaps, astray, faults, restarts>>

(* compactHistoryFile                                                      *)
Truncate ==
    /\ job = "compacting"
    /\ file' = <<>>
    /\ job' = "rewriting"
    /\ UNCHANGED <<mem, chain, payload, poisoned, request, env>>

Rewrite ==
    /\ job = "rewriting"
    /\ file' = payload
    /\ WriteDone
    /\ UNCHANGED <<mem, payload, poisoned, env>>

(* Every request whose write is in the chain is answered with an error.    *)
(* The record of the first one is in the file by then if its append had    *)
(* been made.                                                              *)
Reached(p) == job # "idle" /\ p = Head(chain) /\ request[p].kind = "post"

Rejected(p) == [request[p] EXCEPT !.at = IF Reached(p) THEN "halfway" ELSE "failed"]

(* A write rejects, and with it every write that is chained to it, now or  *)
(* later.                                                                  *)
ChainFails ==
    /\ faults < MaxFaults
    /\ faults' = faults + 1
    /\ poisoned' = TRUE
    /\ chain' = <<>>
    /\ job' = "idle"
    /\ request' = [p \in Requests |-> IF p \in RangeOf(chain) THEN Rejected(p)
                                                              ELSE request[p]]
    /\ UNCHANGED <<file, mem, payload, deleted, restarts>>

(* mkdir or appendFile rejects without having written anything.            *)
AppendFails ==
    /\ chain # <<>> /\ job = "idle" /\ Active.kind = "post"
    /\ ChainFails
    /\ UNCHANGED <<mishaps, astray>>

(* The writeFile of compactHistoryFile rejects, before or after it has     *)
(* truncated the file. The array has been changed already.                 *)
Cut == IF job = "rewriting" THEN {"cut"} ELSE {}

RewriteFails ==
    /\ job \in {"compacting", "rewriting"}
    /\ ChainFails
    /\ mishaps' = mishaps \cup Cut
    /\ astray' = TRUE

(* The server is stopped, or dies, and is started again. Who waited for an *)
(* answer gets none.                                                       *)
Restart ==
    /\ restarts < MaxRestarts
    /\ restarts' = restarts + 1
    /\ entries' = <<>> /\ nextSeq' = 1 /\ loaded' = FALSE /\ seen' = <<>>
    /\ chain' = <<>> /\ job' = "idle" /\ payload' = <<>> /\ poisoned' = FALSE
    /\ request' = [p \in Requests |->
                      IF request[p].at \in {"reading", "parsing", "ready", "chained"}
                      THEN Rejected(p)
                      ELSE request[p]]
    /\ mishaps' = mishaps \cup Cut
    /\ astray' = FALSE
    /\ UNCHANGED <<file, deleted, faults>>

Serve(p) ==
    \/ ReadFile(p) \/ LoadFails(p) \/ FinishLoad(p)
    \/ Get(p) \/ Post(p) \/ Delete(p)

WriteStep ==
    \/ AppendRecord \/ PushRecord \/ DeleteRecords \/ ClearRecords
    \/ Truncate \/ Rewrite
    \/ AppendFails \/ RewriteFails

HistoryNext ==
    \/ \E p \in Requests : Ask(p) \/ Serve(p)
    \/ WriteStep
    \/ Restart

HistorySpec == HistoryInit /\ [][HistoryNext]_historyVars

------------------------------------------------------------------------------
(* The records that have reached the file, those at first in it included   *)
Stored ==
    RangeOf(Old) \cup {request[p].rec : p \in {q \in Requests :
                         request[q].kind = "post" /\ request[q].at \in {"ok", "halfway"}}}

Younger(S, e) == {o \in S : o.id > e.id}

Resting == job = "idle" /\ chain = <<>>

IdsAscend(s) == \A i, j \in DOMAIN s : i < j => s[i].id < s[j].id

(* Every variable keeps its type; the array never exceeds its limit, and   *)
(* a write is in progress only for the head of the chain.                  *)
HistoryTypeOK ==
    /\ Len(entries) <= MaxEntries
    /\ nextSeq \in Nat \ {0}
    /\ job \in {"idle", "appended", "compacting", "rewriting"}
    /\ job # "idle" => chain # <<>>
    /\ poisoned => chain = <<>>
    /\ RangeOf(chain) \subseteq {p \in Requests : request[p].at = "chained"}
    /\ \A p \in Requests : request[p].at \in
          {"new", "reading", "parsing", "ready", "chained", "ok", "halfway", "failed"}
    /\ mishaps \subseteq {"load", "cut"}

(* As long as no load has failed, no two records of the history share an   *)
(* id, whatever crashes, rejected writes, restarts and loads come between: *)
(* deleting by id deletes one record. The array and the file stay in the   *)
(* order of the ids. (An id may be given again once the newest record has  *)
(* been deleted and the server restarted.)                                 *)
IdsAreUnique ==
    "load" \notin mishaps => IdsAscend(entries) /\ IdsAscend(file)

(* When no write is pending, the next start shows what this one shows: the *)
(* array is the file up to its limit, even after a failed append, and even *)
(* if an earlier run was stopped in the middle of a write. Only a failed   *)
(* load or a failed rewriting separates them, until the next restart.      *)
FileIsHistory ==
    Resting /\ loaded /\ ~Loading /\ ~astray => entries = Trimmed(file)

(* A record that has reached the file leaves it only because somebody      *)
(* asked for its deletion or because MaxEntries younger ones were there    *)
(* too, unless a load has failed or the rewriting of the file has been     *)
(* stopped after its truncation.                                           *)
OnlyChosenRecordsGo ==
    job # "rewriting" /\ mishaps = {} =>
        \A e \in Stored :
            \/ e \in RangeOf(file)
            \/ e \in deleted
            \/ Cardinality(Younger(Stored, e)) >= MaxEntries
===============================================================================
