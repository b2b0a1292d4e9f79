--------------------------- MODULE StageRuntimeProofs ---------------------------
(***************************************************************************)
(* What one forward does to the sessions of a stage: the lemmas on which   *)
(* the proofs about one stage and about the line of stages rest. For every *)
(* set of request ids and every session limit.                             *)
(***************************************************************************)
EXTENDS StageRuntime, FiniteSetTheorems, WellFoundedInduction, TLAPS

RowValues == {"ref", "off", "gap"}

SessionType == [seqLen : Nat, valid : BOOLEAN, rows : Seq(RowValues)]

(* A map of sessions as the stage may hold it between two forwards.        *)
SessionMap(S) ==
    /\ S = [r \in DOMAIN S |-> S[r]]
    /\ DOMAIN S \subseteq Requests
    /\ IsFiniteSet(DOMAIN S)
    /\ Cardinality(DOMAIN S) <= MaxSessions
    /\ \A r \in DOMAIN S : S[r] \in SessionType

IsRequest(req) ==
    /\ req.id \in Requests
    /\ req.tokens \in Seq(Nat)
    /\ Len(req.tokens) >= 1

------------------------------------------------------------------------------
(* The session limit.                                                      *)

LEMMA SmallestNat ==
    ASSUME NEW T \in SUBSET Nat, T # {}
    PROVE  \E m \in T : \A n \in T : m <= n
<1> DEFINE R == {ss \in Nat \X Nat : ss[1] < ss[2]}
<1>1. IsWellFoundedOn(R, Nat)
  BY NatLessThanWellFounded DEF OpToRel
<1>2. \A n, m \in T : n < m => <<n, m>> \in R
  OBVIOUS
<1> HIDE DEF R
<1>3. PICK m \in T : \A n \in T : ~(<<n, m>> \in R)
  BY <1>1, WFMin
<1>4. ASSUME NEW n \in T PROVE m <= n
  <2>1. ~(n < m)
    BY <1>2, <1>3
  <2>2. m \in Nat /\ n \in Nat
    OBVIOUS
  <2> QED BY <2>1, <2>2
<1> QED BY <1>4

(* Of the other sessions only those with fewer than MaxSessions - 1 larger *)
(* ones stay, the smallest of them included.                               *)
LEMMA RetainedFits ==
    ASSUME NEW ids \in SUBSET Requests, IsFiniteSet(ids), NEW keep \in ids
    PROVE  /\ Retained(ids, keep) \subseteq ids
           /\ keep \in Retained(ids, keep)
           /\ IsFiniteSet(Retained(ids, keep))
           /\ Cardinality(Retained(ids, keep)) <= MaxSessions
<1> DEFINE Others == ids \ {keep}
           Larger(r) == {q \in Others : q > r}
           Kept == {r \in Others : Cardinality(Larger(r)) + 1 < MaxSessions}
<1>1. Retained(ids, keep) = Kept \cup {keep}
  BY DEF Retained
<1>2. IsFiniteSet(Others)
  BY FS_Subset
<1>3. IsFiniteSet(Kept) /\ Cardinality(Kept) \in Nat
  BY <1>2, FS_Subset, FS_CardinalityType
<1>4. IsFiniteSet(Kept \cup {keep}) /\ Cardinality(Kept \cup {keep}) = Cardinality(Kept) + 1
  BY <1>3, FS_AddElement
<1>5. Cardinality(Kept) + 1 <= MaxSessions
  <2>1. CASE Kept = {}
    <3> HIDE DEF Kept
    <3>1. Cardinality(Kept) = 0
      BY <2>1, FS_EmptySet
    <3> QED BY <3>1, RuntimeAssumption DEF RuntimeAssumption
  <2>2. CASE Kept # {}
    <3>1. Kept \in SUBSET Nat
      BY RuntimeAssumption DEF RuntimeAssumption
    <3>2. PICK r \in Kept : \A q \in Kept : r <= q
      BY <2>2, <3>1, SmallestNat
    <3>3. Kept \ {r} \subseteq Larger(r)
      BY <3>1, <3>2
    <3>4. IsFiniteSet(Larger(r)) /\ Cardinality(Larger(r)) \in Nat
      BY <1>2, FS_Subset, FS_CardinalityType
    <3>5. Cardinality(Kept \ {r}) <= Cardinality(Larger(r))
      BY <3>3, <3>4, FS_Subset
    <3>6. Cardinality(Kept \ {r}) = Cardinality(Kept) - 1
      BY <1>3, FS_RemoveElement
    <3>7. Cardinality(Larger(r)) + 1 < MaxSessions
      OBVIOUS
    <3> HIDE DEF Kept, Larger
    <3> QED BY <1>3, <3>4, <3>5, <3>6, <3>7, RuntimeAssumption DEF RuntimeAssumption
  <2> QED BY <2>1, <2>2
<1>6. Kept \cup {keep} \subseteq ids /\ keep \in Kept \cup {keep}
  OBVIOUS
<1> HIDE DEF Kept
<1>7. Cardinality(Retained(ids, keep)) <= MaxSessions
  BY <1>1, <1>4, <1>5
<1> QED BY <1>1, <1>4, <1>6, <1>7

(* If a session goes, the map is full. Of those that go consider one with  *)
(* the fewest larger ones: all of these stay.                              *)
LEMMA RetainedFull ==
    ASSUME NEW ids \in SUBSET Requests, IsFiniteSet(ids), NEW keep \in ids,
           ids \ Retained(ids, keep) # {}
    PROVE  Cardinality(Retained(ids, keep)) = MaxSessions
<1> DEFINE Others == ids \ {keep}
           Larger(r) == {q \in Others : q > r}
           Kept == {r \in Others : Cardinality(Larger(r)) + 1 < MaxSessions}
           Gone == Others \ Kept
<1>1. Retained(ids, keep) = Kept \cup {keep} /\ Gone # {}
  BY DEF Retained
<1>2. IsFiniteSet(Others) /\ Others \subseteq Nat
  BY FS_Subset, RuntimeAssumption DEF RuntimeAssumption
<1>3. IsFiniteSet(Kept) /\ Cardinality(Kept) \in Nat /\ keep \notin Kept
  BY <1>2, FS_Subset, FS_CardinalityType
<1>4. \A r \in Others : IsFiniteSet(Larger(r)) /\ Cardinality(Larger(r)) \in Nat
  BY <1>2, FS_Subset, FS_CardinalityType
<1>5. PICK r \in Gone : \A q \in Gone : Cardinality(Larger(r)) <= Cardinality(Larger(q))
  <2>1. Gone \subseteq Others
    OBVIOUS
  <2> DEFINE size(q) == Cardinality(Larger(q))
  <2>2. \A q \in Gone : size(q) \in Nat
    BY <1>4, <2>1
  <2> HIDE DEF size, Gone
  <2>3. {size(q) : q \in Gone} \in SUBSET Nat /\ {size(q) : q \in Gone} # {}
    BY <1>1, <2>2
  <2>4. PICK n \in {size(q) : q \in Gone} : \A m \in {size(q) : q \in Gone} : n <= m
    BY <2>3, SmallestNat
  <2>5. \E r \in Gone : \A q \in Gone : size(r) <= size(q)
    BY <2>4
  <2> QED BY <2>5 DEF size
<1>6. Larger(r) \subseteq Kept
  <2> SUFFICES ASSUME NEW q \in Larger(r), q \in Gone PROVE FALSE
    OBVIOUS
  <2>1. q \in Others /\ q \in Nat /\ r \in Others /\ r \in Nat /\ q > r
    BY <1>2
  <2>2. Larger(q) \subseteq Larger(r) /\ q \notin Larger(q)
    <3>1. ASSUME NEW x \in Larger(q) PROVE x \in Larger(r)
      <4>1. x \in Others /\ x \in Nat /\ x > q
        BY <1>2
      <4>2. x > r
        BY <2>1, <4>1
      <4> QED BY <4>1, <4>2
    <3>2. ~(q > q)
      BY <2>1
    <3> QED BY <3>1, <3>2
  <2>3. /\ Cardinality(Larger(q)) <= Cardinality(Larger(r))
        /\ Cardinality(Larger(r)) # Cardinality(Larger(q))
    BY <1>4, <2>1, <2>2, FS_Subset
  <2>4. Cardinality(Larger(q)) \in Nat /\ Cardinality(Larger(r)) \in Nat
    BY <1>4, <2>1
  <2>5. Cardinality(Larger(r)) <= Cardinality(Larger(q))
    BY <1>5
  <2> HIDE DEF Larger
  <2> QED BY <2>3, <2>4, <2>5
<1>7. Cardinality(Larger(r)) <= Cardinality(Kept)
  BY <1>3, <1>6, FS_Subset
<1>8. ~(Cardinality(Larger(r)) + 1 < MaxSessions) /\ Cardinality(Larger(r)) \in Nat
  BY <1>4
<1>9. Cardinality(Retained(ids, keep)) = Cardinality(Kept) + 1
  BY <1>1, <1>3, FS_AddElement
<1>10. Cardinality(Retained(ids, keep)) <= MaxSessions
  BY RetainedFits
<1> HIDE DEF Kept, Larger
<1> QED BY <1>3, <1>7, <1>8, <1>9, <1>10, RuntimeAssumption DEF RuntimeAssumption

------------------------------------------------------------------------------
(* What a forward does to the map.                                         *)

(* The session the forward starts from.                                    *)
Base(S, req) ==
    IF req.id \in DOMAIN S /\ ~StartsOver(req) THEN S[req.id] ELSE Fresh

(* What it makes of it.                                                    *)
Served(session, req, outcome) ==
    [Advance(session, req) EXCEPT
        !.rows = IF outcome = "early" THEN session.rows
                 ELSE WriteRows(session.rows, session.seqLen, req.tokens)]

LEMMA FreshType == Fresh \in SessionType
  BY DEF Fresh, SessionType

LEMMA FoundShape ==
    ASSUME NEW S, SessionMap(S), NEW req, IsRequest(req)
    PROVE  /\ SessionMap(SessionFor(S, req))
           /\ req.id \in DOMAIN SessionFor(S, req)
           /\ SessionFor(S, req)[req.id] = Base(S, req)
           /\ DOMAIN SessionFor(S, req) \subseteq DOMAIN S \cup {req.id}
           /\ \A q \in DOMAIN SessionFor(S, req) \ {req.id} : SessionFor(S, req)[q] = S[q]
<1> DEFINE ids == DOMAIN S \cup {req.id}
<1>1. ids \subseteq Requests /\ IsFiniteSet(ids)
  BY FS_AddElement DEF SessionMap, IsRequest
<1>2. Base(S, req) \in SessionType
  BY FreshType DEF Base, SessionMap
<1>3. SessionFor(S, req) = [r \in Retained(ids, req.id) |->
                               IF r = req.id THEN Base(S, req) ELSE S[r]]
  <2>1. Retained(ids, req.id) \subseteq ids
    BY DEF Retained
  <2> QED BY <2>1 DEF SessionFor, Base
<1>4. req.id \in ids
  OBVIOUS
<1> HIDE DEF ids
<1>5. /\ Retained(ids, req.id) \subseteq ids
      /\ req.id \in Retained(ids, req.id)
      /\ IsFiniteSet(Retained(ids, req.id))
      /\ Cardinality(Retained(ids, req.id)) <= MaxSessions
  BY <1>1, <1>4, RetainedFits
<1>6. DOMAIN SessionFor(S, req) = Retained(ids, req.id)
  BY <1>3
<1>7. \A r \in DOMAIN SessionFor(S, req) : SessionFor(S, req)[r] \in SessionType
  BY <1>2, <1>3, <1>5, <1>6 DEF SessionMap, ids
<1>8. SessionMap(SessionFor(S, req))
  BY <1>1, <1>3, <1>5, <1>6, <1>7 DEF SessionMap
<1> QED BY <1>3, <1>5, <1>6, <1>8 DEF ids

LEMMA AdvanceType ==
    ASSUME NEW session \in SessionType, NEW req, IsRequest(req)
    PROVE  /\ Advance(session, req) \in SessionType
           /\ Advance(session, req).rows = session.rows
           /\ \/ Advance(session, req).seqLen = session.seqLen
              \/ Advance(session, req).seqLen = session.seqLen + Len(req.tokens)
<1>1. Len(req.tokens) \in Nat
  BY DEF IsRequest
<1>2. WellFormed(req) \in BOOLEAN
  BY DEF WellFormed
<1>3. CASE ~req.kv
  BY <1>3 DEF Advance
<1>4. CASE req.kv
  <2> DEFINE n == IF WellFormed(req) THEN session.seqLen + Len(req.tokens) ELSE session.seqLen
             v == session.valid /\ WellFormed(req)
  <2>1. Advance(session, req) = [session EXCEPT !.seqLen = n, !.valid = v]
    BY <1>4 DEF Advance
  <2>2. n \in Nat
    BY <1>1 DEF SessionType
  <2>3. v \in BOOLEAN
    BY <1>2 DEF SessionType
  <2>4. n = session.seqLen \/ n = session.seqLen + Len(req.tokens)
    OBVIOUS
  <2> HIDE DEF n, v
  <2>5. /\ Advance(session, req) \in SessionType
        /\ Advance(session, req).rows = session.rows
        /\ Advance(session, req).seqLen = n
    BY <2>1, <2>2, <2>3 DEF SessionType
  <2> QED BY <2>4, <2>5
<1> QED BY <1>3, <1>4

(* Writing leaves no row below its end unwritten, touches no row outside   *)
(* its range, and extends a reference prefix by reference rows when the    *)
(* tokens are the reference's.                                             *)
Written(w, rows, before, tokens) ==
    /\ w \in Seq(RowValues)
    /\ Len(w) >= Len(rows) /\ Len(w) >= before + Len(tokens)
    /\ \A p \in 1 .. Len(rows) :
          p \notin before + 1 .. before + Len(tokens) => w[p] = rows[p]
    /\ \A p \in before + 1 .. before + Len(tokens) : w[p] \in {"ref", "off"}
    /\ \A p \in before + 1 .. before + Len(tokens) :
          /\ RefUpTo(rows, before)
          /\ \A q \in before + 1 .. p : tokens[q - before] = q
          => w[p] = "ref"

LEMMA WriteRowsShape ==
    ASSUME NEW rows \in Seq(RowValues), NEW before \in Nat, NEW tokens \in Seq(Nat)
    PROVE  Written(WriteRows(rows, before, tokens), rows, before, tokens)
<1> DEFINE last == before + Len(tokens)
           size == IF Len(rows) < last THEN last ELSE Len(rows)
           Row(p) == IF /\ RefUpTo(rows, before)
                        /\ \A q \in before + 1 .. p : tokens[q - before] = q
                     THEN "ref" ELSE "off"
           w == WriteRows(rows, before, tokens)
           Cell(p) == CASE p \in before + 1 .. last -> Row(p)
                        [] p <= Len(rows) /\ p \notin before + 1 .. last -> rows[p]
                        [] OTHER -> "gap"
<1>1. last \in Nat /\ size \in Nat /\ Len(rows) \in Nat /\ last <= size /\ Len(rows) <= size
  OBVIOUS
<1>2. w = [p \in 1 .. size |-> Cell(p)]
  BY DEF WriteRows
<1>3. \A p \in before + 1 .. last : Cell(p) = Row(p)
  OBVIOUS
<1>4. \A p \in 1 .. Len(rows) : p \notin before + 1 .. last => Cell(p) = rows[p]
  OBVIOUS
<1>5. \A p \in 1 .. size : Cell(p) \in RowValues
  BY DEF RowValues
<1>6. \A p \in before + 1 .. last : p \in 1 .. size
  BY <1>1
<1>7. \A p \in 1 .. Len(rows) : p \in 1 .. size
  BY <1>1
<1> HIDE DEF Cell, size, last, w
<1>8. w \in Seq(RowValues) /\ Len(w) = size
  BY <1>1, <1>2, <1>5
<1>9. /\ \A p \in before + 1 .. last : w[p] = Row(p)
      /\ \A p \in 1 .. Len(rows) : p \notin before + 1 .. last => w[p] = rows[p]
  BY <1>2, <1>3, <1>4, <1>6, <1>7
<1> QED BY <1>1, <1>8, <1>9 DEF w, last, Written

LEMMA ServedType ==
    ASSUME NEW session \in SessionType, NEW req, IsRequest(req), NEW outcome
    PROVE  /\ Served(session, req, outcome) \in SessionType
           /\ Served(session, req, outcome).seqLen = Advance(session, req).seqLen
           /\ Served(session, req, outcome).rows =
                 IF outcome = "early" THEN session.rows
                 ELSE WriteRows(session.rows, session.seqLen, req.tokens)
<1> DEFINE rows == IF outcome = "early" THEN session.rows
                   ELSE WriteRows(session.rows, session.seqLen, req.tokens)
<1>1. session.rows \in Seq(RowValues) /\ session.seqLen \in Nat /\ req.tokens \in Seq(Nat)
  BY DEF SessionType, IsRequest
<1>2. rows \in Seq(RowValues)
  BY <1>1, WriteRowsShape DEF Written
<1>3. Advance(session, req) \in SessionType
  BY AdvanceType
<1>4. Served(session, req, outcome) = [Advance(session, req) EXCEPT !.rows = rows]
  BY DEF Served
<1> HIDE DEF rows
<1>5. /\ Served(session, req, outcome) \in SessionType
      /\ Served(session, req, outcome).seqLen = Advance(session, req).seqLen
      /\ Served(session, req, outcome).rows = rows
  BY <1>2, <1>3, <1>4 DEF SessionType
<1> QED BY <1>5 DEF rows

(* A forward changes the session of its request and drops some others.     *)
LEMMA ForwardShape ==
    ASSUME NEW S, SessionMap(S), NEW req, IsRequest(req), NEW outcome
    PROVE  LET after == Forward(S, req, outcome).sessions IN
           /\ SessionMap(after)
           /\ req.id \in DOMAIN after
           /\ after[req.id] = Served(Base(S, req), req, outcome)
           /\ DOMAIN after \subseteq DOMAIN S \cup {req.id}
           /\ \A q \in DOMAIN after \ {req.id} : after[q] = S[q]
<1> DEFINE found == SessionFor(S, req)
           after == Forward(S, req, outcome).sessions
           served == Served(Base(S, req), req, outcome)
<1>1. /\ SessionMap(found)
      /\ req.id \in DOMAIN found
      /\ found[req.id] = Base(S, req)
      /\ DOMAIN found \subseteq DOMAIN S \cup {req.id}
      /\ \A q \in DOMAIN found \ {req.id} : found[q] = S[q]
  BY FoundShape
<1>2. after = [found EXCEPT ![req.id] = Served(found[req.id], req, outcome)]
  BY DEF Forward, Served
<1>3. Base(S, req) \in SessionType
  BY FreshType DEF Base, SessionMap
<1>4. served \in SessionType
  BY <1>3, ServedType
<1> HIDE DEF found, after, served
<1>5. after = [found EXCEPT ![req.id] = served]
  BY <1>1, <1>2 DEF served
<1>6. DOMAIN after = DOMAIN found /\ after[req.id] = served
  BY <1>1, <1>5
<1>7. \A q \in DOMAIN after \ {req.id} : after[q] = found[q]
  BY <1>5, <1>6
<1>8. SessionMap(after)
  BY <1>1, <1>4, <1>5, <1>6, <1>7 DEF SessionMap
<1> QED BY <1>1, <1>6, <1>7, <1>8 DEF after, served

(* A forward that erases a session leaves the map full.                    *)
LEMMA ForwardEvicts ==
    ASSUME NEW S, SessionMap(S), NEW req, IsRequest(req), NEW outcome,
           DOMAIN S \ DOMAIN Forward(S, req, outcome).sessions # {}
    PROVE  Cardinality(DOMAIN Forward(S, req, outcome).sessions) = MaxSessions
<1> DEFINE ids == DOMAIN S \cup {req.id}
<1>1. ids \in SUBSET Requests /\ IsFiniteSet(ids) /\ req.id \in ids
  BY FS_AddElement DEF SessionMap, IsRequest
<1>2. DOMAIN Forward(S, req, outcome).sessions = Retained(ids, req.id)
  BY DEF Forward, SessionFor
<1>3. ids \ Retained(ids, req.id) # {}
  BY <1>2
<1> HIDE DEF ids
<1> QED BY <1>1, <1>2, <1>3, RetainedFull

(* A forward that returns gives one activation for each of its tokens.     *)
LEMMA ForwardOut ==
    ASSUME NEW S, SessionMap(S), NEW req, IsRequest(req), NEW outcome
    PROVE  /\ Forward(S, req, outcome).out \in Seq(Nat)
           /\ outcome = "done" =>
                 Len(Forward(S, req, outcome).out) = Len(req.tokens)
<1> DEFINE before == Base(S, req).seqLen
           rows == IF outcome = "early" THEN Base(S, req).rows
                   ELSE WriteRows(Base(S, req).rows, before, req.tokens)
           n == Len(req.tokens)
<1>1. SessionFor(S, req)[req.id] = Base(S, req)
  BY FoundShape
<1>2. Forward(S, req, outcome).out = IF outcome = "done" THEN Activations(rows, before, n) ELSE <<>>
  BY <1>1 DEF Forward
<1>3. before \in Nat
  BY FreshType DEF Base, SessionMap, SessionType
<1>4. n \in Nat
  BY DEF IsRequest
<1> HIDE DEF before, rows, n
<1>5. Activations(rows, before, n) \in Seq(Nat) /\ Len(Activations(rows, before, n)) = n
  BY <1>3, <1>4 DEF Activations, Stray
<1> QED BY <1>2, <1>5 DEF n

------------------------------------------------------------------------------
(* What a forward does to one session.                                     *)

NoHole(session) ==
    /\ session.seqLen <= Len(session.rows)
    /\ \A p \in 1 .. session.seqLen : session.rows[p] # "gap"

Faithful(session, n) == session.seqLen = n /\ RefUpTo(session.rows, n)

LEMMA FreshNoHole == NoHole(Fresh)
  BY DEF NoHole, Fresh

LEMMA ServedNoHole ==
    ASSUME NEW session \in SessionType, NoHole(session),
           NEW req, IsRequest(req), NEW outcome, outcome # "early"
    PROVE  NoHole(Served(session, req, outcome))
<1> DEFINE rows == session.rows
           len == session.seqLen
           last == len + Len(req.tokens)
           w == WriteRows(rows, len, req.tokens)
           served == Served(session, req, outcome)
<1>1. rows \in Seq(RowValues) /\ len \in Nat /\ req.tokens \in Seq(Nat)
  BY DEF SessionType, IsRequest
<1>2. Written(w, rows, len, req.tokens)
  BY <1>1, WriteRowsShape
<1>3. /\ w \in Seq(RowValues)
      /\ Len(w) >= last
      /\ \A p \in 1 .. Len(rows) : p \notin len + 1 .. last => w[p] = rows[p]
      /\ \A p \in len + 1 .. last : w[p] \in {"ref", "off"}
  BY <1>2 DEF Written
<1>4. served.rows = w /\ (served.seqLen = len \/ served.seqLen = last)
  BY AdvanceType, ServedType
<1>5. len <= Len(rows) /\ \A p \in 1 .. len : rows[p] # "gap"
  BY DEF NoHole
<1>6. Len(req.tokens) \in Nat /\ Len(rows) \in Nat
  BY <1>1
<1> HIDE DEF rows, len, w, served
<1>7. \A p \in 1 .. last : w[p] # "gap"
  <2> SUFFICES ASSUME NEW p \in 1 .. last PROVE w[p] # "gap"
    OBVIOUS
  <2>1. CASE p \in 1 .. len
    BY <1>1, <1>3, <1>5, <1>6, <2>1
  <2>2. CASE p \in len + 1 .. last
    BY <1>3, <2>2
  <2> QED BY <1>1, <1>6, <2>1, <2>2
<1>8. served.seqLen <= Len(w) /\ \A p \in 1 .. served.seqLen : w[p] # "gap"
  <2>1. Len(w) \in Nat
    BY <1>3
  <2> QED BY <1>1, <1>3, <1>4, <1>6, <1>7, <2>1
<1> QED BY <1>4, <1>8 DEF NoHole, served

(* n tokens, the reference's after the first "before".                     *)
Continues(req, before, n) ==
    /\ IsRequest(req) /\ req.kv = TRUE /\ WellFormed(req)
    /\ Len(req.tokens) = n
    /\ \A q \in 1 .. n : req.tokens[q] = before + q

(* A well-formed request whose tokens are the reference's next ones extends*)
(* the reference rows by its own.                                          *)
LEMMA ServedFaithful ==
    ASSUME NEW session \in SessionType, NEW before \in Nat, Faithful(session, before),
           NEW n \in Nat, NEW req, Continues(req, before, n), NEW outcome
    PROVE  /\ Served(session, req, outcome).seqLen = before + n
           /\ outcome # "early" => Faithful(Served(session, req, outcome), before + n)
<1> DEFINE rows == session.rows
           w == WriteRows(rows, before, req.tokens)
           served == Served(session, req, outcome)
<1>1. /\ rows \in Seq(RowValues) /\ session.seqLen = before /\ RefUpTo(rows, before)
      /\ req.tokens \in Seq(Nat)
  BY DEF Faithful, SessionType, IsRequest, Continues
<1>2. /\ IsRequest(req) /\ req.kv = TRUE /\ WellFormed(req)
      /\ Len(req.tokens) = n
      /\ \A q \in 1 .. n : req.tokens[q] = before + q
  BY DEF Continues
<1>3. Advance(session, req).seqLen = before + n
  BY <1>1, <1>2 DEF Advance, SessionType
<1>4. served.seqLen = before + n /\ (outcome # "early" => served.rows = w)
  BY <1>1, <1>3, <1>2, ServedType
<1>5. Written(w, rows, before, req.tokens)
  BY <1>1, WriteRowsShape
<1>6. /\ Len(w) >= before + n
      /\ \A p \in 1 .. Len(rows) : p \notin before + 1 .. before + n => w[p] = rows[p]
      /\ \A p \in before + 1 .. before + n :
            /\ RefUpTo(rows, before)
            /\ \A q \in before + 1 .. p : req.tokens[q - before] = q
            => w[p] = "ref"
  BY <1>2, <1>5 DEF Written
<1>7. before <= Len(rows) /\ Len(rows) \in Nat /\ \A p \in 1 .. before : rows[p] = "ref"
  BY <1>1 DEF RefUpTo
<1> HIDE DEF rows, w, served
<1>8. ASSUME NEW p \in before + 1 .. before + n PROVE w[p] = "ref"
  <2>1. ASSUME NEW q \in before + 1 .. p PROVE req.tokens[q - before] = q
    <3>1. q - before \in 1 .. n /\ before + (q - before) = q
      OBVIOUS
    <3> QED BY <1>2, <3>1
  <2> QED BY <1>1, <1>6, <2>1
<1>9. ASSUME NEW p \in 1 .. before PROVE w[p] = "ref"
  <2>1. p \in 1 .. Len(rows) /\ p \notin before + 1 .. before + n
    BY <1>7
  <2> QED BY <1>6, <1>7, <2>1
<1>10. ASSUME NEW p \in 1 .. before + n PROVE w[p] = "ref"
  <2>1. p \in 1 .. before \/ p \in before + 1 .. before + n
    OBVIOUS
  <2> QED BY <1>8, <1>9, <2>1
<1>11. outcome # "early" => Faithful(served, before + n)
  BY <1>4, <1>6, <1>10 DEF Faithful, RefUpTo
<1> QED BY <1>4, <1>11 DEF served

LEMMA FreshFaithful == Faithful(Fresh, 0)
  BY DEF Faithful, RefUpTo, Fresh

LEMMA PrefillFaithful ==
    ASSUME NEW r \in Requests, NEW n \in Nat \ {0}
    PROVE  LET req == Request(r, "prefill", 0, [i \in 1 .. n |-> i]) IN
           /\ IsRequest(req)
           /\ StartsOver(req)
           /\ Faithful(Served(Fresh, req, "done"), n)
<1> DEFINE tokens == [i \in 1 .. n |-> i]
           req == Request(r, "prefill", 0, tokens)
<1>1. tokens \in Seq(Nat) /\ Len(tokens) = n /\ \A q \in 1 .. n : tokens[q] = 0 + q
  OBVIOUS
<1> HIDE DEF tokens
<1>2. /\ req.id = r /\ req.tokens = tokens /\ req.kv = TRUE
      /\ req.mode = "prefill" /\ req.index = 0
  BY DEF Request
<1>3. IsRequest(req) /\ StartsOver(req)
  BY <1>1, <1>2 DEF IsRequest, StartsOver
<1>4. WellFormed(req)
  <2>1. tokens # <<>>
    BY <1>1
  <2> QED BY <1>2, <2>1 DEF WellFormed
<1> HIDE DEF req
<1>5. PICK before, outcome : before = 0 /\ outcome = "done"
  OBVIOUS
<1>6. /\ before \in Nat /\ Faithful(Fresh, before) /\ outcome # "early"
      /\ Continues(req, before, n)
  BY <1>1, <1>2, <1>3, <1>4, <1>5, FreshFaithful DEF Continues
<1>7. Faithful(Served(Fresh, req, outcome), before + n)
  BY <1>6, FreshType, ServedFaithful
<1>8. before + n = n
  BY <1>5
<1>9. Faithful(Served(Fresh, req, "done"), n)
  BY <1>5, <1>7, <1>8
<1> QED BY <1>3, <1>9 DEF req, tokens

LEMMA DecodeFaithful ==
    ASSUME NEW session \in SessionType, NEW n \in Nat, Faithful(session, n),
           NEW req, IsRequest(req), req.mode = "decode", req.kv = TRUE,
           req.tokens = <<n + 1>>
    PROVE  Faithful(Served(session, req, "done"), n + 1)
<1>1. PICK k, outcome : k = 1 /\ outcome = "done"
  OBVIOUS
<1>2. k \in Nat /\ outcome # "early" /\ Continues(req, n, k)
  BY <1>1 DEF Continues, WellFormed
<1>3. Faithful(Served(session, req, outcome), n + k)
  BY <1>2, ServedFaithful
<1> QED BY <1>1, <1>3

(* What a stage has of a request: no session before its first row.         *)
Keeps(S, id, n) ==
    IF n = 0 THEN id \notin DOMAIN S ELSE id \in DOMAIN S /\ Faithful(S[id], n)

(* A forward of the reference's next tokens: the session moves by as many  *)
(* rows whatever happens, and unless it throws these and the activations   *)
(* are the reference's.                                                    *)
LEMMA ForwardMarches ==
    ASSUME NEW S, SessionMap(S), NEW before \in Nat, NEW n \in Nat,
           NEW req, Continues(req, before, n),
           Keeps(S, req.id, before), before # 0 => req.mode = "decode",
           NEW outcome, NEW after, after = Forward(S, req, outcome)
    PROVE  /\ after.sessions[req.id].seqLen = before + n
           /\ outcome = "done" => /\ Faithful(after.sessions[req.id], before + n)
                                  /\ Len(after.out) = n
                                  /\ \A i \in 1 .. n : after.out[i] = before + i
<1> DEFINE base == Base(S, req)
           served == Served(base, req, outcome)
<1>1. IsRequest(req) /\ Len(req.tokens) = n
  BY DEF Continues
<1>2. base \in SessionType /\ Faithful(base, before)
  BY FreshType, FreshFaithful DEF Base, Keeps, StartsOver, SessionMap
<1>3. /\ served.seqLen = before + n
      /\ outcome # "early" => Faithful(served, before + n)
  BY <1>2, ServedFaithful
<1>4. after.sessions[req.id] = served
  BY <1>1, ForwardShape
<1>5. served.rows = IF outcome = "early" THEN base.rows
                    ELSE WriteRows(base.rows, before, req.tokens)
  BY <1>2, <1>1, ServedType DEF Faithful
<1>6. SessionFor(S, req)[req.id] = base
  BY <1>1, FoundShape
<1>7. after.out = IF outcome = "done" THEN Activations(served.rows, before, n) ELSE <<>>
  BY <1>2, <1>5, <1>6, <1>1 DEF Forward, Faithful
<1> HIDE DEF base, served
<1>8. ASSUME outcome = "done"
      PROVE  /\ Len(after.out) = n
             /\ \A i \in 1 .. n : after.out[i] = before + i
  <2>1. \A p \in 1 .. before + n : served.rows[p] = "ref"
    BY <1>3, <1>8 DEF Faithful, RefUpTo
  <2>2. \A i \in 1 .. n : before + i \in 1 .. before + n
    OBVIOUS
  <2>3. \A i \in 1 .. n : served.rows[before + i] = "ref"
    BY <2>1, <2>2
  <2>4. after.out = [i \in 1 .. n |-> IF served.rows[before + i] = "ref" THEN before + i ELSE Stray]
    BY <1>7, <1>8 DEF Activations
  <2>5. DOMAIN after.out = 1 .. n /\ after.out \in Seq(Nat)
    BY <2>4 DEF Stray
  <2>6. Len(after.out) = n
    BY <2>5
  <2> QED BY <2>3, <2>4, <2>6
<1> QED BY <1>3, <1>4, <1>8

LEMMA OddFaithful ==
    ASSUME NEW session \in SessionType, NEW n \in Nat, Faithful(session, n),
           NEW req, IsRequest(req), ~req.kv \/ ~WellFormed(req)
    PROVE  Faithful(Served(session, req, "done"), n)
<1> DEFINE rows == session.rows
           w == WriteRows(rows, n, req.tokens)
<1>1. rows \in Seq(RowValues) /\ session.seqLen = n /\ RefUpTo(rows, n)
  BY DEF Faithful, SessionType
<1>2. req.tokens \in Seq(Nat) /\ Len(req.tokens) \in Nat
  BY DEF IsRequest
<1>3. Advance(session, req).seqLen = n
  BY <1>1 DEF Advance, SessionType
<1>4. Served(session, req, "done").seqLen = n /\ Served(session, req, "done").rows = w
  BY <1>1, <1>3, ServedType
<1>5. Written(w, rows, n, req.tokens)
  BY <1>1, <1>2, WriteRowsShape
<1>6. /\ w \in Seq(RowValues)
      /\ Len(w) >= Len(rows)
      /\ \A p \in 1 .. Len(rows) :
            p \notin n + 1 .. n + Len(req.tokens) => w[p] = rows[p]
  BY <1>2, <1>5 DEF Written
<1>7. n <= Len(rows) /\ \A p \in 1 .. n : rows[p] = "ref"
  BY <1>1 DEF RefUpTo
<1>8. Len(rows) \in Nat /\ Len(w) \in Nat
  BY <1>1, <1>6
<1> HIDE DEF rows, w
<1>9. \A p \in 1 .. n : w[p] = "ref"
  BY <1>2, <1>6, <1>7, <1>8
<1>10. n <= Len(w)
  BY <1>6, <1>7, <1>8
<1> QED BY <1>4, <1>9, <1>10 DEF Faithful, RefUpTo
=============================================================================
