--------------------------- MODULE StageMapProofs ---------------------------
(***************************************************************************)
(* Stage maps, for every number of layers and stages: split_layers gives   *)
(* each layer to one stage; the gateway and each stage, with the parsers   *)
(* they have, read from a map of any split what the controller has put into*)
(* it; and the gateway's walk goes through the stages one after the other. *)
(*                                                                         *)
(* A parser takes one line after the other. Reads says that it gets from   *)
(* one state to another through some lines; such readings are put together *)
(* from lines to items, from items to the list, and to the file.           *)
(***************************************************************************)
EXTENDS TensorPlan, FiniteSetTheorems, WellFoundedInduction, NaturalsInduction, TLAPS

(***************************************************************************)
(* split_layers of the model controller, for every number of layers and    *)
(* stages: the stages get consecutive, non-empty, even ranges and each     *)
(* layer goes to exactly one stage. The loop's cursor is FirstLayer; q and *)
(* r below are quotient and remainder of the layers by the stages.         *)
(***************************************************************************)

(* The smaller one of two numbers, as the loop counts the stages that got  *)
(* one layer more.                                                         *)
LEMMA MinOfTwo ==
    ASSUME NEW a \in Int, NEW b \in Int
    PROVE  Min({a, b}) = IF a <= b THEN a ELSE b
<1>1. \E x \in {a, b} : \A y \in {a, b} : x <= y
  OBVIOUS
<1>2. /\ Min({a, b}) \in {a, b}
      /\ \A y \in {a, b} : Min({a, b}) <= y
  BY <1>1 DEF Min
<1> QED
  BY <1>2

(* Division as in base = num_layers / num_stages and remainder =           *)
(* num_layers % num_stages.                                                *)
LEMMA Division ==
    ASSUME NEW a \in Nat, NEW b \in Nat \ {0}
    PROVE  /\ a \div b \in Nat
           /\ a % b \in Nat
           /\ a % b < b
           /\ a = b * (a \div b) + (a % b)
<1>1. a \div b \in Int
  OBVIOUS
<1>2. a % b \in 0 .. b - 1
  OBVIOUS
<1>3. a = b * (a \div b) + (a % b)
  OBVIOUS
<1>4. a \div b >= 0
  BY <1>1, <1>2, <1>3
<1> QED
  BY <1>1, <1>2, <1>3, <1>4

LEMMA QuotientIsPositive ==
    ASSUME NEW L \in Nat, NEW S \in Nat, Splittable(L, S)
    PROVE  L \div S >= 1
<1> DEFINE q == L \div S
           r == L % S
<1>1. q \in Nat /\ r \in Nat /\ r < S /\ L = S * q + r
  BY Division DEF Splittable
<1>2. S <= L
  BY DEF Splittable
<1> HIDE DEF q, r
<1>3. q # 0
  BY <1>1, <1>2
<1>4. q >= 1
  BY <1>1, <1>3
<1> QED
  BY <1>4 DEF q

(* The cursor in closed form *)
LEMMA FirstLayerIs ==
    ASSUME NEW L \in Nat, NEW S \in Nat, Splittable(L, S), NEW k \in 1 .. S + 1
    PROVE  FirstLayer(L, S, k) =
               (k - 1) * (L \div S) + (IF k - 1 <= L % S THEN k - 1 ELSE L % S)
<1>1. L % S \in Nat
  BY Division DEF Splittable
<1>2. Min({k - 1, L % S}) = IF k - 1 <= L % S THEN k - 1 ELSE L % S
  BY <1>1, MinOfTwo
<1> QED
  BY <1>2 DEF FirstLayer

(* The cursor walks from 0 to num_layers: each stage's range begins where  *)
(* the one before it ends, and the last one ends at the last layer.        *)
THEOREM RangesAreConsecutive ==
    ASSUME NEW L \in Nat, NEW S \in Nat, Splittable(L, S)
    PROVE  /\ FirstLayer(L, S, 1) = 0
           /\ \A k \in 1 .. S : FirstLayer(L, S, k + 1) = FirstLayer(L, S, k) + StageSize(L, S, k)
           /\ FirstLayer(L, S, S + 1) = L
<1> DEFINE q == L \div S
           r == L % S
<1>1. q \in Nat /\ r \in Nat /\ r < S /\ L = S * q + r
  BY Division DEF Splittable
<1>2. \A k \in 1 .. S + 1 : FirstLayer(L, S, k) = (k - 1) * q + (IF k - 1 <= r THEN k - 1 ELSE r)
  BY FirstLayerIs
<1>3. \A k \in 1 .. S : StageSize(L, S, k) = q + (IF k <= r THEN 1 ELSE 0)
  BY DEF StageSize
<1>4. S >= 1
  BY DEF Splittable
<1> HIDE DEF q, r
<1>5. FirstLayer(L, S, 1) = 0
  BY <1>1, <1>2, <1>4
<1>6. ASSUME NEW k \in 1 .. S
      PROVE  FirstLayer(L, S, k + 1) = FirstLayer(L, S, k) + StageSize(L, S, k)
  <2>1. FirstLayer(L, S, k + 1) = k * q + (IF k <= r THEN k ELSE r)
    BY <1>2
  <2>2. FirstLayer(L, S, k) = (k - 1) * q + (IF k - 1 <= r THEN k - 1 ELSE r)
    BY <1>2
  <2>3. k * q = (k - 1) * q + q
    BY <1>1
  <2>4. (k - 1) * q \in Int /\ k * q \in Int
    BY <1>1
  <2> QED
    BY <1>1, <1>3, <2>1, <2>2, <2>3, <2>4
<1>7. FirstLayer(L, S, S + 1) = L
  BY <1>1, <1>2, <1>4
<1> QED
  BY <1>5, <1>6, <1>7

(* The layers of the stages before k, in closed form, never decrease.      *)
LEMMA CursorIsMonotonic ==
    ASSUME NEW L \in Nat, NEW S \in Nat, Splittable(L, S),
           NEW j \in 1 .. S + 1, NEW k \in 1 .. S + 1, j <= k
    PROVE  /\ FirstLayer(L, S, j) \in Nat
           /\ FirstLayer(L, S, k) \in Nat
           /\ FirstLayer(L, S, j) <= FirstLayer(L, S, k)
<1> DEFINE q == L \div S
           r == L % S
<1>1. q \in Nat /\ r \in Nat
  BY Division DEF Splittable
<1>2. /\ FirstLayer(L, S, j) = (j - 1) * q + (IF j - 1 <= r THEN j - 1 ELSE r)
      /\ FirstLayer(L, S, k) = (k - 1) * q + (IF k - 1 <= r THEN k - 1 ELSE r)
  BY FirstLayerIs
<1> HIDE DEF q, r
<1>3. (j - 1) * q \in Nat /\ (k - 1) * q \in Nat /\ (k - j) * q \in Nat
  BY <1>1
<1>4. (k - 1) * q = (j - 1) * q + (k - j) * q
  BY <1>1
<1> QED
  BY <1>1, <1>2, <1>3, <1>4

(* The layers of a stage are the numbers from its cursor to the next one.  *)
LEMMA LayersAreRange ==
    ASSUME NEW L \in Nat, NEW S \in Nat, Splittable(L, S), NEW k \in 1 .. S
    PROVE  /\ FirstLayer(L, S, k) \in Nat
           /\ StageSize(L, S, k) \in Nat
           /\ StageSize(L, S, k) >= 1
           /\ ToSet(LayersOf(L, S, k)) =
                  FirstLayer(L, S, k) .. FirstLayer(L, S, k) + StageSize(L, S, k) - 1
<1> DEFINE f == FirstLayer(L, S, k)
           n == StageSize(L, S, k)
<1>1. n \in Nat /\ n >= 1
  BY Division, QuotientIsPositive DEF StageSize, Splittable
<1>2. f \in Nat
  BY CursorIsMonotonic
<1>3. ToSet(LayersOf(L, S, k)) = {f + i - 1 : i \in 1 .. n}
  BY DEF ToSet, LayersOf
<1> HIDE DEF f, n
<1>4. {f + i - 1 : i \in 1 .. n} = f .. f + n - 1
  <2>1. ASSUME NEW x \in f .. f + n - 1 PROVE x \in {f + i - 1 : i \in 1 .. n}
    <3>1. x - f + 1 \in 1 .. n /\ x = f + (x - f + 1) - 1
      BY <1>1, <1>2
    <3> QED
      BY <3>1
  <2>2. ASSUME NEW i \in 1 .. n PROVE f + i - 1 \in f .. f + n - 1
    BY <1>1, <1>2
  <2>3. \A x \in {f + i - 1 : i \in 1 .. n} : x \in f .. f + n - 1
    BY <2>2
  <2> QED
    BY <2>1, <2>3
<1> QED
  BY <1>1, <1>2, <1>3, <1>4 DEF f, n

(* No layer is given to two stages, and no stage is left without one.      *)
THEOREM RangesAreDisjoint ==
    ASSUME NEW L \in Nat, NEW S \in Nat, Splittable(L, S)
    PROVE  /\ \A k \in 1 .. S : ToSet(LayersOf(L, S, k)) # {}
           /\ \A j, k \in 1 .. S :
                  j # k => ToSet(LayersOf(L, S, j)) \cap ToSet(LayersOf(L, S, k)) = {}
<1>1. \A k \in 1 .. S : StageSize(L, S, k) \in Nat /\ StageSize(L, S, k) >= 1
  BY LayersAreRange
<1>2. \A k \in 1 .. S : FirstLayer(L, S, k) \in Nat
  BY LayersAreRange
<1>3. \A k \in 1 .. S : ToSet(LayersOf(L, S, k)) =
          FirstLayer(L, S, k) .. FirstLayer(L, S, k) + StageSize(L, S, k) - 1
  BY LayersAreRange
<1>4. ASSUME NEW k \in 1 .. S PROVE ToSet(LayersOf(L, S, k)) # {}
  <2>1. FirstLayer(L, S, k) \in ToSet(LayersOf(L, S, k))
    BY <1>1, <1>2, <1>3
  <2> QED
    BY <2>1
<1>5. ASSUME NEW j \in 1 .. S, NEW k \in 1 .. S, j < k
      PROVE  ToSet(LayersOf(L, S, j)) \cap ToSet(LayersOf(L, S, k)) = {}
  <2>1. FirstLayer(L, S, j) + StageSize(L, S, j) = FirstLayer(L, S, j + 1)
    BY RangesAreConsecutive
  <2>2. FirstLayer(L, S, j + 1) <= FirstLayer(L, S, k) /\ FirstLayer(L, S, j + 1) \in Nat
    BY <1>5, CursorIsMonotonic
  <2>3. \A x \in ToSet(LayersOf(L, S, j)) : x \in Int /\ x < FirstLayer(L, S, j + 1)
    BY <1>1, <1>2, <1>3, <2>1
  <2>4. \A x \in ToSet(LayersOf(L, S, k)) : x \in Int /\ x >= FirstLayer(L, S, k)
    BY <1>1, <1>2, <1>3
  <2>5. FirstLayer(L, S, k) \in Nat
    BY <1>2
  <2> QED
    BY <2>2, <2>3, <2>4, <2>5
<1>6. ASSUME NEW j \in 1 .. S, NEW k \in 1 .. S, j # k
      PROVE  ToSet(LayersOf(L, S, j)) \cap ToSet(LayersOf(L, S, k)) = {}
  <2>1. CASE j < k
    BY <1>5, <2>1
  <2>2. CASE k < j
    BY <1>5, <2>2
  <2> QED
    BY <1>6, <2>1, <2>2
<1> QED
  BY <1>4, <1>6

(* Every layer is given to a stage: the first r stages have q + 1 layers   *)
(* each, and the others q.                                                 *)
THEOREM EveryLayerIsAssigned ==
    ASSUME NEW L \in Nat, NEW S \in Nat, Splittable(L, S), NEW layer \in 0 .. L - 1
    PROVE  \E k \in 1 .. S : layer \in ToSet(LayersOf(L, S, k))
<1> DEFINE q == L \div S
           r == L % S
<1>1. q \in Nat /\ r \in Nat /\ r < S /\ L = S * q + r
  BY Division DEF Splittable
<1>2. q >= 1
  BY QuotientIsPositive
<1>3. \A k \in 1 .. S : FirstLayer(L, S, k) = (k - 1) * q + (IF k - 1 <= r THEN k - 1 ELSE r)
  BY FirstLayerIs
<1>4. \A k \in 1 .. S : StageSize(L, S, k) = q + (IF k <= r THEN 1 ELSE 0)
  BY DEF StageSize
<1> SUFFICES \E k \in 1 .. S :
        FirstLayer(L, S, k) <= layer /\ layer < FirstLayer(L, S, k) + StageSize(L, S, k)
  BY LayersAreRange
<1> HIDE DEF q, r
<1>5. CASE layer < r * (q + 1)
  <2> DEFINE d == layer \div (q + 1)
             m == layer % (q + 1)
  <2>1. layer \in Nat /\ q + 1 \in Nat \ {0}
    BY <1>1
  <2>2. d \in Nat /\ m \in Nat /\ m < q + 1 /\ layer = (q + 1) * d + m
    BY <2>1, Division
  <2> HIDE DEF d, m
  <2>3. d < r
    <3>1. SUFFICES ASSUME d >= r PROVE FALSE
      BY <1>1, <2>2
    <3>2. d = r + (d - r) /\ d - r \in Nat
      BY <1>1, <2>2, <3>1
    <3>3. (q + 1) * d = r * (q + 1) + (q + 1) * (d - r) /\ (q + 1) * (d - r) \in Nat
      BY <1>1, <2>2, <3>2
    <3>4. r * (q + 1) \in Nat
      BY <1>1
    <3> QED
      BY <1>5, <2>2, <3>3, <3>4
  <2>4. d + 1 \in 1 .. S
    BY <1>1, <2>2, <2>3
  <2>5. FirstLayer(L, S, d + 1) = d * q + d /\ StageSize(L, S, d + 1) = q + 1
    BY <1>1, <1>3, <1>4, <2>2, <2>3, <2>4
  <2>6. (q + 1) * d = d * q + d /\ d * q \in Nat
    BY <1>1, <2>2
  <2> QED
    BY <1>1, <2>2, <2>4, <2>5, <2>6
<1>6. CASE layer >= r * (q + 1)
  <2> DEFINE rest == layer - r * (q + 1)
             d == rest \div q
             m == rest % q
  <2>1. r * (q + 1) \in Nat /\ r * (q + 1) = r * q + r /\ r * q \in Nat
    BY <1>1
  <2>2. rest \in Nat /\ layer = r * q + r + rest
    BY <1>6, <2>1
  <2>3. d \in Nat /\ m \in Nat /\ m < q /\ rest = q * d + m
    BY <1>1, <1>2, <2>2, Division
  <2> HIDE DEF d, m, rest
  <2>4. d < S - r
    <3>1. SUFFICES ASSUME d >= S - r PROVE FALSE
      BY <1>1, <2>3
    <3>2. d - (S - r) \in Nat
      BY <1>1, <2>3, <3>1
    <3>3. q * d = S * q - r * q + q * (d - (S - r)) /\ q * (d - (S - r)) \in Nat
      BY <1>1, <2>3, <3>2
    <3>4. S * q \in Nat /\ q * d \in Nat
      BY <1>1, <2>3
    <3> QED
      BY <1>1, <2>1, <2>2, <2>3, <3>3, <3>4
  <2>5. r + d + 1 \in 1 .. S
    BY <1>1, <2>3, <2>4
  <2>6. FirstLayer(L, S, r + d + 1) = (r + d) * q + r /\ StageSize(L, S, r + d + 1) = q
    BY <1>1, <1>3, <1>4, <2>3, <2>5
  <2>7. (r + d) * q = r * q + q * d /\ q * d \in Nat
    BY <1>1, <2>3
  <2> QED
    BY <1>1, <2>1, <2>2, <2>3, <2>5, <2>6, <2>7
<1>7. r * (q + 1) \in Nat
  BY <1>1
<1> QED
  BY <1>5, <1>6, <1>7

------------------------------------------------------------------------------
LEMMA SmallestNat ==
    ASSUME NEW T \in SUBSET Nat, T # {}
    PROVE  \E m \in T : \A n \in T : m <= n
<1> DEFINE R == {ss \in Nat \X Nat : ss[1] < ss[2]}
<1>1. IsWellFoundedOn(R, Nat)
  BY NatLessThanWellFounded DEF OpToRel
<1>2. \A n, m \in T : n < m => <<n, m>> \in R
  OBVIOUS
<1> HIDE DEF R
<1>3. PICK m \in T : \A n \in T : ~(<<n, m>> \in R)
  BY <1>1, WFMin
<1>4. ASSUME NEW n \in T PROVE m <= n
  <2>1. ~(n < m)
    BY <1>2, <1>3
  <2>2. m \in Nat /\ n \in Nat
    OBVIOUS
  <2> QED BY <2>1, <2>2
<1> QED BY <1>4

------------------------------------------------------------------------------
(* A sequence, whatever it is of                                           *)
IsSequence(s) == s \in Seq({s[i] : i \in DOMAIN s})

LEMMA SequenceOf == ASSUME NEW T, NEW s \in Seq(T) PROVE IsSequence(s)
<1> DEFINE R == {s[i] : i \in DOMAIN s}
<1>1. Len(s) \in Nat /\ DOMAIN s = 1 .. Len(s)
  OBVIOUS
<1>2. \A i \in 1 .. Len(s) : s[i] \in R
  BY <1>1
<1>3. s = [i \in 1 .. Len(s) |-> s[i]]
  OBVIOUS
<1> HIDE DEF R
<1>4. s \in [1 .. Len(s) -> R]
  BY <1>2, <1>3
<1>5. s \in Seq(R)
  BY <1>1, <1>4
<1> QED BY <1>5 DEF IsSequence, R

LEMMA InLargerSet ==
    ASSUME NEW T, NEW V, NEW s \in Seq(T), T \subseteq V
    PROVE  s \in Seq(V)
<1>1. Len(s) \in Nat /\ s = [i \in 1 .. Len(s) |-> s[i]] /\ \A i \in 1 .. Len(s) : s[i] \in V
  OBVIOUS
<1>2. s \in [1 .. Len(s) -> V]
  BY <1>1
<1> QED BY <1>1, <1>2

(* Two sequences are sequences of one set.                                 *)
LEMMA InCommonSet ==
    ASSUME NEW f, NEW g, IsSequence(f), IsSequence(g)
    PROVE  \E T : f \in Seq(T) /\ g \in Seq(T)
<1> DEFINE F == {f[i] : i \in DOMAIN f}
           G == {g[i] : i \in DOMAIN g}
<1>1. f \in Seq(F) /\ g \in Seq(G)
  BY DEF IsSequence
<1> HIDE DEF F, G
<1>2. f \in Seq(F \cup G) /\ g \in Seq(F \cup G)
  BY <1>1, InLargerSet
<1> QED BY <1>2

LEMMA SequenceOn ==
    ASSUME NEW f, NEW g, IsSequence(f), IsSequence(g)
    PROVE  IsSequence(f \o g)
<1>1. PICK T : f \in Seq(T) /\ g \in Seq(T)
  BY InCommonSet
<1>2. f \o g \in Seq(T)
  BY <1>1
<1> QED BY <1>2, SequenceOf

------------------------------------------------------------------------------
(* One sequence behind the other                                           *)
LEMMA Joined ==
    ASSUME NEW T, NEW f \in Seq(T), NEW g \in Seq(T)
    PROVE  /\ f \o g \in Seq(T) /\ Len(f \o g) = Len(f) + Len(g)
           /\ Len(f) \in Nat /\ Len(g) \in Nat
           /\ \A i \in 1 .. Len(f) : (f \o g)[i] = f[i]
           /\ \A i \in Len(f) + 1 .. Len(f) + Len(g) : (f \o g)[i] = g[i - Len(f)]
OBVIOUS

(* FlattenSeq puts the sequences one behind the other.                     *)
Flattens(f, s, n) == f = [i \in 1 .. n |-> IF i = 1 THEN s[i] ELSE f[i - 1] \o s[i]]

LEMMA FlatteningExists == ASSUME NEW s, NEW n \in Nat PROVE \E f : Flattens(f, s, n)
<1> DEFINE T == {k \in Nat : ~\E f : Flattens(f, s, k)}
<1>1. ASSUME T # {} PROVE FALSE
  <2>1. PICK m \in T : \A k \in T : m <= k
    <3>1. T \in SUBSET Nat
      OBVIOUS
    <3> HIDE DEF T
    <3> QED BY <1>1, <3>1, SmallestNat
  <2>2. m \in Nat /\ ~\E f : Flattens(f, s, m)
    OBVIOUS
  <2>3. CASE m = 0
    <3> DEFINE f == [i \in 1 .. m |-> 0]
    <3>1. f = [i \in 1 .. m |-> IF i = 1 THEN s[i] ELSE f[i - 1] \o s[i]]
      BY <2>3
    <3> QED BY <2>2, <3>1 DEF Flattens
  <2>4. CASE m # 0
    <3>1. m - 1 \in Nat /\ m - 1 \notin T
      BY <2>1, <2>2, <2>4
    <3>2. PICK f : Flattens(f, s, m - 1)
      BY <3>1
    <3>3. \A i \in 1 .. m - 1 : f[i] = IF i = 1 THEN s[i] ELSE f[i - 1] \o s[i]
      BY <3>2 DEF Flattens
    <3> DEFINE g == [i \in 1 .. m |-> IF i < m THEN f[i]
                                      ELSE IF m = 1 THEN s[m] ELSE f[m - 1] \o s[m]]
    <3>4. ASSUME NEW i \in 1 .. m PROVE g[i] = IF i = 1 THEN s[i] ELSE g[i - 1] \o s[i]
      <4>1. CASE i = m /\ m = 1
        BY <4>1
      <4>2. CASE i = m /\ m # 1
        <5>1. m - 1 \in 1 .. m /\ m - 1 < m
          BY <2>2, <2>4, <4>2
        <5>2. g[m - 1] = f[m - 1]
          BY <5>1
        <5>3. m \in 1 .. m /\ ~(m < m)
          BY <2>2, <4>2
        <5>4. g[m] = f[m - 1] \o s[m]
          BY <4>2, <5>3
        <5> QED BY <4>2, <5>2, <5>4
      <4>3. CASE i < m
        <5>1. g[i] = f[i] /\ i \in 1 .. m - 1
          BY <2>2, <4>3
        <5>2. i # 1 => g[i - 1] = f[i - 1]
          BY <2>2, <4>3
        <5> QED BY <3>3, <5>1, <5>2
      <4> QED BY <2>2, <4>1, <4>2, <4>3
    <3>5. g = [i \in 1 .. m |-> IF i = 1 THEN s[i] ELSE g[i - 1] \o s[i]]
      BY <3>4
    <3> HIDE DEF g
    <3> QED BY <2>2, <3>5 DEF Flattens
  <2> QED BY <2>3, <2>4
<1> QED BY <1>1

LEMMA FlattenStepwise ==
    ASSUME NEW s, NEW n \in Nat \ {0}, Len(s) = n
    PROVE  \E f : /\ f[1] = s[1] /\ f[n] = FlattenSeq(s)
                  /\ \A i \in 2 .. n : f[i] = f[i - 1] \o s[i]
<1> DEFINE f == CHOOSE f : Flattens(f, s, n)
<1>1. f[n] = FlattenSeq(s)
  BY DEF FlattenSeq, Flattens
<1>2. Flattens(f, s, n)
  BY FlatteningExists
<1> HIDE DEF f
<1>3. \A i \in 1 .. n : f[i] = IF i = 1 THEN s[i] ELSE f[i - 1] \o s[i]
  BY <1>2 DEF Flattens
<1>4. f[1] = s[1]
  BY <1>3
<1>5. ASSUME NEW i \in 2 .. n PROVE f[i] = f[i - 1] \o s[i]
  <2>1. i \in 1 .. n /\ i # 1
    OBVIOUS
  <2> QED BY <1>3, <2>1
<1> QED BY <1>1, <1>4, <1>5

------------------------------------------------------------------------------
(* A parser, the gateway's or that of the stage with this id, from a state *)
(* of its own through some lines                                           *)
ReadLine(who, read, line) ==
    IF who = None THEN ReadGatewayLine(read, line) ELSE ReadStageLine(who, read, line)

Steps(who, read, start, file) ==
    read = [i \in 0 .. Len(file) |->
               IF i = 0 THEN start ELSE ReadLine(who, read[i - 1], file[i])]

Reads(who, start, file, end) ==
    \E read : Steps(who, read, start, file) /\ end = read[Len(file)]

LEMMA ReadsOn ==
    ASSUME NEW who, NEW T, NEW f \in Seq(T), NEW g \in Seq(T), NEW start, NEW middle, NEW end,
           Reads(who, start, f, middle), Reads(who, middle, g, end)
    PROVE  Reads(who, start, f \o g, end)
<1>1. PICK x : Steps(who, x, start, f) /\ middle = x[Len(f)]
  BY DEF Reads
<1>2. PICK y : Steps(who, y, middle, g) /\ end = y[Len(g)]
  BY DEF Reads
<1> DEFINE n == Len(f)
           m == Len(g)
           read == [i \in 0 .. n + m |-> IF i <= n THEN x[i] ELSE y[i - n]]
<1>3. /\ n \in Nat /\ m \in Nat /\ Len(f \o g) = n + m
      /\ \A i \in 1 .. n : (f \o g)[i] = f[i]
      /\ \A i \in n + 1 .. n + m : (f \o g)[i] = g[i - n]
  OBVIOUS
<1>4. /\ x[0] = start /\ x[n] = middle /\ y[0] = middle /\ y[m] = end
      /\ \A i \in 1 .. n : x[i] = ReadLine(who, x[i - 1], f[i])
      /\ \A i \in 1 .. m : y[i] = ReadLine(who, y[i - 1], g[i])
  <2>1. /\ x = [i \in 0 .. n |-> IF i = 0 THEN start ELSE ReadLine(who, x[i - 1], f[i])]
        /\ y = [i \in 0 .. m |-> IF i = 0 THEN middle ELSE ReadLine(who, y[i - 1], g[i])]
    BY <1>1, <1>2 DEF Steps
  <2>2. x[n] = middle /\ y[m] = end
    BY <1>1, <1>2
  <2>3. 0 \in 0 .. n /\ 0 \in 0 .. m
    BY <1>3
  <2> HIDE DEF n, m
  <2>4. x[0] = start /\ y[0] = middle
    BY <2>1, <2>3
  <2>5. ASSUME NEW i \in 1 .. n PROVE x[i] = ReadLine(who, x[i - 1], f[i])
    <3>1. i \in 0 .. n /\ i # 0
      BY <1>3
    <3> QED BY <2>1, <3>1
  <2>6. ASSUME NEW i \in 1 .. m PROVE y[i] = ReadLine(who, y[i - 1], g[i])
    <3>1. i \in 0 .. m /\ i # 0
      BY <1>3
    <3> QED BY <2>1, <3>1
  <2> QED BY <2>2, <2>4, <2>5, <2>6
<1> HIDE DEF n, m
<1>5. ASSUME NEW i \in 0 .. n + m
      PROVE  read[i] = IF i = 0 THEN start ELSE ReadLine(who, read[i - 1], (f \o g)[i])
  <2>1. CASE i = 0
    BY <1>3, <1>4, <2>1
  <2>2. CASE i \in 1 .. n
    <3>1. read[i] = x[i] /\ read[i - 1] = x[i - 1] /\ i # 0
      BY <1>3, <2>2
    <3>2. x[i] = ReadLine(who, x[i - 1], f[i]) /\ (f \o g)[i] = f[i]
      BY <1>3, <1>4, <2>2
    <3> QED BY <3>1, <3>2
  <2>3. CASE i \in n + 1 .. n + m
    <3>1. i - n \in 1 .. m /\ i # 0 /\ i - 1 - n = i - n - 1
      BY <1>3, <2>3
    <3>2. read[i] = y[i - n]
      BY <1>3, <2>3
    <3>3. read[i - 1] = y[i - n - 1]
      <4>1. CASE i = n + 1
        <5>1. read[i - 1] = x[n]
          BY <1>3, <4>1
        <5>2. i - n - 1 = 0
          BY <1>3, <4>1
        <5> QED BY <1>4, <5>1, <5>2
      <4>2. CASE i # n + 1
        <5>1. i - 1 \in 0 .. n + m /\ ~(i - 1 <= n)
          BY <1>3, <2>3, <4>2
        <5> QED BY <3>1, <5>1
      <4> QED BY <4>1, <4>2
    <3>4. y[i - n] = ReadLine(who, y[i - n - 1], g[i - n]) /\ (f \o g)[i] = g[i - n]
      BY <1>3, <1>4, <2>3, <3>1
    <3> QED BY <3>1, <3>2, <3>3, <3>4
  <2> QED BY <1>3, <2>1, <2>2, <2>3
<1>6. read = [i \in 0 .. n + m |->
                 IF i = 0 THEN start ELSE ReadLine(who, read[i - 1], (f \o g)[i])]
  BY <1>5
<1>7. read[n + m] = end
  <2>1. PICK j \in 0 .. n + m : j = n + m /\ j - n = m
    BY <1>3
  <2>2. read[j] = IF j <= n THEN x[j] ELSE y[j - n]
    OBVIOUS
  <2>3. j <= n => j = n /\ m = 0
    BY <1>3, <2>1
  <2>4. read[j] = end
    BY <1>4, <2>1, <2>2, <2>3
  <2> QED BY <2>1, <2>4
<1> HIDE DEF read
<1>8. Steps(who, read, start, f \o g)
  BY <1>3, <1>6 DEF Steps
<1> QED BY <1>3, <1>7, <1>8 DEF Reads

LEMMA ReadsMore ==
    ASSUME NEW who, NEW f, NEW g, IsSequence(f), IsSequence(g), NEW start, NEW middle, NEW end,
           Reads(who, start, f, middle), Reads(who, middle, g, end)
    PROVE  Reads(who, start, f \o g, end)
<1>1. PICK T : f \in Seq(T) /\ g \in Seq(T)
  BY InCommonSet
<1> QED BY <1>1, ReadsOn

(* A line after the other                                                  *)
LEMMA ManyLines ==
    ASSUME NEW who, NEW n \in Nat, NEW file, Len(file) = n, NEW read,
           \A i \in 1 .. n : read[i] = ReadLine(who, read[i - 1], file[i])
    PROVE  Reads(who, read[0], file, read[n])
<1> DEFINE f == [i \in 0 .. n |-> read[i]]
<1>1. ASSUME NEW i \in 0 .. n
      PROVE  f[i] = IF i = 0 THEN read[0] ELSE ReadLine(who, f[i - 1], file[i])
  <2>1. CASE i = 0
    BY <2>1
  <2>2. CASE i # 0
    <3>1. i \in 1 .. n /\ i - 1 \in 0 .. n
      BY <2>2
    <3>2. f[i] = read[i] /\ f[i - 1] = read[i - 1]
      BY <3>1
    <3> QED BY <2>2, <3>1, <3>2
  <2> QED BY <2>1, <2>2
<1>2. f = [i \in 0 .. n |-> IF i = 0 THEN read[0] ELSE ReadLine(who, f[i - 1], file[i])]
  BY <1>1
<1>3. f[n] = read[n]
  <2>1. n \in 0 .. n
    OBVIOUS
  <2> QED BY <2>1
<1> HIDE DEF f
<1>4. Steps(who, f, read[0], file)
  BY <1>2 DEF Steps
<1> QED BY <1>3, <1>4 DEF Reads

LEMMA OneLine ==
    ASSUME NEW who, NEW start, NEW line
    PROVE  Reads(who, start, <<line>>, ReadLine(who, start, line))
<1> DEFINE end == ReadLine(who, start, line)
           read == [i \in 0 .. 1 |-> IF i = 0 THEN start ELSE end]
<1>1. Len(<<line>>) = 1 /\ <<line>>[1] = line /\ read[0] = start /\ read[1] = end /\ 1 - 1 = 0
  OBVIOUS
<1>2. end = ReadLine(who, start, line)
  OBVIOUS
<1> HIDE DEF read, end
<1>3. ASSUME NEW i \in 1 .. 1 PROVE read[i] = ReadLine(who, read[i - 1], <<line>>[i])
  <2>1. i = 1
    OBVIOUS
  <2> QED BY <1>1, <1>2, <2>1
<1>4. Reads(who, read[0], <<line>>, read[1])
  BY <1>1, <1>3, ManyLines
<1> QED BY <1>1, <1>4 DEF end

LEMMA ThreeLines ==
    ASSUME NEW who, NEW a, NEW b, NEW c, NEW r0, NEW r1, NEW r2, NEW r3,
           r1 = ReadLine(who, r0, a), r2 = ReadLine(who, r1, b),
           r3 = ReadLine(who, r2, c)
    PROVE  Reads(who, r0, <<a, b, c>>, r3)
<1> DEFINE file == <<a, b, c>>
           after == <<r1, r2, r3>>
           read == [i \in 0 .. 3 |-> IF i = 0 THEN r0 ELSE after[i]]
<1>1. /\ Len(file) = 3
      /\ file[1] = a /\ file[2] = b /\ file[3] = c
      /\ after[1] = r1 /\ after[2] = r2 /\ after[3] = r3
  OBVIOUS
<1> HIDE DEF file, after
<1>2. read[0] = r0 /\ read[1] = r1 /\ read[2] = r2 /\ read[3] = r3
  BY <1>1
<1> HIDE DEF read
<1>3. ASSUME NEW i \in 1 .. 3 PROVE read[i] = ReadLine(who, read[i - 1], file[i])
  <2>1. CASE i = 1
    BY <1>1, <1>2, <2>1
  <2>2. CASE i = 2
    BY <1>1, <1>2, <2>2
  <2>3. CASE i = 3
    BY <1>1, <1>2, <2>3
  <2> QED BY <2>1, <2>2, <2>3
<1>4. Reads(who, read[0], file, read[3])
  BY <1>1, <1>3, ManyLines
<1> QED BY <1>2, <1>4 DEF file

LEMMA FiveLines ==
    ASSUME NEW who, NEW a, NEW b, NEW c, NEW d, NEW e, NEW r0, NEW r1, NEW r2, NEW r3, NEW r4, NEW r5,
           r1 = ReadLine(who, r0, a), r2 = ReadLine(who, r1, b),
           r3 = ReadLine(who, r2, c), r4 = ReadLine(who, r3, d),
           r5 = ReadLine(who, r4, e)
    PROVE  Reads(who, r0, <<a, b, c, d, e>>, r5)
<1> DEFINE file == <<a, b, c, d, e>>
           after == <<r1, r2, r3, r4, r5>>
           read == [i \in 0 .. 5 |-> IF i = 0 THEN r0 ELSE after[i]]
<1>1. /\ Len(file) = 5
      /\ file[1] = a /\ file[2] = b /\ file[3] = c /\ file[4] = d /\ file[5] = e
      /\ after[1] = r1 /\ after[2] = r2 /\ after[3] = r3 /\ after[4] = r4 /\ after[5] = r5
  OBVIOUS
<1> HIDE DEF file, after
<1>2. read[0] = r0 /\ read[1] = r1 /\ read[2] = r2 /\ read[3] = r3 /\ read[4] = r4 /\ read[5] = r5
  BY <1>1
<1> HIDE DEF read
<1>3. ASSUME NEW i \in 1 .. 5 PROVE read[i] = ReadLine(who, read[i - 1], file[i])
  <2>1. CASE i = 1
    BY <1>1, <1>2, <2>1
  <2>2. CASE i = 2
    BY <1>1, <1>2, <2>2
  <2>3. CASE i = 3
    BY <1>1, <1>2, <2>3
  <2>4. CASE i = 4
    BY <1>1, <1>2, <2>4
  <2>5. CASE i = 5
    BY <1>1, <1>2, <2>5
  <2> QED BY <2>1, <2>2, <2>3, <2>4, <2>5
<1>4. Reads(who, read[0], file, read[5])
  BY <1>1, <1>3, ManyLines
<1> QED BY <1>2, <1>4 DEF file

LEMMA SixLines ==
    ASSUME NEW who, NEW a, NEW b, NEW c, NEW d, NEW e, NEW f, NEW r0, NEW r1, NEW r2, NEW r3, NEW r4, NEW r5, NEW r6,
           r1 = ReadLine(who, r0, a), r2 = ReadLine(who, r1, b),
           r3 = ReadLine(who, r2, c), r4 = ReadLine(who, r3, d),
           r5 = ReadLine(who, r4, e), r6 = ReadLine(who, r5, f)
    PROVE  Reads(who, r0, <<a, b, c, d, e, f>>, r6)
<1> DEFINE file == <<a, b, c, d, e, f>>
           after == <<r1, r2, r3, r4, r5, r6>>
           read == [i \in 0 .. 6 |-> IF i = 0 THEN r0 ELSE after[i]]
<1>1. /\ Len(file) = 6
      /\ file[1] = a /\ file[2] = b /\ file[3] = c /\ file[4] = d /\ file[5] = e /\ file[6] = f
      /\ after[1] = r1 /\ after[2] = r2 /\ after[3] = r3 /\ after[4] = r4 /\ after[5] = r5 /\ after[6] = r6
  OBVIOUS
<1> HIDE DEF file, after
<1>2. read[0] = r0 /\ read[1] = r1 /\ read[2] = r2 /\ read[3] = r3 /\ read[4] = r4 /\ read[5] = r5 /\ read[6] = r6
  BY <1>1
<1> HIDE DEF read
<1>3. ASSUME NEW i \in 1 .. 6 PROVE read[i] = ReadLine(who, read[i - 1], file[i])
  <2>1. CASE i = 1
    BY <1>1, <1>2, <2>1
  <2>2. CASE i = 2
    BY <1>1, <1>2, <2>2
  <2>3. CASE i = 3
    BY <1>1, <1>2, <2>3
  <2>4. CASE i = 4
    BY <1>1, <1>2, <2>4
  <2>5. CASE i = 5
    BY <1>1, <1>2, <2>5
  <2>6. CASE i = 6
    BY <1>1, <1>2, <2>6
  <2> QED BY <2>1, <2>2, <2>3, <2>4, <2>5, <2>6
<1>4. Reads(who, read[0], file, read[6])
  BY <1>1, <1>3, ManyLines
<1> QED BY <1>2, <1>4 DEF file

(* There is one reading of a file.                                         *)
LEMMA ReadsOnce ==
    ASSUME NEW who, NEW T, NEW file \in Seq(T), NEW start, NEW end, Reads(who, start, file, end)
    PROVE  (CHOOSE read : Steps(who, read, start, file))[Len(file)] = end
<1> DEFINE read == CHOOSE read : Steps(who, read, start, file)
           n == Len(file)
<1>1. PICK x : Steps(who, x, start, file) /\ end = x[n]
  BY DEF Reads
<1>2. Steps(who, read, start, file)
  BY <1>1
<1>3. n \in Nat
  OBVIOUS
<1>4. ASSUME NEW y, Steps(who, y, start, file)
      PROVE  y[0] = start /\ \A i \in 1 .. n : y[i] = ReadLine(who, y[i - 1], file[i])
  <2>1. \A i \in 0 .. n : y[i] = IF i = 0 THEN start ELSE ReadLine(who, y[i - 1], file[i])
    BY <1>4 DEF Steps
  <2>2. y[0] = start
    BY <1>3, <2>1
  <2>3. ASSUME NEW i \in 1 .. n PROVE y[i] = ReadLine(who, y[i - 1], file[i])
    <3>1. i \in 0 .. n /\ i # 0
      BY <1>3
    <3> QED BY <2>1, <3>1
  <2> QED BY <2>2, <2>3
<1> SUFFICES read[n] = end
  OBVIOUS
<1> HIDE DEF read, n
<1> DEFINE Differ == {i \in 0 .. n : x[i] # read[i]}
<1>5. ASSUME Differ # {} PROVE FALSE
  <2>1. PICK m \in Differ : \A k \in Differ : m <= k
    <3>1. Differ \in SUBSET Nat
      BY <1>3
    <3> HIDE DEF Differ
    <3> QED BY <1>5, <3>1, SmallestNat
  <2>2. CASE m = 0
    BY <1>1, <1>2, <1>4, <2>1, <2>2
  <2>3. CASE m # 0
    <3>1. m - 1 \in 0 .. n /\ m - 1 \notin Differ /\ m \in 1 .. n
      BY <1>3, <2>1, <2>3
    <3>2. x[m - 1] = read[m - 1]
      BY <3>1
    <3>3. /\ x[m] = ReadLine(who, x[m - 1], file[m])
          /\ read[m] = ReadLine(who, read[m - 1], file[m])
      BY <1>1, <1>2, <1>4, <3>1
    <3> QED BY <2>1, <3>2, <3>3
  <2> QED BY <2>2, <2>3
<1>6. n \in 0 .. n
  BY <1>3
<1> QED BY <1>1, <1>5, <1>6

LEMMA GatewayReadsOnce ==
    ASSUME NEW T, NEW file \in Seq(T), NEW end, Reads(None, GatewayStart, file, end)
    PROVE  ReadGateway(file) = Finish(end)
<1> DEFINE Step(read) == read = [i \in 0 .. Len(file) |->
                        IF i = 0 THEN GatewayStart ELSE ReadGatewayLine(read[i - 1], file[i])]
<1>1. \A read : Step(read) <=> Steps(None, read, GatewayStart, file)
  BY DEF Steps, ReadLine
<1>2. ReadGateway(file) = Finish((CHOOSE read : Step(read))[Len(file)])
  BY DEF ReadGateway
<1> HIDE DEF Step
<1>3. (CHOOSE read : Step(read)) = CHOOSE read : Steps(None, read, GatewayStart, file)
  BY <1>1
<1> QED BY <1>2, <1>3, ReadsOnce

LEMMA StageReadsOnce ==
    ASSUME NEW id, id # None, NEW T, NEW file \in Seq(T), NEW end,
           Reads(id, StageStart(id), file, end)
    PROVE  ReadStage(file, id) = end.at.part
<1> DEFINE Step(read) == read = [i \in 0 .. Len(file) |->
                        IF i = 0 THEN StageStart(id) ELSE ReadStageLine(id, read[i - 1], file[i])]
<1>1. \A read : Step(read) <=> Steps(id, read, StageStart(id), file)
  BY DEF Steps, ReadLine
<1>2. ReadStage(file, id) = (CHOOSE read : Step(read))[Len(file)].at.part
  BY DEF ReadStage
<1> HIDE DEF Step
<1>3. (CHOOSE read : Step(read)) = CHOOSE read : Steps(id, read, StageStart(id), file)
  BY <1>1
<1> QED BY <1>2, <1>3, ReadsOnce

------------------------------------------------------------------------------
(* What the gateway's parser has when it has read the header, and the items*)
(* of some stages.                                                         *)

Got(section, at, parts, L, url) ==
    [section |-> section, at |-> at, partitions |-> parts, num_layers |-> L, first |-> url]

Part8(stage_id, partition_id, service_name, next_stage_url, embedding, layers, norm, lm_head) ==
    [stage_id |-> stage_id, partition_id |-> partition_id, service_name |-> service_name,
     next_stage_url |-> next_stage_url, embedding |-> embedding, layers |-> layers,
     norm |-> norm, lm_head |-> lm_head]

PartOf(S, k, layers) == Part8(k, k, k, NextStage(S, k), k = 1, layers, k = S, k = S)

Lines(V) == [indent : Nat, key : STRING, value : V]

Header(slug, L) ==
    << Line(0, "model_slug", slug),
       Line(0, "num_layers", L),
       Line(0, "inference_gateway", None),
       Line(2, "first_stage_url", 1),
       Line(0, "inference_stages", None) >>

LEMMA GatewayReadsHeader ==
    ASSUME NEW slug, NEW L
    PROVE  Reads(None, GatewayStart, Header(slug, L),
                        Got("stages", Cursor(NoPartition), <<>>, L, 1))
<1> DEFINE r(section, n, url) == Got(section, Cursor(NoPartition), <<>>, n, url)
<1>1. r("gateway", L, 1) = ReadLine(None, r("gateway", L, None), Line(2, "first_stage_url", 1))
  <2>1. r("gateway", L, None).section = "gateway"
    BY DEF Got
  <2>2. ReadLine(None, r("gateway", L, None), Line(2, "first_stage_url", 1)) =
            [r("gateway", L, None) EXCEPT !.first = 1]
    BY <2>1 DEF ReadLine, ReadGatewayLine, ReadBelow, Line
  <2> QED BY <2>2 DEF Got
<1> USE DEF ReadLine, ReadGatewayLine, ReadTopLevelKey, ReadBelow, Finish, Cursor, Line, Got
<1>3. r("top", 0, None) = ReadLine(None, r("top", 0, None), Line(0, "model_slug", slug))
  OBVIOUS
<1>4. r("top", L, None) = ReadLine(None, r("top", 0, None), Line(0, "num_layers", L))
  OBVIOUS
<1>5. r("gateway", L, None) = ReadLine(None, r("top", L, None), Line(0, "inference_gateway", None))
  OBVIOUS
<1>7. r("stages", L, 1) = ReadLine(None, r("gateway", L, 1), Line(0, "inference_stages", None))
  OBVIOUS
<1>8. GatewayStart = r("top", 0, None)
  BY DEF GatewayStart
<1> HIDE DEF r, ReadLine, ReadGatewayLine, ReadTopLevelKey, ReadBelow, Finish, Cursor, Line, Got
<1> QED BY <1>1, <1>3, <1>4, <1>5, <1>7, <1>8, FiveLines DEF Header, r

------------------------------------------------------------------------------
(* A line below a stage item, at each place of the cursor.                 *)

At(part, inside) == [part |-> part, inside |-> inside]

Put(record, key, value) == [record EXCEPT ![key] = value]

LEMMA FieldRead ==
    ASSUME NEW part, NEW inside, NEW key, NEW value, NEW fields,
           key \in fields, fields \subseteq StageFields \cup {"partition_id"}
    PROVE  BelowStage(At(part, inside), Line(2, key, value), fields) =
               At(Put(part, key, value), "item")
<1>1. key # "components"
  BY DEF StageFields
<1>2. ~StaysInside(At(part, inside), Line(2, key, value))
  BY DEF StaysInside, Line
<1>3. key \notin {"layers", "dash"}
  BY DEF StageFields
<1> QED BY <1>1, <1>2, <1>3 DEF BelowStage, Line, At, Cursor, Put

LEMMA ComponentRead ==
    ASSUME NEW part, NEW inside, NEW key \in Components, NEW value, NEW fields, inside # "item"
    PROVE  BelowStage(At(part, inside), Line(4, key, value), fields) =
               At(Put(part, key, value), inside)
<1>1. key \notin {"components", "layers", "dash"}
  BY DEF Components
<1>2. StaysInside(At(part, inside), Line(4, key, value))
  BY DEF StaysInside, Line, At
<1> QED BY <1>1, <1>2 DEF BelowStage, Line, At, Put

LEMMA PlacesRead ==
    ASSUME NEW part, NEW value, NEW fields, fields \subseteq StageFields \cup {"partition_id"}
    PROVE  /\ BelowStage(At(part, "item"), Line(2, "components", value), fields) =
                  At(part, "components")
           /\ BelowStage(At(part, "components"), Line(4, "layers", value), fields) =
                  At(part, "layers")
           /\ BelowStage(At(part, "layers"), Line(4, "dash", value), fields) =
                  At(Put(part, "layers", Append(part.layers, value)), "layers")
<1>1. "layers" \notin fields /\ "dash" \notin fields /\ "layers" \notin Components /\ "dash" \notin Components
  BY DEF StageFields, Components
<1>2. /\ StaysInside(At(part, "components"), Line(4, "layers", value))
      /\ StaysInside(At(part, "layers"), Line(4, "dash", value))
  BY DEF StaysInside, Line, At
<1>3. BelowStage(At(part, "item"), Line(2, "components", value), fields) = At(part, "components")
  BY DEF BelowStage, Line, At, Components, StageFields
<1>4. BelowStage(At(part, "components"), Line(4, "layers", value), fields) = At(part, "layers")
  BY <1>1, <1>2 DEF BelowStage, Line, At, Put
<1>5. BelowStage(At(part, "layers"), Line(4, "dash", value), fields) =
          At(Put(part, "layers", Append(part.layers, value)), "layers")
  BY <1>1, <1>2 DEF BelowStage, Line, At, Put
<1> QED BY <1>3, <1>4, <1>5

LEMMA IdSkipped ==
    ASSUME NEW part, NEW value, NEW fields, "partition_id" \notin fields
    PROVE  BelowStage(At(part, "item"), Line(2, "partition_id", value), fields) = At(part, "item")
<1>1. ~StaysInside(At(part, "item"), Line(2, "partition_id", value)) /\ "partition_id" \notin Components
  BY DEF StaysInside, Line, At, Components
<1> QED BY <1>1 DEF BelowStage, Line, At, Cursor

LEMMA PartFields ==
    ASSUME NEW sid, NEW pid, NEW svc, NEW next, NEW emb, NEW layers, NEW norm, NEW lm, NEW x
    PROVE  /\ Put(Part8(sid, pid, svc, next, emb, layers, norm, lm), "partition_id", x) =
                  Part8(sid, x, svc, next, emb, layers, norm, lm)
           /\ Put(Part8(sid, pid, svc, next, emb, layers, norm, lm), "service_name", x) =
                  Part8(sid, pid, x, next, emb, layers, norm, lm)
           /\ Put(Part8(sid, pid, svc, next, emb, layers, norm, lm), "next_stage_url", x) =
                  Part8(sid, pid, svc, x, emb, layers, norm, lm)
           /\ Put(Part8(sid, pid, svc, next, emb, layers, norm, lm), "embedding", x) =
                  Part8(sid, pid, svc, next, x, layers, norm, lm)
           /\ Put(Part8(sid, pid, svc, next, emb, layers, norm, lm), "layers", x) =
                  Part8(sid, pid, svc, next, emb, x, norm, lm)
           /\ Put(Part8(sid, pid, svc, next, emb, layers, norm, lm), "norm", x) =
                  Part8(sid, pid, svc, next, emb, layers, x, lm)
           /\ Put(Part8(sid, pid, svc, next, emb, layers, norm, lm), "lm_head", x) =
                  Part8(sid, pid, svc, next, emb, layers, norm, x)
<1>1. Put(Part8(sid, pid, svc, next, emb, layers, norm, lm), "partition_id", x) =
           Part8(sid, x, svc, next, emb, layers, norm, lm)
  BY DEF Part8, Put
<1>2. Put(Part8(sid, pid, svc, next, emb, layers, norm, lm), "service_name", x) =
           Part8(sid, pid, x, next, emb, layers, norm, lm)
  BY DEF Part8, Put
<1>3. Put(Part8(sid, pid, svc, next, emb, layers, norm, lm), "next_stage_url", x) =
           Part8(sid, pid, svc, x, emb, layers, norm, lm)
  BY DEF Part8, Put
<1>4. Put(Part8(sid, pid, svc, next, emb, layers, norm, lm), "embedding", x) =
           Part8(sid, pid, svc, next, x, layers, norm, lm)
  BY DEF Part8, Put
<1>5. Put(Part8(sid, pid, svc, next, emb, layers, norm, lm), "layers", x) =
           Part8(sid, pid, svc, next, emb, x, norm, lm)
  BY DEF Part8, Put
<1>6. Put(Part8(sid, pid, svc, next, emb, layers, norm, lm), "norm", x) =
           Part8(sid, pid, svc, next, emb, layers, x, lm)
  BY DEF Part8, Put
<1>7. Put(Part8(sid, pid, svc, next, emb, layers, norm, lm), "lm_head", x) =
           Part8(sid, pid, svc, next, emb, layers, norm, x)
  BY DEF Part8, Put
<1> QED BY <1>1, <1>2, <1>3, <1>4, <1>5, <1>6, <1>7

------------------------------------------------------------------------------
(* An item of the list, as the gateway reads it.                           *)

GatewayFields == StageFields \cup {"partition_id"}

InList(at, parts, L, url) == Got("stages", at, parts, L, url)

PutAt(read, at) == [read EXCEPT !.at = at]

LEMMA InListFields ==
    ASSUME NEW at, NEW parts, NEW L, NEW url
    PROVE  InList(at, parts, L, url).section = "stages" /\ InList(at, parts, L, url).at = at
BY DEF InList, Got

LEMMA InListPut ==
    ASSUME NEW at, NEW parts, NEW L, NEW url, NEW next
    PROVE  PutAt(InList(at, parts, L, url), next) = InList(next, parts, L, url)
BY DEF InList, Got, PutAt

LEMMA GatewayReadsBelow ==
    ASSUME NEW at, NEW parts, NEW L, NEW url, NEW line,
           at.part # NoPartition, line.indent # 0, line.key # "dash_stage_id"
    PROVE  ReadLine(None, InList(at, parts, L, url), line) =
               InList(BelowStage(at, line, GatewayFields), parts, L, url)
<1> DEFINE read == InList(at, parts, L, url)
           next == BelowStage(at, line, GatewayFields)
<1>1. read.section = "stages" /\ read.at = at
  BY InListFields
<1>2. PutAt(read, next) = InList(next, parts, L, url)
  BY InListPut
<1> HIDE DEF read
<1>3. ReadLine(None, read, line) = ReadBelow(read, line)
  BY DEF ReadLine, ReadGatewayLine
<1>4. ReadBelow(read, line) = PutAt(read, next)
  BY <1>1 DEF ReadBelow, PutAt, GatewayFields
<1> HIDE DEF next
<1>5. ReadLine(None, read, line) = InList(next, parts, L, url)
  BY <1>2, <1>3, <1>4
<1> QED BY <1>5 DEF read, next

(* The parsers as they come to a line of the stage they are reading: the   *)
(* gateway's has the partitions before it, the stage's has found its id.   *)
Mine(at) == [section |-> "stages", mine |-> TRUE, at |-> at]

InItem(who, at, parts, L, url) == IF who = None THEN InList(at, parts, L, url) ELSE Mine(at)

FieldsOf(who) == IF who = None THEN StageFields \cup {"partition_id"} ELSE StageFields

LEMMA FieldsAre ==
    ASSUME NEW who
    PROVE  StageFields \subseteq FieldsOf(who) /\ FieldsOf(who) \subseteq StageFields \cup {"partition_id"}
BY DEF FieldsOf

LEMMA MineAt == ASSUME NEW at, NEW next PROVE [Mine(at) EXCEPT !.at = next] = Mine(next)
<1>1. PICK mine : mine = TRUE
  OBVIOUS
<1>2. /\ Mine(at) = [section |-> "stages", mine |-> mine, at |-> at]
      /\ Mine(next) = [section |-> "stages", mine |-> mine, at |-> next]
  BY <1>1 DEF Mine
<1>3. [[section |-> "stages", mine |-> mine, at |-> at] EXCEPT !.at = next] =
          [section |-> "stages", mine |-> mine, at |-> next]
  OBVIOUS
<1> QED BY <1>2, <1>3

LEMMA ItemReadBelow ==
    ASSUME NEW who, NEW at, NEW parts, NEW L, NEW url, NEW line,
           at.part # NoPartition, line.indent # 0, line.key # "dash_stage_id"
    PROVE  ReadLine(who, InItem(who, at, parts, L, url), line) =
               InItem(who, BelowStage(at, line, FieldsOf(who)), parts, L, url)
<1> DEFINE next == BelowStage(at, line, FieldsOf(who))
<1>1. CASE who = None
  <2>1. ReadLine(None, InList(at, parts, L, url), line) =
            InList(BelowStage(at, line, GatewayFields), parts, L, url)
    BY GatewayReadsBelow
  <2>2. GatewayFields = FieldsOf(who)
    BY <1>1 DEF GatewayFields, FieldsOf
  <2> QED BY <1>1, <2>1, <2>2 DEF InItem
<1>2. CASE who # None
  <2> DEFINE read == Mine(at)
  <2>1. read.section = "stages" /\ read.mine = TRUE /\ read.at = at
    BY DEF Mine
  <2>2. [read EXCEPT !.at = next] = Mine(next)
    BY MineAt
  <2>3. FieldsOf(who) = StageFields
    BY <1>2 DEF FieldsOf
  <2> HIDE DEF read
  <2>4. ReadLine(who, read, line) = ReadStageListLine(who, read, line)
    BY <1>2, <2>1 DEF ReadLine, ReadStageLine
  <2>5. ReadStageListLine(who, read, line) = [read EXCEPT !.at = next]
    BY <2>1, <2>3 DEF ReadStageListLine
  <2> HIDE DEF next
  <2>6. ReadLine(who, read, line) = Mine(next)
    BY <2>2, <2>4, <2>5
  <2> QED BY <1>2, <2>6 DEF read, next, InItem
<1> QED BY <1>1, <1>2

LEMMA ItemReadLayers ==
    ASSUME NEW who, NEW sid, NEW pid, NEW svc, NEW next, NEW emb, NEW norm, NEW lm,
           NEW layers \in Seq(Nat), NEW parts, NEW L, NEW url, sid # 0
    PROVE  Reads(who, InItem(who, At(Part8(sid, pid, svc, next, emb, <<>>, norm, lm), "layers"), parts, L, url),
                        [i \in DOMAIN layers |-> Line(4, "dash", layers[i])],
                        InItem(who, At(Part8(sid, pid, svc, next, emb, layers, norm, lm), "layers"), parts, L, url))
<1> DEFINE n == Len(layers)
           file == [i \in DOMAIN layers |-> Line(4, "dash", layers[i])]
           In(some) == InItem(who, At(Part8(sid, pid, svc, next, emb, some, norm, lm), "layers"), parts, L, url)
           read == [i \in 0 .. n |-> In(SubSeq(layers, 1, i))]
<1>1. n \in Nat /\ DOMAIN layers = 1 .. n /\ Len(file) = n
  OBVIOUS
<1>2. \A i \in 1 .. n : file[i] = Line(4, "dash", layers[i])
  OBVIOUS
<1>3. /\ SubSeq(layers, 1, 0) = <<>> /\ SubSeq(layers, 1, n) = layers
      /\ \A i \in 1 .. n : SubSeq(layers, 1, i) = Append(SubSeq(layers, 1, i - 1), layers[i])
  OBVIOUS
<1>4. ASSUME NEW some, NEW layer PROVE ReadLine(who, In(some), Line(4, "dash", layer)) = In(Append(some, layer))
  <2> DEFINE part == Part8(sid, pid, svc, next, emb, some, norm, lm)
  <2>1. part # NoPartition /\ part.layers = some
    BY DEF Part8, NoPartition, None
  <2> HIDE DEF part
  <2>3. ReadLine(who, InItem(who, At(part, "layers"), parts, L, url), Line(4, "dash", layer)) =
            InItem(who, BelowStage(At(part, "layers"), Line(4, "dash", layer), FieldsOf(who)), parts, L, url)
    <3>1. /\ Line(4, "dash", layer).indent # 0 /\ Line(4, "dash", layer).key # "dash_stage_id"
          /\ At(part, "layers").part = part
      BY DEF Line, At
    <3> QED BY <2>1, <3>1, ItemReadBelow
  <2>4. BelowStage(At(part, "layers"), Line(4, "dash", layer), FieldsOf(who)) =
            At(Put(part, "layers", Append(some, layer)), "layers")
    BY <2>1, PlacesRead, FieldsAre
  <2>5. Put(part, "layers", Append(some, layer)) =
            Part8(sid, pid, svc, next, emb, Append(some, layer), norm, lm)
    BY PartFields DEF part
  <2> QED BY <2>3, <2>4, <2>5 DEF part
<1> HIDE DEF file, In
<1>5. ASSUME NEW i \in 0 .. n
      PROVE  read[i] = IF i = 0 THEN In(<<>>) ELSE ReadLine(who, read[i - 1], file[i])
  <2>1. CASE i = 0
    BY <1>1, <1>3, <2>1
  <2>2. CASE i # 0
    <3>1. i \in 1 .. n /\ i - 1 \in 0 .. n
      BY <1>1, <2>2
    <3>2. read[i] = In(Append(SubSeq(layers, 1, i - 1), layers[i]))
      BY <1>3, <3>1
    <3>3. read[i - 1] = In(SubSeq(layers, 1, i - 1))
      BY <3>1
    <3> QED BY <1>2, <1>4, <2>2, <3>1, <3>2, <3>3
  <2> QED BY <2>1, <2>2
<1>6. read[n] = In(layers) /\ read[0] = In(<<>>)
  <2>1. n \in 0 .. n /\ 0 \in 0 .. n
    BY <1>1
  <2>2. read[n] = In(SubSeq(layers, 1, n)) /\ read[0] = In(SubSeq(layers, 1, 0))
    BY <2>1
  <2> QED BY <1>3, <2>2
<1>7. \A i \in 1 .. n : read[i] = ReadLine(who, read[i - 1], file[i])
  BY <1>1, <1>5
<1> HIDE DEF read, n
<1>8. Reads(who, read[0], file, read[n])
  BY <1>1, <1>7, ManyLines
<1> QED BY <1>6, <1>8 DEF In, file

LEMMA IsAPart ==
    ASSUME NEW sid, NEW pid, NEW svc, NEW next, NEW emb, NEW layers, NEW norm, NEW lm, sid # None
    PROVE  Part8(sid, pid, svc, next, emb, layers, norm, lm) # NoPartition
BY DEF Part8, NoPartition

(* A line of an item                                                       *)
LEMMA ItemReadField ==
    ASSUME NEW who, NEW part, NEW inside, NEW parts, NEW L, NEW url, NEW key, NEW value, key \in FieldsOf(who),
           part # NoPartition
    PROVE  ReadLine(who, InItem(who, At(part, inside), parts, L, url), Line(2, key, value)) =
               InItem(who, At(Put(part, key, value), "item"), parts, L, url)
<1>1. /\ Line(2, key, value).indent # 0 /\ Line(2, key, value).key # "dash_stage_id"
      /\ At(part, inside).part = part
  BY DEF Line, At, FieldsOf, StageFields
<1>2. ReadLine(who, InItem(who, At(part, inside), parts, L, url), Line(2, key, value)) =
          InItem(who, BelowStage(At(part, inside), Line(2, key, value), FieldsOf(who)), parts, L, url)
  BY <1>1, ItemReadBelow
<1>3. BelowStage(At(part, inside), Line(2, key, value), FieldsOf(who)) = At(Put(part, key, value), "item")
  BY FieldRead, FieldsAre
<1> QED BY <1>2, <1>3

LEMMA ItemReadComponent ==
    ASSUME NEW who, NEW part, NEW inside, NEW parts, NEW L, NEW url, NEW key \in Components, NEW value,
           part # NoPartition, inside # "item"
    PROVE  ReadLine(who, InItem(who, At(part, inside), parts, L, url), Line(4, key, value)) =
               InItem(who, At(Put(part, key, value), inside), parts, L, url)
<1>1. /\ Line(4, key, value).indent # 0 /\ Line(4, key, value).key # "dash_stage_id"
      /\ At(part, inside).part = part
  BY DEF Line, At, Components
<1>2. ReadLine(who, InItem(who, At(part, inside), parts, L, url), Line(4, key, value)) =
          InItem(who, BelowStage(At(part, inside), Line(4, key, value), FieldsOf(who)), parts, L, url)
  BY <1>1, ItemReadBelow
<1>3. BelowStage(At(part, inside), Line(4, key, value), FieldsOf(who)) = At(Put(part, key, value), inside)
  BY ComponentRead
<1> QED BY <1>2, <1>3

LEMMA ItemReadPlaces ==
    ASSUME NEW who, NEW part, NEW parts, NEW L, NEW url, NEW value, part # NoPartition
    PROVE  /\ ReadLine(who, InItem(who, At(part, "item"), parts, L, url), Line(2, "components", value)) =
                  InItem(who, At(part, "components"), parts, L, url)
           /\ ReadLine(who, InItem(who, At(part, "components"), parts, L, url), Line(4, "layers", value)) =
                  InItem(who, At(part, "layers"), parts, L, url)
<1>1. /\ Line(2, "components", value).indent # 0 /\ Line(2, "components", value).key # "dash_stage_id"
      /\ Line(4, "layers", value).indent # 0 /\ Line(4, "layers", value).key # "dash_stage_id"
      /\ At(part, "item").part = part /\ At(part, "components").part = part
  BY DEF Line, At
<1>2. ReadLine(who, InItem(who, At(part, "item"), parts, L, url), Line(2, "components", value)) =
          InItem(who, BelowStage(At(part, "item"), Line(2, "components", value), FieldsOf(who)), parts, L, url)
  BY <1>1, ItemReadBelow
<1>3. ReadLine(who, InItem(who, At(part, "components"), parts, L, url), Line(4, "layers", value)) =
          InItem(who, BelowStage(At(part, "components"), Line(4, "layers", value), FieldsOf(who)), parts, L, url)
  BY <1>1, ItemReadBelow
<1>4. FieldsOf(who) \subseteq StageFields \cup {"partition_id"}
  BY FieldsAre
<1>5. /\ BelowStage(At(part, "item"), Line(2, "components", value), FieldsOf(who)) = At(part, "components")
      /\ BelowStage(At(part, "components"), Line(4, "layers", value), FieldsOf(who)) = At(part, "layers")
  BY <1>4, PlacesRead
<1> QED BY <1>2, <1>3, <1>5
ItemStart(S, k) ==
    << Line(0, "dash_stage_id", k),
       Line(2, "partition_id", k),
       Line(2, "service_name", k),
       Line(2, "components", None),
       Line(4, "embedding", k = 1),
       Line(4, "layers", None) >>

ItemLayers(layers) == [i \in DOMAIN layers |-> Line(4, "dash", layers[i])]

ItemEnd(S, k) ==
    << Line(4, "norm", k = S),
       Line(4, "lm_head", k = S),
       Line(2, "next_stage_url", NextStage(S, k)) >>

LEMMA ItemParts ==
    ASSUME NEW S, NEW k, NEW layers \in Seq(Nat)
    PROVE  /\ StageItem(S, k, layers) = ItemStart(S, k) \o ItemLayers(layers) \o ItemEnd(S, k)
           /\ IsSequence(ItemStart(S, k)) /\ IsSequence(ItemLayers(layers)) /\ IsSequence(ItemEnd(S, k))
<1>1. StageItem(S, k, layers) = ItemStart(S, k) \o ItemLayers(layers) \o ItemEnd(S, k)
  BY DEF StageItem, ItemStart, ItemLayers, ItemEnd
<1>2. ASSUME NEW a, NEW b, NEW c PROVE IsSequence(<<a, b, c>>)
  <2>1. <<a, b, c>> \in Seq({a, b, c})
    OBVIOUS
  <2> QED BY <2>1, SequenceOf
<1>3. ASSUME NEW a, NEW b, NEW c, NEW d, NEW e, NEW f PROVE IsSequence(<<a, b, c, d, e, f>>)
  <2>1. <<a, b, c, d, e, f>> \in Seq({a, b, c, d, e, f})
    OBVIOUS
  <2> QED BY <2>1, SequenceOf
<1>4. IsSequence(ItemLayers(layers))
  <2> DEFINE T == {Line(4, "dash", n) : n \in Nat}
             s == ItemLayers(layers)
             n == Len(layers)
  <2>1. n \in Nat /\ s = [i \in 1 .. n |-> Line(4, "dash", layers[i])]
    BY DEF ItemLayers
  <2>2. \A i \in 1 .. n : layers[i] \in Nat
    OBVIOUS
  <2>3. \A x \in Nat : Line(4, "dash", x) \in T
    OBVIOUS
  <2> HIDE DEF s, T, n
  <2>4. s \in [1 .. n -> T]
    BY <2>1, <2>2, <2>3
  <2>5. s \in Seq(T)
    BY <2>1, <2>4
  <2> QED BY <2>5, SequenceOf DEF s
<1> QED BY <1>1, <1>2, <1>3, <1>4 DEF ItemStart, ItemEnd

IdOf(who, k) == IF who = None THEN k ELSE None

PartRead(who, S, k, layers) ==
    Part8(k, IdOf(who, k), k, NextStage(S, k), k = 1, layers, k = S, k = S)

NewPart(who, k) == Part8(k, IdOf(who, k), None, None, FALSE, <<>>, FALSE, FALSE)

LEMMA ItemIsRead ==
    ASSUME NEW who, NEW S, NEW k, NEW layers \in Seq(Nat), NEW start, NEW parts, NEW L, NEW url, k # None,
           ReadLine(who, start, Line(0, "dash_stage_id", k)) =
               InItem(who, At(NewPart(who, k), "item"), parts, L, url)
    PROVE  Reads(who, start, StageItem(S, k, layers),
                 InItem(who, At(PartRead(who, S, k, layers), "item"), parts, L, url))
<1> DEFINE In(part, inside) == InItem(who, At(part, inside), parts, L, url)
           id == IdOf(who, k)
<1>a. PICK first, last, no : first = (k = 1) /\ last = (k = S) /\ no = FALSE
  OBVIOUS
<1> DEFINE p0 == Part8(k, id, None, None, no, <<>>, no, no)
           p1 == Part8(k, id, k, None, no, <<>>, no, no)
           p2 == Part8(k, id, k, None, first, <<>>, no, no)
           p3 == Part8(k, id, k, None, first, layers, no, no)
           p4 == Part8(k, id, k, None, first, layers, last, no)
           p5 == Part8(k, id, k, None, first, layers, last, last)
           p6 == Part8(k, id, k, NextStage(S, k), first, layers, last, last)
<1>2. /\ p0 # NoPartition /\ p1 # NoPartition /\ p2 # NoPartition
      /\ p3 # NoPartition /\ p4 # NoPartition /\ p5 # NoPartition
  BY IsAPart
<1>3. Put(p0, "partition_id", k) = Part8(k, k, None, None, no, <<>>, no, no) /\ Put(p0, "service_name", k) = p1
  BY PartFields
<1>4. Put(p1, "embedding", first) = p2
  BY PartFields
<1>5. Put(p3, "norm", last) = p4 /\ Put(p4, "lm_head", last) = p5
  BY PartFields
<1>6. Put(p5, "next_stage_url", NextStage(S, k)) = p6
  BY PartFields
<1>6a. who = None => Put(p0, "partition_id", k) = p0
  BY <1>3 DEF IdOf
<1> HIDE DEF p0, p1, p2, p3, p4, p5, p6
<1>7. /\ {"service_name", "next_stage_url"} \subseteq FieldsOf(who)
      /\ {"embedding", "norm", "lm_head"} \subseteq Components
      /\ "components" # "item" /\ "layers" # "item"
  BY FieldsAre DEF StageFields, Components
<1>8a. In(p0, "item") = ReadLine(who, In(p0, "item"), Line(2, "partition_id", k))
  <2>1. CASE who = None
    <3>1. "partition_id" \in FieldsOf(who)
      BY <2>1 DEF FieldsOf
    <3> QED BY <1>2, <1>6a, <2>1, <3>1, ItemReadField
  <2>2. CASE who # None
    <3>1. "partition_id" \notin FieldsOf(who)
      BY <2>2 DEF FieldsOf, StageFields
    <3>2. BelowStage(At(p0, "item"), Line(2, "partition_id", k), FieldsOf(who)) = At(p0, "item")
      BY <3>1, IdSkipped
    <3>3. /\ Line(2, "partition_id", k).indent # 0 /\ Line(2, "partition_id", k).key # "dash_stage_id"
          /\ At(p0, "item").part = p0
      BY DEF Line, At
    <3>4. ReadLine(who, In(p0, "item"), Line(2, "partition_id", k)) =
              InItem(who, BelowStage(At(p0, "item"), Line(2, "partition_id", k), FieldsOf(who)), parts, L, url)
      BY <1>2, <3>3, ItemReadBelow
    <3> QED BY <3>2, <3>4
  <2> QED BY <2>1, <2>2
<1>8. /\ In(p1, "item") = ReadLine(who, In(p0, "item"), Line(2, "service_name", k))
      /\ In(p6, "item") = ReadLine(who, In(p5, "layers"), Line(2, "next_stage_url", NextStage(S, k)))
  BY <1>2, <1>3, <1>6, <1>7, ItemReadField
<1>9. /\ In(p1, "components") = ReadLine(who, In(p1, "item"), Line(2, "components", None))
      /\ In(p2, "layers") = ReadLine(who, In(p2, "components"), Line(4, "layers", None))
  BY <1>2, ItemReadPlaces
<1>10. In(p2, "components") = ReadLine(who, In(p1, "components"), Line(4, "embedding", first))
  BY <1>2, <1>4, <1>7, ItemReadComponent
<1>11. /\ In(p4, "layers") = ReadLine(who, In(p3, "layers"), Line(4, "norm", last))
       /\ In(p5, "layers") = ReadLine(who, In(p4, "layers"), Line(4, "lm_head", last))
  BY <1>2, <1>5, <1>7, ItemReadComponent
<1>12. Reads(who, In(p2, "layers"), ItemLayers(layers), In(p3, "layers"))
  BY ItemReadLayers DEF p2, p3, ItemLayers, None
<1> HIDE DEF In
<1>13. In(p0, "item") = ReadLine(who, start, Line(0, "dash_stage_id", k))
  BY <1>a DEF p0, In, NewPart
<1>15a. /\ ItemStart(S, k) = << Line(0, "dash_stage_id", k), Line(2, "partition_id", k),
                Line(2, "service_name", k), Line(2, "components", None),
                Line(4, "embedding", first), Line(4, "layers", None) >>
        /\ ItemEnd(S, k) = << Line(4, "norm", last), Line(4, "lm_head", last),
                Line(2, "next_stage_url", NextStage(S, k)) >>
  BY <1>a DEF ItemStart, ItemEnd
<1>15b. PartRead(who, S, k, layers) = p6
  BY <1>a DEF PartRead, p6
<1>14. Reads(who, start, ItemStart(S, k), In(p2, "layers"))
  BY <1>13, <1>8, <1>8a, <1>9, <1>10, <1>15a, SixLines
<1>15. Reads(who, In(p3, "layers"), ItemEnd(S, k), In(p6, "item"))
  BY <1>8, <1>11, <1>15a, ThreeLines
<1>16. Reads(who, start, StageItem(S, k, layers), In(p6, "item"))
  <2>1. /\ IsSequence(ItemStart(S, k)) /\ IsSequence(ItemLayers(layers)) /\ IsSequence(ItemEnd(S, k))
        /\ StageItem(S, k, layers) = ItemStart(S, k) \o ItemLayers(layers) \o ItemEnd(S, k)
    BY ItemParts
  <2>2. Reads(who, start, ItemStart(S, k) \o ItemLayers(layers), In(p3, "layers"))
    BY <1>12, <1>14, <2>1, ReadsMore
  <2>3. IsSequence(ItemStart(S, k) \o ItemLayers(layers))
    BY <2>1, SequenceOn
  <2>4. Reads(who, start, (ItemStart(S, k) \o ItemLayers(layers)) \o ItemEnd(S, k), In(p6, "item"))
    BY <1>15, <2>1, <2>2, <2>3, ReadsMore
  <2> QED BY <2>1, <2>4
<1> QED BY <1>15b, <1>16 DEF In
LEMMA PartOfIsRead == ASSUME NEW S, NEW k, NEW layers PROVE PartRead(None, S, k, layers) = PartOf(S, k, layers)
<1>1. IdOf(None, k) = k
  BY DEF IdOf
<1> QED BY <1>1 DEF PartRead, PartOf

LEMMA GatewayReadsItem ==
    ASSUME NEW S, NEW k, NEW layers \in Seq(Nat), NEW at, NEW before, NEW parts, NEW L, NEW url, k # None,
           Finish(InList(at, before, L, url)) = InList(Cursor(NoPartition), parts, L, url)
    PROVE  Reads(None, InList(at, before, L, url), StageItem(S, k, layers),
                        InList(At(PartOf(S, k, layers), "item"), parts, L, url))
<1> DEFINE In(part, inside) == InList(At(part, inside), parts, L, url)
           start == InList(at, before, L, url)
<1>1. ReadLine(None, start, Line(0, "dash_stage_id", k)) =
          In(Part8(k, k, None, None, FALSE, <<>>, FALSE, FALSE), "item")
  <2> DEFINE line == Line(0, "dash_stage_id", k)
             new  == Cursor(NewPartition(k))
  <2>1. line.key = "dash_stage_id" /\ line.value = k /\ start.section = "stages"
    BY InListFields DEF Line
  <2>2. PutAt(InList(Cursor(NoPartition), parts, L, url), new) = InList(new, parts, L, url)
    BY InListPut
  <2>3. new = At(Part8(k, k, None, None, FALSE, <<>>, FALSE, FALSE), "item")
    BY DEF Cursor, At, NewPartition, Part8
  <2> HIDE DEF start, line
  <2>4. ReadLine(None, start, line) = PutAt(Finish(start), new)
    BY <2>1 DEF ReadLine, ReadGatewayLine, PutAt
  <2>5. Finish(start) = InList(Cursor(NoPartition), parts, L, url)
    BY DEF start
  <2> HIDE DEF new
  <2> QED BY <2>2, <2>3, <2>4, <2>5 DEF line
<1>2. ReadLine(None, start, Line(0, "dash_stage_id", k)) =
          InItem(None, At(NewPart(None, k), "item"), parts, L, url)
  <2>1. IdOf(None, k) = k
    BY DEF IdOf
  <2> QED BY <1>1, <2>1 DEF InItem, NewPart
<1> HIDE DEF start
<1>3. Reads(None, start, StageItem(S, k, layers),
            InItem(None, At(PartRead(None, S, k, layers), "item"), parts, L, url))
  BY <1>2, ItemIsRead
<1> QED BY <1>3, PartOfIsRead DEF InItem, start

------------------------------------------------------------------------------
(* The list of stages, as the gateway reads it                             *)
PartsOf(S, split, n) == [k \in 1 .. n |-> PartOf(S, k, split[k])]

LEMMA PartsAreSequence ==
    ASSUME NEW S, NEW split, NEW n \in Nat
    PROVE  /\ IsSequence(PartsOf(S, split, n))
           /\ Append(PartsOf(S, split, n), PartOf(S, n + 1, split[n + 1])) = PartsOf(S, split, n + 1)
<1> DEFINE T == {PartOf(S, k, split[k]) : k \in Nat}
           p(k) == PartOf(S, k, split[k])
           s == PartsOf(S, split, n)
<1>1. s = [k \in 1 .. n |-> p(k)] /\ PartsOf(S, split, n + 1) = [k \in 1 .. n + 1 |-> p(k)]
  BY DEF PartsOf
<1>2. \A k \in Nat : p(k) \in T
  OBVIOUS
<1> HIDE DEF p, T, s
<1>3. s \in [1 .. n -> T]
  BY <1>1, <1>2
<1>4. s \in Seq(T) /\ Len(s) = n
  BY <1>1, <1>3
<1>5. Append(s, p(n + 1)) = [k \in 1 .. n + 1 |-> IF k = n + 1 THEN p(n + 1) ELSE s[k]]
  BY <1>2, <1>4
<1>6. Append(s, p(n + 1)) = [k \in 1 .. n + 1 |-> p(k)]
  BY <1>1, <1>5
<1> QED BY <1>1, <1>4, <1>6, SequenceOf DEF p, s

LEMMA FinishIs ==
    ASSUME NEW part, NEW inside, NEW parts, NEW L, NEW url, part # NoPartition,
           part.partition_id # None, part = Put(part, "partition_id", part.partition_id)
    PROVE  Finish(InList(At(part, inside), parts, L, url)) =
               InList(Cursor(NoPartition), Append(parts, part), L, url)
<1> DEFINE read == InList(At(part, inside), parts, L, url)
<1>1. read.at = At(part, inside) /\ read.partitions = parts
  BY DEF InList, Got
<1>2. read.at.part = part
  BY <1>1 DEF At
<1>3. [part EXCEPT !.partition_id = part.partition_id] = part
  BY DEF Put
<1>4. ASSUME NEW x, NEW y
      PROVE [[read EXCEPT !.partitions = x] EXCEPT !.at = y] = InList(y, x, L, url)
  <2>1. [read EXCEPT !.partitions = x] = InList(At(part, inside), x, L, url)
    BY DEF InList, Got
  <2>2. [InList(At(part, inside), x, L, url) EXCEPT !.at = y] = InList(y, x, L, url)
    BY InListPut DEF PutAt
  <2> QED BY <2>1, <2>2
<1> HIDE DEF read
<1>5. Finish(read) = [[read EXCEPT !.partitions = Append(parts, part)] EXCEPT !.at = Cursor(NoPartition)]
  BY <1>1, <1>2, <1>3 DEF Finish
<1> QED BY <1>4, <1>5 DEF read

LEMMA FinishNone ==
    ASSUME NEW parts, NEW L, NEW url
    PROVE  Finish(InList(Cursor(NoPartition), parts, L, url)) = InList(Cursor(NoPartition), parts, L, url)
BY DEF Finish, InList, Got, Cursor

LEMMA FinishPart ==
    ASSUME NEW S, NEW k, NEW layers, NEW inside, NEW parts, NEW L, NEW url, k # None
    PROVE  Finish(InList(At(PartOf(S, k, layers), inside), parts, L, url)) =
               InList(Cursor(NoPartition), Append(parts, PartOf(S, k, layers)), L, url)
<1> DEFINE part == PartOf(S, k, layers)
<1>1. PICK first, last : first = (k = 1) /\ last = (k = S)
  OBVIOUS
<1>2. part = Part8(k, k, k, NextStage(S, k), first, layers, last, last)
  BY <1>1 DEF PartOf
<1>3. part # NoPartition
  BY <1>2, IsAPart
<1>4. part.partition_id = k
  BY <1>2 DEF Part8
<1>5. Put(part, "partition_id", k) = part
  BY <1>2, PartFields
<1> HIDE DEF part
<1>6. Finish(InList(At(part, inside), parts, L, url)) = InList(Cursor(NoPartition), Append(parts, part), L, url)
  BY <1>3, <1>4, <1>5, FinishIs
<1> QED BY <1>6 DEF part
ReadStages(S, split, n, L) ==
    IF n = 0 THEN InList(Cursor(NoPartition), <<>>, L, 1)
    ELSE InList(At(PartOf(S, n, split[n]), "item"), PartsOf(S, split, n - 1), L, 1)

LEMMA StagesFinish ==
    ASSUME NEW S, NEW split, NEW n \in Nat, NEW L
    PROVE  Finish(ReadStages(S, split, n, L)) = InList(Cursor(NoPartition), PartsOf(S, split, n), L, 1)
<1>1. CASE n = 0
  <2>1. PartsOf(S, split, n) = <<>>
    BY <1>1 DEF PartsOf
  <2> QED BY <1>1, <2>1, FinishNone DEF ReadStages
<1>2. CASE n # 0
  <2>1. n - 1 \in Nat /\ n - 1 + 1 = n
    BY <1>2
  <2>2. Append(PartsOf(S, split, n - 1), PartOf(S, n, split[n])) = PartsOf(S, split, n)
    <3>1. Append(PartsOf(S, split, n - 1), PartOf(S, n - 1 + 1, split[n - 1 + 1])) =
              PartsOf(S, split, n - 1 + 1)
      BY <2>1, PartsAreSequence
    <3> QED BY <2>1, <3>1
  <2>3. Finish(InList(At(PartOf(S, n, split[n]), "item"), PartsOf(S, split, n - 1), L, 1)) =
            InList(Cursor(NoPartition), Append(PartsOf(S, split, n - 1), PartOf(S, n, split[n])), L, 1)
    BY <1>2, FinishPart DEF None
  <2> QED BY <1>2, <2>2, <2>3 DEF ReadStages
<1> QED BY <1>1, <1>2

(* Files one behind the other                                              *)
LEMMA ReadsFlat ==
    ASSUME NEW who, NEW S \in Nat \ {0}, NEW items, Len(items) = S, NEW after,
           \A k \in 1 .. S : IsSequence(items[k]) /\ Reads(who, after[k - 1], items[k], after[k])
    PROVE  IsSequence(FlattenSeq(items)) /\ Reads(who, after[0], FlattenSeq(items), after[S])
<1>1. PICK f : /\ f[1] = items[1] /\ f[S] = FlattenSeq(items)
               /\ \A i \in 2 .. S : f[i] = f[i - 1] \o items[i]
  BY FlattenStepwise
<1> DEFINE T == {n \in 1 .. S : ~(IsSequence(f[n]) /\ Reads(who, after[0], f[n], after[n]))}
<1>2. ASSUME T # {} PROVE FALSE
  <2>1. PICK n \in T : \A k \in T : n <= k
    <3>1. T \in SUBSET Nat
      OBVIOUS
    <3> HIDE DEF T
    <3> QED BY <1>2, <3>1, SmallestNat
  <2>2. n \in 1 .. S /\ ~(IsSequence(f[n]) /\ Reads(who, after[0], f[n], after[n]))
    OBVIOUS
  <2>3. CASE n = 1
    <3>1. IsSequence(items[1]) /\ Reads(who, after[1 - 1], items[1], after[1])
      BY <2>2, <2>3
    <3>2. 1 - 1 = 0
      OBVIOUS
    <3> QED BY <1>1, <2>2, <2>3, <3>1, <3>2
  <2>4. CASE n # 1
    <3>1. n \in 2 .. S /\ n - 1 \in 1 .. S /\ n - 1 \notin T
      BY <2>1, <2>2, <2>4
    <3>2. IsSequence(f[n - 1]) /\ Reads(who, after[0], f[n - 1], after[n - 1])
      BY <3>1
    <3>3. IsSequence(items[n]) /\ Reads(who, after[n - 1], items[n], after[n])
      BY <2>2
    <3>4. f[n] = f[n - 1] \o items[n]
      BY <1>1, <3>1
    <3>5. IsSequence(f[n]) /\ Reads(who, after[0], f[n], after[n])
      BY <3>2, <3>3, <3>4, SequenceOn, ReadsMore
    <3> QED BY <2>2, <3>5
  <2> QED BY <2>3, <2>4
<1>3. S \in 1 .. S
  OBVIOUS
<1>4. IsSequence(f[S]) /\ Reads(who, after[0], f[S], after[S])
  BY <1>2, <1>3
<1> QED BY <1>1, <1>4

LEMMA ItemIsSequence ==
    ASSUME NEW S, NEW k, NEW layers \in Seq(Nat) PROVE IsSequence(StageItem(S, k, layers))
<1>1. /\ IsSequence(ItemStart(S, k)) /\ IsSequence(ItemLayers(layers)) /\ IsSequence(ItemEnd(S, k))
      /\ StageItem(S, k, layers) = ItemStart(S, k) \o ItemLayers(layers) \o ItemEnd(S, k)
  BY ItemParts
<1>2. IsSequence(ItemStart(S, k) \o ItemLayers(layers))
  BY <1>1, SequenceOn
<1>3. IsSequence((ItemStart(S, k) \o ItemLayers(layers)) \o ItemEnd(S, k))
  BY <1>1, <1>2, SequenceOn
<1> QED BY <1>1, <1>3

LEMMA GatewayReadsStages ==
    ASSUME NEW split \in Seq(Seq(Nat)), NEW L, Len(split) # 0
    PROVE  /\ IsSequence(FlattenSeq([k \in DOMAIN split |-> StageItem(Len(split), k, split[k])]))
           /\ Reads(None, ReadStages(Len(split), split, 0, L),
                           FlattenSeq([k \in DOMAIN split |-> StageItem(Len(split), k, split[k])]),
                           ReadStages(Len(split), split, Len(split), L))
<1> DEFINE S == Len(split)
           items == [k \in DOMAIN split |-> StageItem(S, k, split[k])]
           In(n) == ReadStages(S, split, n, L)
<1>1. S \in Nat \ {0} /\ Len(items) = S /\ DOMAIN split = 1 .. S
  OBVIOUS
<1>2. \A k \in 1 .. S : items[k] = StageItem(S, k, split[k]) /\ split[k] \in Seq(Nat)
  OBVIOUS
<1>3. ASSUME NEW k \in 1 .. S PROVE IsSequence(items[k]) /\ Reads(None, In(k - 1), items[k], In(k))
  <2>1. IsSequence(items[k])
    BY <1>2, ItemIsSequence
  <2>2. k # None /\ k # 0 /\ k - 1 \in Nat
    BY <1>1 DEF None
  <2>3. Finish(In(k - 1)) = InList(Cursor(NoPartition), PartsOf(S, split, k - 1), L, 1)
    BY <2>2, StagesFinish
  <2>4. \E at, before : In(k - 1) = InList(at, before, L, 1)
    BY DEF ReadStages
  <2>5. PICK at, before : In(k - 1) = InList(at, before, L, 1)
    BY <2>4
  <2>6. In(k) = InList(At(PartOf(S, k, split[k]), "item"), PartsOf(S, split, k - 1), L, 1)
    BY <2>2 DEF ReadStages
  <2> HIDE DEF In
  <2>7. Reads(None, InList(at, before, L, 1), StageItem(S, k, split[k]),
                     InList(At(PartOf(S, k, split[k]), "item"), PartsOf(S, split, k - 1), L, 1))
    BY <1>2, <2>2, <2>3, <2>5, GatewayReadsItem
  <2> QED BY <1>2, <2>1, <2>5, <2>6, <2>7
<1> DEFINE after == [n \in 0 .. S |-> In(n)]
<1>4. \A k \in 1 .. S : IsSequence(items[k]) /\ Reads(None, after[k - 1], items[k], after[k])
  <2> HIDE DEF items, In, S
  <2>1. \A n \in 0 .. S : after[n] = In(n)
    OBVIOUS
  <2> HIDE DEF after
  <2>2. ASSUME NEW k \in 1 .. S PROVE after[k - 1] = In(k - 1) /\ after[k] = In(k)
    <3>1. k \in 0 .. S /\ k - 1 \in 0 .. S
      BY <1>1
    <3> QED BY <2>1, <3>1
  <2> QED BY <1>3, <2>2
<1>5. after[0] = In(0) /\ after[S] = In(S)
  <2> HIDE DEF In, S
  <2>1. 0 \in 0 .. S /\ S \in 0 .. S
    BY <1>1
  <2> QED BY <2>1
<1> HIDE DEF items, In, S, after
<1>6. IsSequence(FlattenSeq(items)) /\ Reads(None, after[0], FlattenSeq(items), after[S])
  BY <1>1, <1>4, ReadsFlat
<1> QED BY <1>5, <1>6 DEF items, In, S

LEMMA LeavesList ==
    ASSUME NEW at, NEW parts, NEW L, NEW url
    PROVE  [InList(at, parts, L, url) EXCEPT !.section = "top"] = Got("top", at, parts, L, url)
BY DEF InList, Got

(* The gateway's load_gateway_config_from_file gets from a written map, of *)
(* any split with at least one stage, one partition for each stage, in     *)
(* order, with all of its fields, and the URL of the first one.            *)
THEOREM GatewayReadsWhatIsWritten ==
    ASSUME NEW slug, NEW L, NEW split \in Seq(Seq(Nat)), Len(split) # 0
    PROVE  ReadGateway(WrittenMap(slug, L, split)) =
               Got("top", Cursor(NoPartition), PartsOf(Len(split), split, Len(split)), L, 1)
<1> DEFINE S == Len(split)
           items == FlattenSeq([k \in DOMAIN split |-> StageItem(S, k, split[k])])
           topology == Line(0, "topology", None)
           end == Got("top", Cursor(NoPartition), PartsOf(S, split, S), L, 1)
<1>1. S \in Nat
  OBVIOUS
<1>2. IsSequence(Header(slug, L)) /\ IsSequence(<<topology>>)
  <2>1. ASSUME NEW a, NEW b, NEW c, NEW d, NEW e PROVE IsSequence(<<a, b, c, d, e>>)
    <3>1. <<a, b, c, d, e>> \in Seq({a, b, c, d, e})
      OBVIOUS
    <3> QED BY <3>1, SequenceOf
  <2>2. ASSUME NEW a PROVE IsSequence(<<a>>)
    <3>1. <<a>> \in Seq({a})
      OBVIOUS
    <3> QED BY <3>1, SequenceOf
  <2> QED BY <2>1, <2>2 DEF Header
<1>3. IsSequence(items) /\ Reads(None, ReadStages(S, split, 0, L), items, ReadStages(S, split, S, L))
  BY GatewayReadsStages
<1>4. Reads(None, GatewayStart, Header(slug, L), ReadStages(S, split, 0, L))
  BY GatewayReadsHeader DEF ReadStages, InList
<1>5. ReadLine(None, ReadStages(S, split, S, L), topology) = end
  <2> DEFINE read == ReadStages(S, split, S, L)
  <2>1. topology.indent = 0 /\ topology.key = "topology"
    BY DEF Line
  <2>2. Finish(read) = InList(Cursor(NoPartition), PartsOf(S, split, S), L, 1)
    BY <1>1, StagesFinish
  <2> HIDE DEF topology, read
  <2>3. ReadLine(None, read, topology) = [Finish(read) EXCEPT !.section = "top"]
    BY <2>1 DEF ReadLine, ReadGatewayLine, ReadTopLevelKey
  <2> QED BY <2>2, <2>3, LeavesList DEF read
<1>6. Reads(None, ReadStages(S, split, S, L), <<topology>>, end)
  BY <1>5, OneLine
<1>7. WrittenMap(slug, L, split) = Header(slug, L) \o items \o <<topology>>
  BY DEF WrittenMap, Header
<1>8. Finish(end) = end
  BY DEF Finish, Got, Cursor
<1> HIDE DEF items, topology, end, S
<1>9. Reads(None, GatewayStart, (Header(slug, L) \o items) \o <<topology>>, end)
  <2>1. Reads(None, GatewayStart, Header(slug, L) \o items, ReadStages(S, split, S, L))
    BY <1>2, <1>3, <1>4, ReadsMore
  <2>2. IsSequence(Header(slug, L) \o items)
    BY <1>2, <1>3, SequenceOn
  <2> QED BY <1>2, <1>6, <2>1, <2>2, ReadsMore
<1>10. ReadGateway(WrittenMap(slug, L, split)) = Finish(end)
  <2>1. IsSequence((Header(slug, L) \o items) \o <<topology>>)
    BY <1>2, <1>3, SequenceOn
  <2>2. PICK T : WrittenMap(slug, L, split) \in Seq(T)
    BY <1>7, <2>1 DEF IsSequence
  <2> QED BY <1>7, <1>9, <2>2, GatewayReadsOnce
<1> QED BY <1>8, <1>10 DEF end, S

------------------------------------------------------------------------------
(* The stage's parser ignores what is not of its id.                       *)
Before(at)  == [section |-> "before", mine |-> FALSE, at |-> at]
NotMine(at) == [section |-> "stages", mine |-> FALSE, at |-> at]
Behind(at, mine) == [section |-> "behind", mine |-> mine, at |-> at]

LEMMA StageStartIs ==
    ASSUME NEW id, id # None PROVE StageStart(id) = Before(At(NewPart(id, id), "item"))
<1>1. PICK no : no = FALSE
  OBVIOUS
<1>2. NewPart(id, id) = Part8(id, None, None, None, no, <<>>, no, no)
  BY <1>1 DEF NewPart, IdOf
<1>3. NewPartition(id) = Part8(id, id, None, None, no, <<>>, no, no)
  BY <1>1 DEF NewPartition, Part8
<1>4. Put(Part8(id, id, None, None, no, <<>>, no, no), "partition_id", None) =
          Part8(id, None, None, None, no, <<>>, no, no)
  BY PartFields
<1>5. [NewPartition(id) EXCEPT !.partition_id = None] = NewPart(id, id)
  BY <1>2, <1>3, <1>4 DEF Put
<1> QED BY <1>5 DEF StageStart, Before, Cursor, At

LEMMA StageReadsHeader ==
    ASSUME NEW id, id # None, NEW slug, NEW L, NEW at
    PROVE  Reads(id, Before(at), Header(slug, L), NotMine(at))
<1>1. ASSUME NEW line, line.key # "inference_stages" PROVE Before(at) = ReadLine(id, Before(at), line)
  BY <1>1 DEF ReadLine, ReadStageLine, Before
<1>2. /\ Line(0, "model_slug", slug).key # "inference_stages"
      /\ Line(0, "num_layers", L).key # "inference_stages"
      /\ Line(0, "inference_gateway", None).key # "inference_stages"
      /\ Line(2, "first_stage_url", 1).key # "inference_stages"
  BY DEF Line
<1>3. NotMine(at) = ReadLine(id, Before(at), Line(0, "inference_stages", None))
  <2> DEFINE line == Line(0, "inference_stages", None)
  <2>1. line.indent = 0 /\ line.key = "inference_stages"
    BY DEF Line
  <2> HIDE DEF line
  <2>2. ReadLine(id, Before(at), line) = [Before(at) EXCEPT !.section = "stages"]
    BY <2>1 DEF ReadLine, ReadStageLine, Before
  <2>3. PICK no : no = FALSE
    OBVIOUS
  <2>4. [[section |-> "before", mine |-> no, at |-> at] EXCEPT !.section = "stages"] =
            [section |-> "stages", mine |-> no, at |-> at]
    OBVIOUS
  <2> QED BY <2>2, <2>3, <2>4 DEF line, Before, NotMine
<1> HIDE DEF Before, NotMine
<1>4. /\ Before(at) = ReadLine(id, Before(at), Line(0, "model_slug", slug))
      /\ Before(at) = ReadLine(id, Before(at), Line(0, "num_layers", L))
      /\ Before(at) = ReadLine(id, Before(at), Line(0, "inference_gateway", None))
      /\ Before(at) = ReadLine(id, Before(at), Line(2, "first_stage_url", 1))
  BY <1>1, <1>2
<1> QED BY <1>3, <1>4, FiveLines DEF Header

LEMMA OtherLine ==
    ASSUME NEW id, id # None, NEW at, NEW line, line.indent # 0, line.key # "dash_stage_id"
    PROVE  NotMine(at) = ReadLine(id, NotMine(at), line)
<1>1. NotMine(at).section = "stages" /\ NotMine(at).mine = FALSE
  BY DEF NotMine
<1>2. ReadLine(id, NotMine(at), line) = ReadStageListLine(id, NotMine(at), line)
  BY <1>1 DEF ReadLine, ReadStageLine
<1> QED BY <1>1, <1>2 DEF ReadStageListLine

LEMMA OtherItem ==
    ASSUME NEW id, id # None, NEW S, NEW k, k # id, NEW layers \in Seq(Nat), NEW at, NEW start,
           start \in {Mine(at), NotMine(at)}
    PROVE  Reads(id, start, StageItem(S, k, layers), NotMine(at))
<1>1. NotMine(at) = ReadLine(id, start, Line(0, "dash_stage_id", k))
  <2> DEFINE line == Line(0, "dash_stage_id", k)
  <2>1. line.key = "dash_stage_id" /\ line.value # id
    BY DEF Line
  <2>2. start.section = "stages"
    BY DEF Mine, NotMine
  <2>3. PICK no : no = FALSE
    OBVIOUS
  <2>4. \E mine : start = [section |-> "stages", mine |-> mine, at |-> at]
    BY DEF Mine, NotMine
  <2>5. PICK mine : start = [section |-> "stages", mine |-> mine, at |-> at]
    BY <2>4
  <2>6. [start EXCEPT !.mine = no] = [section |-> "stages", mine |-> no, at |-> at]
    BY <2>5
  <2> HIDE DEF line
  <2>7. ReadLine(id, start, line) = ReadStageListLine(id, start, line)
    BY <2>2 DEF ReadLine, ReadStageLine
  <2>8. ReadStageListLine(id, start, line) = [start EXCEPT !.mine = FALSE]
    BY <2>1 DEF ReadStageListLine
  <2> QED BY <2>3, <2>6, <2>7, <2>8 DEF line, NotMine
<1>2. PICK first, last : first = (k = 1) /\ last = (k = S)
  OBVIOUS
<1>3. /\ ItemStart(S, k) = << Line(0, "dash_stage_id", k), Line(2, "partition_id", k),
                Line(2, "service_name", k), Line(2, "components", None),
                Line(4, "embedding", first), Line(4, "layers", None) >>
      /\ ItemEnd(S, k) = << Line(4, "norm", last), Line(4, "lm_head", last),
                Line(2, "next_stage_url", NextStage(S, k)) >>
  BY <1>2 DEF ItemStart, ItemEnd
<1>4. ASSUME NEW indent \in {2, 4}, NEW key, key # "dash_stage_id", NEW value
      PROVE  NotMine(at) = ReadLine(id, NotMine(at), Line(indent, key, value))
  <2>1. Line(indent, key, value).indent # 0 /\ Line(indent, key, value).key # "dash_stage_id"
    BY <1>4 DEF Line
  <2> QED BY <2>1, OtherLine
<1>5. Reads(id, start, ItemStart(S, k), NotMine(at))
  <2>1. /\ NotMine(at) = ReadLine(id, NotMine(at), Line(2, "partition_id", k))
        /\ NotMine(at) = ReadLine(id, NotMine(at), Line(2, "service_name", k))
        /\ NotMine(at) = ReadLine(id, NotMine(at), Line(2, "components", None))
        /\ NotMine(at) = ReadLine(id, NotMine(at), Line(4, "embedding", first))
        /\ NotMine(at) = ReadLine(id, NotMine(at), Line(4, "layers", None))
    BY <1>4
  <2> HIDE DEF NotMine
  <2> QED BY <1>1, <1>3, <2>1, SixLines
<1>6. Reads(id, NotMine(at), ItemEnd(S, k), NotMine(at))
  <2>1. /\ NotMine(at) = ReadLine(id, NotMine(at), Line(4, "norm", last))
        /\ NotMine(at) = ReadLine(id, NotMine(at), Line(4, "lm_head", last))
        /\ NotMine(at) = ReadLine(id, NotMine(at), Line(2, "next_stage_url", NextStage(S, k)))
    BY <1>4
  <2> QED BY <1>3, <2>1, ThreeLines
<1>7. Reads(id, NotMine(at), ItemLayers(layers), NotMine(at))
  <2> DEFINE n == Len(layers)
             r == NotMine(at)
             read == [i \in 0 .. n |-> r]
             file == ItemLayers(layers)
  <2>1. n \in Nat /\ Len(file) = n /\ \A i \in 1 .. n : file[i] = Line(4, "dash", layers[i])
    BY DEF ItemLayers
  <2>2. \A i \in 1 .. n : r = ReadLine(id, r, file[i])
    BY <1>4, <2>1
  <2> HIDE DEF n, r, file
  <2>3. \A i \in 0 .. n : read[i] = r
    OBVIOUS
  <2> HIDE DEF read
  <2>4. ASSUME NEW i \in 1 .. n PROVE read[i] = ReadLine(id, read[i - 1], file[i])
    <3>1. i \in 0 .. n /\ i - 1 \in 0 .. n
      BY <2>1
    <3> QED BY <2>2, <2>3, <3>1
  <2>5. 0 \in 0 .. n /\ n \in 0 .. n
    BY <2>1
  <2>6. Reads(id, read[0], file, read[n])
    BY <2>1, <2>4, ManyLines
  <2> QED BY <2>3, <2>5, <2>6 DEF r, file
<1>8. /\ IsSequence(ItemStart(S, k)) /\ IsSequence(ItemLayers(layers)) /\ IsSequence(ItemEnd(S, k))
      /\ StageItem(S, k, layers) = ItemStart(S, k) \o ItemLayers(layers) \o ItemEnd(S, k)
  BY ItemParts
<1> HIDE DEF Mine, NotMine
<1>9. Reads(id, start, ItemStart(S, k) \o ItemLayers(layers), NotMine(at))
  BY <1>5, <1>7, <1>8, ReadsMore
<1>10. IsSequence(ItemStart(S, k) \o ItemLayers(layers))
  BY <1>8, SequenceOn
<1>11. Reads(id, start, (ItemStart(S, k) \o ItemLayers(layers)) \o ItemEnd(S, k), NotMine(at))
  BY <1>6, <1>8, <1>9, <1>10, ReadsMore
<1> QED BY <1>8, <1>11

LEMMA OwnItem ==
    ASSUME NEW id, id # None, NEW S, NEW layers \in Seq(Nat)
    PROVE  Reads(id, NotMine(At(NewPart(id, id), "item")), StageItem(S, id, layers),
                 Mine(At(PartRead(id, S, id, layers), "item")))
<1> DEFINE line  == Line(0, "dash_stage_id", id)
           part  == NewPart(id, id)
           start == NotMine(At(part, "item"))
<1>1. line.key = "dash_stage_id" /\ line.value = id /\ start.section = "stages" /\ start.at = At(part, "item")
  BY DEF Line, NotMine
<1>2. PICK no, yes : no = FALSE /\ yes = TRUE
  OBVIOUS
<1>3. part = Part8(id, IdOf(id, id), None, None, no, <<>>, no, no)
  BY <1>2 DEF NewPart
<1>4. Put(part, "layers", <<>>) = part
  BY <1>3, PartFields
<1>5. [start.at.part EXCEPT !.layers = <<>>] = part
  BY <1>1, <1>4 DEF Put, At
<1>6. ReadLine(id, start, line) = Mine(At(part, "item"))
  <2>1. start = [section |-> "stages", mine |-> no, at |-> At(part, "item")]
    BY <1>2 DEF NotMine
  <2> DEFINE at == Cursor(part)
  <2>2. [[section |-> "stages", mine |-> no, at |-> At(part, "item")] EXCEPT !.mine = yes] =
            [section |-> "stages", mine |-> yes, at |-> At(part, "item")]
    OBVIOUS
  <2>3. [[section |-> "stages", mine |-> yes, at |-> At(part, "item")] EXCEPT !.at = at] =
            [section |-> "stages", mine |-> yes, at |-> at]
    OBVIOUS
  <2>4. at = At(part, "item")
    BY DEF Cursor, At
  <2> HIDE DEF line, start, part, at
  <2>5. ReadLine(id, start, line) = ReadStageListLine(id, start, line)
    BY <1>1 DEF ReadLine, ReadStageLine
  <2>6. ReadStageListLine(id, start, line) = [[start EXCEPT !.mine = TRUE] EXCEPT !.at = Cursor(part)]
    BY <1>1, <1>5 DEF ReadStageListLine
  <2>7. ReadLine(id, start, line) = [section |-> "stages", mine |-> yes, at |-> At(part, "item")]
    BY <1>2, <2>1, <2>2, <2>3, <2>4, <2>5, <2>6 DEF at
  <2> QED BY <1>2, <2>7 DEF Mine
<1> HIDE DEF start
<1>7. ReadLine(id, start, line) = InItem(id, At(part, "item"), <<>>, 0, None)
  BY <1>6 DEF InItem
<1>8. Reads(id, start, StageItem(S, id, layers), InItem(id, At(PartRead(id, S, id, layers), "item"), <<>>, 0, None))
  BY <1>7, ItemIsRead
<1> QED BY <1>8 DEF InItem, start

StageRead(id, S, layers, n) ==
    IF n < id THEN NotMine(At(NewPart(id, id), "item"))
    ELSE IF n = id THEN Mine(At(PartRead(id, S, id, layers), "item"))
    ELSE NotMine(At(PartRead(id, S, id, layers), "item"))

LEMMA StageReadsStages ==
    ASSUME NEW split \in Seq(Seq(Nat)), NEW id \in 1 .. Len(split)
    PROVE  /\ IsSequence(FlattenSeq([k \in DOMAIN split |-> StageItem(Len(split), k, split[k])]))
           /\ Reads(id, StageRead(id, Len(split), split[id], 0),
                    FlattenSeq([k \in DOMAIN split |-> StageItem(Len(split), k, split[k])]),
                    StageRead(id, Len(split), split[id], Len(split)))
<1> DEFINE S == Len(split)
           items == [k \in DOMAIN split |-> StageItem(S, k, split[k])]
           In(n) == StageRead(id, S, split[id], n)
           after == [n \in 0 .. S |-> In(n)]
<1>1. S \in Nat \ {0} /\ Len(items) = S /\ DOMAIN split = 1 .. S /\ id \in Nat /\ id # None
  BY DEF None
<1>2. \A k \in 1 .. S : items[k] = StageItem(S, k, split[k]) /\ split[k] \in Seq(Nat)
  OBVIOUS
<1>3. ASSUME NEW k \in 1 .. S PROVE IsSequence(items[k]) /\ Reads(id, In(k - 1), items[k], In(k))
  <2> DEFINE new  == At(NewPart(id, id), "item")
             part == At(PartRead(id, S, id, split[id]), "item")
  <2>1. IsSequence(items[k])
    BY <1>2, ItemIsSequence
  <2>2. k \in Nat /\ id \in Nat
    BY <1>1
  <2>3. CASE k < id
    <3>1. In(k - 1) = NotMine(new) /\ In(k) = NotMine(new)
      BY <2>2, <2>3 DEF StageRead
    <3>2. Reads(id, NotMine(new), StageItem(S, k, split[k]), NotMine(new))
      BY <1>1, <1>2, <2>2, <2>3, OtherItem
    <3> HIDE DEF In
    <3> QED BY <1>2, <2>1, <3>1, <3>2
  <2>4. CASE k = id
    <3>1. In(k - 1) = NotMine(new) /\ In(k) = Mine(part)
      BY <2>2, <2>4 DEF StageRead
    <3>2. Reads(id, NotMine(new), StageItem(S, id, split[id]), Mine(part))
      BY <1>1, <1>2, OwnItem
    <3> HIDE DEF In
    <3> QED BY <1>2, <2>1, <2>4, <3>1, <3>2
  <2>5. CASE k > id
    <3>1. In(k - 1) \in {Mine(part), NotMine(part)} /\ In(k) = NotMine(part)
      BY <2>2, <2>5 DEF StageRead
    <3> HIDE DEF In, new, part
    <3>2. Reads(id, In(k - 1), StageItem(S, k, split[k]), NotMine(part))
      BY <1>1, <1>2, <2>2, <2>5, <3>1, OtherItem
    <3> QED BY <1>2, <2>1, <3>1, <3>2
  <2> QED BY <2>2, <2>3, <2>4, <2>5
<1>4. \A k \in 1 .. S : IsSequence(items[k]) /\ Reads(id, after[k - 1], items[k], after[k])
  <2> HIDE DEF items, In, S
  <2>1. \A n \in 0 .. S : after[n] = In(n)
    OBVIOUS
  <2> HIDE DEF after
  <2>2. ASSUME NEW k \in 1 .. S PROVE after[k - 1] = In(k - 1) /\ after[k] = In(k)
    <3>1. k \in 0 .. S /\ k - 1 \in 0 .. S
      BY <1>1
    <3> QED BY <2>1, <3>1
  <2> QED BY <1>3, <2>2
<1>5. after[0] = In(0) /\ after[S] = In(S)
  <2> HIDE DEF In, S
  <2>1. 0 \in 0 .. S /\ S \in 0 .. S
    BY <1>1
  <2> QED BY <2>1
<1> HIDE DEF items, In, S, after
<1>6. IsSequence(FlattenSeq(items)) /\ Reads(id, after[0], FlattenSeq(items), after[S])
  BY <1>1, <1>4, ReadsFlat
<1> QED BY <1>5, <1>6 DEF items, In, S

(* The stage's load_stage_config_from_file gets its own item from the same *)
(* map, with all of its fields but the partition id, which it skips: the   *)
(* lines of the other stages, before and behind its own, leave no trace.   *)
THEOREM StageReadsWhatIsWritten ==
    ASSUME NEW slug, NEW L, NEW split \in Seq(Seq(Nat)), NEW id \in 1 .. Len(split)
    PROVE  ReadStage(WrittenMap(slug, L, split), id) = PartRead(id, Len(split), id, split[id])
<1> DEFINE S == Len(split)
           items == FlattenSeq([k \in DOMAIN split |-> StageItem(S, k, split[k])])
           topology == Line(0, "topology", None)
           part == PartRead(id, S, id, split[id])
           new == At(NewPart(id, id), "item")
<1>1. S \in Nat /\ id \in Nat /\ 0 < id /\ id <= S /\ id # None
  BY DEF None
<1>2. IsSequence(Header(slug, L)) /\ IsSequence(<<topology>>)
  <2>1. ASSUME NEW a, NEW b, NEW c, NEW d, NEW e PROVE IsSequence(<<a, b, c, d, e>>)
    <3>1. <<a, b, c, d, e>> \in Seq({a, b, c, d, e})
      OBVIOUS
    <3> QED BY <3>1, SequenceOf
  <2>2. ASSUME NEW a PROVE IsSequence(<<a>>)
    <3>1. <<a>> \in Seq({a})
      OBVIOUS
    <3> QED BY <3>1, SequenceOf
  <2> QED BY <2>1, <2>2 DEF Header
<1>3. IsSequence(items) /\ Reads(id, StageRead(id, S, split[id], 0), items, StageRead(id, S, split[id], S))
  BY StageReadsStages
<1>4. StageRead(id, S, split[id], 0) = NotMine(new)
  BY <1>1 DEF StageRead
<1>5. Reads(id, StageStart(id), Header(slug, L), NotMine(new))
  <2>1. StageStart(id) = Before(new)
    BY <1>1, StageStartIs
  <2> QED BY <1>1, <2>1, StageReadsHeader
<1> DEFINE last == StageRead(id, S, split[id], S)
           end  == ReadLine(id, last, topology)
<1>6. last.section = "stages" /\ last.at = At(part, "item")
  BY <1>1 DEF StageRead, Mine, NotMine
<1>7. end.at.part = part
  <2>1. topology.indent = 0 /\ topology.key = "topology" /\ At(part, "item").part = part
    BY DEF Line, At
  <2> HIDE DEF topology, last, part
  <2>2. end = ReadStageListLine(id, last, topology)
    BY <1>1, <1>6 DEF ReadLine, ReadStageLine
  <2>3. end = [last EXCEPT !.section = "behind"]
    BY <2>1, <2>2 DEF ReadStageListLine
  <2> HIDE DEF end
  <2>4. end.at = last.at
    BY <2>3
  <2> QED BY <1>6, <2>1, <2>4
<1>8. Reads(id, last, <<topology>>, end)
  BY OneLine
<1>9. WrittenMap(slug, L, split) = Header(slug, L) \o items \o <<topology>>
  BY DEF WrittenMap, Header
<1> HIDE DEF items, topology, part, new, last, end, S
<1>10. Reads(id, StageStart(id), (Header(slug, L) \o items) \o <<topology>>, end)
  <2>1. Reads(id, NotMine(new), items, last)
    BY <1>3, <1>4 DEF last
  <2>2. Reads(id, StageStart(id), Header(slug, L) \o items, last)
    BY <1>2, <1>3, <1>5, <2>1, ReadsMore
  <2>3. IsSequence(Header(slug, L) \o items)
    BY <1>2, <1>3, SequenceOn
  <2> QED BY <1>2, <1>8, <2>2, <2>3, ReadsMore
<1>11. ReadStage(WrittenMap(slug, L, split), id) = end.at.part
  <2>1. IsSequence((Header(slug, L) \o items) \o <<topology>>)
    BY <1>2, <1>3, SequenceOn
  <2>2. PICK T : WrittenMap(slug, L, split) \in Seq(T)
    BY <1>9, <2>1 DEF IsSequence
  <2> QED BY <1>1, <1>9, <1>10, <2>2, StageReadsOnce
<1> QED BY <1>7, <1>11 DEF part, S

------------------------------------------------------------------------------
(* What those who use the map find in it                                   *)
PartsFor(split) == [k \in DOMAIN split |-> PartOf(Len(split), k, split[k])]

LEMMA PartsAre ==
    ASSUME NEW split \in Seq(Seq(Nat))
    PROVE  /\ PartsOf(Len(split), split, Len(split)) = PartsFor(split)
           /\ DOMAIN PartsFor(split) = 1 .. Len(split) /\ Len(split) \in Nat
           /\ \A k \in 1 .. Len(split) : PartsFor(split)[k] = PartOf(Len(split), k, split[k])
BY DEF PartsFor, PartsOf

LEMMA PartOfHas ==
    ASSUME NEW S, NEW k, NEW layers
    PROVE  /\ PartOf(S, k, layers).stage_id = k /\ PartOf(S, k, layers).partition_id = k
           /\ PartOf(S, k, layers).service_name = k /\ PartOf(S, k, layers).layers = layers
           /\ PartOf(S, k, layers).next_stage_url = NextStage(S, k)
           /\ PartOf(S, k, layers).embedding <=> k = 1
           /\ PartOf(S, k, layers).norm <=> k = S
           /\ PartOf(S, k, layers).lm_head <=> k = S
BY DEF PartOf, Part8

LEMMA StageContentsAre ==
    ASSUME NEW who, NEW S, NEW k, NEW layers
    PROVE  Contents(PartRead(who, S, k, layers)) = Contents(PartOf(S, k, layers))
<1>1. PICK first, last : first = (k = 1) /\ last = (k = S)
  OBVIOUS
<1>2. ASSUME NEW id
      PROVE  Contents(Part8(k, id, k, NextStage(S, k), first, layers, last, last)) =
                 << layers, first, last, last, NextStage(S, k) >>
  BY DEF Contents, Part8
<1> QED BY <1>1, <1>2 DEF PartRead, PartOf

(* Any split with a stage: the partition of an id is that of the stage, and*)
(* the gateway visits them all, in order.                                  *)
LEMMA ReadOfWritten ==
    ASSUME NEW slug, NEW L, NEW split \in Seq(Seq(Nat)), Len(split) # 0, NEW read,
           read = ReadGateway(WrittenMap(slug, L, split))
    PROVE  /\ read.partitions = PartsFor(split) /\ read.num_layers = L /\ read.first = 1
           /\ Partitions(read) = {PartOf(Len(split), k, split[k]) : k \in 1 .. Len(split)}
           /\ Ids(read) = 1 .. Len(split)
           /\ \A k \in 1 .. Len(split) : PartitionOf(k, read) = PartOf(Len(split), k, split[k])
<1> DEFINE S == Len(split)
           P(k) == PartOf(S, k, split[k])
<1>1. /\ read.partitions = PartsFor(split) /\ read.num_layers = L /\ read.first = 1
  BY GatewayReadsWhatIsWritten, PartsAre DEF Got
<1>2. DOMAIN PartsFor(split) = 1 .. S /\ \A k \in 1 .. S : PartsFor(split)[k] = P(k)
  BY PartsAre
<1>3. \A k \in 1 .. S : P(k).partition_id = k
  BY PartOfHas
<1> HIDE DEF P, S
<1>4. Partitions(read) = {P(k) : k \in 1 .. S}
  BY <1>1, <1>2 DEF Partitions, ToSet
<1>5. Ids(read) = 1 .. S
  <2>1. \A k \in 1 .. S : P(k) \in Partitions(read)
    BY <1>4
  <2>2. \A part \in Partitions(read) : part.partition_id \in 1 .. S
    BY <1>3, <1>4
  <2> QED BY <1>3, <2>1, <2>2 DEF Ids
<1>6. ASSUME NEW k \in 1 .. S PROVE PartitionOf(k, read) = P(k)
  <2>1. P(k) \in Partitions(read) /\ \A part \in Partitions(read) : part.partition_id = k => part = P(k)
    BY <1>3, <1>4
  <2> QED BY <1>3, <2>1 DEF PartitionOf
<1> QED BY <1>1, <1>4, <1>5, <1>6 DEF S, P

LEMMA WalkIsInOrder ==
    ASSUME NEW split \in Seq(Seq(Nat)), Len(split) # 0
    PROVE  GatewayRoute(PartsFor(split), 1) = [i \in 1 .. Len(split) |-> i]
<1> DEFINE S == Len(split)
           parts == PartsFor(split)
<1>1. S \in Nat \ {0} /\ DOMAIN parts = 1 .. S /\ \A k \in 1 .. S : parts[k] = PartOf(S, k, split[k])
  BY PartsAre
<1>2. \A k \in 1 .. S : /\ parts[k].next_stage_url = NextStage(S, k)
                        /\ parts[k].lm_head <=> k = S
  BY <1>1, PartOfHas
<1> HIDE DEF parts, S
<1>3. \A k \in 1 .. S : NextStage(S, k) = IF k < S THEN k + 1 ELSE 0
  BY DEF NextStage, None
<1>4. {i \in DOMAIN parts : EndsWalk(parts[i])} = {S}
  BY <1>1, <1>2, <1>3 DEF EndsWalk, None
<1>5. Min({S}) = S
  BY <1>1 DEF Min
<1>6. \A i \in 1 .. S : (IF i = 1 THEN 1 ELSE parts[i - 1].next_stage_url) = i
  BY <1>1, <1>2, <1>3
<1> QED BY <1>4, <1>5, <1>6 DEF GatewayRoute, UpToTerminal, parts, S

(* The layers of all stages of a generated map, one stage after the other  *)
Ascending(n) == [i \in 1 .. n |-> i - 1]

LEMMA AscendingOn ==
    ASSUME NEW a \in Nat, NEW b \in Nat
    PROVE  Ascending(a) \o [i \in 1 .. b |-> a + i - 1] = Ascending(a + b)
<1> DEFINE f == Ascending(a)
           g == [i \in 1 .. b |-> a + i - 1]
<1>1. f \in Seq(Int) /\ g \in Seq(Int) /\ Len(f) = a /\ Len(g) = b
  BY DEF Ascending
<1>2. /\ \A i \in 1 .. a : f[i] = i - 1
      /\ \A i \in 1 .. b : g[i] = a + i - 1
  BY DEF Ascending
<1> DEFINE h == f \o g
<1> HIDE DEF f, g
<1>3. /\ h \in Seq(Int) /\ Len(h) = a + b
      /\ \A i \in 1 .. a : h[i] = f[i]
      /\ \A i \in a + 1 .. a + b : h[i] = g[i - a]
  <2>1. /\ h \in Seq(Int) /\ Len(h) = Len(f) + Len(g)
        /\ \A i \in 1 .. Len(f) : h[i] = f[i]
        /\ \A i \in Len(f) + 1 .. Len(f) + Len(g) : h[i] = g[i - Len(f)]
    BY <1>1, Joined
  <2> HIDE DEF h
  <2> QED BY <1>1, <2>1
<1> HIDE DEF h
<1>4. ASSUME NEW i \in 1 .. a + b PROVE h[i] = i - 1
  <2>1. CASE i <= a
    BY <1>2, <1>3, <2>1
  <2>2. CASE i > a
    <3>1. i - a \in 1 .. b /\ i \in a + 1 .. a + b
      BY <2>2
    <3>2. h[i] = a + (i - a) - 1
      BY <1>2, <1>3, <3>1
    <3> QED BY <3>1, <3>2
  <2> QED BY <2>1, <2>2
<1>5. h = [i \in 1 .. a + b |-> h[i]]
  <2>1. DOMAIN h = 1 .. Len(h)
    BY <1>3
  <2> QED BY <1>3, <2>1
<1>6. h = Ascending(a + b)
  BY <1>4, <1>5 DEF Ascending
<1> QED BY <1>6 DEF f, g, h

GeneratedSplit(L, S) == [k \in 1 .. S |-> LayersOf(L, S, k)]

LEMMA GeneratedIsSplit ==
    ASSUME NEW L \in Nat, NEW S \in Nat, Splittable(L, S)
    PROVE  /\ GeneratedSplit(L, S) \in Seq(Seq(Nat)) /\ Len(GeneratedSplit(L, S)) = S /\ S # 0
           /\ \A k \in 1 .. S : GeneratedSplit(L, S)[k] = LayersOf(L, S, k)
<1>1. ASSUME NEW k \in 1 .. S PROVE LayersOf(L, S, k) \in Seq(Nat)
  <2> DEFINE f == FirstLayer(L, S, k)
             n == StageSize(L, S, k)
  <2>1. f \in Nat /\ n \in Nat
    BY LayersAreRange
  <2>2. LayersOf(L, S, k) = [i \in 1 .. n |-> f + i - 1]
    BY DEF LayersOf
  <2> HIDE DEF f, n
  <2>3. \A i \in 1 .. n : f + i - 1 \in Nat
    BY <2>1
  <2>4. [i \in 1 .. n |-> f + i - 1] \in [1 .. n -> Nat]
    BY <2>3
  <2> QED BY <2>1, <2>2, <2>4
<1> QED BY <1>1 DEF GeneratedSplit, Splittable

(* The stages of a generated map, from the first to the last, have the     *)
(* layers of the model from the first to the last.                         *)
THEOREM GeneratedLayersAscend ==
    ASSUME NEW L \in Nat, NEW S \in Nat, Splittable(L, S)
    PROVE  FlattenSeq(GeneratedSplit(L, S)) = Ascending(L)
<1> DEFINE s == GeneratedSplit(L, S)
           c(k) == FirstLayer(L, S, k)
           n(k) == StageSize(L, S, k)
<1>1. S \in Nat \ {0} /\ Len(s) = S
  BY GeneratedIsSplit
<1>2. PICK f : /\ f[1] = s[1] /\ f[S] = FlattenSeq(s)
               /\ \A i \in 2 .. S : f[i] = f[i - 1] \o s[i]
  BY <1>1, FlattenStepwise
<1>3. \A k \in 1 .. S : s[k] = [i \in 1 .. n(k) |-> c(k) + i - 1] /\ n(k) \in Nat /\ c(k) \in Nat
  BY GeneratedIsSplit, LayersAreRange DEF LayersOf
<1>4. c(1) = 0 /\ c(S + 1) = L /\ \A k \in 1 .. S : c(k + 1) = c(k) + n(k)
  BY RangesAreConsecutive
<1> HIDE DEF s, c, n
<1> DEFINE Bad == {k \in 1 .. S : f[k] # Ascending(c(k + 1))}
<1>5. ASSUME Bad # {} PROVE FALSE
  <2>1. Bad \in SUBSET Nat
    BY <1>1
  <2>2. PICK k \in Bad : \A j \in Bad : k <= j
    BY <1>5, <2>1, SmallestNat
  <2>3. k \in 1 .. S /\ f[k] # Ascending(c(k + 1))
    BY <2>2
  <2>4. c(k) \in Nat /\ n(k) \in Nat /\ c(k + 1) = c(k) + n(k)
    BY <1>3, <1>4, <2>3
  <2>5. CASE k = 1
    <3>1. s[1] = [i \in 1 .. n(1) |-> 0 + i - 1]
      BY <1>3, <1>4, <2>3, <2>5
    <3>2. [i \in 1 .. n(1) |-> 0 + i - 1] = [i \in 1 .. n(1) |-> i - 1]
      OBVIOUS
    <3>3. c(k + 1) = n(1)
      BY <1>4, <2>4, <2>5
    <3> QED BY <1>2, <2>3, <2>5, <3>1, <3>2, <3>3 DEF Ascending
  <2>6. CASE k # 1
    <3>1. k - 1 \in 1 .. S /\ k \in 2 .. S /\ (k - 1) + 1 = k
      BY <1>1, <2>3, <2>6
    <3>2. k - 1 \notin Bad
      BY <2>2, <3>1
    <3>3. f[k - 1] = Ascending(c(k))
      BY <3>1, <3>2
    <3>4. f[k] = Ascending(c(k)) \o [i \in 1 .. n(k) |-> c(k) + i - 1]
      BY <1>2, <1>3, <2>3, <3>1, <3>3
    <3>5. f[k] = Ascending(c(k) + n(k))
      BY <2>4, <3>4, AscendingOn
    <3> QED BY <2>3, <2>4, <3>5
  <2> QED BY <2>5, <2>6
<1>6. f[S] = Ascending(L)
  <2>1. S \in 1 .. S
    BY <1>1
  <2>2. S \notin Bad
    BY <1>5
  <2> QED BY <1>4, <2>1, <2>2
<1> QED BY <1>2, <1>6 DEF s
=============================================================================
