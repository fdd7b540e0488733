------------------------------ MODULE FoldLemmas ------------------------------
(***************************************************************************)
(* Induction over data without an induction theorem: a nonempty set of     *)
(* naturals has a least element, so a property of every prefix of a        *)
(* sequence is proved by taking the shortest prefix that lacks it.  On     *)
(* this rests that FoldLeft is the recursion it is written to be; the same *)
(* for finite sets, and that a sum over one grows by the term added.       *)
(***************************************************************************)
EXTENDS Integers, SequencesExt, FiniteSetTheorems, TLAPS

LEMMA Least ==
    ASSUME NEW T \in SUBSET Nat, T # {}
    PROVE  \E n \in T : \A m \in T : n <= m
<1> DEFINE UpTo(n) == 1 .. n
           U == {UpTo(n) : n \in T}
<1>1. U \in SUBSET FiniteSubsetsOf(Nat) /\ U # {}
  <2>1. ASSUME NEW n \in T PROVE UpTo(n) \in SUBSET Nat /\ IsFiniteSet(UpTo(n))
    <3>1. IsFiniteSet(1 .. n)
      BY FS_Interval
    <3> QED
      BY <3>1
  <2> QED
    BY <2>1 DEF FiniteSubsetsOf
<1>2. PICK x \in U : \A y \in U : <<y, x>> \notin StrictSubsetOrdering(Nat)
  BY <1>1, FS_StrictSubsetOrderingWellFounded, WFMin
<1>3. PICK n \in T : x = UpTo(n)
  OBVIOUS
<1>4. ASSUME NEW m \in T, m < n PROVE FALSE
  <2>1. UpTo(m) \subseteq UpTo(n) /\ UpTo(m) # UpTo(n) /\ n \in UpTo(n) /\ n \notin UpTo(m)
    BY <1>4
  <2>2. <<UpTo(m), UpTo(n)>> \in StrictSubsetOrdering(Nat)
    BY <2>1 DEF StrictSubsetOrdering
  <2> QED
    BY <1>2, <1>3, <2>2
<1> QED
  BY <1>3, <1>4

\* Induction up to n, for the set of the naturals that have a property.
LEMMA Induction ==
    ASSUME NEW n \in Nat, NEW P, 0 \in P,
           \A m \in 0 .. n : m \in P /\ m < n => m + 1 \in P
    PROVE  \A m \in 0 .. n : m \in P
<1> SUFFICES ASSUME NEW k \in 0 .. n, k \notin P PROVE FALSE
  OBVIOUS
<1> DEFINE T == {m \in 0 .. n : m \notin P}
<1>1. PICK m \in T : \A i \in T : m <= i
  <2>1. T \in SUBSET Nat /\ T # {}
    OBVIOUS
  <2> QED
    BY <2>1, Least
<1>2. m # 0 /\ m - 1 \in 0 .. n /\ m - 1 \notin T /\ m - 1 < n
  BY <1>1
<1>3. m - 1 + 1 \in P
  BY <1>2
<1> QED
  BY <1>1, <1>3

-----------------------------------------------------------------------------
\* A nonempty set of bounded numbers has a greatest; so has one of positions.
LEMMA GreatestOf ==
    ASSUME NEW n \in Nat, NEW s \in SUBSET (0 .. n), s # {}
    PROVE  Max(s) \in s /\ \A y \in s : Max(s) >= y
<1> DEFINE T == {u \in Nat : \A y \in s : u >= y}
<1>1. PICK u \in T : \A v \in T : u <= v
  <2>1. n \in T /\ T \in SUBSET Nat
    OBVIOUS
  <2> QED
    BY <2>1, Least
<1>2. u \in s
  <2>1. SUFFICES ASSUME u \notin s PROVE FALSE
    OBVIOUS
  <2>2. PICK y \in s : TRUE
    OBVIOUS
  <2>3. u - 1 \in Nat /\ \A z \in s : u - 1 >= z
    BY <1>1, <2>1, <2>2
  <2> QED
    BY <1>1, <2>3
<1>3. \E x \in s : \A y \in s : x >= y
  BY <1>1, <1>2
<1> QED
  BY <1>3 DEF Max

LEMMA MaxIsGreatest ==
    ASSUME NEW n \in Nat, NEW s \in SUBSET (1 .. n), s # {}
    PROVE  Max(s) \in s /\ \A y \in s : Max(s) >= y
<1>1. s \in SUBSET (0 .. n)
  OBVIOUS
<1> QED
  BY <1>1, GreatestOf

\* A fold of the positions 1 to n in order, with op[<<value, position>>].
IsFold(it, n, base, op) ==
    \A s \in SUBSET (1 .. n) :
        it[s] = IF s = {} THEN base ELSE op[<<it[s \ {Max(s)}], Max(s)>>]

LEMMA FoldExtends ==
    ASSUME NEW n \in Nat, NEW V, NEW base \in V, NEW op \in [V \X (1 .. n) -> V],
           NEW m \in 0 .. n, m < n,
           NEW it \in [SUBSET (1 .. m) -> V], IsFold(it, m, base, op)
    PROVE  \E jt \in [SUBSET (1 .. m + 1) -> V] : IsFold(jt, m + 1, base, op)
<1> DEFINE jt == [s \in SUBSET (1 .. m + 1) |->
                    IF m + 1 \in s THEN op[<<it[s \ {m + 1}], m + 1>>] ELSE it[s]]
<1>1. ASSUME NEW s \in SUBSET (1 .. m + 1), m + 1 \in s
      PROVE  /\ s \ {m + 1} \in SUBSET (1 .. m) /\ Max(s) = m + 1
             /\ jt[s] = op[<<jt[s \ {m + 1}], m + 1>>] /\ jt[s] \in V
  <2>1. s \ {m + 1} \in SUBSET (1 .. m) /\ s \ {m + 1} \in SUBSET (1 .. m + 1)
    OBVIOUS
  <2>2. Max(s) = m + 1
    <3>1. m + 1 \in Nat /\ s # {}
      BY <1>1
    <3>2. Max(s) \in s /\ \A y \in s : Max(s) >= y
      BY <3>1, MaxIsGreatest
    <3>3. Max(s) \in 1 .. m + 1 /\ Max(s) >= m + 1
      BY <1>1, <3>2
    <3> QED
      BY <3>3
  <2>3. jt[s \ {m + 1}] = it[s \ {m + 1}]
    BY <2>1
  <2>4. jt[s] = op[<<it[s \ {m + 1}], m + 1>>]
    BY <1>1
  <2>5. jt[s] \in V
    BY <2>1, <2>4
  <2> QED
    BY <2>1, <2>2, <2>3, <2>4, <2>5
<1>2. ASSUME NEW s \in SUBSET (1 .. m + 1), m + 1 \notin s
      PROVE  /\ jt[s] = IF s = {} THEN base ELSE op[<<jt[s \ {Max(s)}], Max(s)>>]
             /\ jt[s] \in V
  <2>1. s \in SUBSET (1 .. m) /\ s \ {Max(s)} \in SUBSET (1 .. m)
    <3>1. \A x \in s : x \in 1 .. m + 1 /\ x # m + 1
      BY <1>2
    <3>2. \A x \in s : x \in 1 .. m
      BY <3>1
    <3> QED
      BY <3>2
  <2>2. s \ {Max(s)} \in SUBSET (1 .. m + 1) /\ m + 1 \notin s \ {Max(s)}
    BY <2>1
  <2>3. jt[s] = it[s] /\ jt[s \ {Max(s)}] = it[s \ {Max(s)}]
    BY <1>2, <2>2
  <2>4. it[s] = IF s = {} THEN base ELSE op[<<it[s \ {Max(s)}], Max(s)>>]
    BY <2>1 DEF IsFold
  <2> QED
    BY <2>1, <2>3, <2>4
<1>3. jt \in [SUBSET (1 .. m + 1) -> V]
  BY <1>1, <1>2
<1>4. IsFold(jt, m + 1, base, op)
  <2> SUFFICES ASSUME NEW s \in SUBSET (1 .. m + 1)
               PROVE  jt[s] = IF s = {} THEN base ELSE op[<<jt[s \ {Max(s)}], Max(s)>>]
    BY DEF IsFold
  <2>1. CASE m + 1 \in s
    BY <1>1, <2>1
  <2>2. CASE m + 1 \notin s
    BY <1>2, <2>2
  <2> QED
    BY <2>1, <2>2
<1> QED
  BY <1>3, <1>4

LEMMA FoldExists ==
    ASSUME NEW n \in Nat, NEW V, NEW base \in V, NEW op \in [V \X (1 .. n) -> V]
    PROVE  \E it \in [SUBSET (1 .. n) -> V] : IsFold(it, n, base, op)
<1> DEFINE P == {m \in 0 .. n : \E it \in [SUBSET (1 .. m) -> V] : IsFold(it, m, base, op)}
<1>1. 0 \in P
  <2>1. SUBSET (1 .. 0) = {{}}
    OBVIOUS
  <2>2. [s \in SUBSET (1 .. 0) |-> base] \in [SUBSET (1 .. 0) -> V]
    OBVIOUS
  <2>3. IsFold([s \in SUBSET (1 .. 0) |-> base], 0, base, op)
    BY <2>1 DEF IsFold
  <2> QED
    BY <2>2, <2>3
<1>2. \A m \in 0 .. n : m \in P /\ m < n => m + 1 \in P
  <2> SUFFICES ASSUME NEW m \in 0 .. n, m \in P, m < n PROVE m + 1 \in P
    OBVIOUS
  <2>1. PICK it \in [SUBSET (1 .. m) -> V] : IsFold(it, m, base, op)
    OBVIOUS
  <2>2. \E jt \in [SUBSET (1 .. m + 1) -> V] : IsFold(jt, m + 1, base, op)
    BY <2>1, FoldExtends
  <2> QED
    BY <2>2
<1>3. n \in P
  <2> HIDE DEF P
  <2> QED
    BY <1>1, <1>2, Induction
<1> QED
  BY <1>3

\* A fold up to m takes m last.
LEMMA MaxUpTo ==
    ASSUME NEW n \in Nat, NEW m \in 1 .. n
    PROVE  /\ 1 .. m \in SUBSET (1 .. n) /\ 1 .. m # {}
           /\ Max(1 .. m) = m /\ (1 .. m) \ {m} = 1 .. m - 1
<1>1. 1 .. m \in SUBSET (1 .. n) /\ 1 .. m # {} /\ m \in 1 .. m
  <2>1. m \in 1 .. m /\ \A x \in 1 .. m : x \in 1 .. n
    OBVIOUS
  <2> QED
    BY <2>1
<1>2. Max(1 .. m) = m
  <2>1. Max(1 .. m) \in 1 .. m /\ \A y \in 1 .. m : Max(1 .. m) >= y
    BY <1>1, MaxIsGreatest
  <2> QED
    BY <1>1, <2>1
<1>3. (1 .. m) \ {m} = 1 .. m - 1
  OBVIOUS
<1> QED
  BY <1>1, <1>2, <1>3

\* fold computes op wherever its values are in V.
FoldsIn(V, fold, n, base, op) ==
    /\ fold[{}] = base
    /\ \A s \in SUBSET (1 .. n) : s # {} /\ fold[s \ {Max(s)}] \in V =>
            fold[s] = op[<<fold[s \ {Max(s)}], Max(s)>>]

\* F[m] is what op has made of the first m positions.
Unfolds(F, fold, n, base, op) ==
    /\ F[0] = base /\ F[n] = fold[1 .. n]
    /\ \A m \in 1 .. n : F[m] = op[<<F[m - 1], m>>]

LEMMA FoldPrefix ==
    ASSUME NEW n \in Nat, NEW V, NEW base \in V, NEW op \in [V \X (1 .. n) -> V], NEW fold,
           FoldsIn(V, fold, n, base, op)
    PROVE  \E F \in [0 .. n -> V] : Unfolds(F, fold, n, base, op)
<1> DEFINE F == [m \in 0 .. n |-> fold[1 .. m]]
           P == {m \in 0 .. n : F[m] \in V}
<1>1. F[0] = base
  <2>1. 1 .. 0 = {} /\ 0 \in 0 .. n
    OBVIOUS
  <2> QED
    BY <2>1 DEF FoldsIn
<1>2. ASSUME NEW m \in 1 .. n, F[m - 1] \in V
      PROVE  F[m] = op[<<F[m - 1], m>>] /\ F[m] \in V
  <2>1. 1 .. m \in SUBSET (1 .. n) /\ 1 .. m # {} /\ Max(1 .. m) = m /\ (1 .. m) \ {m} = 1 .. m - 1
    BY MaxUpTo
  <2>2. F[m - 1] = fold[1 .. m - 1] /\ F[m] = fold[1 .. m]
    OBVIOUS
  <2>3. fold[1 .. m] = op[<<fold[1 .. m - 1], m>>]
    BY <1>2, <2>1, <2>2 DEF FoldsIn
  <2>4. op[<<F[m - 1], m>>] \in V
    BY <1>2
  <2> QED
    BY <2>2, <2>3, <2>4
<1>3. 0 \in P
  BY <1>1
<1>4. ASSUME NEW m \in 0 .. n, m \in P, m < n PROVE m + 1 \in P
  <2>1. PICK k \in 1 .. n : k = m + 1 /\ k - 1 = m
    BY <1>4
  <2>2. F[k] \in V
    <3>1. F[k - 1] \in V
      BY <1>4, <2>1
    <3> QED
      BY <1>2, <3>1
  <2> QED
    BY <2>1, <2>2
<1>5. \A m \in 0 .. n : m \in P
  <2> HIDE DEF P
  <2> QED
    BY <1>3, <1>4, Induction
<1>6. F \in [0 .. n -> V]
  <2>1. \A m \in 0 .. n : fold[1 .. m] \in V
    BY <1>5
  <2> QED
    BY <2>1
<1>7. ASSUME NEW m \in 1 .. n PROVE F[m] = op[<<F[m - 1], m>>]
  <2>1. m - 1 \in 0 .. n
    OBVIOUS
  <2>2. F[m - 1] \in V
    BY <1>5, <2>1
  <2> QED
    BY <1>2, <2>2
<1>8. F[n] = fold[1 .. n]
  OBVIOUS
<1> QED
  BY <1>1, <1>6, <1>7, <1>8 DEF Unfolds

-----------------------------------------------------------------------------
(* Sequences of sequences, one after the other *)

Chained(s, t) == s \o t

LEMMA ChainedType ==
    ASSUME NEW S, NEW s \in Seq(S), NEW t \in Seq(S)
    PROVE  Chained(s, t) \in Seq(S) /\ Chained(<<>>, t) = t
  BY DEF Chained

\* F[m] is the first m members of seqs, one after the other, for m up to n.
Flattens(F, seqs, n) ==
    F[0] = <<>> /\ \A m \in 1 .. n : F[m] = Chained(F[m - 1], seqs[m])

LEMMA FlattensExtends ==
    ASSUME NEW S, NEW seqs \in Seq(Seq(S)), NEW m \in 0 .. Len(seqs), m < Len(seqs),
           NEW F \in [0 .. m -> Seq(S)], Flattens(F, seqs, m)
    PROVE  \E G \in [0 .. m + 1 -> Seq(S)] : Flattens(G, seqs, m + 1)
<1> DEFINE next == Chained(F[m], seqs[m + 1])
           G == [i \in 0 .. m + 1 |-> IF i = m + 1 THEN next ELSE F[i]]
<1>1. next \in Seq(S)
  BY ChainedType
<1> HIDE DEF next
<1>2. G \in [0 .. m + 1 -> Seq(S)]
  BY <1>1
<1>3. ASSUME NEW i \in 1 .. m + 1 PROVE G[i] = Chained(G[i - 1], seqs[i])
  <2>1. i - 1 \in 0 .. m /\ i - 1 \in 0 .. m + 1 /\ i - 1 # m + 1
    OBVIOUS
  <2>2. G[i - 1] = F[i - 1]
    BY <2>1
  <2>3. CASE i = m + 1
    <3>1. G[i] = next /\ i - 1 = m
      BY <2>3
    <3> QED
      BY <2>2, <2>3, <3>1 DEF next
  <2>4. CASE i # m + 1
    <3>1. i \in 1 .. m /\ G[i] = F[i]
      BY <2>4
    <3>2. F[i] = Chained(F[i - 1], seqs[i])
      BY <3>1 DEF Flattens
    <3> QED
      BY <2>2, <3>1, <3>2
  <2> QED
    BY <2>3, <2>4
<1>4. G[0] = <<>>
  BY DEF Flattens
<1> QED
  BY <1>2, <1>3, <1>4 DEF Flattens

LEMMA FlattensExists ==
    ASSUME NEW S, NEW seqs \in Seq(Seq(S))
    PROVE  \E F \in [0 .. Len(seqs) -> Seq(S)] : Flattens(F, seqs, Len(seqs))
<1> DEFINE n == Len(seqs)
           P == {m \in 0 .. n : \E F \in [0 .. m -> Seq(S)] : Flattens(F, seqs, m)}
<1>1. 0 \in P
  <2>1. \E F \in [0 .. 0 -> Seq(S)] : Flattens(F, seqs, 0)
    <3> DEFINE F == [i \in 0 .. 0 |-> <<>>]
    <3>1. F \in [0 .. 0 -> Seq(S)] /\ Flattens(F, seqs, 0)
      BY DEF Flattens
    <3> HIDE DEF F
    <3> QED
      BY <3>1
  <2>2. 0 \in 0 .. n
    OBVIOUS
  <2> QED
    BY <2>1, <2>2
<1>2. ASSUME NEW m \in 0 .. n, m \in P, m < n PROVE m + 1 \in P
  <2>1. PICK F \in [0 .. m -> Seq(S)] : Flattens(F, seqs, m)
    BY <1>2
  <2>2. m < Len(seqs) /\ m \in 0 .. Len(seqs) /\ m + 1 \in 0 .. n
    BY <1>2
  <2>3. \E G \in [0 .. m + 1 -> Seq(S)] : Flattens(G, seqs, m + 1)
    BY <2>1, <2>2, FlattensExtends
  <2> QED
    BY <2>2, <2>3
<1>3. n \in P
  <2>1. n \in Nat /\ n \in 0 .. n
    OBVIOUS
  <2> HIDE DEF P, n
  <2> QED
    BY <1>1, <1>2, <2>1, Induction
<1> QED
  BY <1>3

LEMMA FlattensUnique ==
    ASSUME NEW seqs, NEW k \in Nat, NEW F, NEW G,
           Flattens(F, seqs, k), Flattens(G, seqs, k)
    PROVE  G[k] = F[k]
<1> DEFINE P == {m \in 0 .. k : G[m] = F[m]}
<1>1. 0 \in P
  BY DEF Flattens
<1>2. ASSUME NEW m \in 0 .. k, m \in P, m < k PROVE m + 1 \in P
  <2>1. PICK i \in 1 .. k : i = m + 1 /\ i - 1 = m
    BY <1>2
  <2>2. G[i] = Chained(G[m], seqs[i]) /\ F[i] = Chained(F[m], seqs[i])
    BY <2>1 DEF Flattens
  <2>3. G[m] = F[m]
    BY <1>2
  <2>4. G[i] = F[i]
    BY <2>2, <2>3
  <2> QED
    BY <2>1, <2>4
<1>3. k \in P
  <2>1. k \in 0 .. k
    OBVIOUS
  <2> HIDE DEF P
  <2> QED
    BY <1>1, <1>2, <2>1, Induction
<1> QED
  BY <1>3

\* FlattenSeq is the last of these.
LEMMA FlattenIsLast ==
    ASSUME NEW S, NEW seqs \in Seq(Seq(S)),
           NEW F \in [0 .. Len(seqs) -> Seq(S)], Flattens(F, seqs, Len(seqs))
    PROVE  FlattenSeq(seqs) = F[Len(seqs)]
<1>1. CASE Len(seqs) = 0
  <2>1. seqs = <<>>
    BY <1>1
  <2> QED
    BY <1>1, <2>1 DEF Flattens, FlattenSeq
<1>2. CASE Len(seqs) # 0
  <2> DEFINE n == Len(seqs)
             Body(f) == [i \in 1 .. n |-> IF i = 1 THEN seqs[i] ELSE Chained(f[i - 1], seqs[i])]
             flatten == CHOOSE f : f = Body(f)
             H == [i \in 1 .. n |-> F[i]]
  <2>1. FlattenSeq(seqs) = flatten[n]
    BY <1>2 DEF FlattenSeq, Chained
  <2>2. H = Body(H)
    <3>1. ASSUME NEW i \in 1 .. n
          PROVE  H[i] = IF i = 1 THEN seqs[i] ELSE Chained(H[i - 1], seqs[i])
      <4>1. F[i] = Chained(F[i - 1], seqs[i]) /\ F[0] = <<>> /\ seqs[i] \in Seq(S)
        BY DEF Flattens
      <4>2. CASE i = 1
        BY <4>1, <4>2, ChainedType
      <4>3. CASE i # 1
        <5>1. i - 1 \in 1 .. n
          BY <4>3
        <5> QED
          BY <4>1, <4>3, <5>1
      <4> QED
        BY <4>2, <4>3
    <3> QED
      BY <3>1
  <2>3. flatten = Body(flatten)
    BY <2>2
  <2> DEFINE G == [i \in 0 .. n |-> IF i = 0 THEN <<>> ELSE flatten[i]]
  <2>4. ASSUME NEW m \in 1 .. n PROVE G[m] = Chained(G[m - 1], seqs[m])
    <3>1. flatten[m] = IF m = 1 THEN seqs[m] ELSE Chained(flatten[m - 1], seqs[m])
      BY <2>3
    <3>2. G[m] = flatten[m]
      OBVIOUS
    <3>3. CASE m = 1
      <4>1. G[m - 1] = <<>> /\ seqs[m] \in Seq(S)
        BY <3>3
      <4> QED
        BY <3>1, <3>2, <3>3, <4>1, ChainedType
    <3>4. CASE m # 1
      <4>1. m - 1 \in 1 .. n /\ m - 1 # 0
        BY <3>4
      <4>2. G[m - 1] = flatten[m - 1]
        BY <4>1
      <4> QED
        BY <3>1, <3>2, <3>4, <4>2
    <3> QED
      BY <3>3, <3>4
  <2>5. G[n] = F[n]
    <3>1. n \in Nat /\ G[0] = <<>>
      OBVIOUS
    <3> HIDE DEF G
    <3>2. Flattens(G, seqs, n)
      BY <2>4, <3>1 DEF Flattens
    <3> QED
      BY <3>1, <3>2, FlattensUnique
  <2>6. G[n] = flatten[n]
    BY <1>2
  <2> QED
    BY <2>1, <2>5, <2>6
<1> QED
  BY <1>1, <1>2

LEMMA FlattenType ==
    ASSUME NEW S, NEW seqs \in Seq(Seq(S))
    PROVE  FlattenSeq(seqs) \in Seq(S)
<1>1. PICK F \in [0 .. Len(seqs) -> Seq(S)] : Flattens(F, seqs, Len(seqs))
  BY FlattensExists
<1>2. FlattenSeq(seqs) = F[Len(seqs)]
  BY <1>1, FlattenIsLast
<1> QED
  BY <1>2

LEMMA FlattenEmpty == FlattenSeq(<<>>) = <<>>
  BY DEF FlattenSeq

LEMMA FlattenAppend ==
    ASSUME NEW S, NEW seqs \in Seq(Seq(S)), NEW s \in Seq(S)
    PROVE  FlattenSeq(Append(seqs, s)) = FlattenSeq(seqs) \o s
<1> DEFINE n == Len(seqs)
           all == Append(seqs, s)
<1>1. all \in Seq(Seq(S)) /\ Len(all) = n + 1 /\ all[n + 1] = s /\ n \in Nat
      /\ \A m \in 1 .. n : all[m] = seqs[m]
  OBVIOUS
<1> HIDE DEF all, n
<1>2. PICK F \in [0 .. Len(all) -> Seq(S)] : Flattens(F, all, Len(all))
  BY <1>1, FlattensExists
<1>3. PICK G \in [0 .. n -> Seq(S)] : Flattens(G, seqs, n)
  BY FlattensExists DEF n
<1>4. F[n + 1] = Chained(F[n], s)
  <2>1. PICK k \in 1 .. Len(all) : k = n + 1 /\ k - 1 = n
    BY <1>1
  <2>2. F[k] = Chained(F[k - 1], all[k])
    BY <1>2 DEF Flattens
  <2> QED
    BY <1>1, <2>1, <2>2
<1>5. F[n] = G[n]
  <2>1. Flattens(F, seqs, n)
    <3>1. ASSUME NEW m \in 1 .. n PROVE F[m] = Chained(F[m - 1], seqs[m])
      <4>1. m \in 1 .. Len(all)
        BY <1>1
      <4> QED
        BY <1>1, <1>2, <4>1 DEF Flattens
    <3> QED
      BY <1>2, <3>1 DEF Flattens
  <2> QED
    BY <1>1, <1>3, <2>1, FlattensUnique
<1>6. FlattenSeq(all) = F[n + 1]
  BY <1>1, <1>2, FlattenIsLast
<1>7. FlattenSeq(seqs) = G[n]
  BY <1>3, FlattenIsLast DEF n
<1> QED
  BY <1>4, <1>5, <1>6, <1>7 DEF all, Chained

LEMMA ConcatLaws ==
    ASSUME NEW S, NEW s \in Seq(S), NEW t \in Seq(S), NEW u \in Seq(S)
    PROVE  (s \o t) \o u = s \o (t \o u) /\ s \o t \in Seq(S) /\ <<>> \o s = s /\ s \o <<>> = s
  OBVIOUS

\* t begins with s.
Begins(S, s, t) == \E u \in Seq(S) : t = s \o u

LEMMA BeginsItself ==
    ASSUME NEW S, NEW s \in Seq(S)
    PROVE  Begins(S, s, s)
<1>1. s = s \o <<>> /\ <<>> \in Seq(S)
  BY ConcatLaws
<1> QED
  BY <1>1 DEF Begins

LEMMA BeginsLonger ==
    ASSUME NEW S, NEW s \in Seq(S), NEW t \in Seq(S), NEW u \in Seq(S), Begins(S, s, t)
    PROVE  Begins(S, s, t \o u)
<1>1. PICK v \in Seq(S) : t = s \o v
  BY DEF Begins
<1>2. t \o u = s \o (v \o u) /\ v \o u \in Seq(S)
  BY <1>1, ConcatLaws
<1> QED
  BY <1>2 DEF Begins

LEMMA BeginsTransitive ==
    ASSUME NEW S, NEW s \in Seq(S), NEW t \in Seq(S), NEW u, Begins(S, s, t), Begins(S, t, u)
    PROVE  Begins(S, s, u) /\ u \in Seq(S)
<1>1. PICK v \in Seq(S) : u = t \o v
  BY DEF Begins
<1>2. u \in Seq(S)
  BY <1>1, ConcatLaws
<1> QED
  BY <1>1, <1>2, BeginsLonger

LEMMA FlattensGrows ==
    ASSUME NEW S, NEW n \in Nat, NEW seqs \in [1 .. n -> Seq(S)],
           NEW F \in [0 .. n -> Seq(S)], Flattens(F, seqs, n), NEW k \in 0 .. n
    PROVE  Begins(S, F[k], F[n])
<1> DEFINE P == {m \in 0 .. n : m >= k => Begins(S, F[k], F[m])}
<1>1. Begins(S, F[k], F[k])
  BY BeginsItself
<1>2. 0 \in P
  <2>1. 0 >= k => k = 0
    OBVIOUS
  <2>2. 0 \in 0 .. n
    OBVIOUS
  <2> QED
    BY <1>1, <2>1, <2>2
<1>3. ASSUME NEW m \in 0 .. n, m \in P, m < n PROVE m + 1 \in P
  <2>1. PICK i \in 1 .. n : i = m + 1 /\ i - 1 = m
    BY <1>3
  <2>2. CASE i < k
    BY <2>1, <2>2
  <2>3. CASE i = k
    BY <1>1, <2>1, <2>3
  <2>4. CASE i > k
    <3>1. Begins(S, F[k], F[m])
      BY <1>3, <2>1, <2>4
    <3>2. F[i] = F[m] \o seqs[i]
      BY <2>1 DEF Flattens, Chained
    <3>3. F[k] \in Seq(S) /\ F[m] \in Seq(S) /\ seqs[i] \in Seq(S)
      OBVIOUS
    <3>4. Begins(S, F[k], F[i])
      BY <3>1, <3>2, <3>3, BeginsLonger
    <3> QED
      BY <2>1, <3>4
  <2> QED
    BY <2>1, <2>2, <2>3, <2>4
<1>4. n \in P
  <2>1. n \in 0 .. n
    OBVIOUS
  <2> HIDE DEF P
  <2> QED
    BY <1>2, <1>3, <2>1, Induction
<1>5. n >= k
  OBVIOUS
<1> QED
  BY <1>4, <1>5

\* The first members of a sequence, one after the other, begin all of them.
LEMMA FlattenGrows ==
    ASSUME NEW S, NEW n \in Nat, NEW s, \A i \in 1 .. n : s[i] \in Seq(S), NEW k \in 0 .. n
    PROVE  Begins(S, FlattenSeq([i \in 1 .. k |-> s[i]]), FlattenSeq([i \in 1 .. n |-> s[i]]))
<1> DEFINE all == [i \in 1 .. n |-> s[i]]
           some == [i \in 1 .. k |-> s[i]]
<1>1. /\ all \in Seq(Seq(S)) /\ Len(all) = n /\ all \in [1 .. n -> Seq(S)]
      /\ some \in Seq(Seq(S)) /\ Len(some) = k /\ k \in Nat
      /\ \A i \in 1 .. k : some[i] = all[i]
  OBVIOUS
<1> HIDE DEF all, some
<1>2. PICK F \in [0 .. n -> Seq(S)] : Flattens(F, all, n)
  BY <1>1, FlattensExists
<1>3. PICK G \in [0 .. k -> Seq(S)] : Flattens(G, some, k)
  BY <1>1, FlattensExists
<1>4. Flattens(F, some, k)
  BY <1>1, <1>2 DEF Flattens
<1>5. G[k] = F[k]
  <2>1. k \in Nat
    BY <1>1
  <2> QED
    BY <2>1, <1>3, <1>4, FlattensUnique
<1>6. FlattenSeq(all) = F[n] /\ FlattenSeq(some) = G[k]
  BY <1>1, <1>2, <1>3, FlattenIsLast
<1>7. Begins(S, F[k], F[n])
  BY <1>1, <1>2, FlattensGrows
<1> QED
  BY <1>5, <1>6, <1>7 DEF all, some

\* Induction over the positions of a sequence of sequences.
LEMMA FlattenPositions ==
    ASSUME NEW S, NEW n \in Nat, NEW s, \A i \in 1 .. n + 1 : s[i] \in Seq(S)
    PROVE  /\ FlattenSeq([i \in 1 .. 0 |-> s[i]]) = <<>>
           /\ FlattenSeq([i \in 1 .. n |-> s[i]]) \in Seq(S)
           /\ FlattenSeq([i \in 1 .. n + 1 |-> s[i]])
                = FlattenSeq([i \in 1 .. n |-> s[i]]) \o s[n + 1]
<1> DEFINE some == [i \in 1 .. n |-> s[i]]
           all == [i \in 1 .. n + 1 |-> s[i]]
<1>1. some \in Seq(Seq(S)) /\ s[n + 1] \in Seq(S)
  OBVIOUS
<1>2. all = Append(some, s[n + 1])
  OBVIOUS
<1>3. [i \in 1 .. 0 |-> s[i]] = <<>>
  OBVIOUS
<1> HIDE DEF some, all
<1>4. FlattenSeq(all) = FlattenSeq(some) \o s[n + 1]
  BY <1>1, <1>2, FlattenAppend
<1>5. FlattenSeq(some) \in Seq(S)
  BY <1>1, FlattenType
<1> QED
  BY <1>3, <1>4, <1>5, FlattenEmpty DEF some, all

-----------------------------------------------------------------------------
(* The members of a sequence *)

\* The members of two lists joined, of none, and of a list of lists.
LEMMA MembersOfConcat ==
    ASSUME NEW S, NEW s \in Seq(S), NEW t \in Seq(S)
    PROVE  ToSet(s \o t) = ToSet(s) \union ToSet(t) /\ ToSet(s) \subseteq S
<1>1. /\ s \o t \in Seq(S) /\ DOMAIN (s \o t) = 1 .. Len(s) + Len(t)
      /\ DOMAIN s = 1 .. Len(s) /\ DOMAIN t = 1 .. Len(t) /\ Len(s) \in Nat /\ Len(t) \in Nat
      /\ \A i \in 1 .. Len(s) : (s \o t)[i] = s[i]
      /\ \A i \in 1 .. Len(t) : (s \o t)[Len(s) + i] = t[i]
  OBVIOUS
<1> DEFINE all == s \o t
<1> HIDE DEF all
<1>2. ASSUME NEW i \in DOMAIN all PROVE all[i] \in ToSet(s) \union ToSet(t)
  <2>1. CASE i \in 1 .. Len(s)
    BY <1>1, <2>1 DEF ToSet, all
  <2>2. CASE i \notin 1 .. Len(s)
    <3>1. i - Len(s) \in 1 .. Len(t) /\ i = Len(s) + (i - Len(s))
      BY <1>1, <2>2 DEF all
    <3> QED
      BY <1>1, <3>1 DEF ToSet, all
  <2> QED
    BY <2>1, <2>2
<1>3. ASSUME NEW i \in DOMAIN s PROVE s[i] \in ToSet(all)
  BY <1>1 DEF ToSet, all
<1>4. ASSUME NEW i \in DOMAIN t PROVE t[i] \in ToSet(all)
  <2>1. Len(s) + i \in DOMAIN all /\ all[Len(s) + i] = t[i]
    BY <1>1 DEF all
  <2> QED
    BY <2>1 DEF ToSet
<1>5. ToSet(s) \subseteq S
  BY <1>1 DEF ToSet
<1>6. ToSet(all) = ToSet(s) \union ToSet(t)
  BY <1>2, <1>3, <1>4 DEF ToSet
<1> QED
  BY <1>5, <1>6 DEF all

LEMMA MembersOfNone == ToSet(<<>>) = {}
BY DEF ToSet

LEMMA MembersOfFlatten ==
    ASSUME NEW S, NEW n \in Nat, NEW s \in [1 .. n -> Seq(S)]
    PROVE  /\ FlattenSeq(s) \in Seq(S)
           /\ ToSet(FlattenSeq(s)) = UNION {ToSet(s[i]) : i \in 1 .. n}
<1> DEFINE Flat(m) == FlattenSeq([i \in 1 .. m |-> s[i]])
           Of(m) == UNION {ToSet(s[i]) : i \in 1 .. m}
           P == {m \in 0 .. n : Flat(m) \in Seq(S) /\ ToSet(Flat(m)) = Of(m)}
<1>1. 0 \in P
  <2> DEFINE none == [i \in 1 .. 0 |-> s[i]]
  <2>1. none = <<>>
    OBVIOUS
  <2> HIDE DEF none
  <2>2. FlattenSeq(none) = <<>>
    BY <2>1, FlattenEmpty
  <2>3. Flat(0) = <<>>
    BY <2>2 DEF none
  <2>4. Of(0) = {}
    OBVIOUS
  <2> HIDE DEF Flat, Of
  <2>5. Flat(0) \in Seq(S) /\ ToSet(Flat(0)) = Of(0)
    <3>1. Flat(0) \in Seq(S)
      <4>1. <<>> \in Seq(S)
        OBVIOUS
      <4> QED
        BY <2>3, <4>1, Zenon
    <3>2. ToSet(Flat(0)) = ToSet(<<>>)
      BY <2>3, Zenon
    <3> QED
      BY <2>4, <3>1, <3>2, MembersOfNone
  <2> QED
    BY <2>5
<1>2. ASSUME NEW m \in 0 .. n, m \in P, m < n PROVE m + 1 \in P
  <2>1. m \in Nat /\ m + 1 \in 0 .. n /\ m + 1 \in 1 .. n /\ \A i \in 1 .. m + 1 : s[i] \in Seq(S)
    BY <1>2
  <2>2. Flat(m) \in Seq(S) /\ Flat(m + 1) = Flat(m) \o s[m + 1]
    BY <2>1, FlattenPositions
  <2>3. 1 .. m + 1 = (1 .. m) \union {m + 1}
    BY <2>1
  <2>4. Of(m + 1) = Of(m) \union ToSet(s[m + 1])
    BY <2>3
  <2>5. ToSet(Flat(m)) = Of(m)
    BY <1>2
  <2> HIDE DEF Flat, Of
  <2>6. PICK a \in Seq(S), b \in Seq(S) : a = Flat(m) /\ b = s[m + 1]
    BY <2>1, <2>2
  <2>7. a \o b \in Seq(S) /\ ToSet(a \o b) = ToSet(a) \union ToSet(b)
    BY MembersOfConcat, ConcatLaws
  <2>8. ToSet(Flat(m + 1)) = Of(m + 1) /\ Flat(m + 1) \in Seq(S)
    BY <2>2, <2>4, <2>5, <2>6, <2>7
  <2> QED
    BY <2>1, <2>8
<1>3. n \in P
  <2> HIDE DEF P
  <2> DEFINE Q == P
  <2>1. 0 \in Q /\ \A m \in 0 .. n : m \in Q /\ m < n => m + 1 \in Q
    BY <1>1, <1>2
  <2> HIDE DEF Q
  <2>2. \A m \in 0 .. n : m \in Q
    BY <2>1, Induction
  <2> QED
    BY <2>2 DEF Q
<1>4. s = [i \in 1 .. n |-> s[i]]
  OBVIOUS
<1>5. Flat(n) \in Seq(S) /\ ToSet(Flat(n)) = Of(n)
  BY <1>3 DEF P
<1> QED
  BY <1>4, <1>5

\* Lists without repetition, joined.
LEMMA DistinctConcat ==
    ASSUME NEW S, NEW s \in Seq(S), NEW t \in Seq(S), IsInjective(s), IsInjective(t),
           ToSet(s) \intersect ToSet(t) = {}
    PROVE  IsInjective(s \o t)
<1> DEFINE all == s \o t
           n == Len(s)
<1>1. /\ DOMAIN all = 1 .. n + Len(t) /\ DOMAIN s = 1 .. n /\ DOMAIN t = 1 .. Len(t)
      /\ n \in Nat /\ Len(t) \in Nat
      /\ \A i \in 1 .. n : all[i] = s[i]
      /\ \A i \in 1 .. Len(t) : all[n + i] = t[i]
  OBVIOUS
<1> HIDE DEF all, n
<1>2. ASSUME NEW i \in DOMAIN all
      PROVE  \/ i \in 1 .. n /\ all[i] = s[i] /\ all[i] \in ToSet(s)
             \/ i - n \in 1 .. Len(t) /\ all[i] = t[i - n] /\ all[i] \in ToSet(t)
  <2>1. CASE i \in 1 .. n
    BY <1>1, <2>1 DEF ToSet
  <2>2. CASE i \notin 1 .. n
    <3>1. i - n \in 1 .. Len(t) /\ i = n + (i - n)
      BY <1>1, <2>2
    <3> QED
      BY <1>1, <3>1 DEF ToSet
  <2> QED
    BY <2>1, <2>2
<1>3. ASSUME NEW i \in DOMAIN all, NEW j \in DOMAIN all, all[i] = all[j] PROVE i = j
  <2>1. CASE i \in 1 .. n /\ j \in 1 .. n
    BY <1>1, <1>3, <2>1 DEF IsInjective
  <2>2. CASE i \notin 1 .. n /\ j \notin 1 .. n
    <3>1. i - n \in 1 .. Len(t) /\ j - n \in 1 .. Len(t) /\ t[i - n] = t[j - n]
      BY <1>2, <1>3, <2>2
    <3>2. i - n = j - n /\ i \in Int /\ j \in Int
      BY <1>1, <3>1 DEF IsInjective
    <3> QED
      BY <1>1, <3>2
  <2>3. CASE i \in 1 .. n <=> j \notin 1 .. n
    <3>1. \A k \in DOMAIN all : k \in 1 .. n => k - n \notin 1 .. Len(t)
      BY <1>1
    <3> QED
      BY <1>2, <1>3, <2>3, <3>1
  <2> QED
    BY <2>1, <2>2, <2>3
<1> QED
  BY <1>3 DEF IsInjective, all

LEMMA MembersOfFirst ==
    ASSUME NEW S, NEW m \in Nat, NEW s, \A i \in 1 .. m : s[i] \in Seq(S)
    PROVE  ToSet(FlattenSeq([i \in 1 .. m |-> s[i]])) = UNION {ToSet(s[i]) : i \in 1 .. m}
<1> DEFINE some == [i \in 1 .. m |-> s[i]]
<1>1. some \in [1 .. m -> Seq(S)] /\ \A i \in 1 .. m : some[i] = s[i]
  OBVIOUS
<1> HIDE DEF some
<1>2. ToSet(FlattenSeq(some)) = UNION {ToSet(some[i]) : i \in 1 .. m}
  BY <1>1, MembersOfFlatten
<1>3. UNION {ToSet(some[i]) : i \in 1 .. m} = UNION {ToSet(s[i]) : i \in 1 .. m}
  BY <1>1
<1> QED
  BY <1>2, <1>3 DEF some

LEMMA DistinctFlatten ==
    ASSUME NEW S, NEW n \in Nat, NEW s, \A i \in 1 .. n : s[i] \in Seq(S),
           \A i \in 1 .. n : IsInjective(s[i]),
           \A i, j \in 1 .. n : i # j => ToSet(s[i]) \intersect ToSet(s[j]) = {}
    PROVE  IsInjective(FlattenSeq([i \in 1 .. n |-> s[i]]))
<1> DEFINE Flat(m) == FlattenSeq([i \in 1 .. m |-> s[i]])
           P == {m \in 0 .. n : IsInjective(Flat(m))}
<1>1. 0 \in P
  <2>1. FlattenSeq([i \in 1 .. 0 |-> s[i]]) = <<>>
    <3> DEFINE none == [i \in 1 .. 0 |-> s[i]]
    <3>1. none = <<>>
      OBVIOUS
    <3> HIDE DEF none
    <3>2. FlattenSeq(none) = <<>>
      BY <3>1, FlattenEmpty
    <3> QED
      BY <3>2 DEF none
  <2>2. IsInjective(<<>>)
    BY DEF IsInjective
  <2>3. Flat(0) = <<>>
    BY <2>1
  <2> HIDE DEF Flat
  <2>4. IsInjective(Flat(0))
    BY <2>2, <2>3, Zenon
  <2> QED
    BY <2>4
<1>2. ASSUME NEW m \in 0 .. n, m \in P, m < n PROVE m + 1 \in P
  <2>1. m \in Nat /\ m + 1 \in 0 .. n /\ m + 1 \in 1 .. n /\ \A i \in 1 .. m + 1 : s[i] \in Seq(S)
    BY <1>2
  <2>2. Flat(m) \in Seq(S) /\ Flat(m + 1) = Flat(m) \o s[m + 1]
    BY <2>1, FlattenPositions
  <2>3. ToSet(Flat(m)) = UNION {ToSet(s[i]) : i \in 1 .. m}
    <3>1. \A i \in 1 .. m : s[i] \in Seq(S)
      BY <2>1
    <3>2. m \in Nat
      BY <2>1
    <3>3. ToSet(FlattenSeq([i \in 1 .. m |-> s[i]])) = UNION {ToSet(s[i]) : i \in 1 .. m}
      <4> HIDE DEF Flat
      <4> QED
        BY <3>2, <3>1, MembersOfFirst, SMT
    <3> QED
      BY <3>3
  <2>4. \A i \in 1 .. m : ToSet(s[i]) \intersect ToSet(s[m + 1]) = {}
    <3>1. \A i \in 1 .. m : i \in 1 .. n /\ i # m + 1
      BY <2>1
    <3> QED
      BY <2>1, <3>1
  <2>5. ToSet(Flat(m)) \intersect ToSet(s[m + 1]) = {}
    BY <2>3, <2>4
  <2>6. IsInjective(Flat(m)) /\ IsInjective(s[m + 1]) /\ s[m + 1] \in Seq(S)
    BY <1>2, <2>1
  <2> HIDE DEF Flat
  <2>7. IsInjective(Flat(m) \o s[m + 1])
    BY <2>2, <2>5, <2>6, DistinctConcat
  <2> QED
    BY <2>1, <2>2, <2>7
<1>3. n \in P
  <2> HIDE DEF P
  <2> DEFINE Q == P
  <2>1. 0 \in Q /\ \A m \in 0 .. n : m \in Q /\ m < n => m + 1 \in Q
    BY <1>1, <1>2
  <2> HIDE DEF Q
  <2>2. \A m \in 0 .. n : m \in Q
    BY <2>1, Induction
  <2> QED
    BY <2>2 DEF Q
<1> QED
  BY <1>3 DEF P

\* The members of a short list, element by element.
LEMMA MembersOfOne ==
    ASSUME NEW S, NEW a \in S
    PROVE  <<a>> \in Seq(S) /\ ToSet(<<a>>) = {a}
<1> DEFINE s == <<a>>
<1>1. DOMAIN s = 1 .. 1 /\ s \in Seq(S)
  OBVIOUS
<1>2. s[1] = a
  OBVIOUS
<1> HIDE DEF s
<1>3. 1 .. 1 = {1}
  OBVIOUS
<1>4. ToSet(s) = {a}
  BY <1>1, <1>2, <1>3 DEF ToSet
<1> QED
  BY <1>1, <1>4 DEF s

LEMMA MembersOfTwo ==
    ASSUME NEW S, NEW a \in S, NEW b \in S
    PROVE  <<a, b>> \in Seq(S) /\ ToSet(<<a, b>>) = {a, b}
<1> DEFINE s == <<a, b>>
<1>1. DOMAIN s = 1 .. 2 /\ s \in Seq(S)
  OBVIOUS
<1>2. s[1] = a /\ s[2] = b
  OBVIOUS
<1> HIDE DEF s
<1>3. 1 .. 2 = {1, 2}
  OBVIOUS
<1>4. ToSet(s) = {a, b}
  BY <1>1, <1>2, <1>3 DEF ToSet
<1> QED
  BY <1>1, <1>4 DEF s

LEMMA MembersOfThree ==
    ASSUME NEW S, NEW a \in S, NEW b \in S, NEW c \in S
    PROVE  <<a, b, c>> \in Seq(S) /\ ToSet(<<a, b, c>>) = {a, b, c}
<1> DEFINE s == <<a, b, c>>
<1>1. DOMAIN s = 1 .. 3 /\ s \in Seq(S)
  OBVIOUS
<1>2. s[1] = a /\ s[2] = b /\ s[3] = c
  OBVIOUS
<1> HIDE DEF s
<1>3. 1 .. 3 = {1, 2, 3}
  OBVIOUS
<1>4. ToSet(s) = {a, b, c}
  BY <1>1, <1>2, <1>3 DEF ToSet
<1> QED
  BY <1>1, <1>4 DEF s

LEMMA MembersOfSix ==
    ASSUME NEW S, NEW a \in S, NEW b \in S, NEW c \in S, NEW d \in S, NEW e \in S, NEW f \in S
    PROVE  <<a, b, c, d, e, f>> \in Seq(S) /\ ToSet(<<a, b, c, d, e, f>>) = {a, b, c, d, e, f}
<1> DEFINE s == <<a, b, c, d, e, f>>
<1>1. DOMAIN s = 1 .. 6 /\ s \in Seq(S)
  OBVIOUS
<1>2. s[1] = a /\ s[2] = b /\ s[3] = c /\ s[4] = d /\ s[5] = e /\ s[6] = f
  OBVIOUS
<1> HIDE DEF s
<1>3. 1 .. 6 = {1, 2, 3, 4, 5, 6}
  OBVIOUS
<1>4. ToSet(s) = {a, b, c, d, e, f}
  BY <1>1, <1>2, <1>3 DEF ToSet
<1> QED
  BY <1>1, <1>4 DEF s

-----------------------------------------------------------------------------
(* The beginnings of a sequence *)

LEMMA PrefixMeans ==
    ASSUME NEW S, NEW s \in Seq(S), NEW t \in Seq(S)
    PROVE  IsPrefix(s, t) <=> Len(s) <= Len(t) /\ \A i \in 1 .. Len(s) : s[i] = t[i]
<1>1. Len(s) \in Nat /\ Len(t) \in Nat /\ DOMAIN s = 1 .. Len(s) /\ DOMAIN t = 1 .. Len(t)
  OBVIOUS
<1>2. CASE ~(Len(s) <= Len(t))
  BY <1>2 DEF IsPrefix
<1>3. CASE Len(s) <= Len(t)
  <2>1. SubSeq(s, 1, Len(s)) = s
    BY <1>1
  <2>2. SubSeq(t, 1, Len(s)) = [i \in 1 .. Len(s) |-> t[i]]
    BY <1>1, <1>3
  <2>3. s = [i \in 1 .. Len(s) |-> s[i]]
    BY <1>1
  <2> QED
    BY <1>3, <2>1, <2>2, <2>3 DEF IsPrefix
<1> QED
  BY <1>2, <1>3

LEMMA PrefixItself ==
    ASSUME NEW S, NEW s \in Seq(S)
    PROVE  IsPrefix(s, s) /\ IsPrefix(<<>>, s)
<1> DEFINE none == <<>>
<1>1. none \in Seq(S) /\ Len(none) = 0 /\ Len(s) \in Nat
  OBVIOUS
<1> HIDE DEF none
<1>2. IsPrefix(s, s)
  BY <1>1, PrefixMeans
<1>3. Len(none) <= Len(s) /\ \A i \in 1 .. Len(none) : none[i] = s[i]
  BY <1>1
<1>4. IsPrefix(none, s)
  BY <1>1, <1>3, PrefixMeans
<1> QED
  BY <1>2, <1>4 DEF none

LEMMA PrefixTransitive ==
    ASSUME NEW S, NEW s \in Seq(S), NEW t \in Seq(S), NEW u \in Seq(S),
           IsPrefix(s, t), IsPrefix(t, u)
    PROVE  IsPrefix(s, u)
<1>1. Len(s) \in Nat /\ Len(t) \in Nat /\ Len(u) \in Nat
  OBVIOUS
<1>2. Len(s) <= Len(t) /\ \A i \in 1 .. Len(s) : s[i] = t[i]
  BY PrefixMeans
<1>3. Len(t) <= Len(u) /\ \A i \in 1 .. Len(t) : t[i] = u[i]
  BY PrefixMeans
<1> QED
  BY <1>1, <1>2, <1>3, PrefixMeans

\* Of two beginnings of a sequence the shorter one begins the other.
LEMMA PrefixesCompare ==
    ASSUME NEW S, NEW s \in Seq(S), NEW t \in Seq(S), NEW u \in Seq(S),
           IsPrefix(s, u), IsPrefix(t, u), Len(s) <= Len(t)
    PROVE  IsPrefix(s, t) /\ (Len(s) = Len(t) => s = t)
<1>1. Len(s) \in Nat /\ Len(t) \in Nat /\ Len(u) \in Nat
      /\ DOMAIN s = 1 .. Len(s) /\ DOMAIN t = 1 .. Len(t)
  OBVIOUS
<1>2. Len(s) <= Len(u) /\ \A i \in 1 .. Len(s) : s[i] = u[i]
  BY PrefixMeans
<1>3. Len(t) <= Len(u) /\ \A i \in 1 .. Len(t) : t[i] = u[i]
  BY PrefixMeans
<1>4. IsPrefix(s, t)
  BY <1>1, <1>2, <1>3, PrefixMeans
<1>5. ASSUME Len(s) = Len(t) PROVE s = t
  <2>1. \A i \in 1 .. Len(s) : s[i] = t[i]
    BY <1>1, <1>2, <1>3, <1>5
  <2>2. s = [i \in 1 .. Len(s) |-> s[i]] /\ t = [i \in 1 .. Len(t) |-> t[i]]
    BY <1>1
  <2> QED
    BY <1>5, <2>1, <2>2
<1> QED
  BY <1>4, <1>5

LEMMA PrefixShorter ==
    ASSUME NEW S, NEW s \in Seq(S), NEW t \in Seq(S), IsPrefix(s, t), s # t
    PROVE  Len(s) < Len(t)
<1>1. Len(s) \in Nat /\ Len(t) \in Nat /\ Len(s) <= Len(t) /\ IsPrefix(t, t)
  BY PrefixMeans, PrefixItself
<1>2. Len(s) # Len(t)
  BY <1>1, PrefixesCompare
<1> QED
  BY <1>1, <1>2

\* The first n members of a sequence.
LEMMA PrefixOfLength ==
    ASSUME NEW S, NEW s \in Seq(S), NEW n \in 0 .. Len(s)
    PROVE  /\ SubSeq(s, 1, n) \in Seq(S) /\ Len(SubSeq(s, 1, n)) = n
           /\ \A i \in 1 .. n : SubSeq(s, 1, n)[i] = s[i]
           /\ IsPrefix(SubSeq(s, 1, n), s)
<1>1. Len(s) \in Nat /\ DOMAIN s = 1 .. Len(s)
  OBVIOUS
<1>2. SubSeq(s, 1, n) \in Seq(S) /\ Len(SubSeq(s, 1, n)) = n
  BY <1>1
<1>3. \A i \in 1 .. n : SubSeq(s, 1, n)[i] = s[i]
  BY <1>1
<1> DEFINE t == SubSeq(s, 1, n)
<1>4. t \in Seq(S) /\ Len(t) = n /\ \A i \in 1 .. n : t[i] = s[i]
  BY <1>2, <1>3
<1> HIDE DEF t
<1>5. IsPrefix(t, s)
  BY <1>1, <1>4, PrefixMeans
<1> QED
  BY <1>2, <1>3, <1>5 DEF t

LEMMA PrefixIsFirst ==
    ASSUME NEW S, NEW s \in Seq(S), NEW t \in Seq(S), IsPrefix(s, t)
    PROVE  Len(s) \in 0 .. Len(t) /\ SubSeq(t, 1, Len(s)) = s
<1>1. Len(s) \in 0 .. Len(t)
  BY PrefixMeans
<1>2. /\ SubSeq(t, 1, Len(s)) \in Seq(S) /\ Len(SubSeq(t, 1, Len(s))) = Len(s)
      /\ IsPrefix(SubSeq(t, 1, Len(s)), t)
  BY <1>1, PrefixOfLength
<1> DEFINE u == SubSeq(t, 1, Len(s))
<1>3. u \in Seq(S) /\ Len(u) = Len(s) /\ IsPrefix(u, t) /\ Len(s) \in Nat
  BY <1>1, <1>2
<1> HIDE DEF u
<1>4. s = u
  BY <1>3, PrefixesCompare
<1> QED
  BY <1>1, <1>4 DEF u
-----------------------------------------------------------------------------
(* Finite sets and sums over them *)

\* Induction over the subsets of a finite set, for the set of those with a property.
LEMMA SetInduction ==
    ASSUME NEW U, IsFiniteSet(U), NEW P, {} \in P,
           \A T \in SUBSET U : T # {} /\ (\A x \in T : T \ {x} \in P) => T \in P
    PROVE  \A T \in SUBSET U : T \in P
<1> SUFFICES ASSUME NEW S \in SUBSET U, S \notin P PROVE FALSE
  OBVIOUS
<1> DEFINE Without == {T \in SUBSET U : T \notin P}
<1>1. Without \in SUBSET FiniteSubsetsOf(U) /\ Without # {}
  BY FS_Subset DEF FiniteSubsetsOf
<1>2. PICK T \in Without : \A R \in Without : <<R, T>> \notin StrictSubsetOrdering(U)
  <2> HIDE DEF Without
  <2>1. IsWellFoundedOn(StrictSubsetOrdering(U), FiniteSubsetsOf(U))
    BY FS_StrictSubsetOrderingWellFounded
  <2> QED
    BY <1>1, <2>1, WFMin
<1>3. ASSUME NEW x \in T PROVE T \ {x} \in P
  <2>1. T \ {x} \in SUBSET U /\ T \ {x} # T
    BY <1>3
  <2>2. <<T \ {x}, T>> \in StrictSubsetOrdering(U)
    BY <2>1 DEF StrictSubsetOrdering
  <2> QED
    BY <1>2, <2>1, <2>2
<1> QED
  BY <1>2, <1>3

\* sum adds f up over the subsets of U, whichever member is taken first.
SumsOver(sum, U, f) ==
    /\ sum[{}] = 0
    /\ \A S \in SUBSET U : \A x \in S : sum[S] = f[x] + sum[S \ {x}]

LEMMA SumsExtend ==
    ASSUME NEW U, NEW f \in [U -> Nat], NEW T \in SUBSET U, NEW a \in T,
           NEW sum \in [SUBSET (T \ {a}) -> Nat], SumsOver(sum, T \ {a}, f)
    PROVE  \E more \in [SUBSET T -> Nat] : SumsOver(more, T, f)
<1> DEFINE more == [S \in SUBSET T |-> IF a \in S THEN f[a] + sum[S \ {a}] ELSE sum[S]]
<1>1. ASSUME NEW S \in SUBSET T PROVE S \ {a} \in SUBSET (T \ {a}) /\ more[S] \in Nat
  <2>1. S \ {a} \in SUBSET (T \ {a}) /\ f[a] \in Nat
    OBVIOUS
  <2>2. CASE a \in S
    <3>1. sum[S \ {a}] \in Nat
      BY <2>1
    <3> QED
      BY <2>1, <2>2, <3>1
  <2>3. CASE a \notin S
    <3>1. S \in SUBSET (T \ {a})
      BY <2>3
    <3> QED
      BY <2>1, <2>3, <3>1
  <2> QED
    BY <2>1, <2>2, <2>3
<1>2. more[{}] = 0
  BY DEF SumsOver
<1>3. ASSUME NEW S \in SUBSET T, NEW x \in S PROVE more[S] = f[x] + more[S \ {x}]
  <2>1. S \ {x} \in SUBSET T
    OBVIOUS
  <2>2. CASE x = a
    <3>1. more[S] = f[a] + sum[S \ {a}] /\ more[S \ {x}] = sum[S \ {a}]
      BY <2>1, <2>2
    <3> QED
      BY <2>2, <3>1
  <2>3. CASE x # a /\ a \in S
    <3> PICK R : R = S \ {a}
      OBVIOUS
    <3>1. R \in SUBSET (T \ {a}) /\ x \in R /\ (S \ {x}) \ {a} = R \ {x} /\ a \in S \ {x}
      BY <2>3
    <3>2. sum[R] = f[x] + sum[R \ {x}]
      BY <3>1 DEF SumsOver
    <3>3. more[S] = f[a] + sum[R] /\ more[S \ {x}] = f[a] + sum[R \ {x}]
      BY <2>1, <2>3, <3>1
    <3>4. f[a] \in Nat /\ f[x] \in Nat /\ sum[R \ {x}] \in Nat
      <4>1. R \ {x} \in SUBSET (T \ {a})
        BY <3>1
      <4> QED
        BY <4>1
    <3> QED
      BY <3>2, <3>3, <3>4
  <2>4. CASE a \notin S
    <3>1. S \in SUBSET (T \ {a})
      BY <2>4
    <3>2. sum[S] = f[x] + sum[S \ {x}]
      BY <3>1 DEF SumsOver
    <3> QED
      BY <2>1, <2>4, <3>2
  <2> QED
    BY <2>2, <2>3, <2>4
<1>4. more \in [SUBSET T -> Nat]
  BY <1>1
<1> HIDE DEF more
<1>5. SumsOver(more, T, f)
  BY <1>2, <1>3 DEF SumsOver
<1> QED
  BY <1>4, <1>5

LEMMA SumsExist ==
    ASSUME NEW U, IsFiniteSet(U), NEW f \in [U -> Nat]
    PROVE  \E sum \in [SUBSET U -> Nat] : SumsOver(sum, U, f)
<1> DEFINE P == {T \in SUBSET U : \E sum \in [SUBSET T -> Nat] : SumsOver(sum, T, f)}
<1>1. {} \in P
  <2> DEFINE sum == [S \in SUBSET {} |-> 0]
  <2>1. sum \in [SUBSET {} -> Nat] /\ sum[{}] = 0
    OBVIOUS
  <2> HIDE DEF sum
  <2>2. SumsOver(sum, {}, f)
    BY <2>1 DEF SumsOver
  <2> QED
    BY <2>1, <2>2
<1>2. ASSUME NEW T \in SUBSET U, T # {}, \A x \in T : T \ {x} \in P PROVE T \in P
  <2> PICK x \in T : TRUE
    BY <1>2
  <2>1. PICK sum \in [SUBSET (T \ {x}) -> Nat] : SumsOver(sum, T \ {x}, f)
    BY <1>2
  <2>2. \E more \in [SUBSET T -> Nat] : SumsOver(more, T, f)
    BY <2>1, SumsExtend
  <2> QED
    BY <2>2
<1>3. U \in P
  <2>1. U \in SUBSET U
    OBVIOUS
  <2> HIDE DEF P
  <2> QED
    BY <1>1, <1>2, <2>1, SetInduction
<1> QED
  BY <1>3

\* MapThenSumSet takes some member first.
SumStep(sum, U, f) ==
    [S \in SUBSET U |->
        IF S = {} THEN 0
        ELSE f[CHOOSE x \in S : TRUE] + sum[S \ {CHOOSE x \in S : TRUE}]]

LEMMA SumStepMeans ==
    ASSUME NEW U, IsFiniteSet(U), NEW f \in [U -> Nat], NEW S \in SUBSET U,
           NEW all \in [SUBSET U -> Nat], SumsOver(all, U, f)
    PROVE  /\ \E sum : sum = SumStep(sum, S, f)
           /\ \A sum : sum = SumStep(sum, S, f) => sum[S] = all[S]
<1>1. \E sum : sum = SumStep(sum, S, f)
  <2> DEFINE sum == [T \in SUBSET S |-> all[T]]
  <2>1. ASSUME NEW T \in SUBSET S
        PROVE  sum[T] = IF T = {} THEN 0
                        ELSE f[CHOOSE x \in T : TRUE] + sum[T \ {CHOOSE x \in T : TRUE}]
    <3>1. CASE T = {}
      BY <3>1 DEF SumsOver
    <3>2. CASE T # {}
      <4> PICK x : x = CHOOSE y \in T : TRUE
        OBVIOUS
      <4>1. x \in T
        BY <3>2
      <4>2. T \in SUBSET U /\ T \ {x} \in SUBSET S
        OBVIOUS
      <4>3. all[T] = f[x] + all[T \ {x}]
        BY <4>1, <4>2 DEF SumsOver
      <4> QED
        BY <3>2, <4>2, <4>3
    <3> QED
      BY <3>1, <3>2
  <2>2. sum = SumStep(sum, S, f)
    BY <2>1 DEF SumStep
  <2> QED
    BY <2>2
<1>2. ASSUME NEW sum, sum = SumStep(sum, S, f) PROVE sum[S] = all[S]
  <2> DEFINE P == {T \in SUBSET S : sum[T] = all[T]}
  <2>1. {} \in P
    <3>1. sum[{}] = 0
      BY <1>2 DEF SumStep
    <3> QED
      BY <3>1 DEF SumsOver
  <2>2. ASSUME NEW T \in SUBSET S, T # {}, \A x \in T : T \ {x} \in P PROVE T \in P
    <3> PICK x : x = CHOOSE y \in T : TRUE
      OBVIOUS
    <3>1. x \in T
      BY <2>2
    <3>2. sum[T] = f[x] + sum[T \ {x}]
      <4>1. sum[T] = SumStep(sum, S, f)[T]
        BY <1>2
      <4> QED
        BY <2>2, <4>1 DEF SumStep
    <3>3. T \in SUBSET U /\ all[T] = f[x] + all[T \ {x}]
      BY <3>1 DEF SumsOver
    <3>4. sum[T \ {x}] = all[T \ {x}]
      BY <2>2, <3>1
    <3> QED
      BY <3>2, <3>3, <3>4
  <2>3. IsFiniteSet(S) /\ S \in SUBSET S
    BY FS_Subset
  <2> HIDE DEF P
  <2>4. S \in P
    BY <2>1, <2>2, <2>3, SetInduction
  <2> QED
    BY <2>4 DEF P
<1> QED
  BY <1>1, <1>2
=============================================================================
