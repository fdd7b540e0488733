----------------------------- MODULE PlanProofs -----------------------------
(***************************************************************************)
(* Proofs about plans.  Admission: for every plan, every limit, and        *)
(* whatever the file system and the caller's context do meanwhile.         *)
(* Planning, in the second half: for every repository, every profile and   *)
(* every number of fuzz targets.                                           *)
(***************************************************************************)
EXTENDS AdmissionProperties, PlanningProperties, FoldLemmas

-----------------------------------------------------------------------------
(* The bytes of a plan, part by part *)

\* The parts of the first m profiles; with them the next profile up to control j.
PartsOf(m) == {p \in Parts : p[1] <= m}
PartsTo(m, j) == PartsOf(m) \union ({m + 1} \X (0 .. j))
PositionsOf(m) == {p \in Positions : p[1] <= m}
Weight(S) == Cardinality(BytesOf(S))

LEMMA PlanShape ==
    ASSUME plan \in Seq(PlanProfile)
    PROVE  /\ Len(plan) \in Nat /\ DOMAIN plan = 1 .. Len(plan)
           /\ \A i \in 1 .. Len(plan) :
                /\ plan[i].bytes \in Nat /\ plan[i].controls \in Seq(Control)
                /\ Len(plan[i].controls) \in Nat
                /\ DOMAIN plan[i].controls = 1 .. Len(plan[i].controls)
                /\ \A j \in 1 .. Len(plan[i].controls) :
                    /\ plan[i].controls[j] \in Control
                    /\ plan[i].controls[j].bytes \in Nat
                    /\ plan[i].controls[j].executable \in Names
                    /\ plan[i].controls[j].directory \in Places
<1>1. Len(plan) \in Nat /\ DOMAIN plan = 1 .. Len(plan)
  OBVIOUS
<1>2. ASSUME NEW i \in 1 .. Len(plan)
      PROVE  plan[i].bytes \in Nat /\ plan[i].controls \in Seq(Control)
  <2>1. plan[i] \in PlanProfile
    OBVIOUS
  <2> QED
    BY <2>1 DEF PlanProfile
<1>3. ASSUME NEW ctls \in Seq(Control)
      PROVE  /\ Len(ctls) \in Nat /\ DOMAIN ctls = 1 .. Len(ctls)
             /\ \A j \in 1 .. Len(ctls) : ctls[j] \in Control
  OBVIOUS
<1>4. \A c \in Control : c.bytes \in Nat /\ c.executable \in Names /\ c.directory \in Places
  BY DEF Control, Places
<1> QED
  BY <1>1, <1>2, <1>3, <1>4

LEMMA PartsShape ==
    ASSUME plan \in Seq(PlanProfile)
    PROVE  /\ \A p : p \in Positions <=> \E i \in 1 .. Len(plan) :
                        \E j \in 1 .. Len(plan[i].controls) : p = <<i, j>>
           /\ \A p : p \in Parts <=> \E i \in 1 .. Len(plan) :
                        \E j \in 0 .. Len(plan[i].controls) : p = <<i, j>>
           /\ \A i \in 1 .. Len(plan) : \A j \in 1 .. Len(plan[i].controls) :
                Size(<<i, j>>) = plan[i].controls[j].bytes
           /\ \A i \in 1 .. Len(plan) : Size(<<i, 0>>) = plan[i].bytes
<1>1. ASSUME NEW p
      PROVE  p \in Positions <=> \E i \in 1 .. Len(plan) :
                                   \E j \in 1 .. Len(plan[i].controls) : p = <<i, j>>
  BY PlanShape DEF Positions
<1>2. ASSUME NEW p
      PROVE  p \in Parts <=> \E i \in 1 .. Len(plan) :
                               \E j \in 0 .. Len(plan[i].controls) : p = <<i, j>>
  <2>1. ASSUME NEW i \in 1 .. Len(plan)
        PROVE  \A j : j \in 0 .. Len(plan[i].controls) <=>
                        j = 0 \/ j \in 1 .. Len(plan[i].controls)
    <3>1. Len(plan[i].controls) \in Nat
      BY PlanShape
    <3> QED
      BY <3>1
  <2>2. p \in (DOMAIN plan) \X {0} <=> \E i \in 1 .. Len(plan) : p = <<i, 0>>
    BY PlanShape
  <2> QED
    BY <1>1, <2>1, <2>2 DEF Parts
<1>3. ASSUME NEW i \in 1 .. Len(plan), NEW j \in 1 .. Len(plan[i].controls)
      PROVE  Size(<<i, j>>) = plan[i].controls[j].bytes
  <2>1. <<i, j>> \in Positions
    BY <1>1
  <2> QED
    BY <2>1 DEF Size, At
<1>4. ASSUME NEW i \in 1 .. Len(plan) PROVE Size(<<i, 0>>) = plan[i].bytes
  <2>1. <<i, 0>> \notin Positions
    BY <1>1, PlanShape
  <2> QED
    BY <2>1 DEF Size
<1> QED
  BY <1>1, <1>2, <1>3, <1>4

\* One part more adds its size.
LEMMA AddPart ==
    ASSUME NEW S, NEW p, p \notin S, Size(p) \in Nat, IsFiniteSet(BytesOf(S))
    PROVE  /\ IsFiniteSet(BytesOf(S \union {p}))
           /\ Weight(S) \in Nat /\ Weight(S \union {p}) = Weight(S) + Size(p)
<1> DEFINE B == BytesOf(S)
           T == {p} \X (1 .. Size(p))
           n == Size(p)
<1>1. n \in Nat
  OBVIOUS
<1>2. IsFiniteSet(T) /\ Cardinality(T) = n
  <2> HIDE DEF n
  <2>1. IsFiniteSet({p}) /\ Cardinality({p}) = 1
    BY FS_Singleton
  <2>2. IsFiniteSet(1 .. n) /\ Cardinality(1 .. n) = n
    <3>1. 0 \in Int /\ n \in Int /\ 1 \in Int
      BY <1>1
    <3>2. IsFiniteSet(1 .. n) /\ Cardinality(1 .. n) = IF 1 > n THEN 0 ELSE n - 1 + 1
      BY <3>1, FS_Interval
    <3> QED
      BY <1>1, <3>2
  <2>3. /\ IsFiniteSet({p} \X (1 .. n))
        /\ Cardinality({p} \X (1 .. n)) = Cardinality({p}) * Cardinality(1 .. n)
    BY <2>1, <2>2, FS_Product
  <2>4. Cardinality({p} \X (1 .. n)) = 1 * n
    BY <2>1, <2>2, <2>3, Zenon
  <2> QED
    BY <1>1, <2>3, <2>4 DEF n
<1>3. BytesOf(S \union {p}) = B \union T
  BY DEF BytesOf
<1>4. B \intersect T = {}
  BY DEF BytesOf
<1>5. Cardinality(B) \in Nat /\ Cardinality(B \intersect T) = 0
  BY <1>4, FS_CardinalityType, FS_EmptySet
<1>6. IsFiniteSet(B \union T) /\ Cardinality(B \union T) = Cardinality(B) + Cardinality(T) - 0
  <2> HIDE DEF B, T
  <2>1. IsFiniteSet(B)
    BY DEF B
  <2>2. /\ IsFiniteSet(B \union T)
        /\ Cardinality(B \union T) = Cardinality(B) + Cardinality(T) - Cardinality(B \intersect T)
    BY <1>2, <2>1, FS_Union
  <2> QED
    BY <1>5, <2>2
<1>7. Cardinality(BytesOf(S \union {p})) = Cardinality(B \union T)
  BY <1>3, Zenon
<1>8. IsFiniteSet(BytesOf(S \union {p}))
  BY <1>3, <1>6, Zenon
<1> HIDE DEF T
<1>9. Cardinality(B) + Cardinality(T) - 0 = Cardinality(B) + n
  BY <1>1, <1>2, <1>5
<1> QED
  BY <1>5, <1>6, <1>7, <1>8, <1>9 DEF Weight

\* A profile adds its own bytes, then those of its controls one by one.
LEMMA PartsOfProfile ==
    ASSUME plan \in Seq(PlanProfile), NEW m \in Nat, m < Len(plan),
           IsFiniteSet(BytesOf(PartsOf(m)))
    PROVE  LET n == Len(plan[m + 1].controls) IN
             /\ Weight(PartsOf(m)) \in Nat
             /\ Weight(PartsTo(m, 0)) = Weight(PartsOf(m)) + plan[m + 1].bytes
             /\ \A j \in 0 .. n : /\ IsFiniteSet(BytesOf(PartsTo(m, j)))
                                  /\ Weight(PartsTo(m, j)) \in Nat
             /\ \A j \in 1 .. n : Weight(PartsTo(m, j)) =
                                    Weight(PartsTo(m, j - 1)) + plan[m + 1].controls[j].bytes
             /\ PartsTo(m, n) = PartsOf(m + 1)
<1> DEFINE n == Len(plan[m + 1].controls)
<1>1. /\ m + 1 \in 1 .. Len(plan) /\ n \in Nat /\ plan[m + 1].bytes \in Nat
      /\ \A j \in 1 .. n : plan[m + 1].controls[j].bytes \in Nat
  BY PlanShape
<1>2. ASSUME NEW p \in Parts
      PROVE  p[1] \in 1 .. Len(plan) /\ p[2] \in 0 .. Len(plan[p[1]].controls) /\ p = <<p[1], p[2]>>
  BY PartsShape
<1>3. /\ PartsTo(m, 0) = PartsOf(m) \union {<<m + 1, 0>>}
      /\ <<m + 1, 0>> \notin PartsOf(m) /\ Size(<<m + 1, 0>>) = plan[m + 1].bytes
  <2>1. PartsTo(m, 0) = PartsOf(m) \union {<<m + 1, 0>>}
    <3>1. 0 .. 0 = {0}
      OBVIOUS
    <3>2. {m + 1} \X {0} = {<<m + 1, 0>>}
      OBVIOUS
    <3> QED
      BY <3>1, <3>2, Zenon DEF PartsTo
  <2>2. <<m + 1, 0>> \notin PartsOf(m)
    BY DEF PartsOf
  <2> QED
    BY <1>1, <2>1, <2>2, PartsShape
<1>4. /\ IsFiniteSet(BytesOf(PartsTo(m, 0)))
      /\ Weight(PartsOf(m)) \in Nat
      /\ Weight(PartsTo(m, 0)) = Weight(PartsOf(m)) + plan[m + 1].bytes
  <2>1. /\ IsFiniteSet(BytesOf(PartsOf(m) \union {<<m + 1, 0>>}))
        /\ Weight(PartsOf(m)) \in Nat
        /\ Weight(PartsOf(m) \union {<<m + 1, 0>>}) = Weight(PartsOf(m)) + Size(<<m + 1, 0>>)
    <3>1. Size(<<m + 1, 0>>) \in Nat
      BY <1>1, <1>3
    <3> QED
      BY <1>3, <3>1, AddPart
  <2> QED
    BY <1>3, <2>1, Zenon
<1>5. ASSUME NEW j \in 1 .. n, IsFiniteSet(BytesOf(PartsTo(m, j - 1)))
      PROVE  /\ IsFiniteSet(BytesOf(PartsTo(m, j)))
             /\ Weight(PartsTo(m, j)) =
                  Weight(PartsTo(m, j - 1)) + plan[m + 1].controls[j].bytes
  <2>1. PartsTo(m, j) = PartsTo(m, j - 1) \union {<<m + 1, j>>}
    <3>1. 0 .. j = (0 .. j - 1) \union {j}
      BY <1>1
    <3> HIDE DEF n
    <3>2. {m + 1} \X ((0 .. j - 1) \union {j}) = ({m + 1} \X (0 .. j - 1)) \union {<<m + 1, j>>}
      OBVIOUS
    <3> QED
      BY <3>1, <3>2, Zenon DEF PartsTo
  <2>2. <<m + 1, j>> \notin PartsTo(m, j - 1)
    BY <1>1 DEF PartsTo, PartsOf
  <2>3. Size(<<m + 1, j>>) = plan[m + 1].controls[j].bytes /\ Size(<<m + 1, j>>) \in Nat
    BY <1>1, PartsShape
  <2>4. /\ IsFiniteSet(BytesOf(PartsTo(m, j - 1) \union {<<m + 1, j>>}))
        /\ Weight(PartsTo(m, j - 1) \union {<<m + 1, j>>}) =
             Weight(PartsTo(m, j - 1)) + Size(<<m + 1, j>>)
    BY <1>5, <2>2, <2>3, AddPart
  <2> QED
    BY <2>1, <2>3, <2>4, Zenon
<1>6. \A j \in 0 .. n : IsFiniteSet(BytesOf(PartsTo(m, j)))
  <2> DEFINE P == {j \in 0 .. n : IsFiniteSet(BytesOf(PartsTo(m, j)))}
  <2>1. 0 \in P
    BY <1>1, <1>4
  <2>2. ASSUME NEW j \in 0 .. n, j \in P, j < n PROVE j + 1 \in P
    <3>1. PICK i \in 1 .. n : i = j + 1 /\ i - 1 = j
      BY <1>1, <2>2
    <3>2. IsFiniteSet(BytesOf(PartsTo(m, i - 1)))
      BY <2>2, <3>1
    <3>3. IsFiniteSet(BytesOf(PartsTo(m, i)))
      BY <1>5, <3>2
    <3> QED
      BY <1>1, <3>1, <3>3
  <2>3. \A j \in 0 .. n : j \in P
    <3> HIDE DEF P, n
    <3> QED
      BY <1>1, <2>1, <2>2, Induction
  <2> QED
    BY <2>3
<1>7. \A j \in 0 .. n : Weight(PartsTo(m, j)) \in Nat
  BY <1>6, FS_CardinalityType DEF Weight
<1>8. \A j \in 1 .. n : Weight(PartsTo(m, j)) =
                          Weight(PartsTo(m, j - 1)) + plan[m + 1].controls[j].bytes
  <2>1. \A j \in 1 .. n : j - 1 \in 0 .. n
    BY <1>1
  <2> QED
    BY <1>5, <1>6, <2>1
<1>9. PartsTo(m, n) = PartsOf(m + 1)
  <2>1. ASSUME NEW p \in PartsTo(m, n) PROVE p \in PartsOf(m + 1)
    <3>1. CASE p \in PartsOf(m)
      BY <1>2, <3>1 DEF PartsOf
    <3>2. CASE p \in {m + 1} \X (0 .. n)
      <4>1. p \in Parts /\ p[1] = m + 1
        BY <1>1, <3>2, PartsShape
      <4> QED
        BY <4>1 DEF PartsOf
    <3> QED
      BY <2>1, <3>1, <3>2 DEF PartsTo
  <2>2. ASSUME NEW p \in PartsOf(m + 1) PROVE p \in PartsTo(m, n)
    <3>1. p \in Parts /\ p[1] <= m + 1
      BY <2>2 DEF PartsOf
    <3>2. CASE p[1] <= m
      BY <3>1, <3>2 DEF PartsOf, PartsTo
    <3>3. CASE p[1] = m + 1
      <4>1. p \in {m + 1} \X (0 .. n)
        BY <1>2, <3>1, <3>3
      <4> QED
        BY <4>1 DEF PartsTo
    <3> QED
      BY <1>2, <3>1, <3>2, <3>3
  <2> QED
    BY <2>1, <2>2
<1> QED
  BY <1>4, <1>6, <1>7, <1>8, <1>9

-----------------------------------------------------------------------------
(* The loops of validPlanAggregate *)

Sums == [valid : BOOLEAN, bytes : Nat, controls : Nat]
Start == [valid |-> TRUE, bytes |-> IdBytes, controls |-> 0]

LEMMA AddControlType ==
    ASSUME NEW sum \in Sums, NEW c, c.bytes \in Nat
    PROVE  AddControl(sum, c) \in Sums
<1>1. sum.bytes \in Nat /\ sum.bytes + c.bytes \in Nat
  BY DEF Sums
<1>2. [sum EXCEPT !.bytes = @ + c.bytes] \in Sums
  BY <1>1 DEF Sums
<1>3. [sum EXCEPT !.valid = FALSE] \in Sums
  BY DEF Sums
<1> QED
  BY <1>2, <1>3 DEF AddControl

\* What the inner loop of validPlanAggregate has made of the first controls.
LEMMA ControlsPrefix ==
    ASSUME NEW ctls \in Seq(Control), NEW start \in Sums
    PROVE  \E S \in [0 .. Len(ctls) -> Sums] :
             /\ S[0] = start /\ FoldLeft(AddControl, start, ctls) = S[Len(ctls)]
             /\ \A m \in 1 .. Len(ctls) : S[m] = AddControl(S[m - 1], ctls[m])
<1> DEFINE n == Len(ctls)
           Body(f) == [s \in SUBSET (1 .. n) |->
                        IF s = {} THEN start ELSE AddControl(f[s \ {Max(s)}], ctls[Max(s)])]
           fold == CHOOSE f : f = Body(f)
           op == [x \in Sums \X (1 .. n) |-> AddControl(x[1], ctls[x[2]])]
<1>1. /\ n \in Nat /\ DOMAIN ctls = 1 .. n /\ start \in Sums
      /\ \A sum \in Sums, m \in 1 .. n : AddControl(sum, ctls[m]) \in Sums
  <2>1. ASSUME NEW m \in 1 .. n PROVE ctls[m].bytes \in Nat
    <3>1. ctls[m] \in Control
      OBVIOUS
    <3> QED
      BY <3>1 DEF Control
  <2> QED
    BY <2>1, AddControlType
<1>2. FoldLeft(AddControl, start, ctls) = fold[1 .. n]
  BY <1>1 DEF FoldLeft, MapThenFoldSet
<1>3. op \in [Sums \X (1 .. n) -> Sums]
  BY <1>1
<1>4. PICK it \in [SUBSET (1 .. n) -> Sums] : IsFold(it, n, start, op)
  <2>1. n \in Nat /\ start \in Sums
    BY <1>1
  <2> HIDE DEF op, n
  <2> QED
    BY <1>3, <2>1, FoldExists
<1>5. it = Body(it)
  <2>1. ASSUME NEW s \in SUBSET (1 .. n), s # {}
        PROVE  it[s] = AddControl(it[s \ {Max(s)}], ctls[Max(s)])
    <3>1. Max(s) \in 1 .. n /\ s \ {Max(s)} \in SUBSET (1 .. n)
      BY <1>1, <2>1, MaxIsGreatest
    <3>2. it[s] = op[<<it[s \ {Max(s)}], Max(s)>>]
      BY <1>4, <2>1 DEF IsFold
    <3> QED
      BY <3>1, <3>2
  <2>2. it[{}] = start
    BY <1>4 DEF IsFold
  <2> QED
    BY <2>1, <2>2
<1>6. fold = Body(fold)
  BY <1>5
<1>7. PICK S \in [0 .. n -> Sums] : Unfolds(S, fold, n, start, op)
  <2>1. FoldsIn(Sums, fold, n, start, op)
    <3>1. ASSUME NEW s \in SUBSET (1 .. n), s # {}, fold[s \ {Max(s)}] \in Sums
          PROVE  fold[s] = op[<<fold[s \ {Max(s)}], Max(s)>>]
      <4>1. Max(s) \in 1 .. n
        BY <1>1, <3>1, MaxIsGreatest
      <4> QED
        BY <1>6, <3>1, <4>1
    <3>2. fold[{}] = start
      BY <1>6
    <3> QED
      BY <3>1, <3>2 DEF FoldsIn
  <2>2. n \in Nat /\ start \in Sums
    BY <1>1
  <2> HIDE DEF fold, op, n
  <2> QED
    BY <1>3, <2>1, <2>2, FoldPrefix
<1>8. \A m \in 1 .. n : S[m - 1] \in Sums
  <2>1. \A m \in 1 .. n : m - 1 \in 0 .. n
    BY <1>1
  <2> QED
    BY <2>1
<1> QED
  BY <1>2, <1>7, <1>8 DEF Unfolds

LEMMA AddProfileType ==
    ASSUME NEW sum \in Sums, NEW part \in PlanProfile
    PROVE  AddProfile(sum, part) \in Sums
<1> DEFINE start == [sum EXCEPT !.bytes = @ + part.bytes,
                                !.controls = @ + Len(part.controls)]
<1>1. part.bytes \in Nat /\ part.controls \in Seq(Control) /\ Len(part.controls) \in Nat
  BY DEF PlanProfile
<1>2. start \in Sums
  <2>1. sum.bytes + part.bytes \in Nat /\ sum.controls + Len(part.controls) \in Nat
    BY <1>1 DEF Sums
  <2> QED
    BY <2>1 DEF Sums
<1>3. FoldLeft(AddControl, start, part.controls) \in Sums
  <2>1. PICK S \in [0 .. Len(part.controls) -> Sums] :
          FoldLeft(AddControl, start, part.controls) = S[Len(part.controls)]
    <3> HIDE DEF start
    <3> QED
      BY <1>1, <1>2, ControlsPrefix, ZenonT(30)
  <2> QED
    BY <1>1, <2>1
<1>4. [sum EXCEPT !.valid = FALSE] \in Sums
  BY DEF Sums
<1> QED
  BY <1>3, <1>4 DEF AddProfile

\* What its outer loop has made of the first profiles.
LEMMA ProfilesPrefix ==
    ASSUME plan \in Seq(PlanProfile)
    PROVE  \E S \in [0 .. Len(plan) -> Sums] :
             /\ S[0] = Start /\ Aggregate = S[Len(plan)]
             /\ \A m \in 1 .. Len(plan) : S[m] = AddProfile(S[m - 1], plan[m])
<1> DEFINE n == Len(plan)
           Body(f) == [s \in SUBSET (1 .. n) |->
                        IF s = {} THEN Start ELSE AddProfile(f[s \ {Max(s)}], plan[Max(s)])]
           fold == CHOOSE f : f = Body(f)
           op == [x \in Sums \X (1 .. n) |-> AddProfile(x[1], plan[x[2]])]
<1>1. /\ n \in Nat /\ DOMAIN plan = 1 .. n /\ Start \in Sums
      /\ \A sum \in Sums, m \in 1 .. n : AddProfile(sum, plan[m]) \in Sums
  <2>1. Start \in Sums
    BY AdmissionAssumption DEF Start, Sums
  <2>2. ASSUME NEW m \in 1 .. n PROVE plan[m] \in PlanProfile
    OBVIOUS
  <2> QED
    BY <2>1, <2>2, AddProfileType
<1>2. Aggregate = fold[1 .. n]
  BY <1>1 DEF Aggregate, Start, FoldLeft, MapThenFoldSet
<1>3. op \in [Sums \X (1 .. n) -> Sums]
  BY <1>1
<1>4. PICK it \in [SUBSET (1 .. n) -> Sums] : IsFold(it, n, Start, op)
  <2>1. n \in Nat /\ Start \in Sums
    BY <1>1
  <2> HIDE DEF op, n
  <2> QED
    BY <1>3, <2>1, FoldExists
<1>5. it = Body(it)
  <2>1. ASSUME NEW s \in SUBSET (1 .. n), s # {}
        PROVE  it[s] = AddProfile(it[s \ {Max(s)}], plan[Max(s)])
    <3>1. Max(s) \in 1 .. n /\ s \ {Max(s)} \in SUBSET (1 .. n)
      BY <1>1, <2>1, MaxIsGreatest
    <3>2. it[s] = op[<<it[s \ {Max(s)}], Max(s)>>]
      BY <1>4, <2>1 DEF IsFold
    <3> QED
      BY <3>1, <3>2
  <2>2. it[{}] = Start
    BY <1>4 DEF IsFold
  <2> QED
    BY <2>1, <2>2
<1>6. fold = Body(fold)
  BY <1>5
<1>7. PICK S \in [0 .. n -> Sums] : Unfolds(S, fold, n, Start, op)
  <2>1. FoldsIn(Sums, fold, n, Start, op)
    <3>1. ASSUME NEW s \in SUBSET (1 .. n), s # {}, fold[s \ {Max(s)}] \in Sums
          PROVE  fold[s] = op[<<fold[s \ {Max(s)}], Max(s)>>]
      <4>1. Max(s) \in 1 .. n
        BY <1>1, <3>1, MaxIsGreatest
      <4> QED
        BY <1>6, <3>1, <4>1
    <3>2. fold[{}] = Start
      BY <1>6
    <3> QED
      BY <3>1, <3>2 DEF FoldsIn
  <2>2. n \in Nat /\ Start \in Sums
    BY <1>1
  <2> HIDE DEF fold, op, n
  <2> QED
    BY <1>3, <2>1, <2>2, FoldPrefix
<1>8. \A m \in 1 .. n : S[m - 1] \in Sums
  <2>1. \A m \in 1 .. n : m - 1 \in 0 .. n
    BY <1>1
  <2> QED
    BY <2>1
<1> QED
  BY <1>2, <1>7, <1>8 DEF Unfolds

LEMMA AddControlSum ==
    ASSUME NEW sum \in Sums, NEW c, c.bytes \in Nat
    PROVE  /\ AddControl(sum, c).controls = sum.controls
           /\ AddControl(sum, c).valid <=> sum.valid /\ sum.bytes + c.bytes <= MaxPlanBytes
           /\ AddControl(sum, c).valid => AddControl(sum, c).bytes = sum.bytes + c.bytes
<1>1. sum.bytes \in Nat /\ MaxPlanBytes \in Nat
  BY AdmissionAssumption DEF Sums
<1>2. c.bytes <= MaxPlanBytes - sum.bytes <=> sum.bytes + c.bytes <= MaxPlanBytes
  BY <1>1
<1>3. CASE sum.valid /\ c.bytes <= MaxPlanBytes - sum.bytes
  <2>1. AddControl(sum, c) = [sum EXCEPT !.bytes = sum.bytes + c.bytes]
    BY <1>3 DEF AddControl
  <2> QED
    BY <1>2, <1>3, <2>1 DEF Sums
<1>4. CASE ~(sum.valid /\ c.bytes <= MaxPlanBytes - sum.bytes)
  <2>1. AddControl(sum, c) = [sum EXCEPT !.valid = FALSE]
    BY <1>4 DEF AddControl
  <2> QED
    BY <1>2, <1>4, <2>1 DEF Sums
<1> QED
  BY <1>3, <1>4

\* The inner loop finds a sum over the limit exactly where it is over it.
LEMMA ControlsSum ==
    ASSUME NEW ctls \in Seq(Control), NEW start \in Sums, start.valid,
           NEW W \in [0 .. Len(ctls) -> Nat],
           start.bytes = IdBytes + W[0], start.bytes <= MaxPlanBytes,
           \A j \in 1 .. Len(ctls) : W[j] = W[j - 1] + ctls[j].bytes
    PROVE  LET sum == FoldLeft(AddControl, start, ctls)
               all == IdBytes + W[Len(ctls)]
           IN  /\ sum.controls = start.controls
               /\ sum.valid <=> all <= MaxPlanBytes
               /\ sum.valid => sum.bytes = all
<1> DEFINE n == Len(ctls)
<1>1. n \in Nat /\ IdBytes \in Nat /\ MaxPlanBytes \in Nat /\ \A j \in 1 .. n : ctls[j].bytes \in Nat
  <2>1. \A j \in 1 .. n : ctls[j] \in Control
    OBVIOUS
  <2> QED
    BY <2>1, AdmissionAssumption DEF Control
<1>2. PICK S \in [0 .. n -> Sums] :
        /\ S[0] = start /\ FoldLeft(AddControl, start, ctls) = S[n]
        /\ \A m \in 1 .. n : S[m] = AddControl(S[m - 1], ctls[m])
  BY ControlsPrefix
<1> DEFINE Exact(j) == /\ S[j].controls = start.controls
                       /\ S[j].valid <=> IdBytes + W[j] <= MaxPlanBytes
                       /\ S[j].valid => S[j].bytes = IdBytes + W[j]
           P == {j \in 0 .. n : Exact(j)}
<1>3. 0 \in P
  BY <1>1, <1>2
<1>4. ASSUME NEW j \in 0 .. n, j \in P, j < n PROVE j + 1 \in P
  <2>1. PICK i \in 1 .. n : i = j + 1 /\ i - 1 = j
    BY <1>1, <1>4, SMTT(30)
  <2>2. S[j] \in Sums /\ ctls[i].bytes \in Nat /\ W[j] \in Nat /\ W[i] = W[j] + ctls[i].bytes
    BY <1>1, <2>1
  <2>3. /\ S[i].controls = S[j].controls
        /\ S[i].valid <=> S[j].valid /\ S[j].bytes + ctls[i].bytes <= MaxPlanBytes
        /\ S[i].valid => S[i].bytes = S[j].bytes + ctls[i].bytes
    <3>1. S[i] = AddControl(S[j], ctls[i])
      BY <1>2, <2>1
    <3> QED
      BY <2>2, <3>1, AddControlSum
  <2>4. Exact(j)
    BY <1>4
  <2>5. Exact(i)
    <3>1. S[i].controls = start.controls
      BY <2>3, <2>4
    <3>2. S[i].valid => S[i].bytes = IdBytes + W[i]
      BY <1>1, <2>2, <2>3, <2>4
    <3>3. S[i].valid <=> IdBytes + W[i] <= MaxPlanBytes
      <4>1. CASE IdBytes + W[j] <= MaxPlanBytes
        BY <1>1, <2>2, <2>3, <2>4, <4>1
      <4>2. CASE ~(IdBytes + W[j] <= MaxPlanBytes)
        BY <1>1, <2>2, <2>3, <2>4, <4>2, SMTT(30)
      <4> QED
        BY <4>1, <4>2
    <3> QED
      BY <3>1, <3>2, <3>3
  <2> QED
    BY <1>1, <2>1, <2>5
<1>5. n \in P
  <2> HIDE DEF P, n
  <2>1. n \in 0 .. n
    BY <1>1
  <2> QED
    BY <1>1, <1>3, <1>4, <2>1, Induction
<1> QED
  BY <1>2, <1>5

LEMMA CountOfProfile ==
    ASSUME plan \in Seq(PlanProfile), NEW m \in Nat, m < Len(plan), IsFiniteSet(PositionsOf(m))
    PROVE  /\ IsFiniteSet(PositionsOf(m + 1)) /\ Cardinality(PositionsOf(m)) \in Nat
           /\ Cardinality(PositionsOf(m + 1)) =
                Cardinality(PositionsOf(m)) + Len(plan[m + 1].controls)
<1> DEFINE n == Len(plan[m + 1].controls)
           T == {m + 1} \X (1 .. n)
           B == PositionsOf(m)
<1>1. m + 1 \in 1 .. Len(plan) /\ n \in Nat
  BY PlanShape
<1>2. IsFiniteSet(T) /\ Cardinality(T) = n
  <2> HIDE DEF n
  <2>1. IsFiniteSet({m + 1}) /\ Cardinality({m + 1}) = 1
    BY FS_Singleton
  <2>2. IsFiniteSet(1 .. n) /\ Cardinality(1 .. n) = n
    <3>1. 0 \in Int /\ n \in Int /\ 1 \in Int
      BY <1>1
    <3>2. IsFiniteSet(1 .. n) /\ Cardinality(1 .. n) = IF 1 > n THEN 0 ELSE n - 1 + 1
      BY <3>1, FS_Interval
    <3> QED
      BY <1>1, <3>2
  <2>3. /\ IsFiniteSet({m + 1} \X (1 .. n))
        /\ Cardinality({m + 1} \X (1 .. n)) = Cardinality({m + 1}) * Cardinality(1 .. n)
    BY <2>1, <2>2, FS_Product
  <2>4. Cardinality({m + 1} \X (1 .. n)) = 1 * n
    BY <2>1, <2>2, <2>3, Zenon
  <2> QED
    BY <1>1, <2>3, <2>4 DEF n
<1>3. PositionsOf(m + 1) = B \union T
  <2>1. ASSUME NEW p \in PositionsOf(m + 1) PROVE p \in B \union T
    <3>1. PICK i \in 1 .. Len(plan) : \E j \in 1 .. Len(plan[i].controls) : p = <<i, j>>
      BY <2>1, PartsShape DEF PositionsOf
    <3>2. PICK j \in 1 .. Len(plan[i].controls) : p = <<i, j>>
      BY <3>1
    <3>3. i <= m + 1
      BY <2>1, <3>2 DEF PositionsOf
    <3>4. CASE i <= m
      BY <2>1, <3>2, <3>4 DEF PositionsOf
    <3>5. CASE i = m + 1
      BY <3>2, <3>5
    <3> QED
      BY <3>3, <3>4, <3>5
  <2>2. ASSUME NEW p \in B PROVE p \in PositionsOf(m + 1)
    <3>1. p \in Positions /\ p[1] <= m
      BY <2>2 DEF PositionsOf
    <3>2. p[1] \in Nat
      BY <3>1, PartsShape
    <3> QED
      BY <3>1, <3>2 DEF PositionsOf
  <2>3. ASSUME NEW p \in T PROVE p \in PositionsOf(m + 1)
    <3>1. PICK j \in 1 .. n : p = <<m + 1, j>>
      BY <2>3
    <3>2. p \in Positions
      BY <1>1, <3>1, PartsShape
    <3> QED
      BY <3>1, <3>2 DEF PositionsOf
  <2> QED
    BY <2>1, <2>2, <2>3
<1>4. B \intersect T = {}
  BY DEF PositionsOf
<1>5. Cardinality(B) \in Nat /\ Cardinality(B \intersect T) = 0
  BY <1>4, FS_CardinalityType, FS_EmptySet
<1>6. IsFiniteSet(B \union T) /\ Cardinality(B \union T) = Cardinality(B) + Cardinality(T) - 0
  <2>1. IsFiniteSet(B)
    OBVIOUS
  <2> HIDE DEF B, T
  <2>2. /\ IsFiniteSet(B \union T)
        /\ Cardinality(B \union T) = Cardinality(B) + Cardinality(T) - Cardinality(B \intersect T)
    BY <1>2, <2>1, FS_Union
  <2> QED
    BY <1>5, <2>2
<1>7. IsFiniteSet(PositionsOf(m + 1)) /\ Cardinality(PositionsOf(m + 1)) = Cardinality(B \union T)
  BY <1>3, <1>6, Zenon
<1> HIDE DEF T
<1>8. Cardinality(B) + Cardinality(T) - 0 = Cardinality(B) + n
  BY <1>1, <1>2, <1>5
<1> QED
  BY <1>5, <1>6, <1>7, <1>8

\* The running sum over the first m profiles is exact while it is valid, and valid
\* exactly within the limits; with no profile nothing has been compared yet.
Exact(sum, m) ==
    LET bytes == IdBytes + Weight(PartsOf(m))
        count == Cardinality(PositionsOf(m))
    IN  /\ IsFiniteSet(BytesOf(PartsOf(m))) /\ IsFiniteSet(PositionsOf(m))
        /\ sum.valid <=> m = 0 \/ (bytes <= MaxPlanBytes /\ count <= MaxPlanControls)
        /\ sum.valid => sum.bytes = bytes /\ sum.controls = count

LEMMA ProfileSum ==
    ASSUME plan \in Seq(PlanProfile), NEW m \in Nat, m < Len(plan),
           NEW sum \in Sums, Exact(sum, m)
    PROVE  Exact(AddProfile(sum, plan[m + 1]), m + 1)
<1> DEFINE part == plan[m + 1]
           ctls == part.controls
           n == Len(ctls)
           start == [sum EXCEPT !.bytes = @ + part.bytes, !.controls = @ + n]
           next == AddProfile(sum, part)
           W == [j \in 0 .. n |-> Weight(PartsTo(m, j))]
           before == Weight(PartsOf(m))
           after == Weight(PartsOf(m + 1))
           count == Cardinality(PositionsOf(m))
<1>1. /\ n \in Nat /\ part.bytes \in Nat /\ ctls \in Seq(Control)
      /\ IdBytes \in Nat /\ MaxPlanBytes \in Nat /\ MaxPlanControls \in Nat
      /\ \A j \in 1 .. n : ctls[j].bytes \in Nat
      /\ part \in PlanProfile
  <2>1. m + 1 \in 1 .. Len(plan)
    BY PlanShape
  <2>2. part \in PlanProfile
    BY <2>1
  <2>3. IdBytes \in Nat /\ MaxPlanBytes \in Nat /\ MaxPlanControls \in Nat
    BY AdmissionAssumption
  <2> QED
    BY <2>1, <2>2, <2>3, PlanShape
<1>2. /\ before \in Nat /\ Weight(PartsTo(m, 0)) = before + part.bytes
      /\ \A j \in 0 .. n : /\ IsFiniteSet(BytesOf(PartsTo(m, j)))
                           /\ Weight(PartsTo(m, j)) \in Nat
      /\ \A j \in 1 .. n : Weight(PartsTo(m, j)) = Weight(PartsTo(m, j - 1)) + ctls[j].bytes
      /\ PartsTo(m, n) = PartsOf(m + 1)
  BY PartsOfProfile DEF Exact
<1>3. IsFiniteSet(PositionsOf(m + 1)) /\ count \in Nat /\ Cardinality(PositionsOf(m + 1)) = count + n
  BY CountOfProfile DEF Exact
<1>4. IsFiniteSet(BytesOf(PartsOf(m + 1))) /\ after \in Nat /\ before + part.bytes <= after
  <2>1. n \in 0 .. n /\ 0 \in 0 .. n
    BY <1>1
  <2>2. IsFiniteSet(BytesOf(PartsOf(m + 1))) /\ after \in Nat
    BY <1>2, <2>1
  <2>3. BytesOf(PartsTo(m, 0)) \subseteq BytesOf(PartsOf(m + 1))
    <3>1. 0 .. 0 \subseteq 0 .. n
      BY <1>1
    <3>2. {m + 1} \X (0 .. 0) \subseteq {m + 1} \X (0 .. n)
      BY <3>1, Zenon
    <3>3. PartsTo(m, 0) \subseteq PartsTo(m, n)
      BY <3>2, Zenon DEF PartsTo
    <3> QED
      BY <1>2, <3>3, Zenon DEF BytesOf
  <2>4. Weight(PartsTo(m, 0)) <= after
    BY <2>2, <2>3, FS_Subset DEF Weight
  <2> QED
    BY <1>2, <2>2, <2>4
<1>5. sum.bytes \in Nat /\ sum.controls \in Nat /\ sum.valid \in BOOLEAN
  BY DEF Sums
<1>6. CASE /\ sum.valid /\ part.bytes <= MaxPlanBytes - sum.bytes
           /\ n <= MaxPlanControls - sum.controls
  <2>1. sum.bytes = IdBytes + before /\ sum.controls = count
    BY <1>6 DEF Exact
  <2>2. start \in Sums /\ start.valid /\ start.bytes = IdBytes + W[0] /\ start.controls = count + n
    <3>1. sum.bytes + part.bytes \in Nat /\ sum.controls + n \in Nat
      <4> HIDE DEF n, part
      <4> QED
        BY <1>1, <1>5, SMTT(30)
    <3>2. /\ start \in Sums /\ start.valid /\ start.bytes = sum.bytes + part.bytes
          /\ start.controls = sum.controls + n
      BY <1>6, <3>1 DEF Sums
    <3>3. W[0] = before + part.bytes
      BY <1>1, <1>2
    <3>4. sum.bytes + part.bytes = IdBytes + W[0] /\ sum.controls + n = count + n
      BY <1>1, <1>2, <2>1, <3>3
    <3> QED
      BY <3>2, <3>4
  <2>3. start.bytes <= MaxPlanBytes /\ count + n <= MaxPlanControls
    <3>1. start.bytes = sum.bytes + part.bytes
      BY DEF Sums
    <3> QED
      BY <1>1, <1>3, <1>5, <1>6, <2>1, <3>1, SMTT(30)
  <2>4. /\ W \in [0 .. n -> Nat] /\ W[n] = after
        /\ \A j \in 1 .. n : W[j] = W[j - 1] + ctls[j].bytes
    <3>1. \A j \in 1 .. n : j \in 0 .. n /\ j - 1 \in 0 .. n
      BY <1>1
    <3> QED
      BY <1>1, <1>2, <3>1, SMTT(30)
  <2>5. next = FoldLeft(AddControl, start, ctls)
    BY <1>6 DEF AddProfile
  <2>6. /\ next.controls = start.controls
        /\ next.valid <=> IdBytes + W[n] <= MaxPlanBytes
        /\ next.valid => next.bytes = IdBytes + W[n]
    <3>1. LET total == FoldLeft(AddControl, start, ctls)
              all == IdBytes + W[Len(ctls)]
          IN  /\ total.controls = start.controls
              /\ total.valid <=> all <= MaxPlanBytes
              /\ total.valid => total.bytes = all
      <4>1. \A j \in 1 .. Len(ctls) : W[j] = W[j - 1] + ctls[j].bytes
        BY <2>4
      <4>2. W \in [0 .. Len(ctls) -> Nat] /\ ctls \in Seq(Control)
        BY <1>1, <2>4
      <4> HIDE DEF start, W, ctls, n
      <4> QED
        BY <2>2, <2>3, <4>1, <4>2, ControlsSum
    <3> QED
      BY <2>5, <3>1
  <2> QED
    BY <1>3, <1>4, <2>2, <2>3, <2>4, <2>6 DEF Exact
<1>7. CASE ~(/\ sum.valid /\ part.bytes <= MaxPlanBytes - sum.bytes
             /\ n <= MaxPlanControls - sum.controls)
  <2>1. next = [sum EXCEPT !.valid = FALSE]
    BY <1>7 DEF AddProfile
  <2>2. ~next.valid
    BY <2>1 DEF Sums
  <2>3. ~(IdBytes + after <= MaxPlanBytes /\ count + n <= MaxPlanControls)
    <3>1. CASE ~sum.valid
      <4>1. ~(IdBytes + before <= MaxPlanBytes /\ count <= MaxPlanControls)
        BY <3>1 DEF Exact
      <4> HIDE DEF before, after, count, n, part
      <4> QED
        BY <1>1, <1>2, <1>3, <1>4, <4>1
    <3>2. CASE sum.valid
      <4>1. sum.bytes = IdBytes + before /\ sum.controls = count
        BY <3>2 DEF Exact
      <4>2. ~(part.bytes <= MaxPlanBytes - sum.bytes) \/ ~(n <= MaxPlanControls - sum.controls)
        BY <1>7, <3>2
      <4> HIDE DEF before, after, count, n, part
      <4> QED
        BY <1>1, <1>2, <1>3, <1>4, <4>1, <4>2, SMTT(30)
    <3> QED
      BY <3>1, <3>2
  <2> QED
    BY <1>3, <1>4, <2>2, <2>3 DEF Exact
<1> QED
  BY <1>6, <1>7

\* The checks on the whole plan, which subtract and stop early, are the limits.
LEMMA LimitsAreWithin ==
    ASSUME plan \in Seq(PlanProfile)
    PROVE  ValidHeader /\ ValidAggregate <=> Within
<1> DEFINE n == Len(plan)
<1>1. /\ n \in Nat /\ IdBytes \in Nat /\ MaxPlanBytes \in Nat /\ MaxPlanControls \in Nat
      /\ MaxProfiles \in Nat /\ (plan # <<>> <=> n # 0)
  BY PlanShape, AdmissionAssumption
<1>2. PICK S \in [0 .. n -> Sums] :
        /\ S[0] = Start /\ Aggregate = S[n]
        /\ \A m \in 1 .. n : S[m] = AddProfile(S[m - 1], plan[m])
  BY ProfilesPrefix
<1> DEFINE P == {m \in 0 .. n : Exact(S[m], m)}
<1>3. 0 \in P
  <2>1. \A p \in Parts : p[1] \in 1 .. n
    BY PartsShape
  <2>2. \A p \in Positions : p \in Parts
    BY DEF Parts
  <2>3. PartsOf(0) = {} /\ PositionsOf(0) = {}
    BY <1>1, <2>1, <2>2 DEF PartsOf, PositionsOf
  <2>4. BytesOf(PartsOf(0)) = {}
    BY <2>3 DEF BytesOf
  <2>5. /\ IsFiniteSet(BytesOf(PartsOf(0))) /\ IsFiniteSet(PositionsOf(0))
        /\ Weight(PartsOf(0)) = 0 /\ Cardinality(PositionsOf(0)) = 0
    BY <2>3, <2>4, FS_EmptySet, Zenon DEF Weight
  <2> QED
    BY <1>1, <1>2, <2>5 DEF Exact, Start
<1>4. ASSUME NEW m \in 0 .. n, m \in P, m < n PROVE m + 1 \in P
  <2>1. m \in Nat /\ m + 1 \in 1 .. n /\ m + 1 - 1 = m /\ S[m] \in Sums
    BY <1>1, <1>4
  <2>2. S[m + 1] = AddProfile(S[m], plan[m + 1])
    BY <1>2, <2>1
  <2>3. Exact(AddProfile(S[m], plan[m + 1]), m + 1)
    BY <1>4, <2>1, ProfileSum
  <2>4. Exact(S[m + 1], m + 1)
    BY <2>2, <2>3
  <2> QED
    BY <1>1, <2>1, <2>4
<1>5. Exact(Aggregate, n)
  <2>1. \A m \in 0 .. n : m \in P
    <3> HIDE DEF P, n
    <3> QED
      BY <1>1, <1>3, <1>4, Induction
  <2> QED
    BY <1>1, <1>2, <2>1
<1>6. PartsOf(n) = Parts /\ PositionsOf(n) = Positions
  <2>1. \A p \in Parts : p[1] \in 1 .. n
    BY PartsShape
  <2>2. \A p \in Positions : p \in Parts
    BY DEF Parts
  <2> QED
    BY <2>1, <2>2 DEF PartsOf, PositionsOf
<1>7. /\ IsFiniteSet(Positions)
      /\ Aggregate.valid <=> \/ n = 0
                             \/ /\ IdBytes + Cardinality(BytesOf(Parts)) <= MaxPlanBytes
                                /\ Cardinality(Positions) <= MaxPlanControls
      /\ Aggregate.valid => Aggregate.controls = Cardinality(Positions)
  BY <1>5, <1>6 DEF Exact, Weight
<1>8. Cardinality(Positions) \in Nat
  BY <1>7, FS_CardinalityType
<1>9. n \in 1 .. MaxProfiles <=> ValidHeader
  BY <1>1 DEF ValidHeader
<1> QED
  BY <1>1, <1>7, <1>8, <1>9 DEF ValidAggregate, ValidHeader, Within

-----------------------------------------------------------------------------
(* The inductive invariant *)

InControl == {"executable", "directory"}
InProfile == InControl \union {"control"}
PastRoot == InProfile \union {"profile", "header"}
Steps == PastRoot \union {"plan", "root", "rejected", "returned"}

Choice == [file : Files \union {NoFile}, directory : Places]

TypeOK ==
    /\ plan \in Plans
    /\ resolves \in [Names -> Files \union {NoFile}] /\ standing \subseteq Places
    /\ parent \in {"live", "canceled", "deadline"}
    /\ step \in Steps
    /\ at \in Nat /\ control \in Nat
    /\ executables \in [Names -> Files \union {NoFile}] /\ directories \subseteq Places
    /\ admitted \in Seq(Seq(Choice))
    /\ cause \in {"none", "plan", "executable", "directory", "cancelled"}

\* Where admission stands is what it has admitted: whole profiles, and the first
\* controls of the profile it is in.
PlaceOK ==
    /\ step \in {"plan", "root"} => admitted = <<>> /\ at = 1
    /\ Len(admitted) <= Len(plan)
    /\ \A i \in DOMAIN admitted :
        /\ Len(admitted[i]) <= Len(plan[i].controls)
        /\ i < Len(admitted) \/ step \in {"profile", "header"} =>
            Len(admitted[i]) = Len(plan[i].controls)
    /\ step \in {"profile", "header"} => at = Len(admitted) + 1
    /\ step \in InProfile => at = Len(admitted) /\ at # 0 /\ control = Len(admitted[at]) + 1
    /\ step \in InControl => control <= Len(Profile.controls)
    /\ step = "header" => at > Len(plan)

Admitted == {p \in Positions : p[1] \in DOMAIN admitted /\ p[2] \in DOMAIN admitted[p[1]]}
Entered == IF step \in InControl THEN Admitted \union {<<at, control>>} ELSE Admitted

\* The identities met are remembered, and no two of them are the same.
IdsOK ==
    /\ profiles = {plan[i].id : i \in DOMAIN admitted}
    /\ \A i, j \in DOMAIN admitted : i # j => plan[i].id # plan[j].id
    /\ \A i \in DOMAIN admitted :
        plan[i].valid /\ Len(plan[i].controls) \in 1 .. MaxControls
    /\ step \in InProfile => controls = {At(p).id : p \in {q \in Entered : q[1] = at}}
    /\ \A p, q \in Entered : p[1] = q[1] /\ p # q => At(p).id # At(q).id
    /\ step \in InControl => Command.flaw # "bounds"
    /\ \A p \in Admitted : At(p).flaw = "none"
    /\ step = "header" => Selected \in profiles

\* The history holds what is there now and what the caches hold; an admitted
\* control uses what the caches hold.
FilesOK ==
    /\ Looks(resolves) \subseteq resolved
    /\ \A d \in Places : <<d, d \in standing>> \in stood
    /\ \A n \in Names : executables[n] # NoFile => <<n, executables[n]>> \in resolved
    /\ \A d \in directories \ {Root} : <<d, TRUE>> \in stood
    /\ step \in PastRoot => <<Root, TRUE>> \in stood
    /\ step = "directory" => executables[Command.executable] # NoFile
    /\ \A p \in Admitted :
        /\ executables[At(p).executable] # NoFile /\ At(p).directory \in directories
        /\ admitted[p[1]][p[2]] =
             [file |-> executables[At(p).executable], directory |-> At(p).directory]

\* What a refusal says.
Explained(why) ==
    /\ why = "plan" => ~(Within /\ WellFormed)
    /\ why = "executable" => \E p \in Positions : <<At(p).executable, NoFile>> \in resolved
    /\ why = "directory" =>
        \E d \in {Root} \union {At(p).directory : p \in Positions} : <<d, FALSE>> \in stood
    /\ why = "cancelled" => parent # "live"

\* Past the first check the plan is within its limits, and a refusal has its reason.
CauseOK ==
    /\ step \in PastRoot \union {"root"} => Within
    /\ Explained(cause)

IInv == TypeOK /\ PlaceOK /\ IdsOK /\ FilesOK /\ CauseOK

-----------------------------------------------------------------------------
(* Where admission stands *)

LEMMA PlanIsPlan == TypeOK => plan \in Seq(PlanProfile)
BY AdmissionAssumption DEF TypeOK

LEMMA PlanStays ==
    ASSUME plan' = plan
    PROVE  /\ Positions' = Positions
           /\ Within' <=> Within
           /\ WellFormed' <=> WellFormed
<1>1. Positions' = Positions
  BY Zenon DEF Positions
<1>2. Parts' = Parts
  BY <1>1, Zenon DEF Parts
<1>3. BytesOf(Parts)' = BytesOf(Parts)
  BY <1>1, <1>2, Zenon DEF BytesOf, Size, At
<1>4. Within' <=> Within
  BY <1>1, <1>3, Zenon DEF Within
<1>5. WellFormed' <=> WellFormed
  BY <1>1 DEF WellFormed, At
<1> QED
  BY <1>1, <1>4, <1>5

LEMMA AdmittedShape ==
    ASSUME TypeOK, PlaceOK
    PROVE  /\ Len(admitted) \in Nat /\ DOMAIN admitted = 1 .. Len(admitted)
           /\ \A i \in 1 .. Len(admitted) :
                /\ i \in 1 .. Len(plan) /\ admitted[i] \in Seq(Choice)
                /\ Len(admitted[i]) \in Nat /\ DOMAIN admitted[i] = 1 .. Len(admitted[i])
           /\ \A p : p \in Admitted <=> \E i \in 1 .. Len(admitted) :
                                          \E j \in 1 .. Len(admitted[i]) : p = <<i, j>>
<1>1. plan \in Seq(PlanProfile)
  BY PlanIsPlan
<1>2. Len(admitted) \in Nat /\ DOMAIN admitted = 1 .. Len(admitted)
  BY DEF TypeOK
<1>3. \A i \in 1 .. Len(admitted) : i \in 1 .. Len(plan)
  BY <1>1, <1>2, PlanShape DEF PlaceOK
<1>4. ASSUME NEW i \in 1 .. Len(admitted)
      PROVE  /\ admitted[i] \in Seq(Choice) /\ Len(admitted[i]) \in Nat
             /\ DOMAIN admitted[i] = 1 .. Len(admitted[i])
             /\ \A j \in 1 .. Len(admitted[i]) : j \in 1 .. Len(plan[i].controls)
  <2>1. admitted[i] \in Seq(Choice)
    BY DEF TypeOK
  <2>2. Len(admitted[i]) \in Nat /\ DOMAIN admitted[i] = 1 .. Len(admitted[i])
    BY <2>1
  <2>3. Len(admitted[i]) <= Len(plan[i].controls) /\ Len(plan[i].controls) \in Nat
    BY <1>1, <1>2, <1>3, PlanShape DEF PlaceOK
  <2> QED
    BY <2>1, <2>2, <2>3
<1>5. ASSUME NEW p
      PROVE  p \in Admitted <=> \E i \in 1 .. Len(admitted) :
                                  \E j \in 1 .. Len(admitted[i]) : p = <<i, j>>
  <2>1. ASSUME p \in Admitted
        PROVE  \E i \in 1 .. Len(admitted) : \E j \in 1 .. Len(admitted[i]) : p = <<i, j>>
    <3>1. p \in Positions /\ p[1] \in 1 .. Len(admitted) /\ p[2] \in 1 .. Len(admitted[p[1]])
      BY <1>2, <1>4, <2>1 DEF Admitted
    <3>2. p = <<p[1], p[2]>>
      BY <1>1, <3>1, PartsShape
    <3> QED
      BY <3>1, <3>2
  <2>2. ASSUME NEW i \in 1 .. Len(admitted), NEW j \in 1 .. Len(admitted[i]), p = <<i, j>>
        PROVE  p \in Admitted
    <3>1. p \in Positions
      BY <1>1, <1>3, <1>4, <2>2, PartsShape
    <3> QED
      BY <1>2, <1>4, <2>2, <3>1 DEF Admitted
  <2> QED
    BY <2>1, <2>2
<1> QED
  BY <1>2, <1>3, <1>4, <1>5

\* The control at hand is one of the plan's, and is not admitted yet.
LEMMA ControlAtHand ==
    ASSUME IInv, step \in InProfile
    PROVE  /\ at \in 1 .. Len(plan) /\ at = Len(admitted) /\ at \in DOMAIN admitted
           /\ control \in Nat /\ control = Len(admitted[at]) + 1
           /\ Profile = plan[at] /\ Len(plan[at].controls) \in Nat
           /\ control - 1 <= Len(plan[at].controls)
           /\ control <= Len(plan[at].controls) =>
                /\ <<at, control>> \in Positions \ Admitted
                /\ Command = plan[at].controls[control] /\ Command = At(<<at, control>>)
                /\ Command \in Control
                /\ Command.executable \in Names /\ Command.directory \in Places
<1>1. plan \in Seq(PlanProfile) /\ TypeOK /\ PlaceOK
  BY PlanIsPlan DEF IInv
<1>2. at = Len(admitted) /\ at # 0 /\ control = Len(admitted[at]) + 1
  BY DEF IInv, PlaceOK
<1>3. at \in 1 .. Len(admitted) /\ at \in DOMAIN admitted
  BY <1>1, <1>2, AdmittedShape
<1>4. at \in 1 .. Len(plan) /\ Len(admitted[at]) \in Nat
  BY <1>1, <1>3, AdmittedShape
<1>5. Len(plan[at].controls) \in Nat
  BY <1>1, <1>4, PlanShape
<1>6. control \in Nat /\ control # 0 /\ control - 1 <= Len(plan[at].controls)
  <2>1. Len(admitted[at]) <= Len(plan[at].controls)
    BY <1>3 DEF IInv, PlaceOK
  <2> QED
    BY <1>2, <1>4, <1>5, <2>1
<1>7. ASSUME control <= Len(plan[at].controls)
      PROVE  /\ <<at, control>> \in Positions \ Admitted
             /\ Command = plan[at].controls[control] /\ Command = At(<<at, control>>)
             /\ Command \in Control
             /\ Command.executable \in Names /\ Command.directory \in Places
  <2>1. control \in 1 .. Len(plan[at].controls)
    BY <1>5, <1>6, <1>7
  <2>2. <<at, control>> \in Positions
    BY <1>1, <1>4, <2>1, PartsShape
  <2>3. ~(control \in 1 .. Len(admitted[at]))
    BY <1>2, <1>4
  <2>4. <<at, control>> \notin Admitted
    BY <1>1, <2>3, AdmittedShape
  <2>5. Command = plan[at].controls[control] /\ Command = At(<<at, control>>)
    BY DEF Command, Profile, At
  <2> QED
    BY <1>1, <1>4, <2>1, <2>2, <2>4, <2>5, PlanShape
<1> QED
  BY <1>2, <1>3, <1>4, <1>5, <1>6, <1>7 DEF Profile

-----------------------------------------------------------------------------
(* The invariant is inductive *)

LEMMA InitInvariant == Init => IInv
<1> SUFFICES ASSUME Init PROVE IInv
  OBVIOUS
<1> USE DEF PastRoot, InProfile, InControl
<1>1. plan \in Seq(PlanProfile) /\ Len(plan) \in Nat
  BY AdmissionAssumption, PlanShape DEF Init
<1>2. TypeOK
  BY DEF Init, TypeOK, Steps, Places
<1>3. admitted = <<>> /\ DOMAIN admitted = {} /\ Len(admitted) = 0
  BY DEF Init
<1>4. Admitted = {}
  BY <1>3 DEF Admitted
<1>5. PlaceOK
  BY <1>1, <1>3 DEF Init, PlaceOK
<1>6. IdsOK
  BY <1>3, <1>4 DEF Init, IdsOK, Entered
<1>7. FilesOK
  BY <1>4 DEF Init, FilesOK
<1>8. CauseOK
  BY DEF Init, CauseOK, Explained
<1> QED
  BY <1>2, <1>5, <1>6, <1>7, <1>8 DEF IInv

\* What is admitted stays admitted.
LEMMA AdmittedStays ==
    ASSUME plan' = plan, admitted' = admitted
    PROVE  Admitted' = Admitted
BY PlanStays DEF Admitted

\* A refusal keeps what was admitted and has the reason it gives.
LEMMA RejectKeeps ==
    ASSUME IInv, NEW why \in {"plan", "executable", "directory", "cancelled"}, Reject(why),
           Explained(why)
    PROVE  IInv'
<1> USE DEF PastRoot, InProfile, InControl
<1>1. /\ step' = "rejected" /\ cause' = why
      /\ UNCHANGED <<plan, environment, position, seen, caches, admitted, state, err>>
  BY DEF Reject
<1>2. Admitted' = Admitted /\ Positions' = Positions
  BY <1>1, AdmittedStays, PlanStays
<1>3. TypeOK'
  BY <1>1 DEF IInv, TypeOK, Steps, environment, position, caches
<1>4. PlaceOK'
  BY <1>1 DEF IInv, PlaceOK
<1>5. IdsOK'
  BY <1>1, <1>2 DEF IInv, IdsOK, Entered, At, seen
<1>6. FilesOK'
  BY <1>1, <1>2 DEF IInv, FilesOK, At, environment, caches
<1>7. CauseOK'
  <2>1. Explained(why)'
    BY <1>1, <1>2, PlanStays DEF Explained, At, environment
  <2> QED
    BY <1>1, <2>1 DEF CauseOK
<1> QED
  BY <1>3, <1>4, <1>5, <1>6, <1>7 DEF IInv

\* The checks before the first profile, and the steps after the last.
LEMMA PlanStepsKeep ==
    ASSUME IInv, CheckPlan \/ CheckRoot \/ Fail \/ Select
    PROVE  IInv'
<1> USE DEF PastRoot, InProfile, InControl
<1>1. CASE CheckPlan
  <2>1. plan \in Seq(PlanProfile)
    BY PlanIsPlan DEF IInv
  <2>2. CASE ~(ValidHeader /\ ValidAggregate)
    <3>1. Reject("plan")
      BY <1>1, <2>2 DEF CheckPlan
    <3>2. Explained("plan")
      BY <2>1, <2>2, LimitsAreWithin DEF Explained
    <3> QED
      BY <3>1, <3>2, RejectKeeps
  <2>3. CASE ValidHeader /\ ValidAggregate
    <3>1. /\ step = "plan" /\ step' = "root"
          /\ UNCHANGED <<plan, environment, result, position, seen, caches, admitted>>
      BY <1>1, <2>3 DEF CheckPlan, GoTo
    <3>2. Admitted' = Admitted /\ Positions' = Positions
      BY <3>1, AdmittedStays, PlanStays
    <3>3. TypeOK'
      BY <3>1 DEF IInv, TypeOK, Steps, environment, position, caches, result
    <3>4. PlaceOK'
      BY <3>1 DEF IInv, PlaceOK, position
    <3>5. IdsOK'
      BY <3>1, <3>2 DEF IInv, IdsOK, Entered, At, seen
    <3>6. FilesOK'
      BY <3>1, <3>2 DEF IInv, FilesOK, At, environment, caches
    <3>7. CauseOK'
      <4>1. Within'
        BY <2>1, <2>3, <3>1, LimitsAreWithin, PlanStays
      <4>2. Explained(cause)'
        BY <3>1, <3>2, PlanStays DEF IInv, CauseOK, Explained, At, environment, result
      <4> QED
        BY <4>1, <4>2 DEF CauseOK
    <3> QED
      BY <3>3, <3>4, <3>5, <3>6, <3>7 DEF IInv
  <2> QED
    BY <2>2, <2>3
<1>2. CASE CheckRoot
  <2>1. CASE Root \notin standing
    <3>1. Reject("directory")
      BY <1>2, <2>1 DEF CheckRoot
    <3>2. Explained("directory")
      <4>1. (Root \in standing) = FALSE /\ <<Root, Root \in standing>> \in stood
        BY <2>1 DEF IInv, FilesOK, Places
      <4>2. <<Root, FALSE>> \in stood
        BY <4>1, Zenon
      <4> QED
        BY <4>2 DEF Explained
    <3> QED
      BY <3>1, <3>2, RejectKeeps
  <2>2. CASE Root \in standing
    <3>1. /\ step = "root" /\ step' = "profile"
          /\ UNCHANGED <<plan, environment, result, position, seen, caches, admitted>>
      BY <1>2, <2>2 DEF CheckRoot, GoTo
    <3>2. Admitted' = Admitted /\ Positions' = Positions
      BY <3>1, AdmittedStays, PlanStays
    <3>3. TypeOK'
      BY <3>1 DEF IInv, TypeOK, Steps, environment, position, caches, result
    <3>4. PlaceOK'
      BY <3>1 DEF IInv, PlaceOK, position
    <3>5. IdsOK'
      BY <3>1, <3>2 DEF IInv, IdsOK, Entered, At, seen
    <3>6. FilesOK'
      BY <2>2, <3>1, <3>2 DEF IInv, FilesOK, At, environment, caches, Places
    <3>7. CauseOK'
      BY <3>1, <3>2, PlanStays DEF IInv, CauseOK, Explained, At, environment, result
    <3> QED
      BY <3>3, <3>4, <3>5, <3>6, <3>7 DEF IInv
  <2> QED
    BY <2>1, <2>2
<1>3. CASE Fail \/ Select
  <2>1. /\ \/ step' = "returned"
           \/ /\ step = "profile" /\ at > Len(plan) /\ Selected \in profiles
              /\ step' = "header"
        /\ UNCHANGED <<plan, environment, position, seen, caches, admitted, cause>>
    BY <1>3 DEF Fail, Select, Return
  <2>2. Admitted' = Admitted /\ Positions' = Positions
    BY <2>1, AdmittedStays, PlanStays
  <2>3. TypeOK'
    BY <2>1 DEF IInv, TypeOK, Steps, environment, position, caches
  <2>4. PlaceOK'
    BY <2>1 DEF IInv, PlaceOK, position
  <2>5. IdsOK'
    BY <2>1, <2>2 DEF IInv, IdsOK, Entered, At, seen
  <2>6. FilesOK'
    BY <2>1, <2>2 DEF IInv, FilesOK, At, environment, caches
  <2>7. CauseOK'
    BY <2>1, <2>2, PlanStays DEF IInv, CauseOK, Explained, At, environment
  <2> QED
    BY <2>3, <2>4, <2>5, <2>6, <2>7 DEF IInv
<1> QED
  BY <1>1, <1>2, <1>3

\* The file system and the caller's context.
LEMMA EnvironmentKeeps ==
    ASSUME IInv, ChangeFiles \/ EndContext
    PROVE  IInv'
<1> USE DEF PastRoot, InProfile, InControl
<1>1. /\ UNCHANGED <<plan, step, position, seen, caches, admitted, result>>
      /\ resolved \subseteq resolved' /\ stood \subseteq stood'
      /\ parent # "live" => parent' # "live"
  BY DEF ChangeFiles, EndContext
<1>2. Admitted' = Admitted /\ Positions' = Positions
  BY <1>1, AdmittedStays, PlanStays
<1>3. /\ parent' \in {"live", "canceled", "deadline"}
      /\ resolves' \in [Names -> Files \union {NoFile}] /\ standing' \subseteq Places
      /\ Looks(resolves)' \subseteq resolved'
      /\ \A d \in Places : <<d, d \in standing'>> \in stood'
  <2>1. CASE ChangeFiles
    <3>1. resolves' \in [Names -> Files \union {NoFile}] /\ standing' \subseteq Places
      BY <2>1 DEF ChangeFiles, IInv, TypeOK
    <3>2. /\ resolved' = resolved \union Looks(resolves')
          /\ stood' = stood \union {<<d, d \in standing'>> : d \in Places}
          /\ parent' = parent
      BY <2>1 DEF ChangeFiles
    <3> QED
      BY <3>1, <3>2 DEF IInv, TypeOK, Looks
  <2>2. CASE EndContext
    BY <2>2 DEF EndContext, IInv, TypeOK, FilesOK, Looks
  <2> QED
    BY <2>1, <2>2
<1>4. TypeOK'
  BY <1>1, <1>3 DEF IInv, TypeOK, position, caches, result
<1>5. PlaceOK'
  BY <1>1 DEF IInv, PlaceOK, position, Profile
<1>6. IdsOK'
  BY <1>1, <1>2 DEF IInv, IdsOK, Entered, At, seen, position, Command, Profile
<1>7. FilesOK'
  BY <1>1, <1>2, <1>3 DEF IInv, FilesOK, At, caches, position, Command, Profile
<1>8. CauseOK'
  BY <1>1, <1>2, PlanStays DEF IInv, CauseOK, Explained, At, result
<1> QED
  BY <1>4, <1>5, <1>6, <1>7, <1>8 DEF IInv

\* admitProfile, up to its loop.
LEMMA EnterProfileKeeps ==
    ASSUME IInv, EnterProfile
    PROVE  IInv'
<1> USE DEF PastRoot, InProfile, InControl
<1> DEFINE n == Len(admitted)
<1>1. plan \in Seq(PlanProfile) /\ step = "profile" /\ at <= Len(plan)
  BY PlanIsPlan DEF IInv, EnterProfile
<1>2. /\ n \in Nat /\ DOMAIN admitted = 1 .. n /\ at = n + 1
      /\ \A i \in 1 .. n : i \in 1 .. Len(plan) /\ Len(admitted[i]) = Len(plan[i].controls)
  BY <1>1, AdmittedShape DEF IInv, PlaceOK
<1>3. at \in 1 .. Len(plan) /\ Profile = plan[at] /\ Len(plan[at].controls) \in Nat
  BY <1>1, <1>2, PlanShape DEF Profile
<1>4. CASE parent # "live"
  <2>1. Reject("cancelled")
    BY <1>4 DEF EnterProfile
  <2> QED
    BY <1>4, <2>1, RejectKeeps DEF Explained
<1>5. CASE parent = "live" /\ ~ValidProfile
  <2>1. Reject("plan")
    BY <1>5 DEF EnterProfile
  <2>2. ~WellFormed
    <3>1. CASE ~Profile.valid \/ Profile.controls = <<>> \/ ~(Len(Profile.controls) <= MaxControls)
      <4>1. ~(plan[at].valid /\ Len(plan[at].controls) \in 1 .. MaxControls)
        BY <1>3, <3>1
      <4> QED
        BY <1>1, <1>3, <4>1, PlanShape DEF WellFormed
    <3>2. CASE Profile.id \in profiles
      <4>1. PICK i \in 1 .. n : plan[i].id = plan[at].id
        BY <1>2, <1>3, <3>2 DEF IInv, IdsOK
      <4>2. i \in DOMAIN plan /\ at \in DOMAIN plan /\ i # at
        BY <1>1, <1>2, <1>3, PlanShape
      <4> QED
        BY <4>1, <4>2 DEF WellFormed
    <3> QED
      BY <1>5, <3>1, <3>2 DEF ValidProfile
  <2> QED
    BY <2>1, <2>2, RejectKeeps DEF Explained
<1>6. CASE parent = "live" /\ ValidProfile
  <2>1. /\ profiles' = profiles \union {Profile.id} /\ controls' = {} /\ control' = 1
        /\ admitted' = Append(admitted, <<>>) /\ step' = "control"
        /\ UNCHANGED <<plan, environment, result, at, caches>>
    BY <1>6 DEF EnterProfile, GoTo
  <2>2. /\ Len(admitted') = at /\ DOMAIN admitted' = 1 .. at
        /\ admitted'[at] = <<>> /\ \A i \in 1 .. n : admitted'[i] = admitted[i]
        /\ admitted' \in Seq(Seq(Choice))
    <3>1. admitted \in Seq(Seq(Choice)) /\ <<>> \in Seq(Choice)
      BY DEF IInv, TypeOK
    <3> QED
      BY <1>2, <2>1, <3>1
  <2>3. \A i : i \in 1 .. at <=> i \in 1 .. n \/ i = at
    BY <1>2
  <2>4. Positions' = Positions
    BY <2>1, PlanStays
  <2>5. Admitted' = Admitted
    <3>1. DOMAIN <<>> = {}
      OBVIOUS
    <3>2. ASSUME NEW p \in Positions
          PROVE  (/\ p[1] \in DOMAIN admitted' /\ p[2] \in DOMAIN admitted'[p[1]])
                   <=> (/\ p[1] \in DOMAIN admitted /\ p[2] \in DOMAIN admitted[p[1]])
      BY <1>2, <2>2, <2>3, <3>1
    <3> QED
      BY <2>4, <3>2 DEF Admitted
  <2>6. TypeOK'
    BY <2>1, <2>2 DEF IInv, TypeOK, Steps, environment, caches, result
  <2>7. PlaceOK'
    <3>1. Len(<<>>) = 0
      OBVIOUS
    <3> QED
      BY <1>2, <1>3, <2>1, <2>2, <2>3, <3>1 DEF PlaceOK
  <2>8. IdsOK'
    <3>1. profiles' = {plan[i].id : i \in 1 .. at}
      BY <1>2, <1>3, <2>1, <2>3 DEF IInv, IdsOK
    <3>2. \A i, j \in 1 .. at : i # j => plan[i].id # plan[j].id
      <4>1. \A i \in 1 .. n : plan[i].id # plan[at].id
        BY <1>2, <1>3, <1>6 DEF IInv, IdsOK, ValidProfile
      <4> QED
        BY <1>2, <2>3, <4>1 DEF IInv, IdsOK
    <3>3. \A i \in 1 .. at : plan[i].valid /\ Len(plan[i].controls) \in 1 .. MaxControls
      <4>1. plan[at].valid /\ Len(plan[at].controls) \in 1 .. MaxControls
        <5>1. plan[at].controls \in Seq(Control) /\ plan[at].controls # <<>>
          BY <1>1, <1>3, <1>6, PlanShape DEF ValidProfile
        <5>2. Len(plan[at].controls) # 0
          BY <5>1
        <5> QED
          BY <1>3, <1>6, <5>2, AdmissionAssumption DEF ValidProfile
      <4> QED
        BY <1>2, <2>3, <4>1 DEF IInv, IdsOK
    <3>4. \A p \in Admitted : p[1] \in 1 .. n
      BY <1>2 DEF Admitted
    <3>5. {At(p).id : p \in {q \in Admitted : q[1] = at}} = {}
      BY <1>2, <3>4
    <3>6. Entered' = Admitted /\ Entered = Admitted
      BY <1>1, <2>1, <2>5 DEF Entered
    <3>7. /\ \A p, q \in Admitted : p[1] = q[1] /\ p # q => At(p).id # At(q).id
          /\ \A p \in Admitted : At(p).flaw = "none"
      BY <3>6 DEF IInv, IdsOK
    <3>8. plan' = plan /\ at' = at /\ step' = "control" /\ controls' = {}
      BY <2>1
    <3> HIDE DEF n
    <3>9. controls' = {At(p)'.id : p \in {q \in Entered' : q[1] = at'}}
      BY <3>5, <3>6, <3>8, Zenon DEF At
    <3>10. /\ \A p, q \in Entered' : p[1] = q[1] /\ p # q => At(p)'.id # At(q)'.id
           /\ \A p \in Admitted' : At(p)'.flaw = "none"
      BY <2>5, <3>6, <3>7, <3>8 DEF At
    <3> HIDE DEF Entered
    <3> QED
      BY <2>2, <3>1, <3>2, <3>3, <3>8, <3>9, <3>10 DEF IdsOK
  <2>9. FilesOK'
    <3>1. ASSUME NEW p \in Admitted PROVE admitted'[p[1]][p[2]] = admitted[p[1]][p[2]]
      BY <1>2, <2>2 DEF Admitted
    <3> QED
      BY <1>1, <2>1, <2>5, <3>1 DEF IInv, FilesOK, At, environment, caches
  <2>10. CauseOK'
    BY <1>1, <2>1, <2>4, PlanStays DEF IInv, CauseOK, Explained, At, environment, result
  <2> QED
    BY <2>6, <2>7, <2>8, <2>9, <2>10 DEF IInv
<1> QED
  BY <1>4, <1>5, <1>6

\* admitControl, up to its command.
LEMMA EnterControlKeeps ==
    ASSUME IInv, EnterControl
    PROVE  IInv'
<1> USE DEF PastRoot, InProfile, InControl
<1> DEFINE here == <<at, control>>
<1>1. step = "control" /\ control <= Len(plan[at].controls) /\ Profile = plan[at]
  BY ControlAtHand DEF EnterControl
<1>2. /\ here \in Positions /\ here \notin Admitted /\ Command = At(here)
      /\ here[1] = at
  BY <1>1, ControlAtHand
<1>3. /\ Entered = Admitted
      /\ controls = {At(p).id : p \in {q \in Admitted : q[1] = at}}
  BY <1>1 DEF IInv, IdsOK, Entered
<1>4. CASE parent # "live"
  <2>1. Reject("cancelled")
    BY <1>4 DEF EnterControl
  <2> QED
    BY <1>4, <2>1, RejectKeeps DEF Explained
<1>5. CASE parent = "live" /\ (Command.id \in controls \/ Command.flaw = "bounds")
  <2>1. Reject("plan")
    BY <1>5 DEF EnterControl
  <2>2. ~WellFormed
    <3>1. CASE Command.flaw = "bounds"
      BY <1>2, <3>1 DEF WellFormed
    <3>2. CASE Command.id \in controls
      <4>1. PICK p \in Admitted : p[1] = at /\ At(p).id = At(here).id
        BY <1>2, <1>3, <3>2
      <4>2. p \in Positions /\ p # here
        BY <1>2, <4>1 DEF Admitted
      <4> QED
        BY <1>2, <4>1, <4>2 DEF WellFormed
    <3> QED
      BY <1>5, <3>1, <3>2
  <2> QED
    BY <2>1, <2>2, RejectKeeps DEF Explained
<1>6. CASE parent = "live" /\ Command.id \notin controls /\ Command.flaw # "bounds"
  <2>1. /\ controls' = controls \union {Command.id} /\ step' = "executable"
        /\ UNCHANGED <<plan, environment, result, position, profiles, caches, admitted>>
    BY <1>6 DEF EnterControl, GoTo
  <2>2. Admitted' = Admitted /\ Positions' = Positions
    BY <2>1, AdmittedStays, PlanStays
  <2>3. Entered' = Admitted \union {here} /\ Command' = Command
    BY <2>1, <2>2 DEF Entered, Command, Profile, position
  <2>4. TypeOK'
    BY <2>1 DEF IInv, TypeOK, Steps, environment, position, caches, result
  <2>5. PlaceOK'
    BY <1>1, <2>1 DEF IInv, PlaceOK, position, Profile
  <2>6. IdsOK'
    <3>1. {q \in Admitted \union {here} : q[1] = at} = {q \in Admitted : q[1] = at} \union {here}
      BY <1>2
    <3>2. controls' = {At(p).id : p \in {q \in Admitted \union {here} : q[1] = at}}
      BY <1>2, <1>3, <2>1, <3>1
    <3>3. \A p \in Admitted : p[1] = at => At(p).id # At(here).id
      BY <1>2, <1>3, <1>6
    <3>4. \A p, q \in Admitted \union {here} : p[1] = q[1] /\ p # q => At(p).id # At(q).id
      BY <1>2, <1>3, <3>3 DEF IInv, IdsOK
    <3>5. plan' = plan /\ at' = at /\ profiles' = profiles /\ admitted' = admitted
      BY <2>1 DEF position
    <3>6. controls' = {At(p)'.id : p \in {q \in Entered' : q[1] = at'}}
      BY <2>3, <3>2, <3>5, Zenon DEF At
    <3>7. /\ \A p, q \in Entered' : p[1] = q[1] /\ p # q => At(p)'.id # At(q)'.id
          /\ \A p \in Admitted' : At(p)'.flaw = "none"
      BY <2>2, <2>3, <3>4, <3>5 DEF IInv, IdsOK, At
    <3>8. /\ profiles = {plan[i].id : i \in DOMAIN admitted}
          /\ \A i, j \in DOMAIN admitted : i # j => plan[i].id # plan[j].id
          /\ \A i \in DOMAIN admitted :
                plan[i].valid /\ Len(plan[i].controls) \in 1 .. MaxControls
      BY DEF IInv, IdsOK
    <3>9. Command'.flaw # "bounds" /\ step' = "executable"
      BY <1>6, <2>1, <2>3
    <3> QED
      BY <3>5, <3>6, <3>7, <3>8, <3>9 DEF IdsOK
  <2>7. FilesOK'
    BY <1>1, <2>1, <2>2 DEF IInv, FilesOK, At, environment, caches
  <2>8. CauseOK'
    BY <1>1, <2>1, <2>2, PlanStays DEF IInv, CauseOK, Explained, At, environment, result
  <2> QED
    BY <2>4, <2>5, <2>6, <2>7, <2>8 DEF IInv
<1> QED
  BY <1>4, <1>5, <1>6

\* The lookup of an executable, or its remembered answer.
LEMMA ResolveKeeps ==
    ASSUME IInv, Resolve
    PROVE  IInv'
<1> USE DEF PastRoot, InProfile, InControl
<1> DEFINE name == Command.executable
<1>1. step = "executable" /\ <<at, control>> \in Positions /\ Command = At(<<at, control>>)
        /\ name \in Names
  <2>1. step = "executable"
    BY DEF Resolve
  <2>2. control <= Len(plan[at].controls)
    BY <2>1 DEF IInv, PlaceOK, Profile
  <2> QED
    BY <2>1, <2>2, ControlAtHand
<1>2. CASE ~Known(name) /\ resolves[name] = NoFile
  <2>1. Reject("executable")
    BY <1>2 DEF Resolve
  <2>2. <<name, NoFile>> \in resolved
    BY <1>1, <1>2 DEF IInv, FilesOK, Looks
  <2>3. Explained("executable")
    BY <1>1, <2>2 DEF Explained
  <2> QED
    BY <2>1, <2>3, RejectKeeps
<1>3. CASE Known(name) \/ resolves[name] # NoFile
  <2>1. /\ step' = "directory"
        /\ UNCHANGED <<plan, environment, result, position, seen, directories, admitted>>
        /\ \/ Known(name) /\ executables' = executables
           \/ ~Known(name) /\ executables' = [executables EXCEPT ![name] = resolves[name]]
    BY <1>3 DEF Resolve, GoTo, caches
  <2>2. Admitted' = Admitted /\ Positions' = Positions
    BY <2>1, AdmittedStays, PlanStays
  <2>3. Entered' = Entered /\ Command' = Command
    BY <1>1, <2>1, <2>2 DEF Entered, Command, Profile, position
  <2>4. /\ executables' \in [Names -> Files \union {NoFile}] /\ executables'[name] # NoFile
        /\ \A n \in Names : executables[n] # NoFile => executables'[n] = executables[n]
        /\ \A n \in Names : executables'[n] # NoFile => <<n, executables'[n]>> \in resolved
    BY <1>1, <1>3, <2>1 DEF IInv, TypeOK, FilesOK, Known, Looks
  <2>5. TypeOK'
    BY <2>1, <2>4 DEF IInv, TypeOK, Steps, environment, position, result
  <2>6. PlaceOK'
    BY <1>1, <2>1 DEF IInv, PlaceOK, position, Profile
  <2>7. IdsOK'
    <3>1. plan' = plan /\ at' = at /\ profiles' = profiles /\ controls' = controls
          /\ admitted' = admitted /\ step' = "directory"
      BY <2>1 DEF seen, position
    <3>2. /\ controls = {At(p).id : p \in {q \in Entered : q[1] = at}}
          /\ Command.flaw # "bounds"
      BY <1>1 DEF IInv, IdsOK
    <3>3. controls' = {At(p)'.id : p \in {q \in Entered' : q[1] = at'}}
      BY <2>3, <3>1, <3>2, Zenon DEF At
    <3>4. /\ \A p, q \in Entered' : p[1] = q[1] /\ p # q => At(p)'.id # At(q)'.id
          /\ \A p \in Admitted' : At(p)'.flaw = "none"
      BY <2>2, <2>3, <3>1 DEF IInv, IdsOK, At
    <3>5. Command'.flaw # "bounds"
      BY <2>3, <3>2
    <3> QED
      BY <3>1, <3>3, <3>4, <3>5 DEF IInv, IdsOK
  <2>8. FilesOK'
    <3>1. ASSUME NEW p \in Admitted
          PROVE  /\ executables[At(p).executable] # NoFile
                 /\ executables'[At(p).executable] = executables[At(p).executable]
      <4>1. executables[At(p).executable] # NoFile
        BY DEF IInv, FilesOK
      <4>2. At(p).executable \in Names
        <5>1. p \in Positions /\ plan \in Seq(PlanProfile)
          BY PlanIsPlan DEF Admitted, IInv
        <5> QED
          BY <5>1, PartsShape, PlanShape DEF At
      <4> QED
        BY <2>4, <4>1, <4>2
    <3>2. \A p \in Admitted :
            /\ executables'[At(p).executable] # NoFile /\ At(p).directory \in directories
            /\ admitted[p[1]][p[2]] =
                 [file |-> executables'[At(p).executable], directory |-> At(p).directory]
      BY <3>1 DEF IInv, FilesOK
    <3>3. executables'[Command'.executable] # NoFile
      BY <2>3, <2>4
    <3>4. /\ UNCHANGED <<plan, environment, directories, admitted>> /\ step' = "directory"
          /\ <<Root, TRUE>> \in stood
      BY <1>1, <2>1 DEF IInv, FilesOK
    <3> QED
      BY <2>2, <2>4, <3>2, <3>3, <3>4 DEF IInv, FilesOK, At, environment
  <2>9. CauseOK'
    BY <1>1, <2>1, <2>2, PlanStays DEF IInv, CauseOK, Explained, At, environment, result
  <2> QED
    BY <2>5, <2>6, <2>7, <2>8, <2>9 DEF IInv
<1> QED
  BY <1>2, <1>3

\* After the last control of a profile.
LEMMA LeaveProfileKeeps ==
    ASSUME IInv, LeaveProfile
    PROVE  IInv'
<1> USE DEF PastRoot, InProfile, InControl
<1>1. /\ step = "control" /\ step' = "profile" /\ at' = at + 1
      /\ UNCHANGED <<plan, environment, result, control, seen, caches, admitted>>
  BY DEF LeaveProfile, GoTo
<1>2. Admitted' = Admitted /\ Positions' = Positions /\ Entered' = Admitted /\ Entered = Admitted
  BY <1>1, AdmittedStays, PlanStays DEF Entered
<1>3. /\ at = Len(admitted) /\ at \in Nat
      /\ Len(admitted[at]) = Len(plan[at].controls)
  <2>1. control > Len(plan[at].controls)
    BY DEF LeaveProfile, Profile
  <2>2. /\ at \in 1 .. Len(plan) /\ at = Len(admitted) /\ Len(plan[at].controls) \in Nat
        /\ control = Len(admitted[at]) + 1 /\ control - 1 <= Len(plan[at].controls)
        /\ control \in Nat
    BY <1>1, ControlAtHand
  <2>3. Len(admitted[at]) \in Nat
    <3>1. at \in 1 .. Len(admitted)
      BY <1>1, <2>2, ControlAtHand
    <3> QED
      BY <3>1, AdmittedShape DEF IInv
  <2> QED
    BY <2>1, <2>2, <2>3
<1>4. TypeOK'
  BY <1>1, <1>3 DEF IInv, TypeOK, Steps, environment, caches, result
<1>5. PlaceOK'
  <2>1. \A i \in DOMAIN admitted : i < Len(admitted) \/ i = at
    BY <1>3, AdmittedShape DEF IInv
  <2> QED
    BY <1>1, <1>3, <2>1 DEF IInv, PlaceOK
<1>6. IdsOK'
  BY <1>1, <1>2 DEF IInv, IdsOK, At, seen
<1>7. FilesOK'
  BY <1>1, <1>2 DEF IInv, FilesOK, At, environment, caches
<1>8. CauseOK'
  BY <1>1, <1>2, PlanStays DEF IInv, CauseOK, Explained, At, environment, result
<1> QED
  BY <1>4, <1>5, <1>6, <1>7, <1>8 DEF IInv

\* admittedDirectoryCached and the strings: the control is admitted.
LEMMA EnterDirectoryKeeps ==
    ASSUME IInv, EnterDirectory
    PROVE  IInv'
<1> USE DEF PastRoot, InProfile, InControl
<1> DEFINE here == <<at, control>>
           d == Command.directory
           one == [file |-> executables[Command.executable], directory |-> d]
           n == Len(admitted)
<1>1. step = "directory" /\ control <= Len(plan[at].controls)
  <2>1. step = "directory"
    BY DEF EnterDirectory
  <2> QED
    BY <2>1 DEF IInv, PlaceOK, Profile
<1>2. /\ here \in Positions /\ here \notin Admitted /\ Command = At(here) /\ Command \in Control
      /\ d \in Places /\ Command.executable \in Names
      /\ at \in 1 .. Len(plan) /\ at = n /\ at \in DOMAIN admitted
      /\ control \in Nat /\ control = Len(admitted[at]) + 1 /\ Len(plan[at].controls) \in Nat
  BY <1>1, ControlAtHand
<1>3. CASE d \notin directories \union standing
  <2>1. Reject("directory")
    BY <1>3 DEF EnterDirectory
  <2>2. <<d, FALSE>> \in stood
    <3>1. (d \in standing) = FALSE /\ <<d, d \in standing>> \in stood
      BY <1>2, <1>3 DEF IInv, FilesOK
    <3> QED
      BY <3>1, Zenon
  <2>3. Explained("directory")
    BY <1>2, <2>2 DEF Explained
  <2> QED
    BY <2>1, <2>3, RejectKeeps
<1>4. CASE d \in directories \union standing /\ Command.flaw = "strings"
  <2>1. Reject("plan")
    BY <1>4 DEF EnterDirectory
  <2>2. ~WellFormed
    BY <1>2, <1>4 DEF WellFormed
  <2> QED
    BY <2>1, <2>2, RejectKeeps DEF Explained
<1>5. CASE d \in directories \union standing /\ Command.flaw # "strings"
  <2>1. /\ directories' = directories \union {d} /\ step' = "control" /\ control' = control + 1
        /\ admitted' = [admitted EXCEPT ![at] = Append(@, one)]
        /\ UNCHANGED <<plan, environment, result, at, seen, executables>>
    BY <1>5 DEF EnterDirectory, GoTo
  <2>2. /\ n \in Nat /\ DOMAIN admitted = 1 .. n
        /\ \A i \in 1 .. n : admitted[i] \in Seq(Choice) /\ Len(admitted[i]) \in Nat
                             /\ DOMAIN admitted[i] = 1 .. Len(admitted[i])
    BY AdmittedShape DEF IInv
  <2>3. one \in Choice /\ one.file # NoFile
    BY <1>1, <1>2 DEF IInv, TypeOK, FilesOK, Choice
  <2>4. /\ Len(admitted') = n /\ DOMAIN admitted' = 1 .. n /\ admitted' \in Seq(Seq(Choice))
        /\ \A i \in 1 .. n : i # at => admitted'[i] = admitted[i]
        /\ Len(admitted'[at]) = control /\ DOMAIN admitted'[at] = 1 .. control
        /\ admitted'[at][control] = one
        /\ \A j \in 1 .. control - 1 : admitted'[at][j] = admitted[at][j]
    <3>1. admitted'[at] = Append(admitted[at], one)
      BY <1>2, <2>1
    <3>2. admitted[at] \in Seq(Choice) /\ Append(admitted[at], one) \in Seq(Choice)
      <4>1. admitted[at] \in Seq(Choice)
        BY <1>2, <2>2
      <4> HIDE DEF one
      <4> QED
        BY <2>3, <4>1
    <3>3. /\ Len(admitted'[at]) = control /\ DOMAIN admitted'[at] = 1 .. control
          /\ admitted'[at][control] = one
          /\ \A j \in 1 .. control - 1 : admitted'[at][j] = admitted[at][j]
      <4>1. Len(admitted[at]) + 1 = control
        BY <1>2
      <4> HIDE DEF one
      <4> QED
        BY <3>1, <3>2, <4>1
    <3>4. admitted \in Seq(Seq(Choice))
      BY DEF IInv, TypeOK
    <3>5. /\ Len(admitted') = n /\ DOMAIN admitted' = 1 .. n /\ admitted' \in Seq(Seq(Choice))
          /\ \A i \in 1 .. n : i # at => admitted'[i] = admitted[i]
      <4> HIDE DEF one
      <4> QED
        BY <1>2, <2>1, <2>2, <3>2, <3>4
    <3> QED
      BY <3>3, <3>5
  <2>5. Positions' = Positions
    BY <2>1, PlanStays
  <2>6. Admitted' = Admitted \union {here}
    <3>1. ASSUME NEW p \in Positions
          PROVE  (p[1] \in 1 .. n /\ p[2] \in DOMAIN admitted'[p[1]])
                   <=> (p[1] \in 1 .. n /\ p[2] \in DOMAIN admitted[p[1]]) \/ p = here
      <4>1. p = <<p[1], p[2]>>
        BY PlanIsPlan, PartsShape DEF IInv
      <4>2. CASE p[1] = at
        <5>1. p[2] \in 1 .. control <=> p[2] \in 1 .. control - 1 \/ p[2] = control
          BY <1>2, <2>2
        <5>2. DOMAIN admitted[at] = 1 .. control - 1
          BY <1>2, <2>2
        <5>3. at \in 1 .. n /\ DOMAIN admitted'[at] = 1 .. control
          BY <1>2, <2>2, <2>4
        <5> HIDE DEF n
        <5> QED
          BY <4>1, <4>2, <5>1, <5>2, <5>3
      <4>3. CASE p[1] # at
        BY <2>4, <4>3
      <4> QED
        BY <4>2, <4>3
    <3> QED
      BY <1>2, <2>2, <2>4, <2>5, <3>1 DEF Admitted
  <2>7. Entered' = Admitted' /\ Entered = Admitted \union {here}
    BY <1>1, <2>1 DEF Entered
  <2>8. TypeOK'
    <3>1. directories' \subseteq Places /\ control' \in Nat
      <4>1. directories \subseteq Places /\ d \in Places /\ control + 1 \in Nat
        BY <1>2 DEF IInv, TypeOK
      <4>2. directories' = directories \union {d} /\ control' = control + 1
        BY <2>1
      <4> HIDE DEF d
      <4> QED
        BY <4>1, <4>2
    <3>2. /\ UNCHANGED <<plan, environment, result, at, executables>> /\ step' = "control"
          /\ admitted' \in Seq(Seq(Choice))
      BY <2>1, <2>4
    <3> QED
      BY <3>1, <3>2 DEF IInv, TypeOK, Steps, environment, result
  <2>9. PlaceOK'
    <3>1. control <= Len(plan[at].controls) /\ control + 1 = Len(admitted'[at]) + 1
      BY <1>1, <2>4
    <3>2. ASSUME NEW i \in 1 .. n
          PROVE  /\ Len(admitted'[i]) <= Len(plan[i].controls)
                 /\ i < n => Len(admitted'[i]) = Len(plan[i].controls)
      <4>1. CASE i = at
        BY <1>2, <2>4, <3>1, <4>1
      <4>2. CASE i # at
        BY <2>2, <2>4, <4>2 DEF IInv, PlaceOK
      <4> QED
        BY <4>1, <4>2
    <3>3. n <= Len(plan) /\ at # 0
      BY <1>2 DEF IInv, PlaceOK
    <3>4. plan' = plan /\ at' = at
      BY <2>1
    <3> QED
      BY <1>2, <2>1, <2>4, <3>1, <3>2, <3>3, <3>4 DEF PlaceOK
  <2>10. IdsOK'
    <3>1. At(here).flaw = "none"
      BY <1>1, <1>2, <1>5 DEF IInv, IdsOK, Control
    <3>2. plan' = plan /\ at' = at /\ profiles' = profiles /\ controls' = controls
          /\ step' = "control" /\ DOMAIN admitted' = DOMAIN admitted
      BY <2>1, <2>2, <2>4 DEF seen
    <3> QED
      BY <1>1, <2>6, <2>7, <3>1, <3>2 DEF IInv, IdsOK, At
  <2>11. FilesOK'
    <3>1. ASSUME NEW p \in Admitted
          PROVE  admitted'[p[1]][p[2]] = admitted[p[1]][p[2]]
      <4>1. p[1] \in 1 .. n /\ p[2] \in 1 .. Len(admitted[p[1]])
        BY <2>2 DEF Admitted
      <4>2. Len(admitted[at]) = control - 1
        BY <1>2, <2>2
      <4> QED
        BY <2>4, <4>1, <4>2, SMTT(30)
    <3>2. executables[At(here).executable] # NoFile /\ At(here).directory \in directories'
      BY <1>1, <1>2, <2>1 DEF IInv, FilesOK
    <3>3. admitted'[here[1]][here[2]] =
            [file |-> executables[At(here).executable], directory |-> At(here).directory]
      BY <1>2, <2>4
    <3>4. \A e \in directories' \ {Root} : <<e, TRUE>> \in stood
      <4>1. d \in standing => <<d, TRUE>> \in stood
        <5>1. <<d, d \in standing>> \in stood
          BY <1>2 DEF IInv, FilesOK
        <5>2. d \in standing => (d \in standing) = TRUE
          OBVIOUS
        <5> QED
          BY <5>1, <5>2, Zenon
      <4> QED
        BY <1>5, <2>1, <4>1 DEF IInv, FilesOK
    <3>5. \A p \in Admitted' :
            /\ executables[At(p).executable] # NoFile /\ At(p).directory \in directories'
            /\ admitted'[p[1]][p[2]] =
                 [file |-> executables[At(p).executable], directory |-> At(p).directory]
      BY <2>1, <2>6, <3>1, <3>2, <3>3 DEF IInv, FilesOK
    <3>6. UNCHANGED <<plan, environment, executables>> /\ step' = "control"
      BY <2>1
    <3> QED
      BY <1>1, <3>4, <3>5, <3>6 DEF IInv, FilesOK, At, environment
  <2>12. CauseOK'
    BY <1>1, <2>1, <2>5, PlanStays DEF IInv, CauseOK, Explained, At, environment, result
  <2> QED
    BY <2>8, <2>9, <2>10, <2>11, <2>12 DEF IInv
<1> QED
  BY <1>3, <1>4, <1>5

LEMMA StepInvariant == IInv /\ [Next]_vars => IInv'
<1> SUFFICES ASSUME IInv, [Next]_vars PROVE IInv'
  OBVIOUS
<1>1. CASE UNCHANGED vars
  <2>1. /\ UNCHANGED <<plan, step, at, control, profiles, controls, executables, directories,
                       admitted, cause, state, err>>
        /\ UNCHANGED <<resolves, standing, resolved, stood, parent>>
    BY <1>1 DEF vars, environment, position, seen, caches, result
  <2>2. Admitted' = Admitted /\ Positions' = Positions
    BY <2>1, AdmittedStays, PlanStays
  <2>3. TypeOK'
    BY <2>1 DEF IInv, TypeOK
  <2>4. PlaceOK'
    BY <2>1 DEF IInv, PlaceOK, Profile
  <2>5. IdsOK'
    BY <2>1, <2>2 DEF IInv, IdsOK, Entered, At, Command, Profile
  <2>6. FilesOK'
    BY <2>1, <2>2 DEF IInv, FilesOK, At, Looks, Command, Profile
  <2>7. CauseOK'
    BY <2>1, <2>2, PlanStays DEF IInv, CauseOK, Explained, At
  <2> QED
    BY <2>3, <2>4, <2>5, <2>6, <2>7 DEF IInv
<1>2. CASE ChangeFiles \/ EndContext
  BY <1>2, EnvironmentKeeps
<1>3. CASE CheckPlan \/ CheckRoot \/ Fail \/ Select
  BY <1>3, PlanStepsKeep
<1>4. CASE EnterProfile
  BY <1>4, EnterProfileKeeps
<1>5. CASE EnterControl
  BY <1>5, EnterControlKeeps
<1>6. CASE Resolve
  BY <1>6, ResolveKeeps
<1>7. CASE EnterDirectory
  BY <1>7, EnterDirectoryKeeps
<1>8. CASE LeaveProfile
  BY <1>8, LeaveProfileKeeps
<1> QED
  BY <1>1, <1>2, <1>3, <1>4, <1>5, <1>6, <1>7, <1>8 DEF Next, Step

\* Admission knows where it is, which identities it met, what its caches hold and
\* why it refuses, whatever changes around it.
THEOREM Invariance == Spec => []IInv
BY InitInvariant, StepInvariant, PTL DEF Spec

-----------------------------------------------------------------------------
(* What admission promises *)

\* Every control of an admitted plan that names an executable gets the file that
\* the first look at the name found.
THEOREM NamesAreLookedUpOnce == Spec => []OneFilePerName
<1>1. IInv => OneFilePerName
  <2> SUFFICES ASSUME IInv, NEW p \in Admitted, NEW q \in Admitted,
                      At(p).executable = At(q).executable
               PROVE  admitted[p[1]][p[2]].file = admitted[q[1]][q[2]].file
    BY DEF OneFilePerName, Admitted
  <2>1. ASSUME NEW r \in Admitted
        PROVE  admitted[r[1]][r[2]].file = executables[At(r).executable]
    <3>1. admitted[r[1]][r[2]] =
            [file |-> executables[At(r).executable], directory |-> At(r).directory]
      BY DEF IInv, FilesOK
    <3>2. \A a, b : [file |-> a, directory |-> b].file = a
      OBVIOUS
    <3> QED
      BY <3>1, <3>2
  <2> QED
    BY <2>1
<1> QED
  BY <1>1, Invariance, PTL

\* An admitted plan keeps every limit and identity, and a refusal has its reason,
\* for every plan, every limit and every history of the file system.
THEOREM VerdictsAreExact == Spec => []AdmissionIsExact
<1>1. IInv => AdmissionIsExact
  <2> SUFFICES ASSUME IInv PROVE AdmissionIsExact
    OBVIOUS
  <2>1. plan \in Seq(PlanProfile)
    BY PlanIsPlan DEF IInv
  <2>2. ASSUME step = "header"
        PROVE  /\ Within /\ WellFormed
               /\ \E i \in DOMAIN plan : plan[i].id = Selected
               /\ [i \in DOMAIN admitted |-> Len(admitted[i])]
                    = [i \in DOMAIN plan |-> Len(plan[i].controls)]
               /\ \A p \in Positions :
                    /\ <<At(p).executable, admitted[p[1]][p[2]].file>> \in resolved
                    /\ <<At(p).directory, TRUE>> \in stood
                    /\ admitted[p[1]][p[2]].directory = At(p).directory
    <3>1. Within
      BY <2>2 DEF IInv, CauseOK, PastRoot
    <3>2. /\ DOMAIN admitted = DOMAIN plan
          /\ \A i \in DOMAIN plan : Len(admitted[i]) = Len(plan[i].controls)
                                    /\ DOMAIN admitted[i] = DOMAIN plan[i].controls
      <4>1. /\ Len(admitted) \in Nat /\ Len(plan) \in Nat
            /\ Len(admitted) <= Len(plan) /\ Len(admitted) + 1 > Len(plan)
        BY <2>1, <2>2, AdmittedShape, PlanShape DEF IInv, PlaceOK
      <4>2. Len(admitted) = Len(plan)
        BY <4>1
      <4>3. \A i \in DOMAIN admitted : Len(admitted[i]) = Len(plan[i].controls)
        BY <2>2 DEF IInv, PlaceOK
      <4> QED
        BY <2>1, <4>2, <4>3, AdmittedShape, PlanShape DEF IInv
    <3>3. Admitted = Positions /\ Entered = Positions
      <4>1. \A p \in Positions : p[1] \in DOMAIN plan /\ p[2] \in DOMAIN plan[p[1]].controls
        BY <2>1, PartsShape, PlanShape
      <4>2. Admitted = Positions
        BY <3>2, <4>1 DEF Admitted
      <4> QED
        BY <2>2, <4>2 DEF Entered, InControl
    <3>4. WellFormed
      BY <3>2, <3>3 DEF IInv, IdsOK, WellFormed
    <3>5. \E i \in DOMAIN plan : plan[i].id = Selected
      BY <2>2, <3>2 DEF IInv, IdsOK
    <3>6. ASSUME NEW p \in Positions
          PROVE  /\ <<At(p).executable, admitted[p[1]][p[2]].file>> \in resolved
                 /\ <<At(p).directory, TRUE>> \in stood
                 /\ admitted[p[1]][p[2]].directory = At(p).directory
      <4>1. /\ executables[At(p).executable] # NoFile /\ At(p).directory \in directories
            /\ admitted[p[1]][p[2]] =
                 [file |-> executables[At(p).executable], directory |-> At(p).directory]
        BY <3>3 DEF IInv, FilesOK
      <4>2. At(p).executable \in Names
        BY <2>1, PartsShape, PlanShape DEF At
      <4>3. <<At(p).executable, executables[At(p).executable]>> \in resolved
        BY <4>1, <4>2 DEF IInv, FilesOK
      <4>4. <<At(p).directory, TRUE>> \in stood
        BY <2>2, <4>1 DEF IInv, FilesOK, PastRoot
      <4> QED
        BY <4>1, <4>3, <4>4
    <3>7. [i \in DOMAIN admitted |-> Len(admitted[i])] = [i \in DOMAIN plan |-> Len(plan[i].controls)]
      BY <3>2
    <3> QED
      BY <3>1, <3>4, <3>5, <3>6, <3>7
  <2> QED
    BY <2>2 DEF AdmissionIsExact, IInv, CauseOK, Explained
<1> QED
  BY <1>1, Invariance, PTL

-----------------------------------------------------------------------------
(* Admission as one step of Execution *)

\* Everything admission does, with all its looks at the context and the file system,
\* is a step of Execution that only sees the caller's context: it passes, or it
\* returns a state and an error that fit that context, or the context ends.
THEOREM RefinesExecution == Spec => AdmissionIsOneStep
<1> USE DEF E!Admit, E!EndParent, E!Ended, E!Return, E!Cancelled, E!vars, E!ctxVars, E!jobVars,
            E!callVars, Phase
<1>1. [Next]_vars => [E!Admit \/ \E why \in E!Ended : E!EndParent(why)]_<<E!vars>>
  <2> SUFFICES ASSUME [Next]_vars
               PROVE  E!Admit \/ (\E why \in E!Ended : E!EndParent(why)) \/ UNCHANGED <<E!vars>>
    OBVIOUS
  <2>1. CASE UNCHANGED vars
    BY <2>1 DEF vars, environment, result
  <2>2. CASE ChangeFiles
    BY <2>2 DEF ChangeFiles, result
  <2>3. CASE EndContext
    BY <2>3 DEF EndContext, Final, result
  <2>4. CASE CheckPlan \/ CheckRoot
    BY <2>4 DEF CheckPlan, CheckRoot, GoTo, Reject, environment, result
  <2>5. CASE EnterProfile \/ EnterControl
    BY <2>5 DEF EnterProfile, EnterControl, GoTo, Reject, environment, result
  <2>6. CASE Resolve \/ EnterDirectory \/ LeaveProfile
    BY <2>6 DEF Resolve, EnterDirectory, LeaveProfile, GoTo, Reject, environment, result
  <2>7. CASE Fail
    BY <2>7 DEF Fail, Return, environment
  <2>8. CASE Select
    BY <2>8 DEF Select, Return, environment
  <2> QED
    BY <2>1, <2>2, <2>3, <2>4, <2>5, <2>6, <2>7, <2>8 DEF Next, Step
<1> QED
  BY <1>1, PTL DEF Spec, AdmissionIsOneStep

-----------------------------------------------------------------------------
(* Planning: the inductive invariant, by concern *)

\* What was found is a repository, and what is asked for is a profile.
InventoryOK ==
    /\ inventory.modules \in Seq(Modules)
    /\ inventory.compatibility \in Seq(SUBSET Nat)
    /\ \A v \in 1 .. Len(inventory.compatibility) : inventory.compatibility[v] # {}
    /\ inventory.shell \in BOOLEAN /\ inventory.workflows \in BOOLEAN
    /\ profile \in Profiles
    /\ targets \in Nat

\* The profiles that analyse, and the controls SelectStaticControls adds for them.
Analyses == profile \in {"static", "all"}
Extra == (IF inventory.shell THEN ShellControls ELSE <<>>)
         \o (IF inventory.workflows THEN WorkflowControls ELSE <<>>)

\* Each step adds what the profile needs to what the steps before it resolved.
AfterFoundation == {"go", "self"} \subseteq programs
AfterAnalysis == AfterFoundation /\ (Analyses => {"linter", "vulnerability"} \subseteq programs)
AfterGit == AfterAnalysis /\ (Analyses /\ inventory.workflows => "git" \in programs)
AfterStatic ==
    /\ AfterGit
    /\ Analyses /\ inventory.shell => {"bash", "shellcheck"} \subseteq programs
    /\ Analyses /\ inventory.workflows => {"actionlint", "shellcheck"} \subseteq programs
    /\ extra = IF Analyses THEN Extra ELSE <<>>

\* The controls of a profile.
PlanFor(p, count) ==
    CASE p = "static"         -> StaticControls
      [] p = "compatibility"  -> CompatibilityControls
      [] p = "test"           -> TestControls
      [] p = "campaign"       -> Compiles \o FuzzControls(count)
      [] p = "fuzz-inventory" -> Compiles \o <<Internal("fuzz_inventory", <<>>, {})>>
      [] p = "benchmark"      -> Compiles \o <<Internal("benchmark", <<>>, {"go"})>>
      [] p = "all"            -> StaticControls \o CompatibilityControls \o TestControls
                                 \o FuzzControls(count)

\* What has been resolved when a step is taken, and what was returned in the end.
StepOK ==
    /\ pc \in {"foundation", "analysis", "git", "fuzz", "static"} => extra = <<>>
    /\ pc = "analysis" => AfterFoundation
    /\ pc = "git" => AfterAnalysis
    /\ pc \in {"fuzz", "static"} => AfterGit
    /\ pc = "build" => AfterStatic
    /\ Planned =>
        /\ pc = "returned"
        /\ AfterStatic
        /\ Plan = PlanFor(profile, targets)
        /\ IsInjective([i \in DOMAIN Plan |-> <<Plan[i].role, Plan[i].at>>])

PlanningIInv == InventoryOK /\ StepOK

-----------------------------------------------------------------------------
LEMMA InventoryInit == PlanningInit => InventoryOK
<1> SUFFICES ASSUME PlanningInit PROVE InventoryOK
  OBVIOUS
<1> DEFINE modules == inventory.modules
           versions == inventory.compatibility
<1>1. /\ modules \in SeqOf(Modules, MaxModules)
      /\ versions \in SeqOf((SUBSET (1 .. MaxModules)) \ {{}}, MaxVersions)
      /\ inventory.shell \in BOOLEAN /\ inventory.workflows \in BOOLEAN
  BY DEF PlanningInit, Inventories
<1> HIDE DEF modules, versions
<1>2. modules \in Seq(Modules)
  <2>1. PICK m \in 0 .. MaxModules : modules \in [1 .. m -> Modules]
    BY <1>1 DEF SeqOf
  <2> QED
    BY <2>1
<1>3. PICK m \in 0 .. MaxVersions : versions \in [1 .. m -> (SUBSET (1 .. MaxModules)) \ {{}}]
  BY <1>1 DEF SeqOf
<1>4. m \in Nat /\ SUBSET (1 .. MaxModules) \subseteq SUBSET Nat
  BY PlanningAssumption
<1>5. versions \in Seq(SUBSET Nat) /\ Len(versions) = m
  <2>1. versions \in [1 .. m -> SUBSET Nat]
    BY <1>3, <1>4
  <2> QED
    BY <1>4, <2>1
<1>6. \A v \in 1 .. Len(versions) : versions[v] # {}
  BY <1>3, <1>5
<1>7. profile \in Profiles /\ targets \in Nat
  BY DEF PlanningInit
<1> QED
  BY <1>1, <1>2, <1>5, <1>6, <1>7 DEF InventoryOK, modules, versions

\* What was found and asked for does not change.
LEMMA InventoryStep ==
    ASSUME InventoryOK, [PlanningNext]_planningVars
    PROVE  InventoryOK' /\ inventory' = inventory /\ profile' = profile
<1>1. inventory' = inventory /\ profile' = profile
  BY DEF PlanningNext, planningVars, PlanningFails, InspectFoundation, SelectAnalysisTools, SelectGitTool,
         SelectFuzzCampaign, SelectStaticControls, ResolveTools, Build, BuildStatic,
         BuildCompatibility, BuildTest, BuildCampaign, BuildInventory, BuildBenchmark,
         BuildAll, Building, Returned
<1>2. targets' \in Nat
  <2>1. TargetCounts \subseteq Nat /\ targets \in Nat
    BY PlanningAssumption DEF InventoryOK
  <2>2. CASE BuildCampaign
    BY <2>1, <2>2 DEF BuildCampaign, Campaigns, Discovers
  <2>3. CASE BuildInventory
    BY <2>1, <2>3 DEF BuildInventory, Discovers
  <2>4. CASE BuildBenchmark
    BY <2>1, <2>4 DEF BuildBenchmark, Discovers
  <2>5. CASE BuildAll
    BY <2>1, <2>5 DEF BuildAll, Campaigns, Discovers
  <2>6. CASE UNCHANGED targets
    BY <2>1, <2>6
  <2> QED
    BY <2>2, <2>3, <2>4, <2>5, <2>6
       DEF PlanningNext, planningVars, PlanningFails, InspectFoundation, SelectAnalysisTools, SelectGitTool,
           SelectFuzzCampaign, SelectStaticControls, ResolveTools, Build, BuildStatic,
           BuildCompatibility, BuildTest, Returned
<1> QED
  BY <1>1, <1>2 DEF InventoryOK

\* What a profile promises depends on what was found only.
LEMMA PlanForStays ==
    ASSUME UNCHANGED <<inventory, profile, extra>>
    PROVE  PlanFor(profile, targets') = PlanFor(profile, targets)'
<1>1. TestScopes' = TestScopes /\ Count' = Count
  BY DEF Concat, TestScopes, Count
<1>2. StaticControls' = StaticControls
  BY <1>1 DEF Concat, StaticControls, Analysis, Count
<1>3. CompatibilityControls' = CompatibilityControls
  BY <1>1 DEF Concat, CompatibilityControls, VersionControls, TestScopes
<1>4. TestControls' = TestControls
  BY <1>1 DEF Concat, TestControls, ScopeControls, TestScopes
<1>5. Compiles' = Compiles
  BY <1>1 DEF Concat, Compiles, Count
<1> QED
  BY <1>2, <1>3, <1>4, <1>5, Zenon DEF PlanFor

\* Building a plan resolves nothing and returns the controls of the profile.
LEMMA BuildStep ==
    ASSUME InventoryOK, StepOK, Build
    PROVE  StepOK'
<1>1. /\ pc = "build" /\ pc' = "returned"
      /\ UNCHANGED <<inventory, profile, programs, extra>>
  BY DEF Build, BuildStatic, BuildCompatibility, BuildTest, BuildCampaign, BuildInventory,
         BuildBenchmark, BuildAll, Building, Admit, ReturnPlan
<1>2. AfterStatic
  BY <1>1 DEF StepOK
<1>3. outcome'.kind = "planned" =>
        /\ outcome'.controls = PlanFor(profile, targets')
        /\ IsInjective([i \in DOMAIN outcome'.controls |->
                         <<outcome'.controls[i].role, outcome'.controls[i].at>>])
  <2>1. ASSUME NEW list, Admit(list), outcome'.kind = "planned"
        PROVE  /\ outcome'.controls = list
               /\ IsInjective([i \in DOMAIN list |-> <<list[i].role, list[i].at>>])
    BY <2>1 DEF Admit, ReturnPlan
  <2>2. ASSUME NEW kind, ReturnPlan(kind, <<>>), kind # "planned"
        PROVE  outcome'.kind # "planned"
    BY <2>2 DEF ReturnPlan
  <2>3. CASE BuildStatic
    BY <2>1, <2>3 DEF BuildStatic, Building, PlanFor
  <2>4. CASE BuildCompatibility
    BY <2>1, <2>4 DEF BuildCompatibility, Building, PlanFor
  <2>5. CASE BuildTest
    BY <2>1, <2>2, <2>5 DEF BuildTest, Building, PlanFor
  <2>6. CASE BuildCampaign
    BY <2>1, <2>2, <2>6 DEF BuildCampaign, Building, Campaigns, Discovers, PlanFor
  <2>7. CASE BuildInventory
    BY <2>1, <2>2, <2>7 DEF BuildInventory, Building, Discovers, PlanFor
  <2>8. CASE BuildBenchmark
    BY <2>1, <2>2, <2>8 DEF BuildBenchmark, Building, Discovers, PlanFor
  <2>9. CASE BuildAll
    BY <2>1, <2>2, <2>9 DEF BuildAll, Building, Campaigns, Discovers, PlanFor
  <2> QED
    BY <2>3, <2>4, <2>5, <2>6, <2>7, <2>8, <2>9 DEF Build
<1>4. AfterStatic'
  BY <1>1, <1>2 DEF AfterStatic, AfterGit, AfterAnalysis, AfterFoundation, Analyses, Extra
<1> QED
  <2>1. Planned' =>
          /\ Plan' = PlanFor(profile, targets')
          /\ IsInjective([i \in DOMAIN Plan' |-> <<Plan'[i].role, Plan'[i].at>>])
    BY <1>3 DEF Planned, Plan
  <2>2. PlanFor(profile, targets') = PlanFor(profile, targets)'
    BY <1>1, PlanForStays
  <2> QED
    BY <1>1, <1>4, <2>1, <2>2 DEF StepOK

\* The steps before the plan is built.
LEMMA ConfigurationStep ==
    ASSUME InventoryOK, StepOK,
           \/ PlanningFails
           \/ InspectFoundation
           \/ SelectAnalysisTools
           \/ SelectGitTool
           \/ SelectFuzzCampaign
           \/ SelectStaticControls
    PROVE  StepOK'
<1>1. CASE PlanningFails
  BY <1>1 DEF PlanningFails, ReturnPlan, StepOK, Planned
<1>2. ASSUME ~Planned, UNCHANGED outcome PROVE ~Planned'
  BY <1>2 DEF Planned
<1>3. CASE InspectFoundation
  BY <1>2, <1>3 DEF InspectFoundation, ResolveTools, StepOK, AfterFoundation
<1>4. CASE SelectAnalysisTools
  <2>1. AfterAnalysis'
    BY <1>4 DEF SelectAnalysisTools, ResolveTools, StepOK, AfterFoundation, AfterAnalysis,
                Analyses
  <2> QED
    BY <1>2, <1>4, <2>1 DEF SelectAnalysisTools, ResolveTools, StepOK
<1>5. CASE SelectGitTool
  <2>1. AfterGit'
    BY <1>5 DEF SelectGitTool, ResolveTools, StepOK, AfterFoundation, AfterAnalysis, AfterGit,
                Analyses
  <2> QED
    BY <1>2, <1>5, <2>1 DEF SelectGitTool, ResolveTools, StepOK
<1>6. CASE SelectFuzzCampaign
  <2>1. AfterGit'
    BY <1>6 DEF SelectFuzzCampaign, ResolveTools, StepOK, AfterFoundation, AfterAnalysis,
                AfterGit, Analyses
  <2> QED
    BY <1>2, <1>6, <2>1 DEF SelectFuzzCampaign, ResolveTools, StepOK
<1>7. CASE SelectStaticControls
  <2>1. AfterGit'
    BY <1>7 DEF SelectStaticControls, ResolveTools, StepOK, AfterFoundation, AfterAnalysis,
                AfterGit, Analyses
  <2>2. /\ Analyses' /\ inventory'.shell => {"bash", "shellcheck"} \subseteq programs'
        /\ Analyses' /\ inventory'.workflows => {"actionlint", "shellcheck"} \subseteq programs'
    BY <1>7 DEF SelectStaticControls, ResolveTools, Analyses
  <2>3. extra' = IF Analyses' THEN Extra' ELSE <<>>
    <3>1. pc = "static" /\ extra = <<>> /\ inventory' = inventory /\ profile' = profile
      BY <1>7 DEF SelectStaticControls, ResolveTools, StepOK
    <3> QED
      BY <1>7, <3>1 DEF SelectStaticControls, Analyses, Extra
  <2>4. AfterStatic'
    BY <2>1, <2>2, <2>3 DEF AfterStatic
  <2> QED
    BY <1>2, <1>7, <2>4 DEF SelectStaticControls, ResolveTools, StepOK
<1> QED
  BY <1>1, <1>3, <1>4, <1>5, <1>6, <1>7

\* What each step has resolved, and that a returned plan is the profile's.
THEOREM PlanningInvariance == PlanningSpec => []PlanningIInv
<1>1. PlanningInit => PlanningIInv
  <2>1. PlanningInit => StepOK
    BY DEF PlanningInit, StepOK, Planned, Pending
  <2> QED
    BY <2>1, InventoryInit DEF PlanningIInv
<1>2. PlanningIInv /\ [PlanningNext]_planningVars => PlanningIInv'
  <2> SUFFICES ASSUME PlanningIInv, [PlanningNext]_planningVars PROVE PlanningIInv'
    OBVIOUS
  <2>1. InventoryOK'
    BY InventoryStep DEF PlanningIInv
  <2>2. StepOK'
    <3>1. CASE Build
      BY <3>1, BuildStep DEF PlanningIInv
    <3>2. CASE UNCHANGED planningVars
      <4>1. /\ UNCHANGED <<inventory, profile, programs, extra, pc, targets, outcome>>
            /\ PlanFor(profile, targets)' = PlanFor(profile, targets)
        BY <3>2, PlanForStays DEF planningVars
      <4>2. Planned' = Planned /\ Plan' = Plan /\ AfterStatic' = AfterStatic
        BY <4>1 DEF Planned, Plan, AfterStatic, AfterGit, AfterAnalysis, AfterFoundation,
                    Analyses, Extra
      <4>3. AfterFoundation' = AfterFoundation /\ AfterAnalysis' = AfterAnalysis
            /\ AfterGit' = AfterGit
        BY <4>1 DEF AfterGit, AfterAnalysis, AfterFoundation, Analyses
      <4> QED
        BY <4>1, <4>2, <4>3 DEF PlanningIInv, StepOK
    <3> QED
      BY <3>1, <3>2, ConfigurationStep DEF PlanningIInv, PlanningNext, Returned
  <2> QED
    BY <2>1, <2>2 DEF PlanningIInv
<1> QED
  BY <1>1, <1>2, PTL DEF PlanningSpec

-----------------------------------------------------------------------------
(* Controls, and the identities of the controls of a list *)

Roles ==
    {"toolchain", "linter_config", "coverage_self_test", "tidy", "verify",
     "dependency_currency", "fix", "format", "vet", "lint", "vulnerabilities",
     "compile", "shell_syntax", "shell_analysis", "workflow_admission", "workflow",
     "workflow_dependencies", "compatibility_toolchain", "compatibility_test",
     "coverage", "race", "fuzz_campaign", "fuzz_inventory", "benchmark"}
Controls == [role : Roles, at : Seq(Nat), tools : SUBSET programs, timeout : Nat,
             inner : Nat, lane : Nat]

\* What a planned control promises on its own, whatever stands next to it.
Timely(c) ==
    /\ c.timeout \in 1 .. MaxTimeout
    /\ c.inner > 0 => c.timeout >= c.inner + Cleanup
    /\ c.role = "fuzz_campaign" =>
         c.inner = MaxTimeout - Cleanup \/ c.inner * Jobs >= targets * c.lane
Good == {c \in Controls : Timely(c)}

\* The identities of the controls of a list.
Ids(s) == {<<c.role, c.at>> : c \in ToSet(s)}

\* InnerTimeout and OuterTimeout stay within the bounds and leave time to clean up.
LEMMA InnerAndOuter ==
    ASSUME NEW t \in 1 .. MaxTimeout
    PROVE  /\ InnerTimeout(t) \in 1 .. MaxTimeout /\ InnerTimeout(t) <= t
           /\ OuterTimeout(t) \in 1 .. MaxTimeout
           /\ OuterTimeout(t) = InnerTimeout(t) + Cleanup
           /\ InnerTimeout(t) = t \/ InnerTimeout(t) = MaxTimeout - Cleanup
  BY PlanningAssumption DEF InnerTimeout, OuterTimeout, MaxTimeout

\* A control whose programs are resolved is sound, one that runs this program too.
LEMMA ExactControlIsGood ==
    ASSUME NEW role \in Roles \ {"fuzz_campaign"}, NEW index \in Seq(Nat),
           NEW tools \in SUBSET programs
    PROVE  /\ ExactControl(role, index, tools) \in Good
           /\ ExactControl(role, index, tools).role = role
           /\ ExactControl(role, index, tools).at = index
  BY DEF ExactControl, Good, Controls, Timely, ControlTimeout, MaxTimeout

LEMMA InternalIsGood ==
    ASSUME NEW role \in Roles \ {"fuzz_campaign"}, NEW index \in Seq(Nat),
           NEW tools \in SUBSET programs, "self" \in programs
    PROVE  /\ Internal(role, index, tools) \in Good
           /\ Internal(role, index, tools).role = role
           /\ Internal(role, index, tools).at = index
<1>1. 5 \in 1 .. MaxTimeout
  BY DEF MaxTimeout
<1>2. /\ InnerTimeout(5) \in 1 .. MaxTimeout /\ OuterTimeout(5) \in 1 .. MaxTimeout
      /\ OuterTimeout(5) = InnerTimeout(5) + Cleanup
  BY <1>1, InnerAndOuter
<1>3. Internal(role, index, tools) =
        [role |-> role, at |-> index, tools |-> tools \union {"self"},
         timeout |-> OuterTimeout(5), inner |-> InnerTimeout(5), lane |-> 0]
  BY DEF Internal, Child, ControlTimeout
<1>4. 1 .. MaxTimeout \in SUBSET Nat
  BY DEF MaxTimeout
<1> QED
  BY <1>2, <1>3, <1>4 DEF Good, Controls, Timely

\* Identities of lists: joined, empty, grouped, and of a few controls.
LEMMA IdsOfConcat ==
    ASSUME NEW s \in Seq(Good), NEW t \in Seq(Good)
    PROVE  s \o t \in Seq(Good) /\ Ids(s \o t) = Ids(s) \union Ids(t)
<1>1. ToSet(s \o t) = ToSet(s) \union ToSet(t) /\ s \o t \in Seq(Good)
  BY MembersOfConcat, ConcatLaws
<1> QED
  BY <1>1 DEF Ids

LEMMA IdsOfNone == <<>> \in Seq(Good) /\ Ids(<<>>) = {}
  BY MembersOfNone DEF Ids

LEMMA IdsOfOne ==
    ASSUME NEW a \in Good
    PROVE  <<a>> \in Seq(Good) /\ Ids(<<a>>) = {<<a.role, a.at>>}
<1>1. ToSet(<<a>>) = {a} /\ <<a>> \in Seq(Good)
  BY MembersOfOne
<1> QED
  BY <1>1 DEF Ids

LEMMA IdsOfGroups ==
    ASSUME NEW n \in Nat, NEW f \in [1 .. n -> Seq(Good)]
    PROVE  /\ FlattenSeq(f) \in Seq(Good)
           /\ Ids(FlattenSeq(f)) = UNION {Ids(f[i]) : i \in 1 .. n}
<1>1. FlattenSeq(f) \in Seq(Good) /\ ToSet(FlattenSeq(f)) = UNION {ToSet(f[i]) : i \in 1 .. n}
  BY MembersOfFlatten
<1> QED
  BY <1>1 DEF Ids

LEMMA IdsOfTwo ==
    ASSUME NEW a \in Good, NEW b \in Good
    PROVE  /\ <<a, b>> \in Seq(Good)
           /\ Ids(<<a, b>>) = {<<a.role, a.at>>, <<b.role, b.at>>}
<1>1. ToSet(<<a, b>>) = {a, b} /\ <<a, b>> \in Seq(Good)
  BY MembersOfTwo
<1> QED
  BY <1>1 DEF Ids

LEMMA IdsOfThree ==
    ASSUME NEW a \in Good, NEW b \in Good, NEW c \in Good
    PROVE  /\ <<a, b, c>> \in Seq(Good)
           /\ Ids(<<a, b, c>>) = {<<a.role, a.at>>, <<b.role, b.at>>, <<c.role, c.at>>}
<1>1. ToSet(<<a, b, c>>) = {a, b, c} /\ <<a, b, c>> \in Seq(Good)
  BY MembersOfThree
<1> QED
  BY <1>1 DEF Ids

LEMMA IdsOfSix ==
    ASSUME NEW a \in Good, NEW b \in Good, NEW c \in Good, NEW d \in Good, NEW e \in Good, NEW f \in Good
    PROVE  /\ <<a, b, c, d, e, f>> \in Seq(Good)
           /\ Ids(<<a, b, c, d, e, f>>) = {<<a.role, a.at>>, <<b.role, b.at>>, <<c.role, c.at>>, <<d.role, d.at>>, <<e.role, e.at>>, <<f.role, f.at>>}
<1>1. ToSet(<<a, b, c, d, e, f>>) = {a, b, c, d, e, f} /\ <<a, b, c, d, e, f>> \in Seq(Good)
  BY MembersOfSix
<1> QED
  BY <1>1 DEF Ids

\* The list a control stands for, one group per position.
LEMMA IdsOfEach ==
    ASSUME NEW n \in Nat, NEW f, f = [i \in 1 .. n |-> f[i]], NEW R,
           \A i \in 1 .. n : f[i] \in Seq(Good) /\ Ids(f[i]) = {<<r, <<i>>>> : r \in R}
    PROVE  FlattenSeq(f) \in Seq(Good) /\ Ids(FlattenSeq(f)) = Of(R, 1 .. n)
<1>1. f \in [1 .. n -> Seq(Good)]
  OBVIOUS
<1>2. FlattenSeq(f) \in Seq(Good) /\ Ids(FlattenSeq(f)) = UNION {Ids(f[i]) : i \in 1 .. n}
  BY <1>1, IdsOfGroups
<1>3. UNION {Ids(f[i]) : i \in 1 .. n} = Of(R, 1 .. n)
  BY DEF Of
<1> QED
  BY <1>2, <1>3

\* Every module is prepared.
LEMMA PreparationIds ==
    ASSUME InventoryOK, "go" \in programs
    PROVE  /\ Concat(Count, Preparation) \in Seq(Good)
           /\ Ids(Concat(Count, Preparation)) = Of({"tidy", "verify"}, DOMAIN inventory.modules)
<1>1. Count \in Nat /\ DOMAIN inventory.modules = 1 .. Count
  BY DEF InventoryOK, Count
<1>2. ASSUME NEW i \in 1 .. Count
      PROVE  /\ Preparation(i) \in Seq(Good)
             /\ Ids(Preparation(i)) = {<<r, <<i>>>> : r \in {"tidy", "verify"}}
  <2> DEFINE w == <<i>>
             go == {"go"}
             a == ExactControl("tidy", w, go)
             b == ExactControl("verify", w, go)
  <2>1. w \in Seq(Nat) /\ go \in SUBSET programs
    BY <1>1
  <2>2. "tidy" \in Roles \ {"fuzz_campaign"} /\ "verify" \in Roles \ {"fuzz_campaign"}
    BY DEF Roles
  <2> HIDE DEF w, go
  <2>3. a \in Good /\ a.role = "tidy" /\ a.at = w
    BY <2>1, <2>2, ExactControlIsGood
  <2>4. b \in Good /\ b.role = "verify" /\ b.at = w
    BY <2>1, <2>2, ExactControlIsGood
  <2>5. Preparation(i) = <<a, b>>
    BY DEF Preparation, w, go
  <2> HIDE DEF a, b
  <2>6. <<a, b>> \in Seq(Good) /\ Ids(<<a, b>>) = {<<a.role, a.at>>, <<b.role, b.at>>}
    BY <2>3, <2>4, IdsOfTwo
  <2> QED
    BY <2>3, <2>4, <2>5, <2>6 DEF w
<1> DEFINE f == [i \in 1 .. Count |-> Preparation(i)]
           R == {"tidy", "verify"}
<1>3. /\ f = [i \in 1 .. Count |-> f[i]]
      /\ \A i \in 1 .. Count : f[i] \in Seq(Good) /\ Ids(f[i]) = {<<r, <<i>>>> : r \in R}
  BY <1>2
<1>4. Concat(Count, Preparation) = FlattenSeq(f)
  BY DEF Concat
<1> HIDE DEF f, R
<1>5. FlattenSeq(f) \in Seq(Good) /\ Ids(FlattenSeq(f)) = Of(R, 1 .. Count)
  BY <1>1, <1>3, IdsOfEach
<1> QED
  BY <1>1, <1>4, <1>5 DEF R

\* The identities of what Analysis(i) yields.
AnalysisIds(i) ==
    (IF inventory.modules[i].packages
       THEN {<<r, <<i>>>> : r \in {"fix", "format", "vet", "lint", "compile"}} ELSE {})
    \union
    (IF inventory.modules[i].packages \/ inventory.modules[i].tools
       THEN {<<"vulnerabilities", <<i>>>>} ELSE {})

LEMMA AnalysisGroup ==
    ASSUME InventoryOK, {"go", "self", "linter", "vulnerability"} \subseteq programs, NEW i \in Nat
    PROVE  Analysis(i) \in Seq(Good) /\ Ids(Analysis(i)) = AnalysisIds(i)
<1> DEFINE w == <<i>>
           go == {"go"}
           linter == {"linter"}
           vulnerability == {"vulnerability"}
           a == ExactControl("fix", w, go)
           b == ExactControl("format", w, linter)
           c == ExactControl("vet", w, go)
           d == ExactControl("lint", w, linter)
           e == ExactControl("vulnerabilities", w, vulnerability)
           f == Internal("compile", w, go)
<1>1. /\ w \in Seq(Nat) /\ go \in SUBSET programs /\ linter \in SUBSET programs
      /\ vulnerability \in SUBSET programs /\ "self" \in programs
  OBVIOUS
<1>2. {"fix", "format", "vet", "lint", "compile", "vulnerabilities"} \subseteq Roles \ {"fuzz_campaign"}
  BY DEF Roles
<1> HIDE DEF w, go, linter, vulnerability
<1>3. /\ a \in Good /\ a.role = "fix" /\ a.at = w
      /\ b \in Good /\ b.role = "format" /\ b.at = w
      /\ c \in Good /\ c.role = "vet" /\ c.at = w
      /\ d \in Good /\ d.role = "lint" /\ d.at = w
      /\ e \in Good /\ e.role = "vulnerabilities" /\ e.at = w
  <2>1. a \in Good /\ a.role = "fix" /\ a.at = w
    BY <1>1, <1>2, ExactControlIsGood
  <2>2. b \in Good /\ b.role = "format" /\ b.at = w
    BY <1>1, <1>2, ExactControlIsGood
  <2>3. c \in Good /\ c.role = "vet" /\ c.at = w
    BY <1>1, <1>2, ExactControlIsGood
  <2>4. d \in Good /\ d.role = "lint" /\ d.at = w
    BY <1>1, <1>2, ExactControlIsGood
  <2>5. e \in Good /\ e.role = "vulnerabilities" /\ e.at = w
    BY <1>1, <1>2, ExactControlIsGood
  <2> QED
    BY <2>1, <2>2, <2>3, <2>4, <2>5
<1>4. f \in Good /\ f.role = "compile" /\ f.at = w
  BY <1>1, <1>2, InternalIsGood
<1>5. Analysis(i) =
        IF inventory.modules[i].packages THEN <<a, b, c, d, e, f>>
        ELSE IF inventory.modules[i].tools THEN <<e>> ELSE <<>>
  BY DEF Analysis, Compile, w, go, linter, vulnerability
<1> HIDE DEF a, b, c, d, e, f
<1>6. CASE inventory.modules[i].packages
  <2>1. /\ <<a, b, c, d, e, f>> \in Seq(Good)
        /\ Ids(<<a, b, c, d, e, f>>) =
             {<<a.role, a.at>>, <<b.role, b.at>>, <<c.role, c.at>>, <<d.role, d.at>>,
              <<e.role, e.at>>, <<f.role, f.at>>}
    <3>1. a \in Good /\ b \in Good /\ c \in Good /\ d \in Good /\ e \in Good /\ f \in Good
      BY <1>3, <1>4
    <3> QED
      BY <3>1, IdsOfSix
  <2> QED
    BY <1>3, <1>4, <1>5, <1>6, <2>1 DEF AnalysisIds, w
<1>7. CASE ~inventory.modules[i].packages /\ inventory.modules[i].tools
  <2>1. <<e>> \in Seq(Good) /\ Ids(<<e>>) = {<<e.role, e.at>>}
    BY <1>3, IdsOfOne
  <2> QED
    BY <1>3, <1>5, <1>7, <2>1 DEF AnalysisIds, w
<1>8. CASE ~inventory.modules[i].packages /\ ~inventory.modules[i].tools
  <2>1. Analysis(i) = <<>> /\ AnalysisIds(i) = {}
    BY <1>5, <1>8 DEF AnalysisIds, w
  <2> QED
    BY <2>1, IdsOfNone
<1> QED
  BY <1>6, <1>7, <1>8

\* The modules with packages are analysed, the others only for vulnerabilities.
LEMMA AnalysesIds ==
    ASSUME InventoryOK, {"go", "self", "linter", "vulnerability"} \subseteq programs
    PROVE  /\ Concat(Count, Analysis) \in Seq(Good)
           /\ Ids(Concat(Count, Analysis)) =
                Of({"fix", "format", "vet", "lint", "compile"}, Code)
                \union Of({"vulnerabilities"}, ModulesWith(LAMBDA m : m.packages \/ m.tools))
<1>1. Count \in Nat /\ DOMAIN inventory.modules = 1 .. Count
  BY DEF InventoryOK, Count
<1> DEFINE f == [i \in 1 .. Count |-> Analysis(i)]
<1>2. /\ f \in [1 .. Count -> Seq(Good)]
      /\ \A i \in 1 .. Count : Ids(f[i]) = AnalysisIds(i)
  BY <1>1, AnalysisGroup
<1>3. Concat(Count, Analysis) = FlattenSeq(f)
  BY DEF Concat
<1> HIDE DEF f
<1>4. FlattenSeq(f) \in Seq(Good) /\ Ids(FlattenSeq(f)) = UNION {Ids(f[i]) : i \in 1 .. Count}
  BY <1>1, <1>2, IdsOfGroups
<1>5. UNION {Ids(f[i]) : i \in 1 .. Count} = UNION {AnalysisIds(i) : i \in 1 .. Count}
  BY <1>2
<1>6. UNION {AnalysisIds(i) : i \in 1 .. Count} =
        Of({"fix", "format", "vet", "lint", "compile"}, Code)
        \union Of({"vulnerabilities"}, ModulesWith(LAMBDA m : m.packages \/ m.tools))
  BY <1>1 DEF AnalysisIds, Of, Code, ModulesWith
<1> QED
  BY <1>3, <1>4, <1>5, <1>6

\* Controls that are about the whole repository carry no index.
LEMMA WholeIsGood ==
    ASSUME NEW role \in Roles \ {"fuzz_campaign"}, NEW tools \in SUBSET programs
    PROVE  /\ ExactControl(role, <<>>, tools) \in Good
           /\ ExactControl(role, <<>>, tools).role = role
           /\ ExactControl(role, <<>>, tools).at = <<>>
           /\ "self" \in programs =>
                /\ Internal(role, <<>>, tools) \in Good
                /\ Internal(role, <<>>, tools).role = role
                /\ Internal(role, <<>>, tools).at = <<>>
<1> DEFINE none == <<>>
<1>1. none \in Seq(Nat)
  OBVIOUS
<1> HIDE DEF none
<1>2. /\ ExactControl(role, none, tools) \in Good
      /\ ExactControl(role, none, tools).role = role
      /\ ExactControl(role, none, tools).at = none
  BY <1>1, ExactControlIsGood
<1>3. "self" \in programs =>
        /\ Internal(role, none, tools) \in Good
        /\ Internal(role, none, tools).role = role
        /\ Internal(role, none, tools).at = none
  BY <1>1, InternalIsGood
<1> QED
  BY <1>2, <1>3 DEF none

WholeRoles ==
    {"toolchain", "linter_config", "coverage_self_test", "dependency_currency",
     "shell_syntax", "shell_analysis", "workflow_admission", "workflow",
     "workflow_dependencies", "fuzz_inventory", "benchmark"}

LEMMA WholeRolesAreRoles == WholeRoles \subseteq Roles \ {"fuzz_campaign"}
  BY DEF WholeRoles, Roles

LEMMA HeadIds ==
    ASSUME {"go", "self", "linter"} \subseteq programs
    PROVE  /\ <<ExactControl("toolchain", <<>>, {"go"}),
                ExactControl("linter_config", <<>>, {"linter"}),
                ExactControl("coverage_self_test", <<>>, {"self"})>> \in Seq(Good)
           /\ Ids(<<ExactControl("toolchain", <<>>, {"go"}),
                    ExactControl("linter_config", <<>>, {"linter"}),
                    ExactControl("coverage_self_test", <<>>, {"self"})>>) =
                Whole({"toolchain", "linter_config", "coverage_self_test"})
<1> DEFINE go == {"go"}
           linter == {"linter"}
           self == {"self"}
           a == ExactControl("toolchain", <<>>, go)
           b == ExactControl("linter_config", <<>>, linter)
           c == ExactControl("coverage_self_test", <<>>, self)
<1>1. go \in SUBSET programs /\ linter \in SUBSET programs /\ self \in SUBSET programs
  OBVIOUS
<1>2. {"toolchain", "linter_config", "coverage_self_test"} \subseteq Roles \ {"fuzz_campaign"}
  BY WholeRolesAreRoles DEF WholeRoles
<1> HIDE DEF go, linter, self
<1>3. a \in Good /\ a.role = "toolchain" /\ a.at = <<>>
  BY <1>1, <1>2, WholeIsGood
<1>4. b \in Good /\ b.role = "linter_config" /\ b.at = <<>>
  BY <1>1, <1>2, WholeIsGood
<1>5. c \in Good /\ c.role = "coverage_self_test" /\ c.at = <<>>
  BY <1>1, <1>2, WholeIsGood
<1> HIDE DEF a, b, c
<1>6. <<a, b, c>> \in Seq(Good) /\ Ids(<<a, b, c>>) = {<<a.role, a.at>>, <<b.role, b.at>>, <<c.role, c.at>>}
  BY <1>3, <1>4, <1>5, IdsOfThree
<1>7. Ids(<<a, b, c>>) = Whole({"toolchain", "linter_config", "coverage_self_test"})
  BY <1>3, <1>4, <1>5, <1>6 DEF Whole
<1> QED
  BY <1>6, <1>7 DEF a, b, c, go, linter, self

LEMMA InternalIds ==
    ASSUME NEW role \in WholeRoles, NEW tools \in SUBSET programs, "self" \in programs
    PROVE  /\ <<Internal(role, <<>>, tools)>> \in Seq(Good)
           /\ Ids(<<Internal(role, <<>>, tools)>>) = Whole({role})
<1> DEFINE a == Internal(role, <<>>, tools)
<1>1. a \in Good /\ a.role = role /\ a.at = <<>>
  BY WholeIsGood, WholeRolesAreRoles
<1> HIDE DEF a
<1>2. <<a>> \in Seq(Good) /\ Ids(<<a>>) = {<<a.role, a.at>>}
  BY <1>1, IdsOfOne
<1>3. Ids(<<a>>) = Whole({role})
  BY <1>1, <1>2 DEF Whole
<1> QED
  BY <1>2, <1>3 DEF a

LEMMA ShellIds ==
    ASSUME {"bash", "shellcheck"} \subseteq programs
    PROVE  /\ ShellControls \in Seq(Good)
           /\ Ids(ShellControls) = Whole({"shell_syntax", "shell_analysis"})
<1> DEFINE bash == {"bash"}
           shellcheck == {"shellcheck"}
           a == ExactControl("shell_syntax", <<>>, bash)
           b == ExactControl("shell_analysis", <<>>, shellcheck)
<1>1. bash \in SUBSET programs /\ shellcheck \in SUBSET programs
  OBVIOUS
<1>2. {"shell_syntax", "shell_analysis"} \subseteq Roles \ {"fuzz_campaign"}
  BY WholeRolesAreRoles DEF WholeRoles
<1> HIDE DEF bash, shellcheck
<1>3. a \in Good /\ a.role = "shell_syntax" /\ a.at = <<>>
  BY <1>1, <1>2, WholeIsGood
<1>4. b \in Good /\ b.role = "shell_analysis" /\ b.at = <<>>
  BY <1>1, <1>2, WholeIsGood
<1>5. ShellControls = <<a, b>>
  BY DEF ShellControls, bash, shellcheck
<1> HIDE DEF a, b
<1>6. <<a, b>> \in Seq(Good) /\ Ids(<<a, b>>) = {<<a.role, a.at>>, <<b.role, b.at>>}
  BY <1>3, <1>4, IdsOfTwo
<1> QED
  BY <1>3, <1>4, <1>5, <1>6 DEF Whole

LEMMA WorkflowIds ==
    ASSUME {"self", "actionlint", "shellcheck", "git"} \subseteq programs
    PROVE  /\ WorkflowControls \in Seq(Good)
           /\ Ids(WorkflowControls) =
                Whole({"workflow_admission", "workflow", "workflow_dependencies"})
<1> DEFINE self == {"self"}
           both == {"actionlint", "shellcheck"}
           git == {"git"}
           a == ExactControl("workflow_admission", <<>>, self)
           b == ExactControl("workflow", <<>>, both)
           c == Internal("workflow_dependencies", <<>>, git)
<1>1. /\ self \in SUBSET programs /\ both \in SUBSET programs /\ git \in SUBSET programs
      /\ "self" \in programs
  OBVIOUS
<1>2. {"workflow_admission", "workflow", "workflow_dependencies"} \subseteq Roles \ {"fuzz_campaign"}
  BY WholeRolesAreRoles DEF WholeRoles
<1> HIDE DEF self, both, git
<1>3. a \in Good /\ a.role = "workflow_admission" /\ a.at = <<>>
  BY <1>1, <1>2, WholeIsGood
<1>4. b \in Good /\ b.role = "workflow" /\ b.at = <<>>
  BY <1>1, <1>2, WholeIsGood
<1>5. c \in Good /\ c.role = "workflow_dependencies" /\ c.at = <<>>
  BY <1>1, <1>2, WholeIsGood
<1>6. WorkflowControls = <<a, b, c>>
  BY DEF WorkflowControls, self, both, git
<1> HIDE DEF a, b, c
<1>7. <<a, b, c>> \in Seq(Good) /\ Ids(<<a, b, c>>) = {<<a.role, a.at>>, <<b.role, b.at>>, <<c.role, c.at>>}
  BY <1>3, <1>4, <1>5, IdsOfThree
<1> QED
  BY <1>3, <1>4, <1>5, <1>6, <1>7 DEF Whole

\* Shell and workflow controls are there when the files are.
LEMMA ExtraIds ==
    ASSUME InventoryOK, AfterStatic, Analyses
    PROVE  /\ extra \in Seq(Good)
           /\ Ids(extra) =
                (IF inventory.shell THEN Whole({"shell_syntax", "shell_analysis"}) ELSE {})
                \union
                (IF inventory.workflows
                   THEN Whole({"workflow_admission", "workflow", "workflow_dependencies"})
                   ELSE {})
<1> DEFINE shell == IF inventory.shell THEN ShellControls ELSE <<>>
           flows == IF inventory.workflows THEN WorkflowControls ELSE <<>>
<1>1. /\ shell \in Seq(Good)
      /\ Ids(shell) = IF inventory.shell THEN Whole({"shell_syntax", "shell_analysis"}) ELSE {}
  <2>1. CASE inventory.shell
    BY <2>1, ShellIds DEF AfterStatic
  <2>2. CASE ~inventory.shell
    BY <2>2, IdsOfNone
  <2> QED
    BY <2>1, <2>2
<1>2. /\ flows \in Seq(Good)
      /\ Ids(flows) =
           IF inventory.workflows
             THEN Whole({"workflow_admission", "workflow", "workflow_dependencies"}) ELSE {}
  <2>1. CASE inventory.workflows
    <3>1. {"self", "actionlint", "shellcheck", "git"} \subseteq programs
      BY <2>1 DEF AfterStatic, AfterGit, AfterAnalysis, AfterFoundation
    <3> QED
      BY <2>1, <3>1, WorkflowIds
  <2>2. CASE ~inventory.workflows
    BY <2>2, IdsOfNone
  <2> QED
    BY <2>1, <2>2
<1>3. extra = shell \o flows
  BY DEF AfterStatic, Extra
<1> HIDE DEF shell, flows
<1>4. shell \o flows \in Seq(Good) /\ Ids(shell \o flows) = Ids(shell) \union Ids(flows)
  BY <1>1, <1>2, IdsOfConcat
<1> QED
  BY <1>1, <1>2, <1>3, <1>4

\* The controls of the static profile, and their identities.
LEMMA StaticIds ==
    ASSUME InventoryOK, AfterStatic, Analyses
    PROVE  StaticControls \in Seq(Good) /\ Ids(StaticControls) = Static
<1> DEFINE head == <<ExactControl("toolchain", <<>>, {"go"}),
                     ExactControl("linter_config", <<>>, {"linter"}),
                     ExactControl("coverage_self_test", <<>>, {"self"})>>
           prep == Concat(Count, Preparation)
           currency == <<Internal("dependency_currency", <<>>, {"go"})>>
           analysis == Concat(Count, Analysis)
<1>1. {"go", "self", "linter", "vulnerability"} \subseteq programs
  BY DEF AfterStatic, AfterGit, AfterAnalysis, AfterFoundation
<1>2. /\ head \in Seq(Good)
      /\ Ids(head) = Whole({"toolchain", "linter_config", "coverage_self_test"})
  BY <1>1, HeadIds
<1>3. prep \in Seq(Good) /\ Ids(prep) = Of({"tidy", "verify"}, DOMAIN inventory.modules)
  BY <1>1, PreparationIds
<1>4. currency \in Seq(Good) /\ Ids(currency) = Whole({"dependency_currency"})
  <2> DEFINE go == {"go"}
  <2>1. go \in SUBSET programs /\ "dependency_currency" \in WholeRoles
    BY <1>1 DEF WholeRoles
  <2> HIDE DEF go
  <2>2. /\ <<Internal("dependency_currency", <<>>, go)>> \in Seq(Good)
        /\ Ids(<<Internal("dependency_currency", <<>>, go)>>) = Whole({"dependency_currency"})
    BY <1>1, <2>1, InternalIds
  <2> QED
    BY <2>2 DEF go
<1>5. /\ analysis \in Seq(Good)
      /\ Ids(analysis) =
           Of({"fix", "format", "vet", "lint", "compile"}, Code)
           \union Of({"vulnerabilities"}, ModulesWith(LAMBDA m : m.packages \/ m.tools))
  BY <1>1, AnalysesIds
<1>6. StaticControls = head \o prep \o currency \o analysis \o extra
  BY DEF StaticControls
<1>7. extra \in Seq(Good)
  BY ExtraIds
<1> DEFINE all == head \o prep \o currency \o analysis \o extra
<1>8. /\ all \in Seq(Good)
      /\ Ids(all) = Ids(head) \union Ids(prep) \union Ids(currency) \union Ids(analysis) \union Ids(extra)
  <2> HIDE DEF head, prep, currency, analysis
  <2>1. head \o prep \in Seq(Good) /\ Ids(head \o prep) = Ids(head) \union Ids(prep)
    BY <1>2, <1>3, IdsOfConcat
  <2>2. /\ head \o prep \o currency \in Seq(Good)
        /\ Ids(head \o prep \o currency) = Ids(head \o prep) \union Ids(currency)
    BY <1>4, <2>1, IdsOfConcat
  <2>3. /\ head \o prep \o currency \o analysis \in Seq(Good)
        /\ Ids(head \o prep \o currency \o analysis)
             = Ids(head \o prep \o currency) \union Ids(analysis)
    BY <1>5, <2>2, IdsOfConcat
  <2>4. /\ all \in Seq(Good)
        /\ Ids(all) = Ids(head \o prep \o currency \o analysis) \union Ids(extra)
    BY <1>7, <2>3, IdsOfConcat
  <2> QED
    BY <2>1, <2>2, <2>3, <2>4
<1> HIDE DEF head, prep, currency, analysis, all
<1>9. Whole({"toolchain", "linter_config", "coverage_self_test", "dependency_currency"})
        = Whole({"toolchain", "linter_config", "coverage_self_test"})
          \union Whole({"dependency_currency"})
  BY DEF Whole
<1>10. Ids(all) = Static
  BY <1>2, <1>3, <1>4, <1>5, <1>8, <1>9, ExtraIds DEF Static
<1> QED
  BY <1>6, <1>8, <1>10 DEF all

-----------------------------------------------------------------------------
(* The other profiles *)

\* A test scope is a module.
LEMMA ScopesAreModules ==
    ASSUME InventoryOK
    PROVE  TestScopes \in Seq(1 .. Count) /\ Count \in Nat
<1>1. Count \in Nat /\ Count = Len(inventory.modules)
  BY DEF InventoryOK, Count
<1> DEFINE f == [i \in 1 .. Count |-> IF inventory.modules[i].packages THEN <<i>> ELSE <<>>]
<1>2. f \in Seq(Seq(1 .. Count))
  <2>1. ASSUME NEW i \in 1 .. Count PROVE f[i] \in Seq(1 .. Count)
    <3>1. f[i] = IF inventory.modules[i].packages THEN <<i>> ELSE <<>>
      OBVIOUS
    <3>2. <<i>> \in Seq(1 .. Count)
      OBVIOUS
    <3>3. <<>> \in Seq(1 .. Count)
      OBVIOUS
    <3> QED
      BY <3>1, <3>2, <3>3, Zenon
  <2> HIDE DEF f
  <2>2. f \in [1 .. Count -> Seq(1 .. Count)]
    BY <2>1 DEF f
  <2> QED
    BY <1>1, <2>2
<1>3. TestScopes = FlattenSeq(f)
  BY <1>1 DEF TestScopes, Scopes, Concat
<1> HIDE DEF f
<1> QED
  BY <1>1, <1>2, <1>3, FlattenType

\* The preflight compiles exactly the modules with packages.
LEMMA CompilesIds ==
    ASSUME InventoryOK, {"go", "self"} \subseteq programs
    PROVE  Compiles \in Seq(Good) /\ Ids(Compiles) = Compiled
<1>1. Count \in Nat /\ DOMAIN inventory.modules = 1 .. Count
  BY DEF InventoryOK, Count
<1> DEFINE f == [i \in 1 .. Count |->
                   IF inventory.modules[i].packages THEN <<Compile(i)>> ELSE <<>>]
           ids(i) == IF inventory.modules[i].packages THEN {<<"compile", <<i>>>>} ELSE {}
<1>2. ASSUME NEW i \in 1 .. Count
      PROVE  f[i] \in Seq(Good) /\ Ids(f[i]) = ids(i)
  <2> DEFINE w == <<i>>
             go == {"go"}
             a == Internal("compile", w, go)
  <2>1. w \in Seq(Nat) /\ go \in SUBSET programs /\ "compile" \in Roles \ {"fuzz_campaign"}
    BY <1>1 DEF Roles
  <2> HIDE DEF w, go
  <2>2. a \in Good /\ a.role = "compile" /\ a.at = w
    BY <2>1, InternalIsGood
  <2>3. Compile(i) = a
    BY DEF Compile, w, go
  <2> HIDE DEF a
  <2>4. <<a>> \in Seq(Good) /\ Ids(<<a>>) = {<<a.role, a.at>>}
    BY <2>2, IdsOfOne
  <2> QED
    BY <2>2, <2>3, <2>4, IdsOfNone DEF w
<1>3. f \in [1 .. Count -> Seq(Good)]
  BY <1>2
<1>4. Compiles = FlattenSeq(f)
  BY DEF Compiles, Concat
<1> HIDE DEF f
<1>5. FlattenSeq(f) \in Seq(Good) /\ Ids(FlattenSeq(f)) = UNION {Ids(f[i]) : i \in 1 .. Count}
  BY <1>1, <1>3, IdsOfGroups
<1>6. UNION {Ids(f[i]) : i \in 1 .. Count} = UNION {ids(i) : i \in 1 .. Count}
  BY <1>2
<1>7. UNION {ids(i) : i \in 1 .. Count} = Compiled
  BY <1>1 DEF Compiled, Of, Code, ModulesWith
<1> QED
  BY <1>4, <1>5, <1>6, <1>7

\* The scopes version v is tested with.
ScopesOf(v) ==
    {s \in DOMAIN TestScopes : TestScopes[s] \in inventory.compatibility[v]}

\* One toolchain check per version, and a test of every scope it lists.
LEMMA VersionIds ==
    ASSUME InventoryOK, {"go", "self"} \subseteq programs,
           NEW v \in 1 .. Len(inventory.compatibility)
    PROVE  /\ VersionControls(v) \in Seq(Good)
           /\ Ids(VersionControls(v)) =
                {<<"compatibility_toolchain", <<v>>>>}
                \union {<<"compatibility_test", <<v, s>>>> : s \in ScopesOf(v)}
<1> DEFINE n == Len(TestScopes)
           f == [s \in 1 .. n |->
                   IF \/ inventory.compatibility[v] = {}
                      \/ TestScopes[s] \in inventory.compatibility[v]
                     THEN <<ExactControl("compatibility_test", <<v, s>>, {"go"})>> ELSE <<>>]
           ids(s) == IF s \in ScopesOf(v) THEN {<<"compatibility_test", <<v, s>>>>} ELSE {}
           go == {"go"}
           w == <<v>>
           a == ExactControl("compatibility_toolchain", w, go)
<1>1. n \in Nat /\ DOMAIN TestScopes = 1 .. n
  BY ScopesAreModules
<1>2. v \in Nat /\ inventory.compatibility[v] # {}
  BY DEF InventoryOK
<1>3. /\ go \in SUBSET programs
      /\ "compatibility_test" \in Roles \ {"fuzz_campaign"}
      /\ "compatibility_toolchain" \in Roles \ {"fuzz_campaign"}
  BY DEF Roles
<1>4. ASSUME NEW s \in 1 .. n
      PROVE  f[s] \in Seq(Good) /\ Ids(f[s]) = ids(s)
  <2> DEFINE u == <<v, s>>
             c == ExactControl("compatibility_test", u, go)
  <2>1. u \in Seq(Nat)
    BY <1>1, <1>2
  <2> HIDE DEF u, go
  <2>2. c \in Good /\ c.role = "compatibility_test" /\ c.at = u
    BY <1>3, <2>1, ExactControlIsGood
  <2>3. f[s] = IF s \in ScopesOf(v) THEN <<c>> ELSE <<>>
    BY <1>1, <1>2 DEF ScopesOf, u, go
  <2> HIDE DEF c, f
  <2>4. <<c>> \in Seq(Good) /\ Ids(<<c>>) = {<<c.role, c.at>>}
    BY <2>2, IdsOfOne
  <2> QED
    BY <2>2, <2>3, <2>4, IdsOfNone DEF u
<1>5. f \in [1 .. n -> Seq(Good)]
  BY <1>4
<1>6. VersionControls(v) = <<a>> \o FlattenSeq(f)
  BY DEF VersionControls, Concat
<1> HIDE DEF f, go
<1>7. w \in Seq(Nat)
  BY <1>2
<1> HIDE DEF w
<1>8. a \in Good /\ a.role = "compatibility_toolchain" /\ a.at = w
  BY <1>3, <1>7, ExactControlIsGood
<1> HIDE DEF a
<1>9. <<a>> \in Seq(Good) /\ Ids(<<a>>) = {<<a.role, a.at>>}
  BY <1>8, IdsOfOne
<1>10. FlattenSeq(f) \in Seq(Good) /\ Ids(FlattenSeq(f)) = UNION {Ids(f[s]) : s \in 1 .. n}
  BY <1>1, <1>5, IdsOfGroups
<1>11. UNION {Ids(f[s]) : s \in 1 .. n} = UNION {ids(s) : s \in 1 .. n}
  BY <1>4
<1>12. UNION {ids(s) : s \in 1 .. n} = {<<"compatibility_test", <<v, s>>>> : s \in ScopesOf(v)}
  BY <1>1 DEF ScopesOf
<1>13. /\ <<a>> \o FlattenSeq(f) \in Seq(Good)
       /\ Ids(<<a>> \o FlattenSeq(f)) = Ids(<<a>>) \union Ids(FlattenSeq(f))
  BY <1>9, <1>10, IdsOfConcat
<1> QED
  BY <1>6, <1>8, <1>9, <1>10, <1>11, <1>12, <1>13 DEF w

LEMMA CompatibilityIds ==
    ASSUME InventoryOK, {"go", "self"} \subseteq programs
    PROVE  CompatibilityControls \in Seq(Good) /\ Ids(CompatibilityControls) = Older
<1> DEFINE n == Len(inventory.compatibility)
           f == [v \in 1 .. n |-> VersionControls(v)]
           ids(v) == {<<"compatibility_toolchain", <<v>>>>}
                     \union {<<"compatibility_test", <<v, s>>>> : s \in ScopesOf(v)}
<1>1. n \in Nat /\ DOMAIN inventory.compatibility = 1 .. n
  BY DEF InventoryOK
<1>2. ASSUME NEW v \in 1 .. n PROVE f[v] \in Seq(Good) /\ Ids(f[v]) = ids(v)
  BY VersionIds
<1>3. f \in [1 .. n -> Seq(Good)]
  BY <1>2
<1>4. CompatibilityControls = FlattenSeq(f)
  BY DEF CompatibilityControls, Concat
<1> HIDE DEF f
<1>5. FlattenSeq(f) \in Seq(Good) /\ Ids(FlattenSeq(f)) = UNION {Ids(f[v]) : v \in 1 .. n}
  BY <1>1, <1>3, IdsOfGroups
<1>6. UNION {Ids(f[v]) : v \in 1 .. n} = UNION {ids(v) : v \in 1 .. n}
  BY <1>2
<1>7. UNION {ids(v) : v \in 1 .. n} = Older
  BY <1>1 DEF Older, Of, ScopesOf
<1> QED
  BY <1>4, <1>5, <1>6, <1>7

LEMMA ScopeIds ==
    ASSUME InventoryOK, {"go", "self"} \subseteq programs, NEW s \in 1 .. Len(TestScopes)
    PROVE  /\ ScopeControls(s) \in Seq(Good)
           /\ Ids(ScopeControls(s)) =
                (IF inventory.modules[TestScopes[s]].production
                   THEN {<<"coverage", <<s>>>>} ELSE {})
                \union {<<"race", <<s>>>>}
<1> DEFINE w == <<s>>
           go == {"go"}
           a == Internal("coverage", w, go)
           b == ExactControl("race", w, go)
           first == IF inventory.modules[TestScopes[s]].production THEN <<a>> ELSE <<>>
<1>1. w \in Seq(Nat) /\ go \in SUBSET programs
  BY ScopesAreModules
<1>2. "coverage" \in Roles \ {"fuzz_campaign"} /\ "race" \in Roles \ {"fuzz_campaign"}
  BY DEF Roles
<1>3. ScopeControls(s) = first \o <<b>>
  BY DEF ScopeControls
<1> HIDE DEF w, go
<1>4. a \in Good /\ a.role = "coverage" /\ a.at = w
  BY <1>1, <1>2, InternalIsGood
<1>5. b \in Good /\ b.role = "race" /\ b.at = w
  BY <1>1, <1>2, ExactControlIsGood
<1> HIDE DEF a, b
<1>6. <<a>> \in Seq(Good) /\ Ids(<<a>>) = {<<a.role, a.at>>}
  BY <1>4, IdsOfOne
<1>7. <<b>> \in Seq(Good) /\ Ids(<<b>>) = {<<b.role, b.at>>}
  BY <1>5, IdsOfOne
<1>8. /\ first \in Seq(Good)
      /\ Ids(first) = IF inventory.modules[TestScopes[s]].production
                        THEN {<<"coverage", w>>} ELSE {}
  BY <1>4, <1>6, IdsOfNone
<1> HIDE DEF first
<1>9. first \o <<b>> \in Seq(Good) /\ Ids(first \o <<b>>) = Ids(first) \union Ids(<<b>>)
  BY <1>7, <1>8, IdsOfConcat
<1> QED
  BY <1>3, <1>5, <1>7, <1>8, <1>9 DEF w

\* Every scope is raced, and covered when it has production code.
LEMMA TestIds ==
    ASSUME InventoryOK, {"go", "self"} \subseteq programs
    PROVE  TestControls \in Seq(Good) /\ Ids(TestControls) = Tests
<1> DEFINE n == Len(TestScopes)
           f == [s \in 1 .. n |-> ScopeControls(s)]
           ids(s) == (IF inventory.modules[TestScopes[s]].production
                        THEN {<<"coverage", <<s>>>>} ELSE {})
                     \union {<<"race", <<s>>>>}
<1>1. n \in Nat /\ DOMAIN TestScopes = 1 .. n
  BY ScopesAreModules
<1>2. ASSUME NEW s \in 1 .. n PROVE f[s] \in Seq(Good) /\ Ids(f[s]) = ids(s)
  BY ScopeIds
<1>3. f \in [1 .. n -> Seq(Good)]
  BY <1>2
<1>4. TestControls = FlattenSeq(f)
  BY DEF TestControls, Concat
<1> HIDE DEF f
<1>5. FlattenSeq(f) \in Seq(Good) /\ Ids(FlattenSeq(f)) = UNION {Ids(f[s]) : s \in 1 .. n}
  BY <1>1, <1>3, IdsOfGroups
<1>6. UNION {Ids(f[s]) : s \in 1 .. n} = UNION {ids(s) : s \in 1 .. n}
  BY <1>2
<1>7. UNION {ids(s) : s \in 1 .. n} = Tests
  BY <1>1 DEF Tests, Of, ScopesWith
<1> QED
  BY <1>4, <1>5, <1>6, <1>7

\* The deadline is a timeout, and short of the longest it gives every batch its lane.
LEMMA DeadlineGivesTime ==
    ASSUME NEW count \in Nat, count # 0
    PROVE  /\ CampaignDeadline(count) \in 1 .. MaxTimeout
           /\ \/ CampaignDeadline(count) = MaxTimeout
              \/ CampaignDeadline(count) * Jobs >= ControlTimeout * count
<1> DEFINE batches == (count + 1) \div 2
<1>1. batches \in Nat /\ batches >= 1 /\ 2 * batches >= count
  OBVIOUS
<1>2. Batches(count) = batches
  BY DEF Batches, Jobs
<1> HIDE DEF batches
<1>3. CASE batches > 6
  <2>1. 30 \div batches < 5
    BY <1>1, <1>3
  <2>2. CampaignDeadline(count) = 30
    BY <1>1, <1>2, <2>1 DEF CampaignDeadline, ControlTimeout, MaxTimeout
  <2> QED
    BY <2>2 DEF MaxTimeout
<1>4. CASE batches <= 6
  <2>1. batches \in 1 .. 6
    BY <1>1, <1>4
  <2>2. 30 \div batches >= 5
    BY <2>1
  <2>3. CampaignDeadline(count) = 5 * batches
    BY <2>1, <2>2, <1>2 DEF CampaignDeadline, ControlTimeout, MaxTimeout
  <2> QED
    BY <1>1, <2>1, <2>3 DEF MaxTimeout, Jobs, ControlTimeout
<1> QED
  BY <1>1, <1>3, <1>4

\* The campaign is there when there are targets, and has time for them.
LEMMA FuzzIds ==
    ASSUME InventoryOK, {"go", "self"} \subseteq programs
    PROVE  FuzzControls(targets) \in Seq(Good) /\ Ids(FuzzControls(targets)) = Fuzzing
<1>1. CASE targets = 0
  BY <1>1, IdsOfNone DEF FuzzControls, Fuzzing
<1>2. CASE targets # 0
  <2> DEFINE d == CampaignDeadline(targets)
             lane == InnerTimeout(ControlTimeout)
             none == <<>>
             tools == {"go"} \union {"self"}
             a == [role |-> "fuzz_campaign", at |-> none, tools |-> tools,
                   timeout |-> OuterTimeout(d), inner |-> InnerTimeout(d), lane |-> lane]
  <2>1. targets \in Nat
    BY DEF InventoryOK
  <2>2. d \in 1 .. MaxTimeout /\ (d = MaxTimeout \/ d * Jobs >= ControlTimeout * targets)
    BY <1>2, <2>1, DeadlineGivesTime
  <2>3. ControlTimeout \in 1 .. MaxTimeout
    BY DEF ControlTimeout, MaxTimeout
  <2>4. lane \in Nat /\ lane <= ControlTimeout
    BY <2>3, InnerAndOuter DEF MaxTimeout
  <2>5. FuzzControls(targets) = <<a>>
    BY <1>2 DEF FuzzControls, FuzzCampaign, Child
  <2>6. none \in Seq(Nat) /\ tools \in SUBSET programs /\ "fuzz_campaign" \in Roles
    BY DEF Roles
  <2> HIDE DEF d, lane, tools
  <2>7. /\ InnerTimeout(d) \in 1 .. MaxTimeout /\ OuterTimeout(d) \in 1 .. MaxTimeout
        /\ OuterTimeout(d) = InnerTimeout(d) + Cleanup
        /\ InnerTimeout(d) = d \/ InnerTimeout(d) = MaxTimeout - Cleanup
    BY <2>2, InnerAndOuter
  <2>8. InnerTimeout(d) = MaxTimeout - Cleanup \/ InnerTimeout(d) * Jobs >= targets * lane
    <3>1. CASE d = MaxTimeout
      BY <3>1, PlanningAssumption DEF InnerTimeout, MaxTimeout
    <3>2. CASE InnerTimeout(d) = d /\ d * Jobs >= ControlTimeout * targets
      <4>1. targets * lane <= targets * 5
        BY <2>1, <2>4 DEF ControlTimeout
      <4>2. d * Jobs >= targets * lane
        <5> DEFINE x == targets * lane
        <5>1. x \in Nat
          BY <2>1, <2>4
        <5>2. x <= targets * 5
          BY <4>1
        <5> HIDE DEF x
        <5>3. d \in Nat
          BY <2>2 DEF MaxTimeout
        <5>4. d * Jobs >= x
          BY <2>1, <3>2, <5>1, <5>2, <5>3 DEF ControlTimeout, Jobs
        <5> QED
          BY <5>4 DEF x
      <4> QED
        BY <3>2, <4>2
    <3> QED
      BY <2>2, <2>7, <3>1, <3>2
  <2> HIDE DEF none
  <2>9. a \in Good
    <3>1. 1 .. MaxTimeout \subseteq Nat
      BY DEF MaxTimeout
    <3> QED
      BY <2>4, <2>6, <2>7, <2>8, <3>1 DEF Good, Controls, Timely
  <2>10. a.role = "fuzz_campaign" /\ a.at = none
    OBVIOUS
  <2> HIDE DEF a
  <2>11. <<a>> \in Seq(Good) /\ Ids(<<a>>) = {<<a.role, a.at>>}
    BY <2>9, IdsOfOne
  <2>12. Ids(<<a>>) = Fuzzing
    BY <1>2, <2>10, <2>11 DEF Fuzzing, Whole, none
  <2> QED
    BY <2>5, <2>11, <2>12
<1> QED
  BY <1>1, <1>2

\* A plan is made of sound controls, and its identities are those of the table.
LEMMA PlanIds ==
    ASSUME InventoryOK, AfterStatic
    PROVE  PlanFor(profile, targets) \in Seq(Good) /\ Ids(PlanFor(profile, targets)) = Applicable
<1>1. {"go", "self"} \subseteq programs
  BY DEF AfterStatic, AfterGit, AfterAnalysis, AfterFoundation
<1>2. profile \in Profiles
  BY DEF InventoryOK
<1> DEFINE fuzzing == FuzzControls(targets)
           go == {"go"}
           none == {}
           listing == <<Internal("fuzz_inventory", <<>>, none)>>
           bench == <<Internal("benchmark", <<>>, go)>>
<1>3. /\ CompatibilityControls \in Seq(Good) /\ Ids(CompatibilityControls) = Older
      /\ TestControls \in Seq(Good) /\ Ids(TestControls) = Tests
      /\ Compiles \in Seq(Good) /\ Ids(Compiles) = Compiled
      /\ fuzzing \in Seq(Good) /\ Ids(fuzzing) = Fuzzing
  BY <1>1, CompatibilityIds, TestIds, CompilesIds, FuzzIds
<1>4. CASE profile = "static"
  BY <1>4, StaticIds DEF PlanFor, Applicable, Analyses
<1>5. CASE profile = "compatibility"
  BY <1>3, <1>5 DEF PlanFor, Applicable
<1>6. CASE profile = "test"
  BY <1>3, <1>6 DEF PlanFor, Applicable
<1>7. CASE profile = "campaign"
  <2> HIDE DEF fuzzing
  <2>1. Compiles \o fuzzing \in Seq(Good) /\ Ids(Compiles \o fuzzing) = Compiled \union Fuzzing
    BY <1>3, IdsOfConcat
  <2>2. PlanFor(profile, targets) = Compiles \o fuzzing /\ Applicable = Compiled \union Fuzzing
    BY <1>7 DEF PlanFor, Applicable, fuzzing
  <2> QED
    BY <2>1, <2>2
<1>8. CASE profile = "fuzz-inventory"
  <2>1. PlanFor(profile, targets) = Compiles \o listing
        /\ Applicable = Compiled \union Whole({"fuzz_inventory"})
    BY <1>8 DEF PlanFor, Applicable
  <2>2. none \in SUBSET programs /\ "fuzz_inventory" \in WholeRoles
    BY DEF WholeRoles
  <2> HIDE DEF none
  <2>3. listing \in Seq(Good) /\ Ids(listing) = Whole({"fuzz_inventory"})
    BY <1>1, <2>2, InternalIds
  <2> HIDE DEF listing
  <2>4. Compiles \o listing \in Seq(Good) /\ Ids(Compiles \o listing) = Ids(Compiles) \union Ids(listing)
    BY <1>3, <2>3, IdsOfConcat
  <2> QED
    BY <1>3, <2>1, <2>3, <2>4
<1>9. CASE profile = "benchmark"
  <2>1. PlanFor(profile, targets) = Compiles \o bench
        /\ Applicable = Compiled \union Whole({"benchmark"})
    BY <1>9 DEF PlanFor, Applicable
  <2>2. go \in SUBSET programs /\ "benchmark" \in WholeRoles
    BY <1>1 DEF WholeRoles
  <2> HIDE DEF go
  <2>3. bench \in Seq(Good) /\ Ids(bench) = Whole({"benchmark"})
    BY <1>1, <2>2, InternalIds
  <2> HIDE DEF bench
  <2>4. Compiles \o bench \in Seq(Good) /\ Ids(Compiles \o bench) = Ids(Compiles) \union Ids(bench)
    BY <1>3, <2>3, IdsOfConcat
  <2> QED
    BY <1>3, <2>1, <2>3, <2>4
<1>10. CASE profile = "all"
  <2>1. /\ PlanFor(profile, targets) = StaticControls \o CompatibilityControls \o TestControls \o fuzzing
        /\ Applicable = Static \union Older \union Tests \union Fuzzing
    BY <1>10 DEF PlanFor, Applicable
  <2>2. StaticControls \in Seq(Good) /\ Ids(StaticControls) = Static
    BY <1>10, StaticIds DEF Analyses
  <2> HIDE DEF fuzzing
  <2>3. /\ StaticControls \o CompatibilityControls \in Seq(Good)
        /\ Ids(StaticControls \o CompatibilityControls) = Static \union Older
    BY <1>3, <2>2, IdsOfConcat
  <2>4. /\ StaticControls \o CompatibilityControls \o TestControls \in Seq(Good)
        /\ Ids(StaticControls \o CompatibilityControls \o TestControls)
             = Static \union Older \union Tests
    BY <1>3, <2>3, IdsOfConcat
  <2>5. /\ StaticControls \o CompatibilityControls \o TestControls \o fuzzing \in Seq(Good)
        /\ Ids(StaticControls \o CompatibilityControls \o TestControls \o fuzzing)
             = Static \union Older \union Tests \union Fuzzing
    BY <1>3, <2>4, IdsOfConcat
  <2> QED
    BY <2>1, <2>5
<1> QED
  BY <1>2, <1>4, <1>5, <1>6, <1>7, <1>8, <1>9, <1>10 DEF Profiles

\* The plan that was returned.
LEMMA PlannedIds ==
    ASSUME PlanningIInv, Planned
    PROVE  /\ Plan \in Seq(Good) /\ Ids(Plan) = Applicable
           /\ \A i \in DOMAIN Plan : Plan[i] \in Good
<1>1. InventoryOK /\ AfterStatic /\ Plan = PlanFor(profile, targets)
  BY DEF PlanningIInv, StepOK
<1>2. Plan \in Seq(Good) /\ Ids(Plan) = Applicable
  BY <1>1, PlanIds
<1> HIDE DEF Plan
<1> QED
  BY <1>2

\* ToolsAreResolved: whatever the repository, no control of a plan runs a program
\* that its profile did not resolve.
THEOREM ToolsResolved == PlanningSpec => []ToolsAreResolved
<1>1. PlanningIInv => ToolsAreResolved
  <2> SUFFICES ASSUME PlanningIInv, Planned, NEW i \in DOMAIN Plan PROVE Plan[i].tools \subseteq programs
    BY DEF ToolsAreResolved
  <2>1. Plan[i] \in Good
    BY PlannedIds
  <2> QED
    BY <2>1 DEF Good, Controls
<1> QED
  BY <1>1, PlanningInvariance, PTL

\* CampaignHasTime: for every cleanup time and number of targets, the rounding, the
\* cap and the nested timeouts leave every lane its own timeout.
THEOREM EnoughTime == PlanningSpec => []CampaignHasTime
<1>1. PlanningIInv => CampaignHasTime
  <2> SUFFICES ASSUME PlanningIInv, Planned, NEW i \in DOMAIN Plan
               PROVE  Timely(Plan[i])
    BY DEF CampaignHasTime, Timely
  <2>1. Plan[i] \in Good
    BY PlannedIds
  <2> QED
    BY <2>1 DEF Good
<1> QED
  BY <1>1, PlanningInvariance, PTL

\* PlanIsTheTable: for every repository and profile, the list that is built control
\* by control is the documented table, each control once.
THEOREM PlanIsExact == PlanningSpec => []PlanIsTheTable
<1>1. PlanningIInv => PlanIsTheTable
  <2> SUFFICES ASSUME PlanningIInv, Planned
               PROVE  Identities = Applicable /\ Cardinality(Identities) = Len(Plan)
    BY DEF PlanIsTheTable
  <2>1. Plan \in Seq(Good) /\ Ids(Plan) = Applicable
    BY PlannedIds
  <2> DEFINE f == [i \in DOMAIN Plan |-> <<Plan[i].role, Plan[i].at>>]
             n == Len(Plan)
  <2>2. Identities = Ids(Plan)
    BY DEF Identities, Ids, ToSet
  <2>3. IsInjective(f)
    BY DEF PlanningIInv, StepOK
  <2>4. n \in Nat /\ DOMAIN Plan = 1 .. n
    BY <2>1
  <2>5. Cardinality(Identities) = n
    <3>1. f \in [1 .. n -> Identities] /\ Identities = {f[i] : i \in 1 .. n}
      BY <2>4 DEF Identities
    <3>2. \A i, j \in 1 .. n : f[i] = f[j] => i = j
      BY <2>3, <2>4 DEF IsInjective
    <3> HIDE DEF f, n
    <3>3. f \in Bijection(1 .. n, Identities)
      BY <3>1, <3>2, Zenon DEF Bijection, Injection, Surjection, IsInjective
    <3> QED
      BY <2>4, <3>3, FS_CountingElements DEF ExistsBijection
  <2> QED
    BY <2>1, <2>2, <2>5
<1> QED
  BY <1>1, PlanningInvariance, PTL

-----------------------------------------------------------------------------
(* Order *)

\* Every prerequisite in s comes before what needs it.
Ordered(s) ==
    \A p \in Prerequisites : \A i, j \in DOMAIN s :
        s[i].role = p[1] /\ s[j].role = p[2] => i < j

\* All roles of s are in A.
RolesIn(s, A) == \A p \in Ids(s) : p[1] \in A

\* Nothing of A needs anything of B.
Clear(A, B) == \A p \in Prerequisites : p[2] \notin A \/ p[1] \notin B

\* Lists whose roles do not need each other are ordered, and stay so when joined.
LEMMA RoleIsIn ==
    ASSUME NEW s \in Seq(Good), NEW A, RolesIn(s, A), NEW i \in DOMAIN s
    PROVE  s[i].role \in A
<1> DEFINE c == s[i]
<1>1. c \in ToSet(s)
  BY DEF ToSet
<1> HIDE DEF c
<1>2. <<c.role, c.at>> \in Ids(s)
  BY <1>1 DEF Ids
<1>3. \A p \in Ids(s) : p[1] \in A
  BY DEF RolesIn
<1>4. <<c.role, c.at>>[1] = c.role
  OBVIOUS
<1>5. c.role \in A
  BY <1>2, <1>3, <1>4
<1> QED
  BY <1>5 DEF c

LEMMA OrderedWithin ==
    ASSUME NEW s \in Seq(Good), NEW A, RolesIn(s, A), Clear(A, A)
    PROVE  Ordered(s)
<1>1. \A i \in DOMAIN s : s[i].role \in A
  BY RoleIsIn
<1> QED
  BY <1>1 DEF Ordered, Clear

LEMMA OrderedConcat ==
    ASSUME NEW s \in Seq(Good), NEW t \in Seq(Good), NEW A, NEW B,
           RolesIn(s, A), RolesIn(t, B), Ordered(s), Ordered(t), Clear(A, B)
    PROVE  Ordered(s \o t) /\ RolesIn(s \o t, A \union B)
<1> DEFINE all == s \o t
<1>1. /\ DOMAIN all = 1 .. Len(s) + Len(t) /\ Len(s) \in Nat /\ Len(t) \in Nat
      /\ DOMAIN s = 1 .. Len(s) /\ DOMAIN t = 1 .. Len(t)
      /\ \A i \in 1 .. Len(s) : all[i] = s[i]
      /\ \A i \in DOMAIN all : i \notin 1 .. Len(s) =>
            i - Len(s) \in 1 .. Len(t) /\ all[i] = t[i - Len(s)]
  OBVIOUS
<1>2. \A i \in DOMAIN s : s[i].role \in A
  BY RoleIsIn
<1>3. \A i \in DOMAIN t : t[i].role \in B
  BY RoleIsIn
<1> DEFINE n == Len(s)
<1> HIDE DEF all, n
<1>4. ASSUME NEW p \in Prerequisites, NEW i \in DOMAIN all, NEW j \in DOMAIN all,
             all[i].role = p[1], all[j].role = p[2]
      PROVE  i < j
  <2>1. i \in Int /\ j \in Int /\ n \in Nat
    BY <1>1 DEF n
  <2>2. CASE i <= n /\ j <= n
    <3>1. i \in DOMAIN s /\ j \in DOMAIN s /\ all[i] = s[i] /\ all[j] = s[j]
      BY <1>1, <2>2 DEF n
    <3> QED
      BY <1>4, <3>1 DEF Ordered
  <2>3. CASE i > n /\ j > n
    <3>1. i - n \in DOMAIN t /\ j - n \in DOMAIN t /\ all[i] = t[i - n] /\ all[j] = t[j - n]
      BY <1>1, <2>3 DEF n
    <3>2. i - n < j - n
      BY <1>4, <3>1 DEF Ordered
    <3> QED
      BY <2>1, <3>2
  <2>4. CASE i > n /\ j <= n
    <3>1. i - n \in DOMAIN t /\ all[i] = t[i - n] /\ j \in DOMAIN s /\ all[j] = s[j]
      BY <1>1, <2>4 DEF n
    <3>2. p[1] \in B /\ p[2] \in A
      BY <1>2, <1>3, <1>4, <3>1
    <3> QED
      BY <3>2 DEF Clear
  <2> QED
    BY <2>1, <2>2, <2>3, <2>4
<1>5. Ordered(all)
  BY <1>4 DEF Ordered
<1>6. RolesIn(s \o t, A \union B)
  <2>1. Ids(s \o t) = Ids(s) \union Ids(t)
    BY IdsOfConcat
  <2> QED
    BY <2>1 DEF RolesIn
<1> QED
  BY <1>5, <1>6 DEF all

AdmissionRoles == {"workflow_admission", "workflow", "workflow_dependencies"}

\* The static controls stand in a sound order.
LEMMA WorkflowIsOrdered ==
    ASSUME WorkflowControls \in Seq(Good)
    PROVE  Ordered(WorkflowControls)
<1>1. /\ DOMAIN WorkflowControls = 1 .. 3
      /\ WorkflowControls[1].role = "workflow_admission"
      /\ WorkflowControls[2].role = "workflow"
      /\ WorkflowControls[3].role = "workflow_dependencies"
  BY DEF WorkflowControls, ExactControl, Internal, Child
<1> QED
  BY <1>1 DEF Ordered, Prerequisites

LEMMA ExtraIsOrdered ==
    ASSUME InventoryOK, AfterStatic, Analyses
    PROVE  Ordered(extra) /\ RolesIn(extra, AdmissionRoles \union {"shell_syntax", "shell_analysis"})
<1> DEFINE shell == IF inventory.shell THEN ShellControls ELSE <<>>
           flows == IF inventory.workflows THEN WorkflowControls ELSE <<>>
           A == {"shell_syntax", "shell_analysis"}
<1>1. shell \in Seq(Good) /\ RolesIn(shell, A)
  <2>1. CASE inventory.shell
    BY <2>1, ShellIds DEF AfterStatic, RolesIn, Whole
  <2>2. CASE ~inventory.shell
    BY <2>2, IdsOfNone DEF RolesIn
  <2> QED
    BY <2>1, <2>2
<1>2. flows \in Seq(Good) /\ RolesIn(flows, AdmissionRoles) /\ Ordered(flows)
  <2>1. CASE inventory.workflows
    <3>1. {"self", "actionlint", "shellcheck", "git"} \subseteq programs
      BY <2>1 DEF AfterStatic, AfterGit, AfterAnalysis, AfterFoundation
    <3> QED
      BY <2>1, <3>1, WorkflowIds, WorkflowIsOrdered DEF RolesIn, Whole, AdmissionRoles
  <2>2. CASE ~inventory.workflows
    <3>1. flows = <<>> /\ flows \in Seq(Good) /\ Ids(flows) = {}
      BY <2>2, IdsOfNone
    <3>2. RolesIn(flows, AdmissionRoles) /\ RolesIn(flows, {}) /\ Clear({}, {})
      BY <3>1 DEF RolesIn, Clear
    <3> QED
      BY <3>1, <3>2, OrderedWithin
  <2> QED
    BY <2>1, <2>2
<1>3. Clear(A, A) /\ Clear(A, AdmissionRoles)
  BY DEF Clear, Prerequisites, AdmissionRoles
<1>4. extra = shell \o flows
  BY DEF AfterStatic, Extra
<1> HIDE DEF shell, flows, A
<1>5. Ordered(shell)
  BY <1>1, <1>3, OrderedWithin
<1>6. Ordered(shell \o flows) /\ RolesIn(shell \o flows, A \union AdmissionRoles)
  BY <1>1, <1>2, <1>3, <1>5, OrderedConcat
<1> QED
  BY <1>4, <1>6 DEF A

LEMMA StaticIsOrdered ==
    ASSUME InventoryOK, AfterStatic, Analyses
    PROVE  Ordered(StaticControls)
<1> DEFINE head == <<ExactControl("toolchain", <<>>, {"go"}),
                     ExactControl("linter_config", <<>>, {"linter"}),
                     ExactControl("coverage_self_test", <<>>, {"self"})>>
           prep == Concat(Count, Preparation)
           currency == <<Internal("dependency_currency", <<>>, {"go"})>>
           analysis == Concat(Count, Analysis)
           A == {"toolchain", "linter_config", "coverage_self_test"}
           B == {"tidy", "verify"}
           C == {"dependency_currency"}
           D == {"fix", "format", "vet", "lint", "compile", "vulnerabilities"}
           X == AdmissionRoles \union {"shell_syntax", "shell_analysis"}
<1>1. {"go", "self", "linter", "vulnerability"} \subseteq programs
  BY DEF AfterStatic, AfterGit, AfterAnalysis, AfterFoundation
<1>2. head \in Seq(Good) /\ RolesIn(head, A)
  BY <1>1, HeadIds DEF RolesIn, Whole
<1>3. prep \in Seq(Good) /\ RolesIn(prep, B)
  BY <1>1, PreparationIds DEF RolesIn, Of
<1>4. currency \in Seq(Good) /\ RolesIn(currency, C)
  <2> DEFINE go == {"go"}
  <2>1. go \in SUBSET programs /\ "dependency_currency" \in WholeRoles
    BY <1>1 DEF WholeRoles
  <2> HIDE DEF go
  <2>2. /\ <<Internal("dependency_currency", <<>>, go)>> \in Seq(Good)
        /\ Ids(<<Internal("dependency_currency", <<>>, go)>>) = Whole({"dependency_currency"})
    BY <1>1, <2>1, InternalIds
  <2> QED
    BY <2>2 DEF go, RolesIn, Whole
<1>5. analysis \in Seq(Good) /\ RolesIn(analysis, D)
  <2>1. \A I : /\ \A p \in Of({"fix", "format", "vet", "lint", "compile"}, I) : p[1] \in D
               /\ \A p \in Of({"vulnerabilities"}, I) : p[1] \in D
    BY DEF Of
  <2> QED
    BY <1>1, <2>1, AnalysesIds DEF RolesIn
<1>6. extra \in Seq(Good) /\ RolesIn(extra, X) /\ Ordered(extra)
  BY ExtraIds, ExtraIsOrdered
<1>7. /\ Clear(A, A) /\ Clear(B, B) /\ Clear(C, C) /\ Clear(D, D)
      /\ Clear(A, B) /\ Clear(A \union B, C) /\ Clear(A \union B \union C, D)
      /\ Clear(A \union B \union C \union D, X)
  BY DEF Clear, Prerequisites, AdmissionRoles
<1>8. StaticControls = head \o prep \o currency \o analysis \o extra
  BY DEF StaticControls
<1> HIDE DEF head, prep, currency, analysis, A, B, C, D, X
<1>9. Ordered(head) /\ Ordered(prep) /\ Ordered(currency) /\ Ordered(analysis)
  BY <1>2, <1>3, <1>4, <1>5, <1>7, OrderedWithin
<1>10. /\ head \o prep \in Seq(Good)
       /\ Ordered(head \o prep) /\ RolesIn(head \o prep, A \union B)
  BY <1>2, <1>3, <1>7, <1>9, OrderedConcat, IdsOfConcat
<1>11. /\ head \o prep \o currency \in Seq(Good)
       /\ Ordered(head \o prep \o currency)
       /\ RolesIn(head \o prep \o currency, A \union B \union C)
  BY <1>4, <1>7, <1>9, <1>10, OrderedConcat, IdsOfConcat
<1>12. /\ head \o prep \o currency \o analysis \in Seq(Good)
       /\ Ordered(head \o prep \o currency \o analysis)
       /\ RolesIn(head \o prep \o currency \o analysis, A \union B \union C \union D)
  BY <1>5, <1>7, <1>9, <1>11, OrderedConcat, IdsOfConcat
<1>13. Ordered(head \o prep \o currency \o analysis \o extra)
  BY <1>6, <1>7, <1>12, OrderedConcat
<1> QED
  BY <1>8, <1>13

\* The controls that need every module compiled.
Targeted == {"fuzz_campaign", "fuzz_inventory", "benchmark"}

\* The roles each part of the table has.
LEMMA RolesOfTheTable ==
    /\ \A p \in Older \union Tests :
         p[1] \in {"compatibility_toolchain", "compatibility_test", "coverage", "race"}
    /\ \A p \in Fuzzing : p[1] \in {"fuzz_campaign"}
    /\ \A p \in Compiled : p[1] \in {"compile"}
    /\ \A p \in Static : p[1] \notin Targeted
<1>1. \A R, I : \A p \in Of(R, I) : p[1] \in R
  BY DEF Of
<1>2. \A R : \A p \in Whole(R) : p[1] \in R
  BY DEF Whole
<1>3. \A p \in Older : p[1] \in {"compatibility_toolchain", "compatibility_test"}
  BY <1>1 DEF Older
<1>4. \A p \in Tests : p[1] \in {"coverage", "race"}
  BY <1>1 DEF Tests
<1>5. \A p \in Fuzzing : p[1] \in {"fuzz_campaign"}
  BY <1>2 DEF Fuzzing
<1>6. \A p \in Compiled : p[1] \in {"compile"}
  BY <1>1 DEF Compiled
<1>7. \A p \in Static : p[1] \notin Targeted
  BY <1>1, <1>2 DEF Static, Targeted
<1> QED
  BY <1>3, <1>4, <1>5, <1>6, <1>7

\* So does every profile.
LEMMA PlanIsOrdered ==
    ASSUME InventoryOK, AfterStatic
    PROVE  Ordered(PlanFor(profile, targets))
<1>1. {"go", "self"} \subseteq programs
  BY DEF AfterStatic, AfterGit, AfterAnalysis, AfterFoundation
<1>2. profile \in Profiles
  BY DEF InventoryOK
<1> DEFINE fuzzing == FuzzControls(targets)
           go == {"go"}
           none == {}
           listing == <<Internal("fuzz_inventory", <<>>, none)>>
           bench == <<Internal("benchmark", <<>>, go)>>
           C == {"compile"}
           F == {"fuzz_campaign"}
           O == {"compatibility_toolchain", "compatibility_test", "coverage", "race"}
           S == Roles \ Targeted
<1>3. /\ CompatibilityControls \in Seq(Good) /\ TestControls \in Seq(Good)
      /\ Compiles \in Seq(Good) /\ fuzzing \in Seq(Good)
  BY <1>1, CompatibilityIds, TestIds, CompilesIds, FuzzIds
<1>4. /\ RolesIn(CompatibilityControls, O) /\ RolesIn(TestControls, O)
      /\ RolesIn(Compiles, C) /\ RolesIn(fuzzing, F)
  BY <1>1, CompatibilityIds, TestIds, CompilesIds, FuzzIds, RolesOfTheTable DEF RolesIn
<1>5. /\ Clear(O, O) /\ Clear(C, C) /\ Clear(F, F) /\ Clear(C, F) /\ Clear(S, O) /\ Clear(S \union O, O)
      /\ Clear(S \union O \union O, F)
      /\ Clear(C, {"fuzz_inventory"}) /\ Clear({"fuzz_inventory"}, {"fuzz_inventory"})
      /\ Clear(C, {"benchmark"}) /\ Clear({"benchmark"}, {"benchmark"})
  BY DEF Clear, Prerequisites, Targeted
<1> HIDE DEF fuzzing, C, F, O, S
<1>6. Ordered(CompatibilityControls) /\ Ordered(TestControls) /\ Ordered(Compiles) /\ Ordered(fuzzing)
  BY <1>3, <1>4, <1>5, OrderedWithin
<1>7. CASE profile = "static"
  BY <1>7, StaticIsOrdered DEF PlanFor, Analyses
<1>8. CASE profile \in {"compatibility", "test"}
  BY <1>6, <1>8 DEF PlanFor
<1>9. CASE profile = "campaign"
  <2>1. PlanFor(profile, targets) = Compiles \o fuzzing
    BY <1>9 DEF PlanFor, fuzzing
  <2> QED
    BY <1>3, <1>4, <1>5, <1>6, <2>1, OrderedConcat
<1>10. CASE profile = "fuzz-inventory"
  <2>1. PlanFor(profile, targets) = Compiles \o listing
    BY <1>10 DEF PlanFor
  <2>2. none \in SUBSET programs /\ "fuzz_inventory" \in WholeRoles
    BY DEF WholeRoles
  <2> HIDE DEF none
  <2>3. listing \in Seq(Good) /\ RolesIn(listing, {"fuzz_inventory"})
    BY <1>1, <2>2, InternalIds DEF RolesIn, Whole
  <2> HIDE DEF listing
  <2>4. Ordered(listing)
    BY <1>5, <2>3, OrderedWithin
  <2> QED
    BY <1>3, <1>4, <1>5, <1>6, <2>1, <2>3, <2>4, OrderedConcat
<1>11. CASE profile = "benchmark"
  <2>1. PlanFor(profile, targets) = Compiles \o bench
    BY <1>11 DEF PlanFor
  <2>2. go \in SUBSET programs /\ "benchmark" \in WholeRoles
    BY <1>1 DEF WholeRoles
  <2> HIDE DEF go
  <2>3. bench \in Seq(Good) /\ RolesIn(bench, {"benchmark"})
    BY <1>1, <2>2, InternalIds DEF RolesIn, Whole
  <2> HIDE DEF bench
  <2>4. Ordered(bench)
    BY <1>5, <2>3, OrderedWithin
  <2> QED
    BY <1>3, <1>4, <1>5, <1>6, <2>1, <2>3, <2>4, OrderedConcat
<1>12. CASE profile = "all"
  <2>1. PlanFor(profile, targets) = StaticControls \o CompatibilityControls \o TestControls \o fuzzing
    BY <1>12 DEF PlanFor, fuzzing
  <2>2. Analyses
    BY <1>12 DEF Analyses
  <2>3. StaticControls \in Seq(Good) /\ Ids(StaticControls) = Static /\ Ordered(StaticControls)
    BY <2>2, StaticIds, StaticIsOrdered
  <2>4. RolesIn(StaticControls, S)
    <3>1. ASSUME NEW p \in Ids(StaticControls) PROVE p[1] \in Roles
      <4>1. PICK c \in ToSet(StaticControls) : p = <<c.role, c.at>>
        BY <3>1 DEF Ids
      <4>2. c \in Good
        <5>1. PICK i \in DOMAIN StaticControls : c = StaticControls[i]
          BY <4>1 DEF ToSet
        <5> QED
          BY <2>3, <5>1
      <4> QED
        BY <4>1, <4>2 DEF Good, Controls
    <3> QED
      BY <2>3, <3>1, RolesOfTheTable DEF RolesIn, S
  <2>5. /\ StaticControls \o CompatibilityControls \in Seq(Good)
        /\ Ordered(StaticControls \o CompatibilityControls)
        /\ RolesIn(StaticControls \o CompatibilityControls, S \union O)
    BY <1>3, <1>4, <1>5, <1>6, <2>3, <2>4, OrderedConcat, IdsOfConcat
  <2>6. /\ StaticControls \o CompatibilityControls \o TestControls \in Seq(Good)
        /\ Ordered(StaticControls \o CompatibilityControls \o TestControls)
        /\ RolesIn(StaticControls \o CompatibilityControls \o TestControls, S \union O \union O)
    BY <1>3, <1>4, <1>5, <1>6, <2>5, OrderedConcat, IdsOfConcat
  <2> QED
    BY <1>3, <1>4, <1>5, <1>6, <2>1, <2>6, OrderedConcat
<1> QED
  BY <1>2, <1>7, <1>8, <1>9, <1>10, <1>11, <1>12 DEF Profiles

\* Where targets are listed or run, every module with packages is compiled.
LEMMA TargetsNeedCompiles ==
    ASSUME profile \in Profiles, NEW p \in Applicable, p[1] \in Targeted, NEW m \in Code
    PROVE  <<"compile", <<m>>>> \in Applicable
<1>1. <<"compile", <<m>>>> \in Compiled /\ <<"compile", <<m>>>> \in Static
  BY DEF Compiled, Static, Of
<1>2. profile \notin {"static", "compatibility", "test"}
  BY RolesOfTheTable DEF Applicable, Targeted
<1> QED
  BY <1>1, <1>2 DEF Applicable, Profiles

\* PrerequisitesComeFirst: in every plan, what a control depends on comes before it.
THEOREM PrerequisitesFirst == PlanningSpec => []PrerequisitesComeFirst
<1>1. PlanningIInv => PrerequisitesComeFirst
  <2> SUFFICES ASSUME PlanningIInv, Planned PROVE PrerequisitesComeFirst
    BY DEF PrerequisitesComeFirst
  <2>1. InventoryOK /\ AfterStatic /\ Plan = PlanFor(profile, targets)
    BY DEF PlanningIInv, StepOK
  <2>2. Ordered(Plan)
    BY <2>1, PlanIsOrdered
  <2>3. Plan \in Seq(Good) /\ Ids(Plan) = Applicable
    BY PlannedIds
  <2>4. ASSUME NEW i \in DOMAIN Plan, NEW j \in DOMAIN Plan,
               <<Plan[i].role, Plan[j].role>> \in Prerequisites
        PROVE  i < j
    BY <2>2, <2>4 DEF Ordered
  <2>5. ASSUME NEW j \in DOMAIN Plan, Plan[j].role \in Targeted, NEW m \in Code
        PROVE  \E k \in 1 .. j - 1 : Plan[k].role = "compile" /\ Plan[k].at = <<m>>
    <3>1. <<Plan[j].role, Plan[j].at>> \in Applicable
      BY <2>3 DEF Ids, ToSet
    <3>2. <<"compile", <<m>>>> \in Ids(Plan)
      BY <2>1, <2>3, <2>5, <3>1, TargetsNeedCompiles DEF InventoryOK
    <3>3. PICK c \in ToSet(Plan) : <<"compile", <<m>>>> = <<c.role, c.at>>
      BY <3>2 DEF Ids
    <3>4. PICK k \in DOMAIN Plan : c = Plan[k]
      BY <3>3 DEF ToSet
    <3>5. Plan[k].role = "compile" /\ Plan[k].at = <<m>>
      BY <3>3, <3>4
    <3>6. <<Plan[k].role, Plan[j].role>> \in Prerequisites
      BY <2>5, <3>5 DEF Prerequisites, Targeted
    <3>7. k < j /\ k \in Nat /\ j \in Nat /\ k >= 1
      BY <2>3, <2>4, <3>6
    <3> QED
      BY <3>5, <3>7
  <2> QED
    BY <2>4, <2>5 DEF PrerequisitesComeFirst, Targeted
<1> QED
  BY <1>1, PlanningInvariance, PTL
=============================================================================
