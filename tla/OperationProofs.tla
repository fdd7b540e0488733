-------------------------- MODULE OperationProofs --------------------------
(***************************************************************************)
(* Proofs about two operations of a profile: coverage, for every profile,  *)
(* every width of an integer, every failure of a step and every moment of  *)
(* cancellation; and compatibility, for any modules, floors and toolchain. *)
(***************************************************************************)
EXTENDS CoverageProperties, CompatibilityProperties, FoldLemmas

-----------------------------------------------------------------------------
(* Decimals: the code's sum of digits with a width, and the number itself *)

Digits == 0 .. 9

\* The number a prefix of the digits stands for.
LEMMA NumberPrefix ==
    ASSUME NEW digits \in Seq(Digits)
    PROVE  \E N \in [0 .. Len(digits) -> Nat] :
             /\ N[0] = 0 /\ Number(digits) = N[Len(digits)]
             /\ \A m \in 1 .. Len(digits) : N[m] = 10 * N[m - 1] + digits[m]
<1> DEFINE n == Len(digits)
           Step(f) == [s \in SUBSET (1 .. n) |->
                        IF s = {} THEN 0 ELSE 10 * f[s \ {Max(s)}] + digits[Max(s)]]
           fold == CHOOSE f : f = Step(f)
           op == [x \in Nat \X (1 .. n) |-> 10 * x[1] + digits[x[2]]]
<1>1. n \in Nat /\ DOMAIN digits = 1 .. n /\ \A m \in 1 .. n : digits[m] \in Nat
  BY DEF Digits
<1>2. Number(digits) = fold[1 .. n]
  BY <1>1 DEF Number, FoldLeft, MapThenFoldSet
<1>3. op \in [Nat \X (1 .. n) -> Nat]
  BY <1>1
<1>4. PICK it \in [SUBSET (1 .. n) -> Nat] : IsFold(it, n, 0, op)
  BY <1>1, <1>3, FoldExists
<1>5. it = Step(it)
  <2>1. ASSUME NEW s \in SUBSET (1 .. n), s # {}
        PROVE  it[s] = 10 * it[s \ {Max(s)}] + digits[Max(s)]
    <3>1. Max(s) \in 1 .. n /\ s \ {Max(s)} \in SUBSET (1 .. n)
      BY <1>1, <2>1, MaxIsGreatest
    <3>2. it[s] = op[<<it[s \ {Max(s)}], Max(s)>>]
      BY <1>4, <2>1 DEF IsFold
    <3> QED
      BY <3>1, <3>2
  <2>2. it[{}] = 0
    BY <1>4 DEF IsFold
  <2> QED
    BY <2>1, <2>2
<1>6. fold = Step(fold)
  BY <1>5
<1>7. PICK N \in [0 .. n -> Nat] : Unfolds(N, fold, n, 0, op)
  <2>1. FoldsIn(Nat, fold, n, 0, op)
    <3>1. ASSUME NEW s \in SUBSET (1 .. n), s # {}, fold[s \ {Max(s)}] \in Nat
          PROVE  fold[s] = op[<<fold[s \ {Max(s)}], Max(s)>>]
      <4>1. Max(s) \in 1 .. n
        BY <1>1, <3>1, MaxIsGreatest
      <4> QED
        BY <1>6, <3>1, <4>1
    <3>2. fold[{}] = 0
      BY <1>6
    <3> QED
      BY <3>1, <3>2 DEF FoldsIn
  <2>2. n \in Nat /\ 0 \in Nat /\ op \in [Nat \X (1 .. n) -> Nat]
    BY <1>1, <1>3
  <2> HIDE DEF fold, op, n
  <2> QED
    BY <2>1, <2>2, FoldPrefix
<1>8. \A m \in 1 .. n : N[m - 1] \in Nat
  <2>1. \A m \in 1 .. n : m - 1 \in 0 .. n
    BY <1>1
  <2> QED
    BY <2>1
<1> QED
  BY <1>2, <1>7, <1>8 DEF Unfolds

\* What UnsignedDecimal has made of a prefix of the digits.
LEMMA DecimalPrefix ==
    ASSUME NEW digits \in Seq(Digits), Canonical(digits)
    PROVE  \E U \in [0 .. Len(digits) -> Int] :
             /\ U[0] = 0 /\ UnsignedDecimal(digits) = U[Len(digits)]
             /\ \A m \in 1 .. Len(digits) : U[m] = TimesTen(U[m - 1], digits[m])
<1> DEFINE n == Len(digits)
           Step(f) == [s \in SUBSET (1 .. n) |->
                        IF s = {} THEN 0 ELSE TimesTen(f[s \ {Max(s)}], digits[Max(s)])]
           fold == CHOOSE f : f = Step(f)
           op == [x \in Int \X (1 .. n) |-> TimesTen(x[1], digits[x[2]])]
<1>1. n \in Nat /\ DOMAIN digits = 1 .. n /\ \A m \in 1 .. n : digits[m] \in Nat
  BY DEF Digits
<1>2. UnsignedDecimal(digits) = fold[1 .. n]
  BY <1>1 DEF UnsignedDecimal, Canonical, FoldLeft, MapThenFoldSet
<1>3. \A x \in Int, m \in 1 .. n : TimesTen(x, digits[m]) \in Int
  BY <1>1 DEF TimesTen, Overflow
<1>4. PICK it \in [SUBSET (1 .. n) -> Int] : IsFold(it, n, 0, op)
  <2>1. op \in [Int \X (1 .. n) -> Int]
    BY <1>3
  <2>2. 0 \in Int /\ n \in Nat
    BY <1>1
  <2> HIDE DEF op, n
  <2> QED
    BY <2>1, <2>2, FoldExists
<1>5. it = Step(it)
  <2>1. ASSUME NEW s \in SUBSET (1 .. n), s # {}
        PROVE  it[s] = TimesTen(it[s \ {Max(s)}], digits[Max(s)])
    <3>1. Max(s) \in 1 .. n /\ s \ {Max(s)} \in SUBSET (1 .. n)
      BY <1>1, <2>1, MaxIsGreatest
    <3>2. it[s] = op[<<it[s \ {Max(s)}], Max(s)>>]
      BY <1>4, <2>1 DEF IsFold
    <3> QED
      BY <3>1, <3>2
  <2>2. it[{}] = 0
    BY <1>4 DEF IsFold
  <2> QED
    BY <2>1, <2>2
<1>6. fold = Step(fold)
  BY <1>5
<1>7. PICK U \in [0 .. n -> Int] : Unfolds(U, fold, n, 0, op)
  <2>1. FoldsIn(Int, fold, n, 0, op)
    <3>1. ASSUME NEW s \in SUBSET (1 .. n), s # {}, fold[s \ {Max(s)}] \in Int
          PROVE  fold[s] = op[<<fold[s \ {Max(s)}], Max(s)>>]
      <4>1. Max(s) \in 1 .. n
        BY <1>1, <3>1, MaxIsGreatest
      <4> QED
        BY <1>6, <3>1, <4>1
    <3>2. fold[{}] = 0
      BY <1>6
    <3> QED
      BY <3>1, <3>2 DEF FoldsIn
  <2>2. n \in Nat /\ 0 \in Int /\ op \in [Int \X (1 .. n) -> Int]
    BY <1>1, <1>3
  <2> HIDE DEF fold, op, n
  <2> QED
    BY <2>1, <2>2, FoldPrefix
<1>8. \A m \in 1 .. n : U[m - 1] \in Int
  <2>1. \A m \in 1 .. n : m - 1 \in 0 .. n
    BY <1>1
  <2> QED
    BY <2>1
<1> QED
  BY <1>2, <1>7, <1>8 DEF Unfolds

\* UnsignedDecimal is the number of its digits where that fits, and else Overflow.
LEMMA DecimalIsNumber ==
    ASSUME NEW digits \in Seq(Digits)
    PROVE  /\ Number(digits) \in Nat
           /\ UnsignedDecimal(digits) =
                IF Canonical(digits) /\ Number(digits) <= MaxUint THEN Number(digits) ELSE Overflow
<1> DEFINE n == Len(digits)
<1>1. n \in Nat /\ MaxUint \in Nat /\ \A m \in 1 .. n : digits[m] \in Nat
  BY CoverageAssumption DEF Digits
<1>2. PICK N \in [0 .. n -> Nat] :
        /\ N[0] = 0 /\ Number(digits) = N[n]
        /\ \A m \in 1 .. n : N[m] = 10 * N[m - 1] + digits[m]
  BY NumberPrefix
<1>3. Number(digits) \in Nat
  BY <1>1, <1>2
<1>4. CASE ~Canonical(digits)
  BY <1>3, <1>4 DEF Canonical, UnsignedDecimal
<1>5. CASE Canonical(digits)
  <2>1. PICK U \in [0 .. n -> Int] :
          /\ U[0] = 0 /\ UnsignedDecimal(digits) = U[n]
          /\ \A m \in 1 .. n : U[m] = TimesTen(U[m - 1], digits[m])
    BY <1>5, DecimalPrefix
  <2> DEFINE P == {m \in 0 .. n : U[m] = IF N[m] <= MaxUint THEN N[m] ELSE Overflow}
  <2>2. 0 \in P
    BY <1>1, <1>2, <2>1
  <2>3. ASSUME NEW m \in 0 .. n, m \in P, m < n PROVE m + 1 \in P
    <3>1. m + 1 \in 1 .. n /\ m + 1 - 1 = m /\ N[m] \in Nat /\ digits[m + 1] \in Nat
      BY <1>1, <2>3
    <3>2. N[m + 1] = 10 * N[m] + digits[m + 1] /\ U[m + 1] = TimesTen(U[m], digits[m + 1])
      BY <1>2, <2>1, <3>1
    <3>3. U[m] = IF N[m] <= MaxUint THEN N[m] ELSE Overflow
      BY <2>3
    <3>4. U[m + 1] = IF N[m + 1] <= MaxUint THEN N[m + 1] ELSE Overflow
      BY <1>1, <3>1, <3>2, <3>3 DEF TimesTen, Overflow
    <3> QED
      BY <3>1, <3>4
  <2>4. \A m \in 0 .. n : m \in P
    <3> HIDE DEF P
    <3> QED
      BY <1>1, <2>2, <2>3, Induction
  <2> QED
    BY <1>1, <1>2, <1>5, <2>1, <2>4
<1> QED
  BY <1>3, <1>4, <1>5

-----------------------------------------------------------------------------
(* The sum over the rows *)

\* The sum over a prefix of the rows.
LEMMA TotalPrefix ==
    ASSUME NEW ps \in Seq(Rows(Seq(Digits)))
    PROVE  \E N \in [0 .. Len(ps) -> Nat] :
             /\ N[0] = 0 /\ Total(ps) = N[Len(ps)]
             /\ \A m \in 1 .. Len(ps) : N[m] = N[m - 1] + Number(ps[m].statements)
<1> DEFINE n == Len(ps)
           Of(m) == Number(ps[m].statements)
           Step(f) == [s \in SUBSET (1 .. n) |->
                        IF s = {} THEN 0 ELSE f[s \ {Max(s)}] + Of(Max(s))]
           fold == CHOOSE f : f = Step(f)
           op == [x \in Nat \X (1 .. n) |-> x[1] + Of(x[2])]
<1>1. n \in Nat /\ DOMAIN ps = 1 .. n /\ \A m \in 1 .. n : Of(m) \in Nat
  <2>1. ASSUME NEW m \in 1 .. n PROVE Of(m) \in Nat
    <3>1. ps[m] \in Rows(Seq(Digits))
      OBVIOUS
    <3>2. ps[m].statements \in Seq(Digits)
      BY <3>1 DEF Rows
    <3> QED
      BY <3>2, DecimalIsNumber
  <2> QED
    BY <2>1
<1>2. Total(ps) = fold[1 .. n]
  BY <1>1 DEF Total, FoldLeft, MapThenFoldSet
<1> HIDE DEF Of
<1>3. op \in [Nat \X (1 .. n) -> Nat]
  BY <1>1
<1>4. PICK it \in [SUBSET (1 .. n) -> Nat] : IsFold(it, n, 0, op)
  BY <1>1, <1>3, FoldExists
<1>5. it = Step(it)
  <2>1. ASSUME NEW s \in SUBSET (1 .. n), s # {}
        PROVE  it[s] = it[s \ {Max(s)}] + Of(Max(s))
    <3>1. Max(s) \in 1 .. n /\ s \ {Max(s)} \in SUBSET (1 .. n)
      BY <1>1, <2>1, MaxIsGreatest
    <3>2. it[s] = op[<<it[s \ {Max(s)}], Max(s)>>]
      BY <1>4, <2>1 DEF IsFold
    <3> QED
      BY <3>1, <3>2
  <2>2. it[{}] = 0
    BY <1>4 DEF IsFold
  <2> QED
    BY <2>1, <2>2
<1>6. fold = Step(fold)
  BY <1>5
<1>7. PICK N \in [0 .. n -> Nat] : Unfolds(N, fold, n, 0, op)
  <2>1. FoldsIn(Nat, fold, n, 0, op)
    <3>1. ASSUME NEW s \in SUBSET (1 .. n), s # {}, fold[s \ {Max(s)}] \in Nat
          PROVE  fold[s] = op[<<fold[s \ {Max(s)}], Max(s)>>]
      <4>1. Max(s) \in 1 .. n
        BY <1>1, <3>1, MaxIsGreatest
      <4> QED
        BY <1>6, <3>1, <4>1
    <3>2. fold[{}] = 0
      BY <1>6
    <3> QED
      BY <3>1, <3>2 DEF FoldsIn
  <2>2. n \in Nat /\ 0 \in Nat /\ op \in [Nat \X (1 .. n) -> Nat]
    BY <1>1, <1>3
  <2> HIDE DEF fold, op, n
  <2> QED
    BY <2>1, <2>2, FoldPrefix
<1>8. \A m \in 1 .. n : N[m - 1] \in Nat
  <2>1. \A m \in 1 .. n : m - 1 \in 0 .. n
    BY <1>1
  <2> QED
    BY <2>1
<1> QED
  BY <1>2, <1>7, <1>8 DEF Unfolds, Of

\* One row more adds its statements to the sum.
LEMMA TotalExtends ==
    ASSUME NEW ps \in Seq(Rows(Seq(Digits))), NEW m \in 1 .. Len(ps)
    PROVE  /\ Total(SubSeq(ps, 1, m - 1)) \in Nat
           /\ Total(SubSeq(ps, 1, m)) = Total(SubSeq(ps, 1, m - 1)) + Number(ps[m].statements)
<1> DEFINE long == SubSeq(ps, 1, m)
           short == SubSeq(ps, 1, m - 1)
<1>1. /\ long \in Seq(Rows(Seq(Digits))) /\ Len(long) = m /\ \A i \in 1 .. m : long[i] = ps[i]
      /\ short \in Seq(Rows(Seq(Digits))) /\ Len(short) = m - 1
      /\ \A i \in 1 .. m - 1 : short[i] = ps[i]
  OBVIOUS
<1> HIDE DEF long, short
<1>2. PICK L \in [0 .. m -> Nat] :
        /\ L[0] = 0 /\ Total(long) = L[m]
        /\ \A i \in 1 .. m : L[i] = L[i - 1] + Number(long[i].statements)
  BY <1>1, TotalPrefix
<1>3. PICK S \in [0 .. m - 1 -> Nat] :
        /\ S[0] = 0 /\ Total(short) = S[m - 1]
        /\ \A i \in 1 .. m - 1 : S[i] = S[i - 1] + Number(short[i].statements)
  <2>1. \E S \in [0 .. Len(short) -> Nat] :
          /\ S[0] = 0 /\ Total(short) = S[Len(short)]
          /\ \A i \in 1 .. Len(short) : S[i] = S[i - 1] + Number(short[i].statements)
    BY <1>1, TotalPrefix
  <2> QED
    BY <1>1, <2>1
<1> DEFINE P == {i \in 0 .. m - 1 : L[i] = S[i]}
<1>4. 0 \in P
  BY <1>2, <1>3
<1>5. ASSUME NEW i \in 0 .. m - 1, i \in P, i < m - 1 PROVE i + 1 \in P
  <2>1. i + 1 \in 1 .. m /\ i + 1 \in 1 .. m - 1 /\ i + 1 - 1 = i
    BY <1>5
  <2>2. L[i + 1] = L[i] + Number(ps[i + 1].statements)
    <3>1. long[i + 1] = ps[i + 1]
      BY <1>1, <2>1
    <3>2. L[i + 1] = L[i + 1 - 1] + Number(long[i + 1].statements)
      BY <1>2, <2>1
    <3> QED
      BY <2>1, <3>1, <3>2
  <2>3. S[i + 1] = S[i] + Number(ps[i + 1].statements)
    <3>1. short[i + 1] = ps[i + 1]
      BY <1>1, <2>1
    <3>2. S[i + 1] = S[i + 1 - 1] + Number(short[i + 1].statements)
      BY <1>3, <2>1
    <3> QED
      BY <2>1, <3>1, <3>2
  <2> QED
    BY <1>5, <2>1, <2>2, <2>3
<1>6. m - 1 \in P
  <2>1. PICK k \in Nat : k = m - 1
    OBVIOUS
  <2>2. 0 \in P /\ \A i \in 0 .. k : i \in P /\ i < k => i + 1 \in P
    BY <1>4, <1>5, <2>1
  <2> HIDE DEF P
  <2>3. \A i \in 0 .. k : i \in P
    BY <2>1, <2>2, Induction
  <2> QED
    BY <2>1, <2>3
<1>7. Total(long) = L[m - 1] + Number(ps[m].statements)
  <2>1. m \in 1 .. m /\ long[m] = ps[m]
    BY <1>1
  <2> QED
    BY <1>2, <2>1
<1>8. L[m - 1] = S[m - 1] /\ S[m - 1] \in Nat
  BY <1>3, <1>6
<1> QED
  BY <1>3, <1>7, <1>8 DEF long, short

\* No row, no statement.
LEMMA EmptyTotal == Total(<<>>) = 0
<1>1. <<>> \in Seq(Rows(Seq(Digits))) /\ Len(<<>>) = 0
  OBVIOUS
<1> QED
  BY <1>1, TotalPrefix

-----------------------------------------------------------------------------
(* The inductive invariant *)

BeforeProfile == {"create", "close", "validate", "run"}
BeforeOutput == BeforeProfile \union {"output", "failed_output"}
Reading == {"context", "open", "mode", "rows"}
Totalled == {"checked_context", "text"}
Phases == BeforeOutput \union Reading \union Totalled \union {"profile_close", "remove", "returned"}

TypeOK ==
    /\ phase \in Phases
    /\ file \in {"none", "present", "removed"}
    /\ profile \in Profiles \union {Empty}
    /\ statements \in 0 .. MaxUint /\ covered \in 0 .. MaxUint
    /\ rows \in 0 .. Len(profile.rows) /\ uncovered \in 0 .. rows

\* A row CheckCoverage may count.
GoodRow(row) ==
    /\ row.valid
    /\ Canonical(row.statements) /\ Number(row.statements) <= MaxUint
    /\ Canonical(row.count) /\ Number(row.count) <= MaxUint

\* The counters say what the rows read so far say, and never wrapped around.
\* Nothing is counted before there is a profile.
SumsOK ==
    /\ phase \in BeforeProfile => rows = 0
    /\ \A i \in 1 .. rows : GoodRow(profile.rows[i])
    /\ statements = Total(SubSeq(profile.rows, 1, rows))
    /\ uncovered = 0 => covered = statements /\ \A i \in 1 .. rows : i \notin UncoveredRows
    /\ uncovered # 0 =>
        /\ covered < statements
        /\ uncovered \in UncoveredRows
        /\ \A i \in UncoveredRows : uncovered <= i

\* The profile was read to its end and found complete.
Passed ==
    /\ profile.mode
    /\ rows = Len(profile.rows)
    /\ statements > 0 /\ covered = statements

\* What each step relies on the steps before it for.
PhaseOK ==
    /\ phase \in BeforeOutput \union Reading \union Totalled => errors = {}
    /\ phase = "rows" => profile.mode
    /\ phase \notin BeforeOutput \union Reading /\ errors = {} => Passed
    /\ "incomplete" \in errors => uncovered # 0
    /\ phase \in BeforeOutput => output = <<>>
    /\ phase \in Reading \union Totalled \union {"profile_close"} => output = <<"output">>
    /\ phase \in {"remove", "returned"} /\ errors = {} => output = <<"output", "text">>

IInv == TypeOK /\ SumsOK /\ PhaseOK

-----------------------------------------------------------------------------
(* Reading one row *)

LEMMA RowsAreRows ==
    ASSUME TypeOK
    PROVE  profile.rows \in Seq(Rows(Seq(Digits)))
<1>1. CASE profile \in Profiles
  BY <1>1, CoverageAssumption DEF Digits
<1>2. CASE profile = Empty
  BY <1>2 DEF Empty
<1> QED
  BY <1>1, <1>2 DEF TypeOK

\* What fits an unsigned integer is its own remainder.
LEMMA FitsUnchanged ==
    ASSUME NEW n \in 0 .. MaxUint
    PROVE  n % (MaxUint + 1) = n
BY CoverageAssumption

LEMMA CountedRow ==
    ASSUME TypeOK, HasRow, Acceptable
    PROVE  /\ rows + 1 \in 1 .. Len(profile.rows)
           /\ Row = profile.rows[rows + 1]
           /\ GoodRow(Row)
           /\ Declared = Number(Row.statements) /\ Declared \in Nat
           /\ Count = Number(Row.count) /\ Count \in Nat
<1>1. rows + 1 \in 1 .. Len(profile.rows) /\ Row = profile.rows[rows + 1]
  <2>1. rows \in Nat /\ Len(profile.rows) \in Nat /\ rows < Len(profile.rows)
    BY RowsAreRows DEF TypeOK, HasRow
  <2> QED
    BY <2>1 DEF Row
<1>2. Row.statements \in Seq(Digits) /\ Row.count \in Seq(Digits)
  <2>1. Row \in Rows(Seq(Digits))
    BY <1>1, RowsAreRows
  <2> QED
    BY <2>1 DEF Rows
<1>3. ASSUME NEW digits \in Seq(Digits), UnsignedDecimal(digits) >= 0
      PROVE  /\ UnsignedDecimal(digits) = Number(digits) /\ Number(digits) \in Nat
             /\ Canonical(digits) /\ Number(digits) <= MaxUint
  BY <1>3, DecimalIsNumber DEF Overflow
<1>4. Declared >= 0 /\ Count >= 0 /\ Row.valid
  BY DEF Acceptable
<1> QED
  BY <1>1, <1>2, <1>3, <1>4 DEF Declared, Count, GoodRow

-----------------------------------------------------------------------------
(* The invariant is inductive *)

LEMMA InitInvariant == Init => IInv
<1> SUFFICES ASSUME Init PROVE IInv
  OBVIOUS
<1>1. TypeOK
  BY CoverageAssumption DEF Init, TypeOK, Empty, Phases, BeforeOutput, BeforeProfile
<1>2. SumsOK
  <2>1. Total(SubSeq(profile.rows, 1, rows)) = 0
    <3>1. SubSeq(profile.rows, 1, rows) = <<>>
      BY DEF Init, Empty
    <3> QED
      BY <3>1, EmptyTotal
  <2> QED
    BY <2>1 DEF Init, SumsOK
<1>3. PhaseOK
  BY DEF Init, PhaseOK, BeforeOutput, BeforeProfile, Reading, Totalled
<1> QED
  BY <1>1, <1>2, <1>3 DEF IInv

\* A row that is counted keeps the counters true.
LEMMA AddRowKeepsSums ==
    ASSUME IInv, AddRow
    PROVE  TypeOK' /\ SumsOK'
<1> DEFINE r == rows + 1
           declared == Number(Row.statements)
           count == Number(Row.count)
<1>1. /\ r \in 1 .. Len(profile.rows) /\ Row = profile.rows[r] /\ GoodRow(Row)
      /\ Declared = declared /\ declared \in Nat
      /\ Count = count /\ count \in Nat
  BY CountedRow DEF IInv, AddRow
<1>2. /\ rows \in Nat /\ statements \in 0 .. MaxUint /\ covered \in 0 .. MaxUint
      /\ uncovered \in 0 .. rows /\ covered <= statements /\ MaxUint \in Nat
      /\ Len(profile.rows) \in Nat
  BY RowsAreRows, CoverageAssumption DEF IInv, TypeOK, SumsOK
<1>3. statements + declared <= MaxUint
  BY <1>1, <1>2 DEF AddRow, Acceptable
<1>4. /\ statements' = statements + declared
      /\ covered' = IF count # 0 THEN covered + declared ELSE covered
  <2>1. statements + declared \in 0 .. MaxUint /\ covered + declared \in 0 .. MaxUint
    BY <1>1, <1>2, <1>3
  <2>2. /\ (statements + declared) % (MaxUint + 1) = statements + declared
        /\ (covered + declared) % (MaxUint + 1) = covered + declared
    BY <2>1, FitsUnchanged
  <2> QED
    BY <1>1, <2>2 DEF AddRow
<1>5. /\ rows' = r /\ profile' = profile
      /\ uncovered' = IF count = 0 /\ declared # 0 /\ uncovered = 0 THEN r ELSE uncovered
  BY <1>1 DEF AddRow, FirstUncovered
<1>6. TypeOK'
  <2>1. statements' \in 0 .. MaxUint /\ covered' \in 0 .. MaxUint
    BY <1>1, <1>2, <1>3, <1>4
  <2>2. rows' \in 0 .. Len(profile'.rows) /\ uncovered' \in 0 .. rows'
    BY <1>1, <1>2, <1>5
  <2> QED
    BY <2>1, <2>2 DEF AddRow, IInv, TypeOK
<1>7. SumsOK'
  <2>1. phase' \notin BeforeProfile
    BY DEF AddRow, HasRow, BeforeProfile
  <2>2. \A i \in 1 .. rows' : GoodRow(profile'.rows[i])
    <3>1. \A i \in 1 .. rows' : i \in 1 .. rows \/ i = r
      BY <1>2, <1>5
    <3> QED
      BY <1>1, <1>5, <3>1 DEF IInv, SumsOK
  <2>3. statements' = Total(SubSeq(profile'.rows, 1, rows'))
    <3>1. Total(SubSeq(profile.rows, 1, r)) = Total(SubSeq(profile.rows, 1, r - 1)) + declared
      BY <1>1, RowsAreRows, TotalExtends DEF IInv
    <3>2. r - 1 = rows /\ statements = Total(SubSeq(profile.rows, 1, rows))
      BY <1>2 DEF IInv, SumsOK
    <3> QED
      BY <1>4, <1>5, <3>1, <3>2
  <2>4. UncoveredRows' = UncoveredRows
    BY <1>5 DEF UncoveredRows
  <2>5. r \in UncoveredRows <=> declared # 0 /\ count = 0
    <3>1. DOMAIN profile.rows = 1 .. Len(profile.rows)
      BY RowsAreRows DEF IInv
    <3> QED
      BY <1>1, <3>1 DEF UncoveredRows
  <2>6. UncoveredRows \subseteq Nat
    <3>1. DOMAIN profile.rows = 1 .. Len(profile.rows)
      BY RowsAreRows DEF IInv
    <3> QED
      BY <1>2, <3>1 DEF UncoveredRows
  <2>7. ASSUME uncovered' = 0
        PROVE  covered' = statements' /\ \A i \in 1 .. rows' : i \notin UncoveredRows
    <3>1. uncovered = 0 /\ r # 0
      BY <1>1, <1>2, <1>5, <2>7
    <3>2. covered = statements /\ \A i \in 1 .. rows : i \notin UncoveredRows
      BY <3>1 DEF IInv, SumsOK
    <3>3. ~(count = 0 /\ declared # 0)
      BY <1>5, <2>7, <3>1
    <3>4. covered' = statements'
      BY <1>1, <1>2, <1>4, <3>2, <3>3
    <3>5. \A i \in 1 .. rows' : i \in 1 .. rows \/ i = r
      BY <1>2, <1>5
    <3> QED
      BY <2>5, <3>2, <3>3, <3>4, <3>5
  <2>8. ASSUME uncovered' # 0
        PROVE  /\ covered' < statements'
               /\ uncovered' \in UncoveredRows
               /\ \A i \in UncoveredRows : uncovered' <= i
    <3>1. CASE uncovered # 0
      <4>1. /\ uncovered' = uncovered /\ covered < statements /\ uncovered \in UncoveredRows
            /\ \A i \in UncoveredRows : uncovered <= i
        BY <1>5, <3>1 DEF IInv, SumsOK
      <4>2. covered' < statements'
        BY <1>1, <1>2, <1>4, <4>1
      <4> QED
        BY <4>1, <4>2
    <3>2. CASE uncovered = 0
      <4>1. count = 0 /\ declared # 0 /\ uncovered' = r
        BY <1>5, <2>8, <3>2
      <4>2. covered = statements /\ \A i \in 1 .. rows : i \notin UncoveredRows
        BY <3>2 DEF IInv, SumsOK
      <4>3. covered' < statements'
        BY <1>1, <1>2, <1>4, <4>1, <4>2
      <4>4. ASSUME NEW i \in UncoveredRows PROVE r <= i
        <5>1. i \in 1 .. Len(profile.rows)
          <6>1. DOMAIN profile.rows = 1 .. Len(profile.rows)
            BY RowsAreRows DEF IInv
          <6> QED
            BY <6>1 DEF UncoveredRows
        <5>2. ~(i \in 1 .. rows)
          BY <4>2
        <5> QED
          BY <1>2, <5>1, <5>2
      <4> QED
        BY <2>5, <4>1, <4>3, <4>4
    <3> QED
      BY <3>1, <3>2
  <2> QED
    BY <2>1, <2>2, <2>3, <2>4, <2>7, <2>8 DEF SumsOK
<1> QED
  BY <1>6, <1>7

\* A step that leaves profile and counters alone keeps what is said of them.
LEMMA SumsStay ==
    ASSUME IInv, UNCHANGED <<profile, sums>>, phase' \in Phases,
           file' \in {"none", "present", "removed"},
           phase' \in BeforeProfile => phase \in BeforeProfile
    PROVE  TypeOK' /\ SumsOK'
<1>1. TypeOK'
  BY DEF IInv, TypeOK, sums
<1>2. SumsOK'
  BY DEF IInv, SumsOK, sums, UncoveredRows
<1> QED
  BY <1>1, <1>2

\* Two appended elements are a pair.
LEMMA AppendToOne ==
    ASSUME NEW a, NEW b
    PROVE  Append(<<a>>, b) = <<a, b>>
<1>1. Append(<<a>>, b) \in Seq({a, b}) /\ <<a, b>> \in Seq({a, b})
  OBVIOUS
<1>2. Len(Append(<<a>>, b)) = 2 /\ Len(<<a, b>>) = 2
  OBVIOUS
<1>3. Append(<<a>>, b)[1] = a /\ Append(<<a>>, b)[2] = b
  OBVIOUS
<1>4. [i \in 1 .. 2 |-> Append(<<a>>, b)[i]] = [i \in 1 .. 2 |-> <<a, b>>[i]]
  <2>1. \A i \in 1 .. 2 : i = 1 \/ i = 2
    OBVIOUS
  <2> QED
    BY <1>3, <2>1
<1>5. \A s \in Seq({a, b}) : s = [i \in 1 .. Len(s) |-> s[i]]
  OBVIOUS
<1> QED
  BY <1>1, <1>2, <1>4, <1>5

LEMMA StepInvariant == IInv /\ [Next]_vars => IInv'
<1> SUFFICES ASSUME IInv, [Next]_vars PROVE IInv'
  OBVIOUS
<1> USE DEF Phases, BeforeOutput, BeforeProfile, Reading, Totalled, Goto, Fail, CheckFails
<1>1. CASE UNCHANGED vars
  <2>1. TypeOK' /\ SumsOK'
    BY <1>1, SumsStay DEF vars, IInv, TypeOK
  <2> QED
    BY <1>1, <2>1 DEF vars, sums, IInv, PhaseOK, Passed
<1>2. CASE EndContext
  <2>1. TypeOK' /\ SumsOK'
    BY <1>2, SumsStay DEF EndContext, IInv, TypeOK
  <2> QED
    BY <1>2, <2>1 DEF EndContext, sums, IInv, PhaseOK, Passed
<1>3. CASE Create
  <2>1. TypeOK' /\ SumsOK'
    BY <1>3, SumsStay DEF Create, IInv, TypeOK
  <2>2. PhaseOK'
    BY <1>3 DEF Create, sums, IInv, PhaseOK, Passed
  <2> QED
    BY <2>1, <2>2 DEF IInv
<1>4. CASE Prepare
  <2>1. TypeOK' /\ SumsOK'
    BY <1>4, SumsStay DEF Prepare, IInv, TypeOK
  <2>2. PhaseOK'
    BY <1>4 DEF Prepare, sums, IInv, PhaseOK, Passed
  <2> QED
    BY <2>1, <2>2 DEF IInv
<1>5. CASE RunTests
  <2>1. /\ phase = "run" /\ rows = 0 /\ rows' = 0 /\ profile' \in Profiles
        /\ phase' \in {"output", "failed_output"}
        /\ UNCHANGED <<sums, errors, output>>
    BY <1>5 DEF RunTests, IInv, SumsOK, sums
  <2>2. /\ uncovered = 0 /\ uncovered' = 0 /\ covered = statements /\ covered' = covered
        /\ statements' = statements
    BY <2>1 DEF IInv, TypeOK, SumsOK, sums
  <2>3. SubSeq(profile.rows, 1, 0) = <<>> /\ SubSeq(profile'.rows, 1, 0) = <<>>
    <3>1. profile.rows \in Seq(Rows(Seq(Digits))) /\ profile'.rows \in Seq(Rows(Seq(Digits)))
      BY <2>1, RowsAreRows, CoverageAssumption DEF IInv, Digits
    <3> QED
      BY <3>1
  <2>4. statements = 0
    BY <2>1, <2>3, EmptyTotal DEF IInv, SumsOK
  <2>5. TypeOK'
    <3>1. Len(profile'.rows) \in Nat
      BY <2>1, CoverageAssumption
    <3> QED
      BY <1>5, <2>1, <2>2, <3>1 DEF RunTests, IInv, TypeOK
  <2>6. SumsOK'
    <3>1. \A i \in 1 .. rows' : FALSE
      BY <2>1
    <3>2. statements' = Total(SubSeq(profile'.rows, 1, rows'))
      BY <2>1, <2>2, <2>3, <2>4, EmptyTotal
    <3> QED
      BY <2>1, <2>2, <3>1, <3>2 DEF SumsOK
  <2>7. PhaseOK'
    BY <2>1 DEF IInv, PhaseOK
  <2> QED
    BY <2>5, <2>6, <2>7 DEF IInv
<1>6. CASE WriteOutput
  <2>1. TypeOK' /\ SumsOK'
    BY <1>6, SumsStay DEF WriteOutput, IInv, TypeOK
  <2>2. PhaseOK'
    <3>1. output = <<>> /\ errors = {} /\ phase \in {"output", "failed_output"}
      BY <1>6 DEF WriteOutput, IInv, PhaseOK
    <3>2. Append(<<>>, "output") = <<"output">>
      OBVIOUS
    <3>3. \/ phase' = "context" /\ output' = <<"output">> /\ errors' = {}
          \/ phase' = "remove" /\ errors' \in {{"failed"}, {"output"}}
      BY <1>6, <3>1, <3>2 DEF WriteOutput
    <3> QED
      BY <3>3 DEF PhaseOK
  <2> QED
    BY <2>1, <2>2 DEF IInv
<1>7. CASE CheckContext
  <2>1. TypeOK' /\ SumsOK'
    BY <1>7, SumsStay DEF CheckContext, IInv, TypeOK
  <2>2. PhaseOK'
    BY <1>7 DEF CheckContext, sums, IInv, PhaseOK, Passed
  <2> QED
    BY <2>1, <2>2 DEF IInv
<1>8. CASE Open
  <2>1. TypeOK' /\ SumsOK'
    BY <1>8, SumsStay DEF Open, IInv, TypeOK
  <2>2. PhaseOK'
    BY <1>8 DEF Open, sums, IInv, PhaseOK, Passed
  <2> QED
    BY <2>1, <2>2 DEF IInv
<1>9. CASE ReadMode
  <2>1. TypeOK' /\ SumsOK'
    BY <1>9, SumsStay DEF ReadMode, IInv, TypeOK
  <2>2. PhaseOK'
    BY <1>9 DEF ReadMode, sums, IInv, PhaseOK, Passed
  <2> QED
    BY <2>1, <2>2 DEF IInv
<1>10. CASE AddRow
  <2>1. TypeOK' /\ SumsOK'
    BY <1>10, AddRowKeepsSums
  <2>2. PhaseOK'
    BY <1>10 DEF AddRow, HasRow, IInv, PhaseOK, Passed
  <2> QED
    BY <2>1, <2>2 DEF IInv
<1>11. CASE RejectRow
  <2>1. TypeOK' /\ SumsOK'
    BY <1>11, SumsStay DEF RejectRow, IInv, TypeOK
  <2>2. PhaseOK'
    BY <1>11 DEF RejectRow, sums, IInv, PhaseOK, Passed
  <2> QED
    BY <2>1, <2>2 DEF IInv
<1>12. CASE Summarise
  <2>1. TypeOK' /\ SumsOK'
    BY <1>12, SumsStay DEF Summarise, IInv, TypeOK
  <2>2. PhaseOK'
    <3>1. phase = "rows" /\ phase' = "profile_close" /\ UNCHANGED <<profile, sums, output>>
      BY <1>12 DEF Summarise
    <3>2. CASE rows = 0 \/ statements = 0
      BY <1>12, <3>1, <3>2 DEF Summarise, IInv, PhaseOK, sums
    <3>3. CASE ~(rows = 0 \/ statements = 0) /\ covered # statements
      <4>1. errors' = errors \union {"incomplete"} /\ errors = {}
        BY <1>12, <3>3 DEF Summarise, IInv, PhaseOK
      <4>2. uncovered' # 0
        BY <3>1, <3>3 DEF IInv, SumsOK, sums
      <4> QED
        BY <3>1, <4>1, <4>2 DEF IInv, PhaseOK
    <3>4. CASE ~(rows = 0 \/ statements = 0) /\ covered = statements
      <4>1. errors' = errors /\ errors = {} /\ profile.mode /\ rows = Len(profile.rows)
        BY <1>12, <3>4 DEF Summarise, IInv, PhaseOK
      <4>2. statements > 0
        BY <3>4, CoverageAssumption DEF IInv, TypeOK
      <4>3. Passed'
        BY <3>1, <3>4, <4>1, <4>2 DEF Passed, sums
      <4> QED
        BY <3>1, <4>1, <4>3 DEF IInv, PhaseOK
    <3> QED
      BY <3>2, <3>3, <3>4
  <2> QED
    BY <2>1, <2>2 DEF IInv
<1>13. CASE CloseProfile
  <2>1. TypeOK' /\ SumsOK'
    BY <1>13, SumsStay DEF CloseProfile, IInv, TypeOK
  <2>2. PhaseOK'
    BY <1>13 DEF CloseProfile, sums, IInv, PhaseOK, Passed
  <2> QED
    BY <2>1, <2>2 DEF IInv
<1>14. CASE WriteText
  <2>1. TypeOK' /\ SumsOK'
    BY <1>14, SumsStay DEF WriteText, IInv, TypeOK
  <2>2. PhaseOK'
    <3>1. output = <<"output">>
      BY <1>14 DEF WriteText, IInv, PhaseOK
    <3>2. Append(<<"output">>, "text") = <<"output", "text">>
      BY AppendToOne
    <3> QED
      BY <1>14, <3>1, <3>2 DEF WriteText, sums, IInv, PhaseOK, Passed
  <2> QED
    BY <2>1, <2>2 DEF IInv
<1>15. CASE RemoveFile
  <2>1. TypeOK' /\ SumsOK'
    BY <1>15, SumsStay DEF RemoveFile, IInv, TypeOK
  <2>2. PhaseOK'
    BY <1>15 DEF RemoveFile, sums, IInv, PhaseOK, Passed
  <2> QED
    BY <2>1, <2>2 DEF IInv
<1> QED
  BY <1>1, <1>2, <1>3, <1>4, <1>5, <1>6, <1>7, <1>8, <1>9, <1>10, <1>11, <1>12, <1>13,
     <1>14, <1>15 DEF Next, Returned

\* The counters of the coverage operation are those of the rows read, and the
\* phases rely on what the phases before them checked.
THEOREM Invariance == Spec => []IInv
BY InitInvariant, StepInvariant, PTL DEF Spec

-----------------------------------------------------------------------------
(* The verdict *)

\* Whatever the profile holds and however wide its integers are, success is only for
\* a profile that is covered as its unbounded numbers say, and an incomplete one has
\* an uncovered row of which the first is named.
THEOREM VerdictIsExact == Spec => []CoverageIsExact
<1>1. IInv => CoverageIsExact
  <2> SUFFICES ASSUME IInv PROVE CoverageIsExact
    OBVIOUS
  <2> DEFINE n == Len(profile.rows)
  <2>1. DOMAIN profile.rows = 1 .. n /\ n \in Nat /\ SubSeq(profile.rows, 1, n) = profile.rows
    BY RowsAreRows DEF IInv
  <2>2. ASSUME phase = "returned", errors = {}
        PROVE  /\ profile.mode
               /\ \A i \in DOMAIN profile.rows : GoodRow(profile.rows[i])
               /\ statements = Total(profile.rows) /\ statements > 0
               /\ covered = statements
               /\ rows = n
               /\ UncoveredRows = {}
               /\ output = <<"output", "text">>
    <3>1. profile.mode /\ rows = n /\ statements > 0 /\ covered = statements
      BY <2>2 DEF IInv, PhaseOK, Passed, BeforeOutput, BeforeProfile, Reading
    <3>2. output = <<"output", "text">>
      BY <2>2 DEF IInv, PhaseOK
    <3>3. \A i \in DOMAIN profile.rows : GoodRow(profile.rows[i])
      BY <2>1, <3>1 DEF IInv, SumsOK
    <3>4. statements = Total(profile.rows)
      BY <2>1, <3>1 DEF IInv, SumsOK
    <3>5. uncovered = 0
      BY <3>1, CoverageAssumption DEF IInv, TypeOK, SumsOK
    <3>6. UncoveredRows = {}
      BY <2>1, <3>1, <3>5 DEF IInv, SumsOK, UncoveredRows
    <3> QED
      BY <3>1, <3>2, <3>3, <3>4, <3>6
  <2>3. "incomplete" \in errors =>
          /\ uncovered \in UncoveredRows
          /\ \A i \in UncoveredRows : uncovered <= i
    BY DEF IInv, PhaseOK, SumsOK
  <2> QED
    BY <2>2, <2>3 DEF CoverageIsExact, GoodRow
<1> QED
  BY <1>1, Invariance, PTL

-----------------------------------------------------------------------------
(* The temporary file and the cancellation *)

\* The deferred removal of runCoverageWith is not passed by.
THEOREM FileIsRemoved == Spec => []NoProfileLeft
<1>1. Init => NoProfileLeft
  BY DEF Init, NoProfileLeft
<1>2. NoProfileLeft /\ [Next]_vars => NoProfileLeft'
  BY DEF NoProfileLeft, vars, sums, Next, EndContext, Create, Prepare, RunTests, WriteOutput,
         CheckContext, Open, ReadMode, AddRow, HasRow, RejectRow, Summarise, CloseProfile,
         WriteText, RemoveFile, Returned, Goto, Fail, CheckFails
<1> QED
  BY <1>1, <1>2, PTL DEF Spec

\* What a cancellation leaves to happen: every way to the text fails.
Cancelled == ended /\ (phase \in {"text", "remove", "returned"} => errors # {})

\* A cancellation before the second look at the context is an error at the end.
THEOREM CancellationIsAnError == Spec => CancelledIsNotCovered
<1> DEFINE Early == ended /\ phase \notin {"text", "remove", "returned"}
           Failed == phase = "returned" => errors # {}
<1>1. Early => Cancelled
  BY DEF Cancelled
<1>2. Cancelled /\ [Next]_vars => Cancelled'
  <2> SUFFICES ASSUME Cancelled, [Next]_vars PROVE Cancelled'
    OBVIOUS
  <2> USE DEF Cancelled, Goto, Fail, CheckFails
  <2>1. CASE UNCHANGED vars \/ EndContext \/ Create \/ Prepare \/ RunTests \/ WriteOutput
    BY <2>1 DEF vars, EndContext, Create, Prepare, RunTests, WriteOutput
  <2>2. CASE CheckContext \/ Open \/ ReadMode \/ AddRow \/ RejectRow \/ Summarise
    BY <2>2 DEF CheckContext, Open, ReadMode, AddRow, HasRow, RejectRow, Summarise
  <2>3. CASE CloseProfile \/ WriteText \/ RemoveFile \/ Returned
    BY <2>3 DEF CloseProfile, WriteText, RemoveFile, Returned, vars
  <2> QED
    BY <2>1, <2>2, <2>3 DEF Next
<1>3. Cancelled => Failed
  BY DEF Cancelled
<1> QED
  BY <1>1, <1>2, <1>3, PTL DEF Spec, CancelledIsNotCovered

-----------------------------------------------------------------------------
(* The compatibility profile: its inductive invariant.  The candidates are *)
(* those of the lowest floor, and the controls are those of the candidates *)
(* taken so far.                                                           *)

Stages == {"candidates", "controls", "done"}
Version == {v \in Seq(Nat) : Len(v) \in {2, 3}}

CompatibilityTypeOK ==
    /\ toolchain \in Toolchains
    /\ module \in [1 .. Modules -> [go : Versions, packages : BOOLEAN]]
    /\ \A m \in 1 .. Modules : NotAfter(module[m].go, toolchain)
    /\ stage \in Stages
    /\ minor \in Nat
    /\ candidates \in Seq(Version)
    /\ scope \in 0 .. Modules
    /\ controls \in Seq(Version \X (0 .. Modules))

\* The candidates of a floor, and how many there are.
MinorCount(v) == IF Minors(v) = {} THEN 1 ELSE toolchain[2] - v[2]
Nth(v, i) == IF Minors(v) = {} THEN v ELSE Candidate(v, v[2] + i - 1)

Floor(v) == v \in Versions /\ IsMinimum(v) /\ Comparable(v)

\* The scopes of candidate j that have a control when k candidates are finished and
\* the next has reached scope s.
Reached(v, j, k, s) ==
    {m \in {0} \union Selected(Nth(v, j)) : j <= k \/ (j = k + 1 /\ m < s)}

Built(v, k, s) ==
    /\ \A i \in DOMAIN controls :
        \E j \in 1 .. MinorCount(v) :
            controls[i][1] = Nth(v, j) /\ controls[i][2] \in Reached(v, j, k, s)
    /\ \A j \in 1 .. MinorCount(v) : \A m \in Reached(v, j, k, s) :
        \E i \in DOMAIN controls : controls[i] = <<Nth(v, j), m>>

CandidatesOK ==
    stage = "candidates" =>
        /\ controls = <<>> /\ scope = 0
        /\ candidates # <<>> =>
            \E v \in Versions :
                /\ Floor(v)
                /\ Minors(v) # {}
                /\ minor = v[2] + Len(candidates)
                /\ minor <= toolchain[2]
                /\ \A i \in 1 .. Len(candidates) : candidates[i] = Nth(v, i)

InProgress(v, k) ==
    /\ Len(candidates) = MinorCount(v) - k
    /\ \A i \in 1 .. MinorCount(v) - k : candidates[i] = Nth(v, k + i)
    /\ candidates = <<>> => scope = 0
    /\ Built(v, k, scope)

ControlsOK ==
    stage = "controls" =>
        \E v \in Versions : Floor(v) /\ \E k \in 0 .. MinorCount(v) : InProgress(v, k)

DoneOK ==
    stage = "done" =>
        \/ controls = <<>> /\ \A v \in Versions : ~Floor(v)
        \/ \E v \in Versions : Floor(v) /\ Built(v, MinorCount(v), 0)

CompatibilityIInv == CandidatesOK /\ ControlsOK /\ DoneOK /\ ControlsAreSupported

-----------------------------------------------------------------------------
(* The order of versions *)

LEMMA VersionType ==
    ASSUME NEW v \in Version
    PROVE  v[1] \in Nat /\ v[2] \in Nat /\ (Len(v) = 3 => v[3] \in Nat) /\ Part(v, 3) \in Nat
BY DEF Version, Part

\* The major version decides, then the minor; where both are alike a version without
\* a patch comes before the others, which their patch orders.
LEMMA EarlierByPart ==
    ASSUME NEW v \in Version, NEW w \in Version
    PROVE  Earlier(v, w) <=>
             \/ v[1] < w[1]
             \/ v[1] = w[1] /\ v[2] < w[2]
             \/ /\ v[1] = w[1] /\ v[2] = w[2] /\ Len(w) = 3
                /\ Len(v) = 3 => v[3] < w[3]
<1>1. /\ v \in Seq(Nat) /\ w \in Seq(Nat) /\ Len(v) \in {2, 3} /\ Len(w) \in {2, 3}
      /\ DOMAIN v = 1 .. Len(v) /\ DOMAIN w = 1 .. Len(w)
  BY DEF Version
<1>2. v[1] \in Nat /\ v[2] \in Nat /\ w[1] \in Nat /\ w[2] \in Nat
      /\ (Len(v) = 3 => v[3] \in Nat) /\ (Len(w) = 3 => w[3] \in Nat)
  BY VersionType
<1>3. 1 .. 1 - 1 = {} /\ 1 .. 2 - 1 = {1} /\ 1 .. 3 - 1 = {1, 2} /\ 1 .. 2 = {1, 2} /\ 1 .. 3 = {1, 2, 3}
  OBVIOUS
<1> DEFINE At(i) == i \in DOMAIN v \intersect DOMAIN w /\ v[i] < w[i]
                      /\ \A j \in 1 .. i - 1 : v[j] = w[j]
           Shorter == Len(v) < Len(w) /\ IsPrefix(v, w)
<1>4. Earlier(v, w) <=> At(1) \/ At(2) \/ At(3) \/ Shorter
  BY <1>1, <1>3 DEF Earlier
<1>5. At(1) <=> v[1] < w[1]
  BY <1>1, <1>3
<1>6. At(2) <=> v[2] < w[2] /\ v[1] = w[1]
  BY <1>1, <1>3
<1>7. At(3) <=> Len(v) = 3 /\ Len(w) = 3 /\ v[3] < w[3] /\ v[1] = w[1] /\ v[2] = w[2]
  BY <1>1, <1>3
<1>8. Shorter <=> Len(v) = 2 /\ Len(w) = 3 /\ v[1] = w[1] /\ v[2] = w[2]
  <2>1. CASE Len(v) = 2 /\ Len(w) = 3
    <3> DEFINE s == SubSeq(w, 1, 2)
    <3>1. s = [i \in 1 .. 2 |-> w[i]]
      BY <1>1, <1>3, <2>1
    <3>2. s \in Seq(Nat) /\ Len(s) = 2 /\ s[1] = w[1] /\ s[2] = w[2]
      BY <1>1, <1>2, <1>3, <3>1, <2>1
    <3>3. IsPrefix(v, w) <=> v = s
      <4>1. SubSeq(v, 1, 2) = v
        <5>1. SubSeq(v, 1, 2) = [i \in 1 .. 2 |-> v[i]]
          BY <1>1, <1>3, <2>1
        <5> QED
          BY <5>1, <1>1, <2>1
      <4> QED
        BY <2>1, <4>1 DEF IsPrefix
    <3> HIDE DEF s
    <3>4. v = s <=> v[1] = w[1] /\ v[2] = w[2]
      BY <1>1, <1>3, <2>1, <3>2
    <3> QED
      BY <2>1, <3>3, <3>4
  <2>2. CASE ~(Len(v) = 2 /\ Len(w) = 3)
    <3>1. (Len(v) = 2 \/ Len(v) = 3) /\ (Len(w) = 2 \/ Len(w) = 3)
      BY <1>1
    <3>2. ~(Len(v) < Len(w))
      <4> DEFINE a == Len(v)
                 b == Len(w)
      <4>1. (a = 2 \/ a = 3) /\ (b = 2 \/ b = 3) /\ ~(a = 2 /\ b = 3)
        BY <3>1, <2>2
      <4> HIDE DEF a, b
      <4>2. ~(a < b)
        BY <4>1
      <4> QED
        BY <4>2 DEF a, b
    <3> QED
      BY <2>2, <3>2
  <2> QED
    BY <2>1, <2>2
<1> HIDE DEF At, Shorter
<1> QED
  BY <1>1, <1>2, <1>4, <1>5, <1>6, <1>7, <1>8

LEMMA VersionsEqual ==
    ASSUME NEW v \in Version, NEW w \in Version
    PROVE  v = w <=> v[1] = w[1] /\ v[2] = w[2] /\ Len(v) = Len(w) /\ (Len(v) = 3 => v[3] = w[3])
<1>1. v \in Seq(Nat) /\ w \in Seq(Nat) /\ Len(v) \in {2, 3} /\ Len(w) \in {2, 3}
  BY DEF Version
<1>2. 1 .. 2 = {1, 2} /\ 1 .. 3 = {1, 2, 3}
  OBVIOUS
<1> QED
  BY <1>1, <1>2

LEMMA NotAfterByPart ==
    ASSUME NEW v \in Version, NEW w \in Version
    PROVE  NotAfter(v, w) <=>
             \/ v[1] < w[1]
             \/ v[1] = w[1] /\ v[2] < w[2]
             \/ /\ v[1] = w[1] /\ v[2] = w[2]
                /\ Len(v) = 3 => Len(w) = 3 /\ v[3] <= w[3]
<1>1. Len(v) \in {2, 3} /\ Len(w) \in {2, 3} /\ (Len(v) = 3 => v[3] \in Nat)
      /\ (Len(w) = 3 => w[3] \in Nat) /\ v[1] \in Nat /\ v[2] \in Nat /\ w[1] \in Nat /\ w[2] \in Nat
  BY VersionType DEF Version
<1> QED
  BY <1>1, EarlierByPart, VersionsEqual DEF NotAfter

LEMMA NotAfterTransitive ==
    ASSUME NEW u \in Version, NEW v \in Version, NEW w \in Version, NotAfter(u, v), NotAfter(v, w)
    PROVE  NotAfter(u, w)
BY NotAfterByPart, VersionType

LEMMA NotAfterAntisymmetric ==
    ASSUME NEW v \in Version, NEW w \in Version, NotAfter(v, w), NotAfter(w, v)
    PROVE  v = w
<1>1. Len(v) \in {2, 3} /\ Len(w) \in {2, 3}
  BY DEF Version
<1> QED
  BY <1>1, NotAfterByPart, VersionType, VersionsEqual

LEMMA CompatibilityConstants ==
    /\ Versions \subseteq Version /\ Toolchains \subseteq Version
    /\ Modules \in Nat \ {0}
BY CompatibilityAssumption DEF Version

-----------------------------------------------------------------------------
(* The candidates of the lowest floor *)

LEMMA FloorUnique ==
    ASSUME CompatibilityTypeOK, NEW v, NEW w, Floor(v), Floor(w)
    PROVE  v = w
<1>1. v \in Version /\ w \in Version
  BY CompatibilityConstants DEF Floor, CompatibilityTypeOK
<1>2. NotAfter(v, w) /\ NotAfter(w, v)
  BY DEF Floor, IsMinimum
<1> QED
  BY <1>1, <1>2, NotAfterAntisymmetric

\* Among finitely many modules one has the lowest floor.
LEMMA MinimumExists ==
    ASSUME CompatibilityTypeOK, Tested # {}
    PROVE  \E m \in Tested : IsMinimum(module[m].go)
<1> DEFINE Major == {module[m].go[1] : m \in Tested}
           OfMajor(a) == {m \in Tested : module[m].go[1] = a}
           Minor(a) == {module[m].go[2] : m \in OfMajor(a)}
           Patch(w) == IF Len(w) = 3 THEN w[3] + 1 ELSE 0
           Oldest(a, b) == {m \in OfMajor(a) : module[m].go[2] = b}
           LastPatch(a, b) == {Patch(module[m].go) : m \in Oldest(a, b)}
<1>1. \A m \in Tested : module[m].go \in Version /\ m \in 1 .. Modules
  BY CompatibilityConstants DEF CompatibilityTypeOK, Tested
<1>2. \A m \in Tested : /\ module[m].go[1] \in Nat /\ module[m].go[2] \in Nat
                        /\ Patch(module[m].go) \in Nat /\ Len(module[m].go) \in {2, 3}
                        /\ (Len(module[m].go) = 3 => module[m].go[3] \in Nat)
  <2> SUFFICES ASSUME NEW m \in Tested
               PROVE  /\ module[m].go[1] \in Nat /\ module[m].go[2] \in Nat
                      /\ Patch(module[m].go) \in Nat /\ Len(module[m].go) \in {2, 3}
                      /\ (Len(module[m].go) = 3 => module[m].go[3] \in Nat)
    OBVIOUS
  <2>1. PICK w \in Version : w = module[m].go
    BY <1>1
  <2>2. Len(w) \in {2, 3} /\ w[1] \in Nat /\ w[2] \in Nat /\ (Len(w) = 3 => w[3] \in Nat)
    BY VersionType DEF Version
  <2> QED
    BY <2>1, <2>2
<1>3. PICK a \in Major : \A x \in Major : a <= x
  <2>1. Major \in SUBSET Nat /\ Major # {}
    BY <1>2
  <2> HIDE DEF Major
  <2> QED
    BY <2>1, Least
<1>4. PICK b \in Minor(a) : \A x \in Minor(a) : b <= x
  <2>1. Minor(a) \in SUBSET Nat /\ Minor(a) # {}
    BY <1>2, <1>3
  <2> HIDE DEF Minor
  <2> QED
    BY <2>1, Least
<1>5. PICK c \in LastPatch(a, b) : \A x \in LastPatch(a, b) : c <= x
  <2>1. LastPatch(a, b) \in SUBSET Nat /\ LastPatch(a, b) # {}
    BY <1>2, <1>4
  <2> HIDE DEF LastPatch
  <2> QED
    BY <2>1, Least
<1>6. PICK k \in Oldest(a, b) : Patch(module[k].go) = c
  BY <1>5
<1>7. ASSUME NEW m \in Tested PROVE NotAfter(module[k].go, module[m].go)
  <2>1. a <= module[m].go[1] /\ a \in Nat
    BY <1>2, <1>3
  <2>2. module[m].go[1] = a => b <= module[m].go[2] /\ b \in Nat
    BY <1>2, <1>4
  <2>3. module[m].go[1] = a /\ module[m].go[2] = b => c <= Patch(module[m].go)
    BY <1>2, <1>5
  <2>4. k \in Tested /\ module[k].go[1] = a /\ module[k].go[2] = b
    BY <1>6
  <2>5. module[k].go \in Version /\ module[m].go \in Version
    BY <1>1, <2>4
  <2> QED
    BY <1>2, <1>6, <2>1, <2>2, <2>3, <2>4, <2>5, NotAfterByPart
<1> QED
  BY <1>6, <1>7 DEF IsMinimum

LEMMA NthType ==
    ASSUME CompatibilityTypeOK, NEW v, Floor(v)
    PROVE  /\ MinorCount(v) \in Nat \ {0} /\ Minors(v) = v[2] .. toolchain[2] - 1
           /\ toolchain \in Version /\ v \in Version
           /\ \A i \in 1 .. MinorCount(v) :
                /\ Nth(v, i) \in Version
                /\ Nth(v, i)[1] = toolchain[1] /\ Nth(v, i)[2] = v[2] + i - 1
                /\ i > 1 => Len(Nth(v, i)) = 3 /\ Nth(v, i)[3] = 0
                /\ NotAfter(v, Nth(v, i))
                /\ Earlier(Nth(v, i), toolchain)
<1>1. v \in Version /\ toolchain \in Version /\ v[1] = toolchain[1] /\ v[2] <= toolchain[2]
      /\ v # toolchain /\ Minors(v) = v[2] .. toolchain[2] - 1
  BY CompatibilityConstants DEF Floor, Comparable, CompatibilityTypeOK, Minors
<1>2. v[1] \in Nat /\ v[2] \in Nat /\ toolchain[1] \in Nat /\ toolchain[2] \in Nat /\ Part(v, 3) \in Nat
      /\ Len(v) \in {2, 3} /\ (Len(v) = 3 => v[3] \in Nat)
  BY <1>1, VersionType DEF Version
<1>3. NotAfter(v, toolchain)
  <2>1. PICK m \in Tested : v = module[m].go
    BY DEF Floor, IsMinimum
  <2> QED
    BY <2>1 DEF CompatibilityTypeOK, Tested
<1>4. MinorCount(v) \in Nat \ {0}
  BY <1>1, <1>2 DEF MinorCount
<1>5. ASSUME NEW i \in 1 .. MinorCount(v)
      PROVE  /\ Nth(v, i) \in Version
             /\ Nth(v, i)[1] = toolchain[1] /\ Nth(v, i)[2] = v[2] + i - 1
             /\ i > 1 => Len(Nth(v, i)) = 3 /\ Nth(v, i)[3] = 0
             /\ NotAfter(v, Nth(v, i))
             /\ Earlier(Nth(v, i), toolchain)
  <2>1. CASE Minors(v) = {}
    <3>1. Nth(v, i) = v /\ i = 1
      BY <2>1, <1>1 DEF Nth, MinorCount
    <3> QED
      BY <3>1, <1>1, <1>2, <1>3 DEF NotAfter
  <2>2. CASE Minors(v) # {}
    <3>1. v[2] + i - 1 <= toolchain[2] - 1 /\ v[2] < toolchain[2] /\ i \in Nat /\ i >= 1
      BY <1>1, <1>2, <2>2 DEF MinorCount
    <3> DEFINE n == <<v[1], v[2] + i - 1, 0>>
    <3>2. n \in Version /\ n[1] = v[1] /\ n[2] = v[2] + i - 1 /\ Len(n) = 3 /\ n[3] = 0
      BY <1>2, <3>1 DEF Version
    <3>3. Nth(v, i) = IF i = 1 /\ Part(v, 3) # 0 THEN v ELSE n
      BY <1>2, <2>2, <3>1 DEF Nth, Candidate
    <3>4. NotAfter(v, n) \/ (i = 1 /\ Part(v, 3) # 0)
      BY <1>1, <1>2, <3>1, <3>2, NotAfterByPart DEF Part
    <3>5. Earlier(n, toolchain)
      BY <1>1, <1>2, <3>1, <3>2, EarlierByPart
    <3>6. Earlier(v, toolchain)
      BY <1>1, <1>3 DEF NotAfter
    <3> HIDE DEF n
    <3> QED
      BY <1>1, <1>2, <3>1, <3>2, <3>3, <3>4, <3>5, <3>6 DEF NotAfter
  <2> QED
    BY <2>1, <2>2
<1> QED
  BY <1>1, <1>4, <1>5

LEMMA NthOrder ==
    ASSUME CompatibilityTypeOK, NEW v, Floor(v), NEW j \in 1 .. MinorCount(v), NEW i \in 1 .. j
    PROVE  NotAfter(Nth(v, i), Nth(v, j))
<1>1. i \in 1 .. MinorCount(v) /\ MinorCount(v) \in Nat /\ i \in Nat /\ j \in Nat /\ i <= j
  BY NthType
<1>2. /\ Nth(v, i) \in Version /\ Nth(v, j) \in Version /\ Nth(v, i)[1] = Nth(v, j)[1]
      /\ Nth(v, i)[2] = v[2] + i - 1 /\ Nth(v, j)[2] = v[2] + j - 1 /\ v \in Version
  BY <1>1, NthType
<1>3. CASE i = j
  BY <1>3 DEF NotAfter
<1>4. CASE i < j
  BY <1>1, <1>2, <1>4, NotAfterByPart, VersionType
<1> QED
  BY <1>1, <1>3, <1>4

\* The module with the lowest floor is always among the scopes, so none is added.
LEMMA ScopesNamed ==
    ASSUME CompatibilityTypeOK, NEW v, Floor(v), NEW i \in 1 .. MinorCount(v)
    PROVE  /\ Selected(Nth(v, i)) = Scopes(Nth(v, i))
           /\ Selected(Nth(v, i)) \subseteq 1 .. Modules
           /\ \A m \in Tested : v = module[m].go => m \in Selected(Nth(v, i))
<1>1. PICK m \in Tested : v = module[m].go
  BY DEF Floor, IsMinimum
<1>2. NotAfter(v, Nth(v, i))
  BY NthType
<1> QED
  BY <1>1, <1>2 DEF Selected, Scopes, Tested

-----------------------------------------------------------------------------
(* Type correctness *)

LEMMA CompatibilityTypeInit ==
    ASSUME CompatibilityInit
    PROVE  CompatibilityTypeOK
<1>1. Modules \in Nat /\ 0 \in 0 .. Modules
  BY CompatibilityConstants
<1>2. \A m \in 1 .. Modules :
        module[m] \in [go : {v \in Versions : NotAfter(v, toolchain)}, packages : BOOLEAN]
  BY DEF CompatibilityInit
<1>3. module \in [1 .. Modules -> [go : Versions, packages : BOOLEAN]]
  BY DEF CompatibilityInit
<1>4. \A m \in 1 .. Modules : NotAfter(module[m].go, toolchain)
  BY <1>2
<1> QED
  BY <1>1, <1>3, <1>4 DEF CompatibilityInit, CompatibilityTypeOK, Stages

LEMMA CompatibilityTypeStep == CompatibilityTypeOK /\ [CompatibilityNext]_compatibilityVars => CompatibilityTypeOK'
<1> SUFFICES ASSUME CompatibilityTypeOK, [CompatibilityNext]_compatibilityVars PROVE CompatibilityTypeOK'
  OBVIOUS
<1>1. ASSUME NoCandidates PROVE CompatibilityTypeOK'
  BY <1>1 DEF NoCandidates, CompatibilityTypeOK, Stages
<1>2. ASSUME AddCandidate PROVE CompatibilityTypeOK'
  <2>1. PICK v \in Versions : LET m == IF candidates = <<>> THEN v[2] ELSE minor
                              IN /\ m \in Minors(v)
                                 /\ candidates' = Append(candidates, Candidate(v, m))
                                 /\ minor' = m + 1
    BY <1>2 DEF AddCandidate
  <2> DEFINE m == IF candidates = <<>> THEN v[2] ELSE minor
  <2>2. m \in Nat /\ v \in Version /\ v[1] \in Nat
    BY CompatibilityConstants, VersionType DEF CompatibilityTypeOK
  <2>3. Candidate(v, m) \in Version
    BY <2>2 DEF Candidate, Version
  <2> QED
    BY <1>2, <2>1, <2>2, <2>3 DEF AddCandidate, CompatibilityTypeOK
<1>3. ASSUME EndCandidates PROVE CompatibilityTypeOK'
  <2>1. PICK v \in Versions : candidates' = IF candidates = <<>> THEN <<v>> ELSE candidates
    BY <1>3 DEF EndCandidates, Completed
  <2>2. v \in Version
    BY CompatibilityConstants DEF CompatibilityTypeOK
  <2> QED
    BY <1>3, <2>1, <2>2 DEF EndCandidates, CompatibilityTypeOK, Stages
<1>4. ASSUME AddControl PROVE CompatibilityTypeOK'
  <2>1. Modules \in Nat /\ scope \in 0 .. Modules /\ candidates # <<>>
    BY <1>4, CompatibilityConstants DEF AddControl, CompatibilityTypeOK
  <2>2. Head(candidates) \in Version /\ Tail(candidates) \in Seq(Version)
    BY <2>1 DEF CompatibilityTypeOK
  <2>3. scope' \in 0 .. Modules
    BY <1>4, <2>1 DEF AddControl
  <2>4. candidates' \in Seq(Version)
    BY <1>4, <2>2 DEF AddControl, CompatibilityTypeOK
  <2>5. controls' \in Seq(Version \X (0 .. Modules))
    BY <1>4, <2>1, <2>2 DEF AddControl, CompatibilityTypeOK
  <2> QED
    BY <1>4, <2>3, <2>4, <2>5 DEF AddControl, CompatibilityTypeOK
<1>5. ASSUME EndControls PROVE CompatibilityTypeOK'
  BY <1>5 DEF EndControls, CompatibilityTypeOK, Stages
<1>6. ASSUME UNCHANGED compatibilityVars PROVE CompatibilityTypeOK'
  BY <1>6 DEF compatibilityVars, CompatibilityTypeOK
<1> QED
  BY <1>1, <1>2, <1>3, <1>4, <1>5, <1>6 DEF CompatibilityNext, Done

-----------------------------------------------------------------------------
(* What a step leaves alone *)

LEMMA CompatibilityFixed ==
    ASSUME UNCHANGED <<module, toolchain>>
    PROVE  /\ \A v : (Floor(v) <=> Floor(v)') /\ Minors(v)' = Minors(v) /\ MinorCount(v)' = MinorCount(v)
           /\ \A v, i : Nth(v, i)' = Nth(v, i)
           /\ \A v, i : Selected(Nth(v, i))' = Selected(Nth(v, i))
           /\ \A v, j, k, s : Reached(v, j, k, s)' = Reached(v, j, k, s)
           /\ Tested' = Tested
<1>1. /\ \A v : (Floor(v) <=> Floor(v)') /\ Minors(v)' = Minors(v)
      /\ Tested' = Tested
  BY DEF Floor, IsMinimum, Comparable, Minors, Tested
<1>2. \A v : MinorCount(v)' = MinorCount(v)
  BY <1>1 DEF MinorCount
<1>3. \A v, i : Nth(v, i)' = Nth(v, i)
  BY <1>1 DEF Nth, Candidate, Part
<1>4. \A v, i : Selected(Nth(v, i))' = Selected(Nth(v, i))
  BY <1>1, <1>3 DEF Selected, Scopes
<1>5. \A v, j, k, s : Reached(v, j, k, s)' = Reached(v, j, k, s)
  BY <1>3, <1>4 DEF Reached
<1> QED
  BY <1>1, <1>2, <1>3, <1>4, <1>5

LEMMA BuiltFixed ==
    ASSUME UNCHANGED <<module, toolchain, controls>>, NEW v, NEW k, NEW s
    PROVE  Built(v, k, s)' <=> Built(v, k, s)
BY CompatibilityFixed DEF Built

LEMMA SupportedFixed ==
    ASSUME UNCHANGED <<module, toolchain, controls>>, ControlsAreSupported
    PROVE  ControlsAreSupported'
BY DEF ControlsAreSupported

LEMMA NothingBuilt ==
    ASSUME CompatibilityTypeOK, NEW v, Floor(v), controls = <<>>
    PROVE  Built(v, 0, 0)
<1>1. \A j \in 1 .. MinorCount(v) : Reached(v, j, 0, 0) = {}
  <2> SUFFICES ASSUME NEW j \in 1 .. MinorCount(v) PROVE Reached(v, j, 0, 0) = {}
    OBVIOUS
  <2>1. Selected(Nth(v, j)) \subseteq 1 .. Modules
    BY ScopesNamed
  <2>2. j \in Nat /\ j >= 1 /\ Modules \in Nat
    BY NthType, CompatibilityConstants DEF CompatibilityTypeOK
  <2> QED
    BY <2>1, <2>2 DEF Reached
<1> QED
  BY <1>1 DEF Built

-----------------------------------------------------------------------------
(* The candidates are built *)

LEMMA CandidatesStep ==
    CompatibilityTypeOK /\ CompatibilityIInv /\ AddCandidate => CandidatesOK'
<1> SUFFICES ASSUME CompatibilityTypeOK, CompatibilityIInv, AddCandidate PROVE CandidatesOK'
  OBVIOUS
<1> DEFINE m(v) == IF candidates = <<>> THEN v[2] ELSE minor
<1>1. PICK v \in Versions :
        /\ IsMinimum(v) /\ Comparable(v)
        /\ m(v) \in Minors(v)
        /\ candidates' = Append(candidates, Candidate(v, m(v)))
        /\ minor' = m(v) + 1
  BY DEF AddCandidate
<1>2. Floor(v) /\ UNCHANGED <<module, toolchain, controls, stage, scope>> /\ stage = "candidates"
  BY <1>1 DEF Floor, AddCandidate
<1>3. /\ Minors(v) = v[2] .. toolchain[2] - 1 /\ v[2] \in Nat /\ toolchain[2] \in Nat
      /\ candidates \in Seq(Version) /\ Len(candidates) \in Nat
  BY <1>2, NthType, VersionType DEF CompatibilityTypeOK
<1>4. m(v) = v[2] + Len(candidates) /\ \A i \in 1 .. Len(candidates) : candidates[i] = Nth(v, i)
  <2>1. CASE candidates = <<>>
    BY <1>3, <2>1
  <2>2. CASE candidates # <<>>
    <3>1. PICK w \in Versions :
            /\ Floor(w) /\ minor = w[2] + Len(candidates)
            /\ \A i \in 1 .. Len(candidates) : candidates[i] = Nth(w, i)
      BY <1>2, <2>2 DEF CompatibilityIInv, CandidatesOK
    <3>2. w = v
      BY <1>2, <3>1, FloorUnique
    <3> QED
      BY <2>2, <3>1, <3>2
  <2> QED
    BY <2>1, <2>2
<1>5. Candidate(v, m(v)) = Nth(v, Len(candidates) + 1) /\ Minors(v) # {}
  BY <1>1, <1>3, <1>4 DEF Nth
<1>6. /\ Len(candidates') = Len(candidates) + 1 /\ candidates' # <<>>
      /\ \A i \in 1 .. Len(candidates') : candidates'[i] = Nth(v, i)
  BY <1>1, <1>3, <1>4, <1>5
<1>7. minor' = v[2] + Len(candidates') /\ minor' <= toolchain[2]
  BY <1>1, <1>3, <1>4, <1>6
<1>8. controls = <<>> /\ scope = 0
  BY <1>2 DEF CompatibilityIInv, CandidatesOK
<1>9. Floor(v)' /\ Minors(v)' # {} /\ \A i : Nth(v, i)' = Nth(v, i)
  BY <1>2, <1>5, CompatibilityFixed
<1> QED
  BY <1>2, <1>6, <1>7, <1>8, <1>9 DEF CandidatesOK

LEMMA EndsCandidates ==
    CompatibilityTypeOK /\ CompatibilityIInv /\ EndCandidates => ControlsOK'
<1> SUFFICES ASSUME CompatibilityTypeOK, CompatibilityIInv, EndCandidates PROVE ControlsOK'
  OBVIOUS
<1>1. PICK v \in Versions :
        /\ IsMinimum(v) /\ Comparable(v)
        /\ IF candidates = <<>> THEN Minors(v) = {} ELSE minor \notin Minors(v)
        /\ candidates' = IF candidates = <<>> THEN <<v>> ELSE candidates
  BY DEF EndCandidates, Completed
<1>2. Floor(v) /\ UNCHANGED <<module, toolchain, controls, scope>> /\ stage = "candidates"
  BY <1>1 DEF Floor, EndCandidates
<1>3. /\ Minors(v) = v[2] .. toolchain[2] - 1 /\ v[2] \in Nat /\ toolchain[2] \in Nat
      /\ candidates \in Seq(Version) /\ Len(candidates) \in Nat /\ MinorCount(v) \in Nat
  BY <1>2, NthType, VersionType DEF CompatibilityTypeOK
<1>4. Len(candidates') = MinorCount(v) /\ \A i \in 1 .. MinorCount(v) : candidates'[i] = Nth(v, i)
  <2>1. CASE candidates = <<>>
    BY <1>1, <1>3, <2>1 DEF MinorCount, Nth
  <2>2. CASE candidates # <<>>
    <3>1. PICK w \in Versions :
            /\ Floor(w) /\ minor = w[2] + Len(candidates) /\ Minors(w) # {}
            /\ minor <= toolchain[2]
            /\ \A i \in 1 .. Len(candidates) : candidates[i] = Nth(w, i)
      BY <1>2, <2>2 DEF CompatibilityIInv, CandidatesOK
    <3>2. w = v
      BY <1>2, <3>1, FloorUnique
    <3>3. Len(candidates) = MinorCount(v)
      BY <1>1, <1>3, <2>2, <3>1, <3>2 DEF MinorCount
    <3> QED
      BY <1>1, <2>2, <3>1, <3>2, <3>3
  <2> QED
    BY <2>1, <2>2
<1>5. Built(v, 0, 0) /\ scope = 0
  BY <1>2, NothingBuilt DEF CompatibilityIInv, CandidatesOK
<1>6. InProgress(v, 0)'
  <2>1. Built(v, 0, 0)' /\ MinorCount(v)' = MinorCount(v) /\ \A i : Nth(v, i)' = Nth(v, i)
    BY <1>2, <1>5, BuiltFixed, CompatibilityFixed
  <2>2. scope' = 0
    BY <1>2, <1>5
  <2> QED
    BY <1>3, <1>4, <2>1, <2>2 DEF InProgress
<1>7. Floor(v)' /\ 0 \in (0 .. MinorCount(v))'
  BY <1>2, <1>3, CompatibilityFixed
<1> QED
  BY <1>6, <1>7 DEF ControlsOK

-----------------------------------------------------------------------------
(* The controls are built *)

\* What ControlsAreSupported says of one place.
SupportedAt(cs, i) ==
    LET v == cs[i][1]
        m == cs[i][2]
    IN /\ Earlier(v, toolchain)
       /\ m # 0 => /\ module[m].packages
                   /\ NotAfter(module[m].go, v)
                   /\ \E j \in 1 .. i - 1 : cs[j] = <<v, 0>>
       /\ \A j \in 1 .. i - 1 : NotAfter(cs[j][1], v)

\* One more place of the walk over the scopes: the control it adds, if any, is the
\* only one the walk has reached since.
LEMMA ReachedGrows ==
    ASSUME CompatibilityTypeOK, NEW v, Floor(v), NEW k \in 0 .. MinorCount(v), k < MinorCount(v),
           NEW kk, NEW ss, NEW s \in 0 .. Modules,
           kk = IF s = Modules THEN k + 1 ELSE k,
           ss = (s + 1) % (Modules + 1),
           NEW j \in 1 .. MinorCount(v)
    PROVE  Reached(v, j, kk, ss) = Reached(v, j, k, s) \union
             {m \in {s} : j = k + 1 /\ (s = 0 \/ s \in Selected(Nth(v, j)))}
<1>1. Modules \in Nat \ {0} /\ MinorCount(v) \in Nat /\ Selected(Nth(v, j)) \subseteq 1 .. Modules
      /\ k \in Nat /\ j \in Nat /\ j >= 1 /\ s \in Nat /\ s <= Modules
  BY CompatibilityConstants, NthType, ScopesNamed DEF CompatibilityTypeOK
<1>2. ss = IF s = Modules THEN 0 ELSE s + 1
  BY <1>1
<1> DEFINE places == {0} \union Selected(Nth(v, j))
<1>3. places \subseteq 0 .. Modules
  BY <1>1
<1>4. (s = 0 \/ s \in Selected(Nth(v, j))) <=> s \in places
  BY <1>1
<1> HIDE DEF places
<1>5. ASSUME NEW m \in places
      PROVE  (j <= kk \/ (j = kk + 1 /\ m < ss)) <=>
             (j <= k \/ (j = k + 1 /\ m < s) \/ (m = s /\ j = k + 1))
  <2>1. m \in Nat /\ m <= Modules
    BY <1>1, <1>3
  <2>2. CASE s = Modules
    BY <1>1, <1>2, <2>1, <2>2
  <2>3. CASE s # Modules
    BY <1>1, <1>2, <2>1, <2>3
  <2> QED
    BY <2>2, <2>3
<1>6. Reached(v, j, kk, ss) = {m \in places : j <= kk \/ (j = kk + 1 /\ m < ss)}
      /\ Reached(v, j, k, s) = {m \in places : j <= k \/ (j = k + 1 /\ m < s)}
  BY DEF Reached, places
<1> QED
  BY <1>4, <1>5, <1>6

LEMMA ControlsStep ==
    CompatibilityTypeOK /\ CompatibilityIInv /\ AddControl => ControlsOK' /\ ControlsAreSupported'
<1> SUFFICES ASSUME CompatibilityTypeOK, CompatibilityIInv, AddControl PROVE ControlsOK' /\ ControlsAreSupported'
  OBVIOUS
<1>1. UNCHANGED <<module, toolchain, stage>> /\ stage = "controls" /\ candidates # <<>>
  BY DEF AddControl
<1>2. PICK v \in Versions : Floor(v) /\ \E k \in 0 .. MinorCount(v) : InProgress(v, k)
  BY <1>1 DEF CompatibilityIInv, ControlsOK
<1>3. PICK k \in 0 .. MinorCount(v) : InProgress(v, k)
  BY <1>2
<1>4. /\ MinorCount(v) \in Nat /\ k \in Nat /\ candidates \in Seq(Version) /\ scope \in 0 .. Modules
      /\ Modules \in Nat \ {0} /\ controls \in Seq(Version \X (0 .. Modules))
  BY <1>2, NthType, CompatibilityConstants DEF CompatibilityTypeOK
<1>5. k < MinorCount(v) /\ Head(candidates) = Nth(v, k + 1) /\ k + 1 \in 1 .. MinorCount(v)
  BY <1>1, <1>3, <1>4 DEF InProgress
<1>6. PICK n \in Version : n = Nth(v, k + 1)
  BY <1>2, <1>5, NthType
<1>7. PICK kk \in 0 .. MinorCount(v) : kk = IF scope = Modules THEN k + 1 ELSE k
  BY <1>4, <1>5
<1>8. PICK ss \in 0 .. Modules : ss = scope' /\ ss = (scope + 1) % (Modules + 1)
  BY CompatibilityTypeStep DEF AddControl, CompatibilityTypeOK, CompatibilityNext
<1> DEFINE Adds == scope = 0 \/ scope \in Selected(n)
<1>14. /\ controls' = IF Adds THEN Append(controls, <<n, scope>>) ELSE controls
       /\ candidates' = IF scope = Modules THEN Tail(candidates) ELSE candidates
  BY <1>5, <1>6 DEF AddControl
<1>9. \A j \in 1 .. MinorCount(v) : Reached(v, j, kk, ss) =
        Reached(v, j, k, scope) \union {m \in {scope} : j = k + 1 /\ Adds}
  <2> SUFFICES ASSUME NEW j \in 1 .. MinorCount(v)
               PROVE  Reached(v, j, kk, ss) = Reached(v, j, k, scope)
                        \union {m \in {scope} : j = k + 1 /\ Adds}
    OBVIOUS
  <2>1. Reached(v, j, kk, ss) = Reached(v, j, k, scope)
          \union {m \in {scope} : j = k + 1 /\ (scope = 0 \/ scope \in Selected(Nth(v, j)))}
    <3>1. /\ CompatibilityTypeOK /\ Floor(v) /\ k < MinorCount(v) /\ scope \in 0 .. Modules
          /\ kk = (IF scope = Modules THEN k + 1 ELSE k)
          /\ ss = (scope + 1) % (Modules + 1)
      BY <1>2, <1>4, <1>5, <1>7, <1>8
    <3> QED
      BY <3>1, ReachedGrows
  <2> QED
    BY <1>6, <2>1
<1>15. Adds =>
        /\ controls' = Append(controls, <<n, scope>>) /\ DOMAIN controls = 1 .. Len(controls)
        /\ DOMAIN controls' = 1 .. Len(controls) + 1 /\ Len(controls) \in Nat
        /\ \A i \in DOMAIN controls : controls'[i] = controls[i]
        /\ controls'[Len(controls) + 1] = <<n, scope>>
  <2> SUFFICES ASSUME Adds
               PROVE  /\ controls' = Append(controls, <<n, scope>>)
                      /\ DOMAIN controls = 1 .. Len(controls)
                      /\ DOMAIN controls' = 1 .. Len(controls) + 1 /\ Len(controls) \in Nat
                      /\ \A i \in DOMAIN controls : controls'[i] = controls[i]
                      /\ controls'[Len(controls) + 1] = <<n, scope>>
    OBVIOUS
  <2>1. controls' = Append(controls, <<n, scope>>)
    BY <1>14
  <2>2. PICK e \in Version \X (0 .. Modules) : e = <<n, scope>>
    BY <1>4
  <2> QED
    BY <1>4, <2>1, <2>2
<1>10. Built(v, kk, ss)'
  <2>1. /\ \A i \in DOMAIN controls : \E j \in 1 .. MinorCount(v) :
            controls[i][1] = Nth(v, j) /\ controls[i][2] \in Reached(v, j, k, scope)
        /\ \A j \in 1 .. MinorCount(v) : \A m \in Reached(v, j, k, scope) :
            \E i \in DOMAIN controls : controls[i] = <<Nth(v, j), m>>
    BY <1>3 DEF InProgress, Built
  <2>2. /\ \A i \in DOMAIN controls' : \E j \in 1 .. MinorCount(v) :
            controls'[i][1] = Nth(v, j) /\ controls'[i][2] \in Reached(v, j, kk, ss)
        /\ \A j \in 1 .. MinorCount(v) : \A m \in Reached(v, j, kk, ss) :
            \E i \in DOMAIN controls' : controls'[i] = <<Nth(v, j), m>>
    <3>1. CASE Adds
      <4>1. /\ controls' = Append(controls, <<n, scope>>) /\ DOMAIN controls = 1 .. Len(controls)
            /\ DOMAIN controls' = 1 .. Len(controls) + 1 /\ Len(controls) \in Nat
            /\ \A i \in DOMAIN controls : controls'[i] = controls[i]
            /\ controls'[Len(controls) + 1] = <<n, scope>>
        BY <1>15, <3>1
      <4>2. scope \in Reached(v, k + 1, kk, ss)
        BY <1>5, <1>9, <3>1
      <4>3. ASSUME NEW i \in DOMAIN controls'
            PROVE  \E j \in 1 .. MinorCount(v) :
                     controls'[i][1] = Nth(v, j) /\ controls'[i][2] \in Reached(v, j, kk, ss)
        <5>1. CASE i \in DOMAIN controls
          BY <1>9, <2>1, <4>1, <5>1
        <5>2. CASE i = Len(controls) + 1
          BY <1>5, <1>6, <4>1, <4>2, <5>2
        <5> QED
          BY <4>1, <5>1, <5>2
      <4>4. ASSUME NEW j \in 1 .. MinorCount(v), NEW m \in Reached(v, j, kk, ss)
            PROVE  \E i \in DOMAIN controls' : controls'[i] = <<Nth(v, j), m>>
        <5>1. CASE m \in Reached(v, j, k, scope)
          <6>1. PICK i \in DOMAIN controls : controls[i] = <<Nth(v, j), m>>
            BY <2>1, <5>1
          <6>2. i \in DOMAIN controls' /\ controls'[i] = controls[i]
            BY <4>1
          <6> QED
            BY <6>1, <6>2
        <5>2. CASE m = scope /\ j = k + 1
          BY <1>6, <4>1, <5>2
        <5> QED
          BY <1>9, <5>1, <5>2
      <4> QED
        BY <4>3, <4>4
    <3>2. CASE ~Adds
      <4>1. controls' = controls /\ \A j \in 1 .. MinorCount(v) : Reached(v, j, kk, ss) = Reached(v, j, k, scope)
        BY <1>9, <1>14, <3>2
      <4> QED
        BY <2>1, <4>1
    <3> QED
      BY <3>1, <3>2
  <2>3. MinorCount(v)' = MinorCount(v) /\ \A j : Nth(v, j)' = Nth(v, j)
        /\ \A i : Reached(v, i, kk, ss)' = Reached(v, i, kk, ss)
    BY <1>1, CompatibilityFixed
  <2> QED
    BY <2>2, <2>3 DEF Built
<1>11. InProgress(v, kk)'
  <2>1. Len(candidates') = MinorCount(v) - kk /\ \A i \in 1 .. MinorCount(v) - kk : candidates'[i] = Nth(v, kk + i)
    <3>1. CASE scope = Modules
      <4>1. candidates' = Tail(candidates) /\ kk = k + 1 /\ Len(candidates) \in Nat \ {0}
            /\ Len(candidates) = MinorCount(v) - k
            /\ \A i \in 1 .. MinorCount(v) - k : candidates[i] = Nth(v, k + i)
        BY <1>1, <1>3, <1>4, <1>7, <1>14, <3>1 DEF InProgress
      <4>2. \A i \in 1 .. Len(candidates) - 1 : Tail(candidates)[i] = candidates[i + 1]
        BY <1>4, <4>1
      <4>3. \A i \in 1 .. MinorCount(v) - kk : i + 1 \in 1 .. MinorCount(v) - k /\ k + (i + 1) = kk + i
        BY <1>4, <4>1
      <4> QED
        BY <1>4, <4>1, <4>2, <4>3
    <3>2. CASE scope # Modules
      BY <1>3, <1>7, <1>14, <3>2 DEF InProgress
    <3> QED
      BY <3>1, <3>2
  <2>2. candidates' = <<>> => scope' = 0
    BY <1>1, <1>4, <1>8, <1>14
  <2>3. MinorCount(v)' = MinorCount(v) /\ \A i : Nth(v, i)' = Nth(v, i)
    BY <1>1, CompatibilityFixed
  <2>4. Built(v, kk, scope)' <=> Built(v, kk, ss)'
    BY <1>8
  <2> QED
    BY <1>10, <2>1, <2>2, <2>3, <2>4 DEF InProgress
<1>12. ControlsOK'
  <2>1. Floor(v)' /\ MinorCount(v)' = MinorCount(v)
    BY <1>1, <1>2, CompatibilityFixed
  <2> QED
    BY <1>11, <2>1 DEF ControlsOK
<1>13. ControlsAreSupported'
  <2>1. CASE ~Adds
    BY <1>1, <1>14, <2>1, SupportedFixed DEF CompatibilityIInv
  <2>2. CASE Adds
    <3>1. /\ controls' = Append(controls, <<n, scope>>) /\ DOMAIN controls = 1 .. Len(controls)
          /\ DOMAIN controls' = 1 .. Len(controls) + 1 /\ Len(controls) \in Nat
          /\ \A i \in DOMAIN controls : controls'[i] = controls[i]
          /\ controls'[Len(controls) + 1] = <<n, scope>>
      BY <1>15, <2>2
    <3>2. Earlier(n, toolchain)
      BY <1>2, <1>5, <1>6, NthType
    <3>3. scope # 0 => module[scope].packages /\ NotAfter(module[scope].go, n)
      BY <1>2, <1>5, <1>6, <2>2, ScopesNamed DEF Scopes, Tested
    <3>4. scope # 0 => \E j \in 1 .. Len(controls) : controls[j] = <<n, 0>>
      <4>1. scope # 0 => 0 \in Reached(v, k + 1, k, scope)
        BY <1>4 DEF Reached
      <4> QED
        BY <1>3, <1>5, <1>6, <3>1, <4>1 DEF InProgress, Built
    <3>5. \A j \in 1 .. Len(controls) : NotAfter(controls[j][1], n)
      <4> SUFFICES ASSUME NEW j \in 1 .. Len(controls) PROVE NotAfter(controls[j][1], n)
        OBVIOUS
      <4>1. PICK c \in 1 .. MinorCount(v) : controls[j][1] = Nth(v, c) /\ controls[j][2] \in Reached(v, c, k, scope)
        BY <1>3, <3>1 DEF InProgress, Built
      <4>2. c \in 1 .. k + 1
        BY <1>4, <4>1 DEF Reached
      <4> QED
        BY <1>2, <1>5, <1>6, <4>1, <4>2, NthOrder
    <3> HIDE DEF Adds
    <3>6. ASSUME NEW i \in DOMAIN controls' PROVE SupportedAt(controls', i)
      <4>1. CASE i \in 1 .. Len(controls)
        <5>1. controls'[i] = controls[i] /\ \A c \in 1 .. i - 1 : controls'[c] = controls[c]
          BY <3>1, <4>1
        <5>2. SupportedAt(controls, i)
          BY <3>1, <4>1 DEF CompatibilityIInv, ControlsAreSupported, SupportedAt
        <5> QED
          BY <5>1, <5>2 DEF SupportedAt
      <4>2. CASE i = Len(controls) + 1
        <5>1. /\ i - 1 = Len(controls) /\ controls'[i] = <<n, scope>>
              /\ \A c \in 1 .. Len(controls) : controls'[c] = controls[c]
          BY <3>1, <4>2
        <5>2. controls'[i][1] = n /\ controls'[i][2] = scope
          BY <5>1
        <5> QED
          BY <3>2, <3>3, <3>4, <3>5, <5>1, <5>2 DEF SupportedAt
      <4>3. i \in 1 .. Len(controls) \/ i = Len(controls) + 1
        BY <3>1
      <4> QED
        BY <4>1, <4>2, <4>3
    <3> QED
      BY <1>1, <3>6 DEF ControlsAreSupported, SupportedAt
  <2> QED
    BY <2>1, <2>2
<1> QED
  BY <1>12, <1>13

LEMMA NothingToTest ==
    ASSUME CompatibilityTypeOK, CompatibilityIInv, NoCandidates
    PROVE  DoneOK' /\ ControlsAreSupported'
<1>1. UNCHANGED <<module, toolchain, controls>> /\ controls = <<>>
  BY DEF NoCandidates, CompatibilityIInv, CandidatesOK
<1>2. \A v \in Versions : ~Floor(v)
  BY DEF NoCandidates, Floor, IsMinimum
<1>3. ControlsAreSupported'
  BY <1>1, SupportedFixed DEF CompatibilityIInv
<1> QED
  BY <1>1, <1>2, <1>3, CompatibilityFixed DEF DoneOK

LEMMA EndsControls ==
    ASSUME CompatibilityTypeOK, CompatibilityIInv, EndControls
    PROVE  DoneOK' /\ ControlsAreSupported'
<1>1. UNCHANGED <<module, toolchain, controls>> /\ stage = "controls" /\ candidates = <<>>
  BY DEF EndControls
<1>2. PICK v \in Versions : Floor(v) /\ \E k \in 0 .. MinorCount(v) : InProgress(v, k)
  BY <1>1 DEF CompatibilityIInv, ControlsOK
<1>3. PICK k \in 0 .. MinorCount(v) : InProgress(v, k)
  BY <1>2
<1>4. k = MinorCount(v) /\ scope = 0
  BY <1>1, <1>2, <1>3, NthType DEF InProgress
<1>5. Built(v, k, 0)'
  BY <1>1, <1>3, <1>4, BuiltFixed DEF InProgress
<1>6. Floor(v)' /\ MinorCount(v)' = k
  BY <1>1, <1>2, <1>4, CompatibilityFixed
<1>7. ControlsAreSupported'
  BY <1>1, SupportedFixed DEF CompatibilityIInv
<1> QED
  BY <1>2, <1>5, <1>6, <1>7 DEF DoneOK

-----------------------------------------------------------------------------
(* The theorems *)

\* The walk over the modules and the queue of candidates are typed.
THEOREM CompatibilityTypeCorrect == CompatibilitySpec => []CompatibilityTypeOK
<1>1. CompatibilityTypeOK /\ [CompatibilityNext]_compatibilityVars => CompatibilityTypeOK'
  BY CompatibilityTypeStep
<1> QED
  BY <1>1, CompatibilityTypeInit, PTL DEF CompatibilitySpec

\* goCompatibilityVersions and repositoryCompatibilityControls keep the invariant:
\* the candidates are those of the lowest floor in order, and the controls are the
\* checks and the tests of the candidates taken so far.
THEOREM CompatibilityInvariance == CompatibilitySpec => []CompatibilityIInv
<1>1. CompatibilityInit => CompatibilityIInv
  BY DEF CompatibilityInit, CompatibilityIInv, CandidatesOK, ControlsOK, DoneOK, ControlsAreSupported
<1>2. CompatibilityTypeOK /\ CompatibilityIInv /\ [CompatibilityNext]_compatibilityVars => CompatibilityIInv'
  <2> SUFFICES ASSUME CompatibilityTypeOK, CompatibilityIInv, [CompatibilityNext]_compatibilityVars PROVE CompatibilityIInv'
    OBVIOUS
  <2>1. ASSUME NoCandidates PROVE CompatibilityIInv'
    <3>1. stage' = "done"
      BY <2>1 DEF NoCandidates
    <3> QED
      BY <2>1, <3>1, NothingToTest DEF CompatibilityIInv, CandidatesOK, ControlsOK
  <2>2. ASSUME AddCandidate PROVE CompatibilityIInv'
    <3>1. stage' = "candidates" /\ UNCHANGED <<module, toolchain, controls>>
      BY <2>2 DEF AddCandidate
    <3>2. CandidatesOK' /\ ControlsAreSupported'
      BY <2>2, <3>1, CandidatesStep, SupportedFixed DEF CompatibilityIInv
    <3> QED
      BY <3>1, <3>2 DEF CompatibilityIInv, ControlsOK, DoneOK
  <2>3. ASSUME EndCandidates PROVE CompatibilityIInv'
    <3>1. stage' = "controls" /\ UNCHANGED <<module, toolchain, controls>>
      BY <2>3 DEF EndCandidates
    <3>2. ControlsOK' /\ ControlsAreSupported'
      BY <2>3, <3>1, EndsCandidates, SupportedFixed DEF CompatibilityIInv
    <3> QED
      BY <3>1, <3>2 DEF CompatibilityIInv, CandidatesOK, DoneOK
  <2>4. ASSUME AddControl PROVE CompatibilityIInv'
    <3>1. stage' = "controls"
      BY <2>4 DEF AddControl
    <3> QED
      BY <2>4, <3>1, ControlsStep DEF CompatibilityIInv, CandidatesOK, DoneOK
  <2>5. ASSUME EndControls PROVE CompatibilityIInv'
    <3>1. stage' = "done"
      BY <2>5 DEF EndControls
    <3> QED
      BY <2>5, <3>1, EndsControls DEF CompatibilityIInv, CandidatesOK, ControlsOK
  <2>6. ASSUME UNCHANGED compatibilityVars PROVE CompatibilityIInv'
    <3>1. UNCHANGED <<module, toolchain, controls, stage, candidates, scope, minor>>
      BY <2>6 DEF compatibilityVars
    <3>2. ControlsAreSupported'
      BY <3>1, SupportedFixed DEF CompatibilityIInv
    <3>3. \A v : Floor(v) => Floor(v)' /\ MinorCount(v)' = MinorCount(v) /\ Minors(v)' = Minors(v)
      BY <3>1, CompatibilityFixed
    <3>4. \A v, i : Nth(v, i)' = Nth(v, i)
      BY <3>1, CompatibilityFixed
    <3>5. CandidatesOK'
      BY <3>1, <3>3, <3>4 DEF CompatibilityIInv, CandidatesOK
    <3>6. \A v, k : InProgress(v, k) => InProgress(v, k)'
      <4> SUFFICES ASSUME NEW v, NEW k, InProgress(v, k) PROVE InProgress(v, k)'
        OBVIOUS
      <4>1. Built(v, k, scope)'
        BY <3>1, CompatibilityFixed DEF InProgress, Built
      <4> QED
        BY <3>1, <4>1, CompatibilityFixed DEF InProgress
    <3>7. ControlsOK'
      BY <3>1, <3>3, <3>6 DEF CompatibilityIInv, ControlsOK
    <3>8. \A v : Built(v, MinorCount(v), 0) => Built(v, MinorCount(v), 0)'
      BY <3>1, CompatibilityFixed DEF Built
    <3>9. DoneOK'
      BY <3>1, <3>8, CompatibilityFixed DEF CompatibilityIInv, DoneOK
    <3> QED
      BY <3>2, <3>5, <3>7, <3>9 DEF CompatibilityIInv
  <2> QED
    BY <2>1, <2>2, <2>3, <2>4, <2>5, <2>6 DEF CompatibilityNext, Done
<1> QED
  BY <1>1, <1>2, CompatibilityTypeCorrect, PTL DEF CompatibilitySpec

\* No control of repositoryCompatibilityControls tests a module below its floor,
\* without a check of the version before it, or at the toolchain itself.
THEOREM ControlsSupported == CompatibilitySpec => []ControlsAreSupported
<1>1. CompatibilityIInv => ControlsAreSupported
  BY DEF CompatibilityIInv
<1> QED
  BY <1>1, CompatibilityInvariance, PTL

\* What is checked and tested at the end, where some floor is older than the
\* toolchain: the candidates of the lowest, each with its scopes.
LEMMA FinishedProfile ==
    ASSUME CompatibilityTypeOK, CompatibilityIInv, stage = "done", NEW f, Floor(f)
    PROVE  /\ \A v \in Checked : \E j \in 1 .. MinorCount(f) : v = Nth(f, j)
           /\ \A j \in 1 .. MinorCount(f) :
                /\ Nth(f, j) \in Checked
                /\ \A m \in Scopes(Nth(f, j)) : Nth(f, j) \in Tests(m)
<1>1. Built(f, MinorCount(f), 0)
  <2>1. f \in Versions
    BY DEF Floor
  <2>2. PICK v \in Versions : Floor(v) /\ Built(v, MinorCount(v), 0)
    BY <2>1 DEF CompatibilityIInv, DoneOK
  <2> QED
    BY <2>2, FloorUnique
<1>2. MinorCount(f) \in Nat
  BY NthType
<1>3. \A j \in 1 .. MinorCount(f) : Reached(f, j, MinorCount(f), 0) = {0} \union Scopes(Nth(f, j))
  BY <1>2, ScopesNamed DEF Reached
<1>4. \A v \in Checked : \E j \in 1 .. MinorCount(f) : v = Nth(f, j)
  BY <1>1 DEF Checked, Tests, Built
<1>5. \A j \in 1 .. MinorCount(f) : \A m \in {0} \union Scopes(Nth(f, j)) :
        \E i \in DOMAIN controls : controls[i] = <<Nth(f, j), m>>
  BY <1>1, <1>3 DEF Built
<1>6. ASSUME NEW j \in 1 .. MinorCount(f), NEW m \in {0} \union Scopes(Nth(f, j))
      PROVE  Nth(f, j) \in Tests(m)
  <2>1. PICK i \in DOMAIN controls : controls[i] = <<Nth(f, j), m>>
    BY <1>5
  <2>2. controls[i][1] = Nth(f, j) /\ controls[i][2] = m
    BY <2>1
  <2> QED
    BY <2>2 DEF Tests
<1> QED
  BY <1>4, <1>6 DEF Checked

\* goCompatibilityVersions leaves out no minor between the lowest floor and the
\* toolchain, the toolchain's own included when the lowest floor is in it, and
\* repositoryCompatibilityControls no module that supports one of its versions.
THEOREM EveryMinorTested == CompatibilitySpec => []MinorsAreTested
<1>1. CompatibilityTypeOK /\ CompatibilityIInv => MinorsAreTested
  <2> SUFFICES ASSUME CompatibilityTypeOK, CompatibilityIInv, stage = "done", MajorsAgree
               PROVE  /\ \A m \in Tested :
                            LET floor == module[m].go IN
                            /\ \A n \in floor[2] .. toolchain[2] - 1 :
                                Cardinality({v \in Checked : v[2] = n}) = 1
                            /\ \A v \in Checked : floor[2] < v[2] => v = <<v[1], v[2], 0>>
                            /\ IsMinimum(floor) /\ floor # toolchain =>
                                \E v \in Tests(m) : v \in {floor, <<floor[1], floor[2], 0>>}
                            /\ \A v \in Checked : NotAfter(floor, v) => v \in Tests(m)
                      /\ \A v \in Checked : \E m \in Tested : v \in Tests(m)
    BY DEF MinorsAreTested
  <2>1. CASE \A v \in Versions : ~Floor(v)
    <3>1. controls = <<>>
      BY <2>1 DEF CompatibilityIInv, DoneOK
    <3>2. Checked = {}
      BY <3>1 DEF Checked, Tests
    <3>3. ASSUME NEW m \in Tested
          PROVE  module[m].go = toolchain
      <4>1. PICK l \in Tested : IsMinimum(module[l].go)
        BY MinimumExists
      <4>2. /\ module[l].go \in Versions /\ module[l].go \in Version /\ module[m].go \in Version
            /\ toolchain \in Version /\ module[l].go[1] = toolchain[1]
            /\ NotAfter(module[l].go, toolchain) /\ NotAfter(module[m].go, toolchain)
            /\ NotAfter(module[l].go, module[m].go)
        BY <4>1, CompatibilityConstants DEF CompatibilityTypeOK, Tested, MajorsAgree, IsMinimum
      <4>3. module[l].go[2] <= toolchain[2]
        BY <4>2, NotAfterByPart, VersionType
      <4>4. module[l].go = toolchain
        BY <2>1, <4>1, <4>2, <4>3 DEF Floor, Comparable
      <4> QED
        BY <4>2, <4>4, NotAfterAntisymmetric
    <3>4. toolchain[2] \in Nat
      BY CompatibilityConstants, VersionType DEF CompatibilityTypeOK
    <3> QED
      BY <3>2, <3>3, <3>4
  <2>2. ASSUME NEW f \in Versions, Floor(f)
        PROVE  /\ \A m \in Tested :
                    LET floor == module[m].go IN
                    /\ \A n \in floor[2] .. toolchain[2] - 1 :
                        Cardinality({v \in Checked : v[2] = n}) = 1
                    /\ \A v \in Checked : floor[2] < v[2] => v = <<v[1], v[2], 0>>
                    /\ IsMinimum(floor) /\ floor # toolchain =>
                        \E v \in Tests(m) : v \in {floor, <<floor[1], floor[2], 0>>}
                    /\ \A v \in Checked : NotAfter(floor, v) => v \in Tests(m)
               /\ \A v \in Checked : \E m \in Tested : v \in Tests(m)
    <3>1. /\ f \in Version /\ f[2] \in Nat /\ toolchain \in Version /\ toolchain[2] \in Nat
          /\ MinorCount(f) \in Nat \ {0} /\ Minors(f) = f[2] .. toolchain[2] - 1
          /\ \A j \in 1 .. MinorCount(f) :
                /\ Nth(f, j) \in Version /\ Nth(f, j)[2] = f[2] + j - 1
                /\ j > 1 => Len(Nth(f, j)) = 3 /\ Nth(f, j)[3] = 0
      BY <2>2, NthType, VersionType
    <3>2. /\ \A v \in Checked : \E j \in 1 .. MinorCount(f) : v = Nth(f, j)
          /\ \A j \in 1 .. MinorCount(f) :
                /\ Nth(f, j) \in Checked
                /\ \A m \in Scopes(Nth(f, j)) : Nth(f, j) \in Tests(m)
      BY <2>2, FinishedProfile
    <3>3. \A j \in 1 .. MinorCount(f) : \A m \in Tested : f = module[m].go => m \in Scopes(Nth(f, j))
      BY <2>2, ScopesNamed
    <3>4. \A v \in Checked : \E m \in Tested : v \in Tests(m)
      <4>1. PICK l \in Tested : f = module[l].go
        BY <2>2 DEF Floor, IsMinimum
      <4> QED
        BY <3>2, <3>3, <4>1
    <3> SUFFICES ASSUME NEW m \in Tested
                 PROVE  LET floor == module[m].go IN
                        /\ \A n \in floor[2] .. toolchain[2] - 1 :
                            Cardinality({v \in Checked : v[2] = n}) = 1
                        /\ \A v \in Checked : floor[2] < v[2] => v = <<v[1], v[2], 0>>
                        /\ IsMinimum(floor) /\ floor # toolchain =>
                            \E v \in Tests(m) : v \in {floor, <<floor[1], floor[2], 0>>}
                        /\ \A v \in Checked : NotAfter(floor, v) => v \in Tests(m)
      BY <3>4
    <3> DEFINE g == module[m].go
    <3>5. g \in Version /\ g[1] = toolchain[1] /\ f[1] = toolchain[1] /\ g[2] \in Nat /\ NotAfter(f, g)
      BY <2>2, CompatibilityConstants, VersionType
         DEF CompatibilityTypeOK, Tested, MajorsAgree, Floor, IsMinimum, Comparable
    <3> HIDE DEF g
    <3>6. f[2] <= g[2]
      <4>1. \/ f[1] < g[1]
            \/ f[1] = g[1] /\ f[2] < g[2]
            \/ f[2] = g[2]
        BY <3>1, <3>5, NotAfterByPart
      <4>2. f[1] \in Nat
        BY <3>1, VersionType
      <4> QED
        BY <3>1, <3>5, <4>1, <4>2
    <3>7. ASSUME NEW n \in g[2] .. toolchain[2] - 1
          PROVE  Cardinality({v \in Checked : v[2] = n}) = 1
      <4>1. n \in Nat /\ f[2] <= n /\ n <= toolchain[2] - 1
        BY <3>1, <3>5, <3>6
      <4>2. MinorCount(f) = toolchain[2] - f[2]
        BY <3>1, <4>1 DEF MinorCount
      <4> DEFINE c == n - f[2] + 1
                 x == Nth(f, c)
      <4>3. c \in 1 .. MinorCount(f) /\ x[2] = n /\ x \in Checked
        BY <3>1, <3>2, <4>1, <4>2
      <4>4. ASSUME NEW v \in Checked, v[2] = n PROVE v = x
        <5>1. PICK j \in 1 .. MinorCount(f) : v = Nth(f, j)
          BY <3>2
        <5>2. j = c
          BY <3>1, <4>1, <4>4, <5>1
        <5> QED
          BY <5>1, <5>2
      <4>5. {v \in Checked : v[2] = n} = {x}
        <5> HIDE DEF x
        <5> QED
          BY <4>3, <4>4
      <4> QED
        BY <4>5, FS_Singleton
    <3>8. ASSUME NEW v \in Checked, g[2] < v[2] PROVE v = <<v[1], v[2], 0>>
      <4>1. PICK j \in 1 .. MinorCount(f) : v = Nth(f, j)
        BY <3>2
      <4>2. j > 1
        BY <3>1, <3>5, <3>6, <3>8, <4>1
      <4>3. v \in Version /\ Len(v) = 3 /\ v[3] = 0 /\ v[1] \in Nat /\ v[2] \in Nat
        BY <3>1, <4>1, <4>2, VersionType
      <4> DEFINE w == <<v[1], v[2], 0>>
      <4>4. w \in Version /\ w[1] = v[1] /\ w[2] = v[2] /\ w[3] = 0 /\ Len(w) = 3
        BY <4>3 DEF Version
      <4> HIDE DEF w
      <4>5. v = w
        BY <4>3, <4>4, VersionsEqual
      <4> QED
        BY <4>5 DEF w
    <3>9. ASSUME IsMinimum(g), g # toolchain
          PROVE  \E v \in Tests(m) : v \in {g, <<g[1], g[2], 0>>}
      <4>1. NotAfter(g, f)
        BY <2>2, <3>9 DEF Floor, IsMinimum
      <4>2. f = g
        BY <3>1, <3>5, <4>1, NotAfterAntisymmetric
      <4>3. 1 \in 1 .. MinorCount(f)
        BY <3>1
      <4>4. Nth(f, 1) \in Tests(m)
        BY <3>2, <3>3, <4>2, <4>3 DEF g
      <4>5. Nth(f, 1) \in {f, <<f[1], f[2], 0>>}
        <5>1. f[2] + 1 - 1 = f[2]
          BY <3>1
        <5>2. Nth(f, 1) = f \/ Nth(f, 1) = Candidate(f, f[2])
          BY <5>1 DEF Nth
        <5>3. Candidate(f, f[2]) \in {f, <<f[1], f[2], 0>>}
          BY DEF Candidate
        <5> QED
          BY <5>2, <5>3
      <4> QED
        BY <4>2, <4>4, <4>5
    <3>10. ASSUME NEW v \in Checked, NotAfter(g, v) PROVE v \in Tests(m)
      <4>1. PICK j \in 1 .. MinorCount(f) : v = Nth(f, j)
        BY <3>2
      <4>2. m \in Scopes(v)
        BY <3>10 DEF Scopes, g
      <4> QED
        BY <3>2, <4>1, <4>2
    <3> QED
      BY <3>7, <3>8, <3>9, <3>10 DEF g
  <2> QED
    BY <2>1, <2>2
<1> QED
  BY <1>1, CompatibilityTypeCorrect, CompatibilityInvariance, PTL
=============================================================================
