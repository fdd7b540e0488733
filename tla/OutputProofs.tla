---------------------------- MODULE OutputProofs -----------------------------
(***************************************************************************)
(* Proofs about output encoding, for every pair of texts, every size of    *)
(* the buffer and every way in which the writer takes what it is given.    *)
(***************************************************************************)
EXTENDS OutputProperties, FoldLemmas, SequenceTheorems

-----------------------------------------------------------------------------
(* The rendering, place by place and text by text *)

Symbols == STRING \union {LineFeed, "text"}
Units == Symbols \X (0 .. 4)

Place(text, i) ==
    IF text[i] \in Unsafe \/ IsCommand(text, i) THEN Escaped(text[i]) ELSE Printed(text[i])
Ending(text) ==
    IF text # <<>> /\ Last(text) # LineFeed THEN Printed(LineFeed) ELSE <<>>

\* The first i places of a text; the first n texts.
Upto(text, i) == FlattenSeq([j \in 1 .. i |-> Place(text, j)])
Before(n) == FlattenSeq([t \in 1 .. n |-> Rendered(texts[t])])

LEMMA PlaceType ==
    ASSUME NEW text \in Seq(STRING), NEW i \in 1 .. Len(text)
    PROVE  Place(text, i) \in Seq(Units)
<1>1. text[i] \in Symbols
  BY DEF Symbols
<1>2. Escaped(text[i]) \in Seq(Units)
  BY <1>1 DEF Escaped, Units
<1>3. Printed(text[i]) \in Seq(Units)
  BY <1>1 DEF Printed, Units
<1> QED
  BY <1>2, <1>3 DEF Place

LEMMA UptoStep ==
    ASSUME NEW text \in Seq(STRING)
    PROVE  /\ Upto(text, 0) = <<>>
           /\ \A i \in 0 .. Len(text) : Upto(text, i) \in Seq(Units)
           /\ \A i \in 0 .. Len(text) - 1 : Upto(text, i + 1) = Upto(text, i) \o Place(text, i + 1)
           /\ \A i \in 0 .. Len(text) : Begins(Units, Upto(text, i), Upto(text, Len(text)))
<1> DEFINE n == Len(text)
           s == [i \in 1 .. n |-> Place(text, i)]
<1>1. n \in Nat /\ \A i \in 1 .. n : s[i] = Place(text, i) /\ s[i] \in Seq(Units)
  BY PlaceType
<1>2. ASSUME NEW k \in 0 .. n PROVE Upto(text, k) = FlattenSeq([i \in 1 .. k |-> s[i]])
  <2>1. [i \in 1 .. k |-> s[i]] = [i \in 1 .. k |-> Place(text, i)]
    <3>1. \A i \in 1 .. k : s[i] = Place(text, i)
      BY <1>1
    <3> HIDE DEF s
    <3> QED
      BY <3>1
  <2> QED
    BY <2>1 DEF Upto
<1> HIDE DEF s
<1>3. Upto(text, 0) = <<>>
  <2>1. [j \in 1 .. 0 |-> Place(text, j)] = <<>>
    OBVIOUS
  <2> QED
    BY <2>1, FlattenEmpty DEF Upto
<1>4. ASSUME NEW k \in 0 .. n
      PROVE  Upto(text, k) \in Seq(Units) /\ Begins(Units, Upto(text, k), Upto(text, n))
  <2>1. Begins(Units, FlattenSeq([i \in 1 .. k |-> s[i]]), FlattenSeq([i \in 1 .. n |-> s[i]]))
    BY <1>1, FlattenGrows
  <2>2. FlattenSeq([i \in 1 .. k |-> s[i]]) \in Seq(Units)
    <3>1. [i \in 1 .. k |-> s[i]] \in Seq(Seq(Units))
      BY <1>1
    <3> QED
      BY <3>1, FlattenType
  <2>3. n \in 0 .. n
    BY <1>1
  <2> QED
    BY <1>2, <2>1, <2>2, <2>3
<1>5. ASSUME NEW k \in 0 .. n - 1 PROVE Upto(text, k + 1) = Upto(text, k) \o Place(text, k + 1)
  <2>1. k \in Nat /\ k \in 0 .. n /\ k + 1 \in 0 .. n /\ k + 1 \in 1 .. n
    BY <1>1
  <2>2. \A i \in 1 .. k + 1 : s[i] \in Seq(Units)
    BY <1>1, <2>1
  <2>3. FlattenSeq([i \in 1 .. k + 1 |-> s[i]]) = FlattenSeq([i \in 1 .. k |-> s[i]]) \o s[k + 1]
    BY <2>1, <2>2, FlattenPositions
  <2>4. s[k + 1] = Place(text, k + 1)
    BY <1>1, <2>1
  <2>5. Upto(text, k) = FlattenSeq([i \in 1 .. k |-> s[i]])
        /\ Upto(text, k + 1) = FlattenSeq([i \in 1 .. k + 1 |-> s[i]])
    BY <1>2, <2>1
  <2> QED
    BY <2>3, <2>4, <2>5
<1> QED
  BY <1>3, <1>4, <1>5

LEMMA RenderedIs ==
    ASSUME NEW text \in Seq(STRING)
    PROVE  /\ Rendered(text) = Upto(text, Len(text)) \o Ending(text)
           /\ Ending(text) \in Seq(Units) /\ Rendered(text) \in Seq(Units)
           /\ Rendered(<<>>) = <<>>
<1>1. [i \in DOMAIN text |-> IF text[i] \in Unsafe \/ IsCommand(text, i) THEN Escaped(text[i])
                             ELSE Printed(text[i])]
        = [j \in 1 .. Len(text) |-> Place(text, j)]
  BY DEF Place
<1>2. Rendered(text) = Upto(text, Len(text)) \o Ending(text)
  BY <1>1 DEF Rendered, Upto, Ending
<1>3. Ending(text) \in Seq(Units)
  <2>1. LineFeed \in Symbols
    BY DEF Symbols
  <2> QED
    BY <2>1 DEF Ending, Printed, Units
<1>4. Upto(text, Len(text)) \in Seq(Units)
  <2>1. Len(text) \in 0 .. Len(text)
    OBVIOUS
  <2> QED
    BY <2>1, UptoStep
<1>5. Rendered(<<>>) = <<>>
  <2>1. \A s : DOMAIN s = {} => [i \in DOMAIN s |-> 0] = <<>>
    OBVIOUS
  <2>2. FlattenSeq([i \in DOMAIN <<>> |-> IF <<>>[i] \in Unsafe \/ IsCommand(<<>>, i)
                                         THEN Escaped(<<>>[i]) ELSE Printed(<<>>[i])]) = <<>>
    <3>1. [i \in DOMAIN <<>> |-> IF <<>>[i] \in Unsafe \/ IsCommand(<<>>, i)
                                 THEN Escaped(<<>>[i]) ELSE Printed(<<>>[i])] = <<>>
      OBVIOUS
    <3> QED
      BY <3>1, FlattenEmpty
  <2> QED
    BY <2>2 DEF Rendered
<1> QED
  BY <1>2, <1>3, <1>4, <1>5, ConcatLaws

LEMMA BeforeStep ==
    ASSUME texts \in Seq(Seq(STRING))
    PROVE  /\ Before(0) = <<>> /\ Before(Len(texts)) = Report
           /\ \A n \in 0 .. Len(texts) :
                Before(n) \in Seq(Units) /\ Begins(Units, Before(n), Report)
           /\ \A n \in 1 .. Len(texts) : Before(n) = Before(n - 1) \o Rendered(texts[n])
<1> DEFINE n == Len(texts)
           s == [i \in 1 .. n |-> Rendered(texts[i])]
<1>1. n \in Nat /\ \A i \in 1 .. n : s[i] = Rendered(texts[i]) /\ s[i] \in Seq(Units)
  BY RenderedIs
<1>2. ASSUME NEW k \in 0 .. n PROVE Before(k) = FlattenSeq([i \in 1 .. k |-> s[i]])
  <2>1. [i \in 1 .. k |-> s[i]] = [i \in 1 .. k |-> Rendered(texts[i])]
    <3>1. \A i \in 1 .. k : s[i] = Rendered(texts[i])
      BY <1>1
    <3> HIDE DEF s
    <3> QED
      BY <3>1
  <2> QED
    BY <2>1 DEF Before
<1> HIDE DEF s
<1>3. Before(0) = <<>>
  <2>1. [t \in 1 .. 0 |-> Rendered(texts[t])] = <<>>
    OBVIOUS
  <2> QED
    BY <2>1, FlattenEmpty DEF Before
<1>4. Before(n) = Report
  <2>1. DOMAIN texts = 1 .. n
    OBVIOUS
  <2> QED
    BY <2>1 DEF Before, Report
<1>5. ASSUME NEW k \in 0 .. n PROVE Before(k) \in Seq(Units) /\ Begins(Units, Before(k), Report)
  <2>1. Begins(Units, FlattenSeq([i \in 1 .. k |-> s[i]]), FlattenSeq([i \in 1 .. n |-> s[i]]))
    BY <1>1, FlattenGrows
  <2>2. FlattenSeq([i \in 1 .. k |-> s[i]]) \in Seq(Units)
    <3>1. [i \in 1 .. k |-> s[i]] \in Seq(Seq(Units))
      BY <1>1
    <3> QED
      BY <3>1, FlattenType
  <2>3. n \in 0 .. n
    BY <1>1
  <2>4. Before(k) = FlattenSeq([i \in 1 .. k |-> s[i]]) /\ Before(n) = FlattenSeq([i \in 1 .. n |-> s[i]])
    BY <1>2, <2>3
  <2> QED
    BY <1>4, <2>1, <2>2, <2>4
<1>6. ASSUME NEW m \in 1 .. n PROVE Before(m) = Before(m - 1) \o Rendered(texts[m])
  <2>1. PICK k \in Nat : k = m - 1 /\ k \in 0 .. n /\ k + 1 = m
    BY <1>1
  <2>2. \A i \in 1 .. k + 1 : s[i] \in Seq(Units)
    BY <1>1, <2>1
  <2>3. FlattenSeq([i \in 1 .. k + 1 |-> s[i]]) = FlattenSeq([i \in 1 .. k |-> s[i]]) \o s[k + 1]
    BY <2>2, FlattenPositions
  <2>4. s[m] = Rendered(texts[m]) /\ m \in 0 .. n
    BY <1>1
  <2> QED
    BY <1>2, <2>1, <2>3, <2>4
<1> QED
  BY <1>3, <1>4, <1>5, <1>6

-----------------------------------------------------------------------------
(* Commands: what the code carries along the line, and the definition *)

LEMMA LineStartStep ==
    ASSUME NEW text
    PROVE  /\ LineStart(text, 1)
           /\ \A i \in Nat \ {0} :
                LineStart(text, i + 1) <=> NextLineWhitespace(LineStart(text, i), text[i])
<1>1. LineStart(text, 1)
  BY DEF LineStart
<1>2. ASSUME NEW i \in Nat \ {0}
      PROVE  LineStart(text, i + 1) <=> NextLineWhitespace(LineStart(text, i), text[i])
  <2>1. ASSUME LineStart(text, i + 1) PROVE NextLineWhitespace(LineStart(text, i), text[i])
    <3>1. PICK j \in 0 .. i : /\ j = 0 \/ text[j] = LineFeed
                              /\ \A k \in j + 1 .. i : text[k] \in Blank
      BY <2>1 DEF LineStart
    <3>2. CASE j = i
      BY <3>1, <3>2 DEF NextLineWhitespace
    <3>3. CASE j # i
      <4>1. j \in 0 .. i - 1 /\ text[i] \in Blank /\ \A k \in j + 1 .. i - 1 : text[k] \in Blank
        BY <3>1, <3>3
      <4> QED
        BY <3>1, <4>1 DEF LineStart, NextLineWhitespace
    <3> QED
      BY <3>2, <3>3
  <2>2. ASSUME text[i] = LineFeed PROVE LineStart(text, i + 1)
    <3>1. i \in 0 .. i /\ \A k \in i + 1 .. i : text[k] \in Blank
      OBVIOUS
    <3> QED
      BY <2>2, <3>1 DEF LineStart
  <2>3. ASSUME LineStart(text, i), text[i] \in Blank PROVE LineStart(text, i + 1)
    <3>1. PICK j \in 0 .. i - 1 : /\ j = 0 \/ text[j] = LineFeed
                                  /\ \A k \in j + 1 .. i - 1 : text[k] \in Blank
      BY <2>3 DEF LineStart
    <3>2. j \in 0 .. i /\ \A k \in j + 1 .. i : text[k] \in Blank
      BY <2>3, <3>1
    <3> QED
      BY <3>1, <3>2 DEF LineStart
  <2> QED
    BY <2>1, <2>2, <2>3 DEF NextLineWhitespace
<1> QED
  BY <1>1, <1>2

LEMMA CommandAgrees ==
    ASSUME NEW text, NEW i \in Nat
    PROVE  WorkflowCommand(text, i, LineStart(text, i + 1)) <=> IsCommand(text, i + 1)
<1>1. i + 1 - 1 = i
  OBVIOUS
<1> QED
  BY <1>1 DEF WorkflowCommand, IsCommand

\* A command begins with a colon or a hash, which are no line feed and not blank.
LEMMA CommandSymbol ==
    ASSUME NEW text \in Seq(STRING), NEW i \in 1 .. Len(text), IsCommand(text, i)
    PROVE  text[i] \in {Colon, Hash}
<1>1. CASE Prefix(text, i - 1, <<Colon, Colon>>)
  <2>1. i + 1 <= Len(text) /\ SubSeq(text, i, i + 1) = <<Colon, Colon>>
    BY <1>1 DEF Prefix
  <2>2. SubSeq(text, i, i + 1)[1] = text[i] /\ <<Colon, Colon>>[1] = Colon
    BY <2>1
  <2>3. text[i] = Colon
    BY <2>1, <2>2, Zenon
  <2> QED
    BY <2>3
<1>2. CASE \E opener \in Openers : Prefix(text, i - 1, <<Hash, Hash, opener>>)
  <2>1. PICK opener \in Openers : Prefix(text, i - 1, <<Hash, Hash, opener>>)
    BY <1>2
  <2>2. i + 2 <= Len(text) /\ SubSeq(text, i, i + 2) = <<Hash, Hash, opener>>
    BY <2>1 DEF Prefix
  <2>3. SubSeq(text, i, i + 2)[1] = text[i] /\ <<Hash, Hash, opener>>[1] = Hash
    BY <2>2
  <2>4. text[i] = Hash
    BY <2>2, <2>3, Zenon
  <2> QED
    BY <2>4
<1> QED
  BY <1>1, <1>2 DEF IsCommand

\* The fold that Safe looks at holds, at each place, whether a line begins there.
LEMMA StateIsLineStart ==
    ASSUME NEW text \in Seq(STRING)
    PROVE  \A i \in 0 .. Len(text) : StateAfter(text)[i + 1] = LineStart(text, i + 1)
<1> DEFINE n == Len(text)
           V == Seq(BOOLEAN)
           ids == [i \in DOMAIN text |-> i]
           Next1(w, i) == Append(w, NextLineWhitespace(Last(w), text[i]))
           Body(f) == [s \in SUBSET (1 .. n) |->
                        IF s = {} THEN <<TRUE>> ELSE Next1(f[s \ {Max(s)}], ids[Max(s)])]
           fold == CHOOSE f : f = Body(f)
           op == [x \in V \X (1 .. n) |-> Next1(x[1], x[2])]
<1>1. n \in Nat /\ DOMAIN text = 1 .. n /\ DOMAIN ids = 1 .. n /\ Len(ids) = n
      /\ \A m \in 1 .. n : ids[m] = m
  OBVIOUS
<1>2. StateAfter(text) = fold[1 .. n]
  BY <1>1 DEF StateAfter, FoldLeft, MapThenFoldSet
<1>3. op \in [V \X (1 .. n) -> V] /\ <<TRUE>> \in V
  <2>1. \A w \in V, i \in 1 .. n : Next1(w, i) \in V
    BY DEF NextLineWhitespace
  <2> QED
    BY <2>1
<1>4. PICK it \in [SUBSET (1 .. n) -> V] : IsFold(it, n, <<TRUE>>, op)
  <2> HIDE DEF op, V
  <2> QED
    BY <1>1, <1>3, FoldExists
<1>5. it = Body(it)
  <2>1. ASSUME NEW s \in SUBSET (1 .. n), s # {}
        PROVE  it[s] = Next1(it[s \ {Max(s)}], ids[Max(s)])
    <3>1. Max(s) \in 1 .. n /\ s \ {Max(s)} \in SUBSET (1 .. n) /\ ids[Max(s)] = Max(s)
      BY <1>1, <2>1, MaxIsGreatest
    <3>2. it[s] = op[<<it[s \ {Max(s)}], Max(s)>>]
      BY <1>4, <2>1 DEF IsFold
    <3>3. it[s \ {Max(s)}] \in V
      BY <3>1
    <3> QED
      BY <3>1, <3>2, <3>3
  <2>2. it[{}] = <<TRUE>>
    BY <1>4 DEF IsFold
  <2> QED
    BY <2>1, <2>2
<1>6. fold = Body(fold)
  BY <1>5
<1>7. PICK F \in [0 .. n -> V] : Unfolds(F, fold, n, <<TRUE>>, op)
  <2>1. FoldsIn(V, fold, n, <<TRUE>>, op)
    <3>1. ASSUME NEW s \in SUBSET (1 .. n), s # {}, fold[s \ {Max(s)}] \in V
          PROVE  fold[s] = op[<<fold[s \ {Max(s)}], Max(s)>>]
      <4>1. Max(s) \in 1 .. n /\ ids[Max(s)] = Max(s)
        BY <1>1, <3>1, MaxIsGreatest
      <4> DEFINE w == fold[s \ {Max(s)}]
                 m == Max(s)
      <4>2. fold[s] = Next1(w, m)
        BY <1>6, <3>1, <4>1
      <4>3. op[<<w, m>>] = Next1(w, m)
        <5>1. w \in V /\ m \in 1 .. n
          BY <3>1, <4>1
        <5> HIDE DEF w, m, V, fold, Next1
        <5> QED
          BY <5>1
      <4> QED
        BY <4>2, <4>3
    <3>2. fold[{}] = <<TRUE>>
      BY <1>6
    <3> QED
      BY <3>1, <3>2 DEF FoldsIn
  <2> HIDE DEF fold, op, n, V
  <2> QED
    BY <1>1, <1>3, <2>1, FoldPrefix
<1>8. \A m \in 1 .. n : F[m - 1] \in V /\ F[m] = Next1(F[m - 1], m)
  <2>1. \A m \in 1 .. n : m - 1 \in 0 .. n
    BY <1>1
  <2>2. \A m \in 1 .. n : F[m - 1] \in V
    BY <2>1
  <2>3. \A m \in 1 .. n : F[m] = op[<<F[m - 1], m>>]
    BY <1>7 DEF Unfolds
  <2> QED
    BY <2>2, <2>3
<1> DEFINE P == {m \in 0 .. n : /\ F[m] \in V /\ Len(F[m]) = m + 1
                                /\ \A i \in 0 .. m : F[m][i + 1] = LineStart(text, i + 1)}
<1>9. 0 \in P
  <2>1. F[0] = <<TRUE>>
    BY <1>7 DEF Unfolds
  <2>2. LineStart(text, 0 + 1) = TRUE
    BY LineStartStep DEF LineStart
  <2>3. <<TRUE>> \in V /\ Len(<<TRUE>>) = 0 + 1 /\ <<TRUE>>[0 + 1] = TRUE
    OBVIOUS
  <2>4. \A i \in 0 .. 0 : i = 0
    OBVIOUS
  <2>5. 0 \in 0 .. n
    BY <1>1
  <2> HIDE DEF V, n
  <2> QED
    BY <2>1, <2>2, <2>3, <2>4, <2>5
<1>10. ASSUME NEW m \in 0 .. n, m \in P, m < n PROVE m + 1 \in P
  <2>1. PICK k \in 1 .. n : k = m + 1 /\ k - 1 = m
    BY <1>10
  <2>2. F[m] \in Seq(BOOLEAN) /\ Len(F[m]) = m + 1
        /\ \A i \in 0 .. m : F[m][i + 1] = LineStart(text, i + 1)
    BY <1>10
  <2>3. F[k] = Append(F[m], NextLineWhitespace(Last(F[m]), text[k]))
    BY <1>8, <2>1
  <2>4. Last(F[m]) = LineStart(text, k)
    BY <2>1, <2>2 DEF Last
  <2>5. NextLineWhitespace(LineStart(text, k), text[k]) = LineStart(text, k + 1)
    <3>1. k \in Nat \ {0}
      OBVIOUS
    <3>2. LineStart(text, k + 1) <=> NextLineWhitespace(LineStart(text, k), text[k])
      BY <3>1, LineStartStep
    <3>3. LineStart(text, k + 1) \in BOOLEAN /\ NextLineWhitespace(LineStart(text, k), text[k]) \in BOOLEAN
      BY DEF LineStart, NextLineWhitespace
    <3> QED
      BY <3>2, <3>3, Zenon
  <2>6. LineStart(text, k + 1) \in BOOLEAN
    BY DEF LineStart
  <2>7. F[k] = Append(F[m], LineStart(text, k + 1))
    BY <2>3, <2>4, <2>5
  <2> DEFINE w == LineStart(text, k + 1)
             f == F[m]
  <2>8. Append(f, w) \in Seq(BOOLEAN) /\ Len(Append(f, w)) = k + 1
        /\ Append(f, w)[k + 1] = w /\ \A i \in 0 .. m : Append(f, w)[i + 1] = f[i + 1]
    <3> HIDE DEF w, f
    <3>1. f \in Seq(BOOLEAN) /\ Len(f) = k /\ w \in BOOLEAN
      BY <2>1, <2>2, <2>6 DEF f, w
    <3> QED
      BY <2>1, <3>1
  <2>9. ASSUME NEW i \in 0 .. k PROVE F[k][i + 1] = LineStart(text, i + 1)
    <3>1. CASE i = k
      BY <2>7, <2>8, <3>1
    <3>2. CASE i # k
      <4>1. i \in 0 .. m
        BY <2>1, <3>2
      <4> QED
        BY <2>2, <2>7, <2>8, <4>1
    <3> QED
      BY <3>1, <3>2
  <2>10. k \in P
    <3>1. F[k] \in V /\ Len(F[k]) = k + 1
      BY <2>7, <2>8
    <3>2. k \in 0 .. n
      BY <1>1
    <3> QED
      BY <2>9, <3>1, <3>2
  <2> QED
    BY <2>1, <2>10
<1>11. n \in P
  <2>1. n \in 0 .. n
    BY <1>1
  <2> HIDE DEF P, n
  <2> QED
    BY <1>1, <1>9, <1>10, <2>1, Induction
<1>12. StateAfter(text) = F[n]
  BY <1>2, <1>7 DEF Unfolds
<1> QED
  BY <1>11, <1>12

\* Safe text is rendered as it is.
LEMMA SafeIsPrinted ==
    ASSUME NEW text \in Seq(STRING), Safe(text)
    PROVE  Upto(text, Len(text)) = [i \in DOMAIN text |-> <<text[i], 0>>]
<1> DEFINE n == Len(text)
           plain(m) == [i \in 1 .. m |-> <<text[i], 0>>]
           P == {m \in 0 .. n : Upto(text, m) = plain(m)}
<1>1. ASSUME NEW i \in 1 .. n PROVE Place(text, i) = Printed(text[i])
  <2>1. PICK k \in 0 .. n - 1 : k + 1 = i /\ k = i - 1
    OBVIOUS
  <2>2. ~WorkflowCommand(text, k, StateAfter(text)[k + 1]) /\ text[k + 1] \notin Unsafe
    BY DEF Safe
  <2>3. StateAfter(text)[k + 1] = LineStart(text, k + 1)
    <3>1. k \in 0 .. Len(text)
      OBVIOUS
    <3> QED
      BY <3>1, StateIsLineStart
  <2>4. ~IsCommand(text, k + 1)
    BY <2>2, <2>3, CommandAgrees
  <2> QED
    BY <2>1, <2>2, <2>4 DEF Place
<1>2. 0 \in P
  <2>1. plain(0) = <<>>
    OBVIOUS
  <2> QED
    BY <2>1, UptoStep
<1>3. ASSUME NEW m \in 0 .. n, m \in P, m < n PROVE m + 1 \in P
  <2>1. m \in 0 .. n - 1 /\ m + 1 \in 1 .. n
    BY <1>3
  <2>2. Upto(text, m + 1) = Upto(text, m) \o Place(text, m + 1)
    BY <2>1, UptoStep
  <2>3. Upto(text, m + 1) = plain(m) \o <<<<text[m + 1], 0>>>>
    BY <1>1, <1>3, <2>1, <2>2 DEF Printed
  <2>4. plain(m) \o <<<<text[m + 1], 0>>>> = plain(m + 1)
    OBVIOUS
  <2>5. m + 1 \in 0 .. n
    BY <2>1
  <2> HIDE DEF plain
  <2>6. Upto(text, m + 1) = plain(m + 1)
    BY <2>3, <2>4, Zenon
  <2> QED
    BY <2>5, <2>6
<1>4. n \in P
  <2>1. n \in Nat /\ n \in 0 .. n
    OBVIOUS
  <2> HIDE DEF P, n
  <2> QED
    BY <1>2, <1>3, <2>1, Induction
<1> QED
  BY <1>4

-----------------------------------------------------------------------------
(* The inductive invariant: what has been produced, wherever it is now, is the *)
(* rendering of what has been read.                                        *)

Produced == written \o (chunk \o (buffer \o waiting))

Sofar ==
    CASE phase = "start"             -> Before(turn - 1)
      [] phase = "line"              -> Before(turn - 1) \o Upto(Text, Len(Text))
      [] phase = "escape"            -> Before(turn - 1) \o Upto(Text, index)
      [] phase \in {"flush", "end"}  -> Before(turn)
      [] OTHER                       -> Report

TypeOK ==
    /\ texts \in Texts
    /\ turn \in 1 .. Len(texts)
    /\ phase \in {"start", "line", "escape", "flush", "end", "done", "failed"}
    /\ index \in Nat
    /\ lineWhitespace \in BOOLEAN /\ lastLineFeed \in BOOLEAN
    /\ waiting \in Seq(Units) /\ buffer \in Seq(Units)
    /\ chunk \in Seq(Units) /\ written \in Seq(Units)

\* While a text is escaped the two flags describe the place reached.
ReadOK ==
    phase = "escape" =>
        /\ Text # <<>> /\ index \in 0 .. Len(Text)
        /\ lineWhitespace = LineStart(Text, index + 1)
        /\ lastLineFeed = (index > 0 /\ Text[index] = LineFeed)

\* Outside the escaping loop nothing is held back.
HeldOK ==
    /\ phase \in {"start", "line", "end", "done"} => waiting = <<>> /\ buffer = <<>>
    /\ phase \in {"start", "done"} => chunk = <<>>
    /\ phase = "line" => Text # <<>> /\ Last(Text) # LineFeed

ProgressOK == phase # "failed" => Produced = Sofar
FailedOK == phase = "failed" => Begins(Units, written, Report)

IInv == TypeOK /\ ReadOK /\ HeldOK /\ ProgressOK /\ FailedOK

-----------------------------------------------------------------------------
(* Moving units from one place to the next *)

LEMMA Joining ==
    \A s, t \in Seq(Units) :
        /\ s \o t \in Seq(Units) /\ <<>> \o s = s /\ s \o <<>> = s
        /\ \A u \in Seq(Units) : (s \o t) \o u = s \o (t \o u)
  BY ConcatLaws

LEMMA Associative ==
    \A s, t, u \in Seq(Units) : (s \o t) \o u = s \o (t \o u)
  BY ConcatLaws

LEMMA AddedLast ==
    \A w, b, x \in Seq(Units) :
        w \o (<<>> \o (b \o x)) = (w \o (<<>> \o (b \o <<>>))) \o x
<1> SUFFICES ASSUME NEW w \in Seq(Units), NEW b \in Seq(Units), NEW x \in Seq(Units)
             PROVE  w \o (<<>> \o (b \o x)) = (w \o (<<>> \o (b \o <<>>))) \o x
  OBVIOUS
<1>1. <<>> \o (b \o x) = b \o x /\ <<>> \o (b \o <<>>) = b
  BY Joining
<1>2. w \o (b \o x) = (w \o b) \o x
  BY Associative, Zenon
<1> QED
  BY <1>1, <1>2, Zenon

LEMMA MovedToBuffer ==
    \A b, x \in Seq(Units) : x # <<>> =>
        /\ Append(b, Head(x)) \o Tail(x) = b \o x
        /\ Append(b, Head(x)) \in Seq(Units) /\ Tail(x) \in Seq(Units)
  OBVIOUS

LEMMA Flushed ==
    \A w, b, x \in Seq(Units) : w \o (b \o (<<>> \o x)) = w \o (<<>> \o (b \o x))
<1> SUFFICES ASSUME NEW w \in Seq(Units), NEW b \in Seq(Units), NEW x \in Seq(Units)
             PROVE  w \o (b \o (<<>> \o x)) = w \o (<<>> \o (b \o x))
  OBVIOUS
<1>1. <<>> \o x = x /\ <<>> \o (b \o x) = b \o x
  BY Joining
<1> QED
  BY <1>1, Zenon

LEMMA Taken ==
    ASSUME NEW w \in Seq(Units), NEW c \in Seq(Units), NEW x \in Seq(Units), NEW n \in 0 .. Len(c)
    PROVE  /\ w \o SubSeq(c, 1, n) \in Seq(Units) /\ SubSeq(c, n + 1, Len(c)) \in Seq(Units)
           /\ (w \o SubSeq(c, 1, n)) \o (SubSeq(c, n + 1, Len(c)) \o x) = w \o (c \o x)
<1> DEFINE a == SubSeq(c, 1, n)
           d == SubSeq(c, n + 1, Len(c))
<1>1. a \in Seq(Units)
  OBVIOUS
<1>2. d \in Seq(Units)
  OBVIOUS
<1>3. a \o d = c
  <2>1. 1 \in 1 .. Len(c) + 1 /\ n \in 1 - 1 .. Len(c) /\ Len(c) \in n .. Len(c)
    OBVIOUS
  <2>2. a \o d = SubSeq(c, 1, Len(c))
    BY <2>1, ConcatAdjacentSubSeq
  <2> QED
    BY <2>2, SubSeqFull
<1> HIDE DEF a, d
<1>4. w \o a \in Seq(Units) /\ d \o x \in Seq(Units)
  BY <1>1, <1>2, Joining
<1>5. (w \o a) \o (d \o x) = w \o (a \o (d \o x))
  <2>1. PICK y \in Seq(Units) : y = d \o x
    BY <1>4
  <2>2. PICK z \in Seq(Units) : z = a
    BY <1>1
  <2>3. (w \o z) \o y = w \o (z \o y)
    BY Associative, ZenonT(30)
  <2> QED
    BY <2>1, <2>2, <2>3, Zenon
<1>6. a \o (d \o x) = (a \o d) \o x
  BY <1>1, <1>2, Associative, ZenonT(30)
<1>7. (w \o a) \o (d \o x) = w \o (c \o x)
  BY <1>3, <1>5, <1>6, Zenon
<1> QED
  BY <1>2, <1>4, <1>7 DEF a, d

-----------------------------------------------------------------------------
(* Steps *)

LEMMA Static ==
    ASSUME UNCHANGED <<texts, turn>>
    PROVE  /\ Text' = Text /\ Report' = Report
           /\ \A n : Before(n)' = Before(n)
  BY DEF Text, Report, Before, Rendered

LEMMA TextType ==
    ASSUME TypeOK
    PROVE  /\ texts \in Seq(Seq(STRING)) /\ Text \in Seq(STRING)
           /\ turn \in 0 .. Len(texts) /\ turn - 1 \in 0 .. Len(texts)
           /\ Upto(Text, Len(Text)) \in Seq(Units) /\ Ending(Text) \in Seq(Units)
           /\ Before(turn - 1) \in Seq(Units) /\ Before(turn) \in Seq(Units)
           /\ Before(turn) = Before(turn - 1) \o (Upto(Text, Len(Text)) \o Ending(Text))
           /\ Text = <<>> => Before(turn) = Before(turn - 1)
<1>1. texts \in Seq(Seq(STRING)) /\ turn \in 1 .. Len(texts)
  BY OutputAssumption DEF TypeOK
<1>2. Text \in Seq(STRING) /\ turn \in 0 .. Len(texts) /\ turn - 1 \in 0 .. Len(texts)
  BY <1>1 DEF Text
<1>3. Before(turn) = Before(turn - 1) \o Rendered(Text)
      /\ Before(turn - 1) \in Seq(Units) /\ Before(turn) \in Seq(Units)
  BY <1>1, <1>2, BeforeStep DEF Text
<1>4. Rendered(Text) = Upto(Text, Len(Text)) \o Ending(Text) /\ Ending(Text) \in Seq(Units)
  BY <1>2, RenderedIs
<1>5. Upto(Text, Len(Text)) \in Seq(Units)
  <2>1. Len(Text) \in 0 .. Len(Text)
    BY <1>2
  <2> QED
    BY <1>2, <2>1, UptoStep
<1>6. Text = <<>> => Before(turn) = Before(turn - 1)
  <2>1. Rendered(<<>>) = <<>>
    BY <1>2, RenderedIs
  <2> QED
    BY <1>3, <2>1, ConcatLaws
<1> QED
  BY <1>1, <1>2, <1>3, <1>4, <1>5, <1>6

LEMMA InitInvariant == Init => IInv
<1> SUFFICES ASSUME Init PROVE IInv
  OBVIOUS
<1>1. TypeOK
  <2>1. texts \in Seq(Seq(STRING)) /\ texts # <<>>
    BY OutputAssumption DEF Init
  <2>2. 1 \in 1 .. Len(texts)
    BY <2>1
  <2>3. <<>> \in Seq(Units) /\ 0 \in Nat
    OBVIOUS
  <2> QED
    BY <2>2, <2>3, Zenon DEF Init, TypeOK
<1>2. ReadOK /\ HeldOK /\ FailedOK
  BY DEF Init, ReadOK, HeldOK, FailedOK
<1>3. ProgressOK
  <2>1. turn - 1 = 0 /\ Before(0) = <<>>
    BY <1>1, TextType, BeforeStep DEF Init
  <2>2. Produced = <<>>
    BY DEF Init, Produced
  <2> QED
    BY <2>1, <2>2 DEF Init, ProgressOK, Sofar
<1> QED
  BY <1>1, <1>2, <1>3 DEF IInv

LEMMA BeginEmptyKeeps == IInv /\ BeginEmpty => IInv'
<1> SUFFICES ASSUME IInv, BeginEmpty PROVE IInv'
  OBVIOUS
<1> USE DEF BeginEmpty
<1>1. TypeOK' /\ ReadOK' /\ HeldOK' /\ FailedOK'
  BY DEF IInv, TypeOK, ReadOK, HeldOK, FailedOK
<1>2. ProgressOK'
  <2>1. Produced' = Produced /\ Produced = Before(turn - 1)
    BY DEF IInv, ProgressOK, Produced, Sofar
  <2>2. Sofar' = Before(turn)
    BY Static DEF Sofar
  <2> QED
    BY <2>1, <2>2, TextType DEF IInv, ProgressOK
<1> QED
  BY <1>1, <1>2 DEF IInv

LEMMA BeginSafeKeeps == IInv /\ BeginSafe => IInv'
<1> SUFFICES ASSUME IInv, BeginSafe PROVE IInv'
  OBVIOUS
<1>1. TypeOK /\ Text \in Seq(STRING)
  BY TextType DEF IInv
<1>2. chunk' = Upto(Text, Len(Text))
  BY <1>1, SafeIsPrinted DEF BeginSafe
<1>3. TypeOK'
  BY <1>1, <1>2, TextType DEF BeginSafe, TypeOK
<1>4. ReadOK' /\ HeldOK' /\ FailedOK'
  BY Static DEF BeginSafe, IInv, ReadOK, HeldOK, FailedOK
<1>5. ProgressOK'
  <2>1. written = Before(turn - 1) /\ written' = written /\ buffer' = <<>> /\ waiting' = <<>>
    <3>1. Produced = Before(turn - 1) /\ Produced = written
      <4>1. Produced = written \o (<<>> \o (<<>> \o <<>>))
        BY DEF BeginSafe, IInv, HeldOK, Produced
      <4> QED
        BY <4>1, <1>1 DEF BeginSafe, IInv, ProgressOK, Sofar, TypeOK
    <3> QED
      BY <3>1 DEF BeginSafe, IInv, HeldOK
  <2>2. Produced' = Before(turn - 1) \o Upto(Text, Len(Text))
    <3>1. Produced' = Before(turn - 1) \o (Upto(Text, Len(Text)) \o (<<>> \o <<>>))
      BY <1>2, <2>1 DEF Produced
    <3>2. <<>> \o <<>> = <<>> /\ Upto(Text, Len(Text)) \o <<>> = Upto(Text, Len(Text))
      BY <1>1, TextType, ConcatLaws
    <3> QED
      BY <3>1, <3>2
  <2>3. CASE Last(Text) = LineFeed
    <3>1. Sofar' = Before(turn)
      BY <2>3, Static DEF BeginSafe, Sofar
    <3>2. Ending(Text) = <<>>
      BY <2>3 DEF Ending
    <3>3. Before(turn) = Before(turn - 1) \o Upto(Text, Len(Text))
      BY <1>1, <3>2, TextType, ConcatLaws
    <3> QED
      BY <2>2, <3>1, <3>3 DEF ProgressOK
  <2>4. CASE Last(Text) # LineFeed
    <3>1. Sofar' = Before(turn - 1) \o Upto(Text, Len(Text))
      BY <2>4, Static DEF BeginSafe, Sofar, Upto, Place
    <3> QED
      BY <2>2, <3>1 DEF ProgressOK
  <2> QED
    BY <2>3, <2>4
<1> QED
  BY <1>3, <1>4, <1>5 DEF IInv

LEMMA SafeLineKeeps == IInv /\ SafeLine => IInv'
<1> SUFFICES ASSUME IInv, SafeLine PROVE IInv'
  OBVIOUS
<1>1. TypeOK /\ Text \in Seq(STRING)
  BY TextType DEF IInv
<1>2. chunk' = Ending(Text) /\ Ending(Text) \in Seq(Units)
  BY <1>1, TextType DEF SafeLine, IInv, HeldOK, Ending
<1>3. TypeOK'
  BY <1>1, <1>2 DEF SafeLine, TypeOK
<1>4. ReadOK' /\ HeldOK' /\ FailedOK'
  BY DEF SafeLine, IInv, ReadOK, HeldOK, FailedOK
<1>5. ProgressOK'
  <2>1. written = Before(turn - 1) \o Upto(Text, Len(Text))
    <3>1. Produced = written \o (<<>> \o (<<>> \o <<>>))
      BY DEF SafeLine, IInv, HeldOK, Produced
    <3> QED
      BY <3>1, <1>1 DEF SafeLine, IInv, ProgressOK, Sofar, TypeOK
  <2>2. Produced' = written \o Ending(Text)
    <3>1. Produced' = written \o (Ending(Text) \o (<<>> \o <<>>))
      BY <1>2 DEF SafeLine, IInv, HeldOK, Produced
    <3>2. <<>> \o <<>> = <<>> /\ Ending(Text) \o <<>> = Ending(Text)
      BY <1>2, ConcatLaws
    <3> QED
      BY <3>1, <3>2
  <2>3. Sofar' = Before(turn)
    BY Static DEF SafeLine, Sofar
  <2>4. Produced' = Before(turn)
    <3>1. (Before(turn - 1) \o Upto(Text, Len(Text))) \o Ending(Text)
            = Before(turn - 1) \o (Upto(Text, Len(Text)) \o Ending(Text))
      <4> DEFINE a == Before(turn - 1)
                 b == Upto(Text, Len(Text))
                 c == Ending(Text)
      <4>1. a \in Seq(Units) /\ b \in Seq(Units) /\ c \in Seq(Units)
        BY <1>1, TextType
      <4> HIDE DEF a, b, c
      <4>2. (a \o b) \o c = a \o (b \o c)
        BY <4>1, ConcatLaws
      <4> QED
        BY <4>2 DEF a, b, c
    <3> QED
      BY <1>1, <2>1, <2>2, <3>1, TextType
  <2> QED
    BY <2>3, <2>4 DEF ProgressOK
<1> QED
  BY <1>3, <1>4, <1>5 DEF IInv

LEMMA BeginEscapedKeeps == IInv /\ BeginEscaped => IInv'
<1> SUFFICES ASSUME IInv, BeginEscaped PROVE IInv'
  OBVIOUS
<1>1. TypeOK /\ Text \in Seq(STRING) /\ Text' = Text
  BY TextType, Static DEF IInv, BeginEscaped
<1>2. TypeOK' /\ HeldOK' /\ FailedOK'
  BY DEF BeginEscaped, IInv, TypeOK, HeldOK, FailedOK
<1>3. ReadOK'
  <2>1. index' = 0 /\ lineWhitespace' = TRUE /\ lastLineFeed' = FALSE /\ Text # <<>>
    BY DEF BeginEscaped
  <2>2. index' \in 0 .. Len(Text)
    <3>1. Len(Text) \in Nat
      BY <1>1
    <3> QED
      BY <2>1, <3>1
  <2>3. lineWhitespace' = LineStart(Text, index' + 1)
    <3> DEFINE p == LineStart(Text, 1)
    <3>1. p /\ p \in BOOLEAN
      BY LineStartStep DEF LineStart
    <3>2. index' + 1 = 1
      BY <2>1
    <3> HIDE DEF p
    <3>3. p = TRUE
      BY <3>1
    <3> QED
      BY <2>1, <3>2, <3>3 DEF p
  <2>4. lastLineFeed' = (index' > 0 /\ Text[index'] = LineFeed)
    <3> DEFINE p == index' > 0
               q == Text[index'] = LineFeed
    <3>1. ~p
      BY <2>1
    <3> HIDE DEF p, q
    <3>2. (p /\ q) = FALSE
      BY <3>1
    <3> QED
      BY <2>1, <3>2 DEF p, q
  <2> QED
    BY <1>1, <2>1, <2>2, <2>3, <2>4 DEF ReadOK
<1>4. ProgressOK'
  <2>1. Produced' = Produced /\ Produced = Before(turn - 1)
    BY DEF BeginEscaped, IInv, ProgressOK, Produced, Sofar
  <2>2. Sofar' = Before(turn - 1) \o Upto(Text, 0)
    BY Static DEF BeginEscaped, Sofar, Upto, Place
  <2>3. Sofar' = Before(turn - 1)
    BY <1>1, <2>2, TextType, UptoStep, Joining
  <2> QED
    BY <2>1, <2>3 DEF ProgressOK
<1> QED
  BY <1>2, <1>3, <1>4 DEF IInv

\* What reading adds to waiting is added to what has been produced.
LEMMA ReadingAdds ==
    ASSUME TypeOK, chunk = <<>>, waiting = <<>>, waiting' \in Seq(Units),
           UNCHANGED <<buffer, chunk, written>>
    PROVE  Produced' = Produced \o waiting'
<1>1. Produced' = written \o (<<>> \o (buffer \o waiting'))
      /\ Produced = written \o (<<>> \o (buffer \o <<>>))
  BY DEF Produced
<1>2. PICK x \in Seq(Units) : x = waiting'
  OBVIOUS
<1>3. written \o (<<>> \o (buffer \o x)) = (written \o (<<>> \o (buffer \o <<>>))) \o x
  <2>1. written \in Seq(Units) /\ buffer \in Seq(Units)
    BY DEF TypeOK
  <2> QED
    BY <2>1, AddedLast, SMTT(30)
<1> QED
  BY <1>1, <1>2, <1>3, Zenon

\* Reading one symbol.
LEMMA ReadKeeps ==
    ASSUME IInv, Ready, index < Len(Text), waiting' = Place(Text, index + 1), index' = index + 1,
           lineWhitespace' = NextLineWhitespace(LineStart(Text, index + 1), Symbol),
           lastLineFeed' = (Symbol = LineFeed),
           UNCHANGED <<texts, turn, phase, buffer, chunk, written>>
    PROVE  IInv'
<1>1. TypeOK /\ Text \in Seq(STRING) /\ Text' = Text /\ phase = "escape" /\ phase' = "escape"
      /\ index \in 0 .. Len(Text) - 1 /\ index + 1 \in 1 .. Len(Text) /\ chunk = <<>> /\ waiting = <<>>
      /\ Symbol = Text[index + 1]
  <2>1. TypeOK /\ Text \in Seq(STRING) /\ Text' = Text
    BY TextType, Static DEF IInv
  <2>2. index \in 0 .. Len(Text)
    BY DEF IInv, Ready, ReadOK
  <2> QED
    BY <2>1, <2>2 DEF Ready, Symbol
<1>2. waiting' \in Seq(Units)
  BY <1>1, PlaceType
<1>3. TypeOK'
  <2>1. lineWhitespace' \in BOOLEAN /\ lastLineFeed' \in BOOLEAN
    BY DEF NextLineWhitespace
  <2> QED
    BY <1>1, <1>2, <2>1 DEF TypeOK
<1>4. ReadOK'
  <2>1. LineStart(Text, index + 1 + 1) = NextLineWhitespace(LineStart(Text, index + 1), Symbol)
    <3>1. index + 1 \in Nat \ {0}
      BY <1>1
    <3> DEFINE p == LineStart(Text, index + 1 + 1)
               q == NextLineWhitespace(LineStart(Text, index + 1), Symbol)
    <3>2. p <=> q
      BY <1>1, <3>1, LineStartStep
    <3>3. p \in BOOLEAN /\ q \in BOOLEAN
      BY DEF LineStart, NextLineWhitespace
    <3> HIDE DEF p, q
    <3>4. p = q
      BY <3>2, <3>3
    <3> QED
      BY <3>4 DEF p, q
  <2>2. index' \in 0 .. Len(Text) /\ index' > 0 /\ Text # <<>>
    BY <1>1 DEF IInv, ReadOK
  <2>3. lineWhitespace' = LineStart(Text, index' + 1)
    BY <2>1
  <2>4. lastLineFeed' = (index' > 0 /\ Text[index'] = LineFeed)
    BY <1>1, <2>2
  <2> QED
    BY <1>1, <2>2, <2>3, <2>4 DEF ReadOK
<1>5. HeldOK' /\ FailedOK'
  BY <1>1 DEF HeldOK, FailedOK
<1>6. ProgressOK'
  <2>1. Produced' = Produced \o Place(Text, index + 1)
    BY <1>1, <1>2, ReadingAdds
  <2>2. Produced = Before(turn - 1) \o Upto(Text, index)
    BY <1>1 DEF IInv, ProgressOK, Sofar
  <2>3. Sofar' = Before(turn - 1) \o Upto(Text, index + 1)
    BY <1>1, Static DEF Sofar, Upto, Place
  <2>4. Upto(Text, index + 1) = Upto(Text, index) \o Place(Text, index + 1)
    BY <1>1, UptoStep
  <2>5. PICK a \in Seq(Units) : a = Before(turn - 1)
    BY <1>1, TextType
  <2>6. PICK b \in Seq(Units) : b = Upto(Text, index)
    <3>1. index \in 0 .. Len(Text)
      BY <1>1
    <3> QED
      BY <1>1, <3>1, UptoStep
  <2>7. PICK c \in Seq(Units) : c = Place(Text, index + 1)
    BY <1>2
  <2>8. (a \o b) \o c = a \o (b \o c)
    BY Associative, Zenon
  <2>9. Produced' = (a \o b) \o c
    BY <2>1, <2>2, <2>5, <2>6, <2>7, Zenon
  <2>10. Sofar' = a \o (b \o c)
    BY <2>3, <2>4, <2>5, <2>6, <2>7, Zenon
  <2> QED
    BY <2>8, <2>9, <2>10, Zenon DEF ProgressOK
<1> QED
  BY <1>3, <1>4, <1>5, <1>6 DEF IInv

LEMMA EscapeCommandKeeps == IInv /\ EscapeCommand => IInv'
<1> SUFFICES ASSUME IInv, EscapeCommand PROVE IInv'
  OBVIOUS
<1>1. TypeOK /\ Text \in Seq(STRING) /\ index \in Nat /\ index + 1 \in 1 .. Len(Text)
      /\ lineWhitespace = LineStart(Text, index + 1) /\ Symbol = Text[index + 1]
  <2>1. TypeOK /\ Text \in Seq(STRING)
    BY TextType DEF IInv
  <2> QED
    BY <2>1 DEF IInv, EscapeCommand, Ready, ReadOK, Symbol
<1>2. IsCommand(Text, index + 1)
  BY <1>1, CommandAgrees DEF EscapeCommand
<1>3. Symbol \in {Colon, Hash}
  BY <1>1, <1>2, CommandSymbol
<1>4. Symbol # LineFeed /\ Symbol \notin Blank
  BY <1>3, OutputAssumption
<1>5. waiting' = Place(Text, index + 1)
  BY <1>1, <1>2 DEF EscapeCommand, Place
<1>6. lineWhitespace' = NextLineWhitespace(LineStart(Text, index + 1), Symbol)
      /\ lastLineFeed' = (Symbol = LineFeed)
  BY <1>4 DEF EscapeCommand, NextLineWhitespace
<1> QED
  BY <1>5, <1>6, ReadKeeps DEF EscapeCommand

LEMMA AppendSymbolKeeps == IInv /\ AppendSymbol => IInv'
<1> SUFFICES ASSUME IInv, AppendSymbol PROVE IInv'
  OBVIOUS
<1>1. TypeOK /\ Text \in Seq(STRING) /\ index \in Nat
      /\ lineWhitespace = LineStart(Text, index + 1) /\ Symbol = Text[index + 1]
  <2>1. TypeOK /\ Text \in Seq(STRING)
    BY TextType DEF IInv
  <2> QED
    BY <2>1 DEF IInv, AppendSymbol, Ready, ReadOK, Symbol
<1>2. ~IsCommand(Text, index + 1)
  BY <1>1, CommandAgrees DEF AppendSymbol
<1>3. waiting' = Place(Text, index + 1)
  BY <1>1, <1>2 DEF AppendSymbol, Place
<1> QED
  BY <1>1, <1>3, ReadKeeps DEF AppendSymbol

LEMMA EndTextKeeps == IInv /\ EndText => IInv'
<1> SUFFICES ASSUME IInv, EndText PROVE IInv'
  OBVIOUS
<1>1. TypeOK /\ Text \in Seq(STRING) /\ phase = "escape" /\ chunk = <<>> /\ waiting = <<>>
      /\ Text # <<>> /\ index = Len(Text) /\ lastLineFeed = (Text[Len(Text)] = LineFeed)
  <2>1. TypeOK /\ Text \in Seq(STRING)
    BY TextType DEF IInv
  <2>2. Text # <<>> /\ index = Len(Text) /\ lastLineFeed = (index > 0 /\ Text[index] = LineFeed)
    BY DEF IInv, EndText, Ready, ReadOK
  <2>3. Len(Text) > 0
    BY <2>1, <2>2
  <2> QED
    BY <2>1, <2>2, <2>3 DEF EndText, Ready
<1>2. waiting' = Ending(Text) /\ waiting' \in Seq(Units)
  BY <1>1, TextType DEF EndText, Ending, Last
<1>3. TypeOK'
  BY <1>1, <1>2 DEF EndText, TypeOK
<1>4. ReadOK' /\ HeldOK' /\ FailedOK'
  BY DEF EndText, ReadOK, HeldOK, FailedOK
<1>5. ProgressOK'
  <2>1. Produced' = Produced \o Ending(Text)
    BY <1>1, <1>2, ReadingAdds DEF EndText
  <2>2. Produced = Before(turn - 1) \o Upto(Text, Len(Text))
    BY <1>1 DEF IInv, ProgressOK, Sofar
  <2>3. Sofar' = Before(turn)
    BY Static DEF EndText, Sofar
  <2>4. PICK a \in Seq(Units) : a = Before(turn - 1)
    BY <1>1, TextType
  <2>5. PICK b \in Seq(Units) : b = Upto(Text, Len(Text))
    BY <1>1, TextType
  <2>6. PICK c \in Seq(Units) : c = Ending(Text)
    BY <1>1, TextType
  <2>7. (a \o b) \o c = a \o (b \o c)
    BY Associative, Zenon
  <2>8. Before(turn) = Before(turn - 1) \o (Upto(Text, Len(Text)) \o Ending(Text))
    BY <1>1, TextType
  <2> QED
    BY <2>1, <2>2, <2>3, <2>4, <2>5, <2>6, <2>7, <2>8, Zenon DEF ProgressOK
<1> QED
  BY <1>3, <1>4, <1>5 DEF IInv

LEMMA AppendByteKeeps == IInv /\ AppendByte => IInv'
<1> SUFFICES ASSUME IInv, AppendByte PROVE IInv'
  OBVIOUS
<1>1. TypeOK /\ chunk = <<>> /\ phase \in {"escape", "flush"}
      /\ Append(buffer, Head(waiting)) \o Tail(waiting) = buffer \o waiting
      /\ Append(buffer, Head(waiting)) \in Seq(Units) /\ Tail(waiting) \in Seq(Units)
  BY MovedToBuffer DEF IInv, AppendByte, TypeOK
<1>2. TypeOK'
  BY <1>1 DEF AppendByte, TypeOK
<1>3. ReadOK' /\ HeldOK' /\ FailedOK'
  BY Static DEF AppendByte, IInv, ReadOK, HeldOK, FailedOK
<1>4. ProgressOK'
  <2>1. Produced' = Produced
    BY <1>1 DEF AppendByte, Produced
  <2>2. Sofar' = Sofar
    BY <1>1, Static DEF AppendByte, Sofar, Upto, Place
  <2> QED
    BY <1>1, <2>1, <2>2 DEF IInv, AppendByte, ProgressOK
<1> QED
  BY <1>2, <1>3, <1>4 DEF IInv

LEMMA FlushFullKeeps == IInv /\ FlushFull => IInv'
<1> SUFFICES ASSUME IInv, FlushFull PROVE IInv'
  OBVIOUS
<1>1. TypeOK'
  BY DEF IInv, FlushFull, TypeOK
<1>2. ReadOK' /\ HeldOK' /\ FailedOK'
  BY Static DEF FlushFull, IInv, ReadOK, HeldOK, FailedOK
<1>3. ProgressOK'
  <2>1. Produced' = Produced
    BY Flushed DEF FlushFull, IInv, TypeOK, Produced
  <2>2. Sofar' = Sofar
    BY Static DEF FlushFull, Sofar, Upto, Place
  <2> QED
    BY <2>1, <2>2 DEF IInv, FlushFull, ProgressOK
<1> QED
  BY <1>1, <1>2, <1>3 DEF IInv

LEMMA FlushLastKeeps == IInv /\ FlushLast => IInv'
<1> SUFFICES ASSUME IInv, FlushLast PROVE IInv'
  OBVIOUS
<1>1. TypeOK'
  BY DEF IInv, FlushLast, TypeOK
<1>2. ReadOK' /\ HeldOK' /\ FailedOK'
  BY DEF FlushLast, IInv, ReadOK, HeldOK, FailedOK
<1>3. ProgressOK'
  <2>1. Produced' = Produced
    BY Flushed DEF FlushLast, IInv, TypeOK, Produced
  <2>2. Sofar' = Sofar
    BY Static DEF FlushLast, Sofar
  <2> QED
    BY <2>1, <2>2 DEF IInv, FlushLast, ProgressOK
<1> QED
  BY <1>1, <1>2, <1>3 DEF IInv

LEMMA TakeKeeps == IInv /\ Take => IInv'
<1> SUFFICES ASSUME IInv, Take PROVE IInv'
  OBVIOUS
<1>1. PICK n \in 1 .. Len(chunk) : /\ written' = written \o SubSeq(chunk, 1, n)
                                   /\ chunk' = SubSeq(chunk, n + 1, Len(chunk))
  BY DEF Take
<1>2. n \in 0 .. Len(chunk) /\ written \in Seq(Units) /\ chunk \in Seq(Units)
      /\ buffer \o waiting \in Seq(Units)
  BY Joining DEF IInv, TypeOK
<1>3. written' \in Seq(Units) /\ chunk' \in Seq(Units)
  BY <1>1, <1>2, Taken
<1>4. TypeOK'
  BY <1>3 DEF IInv, Take, TypeOK
<1>5. ReadOK' /\ HeldOK' /\ FailedOK'
  BY Static DEF Take, IInv, ReadOK, HeldOK, FailedOK
<1>6. ProgressOK'
  <2>1. Produced' = Produced
    <3>1. (written \o SubSeq(chunk, 1, n)) \o (SubSeq(chunk, n + 1, Len(chunk)) \o (buffer \o waiting))
            = written \o (chunk \o (buffer \o waiting))
      BY <1>2, Taken, ZenonT(30)
    <3> QED
      BY <1>1, <3>1 DEF Take, Produced
  <2>2. Sofar' = Sofar
    BY Static DEF Take, Sofar, Upto, Place
  <2> QED
    BY <2>1, <2>2 DEF IInv, Take, ProgressOK
<1> QED
  BY <1>4, <1>5, <1>6 DEF IInv

\* What has been produced begins the report.
LEMMA ProducedBegins ==
    ASSUME IInv, phase # "failed"
    PROVE  Produced \in Seq(Units) /\ Begins(Units, Produced, Report)
<1>1. TypeOK /\ texts \in Seq(Seq(STRING)) /\ Text \in Seq(STRING) /\ Produced = Sofar
      /\ turn \in 0 .. Len(texts) /\ turn - 1 \in 0 .. Len(texts)
  BY TextType DEF IInv, ProgressOK
<1>2. \A n \in 0 .. Len(texts) : Before(n) \in Seq(Units) /\ Begins(Units, Before(n), Report)
  BY <1>1, BeforeStep
<1>3. Report \in Seq(Units) /\ Begins(Units, Report, Report)
  <2>1. Report = Before(Len(texts)) /\ Len(texts) \in 0 .. Len(texts)
    BY <1>1, BeforeStep
  <2> QED
    BY <1>2, <2>1
<1>4. ASSUME NEW i \in 0 .. Len(Text)
      PROVE  /\ Before(turn - 1) \o Upto(Text, i) \in Seq(Units)
             /\ Begins(Units, Before(turn - 1) \o Upto(Text, i), Report)
  <2>1. PICK a \in Seq(Units) : a = Before(turn - 1)
    BY <1>1, <1>2
  <2>2. PICK b \in Seq(Units) : b = Upto(Text, i)
    BY <1>1, UptoStep
  <2>3. PICK c \in Seq(Units) : c = Ending(Text)
    BY <1>1, TextType
  <2>4. PICK u \in Seq(Units) : Upto(Text, Len(Text)) = b \o u
    BY <1>1, <2>2, UptoStep DEF Begins
  <2>5. Before(turn) = a \o ((b \o u) \o c)
    BY <1>1, <2>1, <2>3, <2>4, TextType
  <2>6. PICK uc \in Seq(Units) : uc = u \o c
    BY Joining
  <2>7. (b \o u) \o c = b \o uc
    BY <2>6, Associative, SMTT(30)
  <2>8. (a \o b) \o uc = a \o (b \o uc)
    BY Associative, SMTT(30)
  <2>9. Before(turn) = (a \o b) \o uc
    BY <2>5, <2>7, <2>8
  <2>10. a \o b \in Seq(Units)
    BY Joining
  <2>11. Begins(Units, a \o b, Before(turn))
    BY <2>9 DEF Begins
  <2>12. Begins(Units, a \o b, Report)
    BY <1>1, <1>2, <2>10, <2>11, BeginsTransitive
  <2> QED
    BY <2>1, <2>2, <2>10, <2>12
<1>5. CASE phase = "line"
  <2>1. Len(Text) \in 0 .. Len(Text) /\ Sofar = Before(turn - 1) \o Upto(Text, Len(Text))
    BY <1>1, <1>5 DEF Sofar
  <2> QED
    BY <1>1, <1>4, <2>1
<1>6. CASE phase = "escape"
  <2>1. index \in 0 .. Len(Text) /\ Sofar = Before(turn - 1) \o Upto(Text, index)
    BY <1>6 DEF IInv, ReadOK, Sofar
  <2> QED
    BY <1>1, <1>4, <2>1
<1>7. CASE phase \notin {"line", "escape"}
  <2>1. Sofar \in {Before(turn - 1), Before(turn), Report}
    BY <1>7 DEF Sofar
  <2> QED
    BY <1>1, <1>2, <1>3, <2>1
<1> QED
  BY <1>5, <1>6, <1>7

\* What has been written begins what has been produced, and so does a part more.
LEMMA WrittenBegins ==
    ASSUME IInv, phase # "failed", NEW n \in 0 .. Len(chunk)
    PROVE  /\ written \o SubSeq(chunk, 1, n) \in Seq(Units)
           /\ Begins(Units, written \o SubSeq(chunk, 1, n), Report)
<1>1. written \in Seq(Units) /\ chunk \in Seq(Units) /\ buffer \o waiting \in Seq(Units)
  BY Joining DEF IInv, TypeOK
<1> DEFINE part == written \o SubSeq(chunk, 1, n)
           rest == SubSeq(chunk, n + 1, Len(chunk)) \o (buffer \o waiting)
<1>2. part \in Seq(Units) /\ Produced = part \o rest
  BY <1>1, Taken, ZenonT(30) DEF Produced
<1>3. rest \in Seq(Units)
  <2>1. SubSeq(chunk, n + 1, Len(chunk)) \in Seq(Units)
    BY <1>1, Taken
  <2> QED
    BY <1>1, <2>1, Joining
<1> HIDE DEF part, rest
<1>4. Begins(Units, part, Produced)
  BY <1>2, <1>3 DEF Begins
<1>5. Produced \in Seq(Units) /\ Begins(Units, Produced, Report)
  BY ProducedBegins
<1>6. Begins(Units, part, Report)
  BY <1>2, <1>4, <1>5, BeginsTransitive
<1> QED
  BY <1>2, <1>6 DEF part

LEMMA WrittenIsBeginning ==
    ASSUME IInv
    PROVE  written \in Seq(Units) /\ Begins(Units, written, Report)
<1>1. CASE phase = "failed"
  BY <1>1 DEF IInv, FailedOK, TypeOK
<1>2. CASE phase # "failed"
  <2>1. 0 \in 0 .. Len(chunk) /\ SubSeq(chunk, 1, 0) = <<>> /\ written \o <<>> = written
    BY Joining DEF IInv, TypeOK
  <2> QED
    BY <1>2, <2>1, WrittenBegins
<1> QED
  BY <1>1, <1>2

LEMMA TakeAndFailKeeps == IInv /\ TakeAndFail => IInv'
<1> SUFFICES ASSUME IInv, TakeAndFail PROVE IInv'
  OBVIOUS
<1>1. PICK n \in 0 .. Len(chunk) : written' = written \o SubSeq(chunk, 1, n)
  BY DEF TakeAndFail
<1>2. written' \in Seq(Units) /\ Begins(Units, written', Report)
  BY <1>1, WrittenBegins DEF TakeAndFail
<1>3. Report' = Report
  BY Static DEF TakeAndFail
<1>4. TypeOK'
  BY <1>2 DEF IInv, TakeAndFail, TypeOK
<1> QED
  BY <1>2, <1>3, <1>4 DEF IInv, TakeAndFail, ReadOK, HeldOK, ProgressOK, FailedOK

LEMMA NextTextKeeps == IInv /\ NextText => IInv'
<1> SUFFICES ASSUME IInv, NextText PROVE IInv'
  OBVIOUS
<1>1. texts \in Seq(Seq(STRING)) /\ turn \in 1 .. Len(texts) /\ texts' = texts
  BY TextType DEF IInv, TypeOK, NextText
<1>2. TypeOK'
  BY <1>1 DEF IInv, NextText, TypeOK
<1>3. ReadOK' /\ HeldOK' /\ FailedOK'
  BY DEF IInv, NextText, ReadOK, HeldOK, FailedOK
<1>4. ProgressOK'
  <2>1. Produced' = Produced /\ Produced = Before(turn)
    BY DEF IInv, NextText, ProgressOK, Produced, Sofar
  <2>2. CASE turn < Len(texts)
    <3>1. turn' = turn + 1 /\ turn' - 1 = turn /\ phase' = "start"
      BY <1>1, <2>2 DEF NextText
    <3>2. Sofar' = Before(turn)
      BY <1>1, <3>1 DEF Sofar, Before, Rendered
    <3> QED
      BY <2>1, <3>2 DEF ProgressOK
  <2>3. CASE ~(turn < Len(texts))
    <3>1. turn = Len(texts) /\ phase' = "done"
      BY <1>1, <2>3 DEF NextText
    <3>2. Sofar' = Report
      BY <1>1, <3>1 DEF Sofar, Report, Rendered
    <3>3. Before(turn) = Report
      BY <1>1, <3>1, BeforeStep
    <3> QED
      BY <2>1, <3>2, <3>3 DEF ProgressOK
  <2> QED
    BY <2>2, <2>3
<1> QED
  BY <1>2, <1>3, <1>4 DEF IInv

LEMMA StepInvariant == IInv /\ [Next]_vars => IInv'
<1> SUFFICES ASSUME IInv, [Next]_vars PROVE IInv'
  OBVIOUS
<1>1. ASSUME UNCHANGED vars PROVE IInv'
  <2>1. UNCHANGED <<texts, turn, phase, index, lineWhitespace, lastLineFeed, waiting, buffer,
                    chunk, written>>
    BY <1>1 DEF vars
  <2>2. Text' = Text /\ Report' = Report /\ Sofar' = Sofar /\ Produced' = Produced
    BY <2>1, Static DEF Sofar, Upto, Place, Produced
  <2> QED
    BY <2>1, <2>2 DEF IInv, TypeOK, ReadOK, HeldOK, ProgressOK, FailedOK
<1> QED
  BY <1>1, BeginEmptyKeeps, BeginSafeKeeps, SafeLineKeeps, BeginEscapedKeeps, EscapeCommandKeeps,
     AppendSymbolKeeps, EndTextKeeps, AppendByteKeeps, FlushFullKeeps, FlushLastKeeps, TakeKeeps,
     TakeAndFailKeeps, NextTextKeeps DEF Next, Finished

-----------------------------------------------------------------------------
(* The runner: what it sees, symbol by symbol *)

Inert(shown) == \A i \in 1 .. Len(shown) : shown[i] \notin Unsafe /\ ~IsCommand(shown, i)

\* The symbols of a short piece of a sequence.
LEMMA Pairs ==
    ASSUME NEW S, NEW s \in Seq(S), NEW i \in 1 .. Len(s), i < Len(s)
    PROVE  /\ SubSeq(s, i, i + 1) = <<s[i], s[i + 1]>>
           /\ i + 1 < Len(s) => SubSeq(s, i, i + 2) = <<s[i], s[i + 1], s[i + 2]>>
<1>1. SubSeq(s, i, i + 1) = <<s[i], s[i + 1]>>
  <2> DEFINE a == SubSeq(s, i, i + 1)
             b == <<s[i], s[i + 1]>>
  <2>1. a \in Seq(S) /\ Len(a) = 2 /\ a[1] = s[i] /\ a[2] = s[i + 1]
    <3>1. a \in Seq(S) /\ Len(a) = i + 1 - i + 1
          /\ \A k \in 1 .. i + 1 - i + 1 : a[k] = s[i + k - 1]
      BY SubSeqProperties
    <3> HIDE DEF a
    <3> QED
      BY <3>1
  <2>2. b \in Seq(S) /\ Len(b) = 2 /\ b[1] = s[i] /\ b[2] = s[i + 1]
    OBVIOUS
  <2>3. \A k \in 1 .. 2 : k = 1 \/ k = 2
    OBVIOUS
  <2> HIDE DEF a, b
  <2>4. a = b
    BY <2>1, <2>2, <2>3, SeqEqual
  <2> QED
    BY <2>4 DEF a, b
<1>2. ASSUME i + 1 < Len(s) PROVE SubSeq(s, i, i + 2) = <<s[i], s[i + 1], s[i + 2]>>
  <2> DEFINE a == SubSeq(s, i, i + 2)
             b == <<s[i], s[i + 1], s[i + 2]>>
  <2>1. a \in Seq(S) /\ Len(a) = 3 /\ a[1] = s[i] /\ a[2] = s[i + 1] /\ a[3] = s[i + 2]
    <3>1. a \in Seq(S) /\ Len(a) = i + 2 - i + 1
          /\ \A k \in 1 .. i + 2 - i + 1 : a[k] = s[i + k - 1]
      BY <1>2, SubSeqProperties
    <3> HIDE DEF a
    <3> QED
      BY <3>1
  <2>2. b \in Seq(S) /\ Len(b) = 3 /\ b[1] = s[i] /\ b[2] = s[i + 1] /\ b[3] = s[i + 2]
    BY <1>2
  <2>3. \A k \in 1 .. 3 : k = 1 \/ k = 2 \/ k = 3
    OBVIOUS
  <2> HIDE DEF a, b
  <2>4. a = b
    BY <2>1, <2>2, <2>3, SeqEqual
  <2> QED
    BY <2>4 DEF a, b
<1> QED
  BY <1>1, <1>2

\* A command, symbol by symbol.
LEMMA CommandIs ==
    ASSUME NEW s \in Seq(Symbols), NEW i \in 1 .. Len(s)
    PROVE  IsCommand(s, i) <=>
            \/ i < Len(s) /\ s[i] = Colon /\ s[i + 1] = Colon /\ LineStart(s, i)
            \/ i + 1 < Len(s) /\ s[i] = Hash /\ s[i + 1] = Hash /\ s[i + 2] \in Openers
<1>1. Prefix(s, i - 1, <<Colon, Colon>>) <=> i < Len(s) /\ s[i] = Colon /\ s[i + 1] = Colon
  <2>1. Prefix(s, i - 1, <<Colon, Colon>>)
          <=> i + 1 <= Len(s) /\ SubSeq(s, i, i + 1) = <<Colon, Colon>>
    <3>1. Len(<<Colon, Colon>>) = 2 /\ i - 1 + 2 = i + 1 /\ i - 1 + 1 = i
      OBVIOUS
    <3> QED
      BY <3>1 DEF Prefix
  <2>2. ASSUME i + 1 <= Len(s)
        PROVE  SubSeq(s, i, i + 1) = <<Colon, Colon>> <=> s[i] = Colon /\ s[i + 1] = Colon
    <3>1. SubSeq(s, i, i + 1) = <<s[i], s[i + 1]>>
      BY <2>2, Pairs
    <3>2. \A a, b : <<a, b>> = <<Colon, Colon>> <=> a = Colon /\ b = Colon
      OBVIOUS
    <3> QED
      BY <3>1, <3>2, Zenon
  <2> QED
    BY <2>1, <2>2
<1>2. ASSUME NEW opener
      PROVE  Prefix(s, i - 1, <<Hash, Hash, opener>>)
              <=> i + 1 < Len(s) /\ s[i] = Hash /\ s[i + 1] = Hash /\ s[i + 2] = opener
  <2>1. Prefix(s, i - 1, <<Hash, Hash, opener>>)
          <=> i + 2 <= Len(s) /\ SubSeq(s, i, i + 2) = <<Hash, Hash, opener>>
    <3>1. Len(<<Hash, Hash, opener>>) = 3 /\ i - 1 + 3 = i + 2 /\ i - 1 + 1 = i
      OBVIOUS
    <3> QED
      BY <3>1 DEF Prefix
  <2>2. ASSUME i + 2 <= Len(s)
        PROVE  SubSeq(s, i, i + 2) = <<Hash, Hash, opener>>
                <=> s[i] = Hash /\ s[i + 1] = Hash /\ s[i + 2] = opener
    <3>1. SubSeq(s, i, i + 2) = <<s[i], s[i + 1], s[i + 2]>>
      BY <2>2, Pairs
    <3> DEFINE a == s[i]
               b == s[i + 1]
               c == s[i + 2]
    <3> HIDE DEF a, b, c
    <3>2. <<a, b, c>> = <<Hash, Hash, opener>> <=> a = Hash /\ b = Hash /\ c = opener
      OBVIOUS
    <3> QED
      BY <3>1, <3>2 DEF a, b, c
  <2> QED
    BY <2>1, <2>2
<1> QED
  BY <1>1, <1>2 DEF IsCommand

\* What follows does not change where lines begin.
LEMMA LineStartKept ==
    ASSUME NEW s \in Seq(Symbols), NEW t \in Seq(Symbols), NEW i \in 1 .. Len(s) + 1
    PROVE  LineStart(s \o t, i) <=> LineStart(s, i)
<1>1. \A k \in 1 .. i - 1 : (s \o t)[k] = s[k]
  OBVIOUS
<1>2. \A j \in 0 .. i - 1 : /\ j # 0 => j \in 1 .. i - 1
                            /\ \A k \in j + 1 .. i - 1 : k \in 1 .. i - 1
  OBVIOUS
<1> DEFINE r == s \o t
<1>3. \A k \in 1 .. i - 1 : r[k] = s[k]
  BY <1>1
<1> HIDE DEF r
<1>4. LineStart(r, i) <=> LineStart(s, i)
  BY <1>2, <1>3 DEF LineStart
<1> QED
  BY <1>4 DEF r

\* What is inert is so when cut off.
LEMMA InertBeginning ==
    ASSUME NEW s \in Seq(Symbols), NEW t \in Seq(Symbols), Inert(s \o t)
    PROVE  Inert(s)
<1> DEFINE r == s \o t
<1>1. r \in Seq(Symbols) /\ Len(s) <= Len(r) /\ \A k \in 1 .. Len(s) : r[k] = s[k] /\ k \in 1 .. Len(r)
  OBVIOUS
<1>2. ASSUME NEW i \in 1 .. Len(s), IsCommand(s, i) PROVE IsCommand(r, i)
  <2>1. LineStart(r, i) <=> LineStart(s, i)
    <3>1. i \in 1 .. Len(s) + 1
      OBVIOUS
    <3> QED
      BY <3>1, LineStartKept
  <2> HIDE DEF r
  <2>2. i \in 1 .. Len(r) /\ r[i] = s[i] /\ (i < Len(s) => i < Len(r) /\ r[i + 1] = s[i + 1])
        /\ (i + 1 < Len(s) => i + 1 < Len(r) /\ r[i + 2] = s[i + 2])
    BY <1>1
  <2> QED
    BY <1>1, <1>2, <2>1, <2>2, CommandIs
<1> HIDE DEF r
<1>3. Inert(r)
  BY DEF r
<1> QED
  BY <1>1, <1>2, <1>3 DEF Inert

\* One more symbol is harmless unless it completes a command.
Completes(shown, symbol) ==
    LET n == Len(shown) IN
    \/ n > 0 /\ shown[n] = Colon /\ symbol = Colon /\ LineStart(shown, n)
    \/ n > 1 /\ shown[n - 1] = Hash /\ shown[n] = Hash /\ symbol \in Openers

LEMMA InertStep ==
    ASSUME NEW s \in Seq(Symbols), NEW x \in Symbols, Inert(s), x \notin Unsafe, ~Completes(s, x)
    PROVE  Inert(Append(s, x))
<1> DEFINE r == Append(s, x)
           n == Len(s)
<1>1. r \in Seq(Symbols) /\ Len(r) = n + 1 /\ r[n + 1] = x /\ n \in Nat
      /\ \A k \in 1 .. n : r[k] = s[k]
  OBVIOUS
<1>2. \A i \in 1 .. n : LineStart(r, i) <=> LineStart(s, i)
  <2>1. r = s \o <<x>> /\ <<x>> \in Seq(Symbols) /\ \A i \in 1 .. n : i \in 1 .. n + 1
    OBVIOUS
  <2> HIDE DEF r
  <2> QED
    BY <2>1, LineStartKept
<1> HIDE DEF r
<1>3. ASSUME NEW i \in 1 .. n + 1, IsCommand(r, i) PROVE FALSE
  <2>1. \/ i < n + 1 /\ r[i] = Colon /\ r[i + 1] = Colon /\ LineStart(r, i)
        \/ i + 1 < n + 1 /\ r[i] = Hash /\ r[i + 1] = Hash /\ r[i + 2] \in Openers
    BY <1>1, <1>3, CommandIs
  <2>2. CASE i < n + 1 /\ r[i] = Colon /\ r[i + 1] = Colon /\ LineStart(r, i)
    <3>1. CASE i = n
      <4>1. n > 0 /\ s[n] = Colon /\ x = Colon /\ LineStart(s, n)
        BY <1>1, <1>2, <2>2, <3>1
      <4> QED
        BY <4>1 DEF Completes
    <3>2. CASE i < n
      <4>1. i \in 1 .. Len(s) /\ i < Len(s) /\ s[i] = Colon /\ s[i + 1] = Colon /\ LineStart(s, i)
        BY <1>1, <1>2, <2>2, <3>2
      <4> QED
        BY <4>1, CommandIs DEF Inert
    <3> QED
      BY <1>1, <2>2, <3>1, <3>2
  <2>3. CASE i + 1 < n + 1 /\ r[i] = Hash /\ r[i + 1] = Hash /\ r[i + 2] \in Openers
    <3>1. CASE i + 1 = n
      <4>1. n > 1 /\ s[n - 1] = Hash /\ s[n] = Hash /\ x \in Openers
        <5>1. i = n - 1 /\ i + 1 = n /\ i + 2 = n + 1 /\ n - 1 \in 1 .. n /\ n \in 1 .. n
          BY <1>1, <3>1
        <5> QED
          BY <1>1, <2>3, <5>1
      <4> QED
        BY <4>1 DEF Completes
    <3>2. CASE i + 1 < n
      <4>1. i \in 1 .. Len(s) /\ i + 1 < Len(s) /\ s[i] = Hash /\ s[i + 1] = Hash /\ s[i + 2] \in Openers
        BY <1>1, <2>3, <3>2
      <4> QED
        BY <4>1, CommandIs DEF Inert
    <3> QED
      BY <1>1, <2>3, <3>1, <3>2
  <2> QED
    BY <2>1, <2>2, <2>3
<1>4. ASSUME NEW i \in 1 .. n + 1 PROVE r[i] \notin Unsafe
  BY <1>1 DEF Inert
<1> QED
  BY <1>1, <1>3, <1>4 DEF Inert, r

\* shown is what the runner sees of the first m symbols of text, after any
\* earlier lines: where it takes a line to begin one does begin, and a colon or
\* hash it sees last was printed for one that begins no command.
Follows(shown, text, m) ==
    LET n == Len(shown) IN
    /\ Inert(shown)
    /\ LineStart(shown, n + 1) => LineStart(text, m + 1)
    /\ n > 0 /\ shown[n] \in {Colon, Hash} =>
        /\ m > 0 /\ text[m] = shown[n] /\ ~IsCommand(text, m)
        /\ LineStart(shown, n) => LineStart(text, m)
    /\ n > 1 /\ shown[n - 1] = Hash /\ shown[n] = Hash =>
        m > 1 /\ text[m - 1] = Hash /\ ~IsCommand(text, m - 1)

\* An inert beginning that ends a line, or in a byte of an escape.
LEMMA FollowsNew ==
    ASSUME NEW s \in Seq(Symbols), NEW text, NEW m \in Nat, Inert(s),
           \/ s # <<>> /\ s[Len(s)] = "text"
           \/ m = 0 /\ (s # <<>> => s[Len(s)] = LineFeed)
    PROVE  Follows(s, text, m)
<1> DEFINE n == Len(s)
<1>1. n \in Nat /\ (n > 0 <=> s # <<>>)
  OBVIOUS
<1>2. n > 0 => s[n] \notin {Colon, Hash}
  BY <1>1, TextAssumption, OutputAssumption
<1>3. LineStart(s, n + 1) => LineStart(text, m + 1)
  <2>1. CASE m = 0
    BY <2>1, LineStartStep
  <2>2. CASE n > 0 /\ s[n] = "text"
    <3>1. LineStart(s, n + 1) <=> NextLineWhitespace(LineStart(s, n), s[n])
      <4>1. n \in Nat \ {0}
        BY <1>1, <2>2
      <4> HIDE DEF n
      <4> QED
        BY <4>1, LineStartStep
    <3> QED
      BY <2>2, <3>1, TextAssumption DEF NextLineWhitespace
  <2> QED
    BY <1>1, <2>1, <2>2
<1> HIDE DEF n
<1>4. ~(n > 0 /\ s[n] \in {Colon, Hash}) /\ ~(n > 1 /\ s[n - 1] = Hash /\ s[n] = Hash)
  BY <1>1, <1>2
<1> QED
  BY <1>3, <1>4 DEF Follows, n

\* A printed symbol that is neither unsafe nor begins a command.
LEMMA FollowsPrinted ==
    ASSUME NEW text \in Seq(STRING), NEW m \in 1 .. Len(text), NEW s \in Seq(Symbols),
           Follows(s, text, m - 1), text[m] \notin Unsafe, ~IsCommand(text, m)
    PROVE  Follows(Append(s, text[m]), text, m)
<1> DEFINE r == Append(s, text[m])
           n == Len(s)
           x == text[m]
<1>1. /\ r \in Seq(Symbols) /\ Len(r) = n + 1 /\ r[n + 1] = x /\ n \in Nat /\ x \in Symbols
      /\ \A k \in 1 .. n : r[k] = s[k]
      /\ text \in Seq(Symbols)
  BY DEF Symbols
<1>2. \A i \in 1 .. n + 1 : LineStart(r, i) <=> LineStart(s, i)
  <2>1. r = s \o <<x>> /\ <<x>> \in Seq(Symbols)
    BY <1>1
  <2> HIDE DEF r, x
  <2> QED
    BY <2>1, LineStartKept
<1>3. /\ LineStart(r, n + 2) <=> NextLineWhitespace(LineStart(r, n + 1), x)
      /\ LineStart(text, m + 1) <=> NextLineWhitespace(LineStart(text, m), x)
  <2>1. n + 1 \in Nat \ {0} /\ m \in Nat \ {0} /\ n + 1 + 1 = n + 2
    BY <1>1
  <2> HIDE DEF r
  <2> QED
    BY <1>1, <2>1, LineStartStep
<1>4. n \in Nat /\ m - 1 + 1 = m /\ m - 1 - 1 = m - 2
  BY <1>1
<1>5. /\ Inert(s)
      /\ LineStart(s, n + 1) => LineStart(text, m)
      /\ n > 0 /\ s[n] \in {Colon, Hash} =>
            /\ m - 1 > 0 /\ text[m - 1] = s[n] /\ ~IsCommand(text, m - 1)
            /\ LineStart(s, n) => LineStart(text, m - 1)
      /\ n > 1 /\ s[n - 1] = Hash /\ s[n] = Hash =>
            m - 1 > 1 /\ text[m - 2] = Hash /\ ~IsCommand(text, m - 2)
  BY <1>4 DEF Follows
<1>6. ~Completes(s, x)
  <2>1. ASSUME n > 0, s[n] = Colon, x = Colon, LineStart(s, n) PROVE FALSE
    <3>1. m - 1 \in 1 .. Len(text) /\ m - 1 < Len(text) /\ m - 1 + 1 = m
          /\ text[m - 1] = Colon /\ LineStart(text, m - 1) /\ ~IsCommand(text, m - 1)
      BY <1>5, <2>1
    <3>2. PICK k \in 1 .. Len(text) : k = m - 1 /\ k + 1 = m
      BY <3>1
    <3> QED
      BY <1>1, <2>1, <3>1, <3>2, CommandIs
  <2>2. ASSUME n > 1, s[n - 1] = Hash, s[n] = Hash, x \in Openers PROVE FALSE
    <3>1. m - 2 \in 1 .. Len(text) /\ m - 1 < Len(text) /\ text[m - 2] = Hash
          /\ ~IsCommand(text, m - 2)
      BY <1>5, <2>2
    <3>2. text[m - 1] = Hash
      BY <1>5, <2>2
    <3>3. PICK k \in 1 .. Len(text) : k = m - 2 /\ k + 1 = m - 1 /\ k + 2 = m
      BY <3>1
    <3> QED
      BY <1>1, <2>2, <3>1, <3>2, <3>3, CommandIs
  <2> QED
    BY <2>1, <2>2 DEF Completes
<1>7. Inert(r)
  BY <1>1, <1>5, <1>6, InertStep
<1>8. LineStart(r, n + 2) => LineStart(text, m + 1)
  <2>1. n + 1 \in 1 .. n + 1
    BY <1>1
  <2>2. LineStart(r, n + 1) => LineStart(text, m)
    BY <1>2, <1>5, <2>1
  <2> QED
    BY <1>3, <2>2 DEF NextLineWhitespace
<1>9. x \in {Colon, Hash} =>
        /\ m > 0 /\ text[m] = x /\ ~IsCommand(text, m)
        /\ LineStart(r, n + 1) => LineStart(text, m)
  <2>1. n + 1 \in 1 .. n + 1
    BY <1>1
  <2> QED
    BY <1>2, <1>5, <2>1
<1>10. n > 0 /\ s[n] = Hash => m > 1 /\ text[m - 1] = Hash /\ ~IsCommand(text, m - 1)
  BY <1>5
<1> HIDE DEF r, n, x
<1>11. n + 1 > 1 /\ r[n + 1 - 1] = Hash /\ r[n + 1] = Hash =>
         m > 1 /\ text[m - 1] = Hash /\ ~IsCommand(text, m - 1)
  <2>1. n + 1 - 1 = n /\ (n + 1 > 1 => n > 0 /\ n \in 1 .. n)
    BY <1>1
  <2> QED
    BY <1>1, <1>10, <2>1
<1>12. Len(r) + 1 = n + 2
  BY <1>1
<1>13. Follows(r, text, m)
  BY <1>1, <1>7, <1>8, <1>9, <1>11, <1>12 DEF Follows
<1> QED
  BY <1>13 DEF r, x

LEMMA TextIsSymbol == "text" \in Symbols
  BY DEF Symbols

\* An escape is four bytes of text.
LEMMA InertText ==
    ASSUME NEW s \in Seq(Symbols), Inert(s)
    PROVE  /\ Append(s, "text") \in Seq(Symbols) /\ Inert(Append(s, "text"))
           /\ Append(s, "text")[Len(Append(s, "text"))] = "text"
           /\ Append(s, "text") # <<>>
<1>1. "text" \in Symbols /\ "text" \notin Unsafe
  BY TextAssumption, TextIsSymbol
<1>2. ~Completes(s, "text")
  BY TextAssumption DEF Completes
<1>3. Inert(Append(s, "text"))
  BY <1>1, <1>2, InertStep
<1>4. \A x \in Symbols : Append(s, x) \in Seq(Symbols) /\ Append(s, x)[Len(Append(s, x))] = x
                         /\ Append(s, x) # <<>>
  OBVIOUS
<1> QED
  BY <1>1, <1>3, <1>4

-----------------------------------------------------------------------------
(* The runner: what it sees of a report *)

LEMMA SeenJoins ==
    ASSUME NEW u \in Seq(Units), NEW v \in Seq(Units)
    PROVE  /\ Seen(u \o v) = Seen(u) \o Seen(v)
           /\ Seen(u) \in Seq(Symbols) /\ Len(Seen(u)) = Len(u)
           /\ IsInert(u) <=> Inert(Seen(u))
<1>1. ASSUME NEW w \in Seq(Units) PROVE Seen(w) \in Seq(Symbols) /\ Len(Seen(w)) = Len(w)
  <2>1. \A i \in 1 .. Len(w) : w[i][1] \in Symbols
    BY DEF Units
  <2>2. "text" \in Symbols
    BY TextIsSymbol
  <2> QED
    BY <2>1, <2>2 DEF Seen
<1>2. Seen(u \o v) = Seen(u) \o Seen(v)
  <2> DEFINE f == Seen(u \o v)
             g == Seen(u) \o Seen(v)
  <2>1. u \o v \in Seq(Units) /\ Len(u \o v) = Len(u) + Len(v)
    BY ConcatProperties
  <2>2. f \in Seq(Symbols) /\ Len(f) = Len(u) + Len(v)
    BY <1>1, <2>1
  <2>3. g \in Seq(Symbols) /\ Len(g) = Len(u) + Len(v)
    <3>1. PICK a \in Seq(Symbols) : a = Seen(u) /\ Len(a) = Len(u)
      BY <1>1
    <3>2. PICK b \in Seq(Symbols) : b = Seen(v) /\ Len(b) = Len(v)
      BY <1>1
    <3>3. a \o b \in Seq(Symbols) /\ Len(a \o b) = Len(a) + Len(b)
      OBVIOUS
    <3> QED
      BY <3>1, <3>2, <3>3
  <2>4. ASSUME NEW i \in 1 .. Len(u) + Len(v) PROVE f[i] = g[i]
    <3>1. f[i] = IF (u \o v)[i][2] = 0 THEN (u \o v)[i][1] ELSE "text"
      BY <2>1 DEF Seen
    <3>2. CASE i <= Len(u)
      <4>1. (u \o v)[i] = u[i] /\ g[i] = Seen(u)[i]
        BY <1>1, <3>2
      <4> QED
        BY <3>1, <3>2, <4>1 DEF Seen
    <3>3. CASE i > Len(u)
      <4>1. (u \o v)[i] = v[i - Len(u)] /\ g[i] = Seen(v)[i - Len(u)]
        BY <1>1, <3>3
      <4>2. i - Len(u) \in DOMAIN v
        BY <3>3
      <4> QED
        BY <3>1, <4>1, <4>2 DEF Seen
    <3>4. i <= Len(u) \/ i > Len(u)
      OBVIOUS
    <3> HIDE DEF f, g
    <3> QED
      BY <3>2, <3>3, <3>4
  <2> HIDE DEF f, g
  <2>5. f = g
    BY <2>2, <2>3, <2>4, SeqEqual
  <2> QED
    BY <2>5 DEF f, g
<1>3. IsInert(u) <=> Inert(Seen(u))
  <2>1. DOMAIN Seen(u) = 1 .. Len(Seen(u))
    BY <1>1
  <2> QED
    BY <2>1 DEF IsInert, Inert
<1> QED
  BY <1>1, <1>2, <1>3

\* One place: printed harmlessly, or escaped.
LEMMA FollowsPlace ==
    ASSUME NEW text \in Seq(STRING), NEW m \in 1 .. Len(text), NEW u \in Seq(Units),
           Follows(Seen(u), text, m - 1), NEW place,
           \/ place = Escaped(text[m])
           \/ place = Printed(text[m]) /\ text[m] \notin Unsafe /\ ~IsCommand(text, m)
    PROVE  u \o place \in Seq(Units) /\ Follows(Seen(u \o place), text, m)
<1>1. text[m] \in Symbols
  BY DEF Symbols
<1> DEFINE x == text[m]
           s == Seen(u)
<1>2. s \in Seq(Symbols) /\ Inert(s)
  BY SeenJoins DEF Follows
<1>3. CASE place = Printed(x) /\ x \notin Unsafe /\ ~IsCommand(text, m)
  <2>1. place \in Seq(Units) /\ Seen(place) = <<x>>
    BY <1>1, <1>3 DEF Printed, Units, Seen
  <2>2. u \o place \in Seq(Units) /\ Seen(u \o place) = s \o <<x>>
    BY <2>1, SeenJoins, ConcatProperties
  <2>3. s \o <<x>> = Append(s, x)
    <3> HIDE DEF s, x
    <3>1. x \in Symbols
      BY <1>1 DEF x
    <3> QED
      BY <1>2, <3>1
  <2>4. Follows(Append(s, x), text, m)
    BY <1>2, <1>3, FollowsPrinted
  <2> QED
    BY <2>2, <2>3, <2>4
<1>4. CASE place = Escaped(x)
  <2>1. place \in Seq(Units) /\ Seen(place) = <<"text", "text", "text", "text">>
    <3>1. place \in Seq(Units) /\ DOMAIN place = 1 .. 4 /\ \A i \in 1 .. 4 : place[i][2] = i
      BY <1>1, <1>4 DEF Escaped, Units
    <3>2. Seen(place) = [i \in 1 .. 4 |-> "text"]
      BY <3>1 DEF Seen
    <3> QED
      BY <3>1, <3>2
  <2> DEFINE s1 == Append(s, "text")
             s2 == Append(s1, "text")
             s3 == Append(s2, "text")
             s4 == Append(s3, "text")
  <2>2. s1 \in Seq(Symbols) /\ Inert(s1)
    BY <1>2, InertText
  <2>3. s2 \in Seq(Symbols) /\ Inert(s2)
    BY <2>2, InertText
  <2>4. s3 \in Seq(Symbols) /\ Inert(s3)
    BY <2>3, InertText
  <2>5. s4 \in Seq(Symbols) /\ Inert(s4) /\ s4[Len(s4)] = "text" /\ s4 # <<>>
    BY <2>4, InertText
  <2>6. s \o <<"text", "text", "text", "text">> = s4
    <3> HIDE DEF s
    <3>1. \A t \in Symbols : s \o <<t, t, t, t>> = Append(Append(Append(Append(s, t), t), t), t)
      BY <1>2, SMTT(30)
    <3>2. "text" \in Symbols
      BY TextIsSymbol
    <3> QED
      BY <3>1, <3>2
  <2>7. u \o place \in Seq(Units) /\ Seen(u \o place) = s4
    <3>1. Seen(u \o place) = Seen(u) \o Seen(place)
      BY <2>1, SeenJoins
    <3> HIDE DEF s4
    <3> QED
      BY <2>1, <2>6, <3>1, ConcatProperties
  <2>8. Follows(s4, text, m)
    <3> HIDE DEF s4
    <3>1. m \in Nat
      OBVIOUS
    <3> QED
      BY <2>5, <3>1, FollowsNew
  <2> QED
    BY <2>7, <2>8
<1> QED
  BY <1>3, <1>4

LEMMA LineFeedIsUnit == <<LineFeed, 0>> \in Units
<1>1. LineFeed \in Symbols /\ 0 \in 0 .. 4
  BY DEF Symbols
<1> QED
  BY <1>1 DEF Units

\* A report to which a text is added.
EndsLine(u) == u # <<>> => u[Len(u)] = <<LineFeed, 0>>

LEMMA RenderedIsInert ==
    ASSUME NEW text \in Seq(STRING), NEW u \in Seq(Units), IsInert(u), EndsLine(u)
    PROVE  /\ u \o Rendered(text) \in Seq(Units)
           /\ IsInert(u \o Rendered(text)) /\ EndsLine(u \o Rendered(text))
<1> DEFINE n == Len(text)
           At(m) == u \o Upto(text, m)
           P == {m \in 0 .. n : Follows(Seen(At(m)), text, m)}
<1>1. Upto(text, 0) = <<>> /\ n \in Nat /\ 0 \in 0 .. n /\ n \in 0 .. n
  BY UptoStep
<1>2. ASSUME NEW m \in 0 .. n PROVE At(m) \in Seq(Units) /\ Upto(text, m) \in Seq(Units)
  BY UptoStep, ConcatProperties
<1>3. 0 \in P
  <2>1. At(0) = u
    BY <1>1
  <2>2. Seen(u) \in Seq(Symbols) /\ Inert(Seen(u)) /\ Len(Seen(u)) = Len(u)
    BY SeenJoins
  <2>3. Seen(u) # <<>> => Seen(u)[Len(Seen(u))] = LineFeed
    <3>1. ASSUME Seen(u) # <<>> PROVE Seen(u)[Len(Seen(u))] = LineFeed
      <4>1. Len(u) # 0 /\ Len(u) \in DOMAIN u /\ u # <<>>
        BY <2>2, <3>1
      <4>2. u[Len(u)] = <<LineFeed, 0>>
        BY <4>1 DEF EndsLine
      <4> QED
        BY <2>2, <4>1, <4>2 DEF Seen
    <3> QED
      BY <3>1
  <2>4. Follows(Seen(u), text, 0)
    BY <2>2, <2>3, FollowsNew
  <2> HIDE DEF At
  <2> QED
    BY <1>1, <2>1, <2>4
<1>4. ASSUME NEW m \in 0 .. n, m \in P, m < n PROVE m + 1 \in P
  <2>1. PICK k \in 1 .. Len(text) : k = m + 1 /\ k - 1 = m
    BY <1>4
  <2>2. Place(text, k) \in Seq(Units) /\ Upto(text, k) = Upto(text, m) \o Place(text, k)
    <3>1. m \in 0 .. Len(text) - 1
      BY <1>4
    <3> QED
      BY <2>1, <3>1, UptoStep, PlaceType
  <2>3. At(k) = At(m) \o Place(text, k)
    <3>1. PICK a \in Seq(Units) : a = Upto(text, m)
      BY <1>2
    <3>2. PICK b \in Seq(Units) : b = Place(text, k)
      BY <2>2
    <3>3. (u \o a) \o b = u \o (a \o b)
      BY Associative, Zenon
    <3> QED
      BY <2>2, <3>1, <3>2, <3>3, Zenon
  <2>4. \/ Place(text, k) = Escaped(text[k])
        \/ Place(text, k) = Printed(text[k]) /\ text[k] \notin Unsafe /\ ~IsCommand(text, k)
    BY DEF Place
  <2>5. Follows(Seen(At(m)), text, k - 1)
    BY <1>4, <2>1
  <2>6. At(m) \in Seq(Units)
    BY <1>2
  <2> HIDE DEF At
  <2>7. Follows(Seen(At(m) \o Place(text, k)), text, k)
    BY <2>4, <2>5, <2>6, FollowsPlace
  <2>8. k \in P
    <3>1. k \in 0 .. n
      BY <2>1
    <3> HIDE DEF n
    <3> QED
      BY <2>3, <2>7, <3>1
  <2> QED
    BY <2>1, <2>8
<1>5. n \in P
  <2> HIDE DEF P, n
  <2> QED
    BY <1>1, <1>3, <1>4, Induction
<1>6. Inert(Seen(At(n)))
  BY <1>5 DEF Follows
<1>7. u \o Rendered(text) = At(n) \o Ending(text) /\ Ending(text) \in Seq(Units)
  <2>1. PICK a \in Seq(Units) : a = Upto(text, n)
    BY <1>1, <1>2
  <2>2. PICK b \in Seq(Units) : b = Ending(text)
    BY RenderedIs
  <2>3. (u \o a) \o b = u \o (a \o b)
    BY Associative, Zenon
  <2>4. Rendered(text) = Upto(text, n) \o Ending(text)
    BY RenderedIs
  <2> QED
    BY <2>1, <2>2, <2>3, <2>4, Zenon
<1>8. u \o Rendered(text) \in Seq(Units)
  BY RenderedIs, ConcatProperties
<1>9. CASE Ending(text) = <<>>
  <2>1. u \o Rendered(text) = At(n)
    <3>1. PICK a \in Seq(Units) : a = At(n)
      BY <1>1, <1>2
    <3>2. a \o <<>> = a
      BY Joining, Zenon
    <3> QED
      BY <1>7, <1>9, <3>1, <3>2, Zenon
  <2>2. IsInert(At(n))
    BY <1>1, <1>2, <1>6, SeenJoins
  <2>3. EndsLine(At(n))
    <3>1. CASE text = <<>>
      <4>1. n = 0 /\ At(n) = u
        BY <1>1, <3>1
      <4> QED
        BY <4>1
    <3>2. CASE text # <<>>
      <4>1. n \in 1 .. n /\ n - 1 \in 0 .. n - 1 /\ n - 1 + 1 = n /\ text[n] = LineFeed
        BY <1>9, <3>2 DEF Ending, Printed, Last
      <4>2. Place(text, n) = Printed(LineFeed)
        <5>1. text[n] \notin Unsafe
          BY <4>1, OutputAssumption
        <5>2. ~IsCommand(text, n)
          BY <4>1, CommandSymbol, OutputAssumption
        <5> QED
          BY <4>1, <5>1, <5>2 DEF Place
      <4>3. Upto(text, n) = Upto(text, n - 1) \o Printed(LineFeed)
        BY <4>1, <4>2, UptoStep
      <4>4. PICK a \in Seq(Units) : a = Upto(text, n - 1)
        <5>1. n - 1 \in 0 .. n
          BY <4>1
        <5> QED
          BY <1>2, <5>1
      <4>5. PICK b \in Units : b = <<LineFeed, 0>>
        BY LineFeedIsUnit
      <4>6. At(n) = u \o (a \o <<b>>)
        BY <4>3, <4>4, <4>5 DEF Printed
      <4>7. (u \o (a \o <<b>>))[Len(u \o (a \o <<b>>))] = b
        OBVIOUS
      <4> HIDE DEF At
      <4> QED
        BY <4>5, <4>6, <4>7 DEF EndsLine
    <3> QED
      BY <3>1, <3>2
  <2> HIDE DEF At
  <2> QED
    BY <1>8, <2>1, <2>2, <2>3
<1>10. CASE Ending(text) # <<>>
  <2>1. Ending(text) = <<<<LineFeed, 0>>>>
    BY <1>10 DEF Ending, Printed
  <2>2. PICK a \in Seq(Units) : a = At(n)
    BY <1>1, <1>2
  <2>3. PICK b \in Units : b = <<LineFeed, 0>>
    BY LineFeedIsUnit
  <2>4. u \o Rendered(text) = a \o <<b>>
    BY <1>7, <2>1, <2>2, <2>3
  <2>5. (a \o <<b>>)[Len(a \o <<b>>)] = b /\ <<b>> \in Seq(Units)
    OBVIOUS
  <2>6. Seen(a \o <<b>>) = Append(Seen(a), LineFeed)
    <3>1. Seen(<<b>>) = <<LineFeed>>
      BY <2>3 DEF Seen
    <3>2. Seen(a) \in Seq(Symbols) /\ Seen(a \o <<b>>) = Seen(a) \o Seen(<<b>>)
      BY <2>5, SeenJoins
    <3>3. LineFeed \in Symbols
      BY DEF Symbols
    <3>4. \A s \in Seq(Symbols), x \in Symbols : s \o <<x>> = Append(s, x)
      OBVIOUS
    <3> QED
      BY <3>1, <3>2, <3>3, <3>4
  <2>7. Inert(Append(Seen(a), LineFeed))
    <3>1. Seen(a) \in Seq(Symbols) /\ Inert(Seen(a)) /\ LineFeed \in Symbols
      BY <1>6, <2>2, SeenJoins DEF Symbols
    <3>2. LineFeed \notin Unsafe
      BY OutputAssumption
    <3>3. ~Completes(Seen(a), LineFeed)
      BY OutputAssumption DEF Completes
    <3> QED
      BY <3>1, <3>2, <3>3, InertStep
  <2>8. IsInert(a \o <<b>>)
    <3>1. PICK r \in Seq(Units) : r = a \o <<b>>
      BY <2>5, ConcatLaws
    <3>2. Inert(Seen(r))
      BY <2>6, <2>7, <3>1
    <3>3. IsInert(r)
      BY <3>2, SeenJoins
    <3> QED
      BY <3>1, <3>3
  <2> QED
    BY <1>8, <2>3, <2>4, <2>5, <2>8 DEF EndsLine
<1> QED
  BY <1>9, <1>10

\* All texts, one after the other: each begins after the end of a line.
LEMMA ReportInert ==
    ASSUME texts \in Seq(Seq(STRING))
    PROVE  IsInert(Report) /\ Report \in Seq(Units)
<1> DEFINE n == Len(texts)
           P == {m \in 0 .. n : Before(m) \in Seq(Units) /\ IsInert(Before(m)) /\ EndsLine(Before(m))}
<1>1. 0 \in P
  <2>1. Before(0) = <<>> /\ <<>> \in Seq(Units) /\ 0 \in 0 .. n
    BY BeforeStep
  <2>2. IsInert(<<>>) /\ EndsLine(<<>>)
    BY DEF IsInert, Seen, EndsLine
  <2> QED
    BY <2>1, <2>2
<1>2. ASSUME NEW m \in 0 .. n, m \in P, m < n PROVE m + 1 \in P
  <2>1. PICK k \in 1 .. n : k = m + 1 /\ k - 1 = m
    BY <1>2
  <2>2. texts[k] \in Seq(STRING) /\ Before(k) = Before(m) \o Rendered(texts[k])
    BY <2>1, BeforeStep
  <2>3. Before(k) \in Seq(Units) /\ IsInert(Before(k)) /\ EndsLine(Before(k))
    <3>1. PICK u \in Seq(Units) : u = Before(m) /\ IsInert(u) /\ EndsLine(u)
      BY <1>2
    <3> QED
      BY <2>2, <3>1, RenderedIsInert
  <2> QED
    BY <2>1, <2>3
<1>3. n \in P
  <2>1. n \in Nat /\ n \in 0 .. n
    OBVIOUS
  <2> HIDE DEF P, n
  <2> QED
    BY <1>1, <1>2, <2>1, Induction
<1> QED
  BY <1>3, BeforeStep

\* An error's text, on one line.
OneLine(u) == \A i \in 1 .. Len(u) : u[i] \notin {<<LineFeed, 0>>, <<Tab, 0>>}

OneLinePlace(text, m) ==
    IF IsCommand(text, m) THEN Escaped(text[m])
    ELSE IF text[m] \in Unsafe \union {LineFeed, Tab} THEN Escaped(text[m])
    ELSE Printed(text[m])

LEMMA OneLinePlaceIs ==
    ASSUME NEW text \in Seq(STRING), NEW m \in 1 .. Len(text)
    PROVE  /\ OneLinePlace(text, m) \in Seq(Units) /\ OneLine(OneLinePlace(text, m))
           /\ \/ OneLinePlace(text, m) = Escaped(text[m])
              \/ /\ OneLinePlace(text, m) = Printed(text[m])
                 /\ text[m] \notin Unsafe /\ ~IsCommand(text, m)
<1> DEFINE x == text[m]
           p == OneLinePlace(text, m)
<1>1. x \in Symbols
  BY DEF Symbols
<1>2. CASE p = Escaped(x)
  <2>1. Escaped(x) \in Seq(Units)
    BY <1>1 DEF Escaped, Units
  <2>2. OneLine(Escaped(x))
    <3>1. Len(Escaped(x)) = 4 /\ \A i \in 1 .. 4 : Escaped(x)[i] = <<x, i>>
      BY DEF Escaped
    <3>2. \A i \in 1 .. 4 : <<x, i>> # <<LineFeed, 0>> /\ <<x, i>> # <<Tab, 0>>
      OBVIOUS
    <3> QED
      BY <3>1, <3>2 DEF OneLine
  <2> QED
    BY <1>2, <2>1, <2>2
<1>3. CASE p # Escaped(x)
  <2>1. p = Printed(x) /\ x \notin Unsafe /\ x # LineFeed /\ x # Tab /\ ~IsCommand(text, m)
    BY <1>3 DEF OneLinePlace
  <2>2. Printed(x) \in Seq(Units)
    BY <1>1 DEF Printed, Units
  <2>3. OneLine(Printed(x))
    <3>1. Len(Printed(x)) = 1 /\ Printed(x)[1] = <<x, 0>>
      BY DEF Printed
    <3>2. \A i \in 1 .. 1 : i = 1
      OBVIOUS
    <3>3. <<x, 0>> # <<LineFeed, 0>> /\ <<x, 0>> # <<Tab, 0>>
      BY <2>1
    <3> QED
      BY <3>1, <3>2, <3>3 DEF OneLine
  <2> QED
    BY <2>1, <2>2, <2>3
<1> QED
  BY <1>2, <1>3

LEMMA OneLineJoins ==
    ASSUME NEW u \in Seq(Units), NEW v \in Seq(Units), OneLine(u), OneLine(v)
    PROVE  OneLine(u \o v)
<1>1. \A i \in 1 .. Len(u \o v) :
        \/ i \in 1 .. Len(u) /\ (u \o v)[i] = u[i]
        \/ i - Len(u) \in 1 .. Len(v) /\ (u \o v)[i] = v[i - Len(u)]
  OBVIOUS
<1> DEFINE w == u \o v
<1>2. \A i \in 1 .. Len(w) : \/ i \in 1 .. Len(u) /\ w[i] = u[i]
                             \/ i - Len(u) \in 1 .. Len(v) /\ w[i] = v[i - Len(u)]
  BY <1>1
<1> HIDE DEF w
<1>3. OneLine(w)
  BY <1>2 DEF OneLine
<1> QED
  BY <1>3 DEF w

\* The fold that Diagnostic is: its line follows the text, its flag is LineStart.
LEMMA DiagnosticIsInert ==
    ASSUME NEW text \in Seq(STRING)
    PROVE  /\ Diagnostic(text) \in Seq(Units)
           /\ IsInert(Diagnostic(text)) /\ OneLine(Diagnostic(text))
<1> DEFINE n == Len(text)
           V == [line : Seq(Units), whitespace : BOOLEAN]
           ids == [i \in DOMAIN text |-> i]
           base == [line |-> <<>>, whitespace |-> TRUE]
           Step1(acc, i) ==
                IF WorkflowCommand(text, i - 1, acc.whitespace)
                THEN [line |-> acc.line \o Escaped(text[i]), whitespace |-> FALSE]
                ELSE [line |-> acc.line \o
                         (IF text[i] \in Unsafe \union {LineFeed, Tab} THEN Escaped(text[i])
                          ELSE Printed(text[i])),
                      whitespace |-> NextLineWhitespace(acc.whitespace, text[i])]
           Body(f) == [s \in SUBSET (1 .. n) |->
                        IF s = {} THEN base ELSE Step1(f[s \ {Max(s)}], ids[Max(s)])]
           fold == CHOOSE f : f = Body(f)
           op == [x \in V \X (1 .. n) |-> Step1(x[1], x[2])]
<1>1. n \in Nat /\ DOMAIN text = 1 .. n /\ DOMAIN ids = 1 .. n /\ Len(ids) = n
      /\ \A m \in 1 .. n : ids[m] = m
  OBVIOUS
<1>2. Diagnostic(text) = fold[1 .. n].line
  BY <1>1 DEF Diagnostic, FoldLeft, MapThenFoldSet
<1>3. base \in V /\ op \in [V \X (1 .. n) -> V]
  <2>1. ASSUME NEW acc \in V, NEW i \in 1 .. n PROVE Step1(acc, i) \in V
    <3>1. PICK l \in Seq(Units) : l = acc.line
      OBVIOUS
    <3>2. Escaped(text[i]) \in Seq(Units) /\ Printed(text[i]) \in Seq(Units)
      <4>1. text[i] \in Symbols
        BY DEF Symbols
      <4> QED
        BY <4>1 DEF Escaped, Printed, Units
    <3>3. l \o Escaped(text[i]) \in Seq(Units) /\ l \o Printed(text[i]) \in Seq(Units)
      BY <3>2, ConcatLaws
    <3>4. NextLineWhitespace(acc.whitespace, text[i]) \in BOOLEAN
      BY DEF NextLineWhitespace
    <3> DEFINE e == l \o Escaped(text[i])
               p == l \o Printed(text[i])
               b == NextLineWhitespace(acc.whitespace, text[i])
    <3>5. \/ Step1(acc, i) = [line |-> e, whitespace |-> FALSE]
          \/ Step1(acc, i) = [line |-> e, whitespace |-> b]
          \/ Step1(acc, i) = [line |-> p, whitespace |-> b]
      BY <3>1
    <3>6. e \in Seq(Units) /\ p \in Seq(Units) /\ b \in BOOLEAN
      BY <3>3, <3>4
    <3>7. \A a \in Seq(Units), c \in BOOLEAN : [line |-> a, whitespace |-> c] \in V
      OBVIOUS
    <3> HIDE DEF e, p, b, Step1, V
    <3> QED
      BY <3>5, <3>6, <3>7
  <2>2. base \in V
    OBVIOUS
  <2> HIDE DEF Step1, V, base
  <2> QED
    BY <2>1, <2>2
<1>4. PICK it \in [SUBSET (1 .. n) -> V] : IsFold(it, n, base, op)
  <2> HIDE DEF op, V, base
  <2> QED
    BY <1>1, <1>3, FoldExists
<1>5. it = Body(it)
  <2>1. ASSUME NEW s \in SUBSET (1 .. n), s # {}
        PROVE  it[s] = Step1(it[s \ {Max(s)}], ids[Max(s)])
    <3>1. Max(s) \in 1 .. n /\ s \ {Max(s)} \in SUBSET (1 .. n) /\ ids[Max(s)] = Max(s)
      BY <1>1, <2>1, MaxIsGreatest
    <3>2. it[s] = op[<<it[s \ {Max(s)}], Max(s)>>]
      <4> HIDE DEF op, base, V
      <4> QED
        BY <1>4, <2>1 DEF IsFold
    <3>3. it[s \ {Max(s)}] \in V
      <4> HIDE DEF V, op, base
      <4> QED
        BY <3>1
    <3> DEFINE w == it[s \ {Max(s)}]
               m == Max(s)
    <3>4. op[<<w, m>>] = Step1(w, m)
      <4> HIDE DEF w, m, V, Step1
      <4>1. w \in V /\ m \in 1 .. n
        BY <3>1, <3>3 DEF w, m
      <4> QED
        BY <4>1
    <3> HIDE DEF Step1, op
    <3> QED
      BY <3>1, <3>2, <3>4
  <2>2. it[{}] = base
    BY <1>4 DEF IsFold
  <2> HIDE DEF Step1, base, V, op
  <2> QED
    BY <2>1, <2>2
<1>6. fold = Body(fold)
  <2> HIDE DEF Body
  <2> QED
    BY <1>5
<1>7. PICK F \in [0 .. n -> V] : Unfolds(F, fold, n, base, op)
  <2>1. FoldsIn(V, fold, n, base, op)
    <3>1. ASSUME NEW s \in SUBSET (1 .. n), s # {}, fold[s \ {Max(s)}] \in V
          PROVE  fold[s] = op[<<fold[s \ {Max(s)}], Max(s)>>]
      <4>1. Max(s) \in 1 .. n /\ ids[Max(s)] = Max(s)
        BY <1>1, <3>1, MaxIsGreatest
      <4> DEFINE w == fold[s \ {Max(s)}]
                 m == Max(s)
      <4>2. fold[s] = Step1(w, m)
        <5> HIDE DEF Step1, fold, base
        <5> QED
          BY <1>6, <3>1, <4>1
      <4>3. op[<<w, m>>] = Step1(w, m)
        <5>1. w \in V /\ m \in 1 .. n
          BY <3>1, <4>1
        <5> HIDE DEF w, m, V, fold, Step1
        <5> QED
          BY <5>1
      <4> QED
        BY <4>2, <4>3
    <3>2. fold[{}] = base
      <4> HIDE DEF Step1, fold, base
      <4> QED
        BY <1>6
    <3> HIDE DEF fold, op, base, V
    <3> QED
      BY <3>1, <3>2 DEF FoldsIn
  <2> HIDE DEF fold, op, n, V, base
  <2> QED
    BY <1>1, <1>3, <2>1, FoldPrefix
<1>8. ASSUME NEW m \in 1 .. n PROVE F[m - 1] \in V /\ F[m] = Step1(F[m - 1], m)
  <2>1. m - 1 \in 0 .. n
    BY <1>1
  <2>2. F[m - 1] \in V
    <3> HIDE DEF V, op, base, fold
    <3> QED
      BY <2>1
  <2>3. F[m] = op[<<F[m - 1], m>>]
    <3> HIDE DEF V, op, base, fold
    <3> QED
      BY <1>7 DEF Unfolds
  <2> DEFINE w == F[m - 1]
  <2>4. op[<<w, m>>] = Step1(w, m)
    <3>1. w \in V
      BY <2>2
    <3> HIDE DEF w, V, Step1
    <3> QED
      BY <3>1
  <2> QED
    BY <2>2, <2>3, <2>4
<1> DEFINE Good(m) == /\ F[m].line \in Seq(Units)
                      /\ F[m].whitespace = LineStart(text, m + 1)
                      /\ Follows(Seen(F[m].line), text, m) /\ OneLine(F[m].line)
           P == {m \in 0 .. n : Good(m)}
<1>9. 0 \in P
  <2>1. F[0] = base
    <3> HIDE DEF V, op, base, fold
    <3> QED
      BY <1>7 DEF Unfolds
  <2>2. F[0].line = <<>> /\ F[0].whitespace = TRUE
    BY <2>1
  <2>3. LineStart(text, 0 + 1) = TRUE
    BY LineStartStep DEF LineStart
  <2>4. Seen(<<>>) = <<>> /\ <<>> \in Seq(Symbols) /\ Inert(<<>>) /\ OneLine(<<>>) /\ <<>> \in Seq(Units)
    BY DEF Seen, Inert, OneLine
  <2>5. Follows(<<>>, text, 0)
    BY <2>4, FollowsNew
  <2>6. 0 \in 0 .. n
    BY <1>1
  <2>7. Good(0)
    <3> HIDE DEF V, op, base, fold
    <3> QED
      BY <2>2, <2>3, <2>4, <2>5
  <2> HIDE DEF Good
  <2> QED
    BY <2>6, <2>7
<1>10. ASSUME NEW m \in 0 .. n, m \in P, m < n PROVE m + 1 \in P
  <2>1. PICK k \in 1 .. n : k = m + 1 /\ k - 1 = m
    BY <1>10
  <2>2. PICK u \in Seq(Units) : u = F[m].line /\ Follows(Seen(u), text, m) /\ OneLine(u)
    BY <1>10
  <2>3. F[m].whitespace = LineStart(text, k)
    BY <1>10, <2>1
  <2>4. F[k] = Step1(F[m], k)
    BY <1>8, <2>1
  <2>5. WorkflowCommand(text, k - 1, F[m].whitespace) <=> IsCommand(text, k)
    <3>1. WorkflowCommand(text, m, LineStart(text, m + 1)) <=> IsCommand(text, m + 1)
      BY CommandAgrees
    <3> QED
      BY <2>1, <2>3, <3>1
  <2> HIDE DEF V, op, base, fold
  <2>6. F[k].line = u \o OneLinePlace(text, k)
        /\ F[k].whitespace = IF IsCommand(text, k) THEN FALSE
                             ELSE NextLineWhitespace(LineStart(text, k), text[k])
    <3> DEFINE e == u \o Escaped(text[k])
               q == u \o Printed(text[k])
               b == NextLineWhitespace(LineStart(text, k), text[k])
    <3>1. F[k] = IF IsCommand(text, k) THEN [line |-> e, whitespace |-> FALSE]
                 ELSE [line |-> IF text[k] \in Unsafe \union {LineFeed, Tab} THEN e ELSE q,
                       whitespace |-> b]
      BY <2>2, <2>3, <2>4, <2>5
    <3>2. u \o OneLinePlace(text, k)
            = IF IsCommand(text, k) \/ text[k] \in Unsafe \union {LineFeed, Tab} THEN e ELSE q
      BY DEF OneLinePlace
    <3> HIDE DEF e, q, Step1
    <3> QED
      BY <3>1, <3>2
  <2>7. F[k].whitespace = LineStart(text, k + 1)
    <3>1. LineStart(text, k + 1) <=> NextLineWhitespace(LineStart(text, k), text[k])
      <4>1. k \in Nat \ {0}
        OBVIOUS
      <4> QED
        BY <4>1, LineStartStep
    <3>2. LineStart(text, k + 1) \in BOOLEAN
          /\ NextLineWhitespace(LineStart(text, k), text[k]) \in BOOLEAN
      BY DEF LineStart, NextLineWhitespace
    <3>3. CASE IsCommand(text, k)
      <4>1. text[k] \in {Colon, Hash}
        BY <3>3, CommandSymbol
      <4>2. ~NextLineWhitespace(LineStart(text, k), text[k])
        BY <4>1, OutputAssumption DEF NextLineWhitespace
      <4> QED
        BY <2>6, <3>1, <3>2, <3>3, <4>2, Zenon
    <3>4. CASE ~IsCommand(text, k)
      BY <2>6, <3>1, <3>2, <3>4, Zenon
    <3> QED
      BY <3>3, <3>4
  <2>8. u \o OneLinePlace(text, k) \in Seq(Units)
        /\ Follows(Seen(u \o OneLinePlace(text, k)), text, k)
        /\ OneLine(u \o OneLinePlace(text, k))
    <3>1. Follows(Seen(u), text, k - 1)
      BY <2>1, <2>2
    <3>2. OneLinePlace(text, k) \in Seq(Units) /\ OneLine(OneLinePlace(text, k))
          /\ \/ OneLinePlace(text, k) = Escaped(text[k])
             \/ /\ OneLinePlace(text, k) = Printed(text[k])
                /\ text[k] \notin Unsafe /\ ~IsCommand(text, k)
      BY OneLinePlaceIs
    <3> QED
      BY <2>2, <3>1, <3>2, FollowsPlace, OneLineJoins
  <2>9. Good(k)
    BY <2>6, <2>7, <2>8
  <2>10. k \in 0 .. n
    BY <2>1
  <2> HIDE DEF Good, n
  <2> QED
    BY <2>1, <2>9, <2>10
<1>11. n \in P
  <2>1. n \in 0 .. n
    BY <1>1
  <2> HIDE DEF P, n
  <2> QED
    BY <1>1, <1>9, <1>10, <2>1, Induction
<1>12. fold[1 .. n] = F[n]
  <2> HIDE DEF V, op, base, fold
  <2> QED
    BY <1>7 DEF Unfolds
<1>13. Diagnostic(text) = F[n].line
  <2> HIDE DEF fold
  <2> QED
    BY <1>2, <1>12
<1>14. Good(n)
  BY <1>11
<1> HIDE DEF n
<1>15. Inert(Seen(F[n].line))
  BY <1>14 DEF Follows
<1> QED
  BY <1>13, <1>14, <1>15, SeenJoins

-----------------------------------------------------------------------------
(* Theorems *)

\* What has been produced is the rendering of what has been read, in every
\* reachable state.
THEOREM Invariance == Spec => []IInv
<1>1. Init => IInv
  BY InitInvariant
<1>2. IInv /\ [Next]_vars => IInv'
  BY StepInvariant
<1> QED
  BY <1>1, <1>2, PTL DEF Spec

\* The report is exact for all texts, buffers and writers (safeoutput.Write,
\* exactwrite.Bytes, writeControlOutput).
THEOREM ReportsAreExact == Spec => []ReportIsExact
<1>1. IInv => ReportIsExact
  <2> SUFFICES ASSUME IInv PROVE ReportIsExact
    OBVIOUS
  <2>1. Begins(Units, written, Report) /\ written \in Seq(Units)
    BY WrittenIsBeginning
  <2>2. IsPrefix(written, Report)
    <3>1. PICK u \in Seq(Units) : Report = written \o u
      BY <2>1 DEF Begins
    <3>2. Len(written) <= Len(written \o u)
          /\ SubSeq(written, 1, Len(written)) = SubSeq(written \o u, 1, Len(written))
      BY <2>1
    <3> QED
      BY <3>1, <3>2 DEF IsPrefix
  <2>3. ASSUME phase = "done" PROVE written = Report
    <3>1. Produced = Report /\ Produced = written \o (<<>> \o (<<>> \o <<>>))
      BY <2>3 DEF IInv, ProgressOK, Sofar, HeldOK, Produced
    <3> QED
      BY <2>1, <3>1
  <2> QED
    BY <2>2, <2>3 DEF ReportIsExact
<1> QED
  BY <1>1, Invariance, PTL

\* The runner finds no command in a report, complete or cut off, nor in an error's
\* text, and the latter is one line (safeoutput.Write, safeoutput.Diagnostic).
THEOREM ReportsAreInert == Spec => []ReportIsInert
<1>1. IInv => ReportIsInert
  <2> SUFFICES ASSUME IInv PROVE ReportIsInert
    OBVIOUS
  <2>1. texts \in Seq(Seq(STRING))
    BY TextType DEF IInv
  <2>2. IsInert(written)
    <3>1. written \in Seq(Units) /\ Begins(Units, written, Report)
      BY WrittenIsBeginning
    <3>2. PICK u \in Seq(Units) : Report = written \o u
      BY <3>1 DEF Begins
    <3>3. Inert(Seen(written) \o Seen(u))
      <4>1. Inert(Seen(Report))
        BY <2>1, ReportInert, SeenJoins
      <4>2. Seen(written \o u) = Seen(written) \o Seen(u)
        BY <3>1, SeenJoins
      <4> QED
        BY <3>2, <4>1, <4>2
    <3>4. Seen(written) \in Seq(Symbols) /\ Seen(u) \in Seq(Symbols)
      BY <3>1, SeenJoins
    <3>5. Inert(Seen(written))
      BY <3>3, <3>4, InertBeginning
    <3> QED
      BY <3>1, <3>5, SeenJoins
  <2>3. ASSUME NEW t \in DOMAIN texts
        PROVE  LET line == Diagnostic(texts[t]) IN
               IsInert(line) /\ \A i \in DOMAIN line : line[i] \notin {<<LineFeed, 0>>, <<Tab, 0>>}
    <3>1. texts[t] \in Seq(STRING)
      BY <2>1
    <3>2. PICK line \in Seq(Units) : line = Diagnostic(texts[t]) /\ IsInert(line) /\ OneLine(line)
      BY <3>1, DiagnosticIsInert
    <3>3. DOMAIN line = 1 .. Len(line)
      OBVIOUS
    <3> QED
      BY <3>2, <3>3 DEF OneLine
  <2> QED
    BY <2>2, <2>3 DEF ReportIsInert
<1> QED
  BY <1>1, Invariance, PTL
=============================================================================
