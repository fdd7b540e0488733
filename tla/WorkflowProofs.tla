--------------------------- MODULE WorkflowProofs ---------------------------
(***************************************************************************)
(* Proofs about workflows: the currency of the actions they pin, for       *)
(* listings of any tags in any order, scans of the map in any order, and   *)
(* any pins; and the reading of one file, for any documents and limits.    *)
(***************************************************************************)
EXTENDS ActionTagsProperties, DocumentProperties, FoldLemmas

-----------------------------------------------------------------------------
(* The inductive invariant, by concern *)

Phases == {"read", "resolve", "parse", "pin", "newest", "remaining", "current", "done", "rejected",
           "refused"}

TypeOK ==
    /\ phase \in Phases
    /\ listed \in SUBSET Lines
    /\ tags \in [Names -> [base : BOOLEAN, peeled : BOOLEAN, commit : Commits \union {"none"}]]
    /\ unseen \in SUBSET Names
    /\ excluded \in Names \union {None}
    /\ latest \in Names \union {None}

\* The map is the listing: no line came twice, and a name stands for the commit of
\* its peeled line, or of its base line while there is no peeled one.
MapOK ==
    /\ \A n \in Names :
        /\ tags[n].base <=> LinesOf(n, FALSE) # {}
        /\ tags[n].peeled <=> LinesOf(n, TRUE) # {}
    /\ \A line \in listed :
        line.peeled \/ ~tags[line.name].peeled => tags[line.name].commit = line.commit
    /\ \A l, m \in listed : l.name = m.name /\ l.peeled = m.peeled => l = m

\* A listing that was accepted has a tag, and no tag without its base line.
AcceptedOK ==
    phase \in {"pin", "newest", "remaining", "current", "refused"} =>
        Known # {} /\ \A n \in Known : tags[n].base

\* What the scan of the map has reached, without the version it leaves out: the
\* latest is the newest of it.
Eligible == {n \in Known : excluded = None \/ ~Same(n, excluded)}

ScanOK ==
    phase \in {"newest", "remaining"} =>
        /\ unseen \subseteq Known
        /\ latest = None => Eligible \subseteq unseen
        /\ latest # None => Newest(latest, Eligible \ unseen)

\* The pin whose tag is compared stands at its commit; the second scan leaves out
\* the newest tag, which the pin excludes.
PinOK ==
    /\ phase \in {"newest", "remaining"} =>
        pin.version \in Known /\ tags[pin.version].commit = pin.commit
    /\ phase = "newest" => excluded = None
    /\ phase = "remaining" =>
        /\ excluded # None /\ pin.excluded = excluded
        /\ Newest(excluded, Known)
        /\ ~Same(pin.version, excluded)

IInv == MapOK /\ AcceptedOK /\ ScanOK /\ PinOK /\ VerdictIsExact

-----------------------------------------------------------------------------
(* The order of versions *)

LEMMA ComponentType ==
    ASSUME NEW v \in Names, NEW i \in {1, 2, 3}
    PROVE  Component(v, i) \in Nat
BY ActionTagsAssumption DEF Component

\* The code's comparison is the order of versions.
LEMMA OlderPrecedes ==
    ASSUME NEW v, NEW w
    PROVE  Older(v, w) <=> Precedes(v, w)
<1>1. 1 .. 3 = {1, 2, 3} /\ 1 .. 1 - 1 = {} /\ 1 .. 2 - 1 = {1} /\ 1 .. 3 - 1 = {1, 2}
  OBVIOUS
<1> QED
  BY <1>1 DEF Older, Precedes

LEMMA SameEqual ==
    ASSUME NEW v \in Names, NEW w \in Names
    PROVE  Same(v, w) <=> Equal(v, w)
<1>1. 1 .. 3 = {1, 2, 3}
  OBVIOUS
<1>2. \A i \in {1, 2, 3} : Component(v, i) \in Nat /\ Component(w, i) \in Nat
  BY ComponentType
<1> QED
  BY <1>1, <1>2 DEF Same, Equal, Precedes

\* A total order: two names of one version that have as many components are one.
LEMMA AtMostTotal ==
    ASSUME NEW v \in Names, NEW w \in Names
    PROVE  AtMost(v, w) \/ AtMost(w, v)
<1>1. Len(v) \in Nat /\ Len(w) \in Nat
  BY ActionTagsAssumption
<1> QED
  BY <1>1 DEF AtMost, Equal

LEMMA AtMostTransitive ==
    ASSUME NEW u \in Names, NEW v \in Names, NEW w \in Names, AtMost(u, v), AtMost(v, w)
    PROVE  AtMost(u, w)
<1>1. Len(u) \in Nat /\ Len(v) \in Nat /\ Len(w) \in Nat
  BY ActionTagsAssumption
<1>2. \A i \in {1, 2, 3} :
        Component(u, i) \in Nat /\ Component(v, i) \in Nat /\ Component(w, i) \in Nat
  BY ComponentType
<1> QED
  BY <1>1, <1>2 DEF AtMost, Equal, Precedes

LEMMA AtMostAntisymmetric ==
    ASSUME NEW v \in Names, NEW w \in Names, AtMost(v, w), AtMost(w, v)
    PROVE  v = w
<1>1. v \in Seq(Nat) /\ w \in Seq(Nat) /\ Len(v) <= 3 /\ Len(w) <= 3
  BY ActionTagsAssumption
<1>2. \A i \in {1, 2, 3} : Component(v, i) \in Nat /\ Component(w, i) \in Nat
  BY ComponentType
<1>3. Equal(v, w)
  BY <1>2 DEF AtMost, Equal, Precedes
<1>4. Len(v) = Len(w)
  BY <1>1, <1>2, <1>3 DEF AtMost, Equal
<1>5. \A i \in {1, 2, 3} : Component(v, i) = Component(w, i)
  BY <1>2, <1>3 DEF Equal, Precedes
<1>6. \A i \in 1 .. Len(v) : v[i] = w[i]
  BY <1>1, <1>4, <1>5 DEF Component
<1> QED
  BY <1>1, <1>4, <1>6

\* There is one newest name.
LEMMA NewestUnique ==
    ASSUME NEW S \in SUBSET Names, NEW v, NEW w, Newest(v, S), Newest(w, S)
    PROVE  v = w
BY AtMostAntisymmetric DEF Newest

\* selectLatestActionTag takes the newer of two names.
LEMMA BetterIsNewer ==
    ASSUME NEW n \in Names, latest \in Names
    PROVE  Better(n) <=> ~AtMost(n, latest)
<1>1. Len(n) \in Nat /\ Len(latest) \in Nat /\ latest # None
  BY ActionTagsAssumption
<1>2. \A i \in {1, 2, 3} : Component(n, i) \in Nat /\ Component(latest, i) \in Nat
  BY ComponentType
<1>3. Better(n) <=> Precedes(latest, n) \/ (Equal(n, latest) /\ Len(n) > Len(latest))
  <2>1. Older(latest, n) <=> Precedes(latest, n)
    BY OlderPrecedes
  <2>2. Same(n, latest) <=> Equal(n, latest)
    BY SameEqual
  <2>3. Same(latest, n) <=> Equal(n, latest)
    BY SameEqual DEF Equal
  <2> QED
    BY <1>1, <2>1, <2>2, <2>3 DEF Better
<1> QED
  BY <1>1, <1>2, <1>3 DEF AtMost, Equal, Precedes

-----------------------------------------------------------------------------
(* The map and the listing *)

LEMMA KnownIsListed ==
    ASSUME TypeOK, MapOK
    PROVE  Known = Listed
<1>1. \A n \in Names : n \in Known <=> LinesOf(n, FALSE) # {} \/ LinesOf(n, TRUE) # {}
  BY DEF Known, MapOK
<1>2. \A n \in Names : n \in Listed <=> LinesOf(n, FALSE) # {} \/ LinesOf(n, TRUE) # {}
  BY DEF Listed, LinesOf, TypeOK, Lines
<1>3. Known \subseteq Names /\ Listed \subseteq Names
  BY DEF Known, Listed, TypeOK, Lines
<1> QED
  BY <1>1, <1>2, <1>3

\* What the listing says a name stands for is what the map holds.
LEMMA CommitOfKnown ==
    ASSUME TypeOK, MapOK, NEW n \in Known
    PROVE  CommitsOf(n) = {tags[n].commit}
<1>1. n \in Names /\ (LinesOf(n, FALSE) # {} \/ LinesOf(n, TRUE) # {})
  BY DEF Known, MapOK
<1> DEFINE p == LinesOf(n, TRUE) # {}
<1>2. p \in BOOLEAN /\ LinesOf(n, p) # {} /\ (p <=> tags[n].peeled)
  BY <1>1 DEF MapOK
<1>3. \A line \in LinesOf(n, p) : line.commit = tags[n].commit
  BY <1>2 DEF LinesOf, MapOK
<1> QED
  BY <1>2, <1>3 DEF CommitsOf

LEMMA NoCommitOfUnknown ==
    ASSUME TypeOK, MapOK, NEW n, n \notin Known
    PROVE  CommitsOf(n) = {}
<1>1. n \notin Listed
  BY KnownIsListed
<1> QED
  BY <1>1 DEF CommitsOf, Listed, LinesOf

\* The verdict in terms of the map.
LEMMA CurrentKnown ==
    ASSUME TypeOK, MapOK, NEW p
    PROVE  IsCurrent(p) <=>
             /\ p.version \in Known /\ tags[p.version].commit = p.commit
             /\ \/ p.excluded = None /\ Newest(p.version, Known)
                \/ /\ Newest(p.excluded, Known)
                   /\ Newest(p.version, {n \in Known : ~Equal(n, p.excluded)})
BY KnownIsListed, CommitOfKnown, NoCommitOfUnknown DEF IsCurrent

-----------------------------------------------------------------------------
(* The types *)

LEMMA TypeInit == Init => TypeOK
BY DEF Init, TypeOK, NoTags, NoTag, Phases

LEMMA TypeStep == TypeOK /\ [Next]_vars => TypeOK'
<1> SUFFICES ASSUME TypeOK, [Next]_vars PROVE TypeOK'
  OBVIOUS
<1>1. Known \subseteq Names
  BY DEF Known
<1>2. CASE EndContext \/ Finished \/ UNCHANGED vars
  BY <1>2 DEF EndContext, Finished, vars, scanVars, TypeOK
<1>3. CASE ReadDependencies \/ Resolve \/ MalformedLine \/ EndListing \/ NextPin \/ Finish
  BY <1>3 DEF ReadDependencies, Resolve, MalformedLine, EndListing, NextPin, Finish, scanVars, TypeOK,
              Phases
<1>4. ASSUME NEW line \in Lines, AddTag(line) PROVE TypeOK'
  <2>1. line.name \in Names
    BY DEF Lines
  <2>2. Merged(tags[line.name], line) \in [base : BOOLEAN, peeled : BOOLEAN, commit : Commits \union {"none"}]
    BY <2>1 DEF Merged, Lines, TypeOK
  <2> QED
    BY <1>4, <2>1, <2>2 DEF AddTag, scanVars, TypeOK, Phases
<1>5. ASSUME NEW p \in Pins, VerifyPin(p) PROVE TypeOK'
  BY <1>1, <1>5 DEF VerifyPin, Scan, TypeOK, Phases
<1>6. ASSUME NEW n \in Names, See(n) PROVE TypeOK'
  BY <1>6 DEF See, TypeOK
<1>7. CASE CompareNewest
  BY <1>1, <1>7 DEF CompareNewest, Conclude, Scan, scanVars, TypeOK, Phases
<1>8. CASE CompareRemaining
  BY <1>8 DEF CompareRemaining, Conclude, scanVars, TypeOK, Phases
<1>9. CASE NextRepository
  BY <1>9 DEF NextRepository, Scan, NoTags, NoTag, TypeOK, Phases
<1> QED
  BY <1>2, <1>3, <1>4, <1>5, <1>6, <1>7, <1>8, <1>9 DEF Next

-----------------------------------------------------------------------------
(* The invariant, step by step *)

LEMMA MapStep == TypeOK /\ MapOK /\ [Next]_vars => MapOK'
<1> SUFFICES ASSUME TypeOK, MapOK, [Next]_vars PROVE MapOK'
  OBVIOUS
<1>1. ASSUME UNCHANGED <<listed, tags>> PROVE MapOK'
  BY <1>1 DEF MapOK, LinesOf
<1>2. ASSUME NEW line \in Lines, AddTag(line) PROVE MapOK'
  <2>1. CASE Repeated(line)
    BY <1>1, <1>2, <2>1 DEF AddTag
  <2>2. CASE ~Repeated(line)
    <3>1. /\ listed' = listed \union {line}
          /\ tags' = [tags EXCEPT ![line.name] = Merged(tags[line.name], line)]
      BY <1>2, <2>2 DEF AddTag
    <3>2. line.name \in Names /\ line.peeled \in BOOLEAN /\ listed \subseteq Lines
      BY DEF Lines, TypeOK
    <3>3. LinesOf(line.name, line.peeled) = {}
      BY <2>2, <3>2 DEF Repeated, MapOK
    <3>4. /\ \A n \in Names : n # line.name => tags'[n] = tags[n]
          /\ tags'[line.name].base <=> tags[line.name].base \/ ~line.peeled
          /\ tags'[line.name].peeled <=> tags[line.name].peeled \/ line.peeled
          /\ tags'[line.name].commit =
               IF line.peeled \/ ~tags[line.name].peeled THEN line.commit ELSE tags[line.name].commit
      BY <3>1, <3>2 DEF Merged, TypeOK
    <3>5. ASSUME NEW n \in Names
          PROVE  /\ tags'[n].base <=> LinesOf(n, FALSE)' # {}
                 /\ tags'[n].peeled <=> LinesOf(n, TRUE)' # {}
      BY <3>1, <3>2, <3>4 DEF MapOK, LinesOf
    <3>6. ASSUME NEW l \in listed', l.peeled \/ ~tags'[l.name].peeled
          PROVE  tags'[l.name].commit = l.commit
      <4>1. CASE l = line
        BY <3>4, <3>6, <4>1
      <4>2. CASE l # line /\ l.name # line.name
        <5>1. l \in listed /\ l.name \in Names
          BY <3>1, <3>2, <4>2 DEF Lines
        <5> QED
          BY <3>4, <3>6, <4>2, <5>1 DEF MapOK
      <4>3. CASE l # line /\ l.name = line.name
        <5>1. l \in listed /\ l.peeled \in BOOLEAN /\ l.peeled # line.peeled
          BY <3>1, <3>2, <3>3, <4>3 DEF LinesOf, Lines
        <5>2. l.peeled /\ ~line.peeled
          BY <3>2, <3>4, <3>6, <4>3, <5>1
        <5>3. tags[l.name].peeled /\ tags[l.name].commit = l.commit
          BY <3>2, <4>3, <5>1, <5>2 DEF MapOK, LinesOf
        <5> QED
          BY <3>4, <4>3, <5>2, <5>3
      <4> QED
        BY <4>1, <4>2, <4>3
    <3>7. \A l, m \in listed' : l.name = m.name /\ l.peeled = m.peeled => l = m
      BY <3>1, <3>3 DEF MapOK, LinesOf
    <3> QED
      BY <3>5, <3>6, <3>7 DEF MapOK
  <2> QED
    BY <2>1, <2>2
<1>3. CASE NextRepository
  <2>1. listed' = {} /\ \A n \in Names : ~tags'[n].base /\ ~tags'[n].peeled
    BY <1>3 DEF NextRepository, NoTags, NoTag
  <2> QED
    BY <2>1 DEF MapOK, LinesOf
<1> QED
  BY <1>1, <1>2, <1>3
  DEF Next, EndContext, ReadDependencies, Resolve, MalformedLine, EndListing, VerifyPin, See,
      CompareNewest, CompareRemaining, NextPin, Finish, Finished, vars

LEMMA AcceptedStep == TypeOK /\ AcceptedOK /\ [Next]_vars => AcceptedOK'
<1> SUFFICES ASSUME TypeOK, AcceptedOK, [Next]_vars PROVE AcceptedOK'
  OBVIOUS
<1>1. ASSUME tags' = tags PROVE Known' = Known
  BY <1>1 DEF Known
<1>2. CASE EndListing
  BY <1>1, <1>2 DEF EndListing, AcceptedOK
<1>3. ASSUME NEW line \in Lines, AddTag(line) PROVE AcceptedOK'
  BY <1>3 DEF AddTag, AcceptedOK
<1>4. CASE NextRepository
  BY <1>4 DEF NextRepository, AcceptedOK
<1>5. CASE ReadDependencies \/ Resolve \/ MalformedLine
  BY <1>5 DEF ReadDependencies, Resolve, MalformedLine, AcceptedOK
<1>6. ASSUME NEW p \in Pins, VerifyPin(p) PROVE AcceptedOK'
  BY <1>1, <1>6 DEF VerifyPin, AcceptedOK
<1>7. ASSUME NEW n \in Names, See(n) PROVE AcceptedOK'
  BY <1>1, <1>7 DEF See, AcceptedOK
<1>8. CASE CompareNewest \/ CompareRemaining \/ NextPin \/ Finish
  BY <1>1, <1>8 DEF CompareNewest, CompareRemaining, Conclude, NextPin, Finish, AcceptedOK
<1>9. CASE EndContext \/ Finished \/ UNCHANGED vars
  BY <1>1, <1>9 DEF EndContext, Finished, vars, AcceptedOK
<1> QED
  BY <1>2, <1>3, <1>4, <1>5, <1>6, <1>7, <1>8, <1>9 DEF Next

\* One more name is reached; what is kept is the newest of those reached.
LEMMA SeeStep ==
    ASSUME TypeOK, ScanOK, NEW n \in Names, See(n)
    PROVE  ScanOK'
<1>1. /\ phase \in {"newest", "remaining"} /\ n \in unseen /\ unseen' = unseen \ {n}
      /\ latest' = IF ~(excluded # None /\ Same(n, excluded)) /\ Better(n) THEN n ELSE latest
      /\ UNCHANGED <<phase, tags, excluded>>
  BY DEF See
<1>2. /\ Known' = Known /\ Eligible' = Eligible
      /\ Eligible \subseteq Names /\ None \notin Names /\ n \in Known
  BY <1>1, ActionTagsAssumption DEF Eligible, Known, ScanOK
<1>3. CASE n \notin Eligible
  <2>1. latest' = latest
    BY <1>1, <1>2, <1>3 DEF Eligible
  <2>2. Eligible \ unseen' = Eligible \ unseen
    BY <1>1, <1>3
  <2>3. latest # None => Newest(latest', Eligible' \ unseen')
    BY <1>1, <1>2, <2>1, <2>2 DEF ScanOK
  <2> QED
    BY <1>1, <1>2, <1>3, <2>1, <2>3 DEF ScanOK, Newest
<1>4. CASE n \in Eligible
  <2>1. Eligible \ unseen' = (Eligible \ unseen) \union {n} /\ (Eligible \ unseen) \subseteq Names
    BY <1>1, <1>2, <1>4
  <2>2. latest' = IF Better(n) THEN n ELSE latest
    BY <1>1, <1>4 DEF Eligible
  <2>3. Newest(latest', Eligible \ unseen')
    <3>1. CASE latest = None
      <4>1. latest' = n /\ Eligible \ unseen' = {n}
        BY <1>1, <2>1, <2>2, <3>1 DEF Better, ScanOK
      <4> QED
        BY <4>1, AtMostTotal DEF Newest
    <3>2. CASE latest # None /\ AtMost(n, latest)
      <4>1. latest \in Names /\ latest' = latest
        BY <2>2, <3>2, BetterIsNewer DEF TypeOK
      <4>2. Newest(latest, Eligible \ unseen)
        BY <1>1, <3>2 DEF ScanOK
      <4> QED
        BY <2>1, <3>2, <4>1, <4>2 DEF Newest
    <3>3. CASE latest # None /\ ~AtMost(n, latest)
      <4>1. latest \in Names /\ latest' = n
        BY <2>2, <3>3, BetterIsNewer DEF TypeOK
      <4>2. AtMost(latest, n) /\ AtMost(n, n)
        BY <3>3, <4>1, AtMostTotal
      <4>3. \A m \in Eligible \ unseen : m \in Names /\ AtMost(m, latest)
        BY <1>1, <1>2, <3>3 DEF ScanOK, Newest
      <4>4. \A m \in Eligible \ unseen : AtMost(m, n)
        BY <4>1, <4>2, <4>3, AtMostTransitive
      <4> QED
        BY <2>1, <4>1, <4>2, <4>4 DEF Newest
    <3> QED
      BY <3>1, <3>2, <3>3
  <2>4. latest' \in Names
    BY <1>2, <2>1, <2>3 DEF Newest
  <2> QED
    BY <1>1, <1>2, <2>3, <2>4 DEF ScanOK, Newest
<1> QED
  BY <1>3, <1>4

LEMMA ScanStep == TypeOK /\ ScanOK /\ [Next]_vars => ScanOK'
<1> SUFFICES ASSUME TypeOK, ScanOK, [Next]_vars PROVE ScanOK'
  OBVIOUS
<1>1. ASSUME phase' \notin {"newest", "remaining"} PROVE ScanOK'
  BY <1>1 DEF ScanOK
<1>2. ASSUME UNCHANGED <<phase, tags, unseen, excluded, latest>> PROVE ScanOK'
  BY <1>2 DEF ScanOK, Eligible, Known, Newest
<1>3. ASSUME tags' = tags, unseen' = Known, latest' = None PROVE ScanOK'
  BY <1>3 DEF ScanOK, Eligible, Known
<1>4. ASSUME NEW p \in Pins, VerifyPin(p) PROVE ScanOK'
  BY <1>1, <1>3, <1>4 DEF VerifyPin, Scan
<1>5. CASE CompareNewest
  BY <1>1, <1>3, <1>5 DEF CompareNewest, Conclude, Scan
<1>6. ASSUME NEW n \in Names, See(n) PROVE ScanOK'
  BY <1>6, SeeStep
<1>7. ASSUME NEW line \in Lines, AddTag(line) PROVE ScanOK'
  BY <1>1, <1>7 DEF AddTag
<1>8. CASE ReadDependencies \/ Resolve \/ MalformedLine \/ EndListing \/ CompareRemaining
           \/ NextPin \/ NextRepository \/ Finish
  BY <1>1, <1>8
  DEF ReadDependencies, Resolve, MalformedLine, EndListing, CompareRemaining, Conclude, NextPin,
      NextRepository, Finish
<1>9. CASE EndContext \/ Finished \/ UNCHANGED vars
  BY <1>2, <1>9 DEF EndContext, Finished, vars, scanVars
<1> QED
  BY <1>4, <1>5, <1>6, <1>7, <1>8, <1>9 DEF Next

\* When everything is reached the scan has the newest of what it may take.
LEMMA Scanned ==
    ASSUME TypeOK, ScanOK, phase \in {"newest", "remaining"}, unseen = {}
    PROVE  /\ latest = None => Eligible = {}
           /\ latest # None => Newest(latest, Eligible)
<1>1. Eligible \ unseen = Eligible
  OBVIOUS
<1> QED
  BY <1>1 DEF ScanOK

\* With no version left out the scan has the newest tag of all.
LEMMA NewestScanned ==
    ASSUME TypeOK, AcceptedOK, ScanOK, PinOK, phase = "newest", unseen = {}
    PROVE  latest \in Names /\ Newest(latest, Known)
<1>1. Eligible = Known /\ Known # {} /\ Known \subseteq Names
  BY DEF Eligible, Known, PinOK, AcceptedOK
<1> QED
  BY <1>1, Scanned DEF Newest

LEMMA PinStep == TypeOK /\ AcceptedOK /\ ScanOK /\ PinOK /\ [Next]_vars => PinOK'
<1> SUFFICES ASSUME TypeOK, AcceptedOK, ScanOK, PinOK, [Next]_vars PROVE PinOK'
  OBVIOUS
<1>1. ASSUME phase' \notin {"newest", "remaining"} PROVE PinOK'
  BY <1>1 DEF PinOK
<1>2. ASSUME UNCHANGED <<phase, tags, pin, excluded>> PROVE PinOK'
  BY <1>2 DEF PinOK, Known, Newest
<1>3. ASSUME NEW p \in Pins, VerifyPin(p) PROVE PinOK'
  BY <1>3 DEF VerifyPin, Scan, PinOK, Known
<1>4. CASE CompareNewest
  <2>1. CASE phase' \notin {"newest", "remaining"}
    BY <1>1, <2>1
  <2>2. CASE phase' \in {"newest", "remaining"}
    <3>1. /\ phase = "newest" /\ unseen = {} /\ phase' = "remaining"
          /\ ~Same(pin.version, latest) /\ pin.excluded = latest /\ excluded' = latest
          /\ UNCHANGED <<tags, pin>>
      BY <1>4, <2>2 DEF CompareNewest, Conclude, Scan
    <3>2. latest \in Names /\ latest # None /\ Newest(latest, Known)
      BY <3>1, NewestScanned, ActionTagsAssumption
    <3>3. Known' = Known
      BY <3>1 DEF Known
    <3> QED
      BY <3>1, <3>2, <3>3 DEF PinOK, Newest
  <2> QED
    BY <2>1, <2>2
<1>5. ASSUME NEW n \in Names, See(n) PROVE PinOK'
  BY <1>2, <1>5 DEF See
<1>6. ASSUME NEW line \in Lines, AddTag(line) PROVE PinOK'
  BY <1>1, <1>6 DEF AddTag
<1>7. CASE ReadDependencies \/ Resolve \/ MalformedLine \/ EndListing \/ CompareRemaining
           \/ NextPin \/ NextRepository \/ Finish
  BY <1>1, <1>7
  DEF ReadDependencies, Resolve, MalformedLine, EndListing, CompareRemaining, Conclude, NextPin,
      NextRepository, Finish
<1>8. CASE EndContext \/ Finished \/ UNCHANGED vars
  BY <1>2, <1>8 DEF EndContext, Finished, vars, scanVars
<1> QED
  BY <1>3, <1>4, <1>5, <1>6, <1>7, <1>8 DEF Next

\* The comparison with the newest tag decides as the definition does.
LEMMA NewestDecides ==
    ASSUME TypeOK, MapOK, AcceptedOK, ScanOK, PinOK, CompareNewest
    PROVE  /\ phase' = "current" => IsCurrent(pin)
           /\ phase' = "refused" => ~IsCurrent(pin)
<1>1. phase = "newest" /\ unseen = {}
  BY DEF CompareNewest
<1>2. latest \in Names /\ Newest(latest, Known) /\ Known \subseteq Names /\ latest # None
  BY <1>1, NewestScanned, ActionTagsAssumption DEF Known
<1>3. \A n : Newest(n, Known) => n = latest
  BY <1>2, NewestUnique
<1>4. pin.version \in Names /\ pin.version \in Known /\ tags[pin.version].commit = pin.commit
  BY <1>1, <1>2 DEF PinOK
<1>5. IsCurrent(pin) <=>
        \/ pin.excluded = None /\ Newest(pin.version, Known)
        \/ /\ Newest(pin.excluded, Known)
           /\ Newest(pin.version, {n \in Known : ~Equal(n, pin.excluded)})
  BY <1>4, CurrentKnown
<1>6. CASE Same(pin.version, latest)
  <2>1. Equal(pin.version, latest)
    BY <1>2, <1>4, <1>6, SameEqual
  <2>2. phase' = IF pin.version = latest /\ pin.excluded = None THEN "current" ELSE "refused"
    BY <1>6 DEF CompareNewest, Conclude
  <2>3. ~(/\ Newest(pin.excluded, Known)
          /\ Newest(pin.version, {n \in Known : ~Equal(n, pin.excluded)}))
    BY <1>3, <2>1 DEF Newest
  <2> QED
    BY <1>2, <1>3, <1>5, <2>2, <2>3
<1>7. CASE ~Same(pin.version, latest)
  <2>1. pin.version # latest
    BY <1>7 DEF Same
  <2>2. CASE pin.excluded # latest
    <3>1. phase' = "refused"
      BY <1>7, <2>2 DEF CompareNewest, Conclude
    <3> QED
      BY <1>3, <1>5, <2>1, <2>2, <3>1
  <2>3. CASE pin.excluded = latest
    BY <1>7, <2>3 DEF CompareNewest
  <2> QED
    BY <2>2, <2>3
<1> QED
  BY <1>6, <1>7

\* So does the comparison with the newest of the rest.
LEMMA RemainingDecides ==
    ASSUME TypeOK, MapOK, AcceptedOK, ScanOK, PinOK, CompareRemaining
    PROVE  /\ phase' = "current" => IsCurrent(pin)
           /\ phase' = "refused" => ~IsCurrent(pin)
<1>1. /\ phase = "remaining" /\ unseen = {}
      /\ phase' = IF latest # None /\ pin.version = latest THEN "current" ELSE "refused"
  BY DEF CompareRemaining, Conclude
<1>2. /\ excluded # None /\ pin.excluded = excluded /\ Newest(excluded, Known)
      /\ pin.version \in Known /\ tags[pin.version].commit = pin.commit
  BY <1>1 DEF PinOK
<1>3. Eligible = {n \in Known : ~Equal(n, pin.excluded)} /\ Eligible \subseteq Names
  <2>1. Known \subseteq Names /\ excluded \in Names
    BY <1>2 DEF Known, Newest
  <2>2. \A n \in Known : Same(n, excluded) <=> Equal(n, excluded)
    BY <2>1, SameEqual
  <2> QED
    BY <1>2, <2>1, <2>2 DEF Eligible
<1>4. IsCurrent(pin) <=> Newest(pin.version, Eligible)
  BY <1>2, <1>3, CurrentKnown
<1>5. CASE latest = None
  BY <1>1, <1>4, <1>5, Scanned DEF Newest
<1>6. CASE latest # None
  <2>1. Newest(latest, Eligible)
    BY <1>1, <1>6, Scanned
  <2>2. Newest(pin.version, Eligible) <=> pin.version = latest
    BY <1>3, <2>1, NewestUnique
  <2> QED
    BY <1>1, <1>4, <1>6, <2>2
<1> QED
  BY <1>5, <1>6

LEMMA VerdictStep == TypeOK /\ IInv /\ [Next]_vars => VerdictIsExact'
<1> SUFFICES ASSUME TypeOK, IInv, [Next]_vars PROVE VerdictIsExact'
  OBVIOUS
<1>1. ASSUME phase' \notin {"current", "refused"} PROVE VerdictIsExact'
  BY <1>1 DEF VerdictIsExact
<1>3. ASSUME listed' = listed, pin' = pin PROVE IsCurrent(pin)' <=> IsCurrent(pin)
  BY <1>3 DEF IsCurrent, CommitsOf, LinesOf, Listed
<1>4. ASSUME NEW p \in Pins, VerifyPin(p) PROVE VerdictIsExact'
  <2>1. listed' = listed /\ pin' = p
    BY <1>4 DEF VerifyPin
  <2>2. IsCurrent(pin)' <=> IsCurrent(p)
    BY <2>1 DEF IsCurrent, CommitsOf, LinesOf, Listed
  <2>3. phase' # "current" /\ (phase' = "refused" => ~IsCurrent(p))
    BY <1>4, CurrentKnown DEF VerifyPin, IInv
  <2> QED
    BY <2>2, <2>3 DEF VerdictIsExact
<1>5. CASE CompareNewest
  <2>1. listed' = listed /\ pin' = pin
    BY <1>5 DEF CompareNewest, scanVars
  <2> QED
    BY <1>3, <1>5, <2>1, NewestDecides DEF VerdictIsExact, IInv
<1>6. CASE CompareRemaining
  <2>1. listed' = listed /\ pin' = pin
    BY <1>6 DEF CompareRemaining, scanVars
  <2> QED
    BY <1>3, <1>6, <2>1, RemainingDecides DEF VerdictIsExact, IInv
<1>7. CASE EndContext \/ Finished \/ UNCHANGED vars
  <2>1. UNCHANGED <<phase, listed, pin>>
    BY <1>7 DEF EndContext, Finished, vars, scanVars
  <2> QED
    BY <1>3, <2>1 DEF VerdictIsExact, IInv
<1>8. ASSUME NEW n \in Names, See(n) PROVE VerdictIsExact'
  BY <1>1, <1>8 DEF See
<1>9. ASSUME NEW line \in Lines, AddTag(line) PROVE VerdictIsExact'
  BY <1>1, <1>9 DEF AddTag
<1>10. CASE ReadDependencies \/ Resolve \/ MalformedLine \/ EndListing \/ NextPin
            \/ NextRepository \/ Finish
  BY <1>1, <1>10
  DEF ReadDependencies, Resolve, MalformedLine, EndListing, NextPin, NextRepository, Finish
<1> QED
  BY <1>4, <1>5, <1>6, <1>7, <1>8, <1>9, <1>10 DEF Next

-----------------------------------------------------------------------------
(* What holds of every execution *)

\* Types: what is listed and what a scan holds are stable tags, and the map has an
\* entry for each of them.
THEOREM TypeCorrect == Spec => []TypeOK
<1> QED
  BY TypeInit, TypeStep, PTL DEF Spec

\* The map follows the listing, and a scan the map, whatever order they come in.
THEOREM Invariance == Spec => []IInv
<1>1. Init => IInv
  <2> SUFFICES ASSUME Init PROVE IInv
    OBVIOUS
  <2>1. MapOK
    BY DEF Init, MapOK, LinesOf, NoTags, NoTag
  <2> QED
    BY <2>1 DEF Init, IInv, AcceptedOK, ScanOK, PinOK, VerdictIsExact
<1>2. TypeOK /\ IInv /\ [Next]_vars => IInv'
  BY MapStep, AcceptedStep, ScanStep, PinStep, VerdictStep DEF IInv
<1> QED
  BY <1>1, <1>2, TypeCorrect, PTL DEF Spec

\* An accepted listing is what the map says: each name has one base line and stands
\* for one commit, that of its peeled line if it has one.
THEOREM MapIsListing == Spec => []TagsAreListed
<1>1. TypeOK /\ IInv => TagsAreListed
  <2> SUFFICES ASSUME TypeOK, IInv, phase \in {"pin", "newest", "remaining", "current", "refused"}
               PROVE  Listed # {} /\ \A n \in Listed :
                        /\ Cardinality(LinesOf(n, FALSE)) = 1
                        /\ CommitsOf(n) = {tags[n].commit}
    BY DEF TagsAreListed
  <2>1. Known = Listed /\ Known # {} /\ \A n \in Known : n \in Names /\ tags[n].base
    BY KnownIsListed DEF IInv, AcceptedOK, Known
  <2>2. ASSUME NEW n \in Known PROVE Cardinality(LinesOf(n, FALSE)) = 1
    <3>1. PICK line \in LinesOf(n, FALSE) : TRUE
      BY <2>1, <2>2 DEF IInv, MapOK
    <3>2. LinesOf(n, FALSE) = {line}
      BY <3>1 DEF LinesOf, IInv, MapOK
    <3>3. Cardinality({line}) = 1
      BY FS_Singleton
    <3> QED
      BY <3>2, <3>3, Zenon
  <2> QED
    BY <2>1, <2>2, CommitOfKnown DEF IInv
<1> QED
  BY <1>1, TypeCorrect, Invariance, PTL

\* A pin is accepted exactly when it is current.
THEOREM VerdictsAreExact == Spec => []VerdictIsExact
<1>1. IInv => VerdictIsExact
  BY DEF IInv
<1> QED
  BY <1>1, Invariance, PTL

-----------------------------------------------------------------------------
(* The inductive invariant *)

Paths == Seq(Nat)
Pair == [node : DOMAIN document, path : Paths]
Frame == [node : DOMAIN document, path : Paths, at : Nat]

DocumentTypeOK ==
    /\ document \in Documents
    /\ stage \in {"check", "expand", "collect", "accepted", "rejected"}
    /\ refusal \in {"none", "check", "expand", "collect"}
    /\ DOMAIN tree \subseteq Paths /\ IsFiniteSet(DOMAIN tree)
    /\ Cardinality(DOMAIN tree) <= MaxNodes
    /\ \A p \in DOMAIN tree : Len(p) <= MaxDepth /\ tree[p].node \in DOMAIN document
    /\ pending \in Seq(Pair)
    /\ stack \in Seq(Frame)
    /\ active \subseteq DOMAIN document

\* The node n is what the document has at the place p, below what is in the tree.
Due(n, p) ==
    \/ p = <<>> /\ n = Root
    \/ \E q \in DOMAIN tree : \E i \in DOMAIN document[tree[q].node].content :
        p = Append(q, i) /\ n = document[tree[q].node].content[i]

\* While the document is checked, what is not in the tree yet is pending.
CheckedOK ==
    stage = "check" =>
        /\ \A p \in DOMAIN tree : \E n \in DOMAIN document :
            Due(n, p) /\ ValidNode(n) /\ tree[p] = Entry(n, document[n].line)
        /\ \A a \in ToSet(pending) : Due(a.node, a.path)
        /\ <<>> \in DOMAIN tree \/ [node |-> Root, path |-> <<>>] \in ToSet(pending)
        /\ \A p \in DOMAIN tree : \A i \in DOMAIN document[tree[p].node].content :
            \/ Append(p, i) \in DOMAIN tree
            \/ [node |-> document[tree[p].node].content[i], path |-> Append(p, i)] \in ToSet(pending)

Expanding == stage \in {"expand", "collect", "accepted"}

\* What is expanded has been checked, and a copy is what the document means.
CopiedOK ==
    Expanding =>
        /\ \A n \in DOMAIN document : ValidNode(n)
        /\ \A p \in DOMAIN tree : \E n \in DOMAIN document :
            Due(n, p) /\ tree[p] = Entry(Meant(n), document[n].line)

\* Nothing is being copied while the document is checked.
IdleOK == stage = "check" => stack = <<>> /\ active = {}

\* The alias of a frame is due at its path, the node of a frame is copied there.
Placed(k) ==
    /\ Is(stack[k].node, "alias") => Due(stack[k].node, stack[k].path)
    /\ ~Is(stack[k].node, "alias") =>
        stack[k].path \in DOMAIN tree /\ tree[stack[k].path].node = stack[k].node

\* The stack is a walk, without a node twice.
Walks(k) ==
    /\ stack[k].at \in 1 .. Len(Children(stack[k].node)) + 1
    /\ k < Len(stack) =>
        stack[k].at >= 2 /\ stack[k + 1].node = Children(stack[k].node)[stack[k].at - 1]

StackOK ==
    stage = "expand" =>
        /\ active = {stack[k].node : k \in DOMAIN stack}
        /\ \A j, k \in DOMAIN stack : stack[j].node = stack[k].node => j = k
        /\ \A k \in DOMAIN stack : Walks(k) /\ Placed(k)

\* What the frames have yet to copy.
AwaitsChild(k, n, p) ==
    /\ ~Is(stack[k].node, "alias")
    /\ \E i \in DOMAIN document[stack[k].node].content :
        i >= stack[k].at /\ p = Append(stack[k].path, i) /\ n = document[stack[k].node].content[i]
AwaitsItself(k, n, p) ==
    /\ Is(stack[k].node, "alias") /\ stack[k].at = 1
    /\ n = stack[k].node /\ p = stack[k].path
Awaited(n, p) ==
    \/ stack = <<>> /\ n = Root /\ p = <<>>
    \/ \E k \in DOMAIN stack : AwaitsChild(k, n, p) \/ AwaitsItself(k, n, p)

\* No frame awaits a place that is copied or that an alias takes.
Fresh(k) ==
    /\ Is(stack[k].node, "alias") /\ stack[k].at = 1 => stack[k].path \notin DOMAIN tree
    /\ ~Is(stack[k].node, "alias") =>
        \A i \in DOMAIN document[stack[k].node].content :
            i >= stack[k].at =>
                /\ Append(stack[k].path, i) \notin DOMAIN tree
                /\ \A j \in DOMAIN stack :
                    Is(stack[j].node, "alias") /\ stack[j].at = 1
                        => Append(stack[k].path, i) # stack[j].path

\* While the document is expanded, what is not in the tree yet is awaited, once.
AwaitedOK ==
    stage = "expand" =>
        /\ stack = <<>> => tree = NoTree
        /\ \A n, p : Due(n, p) => p \in DOMAIN tree \/ Awaited(n, p)
        /\ \A k \in DOMAIN stack : Fresh(k)

\* Once all is copied the tree is whole.
WholeOK == stage \in {"collect", "accepted"} => \A n, p : Due(n, p) => p \in DOMAIN tree

RefusedOK == refusal = "expand" => ~IsWithin

DocumentIInv ==
    DocumentTypeOK /\ CheckedOK /\ CopiedOK /\ IdleOK /\ StackOK /\ AwaitedOK /\ WholeOK /\ RefusedOK

-----------------------------------------------------------------------------
(* A recursive function on the first naturals is what it is written to be *)

\* f is defined from base on, each value from the one before.
Recurs(f, n, base, op) == f[0] = base /\ \A d \in 1 .. n : f[d] = op[f[d - 1]]

LEMMA RecursionExtends ==
    ASSUME NEW V, NEW base \in V, NEW op \in [V -> V], NEW m \in Nat,
           NEW f \in [0 .. m -> V], Recurs(f, m, base, op)
    PROVE  \E g \in [0 .. m + 1 -> V] : Recurs(g, m + 1, base, op)
<1> DEFINE g == [d \in 0 .. m + 1 |-> IF d = m + 1 THEN op[f[m]] ELSE f[d]]
<1>1. f[0] = base /\ \A d \in 1 .. m : f[d] = op[f[d - 1]]
  BY DEF Recurs
<1>2. g \in [0 .. m + 1 -> V] /\ g[0] = base
  BY <1>1
<1>3. ASSUME NEW d \in 1 .. m + 1 PROVE g[d] = op[g[d - 1]]
  <2>1. CASE d = m + 1
    BY <2>1
  <2>2. CASE d # m + 1
    BY <1>1, <2>2
  <2> QED
    BY <2>1, <2>2
<1> HIDE DEF g
<1>4. Recurs(g, m + 1, base, op)
  BY <1>2, <1>3 DEF Recurs
<1> QED
  BY <1>2, <1>4

LEMMA RecursionExists ==
    ASSUME NEW n \in Nat, NEW V, NEW base \in V, NEW op \in [V -> V]
    PROVE  \E f \in [0 .. n -> V] : Recurs(f, n, base, op)
<1> DEFINE P == {m \in 0 .. n : \E f \in [0 .. m -> V] : Recurs(f, m, base, op)}
<1>1. 0 \in P
  <2> DEFINE f == [d \in 0 .. 0 |-> base]
  <2>1. f \in [0 .. 0 -> V] /\ f[0] = base
    OBVIOUS
  <2> HIDE DEF f
  <2>2. Recurs(f, 0, base, op)
    BY <2>1 DEF Recurs
  <2> QED
    BY <2>1, <2>2
<1>2. ASSUME NEW m \in 0 .. n, m \in P, m < n PROVE m + 1 \in P
  <2>1. PICK f \in [0 .. m -> V] : Recurs(f, m, base, op)
    BY <1>2
  <2>2. m \in Nat /\ m + 1 \in 0 .. n
    BY <1>2
  <2>3. \E g \in [0 .. m + 1 -> V] : Recurs(g, m + 1, base, op)
    BY <2>1, <2>2, RecursionExtends
  <2> QED
    BY <2>2, <2>3
<1> HIDE DEF P
<1>3. n \in P
  BY <1>1, <1>2, Induction
<1> QED
  BY <1>3 DEF P

\* A set that holds the root, and the content of what it holds, holds what is written.
LEMMA WrittenIsLeast ==
    ASSUME NEW doc \in Documents, NEW S \in SUBSET DOMAIN doc, Root \in S,
           \A n \in S : \A i \in DOMAIN doc[n].content : doc[n].content[i] \in S
    PROVE  Written(doc) \subseteq S
<1> DEFINE size == Cardinality(DOMAIN doc)
           V == SUBSET DOMAIN doc
           base == {Root}
           op == [ns \in V |-> Below(doc, ns)]
           Body(f) == [d \in 0 .. size |-> IF d = 0 THEN base ELSE Below(doc, f[d - 1])]
           level == CHOOSE f : f = Body(f)
<1>1. size \in Nat
  BY DocumentAssumption, FS_CardinalityType
<1>2. op \in [V -> V] /\ base \in V
  <2>1. \A n \in DOMAIN doc : doc[n].content \in Seq(DOMAIN doc)
    BY DocumentAssumption
  <2>2. \A n \in DOMAIN doc : ToSet(doc[n].content) \subseteq DOMAIN doc
    BY <2>1 DEF ToSet
  <2>3. \A ns \in V : Below(doc, ns) \in V
    BY <2>2 DEF Below
  <2> QED
    BY <2>3
<1>3. \E f \in [0 .. size -> V] : Recurs(f, size, base, op)
  <2> HIDE DEF size, op, V, base
  <2> QED
    BY <1>1, <1>2, RecursionExists
<1>4. PICK f \in [0 .. size -> V] : f[0] = base /\ \A d \in 1 .. size : f[d] = op[f[d - 1]]
  BY <1>3 DEF Recurs
<1>5. f = Body(f)
  <2>1. ASSUME NEW d \in 0 .. size
        PROVE  f[d] = IF d = 0 THEN base ELSE Below(doc, f[d - 1])
    <3>1. CASE d = 0
      BY <1>4, <3>1
    <3>2. CASE d # 0
      <4>1. d \in 1 .. size /\ d - 1 \in 0 .. size
        BY <1>1, <3>2
      <4>2. f[d] = op[f[d - 1]] /\ f[d - 1] \in V
        BY <1>4, <4>1
      <4> QED
        BY <3>2, <4>2
    <3> QED
      BY <3>1, <3>2
  <2>2. f = [d \in 0 .. size |-> f[d]]
    BY <1>4
  <2> HIDE DEF size
  <2> QED
    BY <2>1, <2>2
<1>6. level = Body(level)
  <2> HIDE DEF Body
  <2> QED
    BY <1>5, Zenon
<1> HIDE DEF level
<1>7. \A d \in 0 .. size : level[d] = IF d = 0 THEN base ELSE Below(doc, level[d - 1])
  <2> HIDE DEF base, size
  <2> QED
    BY <1>6
<1>8. level[0] = base /\ \A d \in 1 .. size : level[d] = Below(doc, level[d - 1])
  <2>1. 0 \in 0 .. size /\ \A d \in 1 .. size : d \in 0 .. size /\ d # 0
    BY <1>1
  <2> HIDE DEF base, size
  <2> QED
    BY <1>7, <2>1
<1>9. \A d \in 0 .. size : level[d] \subseteq S
  <2> DEFINE P == {d \in 0 .. size : level[d] \subseteq S}
  <2>1. 0 \in P
    BY <1>1, <1>8
  <2>2. ASSUME NEW d \in 0 .. size, d \in P, d < size PROVE d + 1 \in P
    <3>1. d + 1 \in 1 .. size /\ d + 1 - 1 = d
      BY <1>1, <2>2
    <3>2. level[d + 1] = Below(doc, level[d])
      BY <1>8, <3>1
    <3>3. \A n \in level[d] : ToSet(doc[n].content) \subseteq S
      BY <2>2 DEF ToSet
    <3> QED
      BY <3>1, <3>2, <3>3 DEF Below
  <2> HIDE DEF P, size
  <2>3. \A d \in 0 .. size : d \in P
    BY <1>1, <2>1, <2>2, Induction
  <2> QED
    BY <2>3 DEF P
<1>10. Written(doc) = UNION {level[d] : d \in 0 .. size}
  BY DEF Written, level
<1> HIDE DEF size
<1> QED
  BY <1>9, <1>10

-----------------------------------------------------------------------------
(* Documents and places *)

LEMMA DocumentShape ==
    ASSUME document \in Documents
    PROVE  /\ Root \in DOMAIN document /\ Is(Root, "document")
           /\ \A n \in DOMAIN document :
                /\ document[n].content \in Seq(DOMAIN document)
                /\ document[n].kind \in {"scalar", "alias"} => document[n].content = <<>>
                /\ Is(n, "alias") =>
                    document[n].alias \in DOMAIN document /\ ~Is(document[n].alias, "alias")
                /\ Meant(n) \in DOMAIN document /\ ~Is(Meant(n), "alias")
                /\ Children(n) \in Seq(DOMAIN document)
                /\ ~Is(n, "alias") => Children(n) = document[n].content /\ Meant(n) = n
                /\ Is(n, "alias") => Len(Children(n)) = 1 /\ Children(n)[1] = Meant(n)
<1>1. Root \in DOMAIN document
  BY DocumentAssumption
<1>2. Is(Root, "document")
  BY DocumentAssumption DEF Is
<1>3. ASSUME NEW n \in DOMAIN document
      PROVE  /\ document[n].content \in Seq(DOMAIN document)
             /\ document[n].kind \in {"scalar", "alias"} => document[n].content = <<>>
             /\ Is(n, "alias") =>
                 document[n].alias \in DOMAIN document /\ ~Is(document[n].alias, "alias")
  BY DocumentAssumption DEF Is
<1>4. ASSUME NEW n \in DOMAIN document
      PROVE  /\ Meant(n) \in DOMAIN document /\ ~Is(Meant(n), "alias")
             /\ Children(n) \in Seq(DOMAIN document)
             /\ ~Is(n, "alias") => Children(n) = document[n].content /\ Meant(n) = n
             /\ Is(n, "alias") => Len(Children(n)) = 1 /\ Children(n)[1] = Meant(n)
  <2>1. CASE Is(n, "alias")
    <3>1. Children(n) = <<document[n].alias>> /\ Meant(n) = document[n].alias
      BY <2>1 DEF Children, Meant
    <3> QED
      BY <1>3, <2>1, <3>1
  <2>2. CASE ~Is(n, "alias")
    BY <1>3, <2>2 DEF Children, Meant
  <2> QED
    BY <2>1, <2>2
<1> QED
  BY <1>1, <1>2, <1>3, <1>4

\* A place below another says which.
LEMMA PlaceBelow ==
    ASSUME NEW p \in Paths, NEW i \in Nat
    PROVE  /\ Append(p, i) \in Paths /\ Append(p, i) # <<>>
           /\ Len(Append(p, i)) = Len(p) + 1 /\ Len(p) \in Nat
           /\ Append(p, i)[Len(p) + 1] = i
           /\ \A k \in 1 .. Len(p) : Append(p, i)[k] = p[k]
           /\ \A q \in Paths, j \in Nat : Append(p, i) = Append(q, j) => p = q /\ i = j
<1> USE DEF Paths
<1>1. /\ Append(p, i) \in Seq(Nat) /\ Len(Append(p, i)) = Len(p) + 1 /\ Len(p) \in Nat
      /\ Append(p, i)[Len(p) + 1] = i
      /\ \A k \in 1 .. Len(p) : Append(p, i)[k] = p[k]
  OBVIOUS
<1>2. Append(p, i) # <<>>
  BY <1>1
<1>3. ASSUME NEW q \in Seq(Nat), NEW j \in Nat, Append(p, i) = Append(q, j)
      PROVE  p = q /\ i = j
  <2>1. /\ Len(p) \in Nat /\ Len(q) \in Nat /\ Len(Append(p, i)) = Len(p) + 1
        /\ Len(Append(q, j)) = Len(q) + 1
        /\ Append(p, i)[Len(p) + 1] = i /\ Append(q, j)[Len(q) + 1] = j
        /\ \A k \in 1 .. Len(p) : Append(p, i)[k] = p[k]
        /\ \A k \in 1 .. Len(q) : Append(q, j)[k] = q[k]
    OBVIOUS
  <2>2. Len(p) = Len(q) /\ i = j
    BY <1>3, <2>1
  <2>3. \A k \in 1 .. Len(p) : p[k] = q[k]
    BY <1>3, <2>1, <2>2
  <2>4. p = [k \in 1 .. Len(p) |-> p[k]] /\ q = [k \in 1 .. Len(q) |-> q[k]]
    OBVIOUS
  <2> QED
    BY <2>2, <2>3, <2>4
<1> QED
  BY <1>1, <1>2, <1>3

LEMMA BelowOnce ==
    ASSUME NEW p \in Paths, NEW i \in Nat, NEW q \in Paths, NEW j \in Nat,
           Append(p, i) = Append(q, j)
    PROVE  p = q /\ i = j
<1>1. \A r \in Paths, k \in Nat : Append(p, i) = Append(r, k) => p = r /\ i = k
  BY PlaceBelow
<1> QED
  BY <1>1

LEMMA FrontAndLast ==
    ASSUME NEW S, NEW s \in Seq(S), s # <<>>
    PROVE  /\ Len(s) \in Nat /\ Len(s) >= 1 /\ DOMAIN s = 1 .. Len(s)
           /\ Last(s) = s[Len(s)] /\ Last(s) \in S
           /\ Front(s) \in Seq(S) /\ Len(Front(s)) = Len(s) - 1
           /\ \A i \in 1 .. Len(s) - 1 : Front(s)[i] = s[i]
<1>1. Len(s) \in Nat /\ Len(s) >= 1 /\ DOMAIN s = 1 .. Len(s) /\ s[Len(s)] \in S
  OBVIOUS
<1>2. Front(s) = SubSeq(s, 1, Len(s) - 1)
  BY DEF Front
<1>3. Last(s) = s[Len(s)]
  BY DEF Last
<1>4. Len(s) - 1 \in 0 .. Len(s)
  BY <1>1
<1>5. /\ SubSeq(s, 1, Len(s) - 1) \in Seq(S) /\ Len(SubSeq(s, 1, Len(s) - 1)) = Len(s) - 1
      /\ \A i \in 1 .. Len(s) - 1 : SubSeq(s, 1, Len(s) - 1)[i] = s[i]
  BY <1>4, PrefixOfLength
<1> QED
  BY <1>1, <1>2, <1>3, <1>5

\* A copy more.
LEMMA GrownShape ==
    ASSUME NEW p, NEW n, NEW line, tree' = Grown(p, n, line)
    PROVE  /\ DOMAIN tree' = DOMAIN tree \union {p}
           /\ tree'[p] = Entry(n, line) /\ tree'[p].node = n
           /\ \A q \in DOMAIN tree : q # p => tree'[q] = tree[q]
BY DEF Grown, Entry

LEMMA GrownMeans ==
    ASSUME DocumentTypeOK, NEW p \in Paths, NEW n \in DOMAIN document, NEW line,
           Len(p) <= MaxDepth, Cardinality(DOMAIN tree) < MaxNodes, document' = document,
           tree' = Grown(p, n, line)
    PROVE  /\ DOMAIN tree' \subseteq Paths /\ IsFiniteSet(DOMAIN tree')
           /\ Cardinality(DOMAIN tree') <= MaxNodes
           /\ \A q \in DOMAIN tree' : Len(q) <= MaxDepth /\ tree'[q].node \in DOMAIN document'
<1>1. /\ DOMAIN tree' = DOMAIN tree \union {p} /\ tree'[p].node = n
      /\ \A q \in DOMAIN tree : q # p => tree'[q] = tree[q]
  BY GrownShape
<1>3. DOMAIN tree \subseteq Paths /\ IsFiniteSet(DOMAIN tree) /\ MaxNodes \in Nat
  BY DocumentAssumption DEF DocumentTypeOK
<1>4. /\ IsFiniteSet(DOMAIN tree \union {p}) /\ Cardinality(DOMAIN tree) \in Nat
      /\ Cardinality(DOMAIN tree \union {p}) <= Cardinality(DOMAIN tree) + 1
      /\ Cardinality(DOMAIN tree \union {p}) \in Nat
  <2>1. IsFiniteSet(DOMAIN tree \union {p}) /\ Cardinality(DOMAIN tree \union {p}) =
          IF p \in DOMAIN tree THEN Cardinality(DOMAIN tree) ELSE Cardinality(DOMAIN tree) + 1
    BY <1>3, FS_AddElement
  <2>2. Cardinality(DOMAIN tree) \in Nat
    BY <1>3, FS_CardinalityType
  <2> QED
    BY <2>1, <2>2
<1>5. \A q \in DOMAIN tree : Len(q) <= MaxDepth /\ tree[q].node \in DOMAIN document
  BY DEF DocumentTypeOK
<1>6. Cardinality(DOMAIN tree') <= MaxNodes
  BY <1>1, <1>3, <1>4
<1> QED
  BY <1>1, <1>3, <1>4, <1>5, <1>6

\* A place is due for one node.
LEMMA DueType ==
    ASSUME DocumentTypeOK, NEW n, NEW p, Due(n, p)
    PROVE  n \in DOMAIN document /\ p \in Paths
<1>0. Root \in DOMAIN document /\ \A m \in DOMAIN document : document[m].content \in Seq(DOMAIN document)
  BY DocumentShape DEF DocumentTypeOK
<1>1. CASE p = <<>> /\ n = Root
  BY <1>0, <1>1 DEF Paths
<1>2. CASE \E q \in DOMAIN tree : \E i \in DOMAIN document[tree[q].node].content :
              p = Append(q, i) /\ n = document[tree[q].node].content[i]
  <2>1. PICK q \in DOMAIN tree : \E i \in DOMAIN document[tree[q].node].content :
              p = Append(q, i) /\ n = document[tree[q].node].content[i]
    BY <1>2
  <2>2. PICK i \in DOMAIN document[tree[q].node].content : p = Append(q, i) /\ n = document[tree[q].node].content[i]
    BY <2>1
  <2>3. q \in Paths /\ tree[q].node \in DOMAIN document
    BY DEF DocumentTypeOK
  <2>4. i \in Nat /\ n \in DOMAIN document
    BY <1>0, <2>2, <2>3
  <2> QED
    BY <2>2, <2>3, <2>4, PlaceBelow
<1> QED
  BY <1>1, <1>2 DEF Due

LEMMA DueOnce ==
    ASSUME DocumentTypeOK, NEW n, NEW m, NEW p, Due(n, p), Due(m, p)
    PROVE  n = m
<1>0. \A q \in DOMAIN tree : \A i \in DOMAIN document[tree[q].node].content : q \in Paths /\ i \in Nat
  <2>1. \A k \in DOMAIN document : document[k].content \in Seq(DOMAIN document)
    BY DocumentShape DEF DocumentTypeOK
  <2>2. \A q \in DOMAIN tree : q \in Paths /\ tree[q].node \in DOMAIN document
    BY DEF DocumentTypeOK
  <2> QED
    BY <2>1, <2>2
<1>1. CASE p = <<>>
  <2>1. \A q \in DOMAIN tree : \A i \in DOMAIN document[tree[q].node].content : p # Append(q, i)
    BY <1>0, <1>1, PlaceBelow
  <2> QED
    BY <2>1 DEF Due
<1>2. CASE p # <<>>
  <2>1. PICK q \in DOMAIN tree : \E i \in DOMAIN document[tree[q].node].content :
          p = Append(q, i) /\ n = document[tree[q].node].content[i]
    BY <1>2 DEF Due
  <2> PICK i \in DOMAIN document[tree[q].node].content : p = Append(q, i) /\ n = document[tree[q].node].content[i]
    BY <2>1
  <2>2. PICK r \in DOMAIN tree : \E j \in DOMAIN document[tree[r].node].content :
          p = Append(r, j) /\ m = document[tree[r].node].content[j]
    BY <1>2 DEF Due
  <2> PICK j \in DOMAIN document[tree[r].node].content : p = Append(r, j) /\ m = document[tree[r].node].content[j]
    BY <2>2
  <2>3. q = r /\ i = j
    <3>1. q \in Paths /\ i \in Nat /\ r \in Paths /\ j \in Nat
      BY <1>0
    <3>2. Append(q, i) = Append(r, j)
      OBVIOUS
    <3> QED
      BY <3>1, <3>2, BelowOnce
  <2> QED
    BY <2>3
<1> QED
  BY <1>1, <1>2

\* What is due stays due while the tree grows.
LEMMA DueStays ==
    ASSUME document' = document, NEW n, NEW p, Due(n, p),
           \A q \in DOMAIN tree : q \in DOMAIN tree' /\ tree'[q] = tree[q]
    PROVE  Due(n, p)'
BY DEF Due

LEMMA DueDepth ==
    ASSUME DocumentTypeOK, NEW n, NEW p, Due(n, p)
    PROVE  Len(p) \in Nat /\ Len(p) <= MaxDepth + 1
<1>1. MaxDepth \in Nat
  BY DocumentAssumption
<1>2. CASE p = <<>>
  BY <1>1, <1>2
<1>3. CASE p # <<>>
  <2>1. PICK q \in DOMAIN tree : \E i \in DOMAIN document[tree[q].node].content : p = Append(q, i)
    BY <1>3 DEF Due
  <2>2. PICK i \in DOMAIN document[tree[q].node].content : p = Append(q, i)
    BY <2>1
  <2>3. q \in Paths /\ Len(q) <= MaxDepth /\ tree[q].node \in DOMAIN document
    BY DEF DocumentTypeOK
  <2>4. document[tree[q].node].content \in Seq(DOMAIN document)
    BY <2>3, DocumentShape DEF DocumentTypeOK
  <2>5. i \in Nat
    BY <2>4
  <2>6. Len(Append(q, i)) = Len(q) + 1 /\ Len(q) \in Nat
    BY <2>3, <2>5, PlaceBelow
  <2> QED
    BY <1>1, <2>2, <2>3, <2>6
<1> QED
  BY <1>2, <1>3

\* A child is due below its parent.
LEMMA DueBelow ==
    ASSUME NEW q \in DOMAIN tree, NEW i \in DOMAIN document[tree[q].node].content, NEW n, NEW p,
           p = Append(q, i), n = document[tree[q].node].content[i]
    PROVE  Due(n, p)
BY DEF Due

LEMMA NodeStays ==
    ASSUME document' = document, NEW n
    PROVE  ValidNode(n)' <=> ValidNode(n)
BY DEF ValidNode, UniqueKeys, Is, Keys, Key

-----------------------------------------------------------------------------
(* What a step leaves alone *)

LEMMA DocumentConstant ==
    [DocumentNext]_documentVars => document' = document
BY DEF DocumentNext, documentVars, Check, EndCheck, EnterAlias, EnterNode, RefuseNode, Leave,
       Collect, DocumentFinished, Push, Refuse

\* The step that is checked and the one that refuses.
Pending == Last(pending)
Parts ==
    [i \in DOMAIN document[Pending.node].content |->
        [node |-> document[Pending.node].content[i], path |-> Append(Pending.path, i)]]
CheckNode ==
    /\ stage = "check" /\ pending # <<>>
    /\ HasRoom(Pending.path) /\ ValidNode(Pending.node)
    /\ tree' = Grown(Pending.path, Pending.node, document[Pending.node].line)
    /\ pending' = Front(pending) \o Parts
    /\ UNCHANGED <<document, stage, stack, active, references, refusal>>

LEMMA CheckCases == Check => CheckNode \/ Refuse
BY DEF Check, CheckNode, Pending, Parts

\* The last of what is pending, and what takes its place.
LEMMA PendingShape ==
    ASSUME DocumentTypeOK, pending # <<>>
    PROVE  /\ Pending \in Pair /\ Pending.node \in DOMAIN document /\ Pending.path \in Paths
           /\ Len(Pending.path) \in Nat
           /\ document[Pending.node].content \in Seq(DOMAIN document)
           /\ Front(pending) \in Seq(Pair)
           /\ Parts \in Seq(Pair) /\ Front(pending) \o Parts \in Seq(Pair)
           /\ \A a : a \in ToSet(pending) => a = Pending \/ a \in ToSet(Front(pending))
           /\ ToSet(Front(pending)) \subseteq ToSet(pending) /\ Pending \in ToSet(pending)
           /\ ToSet(Front(pending) \o Parts) = ToSet(Front(pending)) \union ToSet(Parts)
           /\ ToSet(Parts) = {[node |-> document[Pending.node].content[i], path |-> Append(Pending.path, i)] :
                                i \in DOMAIN document[Pending.node].content}
<1>1. /\ Len(pending) \in Nat /\ Len(pending) >= 1 /\ DOMAIN pending = 1 .. Len(pending)
      /\ Pending = pending[Len(pending)] /\ Pending \in Pair
      /\ Front(pending) \in Seq(Pair) /\ Len(Front(pending)) = Len(pending) - 1
      /\ \A i \in 1 .. Len(pending) - 1 : Front(pending)[i] = pending[i]
  BY FrontAndLast DEF DocumentTypeOK, Pending
<1> PICK it : it = Pending
  OBVIOUS
<1>2. it.node \in DOMAIN document /\ it.path \in Paths
  BY <1>1 DEF Pair
<1>3. Len(it.path) \in Nat
  BY <1>2 DEF Paths
<1>4. document[it.node].content \in Seq(DOMAIN document)
  BY <1>2, DocumentShape DEF DocumentTypeOK
<1> PICK content : content = document[it.node].content
  OBVIOUS
<1>5. Parts = [i \in DOMAIN content |-> [node |-> content[i], path |-> Append(it.path, i)]]
  BY DEF Parts
<1>6. Parts \in Seq(Pair)
  <2>1. DOMAIN content = 1 .. Len(content) /\ Len(content) \in Nat
    BY <1>4
  <2>2. \A i \in DOMAIN content : content[i] \in DOMAIN document /\ i \in Nat
    BY <1>4
  <2>3. \A i \in DOMAIN content : [node |-> content[i], path |-> Append(it.path, i)] \in Pair
    BY <1>2, <2>2, PlaceBelow DEF Pair
  <2> QED
    BY <1>5, <2>1, <2>3
<1>7. /\ Front(pending) \o Parts \in Seq(Pair)
      /\ ToSet(Front(pending) \o Parts) = ToSet(Front(pending)) \union ToSet(Parts)
  BY <1>1, <1>6, MembersOfConcat
<1>8. ToSet(Parts) = {[node |-> content[i], path |-> Append(it.path, i)] : i \in DOMAIN content}
  BY <1>5 DEF ToSet
<1>9. DOMAIN Front(pending) = 1 .. Len(pending) - 1
  BY <1>1
<1>10. /\ \A a : a \in ToSet(pending) => a = Pending \/ a \in ToSet(Front(pending))
       /\ ToSet(Front(pending)) \subseteq ToSet(pending) /\ Pending \in ToSet(pending)
  BY <1>1, <1>9 DEF ToSet
<1> QED
  BY <1>1, <1>2, <1>3, <1>4, <1>6, <1>7, <1>8, <1>10

-----------------------------------------------------------------------------
(* The node to copy next *)

LEMMA StackShape ==
    ASSUME DocumentTypeOK
    PROVE  /\ Len(stack) \in Nat /\ DOMAIN stack = 1 .. Len(stack)
           /\ \A k \in DOMAIN stack :
                /\ stack[k].node \in DOMAIN document /\ stack[k].path \in Paths
                /\ stack[k].at \in Nat
<1>1. stack \in Seq(Frame)
  BY DEF DocumentTypeOK
<1>2. Len(stack) \in Nat /\ DOMAIN stack = 1 .. Len(stack)
  BY <1>1
<1>3. \A k \in DOMAIN stack : stack[k] \in Frame
  BY <1>1
<1>4. \A f \in Frame : f.node \in DOMAIN document /\ f.path \in Paths /\ f.at \in Nat
  BY DEF Frame
<1> QED
  BY <1>2, <1>3, <1>4

LEMMA TopShape ==
    ASSUME DocumentTypeOK, stack # <<>>
    PROVE  /\ Top = stack[Len(stack)] /\ Len(stack) \in DOMAIN stack /\ Len(stack) >= 1
           /\ Top.node \in DOMAIN document /\ Top.path \in Paths /\ Top.at \in Nat
           /\ Front(stack) \in Seq(Frame) /\ Len(Front(stack)) = Len(stack) - 1
           /\ DOMAIN Front(stack) = 1 .. Len(stack) - 1
           /\ \A k \in 1 .. Len(stack) - 1 : Front(stack)[k] = stack[k]
<1>1. stack \in Seq(Frame)
  BY DEF DocumentTypeOK
<1>2. /\ Top = stack[Len(stack)] /\ Len(stack) >= 1
      /\ Front(stack) \in Seq(Frame) /\ Len(Front(stack)) = Len(stack) - 1
      /\ \A k \in 1 .. Len(stack) - 1 : Front(stack)[k] = stack[k]
  BY <1>1, FrontAndLast DEF Top
<1>3. DOMAIN Front(stack) = 1 .. Len(stack) - 1
  BY <1>2
<1>4. Len(stack) \in DOMAIN stack
  BY <1>1, <1>2
<1>5. Top.node \in DOMAIN document /\ Top.path \in Paths /\ Top.at \in Nat
  BY <1>2, <1>4, StackShape
<1> QED
  BY <1>2, <1>3, <1>4, <1>5

\* Where the node to copy is written: an alias of it, or the node itself.
Source == IF Begun /\ Is(Top.node, "alias") THEN Top.node ELSE Child

LEMMA ChildOfNone ==
    ASSUME DocumentTypeOK, stack = <<>>
    PROVE  /\ ~Begun /\ Child = Root /\ Place = <<>> /\ Source = Root
           /\ Line = document[Root].line /\ Advanced = stack
BY DEF Begun, Child, Place, Source, Line, Advanced

LEMMA ChildOfAlias ==
    ASSUME DocumentTypeOK, StackOK, stage = "expand", Unentered,
           stack # <<>>, Is(Top.node, "alias")
    PROVE  /\ Top.at = 1 /\ Child = Meant(Top.node) /\ ~Is(Child, "alias")
           /\ Child \in DOMAIN document
           /\ Place = Top.path /\ Source = Top.node /\ Line = document[Top.node].line
<1>1. Top = stack[Len(stack)] /\ Len(stack) \in DOMAIN stack /\ Top.node \in DOMAIN document
  BY TopShape
<1>2. Len(Children(Top.node)) = 1 /\ Children(Top.node)[1] = Meant(Top.node)
      /\ Meant(Top.node) \in DOMAIN document /\ ~Is(Meant(Top.node), "alias")
  BY <1>1, DocumentShape DEF DocumentTypeOK
<1>3. Top.at \in 1 .. Len(Children(Top.node)) + 1
  BY <1>1 DEF StackOK, Walks
<1>4. Top.at <= Len(Children(Top.node))
  BY DEF Unentered, Begun
<1>5. Top.at = 1
  BY <1>2, <1>3, <1>4
<1>6. Child = Children(Top.node)[Top.at] /\ Place = Top.path /\ Source = Top.node
      /\ Line = document[Top.node].line
  BY DEF Child, Begun, Place, Source, Line
<1> QED
  BY <1>2, <1>5, <1>6

LEMMA ChildOfNode ==
    ASSUME DocumentTypeOK, StackOK, stage = "expand", Unentered,
           stack # <<>>, ~Is(Top.node, "alias")
    PROVE  /\ Top.at \in DOMAIN document[Top.node].content /\ Top.at \in Nat
           /\ Child = document[Top.node].content[Top.at] /\ Child \in DOMAIN document
           /\ Place = Append(Top.path, Top.at) /\ Source = Child /\ Line = document[Child].line
<1>1. Top = stack[Len(stack)] /\ Len(stack) \in DOMAIN stack /\ Top.node \in DOMAIN document
  BY TopShape
<1>2. Children(Top.node) = document[Top.node].content /\ document[Top.node].content \in Seq(DOMAIN document)
  BY <1>1, DocumentShape DEF DocumentTypeOK
<1>3. Top.at \in 1 .. Len(Children(Top.node)) + 1
  BY <1>1 DEF StackOK, Walks
<1>4. Top.at <= Len(Children(Top.node))
  BY DEF Unentered, Begun
<1>5. Top.at \in DOMAIN document[Top.node].content /\ Top.at \in Nat
  BY <1>2, <1>3, <1>4
<1>6. Child = Children(Top.node)[Top.at] /\ Place = Append(Top.path, Top.at) /\ Source = Child
      /\ Line = document[Child].line
  BY DEF Child, Begun, Place, Source, Line
<1> QED
  BY <1>2, <1>5, <1>6

LEMMA ChildShape ==
    ASSUME DocumentTypeOK, CopiedOK, StackOK, AwaitedOK, stage = "expand", Unentered
    PROVE  /\ Child \in DOMAIN document /\ Source \in DOMAIN document /\ Place \in Paths
           /\ Due(Source, Place) /\ Place \notin DOMAIN tree
           /\ Line = document[Source].line
           /\ Is(Child, "alias") \/ Meant(Source) = Child
           /\ ~Is(Child, "alias") \/ Source = Child
           /\ Len(Place) \in Nat /\ Len(Place) <= MaxDepth + 1
<1>0. /\ Root \in DOMAIN document /\ \A n \in DOMAIN document : ~Is(n, "alias") => Meant(n) = n
      /\ MaxDepth \in Nat
  BY DocumentShape, DocumentAssumption DEF DocumentTypeOK
<1>1. CASE stack = <<>>
  <2>1. Child = Root /\ Place = <<>> /\ Source = Root /\ Line = document[Root].line /\ ~Begun
    BY <1>1, ChildOfNone
  <2>2. tree = NoTree
    BY <2>1 DEF Unentered
  <2>3. DOMAIN tree = {}
    BY <2>2 DEF NoTree
  <2> QED
    BY <1>0, <2>1, <2>3 DEF Due, Paths
<1>2. CASE stack # <<>> /\ Is(Top.node, "alias")
  <2>1. /\ Top.at = 1 /\ Child = Meant(Top.node) /\ ~Is(Child, "alias") /\ Child \in DOMAIN document
        /\ Place = Top.path /\ Source = Top.node /\ Line = document[Top.node].line
    BY <1>2, ChildOfAlias
  <2>2. Top = stack[Len(stack)] /\ Len(stack) \in DOMAIN stack /\ Top.node \in DOMAIN document
        /\ Top.path \in Paths
    BY <1>2, TopShape
  <2>3. Due(Top.node, Top.path)
    BY <1>2, <2>2 DEF StackOK, Placed
  <2>4. Top.path \notin DOMAIN tree
    BY <1>2, <2>1, <2>2 DEF AwaitedOK, Fresh
  <2>5. Len(Top.path) \in Nat /\ Len(Top.path) <= MaxDepth + 1
    BY <2>2, <2>3, DueDepth
  <2> QED
    BY <1>0, <2>1, <2>2, <2>3, <2>4, <2>5
<1>3. CASE stack # <<>> /\ ~Is(Top.node, "alias")
  <2>1. /\ Top.at \in DOMAIN document[Top.node].content /\ Top.at \in Nat
        /\ Child = document[Top.node].content[Top.at] /\ Child \in DOMAIN document
        /\ Place = Append(Top.path, Top.at) /\ Source = Child /\ Line = document[Child].line
    BY <1>3, ChildOfNode
  <2>2. Top = stack[Len(stack)] /\ Len(stack) \in DOMAIN stack /\ Top.node \in DOMAIN document
        /\ Top.path \in Paths
    BY <1>3, TopShape
  <2>3. Top.path \in DOMAIN tree /\ tree[Top.path].node = Top.node
    BY <1>3, <2>2 DEF StackOK, Placed
  <2>4. Due(Child, Place)
    <3>1. /\ Top.path \in DOMAIN tree /\ Top.at \in DOMAIN document[tree[Top.path].node].content
          /\ Child = document[tree[Top.path].node].content[Top.at]
      BY <2>1, <2>3
    <3> QED
      BY <2>1, <3>1, DueBelow
  <2>5. Place \notin DOMAIN tree
    <3> PICK k \in DOMAIN stack : k = Len(stack) /\ stack[k] = Top
      BY <2>2
    <3>1. \A i \in DOMAIN document[stack[k].node].content :
            i >= stack[k].at => Append(stack[k].path, i) \notin DOMAIN tree
      BY <1>3 DEF AwaitedOK, Fresh
    <3>2. Top.at >= Top.at
      BY <2>1
    <3> QED
      BY <2>1, <3>1, <3>2
  <2>6. Place \in Paths
    BY <2>1, <2>2, PlaceBelow
  <2>7. Len(Place) \in Nat /\ Len(Place) <= MaxDepth + 1
    BY <2>4, DueDepth
  <2> QED
    BY <1>0, <2>1, <2>4, <2>5, <2>6, <2>7
<1> QED
  BY <1>1, <1>2, <1>3

-----------------------------------------------------------------------------
(* The stack, step by step *)

LEMMA PushMeans ==
    ASSUME DocumentTypeOK, Push, Child \in DOMAIN document, Place \in Paths
    PROVE  /\ stack' \in Seq(Frame) /\ Len(stack') = Len(stack) + 1
           /\ DOMAIN stack' = 1 .. Len(stack) + 1
           /\ stack'[Len(stack) + 1] = [node |-> Child, path |-> Place, at |-> 1]
           /\ \A k \in DOMAIN stack :
                /\ stack'[k].node = stack[k].node /\ stack'[k].path = stack[k].path
                /\ stack'[k].at = IF k = Len(stack) THEN stack[k].at + 1 ELSE stack[k].at
           /\ active' = active \union {Child}
<1> PICK new : new = [node |-> Child, path |-> Place, at |-> 1]
  OBVIOUS
<1>1. stack \in Seq(Frame) /\ Len(stack) \in Nat /\ DOMAIN stack = 1 .. Len(stack)
  BY StackShape DEF DocumentTypeOK
<1>2. new \in Frame
  BY DEF Frame
<1>3. stack' = Append(Advanced, new) /\ active' = active \union {Child}
  BY DEF Push
<1>4. /\ Advanced \in Seq(Frame) /\ Len(Advanced) = Len(stack)
      /\ \A k \in DOMAIN stack :
            /\ Advanced[k].node = stack[k].node /\ Advanced[k].path = stack[k].path
            /\ Advanced[k].at = IF k = Len(stack) THEN stack[k].at + 1 ELSE stack[k].at
  <2>1. CASE stack = <<>>
    <3>1. Advanced = stack
      BY <2>1, ChildOfNone
    <3> QED
      BY <1>1, <2>1, <3>1
  <2>2. CASE stack # <<>>
    <3> DEFINE n == Len(stack)
               more == [stack EXCEPT ![n].at = @ + 1]
    <3>1. Advanced = more
      BY <2>2 DEF Advanced, Begun
    <3>2. n \in DOMAIN stack /\ \A k \in DOMAIN stack : stack[k] \in Frame
      BY <1>1, <2>2
    <3>3. ASSUME NEW k \in DOMAIN stack
          PROVE  /\ more[k].node = stack[k].node /\ more[k].path = stack[k].path
                 /\ more[k].at = IF k = n THEN stack[k].at + 1 ELSE stack[k].at
                 /\ more[k] \in Frame
      <4>1. CASE k = n
        <5>1. more[k] = [stack[k] EXCEPT !.at = @ + 1]
          BY <1>1, <3>2, <4>1
        <5> PICK f \in Frame : f = stack[k]
          BY <3>2
        <5>2. more[k] = [node |-> f.node, path |-> f.path, at |-> f.at + 1]
          BY <5>1 DEF Frame
        <5>3. f.node \in DOMAIN document /\ f.path \in Paths /\ f.at + 1 \in Nat
          BY DEF Frame
        <5> QED
          BY <4>1, <5>2, <5>3 DEF Frame
      <4>2. CASE k # n
        BY <1>1, <3>2, <4>2
      <4> QED
        BY <4>1, <4>2
    <3>4. more \in Seq(Frame) /\ Len(more) = Len(stack)
      <4>1. DOMAIN more = 1 .. Len(stack) /\ more = [k \in DOMAIN stack |-> more[k]]
        BY <1>1
      <4> HIDE DEF more
      <4> QED
        BY <1>1, <3>3, <4>1
    <3> HIDE DEF more
    <3> QED
      BY <3>1, <3>3, <3>4
  <2> QED
    BY <2>1, <2>2
<1>5. /\ stack' \in Seq(Frame) /\ Len(stack') = Len(stack) + 1
      /\ DOMAIN stack' = 1 .. Len(stack) + 1 /\ stack'[Len(stack) + 1] = new
      /\ \A k \in 1 .. Len(stack) : stack'[k] = Advanced[k]
  BY <1>1, <1>2, <1>3, <1>4
<1> QED
  BY <1>1, <1>3, <1>4, <1>5

LEMMA LeaveMeans ==
    ASSUME DocumentTypeOK, Leave
    PROVE  /\ stack # <<>> /\ Len(stack) \in Nat /\ Len(stack) >= 1
           /\ Top = stack[Len(stack)] /\ Len(stack) \in DOMAIN stack
           /\ stack' \in Seq(Frame) /\ Len(stack') = Len(stack) - 1
           /\ DOMAIN stack' = 1 .. Len(stack) - 1
           /\ \A k \in 1 .. Len(stack) - 1 : k \in DOMAIN stack /\ stack'[k] = stack[k]
           /\ active' = active \ {Top.node}
           /\ Top.at > Len(Children(Top.node))
           /\ stage = "expand" /\ stage' = IF Len(stack) = 1 THEN "collect" ELSE "expand"
           /\ UNCHANGED <<document, pending, tree, references, refusal>>
<1>1. stack # <<>> /\ ~Unentered /\ stack' = Front(stack)
  BY DEF Leave, Begun
<1>2. Top.at > Len(Children(Top.node))
  <2>1. ~(Top.at <= Len(Children(Top.node)))
    BY <1>1 DEF Unentered, Begun
  <2>2. Top.at \in Nat /\ Top.node \in DOMAIN document
    BY <1>1, TopShape
  <2>3. Children(Top.node) \in Seq(DOMAIN document)
    BY <2>2, DocumentShape DEF DocumentTypeOK
  <2>4. Len(Children(Top.node)) \in Nat
    BY <2>3
  <2> QED
    BY <2>1, <2>2, <2>4
<1>3. Len(stack) \in Nat /\ DOMAIN stack = 1 .. Len(stack)
  BY StackShape
<1>4. /\ Top = stack[Len(stack)] /\ Len(stack) \in DOMAIN stack
      /\ stack' \in Seq(Frame) /\ Len(stack') = Len(stack) - 1
      /\ DOMAIN stack' = 1 .. Len(stack) - 1
      /\ \A k \in 1 .. Len(stack) - 1 : stack'[k] = stack[k]
  <2>1. /\ Top = stack[Len(stack)] /\ Len(stack) \in DOMAIN stack
        /\ Front(stack) \in Seq(Frame) /\ Len(Front(stack)) = Len(stack) - 1
        /\ DOMAIN Front(stack) = 1 .. Len(stack) - 1
        /\ \A k \in 1 .. Len(stack) - 1 : Front(stack)[k] = stack[k]
    BY <1>1, TopShape
  <2> QED
    BY <1>1, <2>1
<1>5. /\ active' = active \ {Top.node} /\ stage = "expand"
      /\ stage' = IF Len(stack) = 1 THEN "collect" ELSE "expand"
      /\ UNCHANGED <<document, pending, tree, references, refusal>>
  BY DEF Leave
<1> QED
  BY <1>1, <1>2, <1>3, <1>4, <1>5

-----------------------------------------------------------------------------
(* The types *)

LEMMA DocumentTypeInit == DocumentInit => DocumentTypeOK
<1> SUFFICES ASSUME DocumentInit PROVE DocumentTypeOK
  OBVIOUS
<1>1. Root \in DOMAIN document /\ document \in Documents
  BY DocumentAssumption DEF DocumentInit
<1>2. DOMAIN tree = {}
  BY DEF DocumentInit, NoTree
<1>3. IsFiniteSet(DOMAIN tree) /\ Cardinality(DOMAIN tree) = 0 /\ MaxNodes \in Nat
  BY <1>2, FS_EmptySet, DocumentAssumption
<1>4. pending \in Seq(Pair)
  <2>1. [node |-> Root, path |-> <<>>] \in Pair
    BY <1>1 DEF Pair, Paths
  <2> QED
    BY <2>1 DEF DocumentInit
<1>5. stack \in Seq(Frame) /\ active = {} /\ stage = "check" /\ refusal = "none"
  BY DEF DocumentInit
<1> QED
  BY <1>1, <1>2, <1>3, <1>4, <1>5 DEF DocumentTypeOK

\* Typed steps keep the types of what they leave alone.
LEMMA DocumentTypeStep ==
    DocumentTypeOK /\ CopiedOK /\ StackOK /\ AwaitedOK /\ [DocumentNext]_documentVars
        => DocumentTypeOK'
<1> SUFFICES ASSUME DocumentTypeOK, CopiedOK, StackOK, AwaitedOK, [DocumentNext]_documentVars
             PROVE  DocumentTypeOK'
  OBVIOUS
<1>1. /\ document' = document /\ document' \in Documents
      /\ Pair' = Pair /\ Frame' = Frame
  BY DocumentConstant DEF DocumentTypeOK, Pair, Frame
<1>2. ASSUME UNCHANGED <<tree, pending, stack, active>>,
             stage' \in {"check", "expand", "collect", "accepted", "rejected"},
             refusal' \in {"none", "check", "expand", "collect"}
      PROVE  DocumentTypeOK'
  BY <1>1, <1>2 DEF DocumentTypeOK
<1>3. ASSUME UNCHANGED documentVars PROVE DocumentTypeOK'
  BY <1>2, <1>3 DEF documentVars, DocumentTypeOK
<1>4. ASSUME Refuse, stage \in {"check", "expand", "collect"} PROVE DocumentTypeOK'
  BY <1>2, <1>4 DEF Refuse
<1>5. ASSUME CheckNode PROVE DocumentTypeOK'
  <2>1. /\ Pending.node \in DOMAIN document /\ Pending.path \in Paths
        /\ Front(pending) \o Parts \in Seq(Pair)
    BY <1>5, PendingShape DEF CheckNode
  <2>2. Len(Pending.path) <= MaxDepth /\ Cardinality(DOMAIN tree) < MaxNodes
    BY <1>5 DEF CheckNode, HasRoom
  <2>3. tree' = Grown(Pending.path, Pending.node, document[Pending.node].line)
    BY <1>5 DEF CheckNode
  <2>4. /\ DOMAIN tree' \subseteq Paths /\ IsFiniteSet(DOMAIN tree')
        /\ Cardinality(DOMAIN tree') <= MaxNodes
        /\ \A q \in DOMAIN tree' : Len(q) <= MaxDepth /\ tree'[q].node \in DOMAIN document'
    BY <1>1, <2>1, <2>2, <2>3, GrownMeans
  <2>5. /\ pending' \in Seq(Pair) /\ UNCHANGED <<stage, stack, active, refusal>>
    BY <1>5, <2>1 DEF CheckNode
  <2> QED
    BY <1>1, <2>4, <2>5 DEF DocumentTypeOK
<1>6. ASSUME EndCheck PROVE DocumentTypeOK'
  <2>1. UNCHANGED <<pending, stack, active, refusal>> /\ stage' \in {"expand", "collect"}
        /\ (tree' = NoTree \/ UNCHANGED tree)
    BY <1>6 DEF EndCheck
  <2>2. CASE UNCHANGED tree
    BY <1>2, <2>1, <2>2 DEF DocumentTypeOK
  <2>3. CASE tree' = NoTree
    <3>1. DOMAIN tree' = {}
      BY <2>3 DEF NoTree
    <3>2. IsFiniteSet(DOMAIN tree') /\ Cardinality(DOMAIN tree') = 0 /\ MaxNodes \in Nat
      BY <3>1, FS_EmptySet, DocumentAssumption
    <3> QED
      BY <1>1, <2>1, <3>1, <3>2 DEF DocumentTypeOK
  <2> QED
    BY <2>1, <2>2, <2>3
<1>7. ASSUME EnterAlias \/ EnterNode
      PROVE  /\ Child \in DOMAIN document /\ Place \in Paths /\ Push /\ Len(Place) <= MaxDepth
             /\ stack' \in Seq(Frame) /\ active' \subseteq DOMAIN document
             /\ UNCHANGED <<stage, pending, refusal>>
  <2>1. stage = "expand" /\ Unentered /\ Push /\ Allowed
    BY <1>7 DEF EnterAlias, EnterNode
  <2>2. Child \in DOMAIN document /\ Place \in Paths
    BY <2>1, ChildShape
  <2>3. stack' \in Seq(Frame) /\ active' = active \union {Child}
    BY <2>1, <2>2, PushMeans
  <2>4. active \subseteq DOMAIN document
    BY DEF DocumentTypeOK
  <2> QED
    BY <2>1, <2>2, <2>3, <2>4 DEF Push, Allowed
<1>8. ASSUME EnterAlias PROVE DocumentTypeOK'
  <2>1. UNCHANGED tree
    BY <1>8 DEF EnterAlias
  <2> QED
    BY <1>1, <1>7, <1>8, <2>1 DEF DocumentTypeOK
<1>9. ASSUME EnterNode PROVE DocumentTypeOK'
  <2>1. Cardinality(DOMAIN tree) < MaxNodes /\ tree' = Grown(Place, Child, Line)
    BY <1>9 DEF EnterNode
  <2>2. /\ DOMAIN tree' \subseteq Paths /\ IsFiniteSet(DOMAIN tree')
        /\ Cardinality(DOMAIN tree') <= MaxNodes
        /\ \A q \in DOMAIN tree' : Len(q) <= MaxDepth /\ tree'[q].node \in DOMAIN document'
    BY <1>1, <1>7, <1>9, <2>1, GrownMeans
  <2> QED
    BY <1>1, <1>7, <1>9, <2>2 DEF DocumentTypeOK
<1>10. ASSUME Leave PROVE DocumentTypeOK'
  <2>1. /\ stack' \in Seq(Frame) /\ active' = active \ {Top.node}
        /\ stage' \in {"expand", "collect"} /\ UNCHANGED <<pending, tree, refusal>>
    BY <1>10, LeaveMeans
  <2> QED
    BY <1>1, <2>1 DEF DocumentTypeOK
<1>11. ASSUME Collect PROVE DocumentTypeOK'
  <2>1. CASE Refuse
    BY <1>4, <1>11, <2>1 DEF Collect
  <2>2. CASE ~Refuse
    BY <1>2, <1>11, <2>2 DEF Collect, DocumentTypeOK
  <2> QED
    BY <2>1, <2>2
<1>12. ASSUME Check PROVE DocumentTypeOK'
  <2>1. stage = "check"
    BY <1>12 DEF Check
  <2>2. CheckNode \/ Refuse
    BY <1>12, CheckCases
  <2> QED
    BY <1>4, <1>5, <2>1, <2>2
<1>13. ASSUME RefuseNode PROVE DocumentTypeOK'
  BY <1>4, <1>13 DEF RefuseNode
<1> QED
  BY <1>3, <1>6, <1>8, <1>9, <1>10, <1>11, <1>12, <1>13 DEF DocumentNext, DocumentFinished

-----------------------------------------------------------------------------
(* The document is checked *)

LEMMA StillChecked ==
    ASSUME [DocumentNext]_documentVars, stage' = "check"
    PROVE  CheckNode \/ UNCHANGED documentVars
<1>1. ASSUME Check PROVE CheckNode
  <2>1. ~Refuse
    BY DEF Refuse
  <2> QED
    BY <1>1, <2>1, CheckCases
<1>2. ~EndCheck /\ ~Collect
  BY DEF EndCheck, Collect, Refuse
<1>3. ~EnterAlias /\ ~EnterNode /\ ~RefuseNode /\ ~Leave
  BY DEF EnterAlias, EnterNode, RefuseNode, Leave, Push, Refuse
<1> QED
  BY <1>1, <1>2, <1>3 DEF DocumentNext, DocumentFinished

LEMMA CheckNodeStep ==
    ASSUME DocumentTypeOK, CheckedOK, CheckNode
    PROVE  CheckedOK'
<1> PICK it : it = Pending
  OBVIOUS
<1> PICK content : content = document[it.node].content
  OBVIOUS
<1>1. stage = "check" /\ pending # <<>> /\ document' = document
      /\ Len(it.path) <= MaxDepth /\ Cardinality(DOMAIN tree) < MaxNodes /\ ValidNode(it.node)
      /\ tree' = Grown(it.path, it.node, document[it.node].line)
      /\ pending' = Front(pending) \o Parts
  BY DEF CheckNode, HasRoom
<1>2. /\ it.node \in DOMAIN document /\ it.path \in Paths
      /\ content \in Seq(DOMAIN document)
      /\ it \in ToSet(pending)
      /\ \A a : a \in ToSet(pending) => a = it \/ a \in ToSet(Front(pending))
      /\ ToSet(Front(pending)) \subseteq ToSet(pending)
      /\ it = [node |-> it.node, path |-> it.path]
  <2>1. it \in Pair
    BY <1>1, PendingShape
  <2>2. it = [node |-> it.node, path |-> it.path]
    BY <2>1 DEF Pair
  <2> QED
    BY <1>1, <2>2, PendingShape
<1>3. ToSet(pending') = ToSet(Front(pending)) \union
        {[node |-> content[i], path |-> Append(it.path, i)] : i \in DOMAIN content}
  BY <1>1, PendingShape
<1>4. /\ DOMAIN tree' = DOMAIN tree \union {it.path}
      /\ tree'[it.path] = Entry(it.node, document[it.node].line) /\ tree'[it.path].node = it.node
      /\ \A q \in DOMAIN tree : q # it.path => tree'[q] = tree[q]
  <2>1. tree' = Grown(it.path, it.node, document[it.node].line)
    BY <1>1
  <2> QED
    BY <2>1 DEF Grown, Entry
<1>5. Due(it.node, it.path)
  BY <1>1, <1>2 DEF CheckedOK
<1>6. \A q \in DOMAIN tree : q \in DOMAIN tree' /\ tree'[q] = tree[q]
  <2> SUFFICES ASSUME NEW q \in DOMAIN tree, q = it.path PROVE tree'[q] = tree[q]
    BY <1>4
  <2>1. PICK n \in DOMAIN document : Due(n, q) /\ tree[q] = Entry(n, document[n].line)
    BY <1>1 DEF CheckedOK
  <2>2. n = it.node
    BY <1>5, <2>1, DueOnce
  <2> QED
    BY <1>4, <2>1, <2>2
<1>7. ASSUME NEW n, NEW p, Due(n, p) PROVE Due(n, p)'
  BY <1>1, <1>6, <1>7, DueStays
<1>8. ASSUME NEW p \in DOMAIN tree'
      PROVE  \E n \in DOMAIN document' :
                Due(n, p)' /\ ValidNode(n)' /\ tree'[p] = Entry(n, document'[n].line)
  <2>1. CASE p \in DOMAIN tree
    <3>1. PICK n \in DOMAIN document :
            Due(n, p) /\ ValidNode(n) /\ tree[p] = Entry(n, document[n].line)
      BY <1>1, <2>1 DEF CheckedOK
    <3>2. Due(n, p)' /\ ValidNode(n)'
      BY <1>1, <1>7, <3>1, NodeStays
    <3> QED
      BY <1>1, <1>6, <2>1, <3>1, <3>2
  <2>2. CASE p = it.path
    <3> PICK n \in DOMAIN document : n = it.node
      BY <1>2
    <3>1. Due(n, p) /\ ValidNode(n)
      BY <1>1, <1>5, <2>2
    <3>2. Due(n, p)' /\ ValidNode(n)'
      BY <1>1, <1>7, <3>1, NodeStays
    <3> QED
      BY <1>1, <1>4, <2>2, <3>2
  <2> QED
    BY <1>4, <2>1, <2>2
<1>9. ASSUME NEW a \in ToSet(pending') PROVE Due(a.node, a.path)'
  <2>1. CASE a \in ToSet(Front(pending))
    <3>1. Due(a.node, a.path)
      BY <1>1, <1>2, <2>1 DEF CheckedOK
    <3> QED
      BY <1>7, <3>1
  <2>2. CASE \E i \in DOMAIN content : a = [node |-> content[i], path |-> Append(it.path, i)]
    <3>1. PICK i \in DOMAIN content : a = [node |-> content[i], path |-> Append(it.path, i)]
      BY <2>2
    <3>2. /\ it.path \in DOMAIN tree' /\ i \in DOMAIN document'[tree'[it.path].node].content
          /\ a.path = Append(it.path, i) /\ a.node = document'[tree'[it.path].node].content[i]
      BY <1>1, <1>4, <3>1
    <3> QED
      BY <3>2 DEF Due
  <2> QED
    BY <1>3, <2>1, <2>2
<1>10. <<>> \in DOMAIN tree' \/ [node |-> Root, path |-> <<>>] \in ToSet(pending')
  <2>1. CASE <<>> \in DOMAIN tree
    BY <1>4, <2>1
  <2>2. CASE [node |-> Root, path |-> <<>>] \in ToSet(pending)
    <3> PICK a : a = [node |-> Root, path |-> <<>>]
      OBVIOUS
    <3>1. a = it \/ a \in ToSet(Front(pending))
      BY <1>2, <2>2
    <3>2. a.path = <<>>
      OBVIOUS
    <3> QED
      BY <1>3, <1>4, <3>1, <3>2
  <2> QED
    BY <1>1, <2>1, <2>2 DEF CheckedOK
<1>11. ASSUME NEW p \in DOMAIN tree', NEW i \in DOMAIN document[tree'[p].node].content
       PROVE  \/ Append(p, i) \in DOMAIN tree'
              \/ [node |-> document[tree'[p].node].content[i], path |-> Append(p, i)] \in ToSet(pending')
  <2>1. CASE p = it.path
    BY <1>3, <1>4, <2>1
  <2>2. CASE p # it.path
    <3> PICK a : a = [node |-> document[tree[p].node].content[i], path |-> Append(p, i)]
      OBVIOUS
    <3>1. p \in DOMAIN tree /\ tree'[p] = tree[p]
      BY <1>4, <2>2
    <3>2. Append(p, i) \in DOMAIN tree \/ a \in ToSet(pending)
      BY <1>1, <3>1 DEF CheckedOK
    <3>3. CASE a = it
      <4>1. it.path = Append(p, i)
        BY <3>3
      <4> QED
        BY <1>4, <4>1
    <3>4. CASE a \in ToSet(Front(pending))
      BY <1>3, <3>1, <3>4
    <3> QED
      BY <1>2, <1>4, <3>2, <3>3, <3>4
  <2> QED
    BY <2>1, <2>2
<1>12. \A p \in DOMAIN tree' : \A i \in DOMAIN document'[tree'[p].node].content :
         \/ Append(p, i) \in DOMAIN tree'
         \/ [node |-> document'[tree'[p].node].content[i], path |-> Append(p, i)] \in ToSet(pending')
  <2>1. document' = document
    BY <1>1
  <2> QED
    BY <1>11, <2>1, Zenon
<1> QED
  BY <1>8, <1>9, <1>10, <1>12 DEF CheckedOK

-----------------------------------------------------------------------------
(* What is copied *)

LEMMA StillExpanding ==
    ASSUME [DocumentNext]_documentVars, Expanding'
    PROVE  \/ EndCheck \/ EnterAlias \/ EnterNode \/ Leave
           \/ Collect /\ ~Refuse
           \/ UNCHANGED documentVars
<1>1. ~Refuse
  BY DEF Refuse, Expanding
<1>2. ASSUME Check PROVE FALSE
  <2>1. CheckNode
    BY <1>1, <1>2, CheckCases
  <2>2. stage' = "check"
    BY <2>1 DEF CheckNode
  <2> QED
    BY <2>2 DEF Expanding
<1>3. ~RefuseNode
  BY <1>1 DEF RefuseNode
<1> QED
  BY <1>1, <1>2, <1>3 DEF DocumentNext, DocumentFinished

\* When nothing is pending every node of the document has been checked.
LEMMA CheckedMeans ==
    ASSUME DocumentTypeOK, CheckedOK, stage = "check", pending = <<>>
    PROVE  /\ <<>> \in DOMAIN tree
           /\ \A p \in DOMAIN tree : \A i \in DOMAIN document[tree[p].node].content :
                Append(p, i) \in DOMAIN tree
           /\ \A n \in DOMAIN document : ValidNode(n)
<1>1. ToSet(pending) = {}
  BY DEF ToSet
<1>2. <<>> \in DOMAIN tree
  BY <1>1 DEF CheckedOK
<1>3. \A p \in DOMAIN tree : \A i \in DOMAIN document[tree[p].node].content :
        Append(p, i) \in DOMAIN tree
  BY <1>1 DEF CheckedOK
<1>4. \A p \in DOMAIN tree :
        \E n \in DOMAIN document : Due(n, p) /\ ValidNode(n) /\ tree[p].node = n
  <2> SUFFICES ASSUME NEW p \in DOMAIN tree
               PROVE  \E n \in DOMAIN document : Due(n, p) /\ ValidNode(n) /\ tree[p].node = n
    OBVIOUS
  <2>1. PICK n \in DOMAIN document :
          Due(n, p) /\ ValidNode(n) /\ tree[p] = Entry(n, document[n].line)
    BY DEF CheckedOK
  <2>2. tree[p].node = n
    BY <2>1 DEF Entry
  <2> QED
    BY <2>1, <2>2
<1> DEFINE S == {tree[p].node : p \in DOMAIN tree}
<1>5. S \in SUBSET DOMAIN document /\ document \in Documents
  BY DEF DocumentTypeOK
<1>6. Root \in S
  <2>1. PICK n \in DOMAIN document : Due(n, <<>>) /\ tree[<<>>].node = n
    BY <1>2, <1>4
  <2>2. Due(Root, <<>>)
    BY DEF Due
  <2>3. n = Root
    BY <2>1, <2>2, DueOnce
  <2> QED
    BY <1>2, <2>1, <2>3
<1>7. ASSUME NEW m \in S, NEW i \in DOMAIN document[m].content
      PROVE  document[m].content[i] \in S
  <2>1. PICK p \in DOMAIN tree : tree[p].node = m
    OBVIOUS
  <2> PICK q : q = Append(p, i)
    OBVIOUS
  <2>2. q \in DOMAIN tree
    BY <1>3, <2>1
  <2>3. PICK n \in DOMAIN document : Due(n, q) /\ tree[q].node = n
    BY <1>4, <2>2
  <2>4. Due(document[m].content[i], q)
    BY <2>1, DueBelow
  <2>5. n = document[m].content[i]
    BY <2>3, <2>4, DueOnce
  <2> QED
    BY <2>2, <2>3, <2>5
<1> HIDE DEF S
<1>8. Written(document) \subseteq S
  BY <1>5, <1>6, <1>7, WrittenIsLeast
<1>9. DOMAIN document = Written(document)
  BY <1>5, DocumentAssumption
<1>10. ASSUME NEW n \in DOMAIN document PROVE ValidNode(n)
  <2>1. n \in S
    BY <1>8, <1>9
  <2>2. PICK p \in DOMAIN tree : tree[p].node = n
    BY <2>1 DEF S
  <2> QED
    BY <1>4, <2>2
<1> QED
  BY <1>2, <1>3, <1>10

LEMMA CopiedStep ==
    DocumentTypeOK /\ CheckedOK /\ CopiedOK /\ StackOK /\ AwaitedOK /\ [DocumentNext]_documentVars
        => CopiedOK'
<1> SUFFICES ASSUME DocumentTypeOK, CheckedOK, CopiedOK, StackOK, AwaitedOK,
                    [DocumentNext]_documentVars, Expanding'
             PROVE  /\ \A n \in DOMAIN document' : ValidNode(n)'
                    /\ \A p \in DOMAIN tree' : \E n \in DOMAIN document' :
                         Due(n, p)' /\ tree'[p] = Entry(Meant(n)', document'[n].line)
  BY DEF CopiedOK
<1>1. document' = document
  BY DocumentConstant
<1>2. \A n : ValidNode(n)' <=> ValidNode(n)
  BY <1>1, NodeStays
<1>3. \A n : Meant(n)' = Meant(n)
  BY <1>1 DEF Meant, Is
<1>4. ASSUME Expanding, UNCHANGED tree
      PROVE  /\ \A n \in DOMAIN document' : ValidNode(n)'
             /\ \A p \in DOMAIN tree' : \E n \in DOMAIN document' :
                  Due(n, p)' /\ tree'[p] = Entry(Meant(n)', document'[n].line)
  <2>1. \A n, p : Due(n, p) => Due(n, p)'
    BY <1>1, <1>4, DueStays
  <2>2. \A n \in DOMAIN document : ValidNode(n)
    BY <1>4 DEF CopiedOK
  <2>3. ASSUME NEW p \in DOMAIN tree'
        PROVE  \E n \in DOMAIN document' :
                 Due(n, p)' /\ tree'[p] = Entry(Meant(n)', document'[n].line)
    <3>1. PICK n \in DOMAIN document : Due(n, p) /\ tree[p] = Entry(Meant(n), document[n].line)
      BY <1>4 DEF CopiedOK
    <3>2. Due(n, p)' /\ Meant(n)' = Meant(n)
      BY <1>3, <2>1, <3>1
    <3> QED
      BY <1>1, <1>4, <3>1, <3>2
  <2> QED
    BY <1>1, <1>2, <2>2, <2>3
<1>5. CASE EndCheck
  <2>1. stage = "check" /\ pending = <<>>
    BY <1>5 DEF EndCheck
  <2>2. \A n \in DOMAIN document' : ValidNode(n)'
    BY <1>1, <1>2, <2>1, CheckedMeans
  <2>3. CASE tree' = NoTree
    <3>1. DOMAIN tree' = {}
      BY <2>3 DEF NoTree
    <3> QED
      BY <2>2, <3>1
  <2>4. CASE UNCHANGED tree /\ ~\E p \in DOMAIN tree : Is(tree[p].node, "alias")
    <3>1. ASSUME NEW p \in DOMAIN tree'
          PROVE  \E n \in DOMAIN document' :
                   Due(n, p)' /\ tree'[p] = Entry(Meant(n)', document'[n].line)
      <4>1. PICK n \in DOMAIN document : Due(n, p) /\ tree[p] = Entry(n, document[n].line)
        BY <2>1, <2>4 DEF CheckedOK
      <4>2. tree[p].node = n
        BY <4>1 DEF Entry
      <4>3. ~Is(n, "alias")
        BY <2>4, <4>2
      <4>4. Meant(n) = n
        BY <4>3 DEF Meant
      <4>5. Due(n, p)'
        BY <1>1, <2>4, <4>1, DueStays
      <4>6. Meant(n)' = n
        BY <1>3, <4>4
      <4> QED
        BY <1>1, <2>4, <4>1, <4>5, <4>6
    <3> QED
      BY <2>2, <3>1
  <2> QED
    BY <1>5, <2>3, <2>4 DEF EndCheck
<1>6. CASE EnterNode
  <2>0. tree' = Grown(Place, Child, Line)
    BY <1>6 DEF EnterNode
  <2>1. stage = "expand" /\ Unentered /\ ~Is(Child, "alias")
    BY <1>6 DEF EnterNode
  <2>2. /\ Source \in DOMAIN document /\ Place \in Paths /\ Due(Source, Place)
        /\ Place \notin DOMAIN tree /\ Line = document[Source].line /\ Meant(Source) = Child
    <3>1. /\ Source \in DOMAIN document /\ Place \in Paths /\ Due(Source, Place)
          /\ Place \notin DOMAIN tree /\ Line = document[Source].line
      BY <2>1, ChildShape
    <3>2. Is(Child, "alias") \/ Meant(Source) = Child
      BY <2>1, ChildShape
    <3> QED
      BY <2>1, <3>1, <3>2
  <2> PICK s \in DOMAIN document : s = Source
    BY <2>2
  <2> PICK it : it = Place
    OBVIOUS
  <2>3. /\ DOMAIN tree' = DOMAIN tree \union {it}
        /\ tree'[it] = Entry(Meant(s), document[s].line)
        /\ \A q \in DOMAIN tree : q # it => tree'[q] = tree[q]
    BY <2>0, <2>2 DEF Grown
  <2>4. \A n, p : Due(n, p) => Due(n, p)'
    BY <1>1, <2>2, <2>3, DueStays
  <2>5. ASSUME NEW p \in DOMAIN tree'
        PROVE  \E n \in DOMAIN document' :
                 Due(n, p)' /\ tree'[p] = Entry(Meant(n)', document'[n].line)
    <3>1. CASE p = it
      <4>1. Due(s, p)' /\ Meant(s)' = Meant(s)
        BY <1>3, <2>2, <2>4, <3>1
      <4> QED
        BY <1>1, <2>3, <3>1, <4>1
    <3>2. CASE p # it
      <4>1. p \in DOMAIN tree /\ tree'[p] = tree[p]
        BY <2>3, <3>2
      <4>2. PICK n \in DOMAIN document : Due(n, p) /\ tree[p] = Entry(Meant(n), document[n].line)
        BY <2>1, <4>1 DEF CopiedOK, Expanding
      <4>3. Due(n, p)' /\ Meant(n)' = Meant(n)
        BY <1>3, <2>4, <4>2
      <4> QED
        BY <1>1, <4>1, <4>2, <4>3
    <3> QED
      BY <3>1, <3>2
  <2>6. \A n \in DOMAIN document' : ValidNode(n)'
    BY <1>1, <1>2, <2>1 DEF CopiedOK, Expanding
  <2> QED
    BY <2>5, <2>6
<1>7. CASE EnterAlias
  BY <1>4, <1>7 DEF EnterAlias, Expanding
<1>8. CASE Leave
  BY <1>4, <1>8 DEF Leave, Expanding
<1>9. CASE Collect /\ ~Refuse
  BY <1>4, <1>9 DEF Collect, Expanding
<1>10. CASE UNCHANGED documentVars
  BY <1>4, <1>10 DEF documentVars, Expanding
<1> QED
  BY <1>5, <1>6, <1>7, <1>8, <1>9, <1>10, StillExpanding

-----------------------------------------------------------------------------
(* The stack stays a walk *)

Enter == EnterAlias \/ EnterNode

LEMMA EnterMeans ==
    ASSUME DocumentTypeOK, CopiedOK, StackOK, AwaitedOK, Enter
    PROVE  /\ stage = "expand" /\ Unentered /\ Child \notin active /\ Push
           /\ document' = document /\ stage' = "expand"
           /\ Child \in DOMAIN document /\ Place \in Paths /\ Place \notin DOMAIN tree
           /\ \A q \in DOMAIN tree : q \in DOMAIN tree' /\ tree'[q] = tree[q]
           /\ DOMAIN tree' = IF Is(Child, "alias") THEN DOMAIN tree ELSE DOMAIN tree \union {Place}
           /\ Is(Child, "alias") \/ tree'[Place].node = Child
           /\ ~Is(Child, "alias") \/ Due(Child, Place)
<1>1. stage = "expand" /\ Unentered /\ Child \notin active /\ Push
  BY DEF Enter, EnterAlias, EnterNode, Allowed
<1>2. document' = document /\ stage' = "expand"
  BY <1>1 DEF Push
<1>3. /\ Child \in DOMAIN document /\ Place \in Paths /\ Place \notin DOMAIN tree
      /\ Due(Source, Place) /\ (~Is(Child, "alias") \/ Source = Child)
  BY <1>1, ChildShape
<1>4. CASE Is(Child, "alias")
  <2>1. tree' = tree
    BY <1>4 DEF Enter, EnterAlias, EnterNode
  <2>2. Due(Child, Place)
    BY <1>3, <1>4
  <2> QED
    BY <1>1, <1>2, <1>3, <1>4, <2>1, <2>2
<1>5. CASE ~Is(Child, "alias")
  <2>1. tree' = Grown(Place, Child, Line)
    BY <1>5 DEF Enter, EnterAlias, EnterNode
  <2>2. /\ DOMAIN tree' = DOMAIN tree \union {Place}
        /\ tree'[Place].node = Child
        /\ \A q \in DOMAIN tree : q # Place => tree'[q] = tree[q]
    BY <2>1 DEF Grown, Entry
  <2>3. \A q \in DOMAIN tree : q \in DOMAIN tree' /\ tree'[q] = tree[q]
    BY <1>3, <2>2
  <2> QED
    BY <1>1, <1>2, <1>3, <1>5, <2>2, <2>3
<1> QED
  BY <1>4, <1>5

\* The node of the new frame is what the frame below it has next.
LEMMA ChildIsNext ==
    ASSUME DocumentTypeOK, StackOK, stage = "expand", Unentered, stack # <<>>
    PROVE  /\ Top.at >= 1 /\ Top.at + 1 <= Len(Children(Top.node)) + 1
           /\ Len(Children(Top.node)) \in Nat
           /\ Child = Children(Top.node)[Top.at]
<1>1. Top = stack[Len(stack)] /\ Len(stack) \in DOMAIN stack /\ Top.node \in DOMAIN document
  BY TopShape
<1>2. Top.at \in 1 .. Len(Children(Top.node)) + 1
  BY <1>1 DEF StackOK, Walks
<1>3. Top.at <= Len(Children(Top.node)) /\ Child = Children(Top.node)[Top.at]
  BY DEF Unentered, Child, Begun
<1>4. Children(Top.node) \in Seq(DOMAIN document)
  BY <1>1, DocumentShape DEF DocumentTypeOK
<1> QED
  BY <1>2, <1>3, <1>4

LEMMA EnterStack ==
    ASSUME DocumentTypeOK, CopiedOK, StackOK, AwaitedOK, Enter
    PROVE  StackOK'
<1> PICK c \in DOMAIN document : c = Child
  BY EnterMeans
<1> PICK p \in Paths : p = Place
  BY EnterMeans
<1>1. stage = "expand" /\ Unentered /\ c \notin active /\ Push /\ document' = document
  BY EnterMeans
<1>2. \A q \in DOMAIN tree : q \in DOMAIN tree' /\ tree'[q] = tree[q]
  BY EnterMeans
<1>3. Is(c, "alias") \/ (p \in DOMAIN tree' /\ tree'[p].node = c)
  BY EnterMeans
<1>4. ~Is(c, "alias") \/ Due(c, p)
  BY EnterMeans
<1>5. \A n : Children(n)' = Children(n) /\ (Is(n, "alias")' <=> Is(n, "alias"))
  BY <1>1 DEF Children, Is
<1>17. Len(stack) \in Nat
  BY StackShape
<1> PICK last \in Nat : last = Len(stack)
  BY <1>17
<1>6. /\ DOMAIN stack' = 1 .. last + 1 /\ Len(stack') = last + 1
      /\ stack'[last + 1] = [node |-> c, path |-> p, at |-> 1]
      /\ \A k \in DOMAIN stack :
            /\ stack'[k].node = stack[k].node /\ stack'[k].path = stack[k].path
            /\ stack'[k].at = IF k = last THEN stack[k].at + 1 ELSE stack[k].at
      /\ active' = active \union {c}
  BY <1>1, PushMeans
<1>7. stack'[last + 1].node = c /\ stack'[last + 1].path = p /\ stack'[last + 1].at = 1
  BY <1>6
<1>8. DOMAIN stack = 1 .. last /\ \A k \in DOMAIN stack : stack[k].at \in Nat
  BY StackShape
<1>9. \A n \in DOMAIN document : Len(Children(n)) \in Nat
  <2>1. \A n \in DOMAIN document : Children(n) \in Seq(DOMAIN document)
    BY DocumentShape DEF DocumentTypeOK
  <2> QED
    BY <2>1
<1>10. \A k \in DOMAIN stack' : k \in DOMAIN stack \/ k = last + 1
  BY <1>6, <1>8
<1>11. active = {stack[k].node : k \in DOMAIN stack}
  BY <1>1 DEF StackOK, Walks
<1>12. active' = {stack'[k].node : k \in DOMAIN stack'}
  <2>1. \A k \in DOMAIN stack : k \in DOMAIN stack' /\ stack'[k].node = stack[k].node
    BY <1>6, <1>8
  <2>2. last + 1 \in DOMAIN stack'
    BY <1>6
  <2> QED
    BY <1>6, <1>7, <1>10, <1>11, <2>1, <2>2
<1>13. \A j, k \in DOMAIN stack' : stack'[j].node = stack'[k].node => j = k
  <2>1. \A k \in DOMAIN stack : stack'[k].node = stack[k].node /\ stack[k].node # c
    BY <1>1, <1>6, <1>11
  <2>2. \A j, k \in DOMAIN stack : stack[j].node = stack[k].node => j = k
    BY <1>1 DEF StackOK, Walks
  <2> QED
    BY <1>7, <1>10, <2>1, <2>2
<1>14. ASSUME NEW k \in DOMAIN stack'
       PROVE  stack'[k].at \in 1 .. Len(Children(stack'[k].node)) + 1
  <2>1. CASE k = last + 1
    BY <1>7, <1>9, <2>1
  <2>2. CASE k \in DOMAIN stack /\ k # last
    <3>1. stack[k].at \in 1 .. Len(Children(stack[k].node)) + 1
      BY <1>1, <2>2 DEF StackOK, Walks
    <3> QED
      BY <1>6, <2>2, <3>1
  <2>3. CASE k \in DOMAIN stack /\ k = last
    <3>1. stack # <<>> /\ Top = stack[k]
      <4>1. stack # <<>>
        BY <2>3
      <4> QED
        BY <2>3, <4>1, TopShape
    <3>2. Top.at >= 1 /\ Top.at + 1 <= Len(Children(Top.node)) + 1 /\ Len(Children(Top.node)) \in Nat
      BY <1>1, <3>1, ChildIsNext
    <3>3. stack'[k].at = Top.at + 1 /\ stack'[k].node = Top.node /\ Top.at \in Nat
      BY <1>6, <1>8, <2>3, <3>1
    <3> QED
      BY <3>2, <3>3
  <2> QED
    BY <1>10, <2>1, <2>2, <2>3
<1>15. ASSUME NEW k \in DOMAIN stack', k < last + 1
       PROVE  stack'[k].at >= 2 /\ stack'[k + 1].node = Children(stack'[k].node)[stack'[k].at - 1]
  <2>1. CASE k < last
    <3>1. k \in DOMAIN stack /\ k + 1 \in DOMAIN stack /\ k # last
      BY <1>6, <1>8, <2>1
    <3>2. stack[k].at >= 2 /\ stack[k + 1].node = Children(stack[k].node)[stack[k].at - 1]
      BY <1>1, <2>1, <3>1 DEF StackOK, Walks
    <3> QED
      BY <1>6, <3>1, <3>2
  <2>2. CASE k = last
    <3>1. k \in DOMAIN stack /\ last \in DOMAIN stack
      BY <1>6, <1>8, <2>2
    <3>2. stack # <<>> /\ Top = stack[last]
      <4>1. stack # <<>>
        BY <3>1
      <4> QED
        BY <4>1, TopShape
    <3>3. Top.at >= 1 /\ c = Children(Top.node)[Top.at]
      BY <1>1, <3>2, ChildIsNext
    <3>4. stack'[k].at = Top.at + 1 /\ stack'[k].node = Top.node /\ Top.at \in Nat
      BY <1>6, <1>8, <2>2, <3>1, <3>2
    <3>5. stack'[k].at - 1 = Top.at /\ stack'[k].at >= 2
      BY <3>3, <3>4
    <3> QED
      BY <1>7, <2>2, <3>3, <3>4, <3>5
  <2> QED
    BY <1>6, <1>15, <2>1, <2>2
<1>16. ASSUME NEW k \in DOMAIN stack' PROVE Placed(k)'
  <2>1. \E n, q :
          /\ n = stack'[k].node /\ q = stack'[k].path
          /\ Is(n, "alias") => Due(n, q)'
          /\ ~Is(n, "alias") => q \in DOMAIN tree' /\ tree'[q].node = n
    <3>1. CASE k = last + 1
      <4>1. Due(c, p) => Due(c, p)'
        BY <1>1, <1>2, DueStays
      <4>2. Is(c, "alias") => Due(c, p)'
        BY <1>4, <4>1
      <4> QED
        BY <1>3, <1>7, <3>1, <4>2
    <3>2. CASE k \in DOMAIN stack
      <4> PICK n, q : n = stack[k].node /\ q = stack[k].path
        OBVIOUS
      <4>1. /\ Is(n, "alias") => Due(n, q)
            /\ ~Is(n, "alias") => q \in DOMAIN tree /\ tree[q].node = n
        BY <1>1, <3>2 DEF StackOK, Placed
      <4>2. Due(n, q) => Due(n, q)'
        BY <1>1, <1>2, DueStays
      <4> QED
        BY <1>2, <1>6, <3>2, <4>1, <4>2
    <3> QED
      BY <1>10, <3>1, <3>2
  <2> QED
    BY <1>1, <2>1 DEF Placed, Due, Is
<1>18. \A k \in DOMAIN stack' : Placed(k)'
  BY <1>16
<1>19. ASSUME NEW k \in DOMAIN stack' PROVE Walks(k)'
  <2>1. stack'[k].at \in 1 .. Len(Children(stack'[k].node)) + 1
    BY <1>14
  <2>2. k < last + 1 =>
          stack'[k].at >= 2 /\ stack'[k + 1].node = Children(stack'[k].node)[stack'[k].at - 1]
    BY <1>15
  <2> QED
    BY <1>1, <1>6, <2>1, <2>2 DEF Walks, Children, Is
<1> QED
  BY <1>12, <1>13, <1>18, <1>19 DEF StackOK

LEMMA LeaveStack ==
    ASSUME DocumentTypeOK, StackOK, Leave
    PROVE  StackOK'
<1> SUFFICES ASSUME stage' = "expand" PROVE StackOK'
  BY DEF StackOK
<1>1. /\ Len(stack) \in Nat /\ Len(stack) >= 1
      /\ Top = stack[Len(stack)] /\ Len(stack) \in DOMAIN stack
      /\ Len(stack') = Len(stack) - 1
      /\ DOMAIN stack' = 1 .. Len(stack) - 1
      /\ \A k \in 1 .. Len(stack) - 1 : k \in DOMAIN stack /\ stack'[k] = stack[k]
      /\ active' = active \ {Top.node}
      /\ stage = "expand" /\ document' = document /\ tree' = tree
  BY LeaveMeans
<1>2. DOMAIN stack = 1 .. Len(stack)
  BY StackShape
<1>3. /\ active = {stack[k].node : k \in DOMAIN stack}
      /\ \A j, k \in DOMAIN stack : stack[j].node = stack[k].node => j = k
      /\ \A k \in DOMAIN stack : Walks(k) /\ Placed(k)
  BY <1>1 DEF StackOK
<1>4. active' = {stack'[k].node : k \in DOMAIN stack'}
  <2>1. \A k \in DOMAIN stack : k # Len(stack) <=> k \in DOMAIN stack'
    BY <1>1, <1>2
  <2>2. \A k \in DOMAIN stack' : k \in DOMAIN stack /\ stack'[k].node = stack[k].node
    BY <1>1
  <2>3. \A k \in DOMAIN stack : stack[k].node = Top.node <=> k = Len(stack)
    BY <1>1, <1>3
  <2> HIDE DEF Top
  <2> QED
    BY <1>1, <1>3, <2>1, <2>2, <2>3
<1>5. \A j, k \in DOMAIN stack' : stack'[j].node = stack'[k].node => j = k
  BY <1>1, <1>3
<1>6. ASSUME NEW k \in DOMAIN stack' PROVE Walks(k)' /\ Placed(k)'
  <2>1. k \in DOMAIN stack /\ stack'[k] = stack[k] /\ Walks(k) /\ Placed(k)
    BY <1>1, <1>3
  <2>2. Placed(k)'
    BY <1>1, <2>1 DEF Placed, Due, Is
  <2>3. k \in Int /\ (k < Len(stack') => k < Len(stack) /\ stack'[k + 1] = stack[k + 1])
    BY <1>1
  <2>4. Walks(k)'
    BY <1>1, <2>1, <2>3 DEF Walks, Children, Is
  <2> QED
    BY <2>2, <2>4
<1> QED
  BY <1>4, <1>5, <1>6 DEF StackOK

LEMMA StackStep ==
    DocumentTypeOK /\ CopiedOK /\ IdleOK /\ StackOK /\ AwaitedOK /\ [DocumentNext]_documentVars
        => StackOK' /\ IdleOK'
<1> SUFFICES ASSUME DocumentTypeOK, CopiedOK, IdleOK, StackOK, AwaitedOK,
                    [DocumentNext]_documentVars
             PROVE  StackOK' /\ IdleOK'
  OBVIOUS
<1>1. IdleOK'
  <2> SUFFICES ASSUME stage' = "check" PROVE stack' = <<>> /\ active' = {}
    BY DEF IdleOK
  <2>1. CheckNode \/ UNCHANGED documentVars
    BY StillChecked
  <2>2. stage = "check" /\ stack' = stack /\ active' = active
    BY <2>1 DEF CheckNode, documentVars
  <2> QED
    BY <2>2 DEF IdleOK
<1>2. CASE stage' # "expand"
  BY <1>1, <1>2 DEF StackOK
<1>3. CASE EndCheck /\ stage' = "expand"
  <2>1. stack' = <<>> /\ active' = {}
    BY <1>3 DEF EndCheck, IdleOK
  <2>2. DOMAIN stack' = {}
    BY <2>1
  <2> QED
    BY <1>1, <2>1, <2>2 DEF StackOK
<1>4. CASE EnterAlias \/ EnterNode
  BY <1>1, <1>4, EnterStack DEF Enter
<1>5. CASE Leave
  BY <1>1, <1>5, LeaveStack
<1>6. ~(Collect /\ ~Refuse /\ stage' = "expand")
  BY DEF Collect
<1>7. CASE UNCHANGED documentVars
  <2>1. /\ stage' = stage /\ stack' = stack /\ active' = active /\ document' = document
        /\ tree' = tree
    BY <1>7 DEF documentVars
  <2>2. ASSUME NEW k, Walks(k) PROVE Walks(k)'
    BY <2>1, <2>2 DEF Walks, Children, Is
  <2>3. ASSUME NEW k, Placed(k) PROVE Placed(k)'
    BY <2>1, <2>3 DEF Placed, Is, Due
  <2> QED
    BY <1>1, <2>1, <2>2, <2>3 DEF StackOK
<1>8. stage' = "expand" => Expanding'
  BY DEF Expanding
<1> QED
  BY <1>2, <1>3, <1>4, <1>5, <1>6, <1>7, <1>8, StillExpanding

-----------------------------------------------------------------------------
(* What is awaited *)

LEMMA EnterFrames ==
    ASSUME DocumentTypeOK, CopiedOK, StackOK, AwaitedOK, Enter
    PROVE  /\ Len(stack) \in Nat
           /\ DOMAIN stack' = 1 .. Len(stack) + 1 /\ DOMAIN stack = 1 .. Len(stack)
           /\ stack' # <<>>
           /\ stack'[Len(stack) + 1].node = Child /\ stack'[Len(stack) + 1].path = Place
           /\ stack'[Len(stack) + 1].at = 1
           /\ \A k \in DOMAIN stack :
                /\ stack'[k].node = stack[k].node /\ stack'[k].path = stack[k].path
                /\ stack'[k].at >= 2 /\ stack'[k].at \in Nat /\ stack'[k].at >= stack[k].at
                /\ k # Len(stack) => stack'[k].at = stack[k].at
                /\ k = Len(stack) => stack'[k].at = Top.at + 1 /\ stack[k] = Top
<1> PICK c \in DOMAIN document : c = Child
  BY EnterMeans
<1> PICK p \in Paths : p = Place
  BY EnterMeans
<1>1. stage = "expand" /\ Unentered /\ Push
  BY EnterMeans
<1>2. /\ stack' \in Seq(Frame) /\ Len(stack') = Len(stack) + 1
      /\ DOMAIN stack' = 1 .. Len(stack) + 1
      /\ stack'[Len(stack) + 1] = [node |-> c, path |-> p, at |-> 1]
      /\ \A k \in DOMAIN stack :
            /\ stack'[k].node = stack[k].node /\ stack'[k].path = stack[k].path
            /\ stack'[k].at = IF k = Len(stack) THEN stack[k].at + 1 ELSE stack[k].at
  BY <1>1, PushMeans
<1>3. /\ Len(stack) \in Nat /\ DOMAIN stack = 1 .. Len(stack)
      /\ \A k \in DOMAIN stack : stack[k].at \in Nat
  BY StackShape
<1>4. stack' # <<>>
  BY <1>2, <1>3
<1>5. ASSUME NEW k \in DOMAIN stack
      PROVE  /\ stack'[k].at >= 2 /\ stack'[k].at \in Nat /\ stack'[k].at >= stack[k].at
             /\ k # Len(stack) => stack'[k].at = stack[k].at
             /\ k = Len(stack) => stack'[k].at = Top.at + 1 /\ stack[k] = Top
  <2>1. CASE k = Len(stack)
    <3>1. stack # <<>>
      BY <1>3
    <3>2. Top = stack[k]
      BY <2>1, <3>1, TopShape
    <3>3. Top.at >= 1
      BY <1>1, <3>1, ChildIsNext
    <3>4. stack'[k].at = stack[k].at + 1 /\ stack[k].at \in Nat
      BY <1>2, <1>3, <2>1
    <3> QED
      BY <2>1, <3>2, <3>3, <3>4
  <2>2. CASE k # Len(stack)
    <3>1. k < Len(stack)
      BY <1>3, <2>2
    <3>2. stack[k].at >= 2
      BY <1>1, <3>1 DEF StackOK, Walks
    <3>3. stack'[k].at = stack[k].at /\ stack[k].at \in Nat
      BY <1>2, <1>3, <2>2
    <3> QED
      BY <2>2, <3>2, <3>3
  <2> QED
    BY <2>1, <2>2
<1>6. /\ stack'[Len(stack) + 1].node = c /\ stack'[Len(stack) + 1].path = p
      /\ stack'[Len(stack) + 1].at = 1
  BY <1>2
<1> QED
  BY <1>2, <1>3, <1>4, <1>5, <1>6

\* What was awaited still is, but at the place that is entered.
LEMMA AwaitedStays ==
    ASSUME DocumentTypeOK, CopiedOK, StackOK, AwaitedOK, Enter, NEW n, NEW p,
           Awaited(n, p), p # Place
    PROVE  Awaited(n, p)'
<1>1. stage = "expand" /\ Unentered /\ document' = document
  BY EnterMeans
<1>2. \A k \in DOMAIN stack :
        /\ k \in DOMAIN stack'
        /\ stack'[k].node = stack[k].node /\ stack'[k].path = stack[k].path
        /\ k # Len(stack) => stack'[k].at = stack[k].at
        /\ k = Len(stack) => stack'[k].at = Top.at + 1 /\ stack[k] = Top
  <2>1. /\ Len(stack) \in Nat
        /\ DOMAIN stack' = 1 .. Len(stack) + 1 /\ DOMAIN stack = 1 .. Len(stack)
        /\ \A k \in DOMAIN stack :
                /\ stack'[k].node = stack[k].node /\ stack'[k].path = stack[k].path
                /\ k # Len(stack) => stack'[k].at = stack[k].at
                /\ k = Len(stack) => stack'[k].at = Top.at + 1 /\ stack[k] = Top
    BY EnterFrames
  <2> QED
    BY <2>1
<1>3. CASE stack = <<>>
  <2>1. Place = <<>> /\ DOMAIN stack = {}
    BY <1>3, ChildOfNone
  <2> QED
    BY <2>1 DEF Awaited
<1>4. CASE stack # <<>>
  <2>1. PICK k \in DOMAIN stack : AwaitsChild(k, n, p) \/ AwaitsItself(k, n, p)
    BY <1>4 DEF Awaited
  <2>2. CASE k # Len(stack)
    <3>1. stack'[k].at = stack[k].at
      BY <1>2, <2>2
    <3>2. AwaitsChild(k, n, p)' \/ AwaitsItself(k, n, p)'
      BY <1>1, <1>2, <2>1, <3>1 DEF AwaitsChild, AwaitsItself, Is
    <3> QED
      BY <1>2, <3>2 DEF Awaited
  <2>3. CASE k = Len(stack) /\ Is(Top.node, "alias")
    <3>1. Place = Top.path
      BY <1>1, <1>4, <2>3, ChildOfAlias
    <3>2. stack[k] = Top
      BY <1>2, <2>3
    <3> QED
      BY <2>1, <2>3, <3>1, <3>2 DEF AwaitsChild, AwaitsItself
  <2>4. CASE k = Len(stack) /\ ~Is(Top.node, "alias")
    <3>1. Place = Append(Top.path, Top.at) /\ Top.at \in Nat
      BY <1>1, <1>4, <2>4, ChildOfNode
    <3>2. stack[k] = Top /\ stack'[k].at = Top.at + 1
      BY <1>2, <2>4
    <3>3. PICK i \in DOMAIN document[Top.node].content :
            i >= Top.at /\ p = Append(Top.path, i) /\ n = document[Top.node].content[i]
      BY <2>1, <2>4, <3>2 DEF AwaitsChild, AwaitsItself
    <3>4. i \in Nat
      <4>1. Top.node \in DOMAIN document
        BY <1>4, TopShape
      <4>2. document[Top.node].content \in Seq(DOMAIN document)
        BY <4>1, DocumentShape DEF DocumentTypeOK
      <4> QED
        BY <4>2
    <3>5. i >= Top.at + 1
      BY <3>1, <3>3, <3>4
    <3>6. AwaitsChild(k, n, p)'
      <4>1. stack'[k].node = Top.node /\ stack'[k].path = Top.path
        BY <1>2, <3>2
      <4> QED
        BY <1>1, <2>4, <3>2, <3>3, <3>5, <4>1 DEF AwaitsChild, Is
    <3> QED
      BY <1>2, <3>6 DEF Awaited
  <2> QED
    BY <2>2, <2>3, <2>4
<1> QED
  BY <1>3, <1>4

LEMMA EnterCovers ==
    ASSUME DocumentTypeOK, CopiedOK, StackOK, AwaitedOK, Enter, NEW n, NEW p, Due(n, p)'
    PROVE  p \in DOMAIN tree' \/ Awaited(n, p)'
<1> PICK c \in DOMAIN document : c = Child
  BY EnterMeans
<1> PICK here \in Paths : here = Place
  BY EnterMeans
<1> PICK last \in Nat : last = Len(stack)
  <2>1. Len(stack) \in Nat
    BY StackShape
  <2> QED
    BY <2>1
<1>1. /\ stage = "expand" /\ document' = document
      /\ \A q \in DOMAIN tree : q \in DOMAIN tree' /\ tree'[q] = tree[q]
  BY EnterMeans
<1>2. IF Is(c, "alias") THEN DOMAIN tree' = DOMAIN tree
      ELSE DOMAIN tree' = DOMAIN tree \union {here} /\ tree'[here].node = c
  BY EnterMeans
<1>3. ~Is(c, "alias") \/ Due(c, here)
  BY EnterMeans
<1>4. /\ DOMAIN stack' = 1 .. last + 1
      /\ stack'[last + 1].node = c /\ stack'[last + 1].path = here /\ stack'[last + 1].at = 1
  BY EnterFrames
<1>5. last + 1 \in DOMAIN stack'
  BY <1>4
<1>6. CASE Due(n, p)
  <2>1. p \in DOMAIN tree \/ Awaited(n, p)
    BY <1>1, <1>6 DEF AwaitedOK
  <2>2. CASE p # here
    BY <1>1, <2>1, <2>2, AwaitedStays
  <2>3. CASE p = here /\ Is(c, "alias")
    <3>1. n = c
      BY <1>3, <1>6, <2>3, DueOnce
    <3>2. AwaitsItself(last + 1, n, p)'
      BY <1>1, <1>4, <2>3, <3>1 DEF AwaitsItself, Is
    <3> QED
      BY <1>5, <3>2 DEF Awaited
  <2>4. CASE p = here /\ ~Is(c, "alias")
    BY <1>2, <2>4
  <2> QED
    BY <2>2, <2>3, <2>4
<1>7. CASE ~Due(n, p)
  <2>1. PICK q \in DOMAIN tree' : \E i \in DOMAIN document[tree'[q].node].content :
          p = Append(q, i) /\ n = document[tree'[q].node].content[i]
    BY <1>1, <1>7 DEF Due
  <2>2. PICK i \in DOMAIN document[tree'[q].node].content :
          p = Append(q, i) /\ n = document[tree'[q].node].content[i]
    BY <2>1
  <2>3. q \notin DOMAIN tree
    <3> SUFFICES ASSUME q \in DOMAIN tree PROVE FALSE
      OBVIOUS
    <3>1. tree'[q] = tree[q]
      BY <1>1
    <3>2. Due(n, p)
      BY <2>2, <3>1, DueBelow
    <3> QED
      BY <1>7, <3>2
  <2>4. q = here /\ ~Is(c, "alias") /\ tree'[q].node = c
    BY <1>2, <2>3
  <2>5. i \in Nat /\ i >= 1
    <3>1. document[c].content \in Seq(DOMAIN document)
      BY DocumentShape DEF DocumentTypeOK
    <3>2. i \in DOMAIN document[c].content
      BY <2>4
    <3> QED
      BY <3>1, <3>2
  <2>6. AwaitsChild(last + 1, n, p)'
    BY <1>1, <1>4, <2>2, <2>4, <2>5 DEF AwaitsChild, Is
  <2> QED
    BY <1>5, <2>6 DEF Awaited
<1> QED
  BY <1>6, <1>7

\* A place below one that is not in the tree is not in it either.
LEMMA NothingBelow ==
    ASSUME DocumentTypeOK, CopiedOK, Expanding, NEW p \in Paths, NEW i \in Nat,
           p \notin DOMAIN tree
    PROVE  Append(p, i) \notin DOMAIN tree
<1> SUFFICES ASSUME Append(p, i) \in DOMAIN tree PROVE FALSE
  OBVIOUS
<1> PICK r : r = Append(p, i)
  OBVIOUS
<1>1. PICK n \in DOMAIN document : Due(n, r)
  BY DEF CopiedOK
<1>2. r # <<>>
  BY PlaceBelow
<1>3. PICK q \in DOMAIN tree : \E j \in DOMAIN document[tree[q].node].content : r = Append(q, j)
  BY <1>1, <1>2 DEF Due
<1>4. PICK j \in DOMAIN document[tree[q].node].content : r = Append(q, j)
  BY <1>3
<1>5. q \in Paths /\ tree[q].node \in DOMAIN document
  BY DEF DocumentTypeOK
<1>6. document[tree[q].node].content \in Seq(DOMAIN document)
  BY <1>5, DocumentShape DEF DocumentTypeOK
<1>7. j \in Nat
  BY <1>6
<1>8. Append(p, i) = Append(q, j)
  BY <1>4
<1>9. p = q
  BY <1>5, <1>7, <1>8, BelowOnce
<1> QED
  BY <1>9

\* The place to copy to next is next for one frame.
LEMMA NextIsOnce ==
    ASSUME DocumentTypeOK, StackOK, stage = "expand", Unentered, stack # <<>>,
           ~Is(Top.node, "alias"),
           NEW k \in DOMAIN stack, ~Is(stack[k].node, "alias"),
           NEW i \in DOMAIN document[stack[k].node].content, Append(stack[k].path, i) = Place
    PROVE  k = Len(stack) /\ i = Top.at
<1>1. Place = Append(Top.path, Top.at) /\ Top.at \in Nat
  BY ChildOfNode
<1>2. Top = stack[Len(stack)] /\ Len(stack) \in DOMAIN stack /\ Top.path \in Paths
  BY TopShape
<1>3. stack[k].node \in DOMAIN document /\ stack[k].path \in Paths
  BY StackShape
<1>4. i \in Nat
  <2>1. document[stack[k].node].content \in Seq(DOMAIN document)
    BY <1>3, DocumentShape DEF DocumentTypeOK
  <2> QED
    BY <2>1
<1>5. Append(stack[k].path, i) = Append(Top.path, Top.at)
  BY <1>1
<1>6. stack[k].path = Top.path /\ i = Top.at
  <2>0. PICK p \in Paths, q \in Paths, m \in Nat, j \in Nat :
        p = stack[k].path /\ q = Top.path /\ m = i /\ j = Top.at
    BY <1>1, <1>2, <1>3, <1>4
  <2>1. Append(p, m) = Append(q, j)
    BY <1>5, <2>0
  <2>2. \A r \in Paths, l \in Nat : Append(p, m) = Append(r, l) => p = r /\ m = l
    BY PlaceBelow
  <2>3. p = q /\ m = j
    BY <2>1, <2>2
  <2> QED
    BY <2>0, <2>3
<1>7. tree[stack[k].path].node = stack[k].node /\ tree[Top.path].node = Top.node
  BY <1>2 DEF StackOK, Placed
<1>8. stack[k].node = stack[Len(stack)].node
  BY <1>2, <1>6, <1>7
<1>9. k = Len(stack)
  BY <1>2, <1>8 DEF StackOK
<1> QED
  BY <1>6, <1>9

LEMMA EnterFresh ==
    ASSUME DocumentTypeOK, CopiedOK, StackOK, AwaitedOK, Enter, NEW k \in DOMAIN stack'
    PROVE  Fresh(k)'
<1> PICK c \in DOMAIN document : c = Child
  BY EnterMeans
<1> PICK here \in Paths : here = Place
  BY EnterMeans
<1> PICK last \in Nat : last = Len(stack)
  <2>1. Len(stack) \in Nat
    BY StackShape
  <2> QED
    BY <2>1
<1>1. /\ stage = "expand" /\ document' = document /\ Unentered
      /\ here \notin DOMAIN tree
  BY EnterMeans
<1>2. IF Is(c, "alias") THEN DOMAIN tree' = DOMAIN tree
      ELSE DOMAIN tree' = DOMAIN tree \union {here} /\ tree'[here].node = c
  BY EnterMeans
<1>3. /\ DOMAIN stack' = 1 .. last + 1 /\ DOMAIN stack = 1 .. last
      /\ stack'[last + 1].node = c /\ stack'[last + 1].path = here /\ stack'[last + 1].at = 1
      /\ \A j \in DOMAIN stack :
                /\ stack'[j].node = stack[j].node /\ stack'[j].path = stack[j].path
                /\ stack'[j].at >= 2 /\ stack'[j].at \in Nat /\ stack'[j].at >= stack[j].at
                /\ j = last => stack'[j].at = Top.at + 1 /\ stack[j] = Top
  BY EnterFrames
<1>4. \A j \in DOMAIN stack : stack[j].node \in DOMAIN document /\ stack[j].path \in Paths
                               /\ stack[j].at \in Nat
  BY StackShape
<1>5. \A n \in DOMAIN document : \A i \in DOMAIN document[n].content : i \in Nat
  <2>1. \A n \in DOMAIN document : document[n].content \in Seq(DOMAIN document)
    BY DocumentShape DEF DocumentTypeOK
  <2> QED
    BY <2>1
<1>6. \A j \in DOMAIN stack' : stack'[j].at = 1 => j = last + 1
  <2> SUFFICES ASSUME NEW j \in DOMAIN stack', j # last + 1 PROVE stack'[j].at # 1
    OBVIOUS
  <2>1. j \in DOMAIN stack
    BY <1>3
  <2>2. stack'[j].at >= 2 /\ stack'[j].at \in Nat
    BY <1>3, <2>1
  <2> QED
    BY <2>2
<1>7. CASE k = last + 1
  <2>1. CASE Is(c, "alias")
    BY <1>1, <1>2, <1>3, <1>7, <2>1 DEF Fresh, Is
  <2>2. CASE ~Is(c, "alias")
    <3>1. ASSUME NEW i \in DOMAIN document[c].content
          PROVE  Append(here, i) \notin DOMAIN tree'
      <4>1. i \in Nat
        BY <1>5
      <4>2. Append(here, i) # here
        <5>1. Len(Append(here, i)) = Len(here) + 1 /\ Len(here) \in Nat
          BY <4>1, PlaceBelow
        <5> QED
          BY <5>1
      <4>3. Append(here, i) \notin DOMAIN tree
        BY <1>1, <4>1, NothingBelow DEF Expanding
      <4> QED
        BY <1>2, <2>2, <4>2, <4>3
    <3>2. \A j \in DOMAIN stack' : ~(Is(stack'[j].node, "alias") /\ stack'[j].at = 1)
      BY <1>3, <1>6, <2>2
    <3>3. \A j \in DOMAIN stack' : ~(document'[stack'[j].node].kind = "alias" /\ stack'[j].at = 1)
      BY <1>1, <3>2 DEF Is
    <3> QED
      BY <1>1, <1>3, <1>7, <2>2, <3>1, <3>3 DEF Fresh, Is
  <2> QED
    BY <2>1, <2>2
<1>8. CASE k # last + 1
  <2>1. /\ k \in DOMAIN stack /\ stack'[k].node = stack[k].node /\ stack'[k].path = stack[k].path
        /\ stack'[k].at # 1 /\ stack'[k].at \in Nat /\ stack'[k].at >= stack[k].at
        /\ k = last => stack'[k].at = Top.at + 1 /\ stack[k] = Top
    BY <1>3, <1>6, <1>8
  <2>2. ASSUME ~Is(stack[k].node, "alias"), NEW i \in DOMAIN document[stack[k].node].content,
               i >= stack'[k].at
        PROVE  Append(stack[k].path, i) \notin DOMAIN tree /\ Append(stack[k].path, i) # here
    <3> PICK n \in DOMAIN document, p \in Paths : n = stack[k].node /\ p = stack[k].path
      BY <1>4, <2>1
    <3>1. i \in Nat /\ i >= stack[k].at
      <4>1. i \in Nat
        BY <1>5
      <4>2. stack[k].at \in Nat
        BY <1>4, <2>1
      <4> QED
        BY <2>1, <2>2, <4>1, <4>2
    <3>2. /\ Append(p, i) \notin DOMAIN tree
          /\ \A j \in DOMAIN stack : Is(stack[j].node, "alias") /\ stack[j].at = 1
                => Append(p, i) # stack[j].path
      BY <1>1, <2>1, <2>2, <3>1 DEF AwaitedOK, Fresh
    <3>3. stack # <<>> /\ last \in DOMAIN stack
      BY <1>3, <2>1
    <3>4. CASE Is(Top.node, "alias")
      <4>1. Top.at = 1 /\ here = Top.path
        BY <1>1, <3>3, <3>4, ChildOfAlias
      <4>2. stack[last] = Top
        BY <1>3, <3>3
      <4> QED
        BY <3>2, <3>3, <3>4, <4>1, <4>2
    <3>5. CASE ~Is(Top.node, "alias")
      <4>1. here = Append(Top.path, Top.at) /\ Top.at \in Nat
        BY <1>1, <3>3, <3>5, ChildOfNode
      <4>2. stack[last] = Top /\ Top.path \in Paths
        BY <1>3, <1>4, <3>3
      <4> SUFFICES ASSUME Append(p, i) = here PROVE FALSE
        BY <3>2
      <4>3. k = last /\ i = Top.at
        BY <1>1, <2>1, <2>2, <3>3, <3>5, NextIsOnce
      <4> QED
        BY <2>1, <2>2, <4>1, <4>3
    <3> QED
      BY <3>4, <3>5
  <2>3. ASSUME ~Is(stack[k].node, "alias"), NEW i \in DOMAIN document[stack[k].node].content,
               i >= stack'[k].at
        PROVE  /\ Append(stack[k].path, i) \notin DOMAIN tree'
               /\ \A j \in DOMAIN stack' : stack'[j].at = 1 => Append(stack[k].path, i) # stack'[j].path
    <3> PICK p : p = Append(stack[k].path, i)
      OBVIOUS
    <3>1. p \notin DOMAIN tree /\ p # here
      BY <2>2, <2>3
    <3>2. p \notin DOMAIN tree'
      BY <1>2, <3>1
    <3>3. \A j \in DOMAIN stack' : stack'[j].at = 1 => stack'[j].path = here
      BY <1>3, <1>6
    <3> QED
      BY <3>1, <3>2, <3>3
  <2> QED
    BY <1>1, <2>1, <2>3 DEF Fresh, Is
<1> QED
  BY <1>7, <1>8

LEMMA EnterAwaited ==
    ASSUME DocumentTypeOK, CopiedOK, StackOK, AwaitedOK, Enter
    PROVE  AwaitedOK'
<1>1. stack' # <<>>
  BY EnterFrames
<1>2. \A n, p : Due(n, p)' => p \in DOMAIN tree' \/ Awaited(n, p)'
  BY EnterCovers
<1>3. \A k \in DOMAIN stack' : Fresh(k)'
  BY EnterFresh
<1> QED
  BY <1>1, <1>2, <1>3 DEF AwaitedOK

\* The frame that is left awaits nothing.
LEMMA TopDone ==
    ASSUME DocumentTypeOK, StackOK, Leave, NEW n, NEW p
    PROVE  ~AwaitsChild(Len(stack), n, p) /\ ~AwaitsItself(Len(stack), n, p)
<1>1. /\ stack # <<>> /\ Top = stack[Len(stack)] /\ Len(stack) \in DOMAIN stack
      /\ Top.at > Len(Children(Top.node)) /\ stage = "expand"
  BY LeaveMeans
<1>2. Top.node \in DOMAIN document /\ Top.at \in Nat
  BY <1>1, TopShape
<1>3. /\ document[Top.node].content \in Seq(DOMAIN document)
      /\ ~Is(Top.node, "alias") => Children(Top.node) = document[Top.node].content
      /\ Is(Top.node, "alias") => Len(Children(Top.node)) = 1
  BY <1>2, DocumentShape DEF DocumentTypeOK
<1>4. CASE Is(Top.node, "alias")
  <2>1. Top.at # 1
    <3>1. Len(Children(Top.node)) = 1
      BY <1>3, <1>4
    <3>2. Top.at > 1
      BY <1>1, <3>1
    <3> QED
      BY <3>2
  <2> QED
    BY <1>1, <1>4, <2>1 DEF AwaitsChild, AwaitsItself
<1>5. CASE ~Is(Top.node, "alias")
  <2>1. \A i \in DOMAIN document[Top.node].content : ~(i >= Top.at)
    BY <1>1, <1>2, <1>3, <1>5
  <2> QED
    BY <1>1, <1>5, <2>1 DEF AwaitsChild, AwaitsItself
<1> QED
  BY <1>4, <1>5

LEMMA LeaveAwaited ==
    ASSUME DocumentTypeOK, StackOK, AwaitedOK, Leave
    PROVE  AwaitedOK'
<1> SUFFICES ASSUME stage' = "expand" PROVE AwaitedOK'
  BY DEF AwaitedOK
<1>1. /\ Len(stack) \in Nat /\ Len(stack) >= 1 /\ stack # <<>>
      /\ stack' \in Seq(Frame) /\ Len(stack') = Len(stack) - 1
      /\ DOMAIN stack' = 1 .. Len(stack) - 1
      /\ \A k \in 1 .. Len(stack) - 1 : k \in DOMAIN stack /\ stack'[k] = stack[k]
      /\ stage = "expand" /\ document' = document /\ tree' = tree
      /\ Len(stack) # 1
  BY LeaveMeans
<1>2. DOMAIN stack = 1 .. Len(stack)
  BY StackShape
<1>3. stack' # <<>>
  BY <1>1
<1>4. ASSUME NEW n, NEW p, Due(n, p)' PROVE p \in DOMAIN tree' \/ Awaited(n, p)'
  <2>1. Due(n, p)
    BY <1>1, <1>4 DEF Due
  <2>2. CASE p \in DOMAIN tree
    BY <1>1, <2>2
  <2>3. CASE Awaited(n, p)
    <3>1. PICK k \in DOMAIN stack : AwaitsChild(k, n, p) \/ AwaitsItself(k, n, p)
      BY <1>1, <2>3 DEF Awaited
    <3>2. k # Len(stack)
      BY <3>1, TopDone
    <3>3. k \in DOMAIN stack' /\ stack'[k] = stack[k]
      BY <1>1, <1>2, <3>2
    <3>4. AwaitsChild(k, n, p)' \/ AwaitsItself(k, n, p)'
      BY <1>1, <3>1, <3>3 DEF AwaitsChild, AwaitsItself, Is
    <3> QED
      BY <3>3, <3>4 DEF Awaited
  <2> QED
    BY <1>1, <2>1, <2>2, <2>3 DEF AwaitedOK
<1>5. ASSUME NEW k \in DOMAIN stack' PROVE Fresh(k)'
  <2>1. k \in DOMAIN stack /\ stack'[k] = stack[k]
    BY <1>1
  <2>2. Fresh(k)
    BY <1>1, <2>1 DEF AwaitedOK
  <2>3. \A j \in DOMAIN stack' : j \in DOMAIN stack /\ stack'[j] = stack[j]
    BY <1>1
  <2>4. document' = document /\ tree' = tree
    BY <1>1
  <2> QED
    BY <2>1, <2>2, <2>3, <2>4 DEF Fresh, Is
<1> QED
  BY <1>3, <1>4, <1>5 DEF AwaitedOK

LEMMA AwaitedStep ==
    DocumentTypeOK /\ CheckedOK /\ CopiedOK /\ IdleOK /\ StackOK /\ AwaitedOK
        /\ [DocumentNext]_documentVars => AwaitedOK'
<1> SUFFICES ASSUME DocumentTypeOK, CheckedOK, CopiedOK, IdleOK, StackOK, AwaitedOK,
                    [DocumentNext]_documentVars
             PROVE  AwaitedOK'
  OBVIOUS
<1>1. CASE stage' # "expand"
  BY <1>1 DEF AwaitedOK
<1>2. CASE EndCheck /\ stage' = "expand"
  <2>1. stack' = <<>> /\ tree' = NoTree
    BY <1>2 DEF EndCheck, IdleOK
  <2>2. DOMAIN stack' = {} /\ DOMAIN tree' = {}
    BY <2>1 DEF NoTree
  <2>3. \A n, p : Due(n, p)' => n = Root /\ p = <<>>
    BY <2>2 DEF Due
  <2>4. Awaited(Root, <<>>)'
    BY <2>1 DEF Awaited
  <2> QED
    BY <2>1, <2>2, <2>3, <2>4 DEF AwaitedOK
<1>3. CASE EnterAlias \/ EnterNode
  BY <1>3, EnterAwaited DEF Enter
<1>4. CASE Leave
  BY <1>4, LeaveAwaited
<1>5. ~(Collect /\ ~Refuse /\ stage' = "expand")
  BY DEF Collect
<1>6. CASE UNCHANGED documentVars
  <2>1. /\ stage' = stage /\ stack' = stack /\ document' = document /\ tree' = tree
    BY <1>6 DEF documentVars
  <2>2. ASSUME NEW k, Fresh(k) PROVE Fresh(k)'
    BY <2>1, <2>2 DEF Fresh, Is
  <2>3. ASSUME NEW n, NEW p, Due(n, p)' PROVE Due(n, p)
    BY <2>1, <2>3 DEF Due
  <2>4. ASSUME NEW n, NEW p, Awaited(n, p) PROVE Awaited(n, p)'
    BY <2>1, <2>4 DEF Awaited, AwaitsChild, AwaitsItself, Is
  <2> QED
    BY <2>1, <2>2, <2>3, <2>4 DEF AwaitedOK
<1>7. stage' = "expand" => Expanding'
  BY DEF Expanding
<1> QED
  BY <1>1, <1>2, <1>3, <1>4, <1>5, <1>6, <1>7, StillExpanding

LEMMA WholeStep ==
    DocumentTypeOK /\ CheckedOK /\ CopiedOK /\ StackOK /\ AwaitedOK /\ WholeOK
        /\ [DocumentNext]_documentVars => WholeOK'
<1> SUFFICES ASSUME DocumentTypeOK, CheckedOK, CopiedOK, StackOK, AwaitedOK, WholeOK,
                    [DocumentNext]_documentVars, stage' \in {"collect", "accepted"},
                    NEW n, NEW p, Due(n, p)'
             PROVE  p \in DOMAIN tree'
  BY DEF WholeOK
<1>1. CASE EndCheck
  <2>1. stage = "check" /\ pending = <<>> /\ UNCHANGED <<document, tree>>
    BY <1>1 DEF EndCheck
  <2>2. Due(n, p)
    BY <2>1 DEF Due
  <2>3. /\ <<>> \in DOMAIN tree
        /\ \A q \in DOMAIN tree : \A i \in DOMAIN document[tree[q].node].content :
             Append(q, i) \in DOMAIN tree
    BY <2>1, CheckedMeans
  <2> QED
    BY <2>1, <2>2, <2>3 DEF Due
<1>2. ~EnterAlias /\ ~EnterNode
  BY DEF EnterAlias, EnterNode, Push
<1>3. CASE Leave
  <2>1. /\ Len(stack) = 1 /\ stack # <<>> /\ stage = "expand" /\ UNCHANGED <<document, tree>>
    BY <1>3, LeaveMeans
  <2>2. DOMAIN stack = {1}
    BY <2>1, StackShape
  <2>3. ~Awaited(n, p)
    <3>1. ~AwaitsChild(1, n, p) /\ ~AwaitsItself(1, n, p)
      BY <1>3, <2>1, TopDone
    <3> QED
      BY <2>1, <2>2, <3>1 DEF Awaited
  <2>4. Due(n, p)
    BY <2>1 DEF Due
  <2> QED
    BY <2>1, <2>3, <2>4 DEF AwaitedOK
<1>4. CASE Collect /\ ~Refuse
  <2>1. stage = "collect" /\ UNCHANGED <<document, tree>>
    BY <1>4 DEF Collect
  <2>2. Due(n, p)
    BY <2>1 DEF Due
  <2> QED
    BY <2>1, <2>2 DEF WholeOK
<1>5. CASE UNCHANGED documentVars
  <2>1. UNCHANGED <<stage, document, tree>>
    BY <1>5 DEF documentVars
  <2>2. Due(n, p)
    BY <2>1 DEF Due
  <2> QED
    BY <2>1, <2>2 DEF WholeOK
<1>6. Expanding'
  BY DEF Expanding
<1> QED
  BY <1>1, <1>2, <1>3, <1>4, <1>5, <1>6, StillExpanding

-----------------------------------------------------------------------------
(* The meaning of a document, depth by depth *)

Spots == [path : Paths, node : DOMAIN document]
Under(place) ==
    {[path |-> Append(place.path, i), node |-> document[Meant(place.node)].content[i]]
        : i \in DOMAIN document[Meant(place.node)].content}
Deeper(places) == UNION {Under(place) : place \in places}

LEMMA SpotsBelow ==
    ASSUME document \in Documents, NEW place \in Spots
    PROVE  Under(place) \subseteq Spots
<1> PICK m \in DOMAIN document : m = Meant(place.node)
  <2>1. place.node \in DOMAIN document
    BY DEF Spots
  <2> QED
    BY <2>1, DocumentShape
<1>1. document[m].content \in Seq(DOMAIN document)
  BY DocumentShape
<1>2. \A i \in DOMAIN document[m].content : i \in Nat /\ document[m].content[i] \in DOMAIN document
  BY <1>1
<1>3. place.path \in Paths
  BY DEF Spots
<1>4. \A i \in Nat : Append(place.path, i) \in Paths
  BY <1>3, PlaceBelow
<1>5. \A i \in DOMAIN document[m].content :
        [path |-> Append(place.path, i), node |-> document[m].content[i]] \in Spots
  BY <1>2, <1>4 DEF Spots
<1> QED
  BY <1>5 DEF Under

LEMMA LevelMeans ==
    ASSUME document \in Documents
    PROVE  /\ Level[0] = {[path |-> <<>>, node |-> Root]}
           /\ \A d \in 1 .. MaxDepth + 1 : Level[d] = Deeper(Level[d - 1])
<1> DEFINE size == MaxDepth + 1
           V == SUBSET Spots
           base == {[path |-> <<>>, node |-> Root]}
           op == [ns \in V |-> Deeper(ns)]
           Body(f) == [d \in 0 .. size |-> IF d = 0 THEN base ELSE Deeper(f[d - 1])]
           level == CHOOSE f : f = Body(f)
<1>1. size \in Nat
  BY DocumentAssumption
<1>2. op \in [V -> V] /\ base \in V
  <2>1. \A ns \in V : Deeper(ns) \in V
    BY SpotsBelow DEF Deeper
  <2>2. base \in V
    BY DocumentShape DEF Spots, Paths
  <2> QED
    BY <2>1, <2>2
<1>3. \E f \in [0 .. size -> V] : Recurs(f, size, base, op)
  <2> HIDE DEF size, op, V, base
  <2> QED
    BY <1>1, <1>2, RecursionExists
<1>4. PICK f \in [0 .. size -> V] : f[0] = base /\ \A d \in 1 .. size : f[d] = op[f[d - 1]]
  BY <1>3 DEF Recurs
<1>5. f = Body(f)
  <2>1. ASSUME NEW d \in 0 .. size
        PROVE  f[d] = IF d = 0 THEN base ELSE Deeper(f[d - 1])
    <3>1. CASE d = 0
      BY <1>4, <3>1
    <3>2. CASE d # 0
      <4>1. d \in 1 .. size /\ d - 1 \in 0 .. size
        BY <1>1, <3>2
      <4>2. f[d] = op[f[d - 1]] /\ f[d - 1] \in V
        BY <1>4, <4>1
      <4> QED
        BY <3>2, <4>2
    <3> QED
      BY <3>1, <3>2
  <2>2. f = [d \in 0 .. size |-> f[d]]
    BY <1>4
  <2> HIDE DEF size, base
  <2> QED
    BY <2>1, <2>2
<1>6. level = Body(level)
  <2> HIDE DEF Body
  <2> QED
    BY <1>5, Zenon
<1>7. Level = level
  BY DEF Level, Deeper, Under
<1> HIDE DEF level
<1>8. \A d \in 0 .. size : level[d] = IF d = 0 THEN base ELSE Deeper(level[d - 1])
  <2> HIDE DEF base, size
  <2> QED
    BY <1>6
<1>9. level[0] = base /\ \A d \in 1 .. size : level[d] = Deeper(level[d - 1])
  <2>1. 0 \in 0 .. size /\ \A d \in 1 .. size : d \in 0 .. size /\ d # 0
    BY <1>1
  <2> HIDE DEF base, size
  <2> QED
    BY <1>8, <2>1
<1> QED
  BY <1>7, <1>9

LEMMA LevelsAreSpots ==
    ASSUME document \in Documents
    PROVE  \A d \in 0 .. MaxDepth + 1 : Level[d] \subseteq Spots
<1> DEFINE size == MaxDepth + 1
           P == {d \in 0 .. size : Level[d] \subseteq Spots}
<1>1. size \in Nat
  BY DocumentAssumption
<1>2. /\ Level[0] = {[path |-> <<>>, node |-> Root]}
      /\ \A d \in 1 .. size : Level[d] = Deeper(Level[d - 1])
  BY LevelMeans
<1>3. 0 \in P
  <2>1. Level[0] \subseteq Spots
    BY <1>2, DocumentShape DEF Spots, Paths
  <2> QED
    BY <1>1, <2>1
<1>4. ASSUME NEW d \in 0 .. size, d \in P, d < size PROVE d + 1 \in P
  <2>1. d + 1 \in 1 .. size /\ d + 1 - 1 = d
    BY <1>1, <1>4
  <2>2. Level[d + 1] = Deeper(Level[d])
    BY <1>2, <2>1
  <2>3. Deeper(Level[d]) \subseteq Spots
    BY <1>4, SpotsBelow DEF Deeper
  <2> QED
    BY <2>1, <2>2, <2>3
<1> HIDE DEF P, size
<1>5. \A d \in 0 .. size : d \in P
  BY <1>1, <1>3, <1>4, Induction
<1> QED
  BY <1>5 DEF P, size

\* What is due is what the document means there.
LEMMA DueIsMeant ==
    ASSUME DocumentTypeOK, CopiedOK, Expanding, NEW n, NEW p, Due(n, p)
    PROVE  Len(p) \in 0 .. MaxDepth + 1 /\ [path |-> p, node |-> n] \in Level[Len(p)]
<1> DEFINE size == MaxDepth + 1
           Meets(d) == \A m, q : Due(m, q) /\ Len(q) = d => [path |-> q, node |-> m] \in Level[d]
           P == {d \in 0 .. size : Meets(d)}
<1>1. size \in Nat /\ document \in Documents
  BY DocumentAssumption DEF DocumentTypeOK
<1>2. /\ Level[0] = {[path |-> <<>>, node |-> Root]}
      /\ \A d \in 1 .. size : Level[d] = Deeper(Level[d - 1])
  BY <1>1, LevelMeans
<1>3. \A q \in DOMAIN tree : \A i \in DOMAIN document[tree[q].node].content :
        q \in Paths /\ i \in Nat /\ Len(q) \in Nat /\ Len(Append(q, i)) = Len(q) + 1
  <2> SUFFICES ASSUME NEW q \in DOMAIN tree, NEW i \in DOMAIN document[tree[q].node].content
               PROVE  q \in Paths /\ i \in Nat /\ Len(q) \in Nat /\ Len(Append(q, i)) = Len(q) + 1
    OBVIOUS
  <2>1. q \in Paths /\ tree[q].node \in DOMAIN document
    BY DEF DocumentTypeOK
  <2>2. document[tree[q].node].content \in Seq(DOMAIN document)
    BY <1>1, <2>1, DocumentShape
  <2>3. i \in Nat
    BY <2>2
  <2> QED
    BY <2>1, <2>3, PlaceBelow
<1>4. 0 \in P
  <2>1. ASSUME NEW m, NEW q, Due(m, q), Len(q) = 0 PROVE q = <<>> /\ m = Root
    <3>1. ASSUME NEW r \in DOMAIN tree, NEW i \in DOMAIN document[tree[r].node].content
          PROVE  q # Append(r, i)
      BY <1>3, <2>1
    <3> QED
      BY <2>1, <3>1 DEF Due
  <2> QED
    BY <1>1, <1>2, <2>1
<1>5. ASSUME NEW d \in 0 .. size, d \in P, d < size PROVE d + 1 \in P
  <2>1. d + 1 \in 1 .. size /\ d + 1 - 1 = d /\ d + 1 \in 0 .. size /\ d \in Nat
    BY <1>1, <1>5
  <2>2. Level[d + 1] = Deeper(Level[d])
    BY <1>2, <2>1
  <2>3. ASSUME NEW m, NEW q, Due(m, q), Len(q) = d + 1
        PROVE  [path |-> q, node |-> m] \in Level[d + 1]
    <3>1. q # <<>>
      BY <2>1, <2>3
    <3>2. PICK r \in DOMAIN tree : \E i \in DOMAIN document[tree[r].node].content :
            q = Append(r, i) /\ m = document[tree[r].node].content[i]
      BY <2>3, <3>1 DEF Due
    <3>3. PICK i \in DOMAIN document[tree[r].node].content :
            q = Append(r, i) /\ m = document[tree[r].node].content[i]
      BY <3>2
    <3>4. Len(r) = d
      BY <1>3, <2>1, <2>3, <3>3
    <3>5. PICK o \in DOMAIN document : Due(o, r) /\ tree[r] = Entry(Meant(o), document[o].line)
      BY DEF CopiedOK
    <3>6. tree[r].node = Meant(o)
      BY <3>5 DEF Entry
    <3> PICK spot : spot = [path |-> r, node |-> o]
      OBVIOUS
    <3>7. spot \in Level[d]
      BY <1>5, <3>4, <3>5
    <3>8. spot.path = r /\ spot.node = o
      OBVIOUS
    <3>9. [path |-> q, node |-> m] \in Under(spot)
      BY <3>3, <3>6, <3>8 DEF Under
    <3> QED
      BY <2>2, <3>7, <3>9 DEF Deeper
  <2> QED
    BY <2>1, <2>3
<1>6. Len(p) \in 0 .. size
  <2>1. Len(p) \in Nat /\ Len(p) <= MaxDepth + 1
    BY DueDepth
  <2> QED
    BY <1>1, <2>1
<1> HIDE DEF P, size
<1>7. \A d \in 0 .. size : d \in P
  BY <1>1, <1>4, <1>5, Induction
<1>8. Meets(Len(p))
  BY <1>6, <1>7 DEF P
<1> QED
  BY <1>6, <1>8 DEF size

\* Once the tree is whole, what the document means is due.
LEMMA MeantIsDue ==
    ASSUME DocumentTypeOK, CopiedOK, WholeOK, stage \in {"collect", "accepted"},
           NEW d \in 0 .. MaxDepth + 1, NEW spot \in Level[d]
    PROVE  /\ Due(spot.node, spot.path) /\ spot.path \in DOMAIN tree
           /\ tree[spot.path] = Entry(Meant(spot.node), document[spot.node].line)
           /\ Len(spot.path) = d
<1> DEFINE size == MaxDepth + 1
           P == {k \in 0 .. size : \A s \in Level[k] : Due(s.node, s.path) /\ Len(s.path) = k}
<1>0. Expanding
  BY DEF Expanding
<1>1. size \in Nat /\ document \in Documents
  BY DocumentAssumption DEF DocumentTypeOK
<1>2. /\ Level[0] = {[path |-> <<>>, node |-> Root]}
      /\ \A k \in 1 .. size : Level[k] = Deeper(Level[k - 1])
  BY <1>1, LevelMeans
<1>3. ASSUME NEW n, NEW p, Due(n, p)
      PROVE  p \in DOMAIN tree /\ tree[p] = Entry(Meant(n), document[n].line)
  <2>1. p \in DOMAIN tree
    BY <1>3 DEF WholeOK
  <2>2. PICK m \in DOMAIN document : Due(m, p) /\ tree[p] = Entry(Meant(m), document[m].line)
    BY <1>0, <2>1 DEF CopiedOK
  <2>3. n = m
    BY <1>3, <2>2, DueOnce
  <2> QED
    BY <2>1, <2>2, <2>3
<1>4. 0 \in P
  <2>1. ASSUME NEW s \in Level[0] PROVE Due(s.node, s.path) /\ Len(s.path) = 0
    <3>1. s.path = <<>> /\ s.node = Root
      BY <1>2
    <3> QED
      BY <3>1 DEF Due
  <2> QED
    BY <1>1, <2>1
<1>5. ASSUME NEW k \in 0 .. size, k \in P, k < size PROVE k + 1 \in P
  <2>1. k + 1 \in 1 .. size /\ k + 1 - 1 = k /\ k + 1 \in 0 .. size /\ k \in Nat
    BY <1>1, <1>5
  <2>2. Level[k + 1] = Deeper(Level[k])
    BY <1>2, <2>1
  <2>3. ASSUME NEW s \in Level[k + 1] PROVE Due(s.node, s.path) /\ Len(s.path) = k + 1
    <3>1. PICK r \in Level[k] : s \in Under(r)
      BY <2>2 DEF Deeper
    <3>2. PICK i \in DOMAIN document[Meant(r.node)].content :
            s = [path |-> Append(r.path, i), node |-> document[Meant(r.node)].content[i]]
      BY <3>1 DEF Under
    <3>3. s.path = Append(r.path, i) /\ s.node = document[Meant(r.node)].content[i]
      BY <3>2
    <3>4. Due(r.node, r.path) /\ Len(r.path) = k
      BY <1>5
    <3>5. r.path \in DOMAIN tree /\ tree[r.path] = Entry(Meant(r.node), document[r.node].line)
      BY <1>3, <3>4
    <3>6. tree[r.path].node = Meant(r.node)
      BY <3>5 DEF Entry
    <3>7. Due(s.node, s.path)
      BY <3>3, <3>5, <3>6, DueBelow
    <3>8. r.path \in Paths /\ Meant(r.node) \in DOMAIN document
      BY <3>5, <3>6 DEF DocumentTypeOK
    <3>9. document[Meant(r.node)].content \in Seq(DOMAIN document)
      BY <1>1, <3>8, DocumentShape
    <3>10. i \in Nat
      BY <3>9
    <3> QED
      BY <3>3, <3>4, <3>7, <3>8, <3>10, PlaceBelow
  <2> QED
    BY <2>1, <2>3
<1> HIDE DEF P, size
<1>6. \A k \in 0 .. size : k \in P
  BY <1>1, <1>4, <1>5, Induction
<1>7. d \in 0 .. size
  BY DEF size
<1>8. Due(spot.node, spot.path) /\ Len(spot.path) = d
  BY <1>6, <1>7 DEF P
<1> QED
  BY <1>3, <1>8

LEMMA ImageSize ==
    ASSUME NEW S, IsFiniteSet(S), NEW f, DOMAIN f = S
    PROVE  /\ IsFiniteSet({f[x] : x \in S})
           /\ Cardinality({f[x] : x \in S}) <= Cardinality(S)
<1> DEFINE T == {f[x] : x \in S}
           g == [x \in S |-> f[x]]
<1>1. g \in Surjection(S, T)
  BY DEF Surjection
<1> HIDE DEF T, g
<1>2. IsFiniteSet(T) /\ Cardinality(T) <= Cardinality(S)
  BY <1>1, FS_Surjection
<1> QED
  BY <1>2 DEF T

LEMMA DeeperIsFinite ==
    ASSUME document \in Documents, NEW places \in SUBSET Spots, IsFiniteSet(places)
    PROVE  IsFiniteSet(Deeper(places))
<1> DEFINE f == [place \in places |-> Under(place)]
           Sets == {f[place] : place \in places}
<1>1. ASSUME NEW place \in places PROVE IsFiniteSet(Under(place))
  <2> PICK m \in DOMAIN document : m = Meant(place.node)
    <3>1. place.node \in DOMAIN document
      BY DEF Spots
    <3> QED
      BY <3>1, DocumentShape
  <2>1. document[m].content \in Seq(DOMAIN document)
    BY DocumentShape
  <2> PICK D : D = DOMAIN document[m].content
    OBVIOUS
  <2>2. IsFiniteSet(D)
    <3>1. D = 1 .. Len(document[m].content) /\ Len(document[m].content) \in Nat
      BY <2>1
    <3> QED
      BY <3>1, FS_Interval
  <2> DEFINE g == [i \in D |-> [path |-> Append(place.path, i), node |-> document[m].content[i]]]
  <2>3. Under(place) = {g[i] : i \in D}
    BY DEF Under
  <2>4. DOMAIN g = D
    OBVIOUS
  <2> HIDE DEF g
  <2> QED
    BY <2>2, <2>3, <2>4, ImageSize
<1>2. DOMAIN f = places
  OBVIOUS
<1>3. \A s \in Sets : IsFiniteSet(s)
  BY <1>1
<1>4. Deeper(places) = UNION Sets
  BY DEF Deeper
<1> HIDE DEF f
<1>5. IsFiniteSet(Sets)
  BY <1>2, ImageSize
<1> HIDE DEF Sets
<1> QED
  BY <1>3, <1>4, <1>5, FS_UNION

LEMMA UnfoldingIsFinite ==
    ASSUME document \in Documents
    PROVE  IsFiniteSet(Unfolding)
<1> DEFINE size == MaxDepth + 1
           P == {d \in 0 .. size : IsFiniteSet(Level[d])}
<1>1. size \in Nat /\ MaxDepth \in Nat
  BY DocumentAssumption
<1>2. /\ Level[0] = {[path |-> <<>>, node |-> Root]}
      /\ \A k \in 1 .. size : Level[k] = Deeper(Level[k - 1])
  BY LevelMeans
<1>3. 0 \in P
  <2>1. IsFiniteSet(Level[0])
    BY <1>2, FS_Singleton
  <2> QED
    BY <1>1, <2>1
<1>4. ASSUME NEW k \in 0 .. size, k \in P, k < size PROVE k + 1 \in P
  <2>1. k + 1 \in 1 .. size /\ k + 1 - 1 = k /\ k + 1 \in 0 .. size
    BY <1>1, <1>4
  <2>2. Level[k + 1] = Deeper(Level[k])
    BY <1>2, <2>1
  <2>3. Level[k] \subseteq Spots
    BY LevelsAreSpots
  <2>4. IsFiniteSet(Level[k + 1])
    BY <1>4, <2>2, <2>3, DeeperIsFinite
  <2> QED
    BY <2>1, <2>4
<1>5. \A k \in 0 .. size : k \in P
  <2> HIDE DEF P, size
  <2> QED
    BY <1>1, <1>3, <1>4, Induction
<1> DEFINE f == [k \in 0 .. MaxDepth |-> Level[k]]
           Sets == {f[k] : k \in 0 .. MaxDepth}
<1>6. \A s \in Sets : IsFiniteSet(s)
  BY <1>1, <1>5
<1>7. Unfolding = UNION Sets
  BY DEF Unfolding
<1>8. DOMAIN f = 0 .. MaxDepth
  OBVIOUS
<1>9. IsFiniteSet(0 .. MaxDepth)
  BY <1>1, FS_Interval
<1> HIDE DEF f
<1>10. IsFiniteSet(Sets)
  BY <1>8, <1>9, ImageSize
<1> HIDE DEF Sets
<1> QED
  BY <1>6, <1>7, <1>10, FS_UNION

-----------------------------------------------------------------------------
(* Why a node is refused *)

LEMMA TooDeep ==
    ASSUME DocumentTypeOK, CopiedOK, Expanding, NEW n, NEW p, Due(n, p), Len(p) > MaxDepth
    PROVE  ~IsWithin
<1>1. Len(p) = MaxDepth + 1
  <2>1. Len(p) \in Nat /\ Len(p) <= MaxDepth + 1 /\ MaxDepth \in Nat
    BY DueDepth, DocumentAssumption
  <2> QED
    BY <2>1
<1>2. [path |-> p, node |-> n] \in Level[MaxDepth + 1]
  BY <1>1, DueIsMeant
<1> QED
  BY <1>2 DEF IsWithin

LEMMA TooLarge ==
    ASSUME DocumentTypeOK, CopiedOK, Expanding, NEW n, NEW p, Due(n, p),
           p \notin DOMAIN tree, Len(p) <= MaxDepth, Cardinality(DOMAIN tree) = MaxNodes
    PROVE  ~IsWithin
<1> DEFINE f == [spot \in Unfolding |-> spot.path]
           T == {f[spot] : spot \in Unfolding}
<1>1. IsFiniteSet(Unfolding) /\ MaxDepth \in Nat /\ MaxNodes \in Nat
  BY UnfoldingIsFinite, DocumentAssumption DEF DocumentTypeOK
<1>2. IsFiniteSet(T) /\ Cardinality(T) <= Cardinality(Unfolding)
  <2>1. DOMAIN f = Unfolding
    OBVIOUS
  <2> HIDE DEF f
  <2> QED
    BY <1>1, <2>1, ImageSize
<1>3. ASSUME NEW m, NEW q, Due(m, q), Len(q) <= MaxDepth PROVE q \in T
  <2>1. Len(q) \in 0 .. MaxDepth + 1 /\ [path |-> q, node |-> m] \in Level[Len(q)]
    BY <1>3, DueIsMeant
  <2> PICK spot : spot = [path |-> q, node |-> m]
    OBVIOUS
  <2>2. Len(q) \in 0 .. MaxDepth
    BY <1>1, <1>3, <2>1
  <2>3. spot \in Unfolding /\ spot.path = q
    BY <2>1, <2>2 DEF Unfolding
  <2> QED
    BY <2>3
<1>4. DOMAIN tree \union {p} \subseteq T
  <2>1. ASSUME NEW q \in DOMAIN tree PROVE q \in T
    <3>1. \E m \in DOMAIN document : Due(m, q)
      BY DEF CopiedOK
    <3>2. Len(q) <= MaxDepth
      BY DEF DocumentTypeOK
    <3> QED
      BY <1>3, <3>1, <3>2
  <2>2. p \in T
    BY <1>3
  <2> QED
    BY <2>1, <2>2
<1> HIDE DEF T
<1>5. Cardinality(DOMAIN tree \union {p}) = MaxNodes + 1
  <2>1. IsFiniteSet(DOMAIN tree)
    BY DEF DocumentTypeOK
  <2> QED
    BY <2>1, FS_AddElement
<1>6. Cardinality(DOMAIN tree \union {p}) <= Cardinality(T)
  BY <1>2, <1>4, FS_Subset
<1>7. Cardinality(T) \in Nat /\ Cardinality(Unfolding) \in Nat
  BY <1>1, <1>2, FS_CardinalityType
<1>8. ~(Cardinality(Unfolding) <= MaxNodes)
  BY <1>1, <1>2, <1>5, <1>6, <1>7
<1> QED
  BY <1>8 DEF IsWithin

\* Nodes that have one another within them are meant at every depth.
LEMMA Endless ==
    ASSUME document \in Documents, NEW S \in SUBSET DOMAIN document,
           \A s \in S : \E i \in DOMAIN document[s].content : Meant(document[s].content[i]) \in S,
           NEW d \in 0 .. MaxDepth, NEW spot \in Level[d], Meant(spot.node) \in S
    PROVE  ~IsWithin
<1> DEFINE size == MaxDepth + 1
           Has(k) == \E s \in Level[k] : Meant(s.node) \in S
           P == {k \in 0 .. size : k < d \/ Has(k)}
<1>1. size \in Nat /\ d \in 0 .. size /\ d \in Nat /\ MaxDepth \in Nat
  BY DocumentAssumption
<1>2. \A k \in 1 .. size : Level[k] = Deeper(Level[k - 1])
  BY LevelMeans
<1>3. 0 \in P
  <2>1. 0 < d \/ d = 0
    BY <1>1
  <2>2. Has(d)
    OBVIOUS
  <2> HIDE DEF Has
  <2> QED
    BY <1>1, <2>1, <2>2
<1>4. ASSUME NEW k \in 0 .. size, k \in P, k < size PROVE k + 1 \in P
  <2>1. k + 1 \in 1 .. size /\ k + 1 - 1 = k /\ k + 1 \in 0 .. size /\ k \in Nat
    BY <1>1, <1>4
  <2>2. Level[k + 1] = Deeper(Level[k])
    BY <1>2, <2>1
  <2>3. CASE Has(k)
    <3>1. PICK s \in Level[k] : Meant(s.node) \in S
      BY <2>3
    <3> PICK m \in S : m = Meant(s.node)
      BY <3>1
    <3>2. PICK i \in DOMAIN document[m].content : Meant(document[m].content[i]) \in S
      OBVIOUS
    <3> PICK t : t = [path |-> Append(s.path, i), node |-> document[m].content[i]]
      OBVIOUS
    <3>3. t \in Under(s) /\ t.node = document[m].content[i]
      BY DEF Under
    <3>4. t \in Level[k + 1]
      BY <2>2, <3>3 DEF Deeper
    <3>5. Has(k + 1)
      BY <3>2, <3>3, <3>4
    <3> HIDE DEF Has
    <3> QED
      BY <2>1, <3>5
  <2>4. CASE k < d
    <3>1. k + 1 < d \/ k + 1 = d
      BY <1>1, <2>1, <2>4
    <3>2. Has(d)
      OBVIOUS
    <3> HIDE DEF Has
    <3> QED
      BY <2>1, <3>1, <3>2
  <2> HIDE DEF Has
  <2> QED
    BY <1>4, <2>3, <2>4
<1> HIDE DEF P, size
<1>5. \A k \in 0 .. size : k \in P
  BY <1>1, <1>3, <1>4, Induction
<1>6. size \in P
  BY <1>1, <1>5
<1>7. Has(size)
  BY <1>1, <1>6 DEF P, size
<1> QED
  BY <1>7 DEF size, IsWithin

\* A node that is its own descendant.
LEMMA Cyclic ==
    ASSUME DocumentTypeOK, CopiedOK, StackOK, AwaitedOK, stage = "expand", Unentered,
           Child \in active
    PROVE  ~IsWithin
<1>1. document \in Documents /\ Expanding
  BY DEF DocumentTypeOK, Expanding
<1>2. /\ active = {stack[k].node : k \in DOMAIN stack}
      /\ \A k \in DOMAIN stack : Walks(k) /\ Placed(k)
  BY DEF StackOK
<1>3. PICK j \in DOMAIN stack : stack[j].node = Child
  BY <1>2
<1> PICK last \in Nat : last = Len(stack)
  <2>1. Len(stack) \in Nat
    BY StackShape
  <2> QED
    BY <2>1
<1>4. /\ DOMAIN stack = 1 .. last /\ stack # <<>> /\ last \in DOMAIN stack
      /\ \A k \in DOMAIN stack : stack[k].node \in DOMAIN document
  <2>1. DOMAIN stack = 1 .. last /\ \A k \in DOMAIN stack : stack[k].node \in DOMAIN document
    BY StackShape
  <2>2. stack # <<>> /\ last \in DOMAIN stack
    BY <1>3, <2>1
  <2> QED
    BY <2>1, <2>2
<1>5. Top = stack[last]
  BY <1>4, TopShape
<1> DEFINE S == {stack[k].node : k \in {k \in j .. last : ~Is(stack[k].node, "alias")}}
<1>6. \A n \in DOMAIN document :
        /\ document[n].content \in Seq(DOMAIN document)
        /\ Meant(n) \in DOMAIN document /\ ~Is(Meant(n), "alias")
        /\ ~Is(n, "alias") => Children(n) = document[n].content /\ Meant(n) = n
        /\ Is(n, "alias") => Len(Children(n)) = 1 /\ Children(n)[1] = Meant(n)
  BY <1>1, DocumentShape
<1>7. ASSUME NEW k \in j .. last PROVE Meant(stack[k].node) \in S
  <2>1. k \in DOMAIN stack /\ stack[k].node \in DOMAIN document
    BY <1>3, <1>4
  <2>2. CASE ~Is(stack[k].node, "alias")
    BY <1>6, <2>1, <2>2
  <2>3. CASE Is(stack[k].node, "alias") /\ k = last
    <3>1. Child = Meant(Top.node) /\ ~Is(Child, "alias")
      BY <1>4, <1>5, <2>3, ChildOfAlias
    <3>2. j \in j .. last
      BY <1>3, <1>4
    <3> QED
      BY <1>3, <1>5, <2>3, <3>1, <3>2
  <2>4. CASE Is(stack[k].node, "alias") /\ k # last
    <3> PICK n \in DOMAIN document : n = stack[k].node
      BY <2>1
    <3> PICK at : at = stack[k].at
      OBVIOUS
    <3>1. k < last /\ k + 1 \in j .. last
      BY <1>3, <1>4, <2>4
    <3>2. at \in 1 .. Len(Children(n)) + 1 /\ at >= 2 /\ stack[k + 1].node = Children(n)[at - 1]
      BY <1>2, <2>1, <3>1 DEF Walks
    <3>3. Len(Children(n)) = 1 /\ Children(n)[1] = Meant(n) /\ ~Is(Meant(n), "alias")
      BY <1>6, <2>4
    <3>4. at - 1 = 1
      BY <3>2, <3>3
    <3>5. stack[k + 1].node = Meant(n)
      BY <3>2, <3>3, <3>4
    <3> QED
      BY <3>1, <3>3, <3>5
  <2> QED
    BY <2>2, <2>3, <2>4
<1>8. ASSUME NEW s \in S
      PROVE  \E i \in DOMAIN document[s].content : Meant(document[s].content[i]) \in S
  <2>1. PICK k \in j .. last : ~Is(stack[k].node, "alias") /\ s = stack[k].node
    OBVIOUS
  <2>2. k \in DOMAIN stack /\ s \in DOMAIN document
    BY <1>3, <1>4, <2>1
  <2>3. CASE k = last
    <3>1. Top.at \in DOMAIN document[Top.node].content /\ Child = document[Top.node].content[Top.at]
      BY <1>4, <1>5, <2>1, <2>3, ChildOfNode
    <3>2. j \in j .. last
      BY <1>3, <1>4
    <3>3. Meant(Child) \in S
      BY <1>3, <1>7, <3>2
    <3> QED
      BY <1>5, <2>1, <2>3, <3>1, <3>3
  <2>4. CASE k # last
    <3> PICK at : at = stack[k].at
      OBVIOUS
    <3>1. k < last /\ k + 1 \in j .. last
      BY <1>3, <1>4, <2>4
    <3>2. at \in 1 .. Len(Children(s)) + 1 /\ at >= 2 /\ stack[k + 1].node = Children(s)[at - 1]
      BY <1>2, <2>1, <2>2, <3>1 DEF Walks
    <3>3. Children(s) = document[s].content /\ document[s].content \in Seq(DOMAIN document)
      BY <1>6, <2>1, <2>2
    <3>4. at - 1 \in DOMAIN document[s].content
      <4> PICK content \in Seq(DOMAIN document) : content = document[s].content
        BY <3>3
      <4>1. at \in 1 .. Len(content) + 1 /\ at >= 2
        BY <3>2, <3>3
      <4>2. DOMAIN content = 1 .. Len(content) /\ Len(content) \in Nat
        OBVIOUS
      <4>3. at - 1 \in 1 .. Len(content)
        BY <4>1, <4>2
      <4> QED
        BY <4>2, <4>3
    <3>5. Meant(stack[k + 1].node) \in S
      BY <1>7, <3>1
    <3> QED
      BY <3>2, <3>3, <3>4, <3>5
  <2> QED
    BY <2>3, <2>4
<1>9. S \in SUBSET DOMAIN document
  BY <1>3, <1>4
<1>10. PICK k \in j .. last : ~Is(stack[k].node, "alias")
  <2>1. j \in j .. last
    BY <1>3, <1>4
  <2>2. S # {}
    BY <1>7, <2>1
  <2> QED
    BY <2>2
<1>11. k \in DOMAIN stack /\ stack[k].node \in S
  BY <1>3, <1>4, <1>10
<1> PICK p : p = stack[k].path
  OBVIOUS
<1>12. p \in DOMAIN tree /\ tree[p].node = stack[k].node
  BY <1>2, <1>10, <1>11 DEF Placed
<1>13. PICK m \in DOMAIN document : Due(m, p) /\ tree[p] = Entry(Meant(m), document[m].line)
  BY <1>1, <1>12 DEF CopiedOK
<1>14. Meant(m) \in S
  <2>1. tree[p].node = Meant(m)
    BY <1>13 DEF Entry
  <2> QED
    BY <1>11, <1>12, <2>1
<1>15. Len(p) \in 0 .. MaxDepth
  <2>1. Len(p) \in Nat /\ Len(p) <= MaxDepth /\ MaxDepth \in Nat
    BY <1>12, <1>13, DueDepth, DocumentAssumption DEF DocumentTypeOK
  <2> QED
    BY <2>1
<1> PICK spot : spot = [path |-> p, node |-> m]
  OBVIOUS
<1>16. spot \in Level[Len(p)] /\ spot.node = m
  BY <1>1, <1>13, DueIsMeant
<1> HIDE DEF S
<1> QED
  BY <1>1, <1>8, <1>9, <1>14, <1>15, <1>16, Endless

LEMMA MeaningStays ==
    document' = document => (IsWithin' <=> IsWithin)
<1> SUFFICES ASSUME document' = document PROVE IsWithin' <=> IsWithin
  OBVIOUS
<1>1. Level' = Level
  BY DEF Level, Meant, Is
<1>2. Unfolding' = Unfolding
  BY <1>1 DEF Unfolding
<1> QED
  BY <1>1, <1>2 DEF IsWithin

\* Only expand refuses as expand.
LEMMA RefusalCases ==
    [DocumentNext]_documentVars /\ refusal' = "expand" => refusal = "expand" \/ RefuseNode
<1> SUFFICES ASSUME [DocumentNext]_documentVars, refusal' = "expand"
             PROVE  refusal = "expand" \/ RefuseNode
  OBVIOUS
<1>1. CASE Check
  BY <1>1 DEF Check, Refuse
<1>2. CASE EndCheck
  BY <1>2 DEF EndCheck
<1>3. CASE EnterAlias \/ EnterNode
  BY <1>3 DEF EnterAlias, EnterNode, Push
<1>4. CASE Leave
  BY <1>4 DEF Leave
<1>5. CASE Collect
  BY <1>5 DEF Collect, Refuse
<1>6. CASE UNCHANGED documentVars
  BY <1>6 DEF documentVars
<1> QED
  BY <1>1, <1>2, <1>3, <1>4, <1>5, <1>6 DEF DocumentNext, DocumentFinished

LEMMA RefusedStep ==
    DocumentTypeOK /\ CopiedOK /\ StackOK /\ AwaitedOK /\ RefusedOK /\ [DocumentNext]_documentVars
        => RefusedOK'
<1> SUFFICES ASSUME DocumentTypeOK, CopiedOK, StackOK, AwaitedOK, RefusedOK,
                    [DocumentNext]_documentVars, refusal' = "expand"
             PROVE  ~(IsWithin')
  BY DEF RefusedOK
<1>0. IsWithin' <=> IsWithin
  <2>1. document' = document
    BY DocumentConstant
  <2> QED
    BY <2>1, MeaningStays
<1> SUFFICES ~IsWithin
  BY <1>0
<1>1. CASE refusal = "expand"
  BY <1>1 DEF RefusedOK
<1>2. CASE RefuseNode
  <2>1. stage = "expand" /\ Unentered
    BY <1>2 DEF RefuseNode
  <2>2. Expanding
    BY <2>1 DEF Expanding
  <2>3. /\ Due(Source, Place) /\ Place \notin DOMAIN tree
        /\ Len(Place) \in Nat /\ MaxDepth \in Nat
    <3>1. Due(Source, Place) /\ Place \notin DOMAIN tree
      BY <2>1, ChildShape
    <3>2. Len(Place) \in Nat
      BY <2>1, ChildShape
    <3> QED
      BY <3>1, <3>2, DocumentAssumption
  <2>4. CASE Child \in active
    BY <2>1, <2>4, Cyclic
  <2>5. CASE ~(Len(Place) <= MaxDepth)
    <3>1. Len(Place) > MaxDepth
      BY <2>3, <2>5
    <3> QED
      BY <2>2, <2>3, <3>1, TooDeep
  <2>6. CASE Cardinality(DOMAIN tree) = MaxNodes /\ Len(Place) <= MaxDepth
    BY <2>2, <2>3, <2>6, TooLarge
  <2> QED
    BY <1>2, <2>4, <2>5, <2>6 DEF RefuseNode, Allowed
<1> QED
  BY <1>1, <1>2, RefusalCases

LEMMA CheckedStep ==
    DocumentTypeOK /\ CheckedOK /\ [DocumentNext]_documentVars => CheckedOK'
<1> SUFFICES ASSUME DocumentTypeOK, CheckedOK, [DocumentNext]_documentVars, stage' = "check"
             PROVE  CheckedOK'
  BY DEF CheckedOK
<1>1. CASE CheckNode
  BY <1>1, CheckNodeStep
<1>2. CASE UNCHANGED documentVars
  <2>1. document' = document /\ stage' = stage /\ tree' = tree /\ pending' = pending
    BY <1>2 DEF documentVars
  <2>2. \A n : ValidNode(n)' <=> ValidNode(n)
    BY <2>1, NodeStays
  <2>3. ASSUME NEW n, NEW p, Due(n, p) PROVE Due(n, p)'
    BY <2>1, <2>3 DEF Due
  <2>4. /\ \A p \in DOMAIN tree : \E n \in DOMAIN document :
             Due(n, p) /\ ValidNode(n) /\ tree[p] = Entry(n, document[n].line)
        /\ \A a \in ToSet(pending) : Due(a.node, a.path)
        /\ <<>> \in DOMAIN tree \/ [node |-> Root, path |-> <<>>] \in ToSet(pending)
        /\ \A p \in DOMAIN tree : \A i \in DOMAIN document[tree[p].node].content :
            \/ Append(p, i) \in DOMAIN tree
            \/ [node |-> document[tree[p].node].content[i], path |-> Append(p, i)] \in ToSet(pending)
    BY <2>1 DEF CheckedOK
  <2>5. \A p \in DOMAIN tree' : \E n \in DOMAIN document' :
             Due(n, p)' /\ ValidNode(n)' /\ tree'[p] = Entry(n, document'[n].line)
    BY <2>1, <2>2, <2>3, <2>4
  <2>6. \A a \in ToSet(pending') : Due(a.node, a.path)'
    BY <2>1, <2>3, <2>4
  <2> QED
    BY <2>1, <2>4, <2>5, <2>6 DEF CheckedOK
<1> QED
  BY <1>1, <1>2, StillChecked

-----------------------------------------------------------------------------
LEMMA DocumentInvInit == DocumentInit => DocumentIInv
<1> SUFFICES ASSUME DocumentInit PROVE DocumentIInv
  OBVIOUS
<1>1. /\ stage = "check" /\ stack = <<>> /\ active = {} /\ refusal = "none"
      /\ tree = NoTree /\ pending = <<[node |-> Root, path |-> <<>>]>>
  BY DEF DocumentInit
<1>2. DOMAIN tree = {}
  BY <1>1 DEF NoTree
<1>3. ToSet(pending) = {[node |-> Root, path |-> <<>>]}
  BY <1>1, MembersOfOne
<1>4. \A a \in ToSet(pending) : Due(a.node, a.path)
  BY <1>3 DEF Due
<1>5. CheckedOK
  BY <1>2, <1>3, <1>4 DEF CheckedOK
<1>6. CopiedOK /\ WholeOK /\ AwaitedOK /\ StackOK
  BY <1>1 DEF CopiedOK, Expanding, StackOK, AwaitedOK, WholeOK
<1>7. IdleOK /\ RefusedOK
  BY <1>1 DEF IdleOK, RefusedOK
<1> QED
  BY <1>5, <1>6, <1>7, DocumentTypeInit DEF DocumentIInv

LEMMA DocumentInvStep ==
    DocumentIInv /\ [DocumentNext]_documentVars => DocumentIInv'
<1> SUFFICES ASSUME DocumentIInv, [DocumentNext]_documentVars PROVE DocumentIInv'
  OBVIOUS
<1>1. /\ DocumentTypeOK /\ CheckedOK /\ CopiedOK /\ IdleOK /\ StackOK /\ AwaitedOK /\ WholeOK
      /\ RefusedOK
  BY DEF DocumentIInv
<1>2. DocumentTypeOK'
  BY <1>1, DocumentTypeStep
<1>3. CheckedOK'
  BY <1>1, CheckedStep
<1>4. CopiedOK'
  BY <1>1, CopiedStep
<1>5. IdleOK' /\ StackOK'
  BY <1>1, StackStep
<1>6. AwaitedOK'
  BY <1>1, AwaitedStep
<1>7. WholeOK'
  BY <1>1, WholeStep
<1>8. RefusedOK'
  BY <1>1, RefusedStep
<1> QED
  BY <1>2, <1>3, <1>4, <1>5, <1>6, <1>7, <1>8 DEF DocumentIInv

\* What holds of every document that is read, at every step.
THEOREM DocumentInvariance == DocumentSpec => []DocumentIInv
<1> QED
  BY DocumentInvInit, DocumentInvStep, PTL DEF DocumentSpec

-----------------------------------------------------------------------------
(* The copy is the meaning *)

LEMMA WholeIsWithin ==
    ASSUME DocumentTypeOK, CopiedOK, WholeOK, stage \in {"collect", "accepted"}
    PROVE  IsWithin
<1>1. document \in Documents /\ MaxDepth \in Nat /\ MaxNodes \in Nat
  BY DocumentAssumption DEF DocumentTypeOK
<1>2. Level[MaxDepth + 1] = {}
  <2> SUFFICES ASSUME NEW spot \in Level[MaxDepth + 1] PROVE FALSE
    OBVIOUS
  <2>1. MaxDepth + 1 \in 0 .. MaxDepth + 1
    BY <1>1
  <2>2. spot.path \in DOMAIN tree /\ Len(spot.path) = MaxDepth + 1
    BY <2>1, MeantIsDue
  <2>3. Len(spot.path) <= MaxDepth
    BY <2>2 DEF DocumentTypeOK
  <2> QED
    BY <1>1, <2>2, <2>3
<1>3. \A a \in Unfolding : a \in Spots /\ a.path \in DOMAIN tree /\ Due(a.node, a.path)
  <2> SUFFICES ASSUME NEW d \in 0 .. MaxDepth, NEW a \in Level[d]
               PROVE  a \in Spots /\ a.path \in DOMAIN tree /\ Due(a.node, a.path)
    BY DEF Unfolding
  <2>1. d \in 0 .. MaxDepth + 1
    BY <1>1
  <2> QED
    BY <1>1, <2>1, LevelsAreSpots, MeantIsDue
<1>4. \A a, b \in Unfolding : a.path = b.path => a = b
  <2> SUFFICES ASSUME NEW a \in Unfolding, NEW b \in Unfolding, a.path = b.path PROVE a = b
    OBVIOUS
  <2>1. a.node = b.node
    BY <1>3, DueOnce
  <2>2. a \in Spots /\ b \in Spots
    BY <1>3
  <2> QED
    BY <2>1, <2>2 DEF Spots
<1> DEFINE f == [spot \in Unfolding |-> spot.path]
<1>5. f \in Injection(Unfolding, DOMAIN tree)
  BY <1>3, <1>4 DEF Injection, IsInjective
<1>6. IsFiniteSet(DOMAIN tree) /\ Cardinality(DOMAIN tree) <= MaxNodes
  BY DEF DocumentTypeOK
<1> HIDE DEF f
<1>7. IsFiniteSet(Unfolding) /\ Cardinality(Unfolding) <= Cardinality(DOMAIN tree)
  BY <1>5, <1>6, FS_Injection
<1>8. Cardinality(Unfolding) \in Nat /\ Cardinality(DOMAIN tree) \in Nat
  BY <1>6, <1>7, FS_CardinalityType
<1>9. Cardinality(Unfolding) <= MaxNodes
  BY <1>1, <1>6, <1>7, <1>8
<1> QED
  BY <1>2, <1>9 DEF IsWithin

LEMMA InvExpansion == DocumentIInv => ExpansionIsUnfolding
<1> SUFFICES ASSUME DocumentIInv PROVE ExpansionIsUnfolding
  OBVIOUS
<1>1. DocumentTypeOK /\ CopiedOK /\ WholeOK /\ RefusedOK /\ MaxDepth \in Nat
  BY DocumentAssumption DEF DocumentIInv
<1>2. ASSUME stage \in {"collect", "accepted"}
      PROVE  /\ IsWithin
             /\ DOMAIN tree = {place.path : place \in Unfolding}
             /\ \A place \in Unfolding :
                  tree[place.path] = Entry(Meant(place.node), document[place.node].line)
  <2>1. IsWithin
    BY <1>1, <1>2, WholeIsWithin
  <2>2. \A place \in Unfolding :
          /\ place.path \in DOMAIN tree
          /\ tree[place.path] = Entry(Meant(place.node), document[place.node].line)
    <3> SUFFICES ASSUME NEW d \in 0 .. MaxDepth, NEW place \in Level[d]
                 PROVE  /\ place.path \in DOMAIN tree
                        /\ tree[place.path] = Entry(Meant(place.node), document[place.node].line)
      BY DEF Unfolding
    <3>1. d \in 0 .. MaxDepth + 1
      BY <1>1
    <3> QED
      BY <1>1, <1>2, <3>1, MeantIsDue
  <2>3. ASSUME NEW p \in DOMAIN tree PROVE p \in {place.path : place \in Unfolding}
    <3>1. Expanding
      BY <1>2 DEF Expanding
    <3>2. PICK n \in DOMAIN document : Due(n, p)
      BY <1>1, <3>1 DEF CopiedOK
    <3>3. [path |-> p, node |-> n] \in Level[Len(p)] /\ Len(p) \in 0 .. MaxDepth + 1
      BY <1>1, <3>1, <3>2, DueIsMeant
    <3>4. Len(p) <= MaxDepth
      BY <1>1 DEF DocumentTypeOK
    <3>5. Len(p) \in 0 .. MaxDepth
      BY <1>1, <3>3, <3>4
    <3> PICK spot : spot = [path |-> p, node |-> n]
      OBVIOUS
    <3>6. spot \in Unfolding /\ spot.path = p
      BY <3>3, <3>5 DEF Unfolding
    <3> QED
      BY <3>6
  <2> QED
    BY <2>1, <2>2, <2>3
<1> QED
  BY <1>1, <1>2 DEF ExpansionIsUnfolding, RefusedOK

\* The copy is what the document means, and a refused document means too much:
\* for every document, however its aliases nest, and every limit.
THEOREM DocumentExpansion == DocumentSpec => []ExpansionIsUnfolding
<1> QED
  BY DocumentInvariance, InvExpansion, PTL

-----------------------------------------------------------------------------
(* The whole tree, place by place *)

Whole == DocumentTypeOK /\ CopiedOK /\ WholeOK /\ stage = "collect"
Inner(p) == DOMAIN At(p).content

LEMMA WholeShape ==
    ASSUME Whole
    PROVE  /\ <<>> \in DOMAIN tree /\ At(<<>>).kind = "document" /\ Len(At(<<>>).content) = 1
           /\ \A p \in DOMAIN tree :
                /\ p \in Paths /\ tree[p].node \in DOMAIN document /\ ValidNode(tree[p].node)
                /\ At(p).content \in Seq(DOMAIN document)
                /\ At(p).kind = "scalar" => At(p).content = <<>>
                /\ \A i \in Inner(p) :
                     /\ i \in Nat /\ Append(p, i) \in DOMAIN tree
                     /\ tree[Append(p, i)].node = Meant(At(p).content[i])
                /\ p # <<>> => \E q \in DOMAIN tree : \E i \in Inner(q) : p = Append(q, i)
<1>1. DocumentTypeOK /\ CopiedOK /\ WholeOK /\ stage = "collect" /\ Expanding /\ document \in Documents
  BY DEF Whole, Expanding, DocumentTypeOK
<1>2. ASSUME NEW n, NEW p, Due(n, p)
      PROVE  p \in DOMAIN tree /\ tree[p].node = Meant(n)
  <2>1. p \in DOMAIN tree
    BY <1>1, <1>2 DEF WholeOK
  <2>2. PICK m \in DOMAIN document : Due(m, p) /\ tree[p] = Entry(Meant(m), document[m].line)
    BY <1>1, <2>1 DEF CopiedOK
  <2>3. n = m
    BY <1>1, <1>2, <2>2, DueOnce
  <2> QED
    BY <2>1, <2>2, <2>3 DEF Entry
<1>3. /\ Root \in DOMAIN document /\ document[Root].kind = "document" /\ Meant(Root) = Root
      /\ \A n \in DOMAIN document :
           /\ document[n].content \in Seq(DOMAIN document)
           /\ document[n].kind \in {"scalar", "alias"} => document[n].content = <<>>
  <2>1. /\ Root \in DOMAIN document /\ Is(Root, "document")
        /\ \A n \in DOMAIN document :
           /\ document[n].content \in Seq(DOMAIN document)
           /\ document[n].kind \in {"scalar", "alias"} => document[n].content = <<>>
    BY <1>1, DocumentShape
  <2>2. document[Root].kind = "document"
    BY <2>1 DEF Is
  <2>3. Meant(Root) = Root
    BY <2>2 DEF Meant, Is
  <2> QED
    BY <2>1, <2>2, <2>3
<1>4. \A n \in DOMAIN document : ValidNode(n)
  BY <1>1 DEF CopiedOK
<1>5. <<>> \in DOMAIN tree /\ tree[<<>>].node = Root
  <2>1. Due(Root, <<>>)
    BY DEF Due
  <2> QED
    BY <1>2, <1>3, <2>1
<1>6. At(<<>>).kind = "document" /\ Len(At(<<>>).content) = 1
  <2>1. At(<<>>) = document[Root]
    BY <1>5 DEF At
  <2>2. Len(document[Root].content) = 1
    BY <1>3, <1>4 DEF ValidNode, Is
  <2> QED
    BY <1>3, <2>1, <2>2
<1>7. ASSUME NEW p \in DOMAIN tree
      PROVE  /\ p \in Paths /\ tree[p].node \in DOMAIN document /\ ValidNode(tree[p].node)
             /\ At(p).content \in Seq(DOMAIN document)
             /\ At(p).kind = "scalar" => At(p).content = <<>>
  BY <1>1, <1>3, <1>4 DEF DocumentTypeOK, At
<1>8. ASSUME NEW p \in DOMAIN tree, NEW i \in Inner(p)
      PROVE  /\ i \in Nat /\ Append(p, i) \in DOMAIN tree
             /\ tree[Append(p, i)].node = Meant(At(p).content[i])
  <2>1. i \in DOMAIN document[tree[p].node].content /\ At(p) = document[tree[p].node]
    BY DEF Inner, At
  <2>2. i \in Nat
    BY <1>7 DEF Inner
  <2> PICK n, q : n = document[tree[p].node].content[i] /\ q = Append(p, i)
    OBVIOUS
  <2>3. Due(n, q)
    BY <2>1, DueBelow
  <2>4. q \in DOMAIN tree /\ tree[q].node = Meant(n)
    BY <1>2, <2>3
  <2> QED
    BY <2>1, <2>2, <2>4
<1>9. ASSUME NEW p \in DOMAIN tree, p # <<>>
      PROVE  \E q \in DOMAIN tree : \E i \in Inner(q) : p = Append(q, i)
  <2>1. \E n \in DOMAIN document : Due(n, p)
    BY <1>1 DEF CopiedOK
  <2> QED
    BY <1>9, <2>1 DEF Due, Inner, At
<1> QED
  BY <1>5, <1>6, <1>7, <1>8, <1>9

\* The keys of a mapping are scalars, no two alike, and its values come in pairs with them.
LEMMA MappingShape ==
    ASSUME Whole, NEW p \in DOMAIN tree, At(p).kind = "mapping"
    PROVE  /\ Len(At(p).content) \in Nat /\ Len(At(p).content) % 2 = 0
           /\ \A i \in Inner(p) : i % 2 = 1 =>
                /\ At(Append(p, i)) = document[At(p).content[i]]
                /\ At(Append(p, i)).kind = "scalar" /\ At(Append(p, i)).content = <<>>
                /\ At(Append(p, i)).value = Key(tree[p].node, i)
<1> PICK n \in DOMAIN document : n = tree[p].node
  BY WholeShape
<1>1. At(p) = document[n] /\ Is(n, "mapping") /\ document[n].content \in Seq(DOMAIN document)
      /\ ValidNode(n)
  BY WholeShape DEF At, Is
<1>2. Len(document[n].content) % 2 = 0 /\ \A i \in Keys(n) : Is(document[n].content[i], "scalar")
  BY <1>1 DEF ValidNode, UniqueKeys
<1>3. ASSUME NEW i \in Inner(p), i % 2 = 1
      PROVE  /\ At(Append(p, i)) = document[At(p).content[i]]
             /\ At(Append(p, i)).kind = "scalar" /\ At(Append(p, i)).content = <<>>
             /\ At(Append(p, i)).value = Key(tree[p].node, i)
  <2> PICK c : c = document[n].content[i]
    OBVIOUS
  <2>1. i \in Keys(n)
    BY <1>1, <1>3 DEF Keys, Inner
  <2>2. document[c].kind = "scalar"
    BY <1>2, <2>1 DEF Is
  <2>3. Meant(c) = c
    BY <2>2 DEF Meant, Is
  <2>4. tree[Append(p, i)].node = Meant(At(p).content[i]) /\ Append(p, i) \in DOMAIN tree
    BY WholeShape
  <2>5. At(Append(p, i)) = document[c] /\ At(p).content[i] = c
    BY <1>1, <2>3, <2>4 DEF At
  <2>6. At(Append(p, i)).content = <<>>
    BY <2>2, <2>4, <2>5, WholeShape
  <2> QED
    BY <2>2, <2>5, <2>6 DEF Key
<1>4. Len(At(p).content) \in Nat /\ Len(At(p).content) % 2 = 0
  <2>1. Len(document[n].content) \in Nat
    BY <1>1
  <2> QED
    BY <1>1, <1>2, <2>1
<1> QED
  BY <1>3, <1>4

-----------------------------------------------------------------------------
(* Lists of lists: one, op[x], for each member x of a list s *)

ListOf(s, op) == [i \in DOMAIN s |-> op[s[i]]]
Lists(T, s, op) == \A x \in ToSet(s) : op[x] \in Seq(T)
Distinct(s, op) == IsInjective(s) /\ \A x \in ToSet(s) : IsInjective(op[x])
Apart(s, op) == \A x, y \in ToSet(s) : \A r \in ToSet(op[x]) : r \in ToSet(op[y]) => x = y

LEMMA GatheredMeans ==
    ASSUME NEW S, NEW T, NEW s \in Seq(S), NEW op, Lists(T, s, op)
    PROVE  LET all == FlattenSeq(ListOf(s, op))
           IN  /\ all \in Seq(T) /\ ToSet(all) = UNION {ToSet(op[x]) : x \in ToSet(s)}
               /\ ~Distinct(s, op) \/ ~Apart(s, op) \/ IsInjective(all)
<1> DEFINE each == ListOf(s, op)
           n == Len(s)
<1>1. DOMAIN s = 1 .. n /\ n \in Nat
  OBVIOUS
<1>2. \A i \in DOMAIN s : s[i] \in ToSet(s)
  BY DEF ToSet
<1>3. each \in [1 .. n -> Seq(T)] /\ \A i \in 1 .. n : each[i] = op[s[i]]
  BY <1>1, <1>2 DEF ListOf, Lists
<1>4. each = [i \in 1 .. n |-> each[i]]
  BY <1>3
<1> HIDE DEF each, n
<1>5. FlattenSeq(each) \in Seq(T) /\ ToSet(FlattenSeq(each)) = UNION {ToSet(each[i]) : i \in 1 .. n}
  BY <1>1, <1>3, MembersOfFlatten
<1>6. UNION {ToSet(each[i]) : i \in 1 .. n} = UNION {ToSet(op[x]) : x \in ToSet(s)}
  <2>1. \A i \in 1 .. n : ToSet(each[i]) = ToSet(op[s[i]]) /\ s[i] \in ToSet(s)
    BY <1>1, <1>2, <1>3
  <2>2. \A x \in ToSet(s) : \E i \in 1 .. n : x = s[i]
    BY <1>1 DEF ToSet
  <2>3. \A x \in ToSet(s) : \E i \in 1 .. n : ToSet(op[x]) = ToSet(each[i])
    BY <2>1, <2>2
  <2> QED
    BY <2>1, <2>3
<1>7. ASSUME Distinct(s, op), Apart(s, op) PROVE IsInjective(FlattenSeq(each))
  <2>1. \A i \in 1 .. n : each[i] \in Seq(T) /\ IsInjective(each[i])
    BY <1>1, <1>2, <1>3, <1>7 DEF Distinct
  <2>2. ASSUME NEW i \in 1 .. n, NEW j \in 1 .. n, i # j
        PROVE  ToSet(each[i]) \intersect ToSet(each[j]) = {}
    <3>1. s[i] # s[j]
      BY <1>1, <1>7, <2>2 DEF IsInjective, Distinct
    <3>2. s[i] \in ToSet(s) /\ s[j] \in ToSet(s)
      BY <1>1, <1>2
    <3> QED
      BY <1>3, <1>7, <3>1, <3>2 DEF Apart
  <2>3. IsInjective(FlattenSeq([i \in 1 .. n |-> each[i]]))
    BY <1>1, <2>1, <2>2, DistinctFlatten
  <2> QED
    BY <1>4, <2>3
<1> QED
  BY <1>5, <1>6, <1>7 DEF each

-----------------------------------------------------------------------------
(* From a place to the places below it *)

Label(p, k) ==
    IF At(p).kind = "mapping" /\ k % 2 = 0 THEN Key(tree[p].node, k - 1) ELSE "-"
\* The children of a place whose key matches.
Matched(p, l) == {Append(p, k) : k \in {k \in Inner(p) : l \in {"*", Label(p, k)}}}

LEMMA MatchedIsBelow ==
    ASSUME Whole, NEW p \in DOMAIN tree, NEW l
    PROVE  /\ Matched(p, l) \subseteq DOMAIN tree
           /\ \A r \in Matched(p, l) : \E k \in Nat : r = Append(p, k)
BY WholeShape DEF Matched

LEMMA HalfMeans ==
    ASSUME NEW n \in Nat, n % 2 = 0
    PROVE  /\ n \div 2 \in Nat
           /\ \A i \in 1 .. n \div 2 :
                /\ 2 * i \in 1 .. n /\ (2 * i) % 2 = 0
                /\ 2 * i - 1 \in 1 .. n /\ (2 * i - 1) % 2 = 1
           /\ \A k \in 1 .. n : k % 2 = 0 => k \div 2 \in 1 .. n \div 2 /\ 2 * (k \div 2) = k
           /\ \A k \in 1 .. n : k % 2 # 0 => k % 2 = 1
<1>1. n \div 2 \in Nat /\ n = 2 * (n \div 2)
  OBVIOUS
<1>2. ASSUME NEW i \in 1 .. n \div 2
      PROVE  /\ 2 * i \in 1 .. n /\ (2 * i) % 2 = 0
             /\ 2 * i - 1 \in 1 .. n /\ (2 * i - 1) % 2 = 1
  BY <1>1
<1>3. ASSUME NEW k \in 1 .. n, k % 2 = 0
      PROVE  k \div 2 \in 1 .. n \div 2 /\ 2 * (k \div 2) = k
  BY <1>1, <1>3
<1>4. \A k \in 1 .. n : k % 2 # 0 => k % 2 = 1
  OBVIOUS
<1> QED
  BY <1>1, <1>2, <1>3, <1>4

LEMMA ChildOnce ==
    ASSUME NEW p \in Paths, NEW k \in Nat, NEW m \in Nat, Append(p, k) = Append(p, m)
    PROVE  k = m
<1>1. Append(p, k)[Len(p) + 1] = k
  BY PlaceBelow
<1>2. Append(p, m)[Len(p) + 1] = m
  BY PlaceBelow
<1> QED
  BY <1>1, <1>2

\* A mapping's value has the place after its key.
LEMMA PairsMean ==
    ASSUME Whole, NEW p \in DOMAIN tree, At(p).kind = "mapping"
    PROVE  LET half == Len(At(p).content) \div 2
           IN  /\ half \in Nat
               /\ \A i \in 1 .. half :
                    /\ 2 * i \in Inner(p) /\ Append(p, 2 * i) \in DOMAIN tree
                    /\ Label(p, 2 * i) = At(Append(p, 2 * i - 1)).value
               /\ \A i, j \in 1 .. half : Append(p, 2 * i) = Append(p, 2 * j) => i = j
               /\ \A k \in Inner(p) :
                    \/ k % 2 = 0 /\ k \div 2 \in 1 .. half /\ 2 * (k \div 2) = k
                    \/ /\ k % 2 = 1 /\ Label(p, k) = "-"
                       /\ At(Append(p, k)).kind = "scalar" /\ At(Append(p, k)).content = <<>>
<1> PICK n \in Nat : n = Len(At(p).content)
  BY MappingShape
<1> PICK half : half = n \div 2
  OBVIOUS
<1>1. n % 2 = 0 /\ Inner(p) = 1 .. n
  <2>1. At(p).content \in Seq(DOMAIN document)
    BY WholeShape
  <2>2. Inner(p) = 1 .. n
    BY <2>1 DEF Inner
  <2> QED
    BY <2>2, MappingShape
<1>2. /\ half \in Nat
      /\ \A i \in 1 .. half :
                /\ 2 * i \in 1 .. n /\ (2 * i) % 2 = 0
                /\ 2 * i - 1 \in 1 .. n /\ (2 * i - 1) % 2 = 1
      /\ \A k \in 1 .. n : k % 2 = 0 => k \div 2 \in 1 .. half /\ 2 * (k \div 2) = k
      /\ \A k \in 1 .. n : k % 2 # 0 => k % 2 = 1
  BY <1>1, HalfMeans
<1>3. \A i \in Inner(p) : i % 2 = 1 =>
        /\ At(Append(p, i)).kind = "scalar" /\ At(Append(p, i)).content = <<>>
        /\ At(Append(p, i)).value = Key(tree[p].node, i)
  BY MappingShape
<1>4. ASSUME NEW i \in 1 .. half
      PROVE  /\ 2 * i \in Inner(p) /\ Append(p, 2 * i) \in DOMAIN tree
             /\ Label(p, 2 * i) = At(Append(p, 2 * i - 1)).value
  <2> PICK k, j : k = 2 * i /\ j = 2 * i - 1
    OBVIOUS
  <2>1. k \in Inner(p) /\ k % 2 = 0 /\ j \in Inner(p) /\ j % 2 = 1 /\ j = k - 1
    BY <1>1, <1>2
  <2>2. Append(p, k) \in DOMAIN tree
    BY <2>1, WholeShape
  <2>3. Label(p, k) = Key(tree[p].node, j)
    BY <2>1 DEF Label
  <2>4. At(Append(p, j)).value = Key(tree[p].node, j)
    BY <1>3, <2>1
  <2> QED
    BY <2>1, <2>2, <2>3, <2>4
<1>5. ASSUME NEW i \in 1 .. half, NEW j \in 1 .. half, Append(p, 2 * i) = Append(p, 2 * j)
      PROVE  i = j
  <2>1. p \in Paths /\ 2 * i \in Nat /\ 2 * j \in Nat
    BY <1>2, WholeShape
  <2>2. 2 * i = 2 * j
    BY <1>5, <2>1, ChildOnce
  <2> QED
    BY <2>2
<1>6. ASSUME NEW k \in Inner(p)
      PROVE  \/ k % 2 = 0 /\ k \div 2 \in 1 .. half /\ 2 * (k \div 2) = k
             \/ /\ k % 2 = 1 /\ Label(p, k) = "-"
                /\ At(Append(p, k)).kind = "scalar" /\ At(Append(p, k)).content = <<>>
  <2>1. CASE k % 2 = 0
    BY <1>1, <1>2, <2>1
  <2>2. CASE k % 2 # 0
    <3>1. k % 2 = 1
      BY <1>1, <1>2, <2>2
    <3>2. At(Append(p, k)).kind = "scalar" /\ At(Append(p, k)).content = <<>>
      BY <1>3, <3>1
    <3> QED
      BY <2>2, <3>1, <3>2 DEF Label
  <2> QED
    BY <2>1, <2>2
<1> QED
  BY <1>2, <1>4, <1>5, <1>6

LEMMA OneIsDistinct == IsInjective(<<>>) /\ \A a : IsInjective(<<a>>)
<1>1. IsInjective(<<>>)
  BY DEF IsInjective
<1>2. ASSUME NEW a PROVE IsInjective(<<a>>)
  <2> PICK s : s = <<a>>
    OBVIOUS
  <2>1. DOMAIN s = {1}
    OBVIOUS
  <2> QED
    BY <2>1 DEF IsInjective
<1> QED
  BY <1>1, <1>2

\* The field of a mapping is the child whose key has the name.
LEMMA FieldMeans ==
    ASSUME Whole, NEW p \in DOMAIN tree, NEW name, name \notin {"-", "*"}
    PROVE  /\ Field(p, name) \in Seq(DOMAIN tree) /\ IsInjective(Field(p, name))
           /\ ToSet(Field(p, name)) = Matched(p, name)
           /\ At(p).kind = "mapping" \/ Field(p, name) = <<>>
<1> PICK T : T = DOMAIN tree
  OBVIOUS
<1>1. CASE At(p).kind # "mapping"
  <2>1. Field(p, name) = <<>>
    BY <1>1 DEF Field
  <2>2. Matched(p, name) = {}
    BY <1>1 DEF Matched, Label
  <2> QED
    BY <1>1, <2>1, <2>2, OneIsDistinct, MembersOfNone
<1>2. CASE At(p).kind = "mapping"
  <2> DEFINE half == Len(At(p).content) \div 2
             Chosen(i) == At(Append(p, 2 * i - 1)).value = name
             piece == [i \in 1 .. half |-> IF Chosen(i) THEN <<Append(p, 2 * i)>> ELSE <<>>]
  <2>1. /\ half \in Nat
        /\ \A i \in 1 .. half :
             /\ 2 * i \in Inner(p) /\ Append(p, 2 * i) \in T
             /\ Label(p, 2 * i) = At(Append(p, 2 * i - 1)).value
        /\ \A i, j \in 1 .. half : Append(p, 2 * i) = Append(p, 2 * j) => i = j
        /\ \A k \in Inner(p) :
             \/ k % 2 = 0 /\ k \div 2 \in 1 .. half /\ 2 * (k \div 2) = k
             \/ k % 2 = 1 /\ Label(p, k) = "-"
    BY <1>2, PairsMean
  <2>2. Field(p, name) = FlattenSeq(piece)
    BY <1>2 DEF Field
  <2>3. ASSUME NEW i \in 1 .. half
        PROVE  /\ piece[i] \in Seq(T) /\ IsInjective(piece[i])
               /\ ToSet(piece[i]) = IF Chosen(i) THEN {Append(p, 2 * i)} ELSE {}
    <3> PICK a \in T : a = Append(p, 2 * i)
      BY <2>1
    <3>1. CASE Chosen(i)
      <4>1. piece[i] = <<a>>
        BY <3>1
      <4>2. <<a>> \in Seq(T) /\ ToSet(<<a>>) = {a}
        BY MembersOfOne
      <4> QED
        BY <3>1, <4>1, <4>2, OneIsDistinct
    <3>2. CASE ~Chosen(i)
      <4>1. piece[i] = <<>>
        BY <3>2
      <4> QED
        <5>1. <<>> \in Seq(T) /\ ToSet(<<>>) = {}
          BY MembersOfNone
        <5> QED
          BY <3>2, <4>1, <5>1, OneIsDistinct
    <3> QED
      BY <3>1, <3>2
  <2>4. piece \in [1 .. half -> Seq(T)] /\ piece = [i \in 1 .. half |-> piece[i]]
    <3>1. DOMAIN piece = 1 .. half /\ piece = [i \in DOMAIN piece |-> piece[i]]
      OBVIOUS
    <3> HIDE DEF piece, half
    <3> QED
      BY <2>3, <3>1
  <2>5. \A i, j \in 1 .. half : i # j => ToSet(piece[i]) \intersect ToSet(piece[j]) = {}
    <3>1. \A i \in 1 .. half : \A r \in ToSet(piece[i]) : r = Append(p, 2 * i)
      BY <2>3
    <3>2. \A i, j \in 1 .. half : Append(p, 2 * i) = Append(p, 2 * j) => i = j
      BY <2>1
    <3> HIDE DEF piece, half, Chosen
    <3> QED
      BY <3>1, <3>2
  <2>6. FlattenSeq(piece) \in Seq(T) /\ ToSet(FlattenSeq(piece)) = UNION {ToSet(piece[i]) : i \in 1 .. half}
    <3>1. half \in Nat
      BY <2>1
    <3>2. piece \in [1 .. half -> Seq(T)]
      BY <2>4
    <3> HIDE DEF piece, half
    <3> QED
      BY <3>1, <3>2, MembersOfFlatten
  <2>7. IsInjective(FlattenSeq(piece))
    <3>0. half \in Nat /\ \A i \in 1 .. half : piece[i] \in Seq(T) /\ IsInjective(piece[i])
      BY <2>1, <2>3
    <3> HIDE DEF piece, half
    <3>1. IsInjective(FlattenSeq([i \in 1 .. half |-> piece[i]]))
      BY <2>5, <3>0, DistinctFlatten
    <3> QED
      BY <2>4, <3>1
  <2>8. ASSUME NEW i \in 1 .. half, NEW r \in ToSet(piece[i]) PROVE r \in Matched(p, name)
    <3> PICK k : k = 2 * i
      OBVIOUS
    <3>1. Chosen(i) /\ r = Append(p, k)
      BY <2>3
    <3>2. k \in Inner(p) /\ Label(p, k) = name
      BY <2>1, <3>1
    <3> QED
      BY <3>1, <3>2 DEF Matched
  <2>9. ASSUME NEW r \in Matched(p, name) PROVE \E i \in 1 .. half : r \in ToSet(piece[i])
    <3>1. PICK k \in Inner(p) : r = Append(p, k) /\ Label(p, k) = name
      BY DEF Matched
    <3>2. k \div 2 \in 1 .. half /\ 2 * (k \div 2) = k
      BY <2>1, <3>1
    <3> PICK i \in 1 .. half : 2 * i = k
      BY <3>2
    <3>3. Chosen(i) /\ r = Append(p, 2 * i)
      BY <2>1, <3>1
    <3> QED
      BY <2>3, <3>3
  <2> HIDE DEF piece, half
  <2> QED
    BY <1>2, <2>2, <2>6, <2>7, <2>8, <2>9
<1> QED
  BY <1>1, <1>2

\* The values of a mapping are its children but for the keys, which have none.
LEMMA ValuesMean ==
    ASSUME Whole, NEW p \in DOMAIN tree, At(p).kind = "mapping"
    PROVE  /\ Values(p) \in Seq(DOMAIN tree) /\ IsInjective(Values(p))
           /\ ToSet(Values(p)) \subseteq Matched(p, "*")
           /\ \A r \in Matched(p, "*") : r \in ToSet(Values(p)) \/ At(r).content = <<>>
<1> DEFINE T == DOMAIN tree
           half == Len(At(p).content) \div 2
           values == [i \in 1 .. half |-> Append(p, 2 * i)]
<1>1. /\ half \in Nat
      /\ \A i \in 1 .. half : 2 * i \in Inner(p) /\ Append(p, 2 * i) \in T
      /\ \A i, j \in 1 .. half : Append(p, 2 * i) = Append(p, 2 * j) => i = j
      /\ \A k \in Inner(p) :
           \/ k % 2 = 0 /\ k \div 2 \in 1 .. half /\ 2 * (k \div 2) = k
           \/ k % 2 = 1 /\ At(Append(p, k)).content = <<>>
  BY PairsMean
<1>2. Values(p) = values
  BY DEF Values
<1>3. DOMAIN values = 1 .. half /\ \A i \in 1 .. half : values[i] = Append(p, 2 * i)
  OBVIOUS
<1>4. values \in Seq(T)
  <2> HIDE DEF half
  <2> QED
    BY <1>1
<1>5. IsInjective(values)
  <2> HIDE DEF values, half
  <2> QED
    BY <1>1, <1>3 DEF IsInjective
<1>6. \A r \in ToSet(values) : r \in Matched(p, "*")
  <2> SUFFICES ASSUME NEW i \in 1 .. half PROVE Append(p, 2 * i) \in Matched(p, "*")
    BY <1>3 DEF ToSet
  <2> PICK k \in Inner(p) : k = 2 * i
    BY <1>1
  <2> QED
    BY DEF Matched
<1>7. ASSUME NEW r \in Matched(p, "*") PROVE r \in ToSet(values) \/ At(r).content = <<>>
  <2>1. PICK k \in Inner(p) : r = Append(p, k)
    BY DEF Matched
  <2>2. CASE k \div 2 \in 1 .. half /\ 2 * (k \div 2) = k
    <3> PICK i \in 1 .. half : 2 * i = k
      BY <2>2
    <3>1. r = values[i]
      BY <1>3, <2>1
    <3> QED
      BY <1>3, <3>1 DEF ToSet
  <2>3. CASE At(Append(p, k)).content = <<>>
    BY <2>1, <2>3
  <2> QED
    BY <1>1, <2>2, <2>3
<1> HIDE DEF values
<1> QED
  BY <1>2, <1>4, <1>5, <1>6, <1>7

\* The items of a sequence are its children.
LEMMA ItemsMean ==
    ASSUME Whole, NEW p \in DOMAIN tree
    PROVE  /\ Items(p) \in Seq(DOMAIN tree) /\ IsInjective(Items(p))
           /\ ToSet(Items(p)) = Matched(p, "*")
           /\ At(p).kind = "mapping" \/ ToSet(Items(p)) = Matched(p, "-")
<1>1. Items(p) = [k \in Inner(p) |-> Append(p, k)]
  BY DEF Items, Inner
<1>2. /\ p \in Paths /\ At(p).content \in Seq(DOMAIN document)
      /\ \A k \in Inner(p) : k \in Nat /\ Append(p, k) \in DOMAIN tree
  BY WholeShape
<1>3. Items(p) \in Seq(DOMAIN tree)
  <2> PICK n \in Nat : n = Len(At(p).content) /\ Inner(p) = 1 .. n
    BY <1>2 DEF Inner
  <2> QED
    BY <1>1, <1>2
<1>4. IsInjective(Items(p))
  <2>1. ASSUME NEW j \in Inner(p), NEW k \in Inner(p), Append(p, j) = Append(p, k) PROVE j = k
    BY <1>2, <2>1, ChildOnce
  <2> QED
    BY <1>1, <2>1 DEF IsInjective
<1>5. ToSet(Items(p)) = {Append(p, k) : k \in Inner(p)}
  BY <1>1 DEF ToSet
<1>6. Matched(p, "*") = {Append(p, k) : k \in Inner(p)}
  BY DEF Matched
<1>7. At(p).kind = "mapping" \/ Matched(p, "-") = {Append(p, k) : k \in Inner(p)}
  BY DEF Matched, Label
<1> QED
  BY <1>3, <1>4, <1>5, <1>6, <1>7

-----------------------------------------------------------------------------
(* The places that a pattern matches *)

LEMMA TrailOfChild ==
    ASSUME Whole, NEW p \in DOMAIN tree, NEW k \in Inner(p), NEW r, r = Append(p, k)
    PROVE  /\ Len(p) \in Nat
           /\ DOMAIN Trail(p) = 1 .. Len(p) /\ Len(Trail(p)) = Len(p)
           /\ DOMAIN Trail(r) = 1 .. Len(p) + 1 /\ Len(Trail(r)) = Len(p) + 1
           /\ \A i \in 1 .. Len(p) : Trail(r)[i] = Trail(p)[i]
           /\ Trail(r)[Len(p) + 1] = Label(p, k)
<1> PICK n \in Nat : n = Len(p)
  BY WholeShape DEF Paths
<1>1. /\ p \in Seq(Nat) /\ k \in Nat /\ r \in Seq(Nat) /\ Len(r) = n + 1
      /\ r[n + 1] = k /\ \A i \in 1 .. n : r[i] = p[i]
  <2>1. p \in Paths /\ k \in Nat
    BY WholeShape
  <2>2. Append(p, k) \in Paths /\ Len(Append(p, k)) = Len(p) + 1
    BY <2>1, PlaceBelow
  <2>3. Append(p, k)[Len(p) + 1] = k /\ \A i \in 1 .. Len(p) : Append(p, k)[i] = p[i]
    BY <2>1, PlaceBelow
  <2> QED
    BY <2>1, <2>2, <2>3 DEF Paths
<1>2. ASSUME NEW i \in 1 .. n + 1
      PROVE  SubSeq(r, 1, i - 1) = SubSeq(p, 1, i - 1) /\ (i = n + 1 => SubSeq(p, 1, i - 1) = p)
  <2>1. i - 1 \in 0 .. n /\ i - 1 \in 0 .. Len(r)
    BY <1>1
  <2> PICK a, b : a = SubSeq(r, 1, i - 1) /\ b = SubSeq(p, 1, i - 1)
    OBVIOUS
  <2>2. a \in Seq(Nat) /\ Len(a) = i - 1 /\ \A j \in 1 .. i - 1 : a[j] = r[j]
    BY <1>1, <2>1, PrefixOfLength
  <2>3. b \in Seq(Nat) /\ Len(b) = i - 1 /\ \A j \in 1 .. i - 1 : b[j] = p[j]
    BY <1>1, <2>1, PrefixOfLength
  <2>4. a = b
    <3>1. \A j \in 1 .. i - 1 : a[j] = b[j]
      BY <1>1, <2>1, <2>2, <2>3
    <3>2. DOMAIN a = 1 .. i - 1 /\ DOMAIN b = 1 .. i - 1
      BY <2>2, <2>3
    <3>3. a = [j \in DOMAIN a |-> a[j]] /\ b = [j \in DOMAIN b |-> b[j]]
      BY <2>2, <2>3
    <3> QED
      BY <3>1, <3>2, <3>3
  <2>5. i = n + 1 => b = p
    <3> SUFFICES ASSUME i = n + 1 PROVE b = p
      OBVIOUS
    <3>1. DOMAIN b = 1 .. n /\ DOMAIN p = 1 .. n /\ \A j \in 1 .. n : b[j] = p[j]
      BY <1>1, <2>3
    <3>2. b = [j \in DOMAIN b |-> b[j]] /\ p = [j \in DOMAIN p |-> p[j]]
      BY <1>1, <2>3
    <3> QED
      BY <3>1, <3>2
  <2> QED
    BY <2>4, <2>5
<1> DEFINE Mark(q, i) ==
             LET m == tree[SubSeq(q, 1, i - 1)].node
             IN  IF Is(m, "mapping") /\ q[i] % 2 = 0 THEN Key(m, q[i] - 1) ELSE "-"
<1>3. \A q : Trail(q) = [i \in 1 .. Len(q) |-> Mark(q, i)]
  BY DEF Trail
<1> HIDE DEF Mark
<1>4. /\ DOMAIN Trail(p) = 1 .. n /\ DOMAIN Trail(r) = 1 .. n + 1
      /\ \A i \in 1 .. n : Trail(p)[i] = Mark(p, i)
      /\ \A i \in 1 .. n + 1 : Trail(r)[i] = Mark(r, i)
  BY <1>1, <1>3
<1>5. \A i \in 1 .. n : Mark(r, i) = Mark(p, i)
  <2> SUFFICES ASSUME NEW i \in 1 .. n PROVE Mark(r, i) = Mark(p, i)
    OBVIOUS
  <2>1. SubSeq(r, 1, i - 1) = SubSeq(p, 1, i - 1)
    BY <1>2
  <2>2. r[i] = p[i]
    BY <1>1
  <2> QED
    BY <2>1, <2>2 DEF Mark
<1>6. Mark(r, n + 1) = Label(p, k)
  <2> PICK i \in 1 .. n + 1 : i = n + 1
    OBVIOUS
  <2>1. SubSeq(r, 1, i - 1) = p
    BY <1>2
  <2>2. r[i] = k
    BY <1>1
  <2> PICK m : m = tree[p].node
    OBVIOUS
  <2>3. Mark(r, i) = IF Is(m, "mapping") /\ k % 2 = 0 THEN Key(m, k - 1) ELSE "-"
    BY <2>1, <2>2 DEF Mark
  <2>4. Label(p, k) = IF document[m].kind = "mapping" /\ k % 2 = 0 THEN Key(m, k - 1) ELSE "-"
    BY DEF Label, At
  <2> QED
    BY <2>3, <2>4 DEF Is
<1>7. Len(Trail(p)) = n /\ Len(Trail(r)) = n + 1
  BY <1>4
<1>8. n + 1 \in 1 .. n + 1 /\ \A i \in 1 .. n : i \in 1 .. n + 1
  OBVIOUS
<1> QED
  BY <1>4, <1>5, <1>6, <1>7, <1>8

Reached(pattern) == {p \in DOMAIN tree : Matches(Trail(p), pattern)}
AllMatched(places, l) == UNION {Matched(p, l) : p \in places}

LEMMA ReachedNone ==
    ASSUME Whole
    PROVE  Reached(<<>>) = {<<>>}
<1>1. <<>> \in DOMAIN tree /\ \A p \in DOMAIN tree : p \in Paths
  BY WholeShape
<1>2. \A p \in Paths : Len(p) \in Nat /\ (Len(p) = 0 => p = <<>>)
  BY DEF Paths
<1>3. \A p \in Paths : DOMAIN Trail(p) = 1 .. Len(p)
  BY DEF Trail
<1>4. \A p \in Paths : Len(Trail(p)) = Len(p)
  BY <1>2, <1>3
<1>5. \A p \in Paths : Matches(Trail(p), <<>>) => p = <<>>
  BY <1>2, <1>4 DEF Matches
<1>6. Matches(Trail(<<>>), <<>>)
  <2>1. Trail(<<>>) = <<>>
    BY DEF Trail
  <2> QED
    BY <2>1 DEF Matches
<1> QED
  BY <1>1, <1>5, <1>6 DEF Reached

\* The pattern more ends with one more label.
Longer(pattern, more, l) ==
    \E n \in Nat :
        /\ DOMAIN pattern = 1 .. n /\ Len(pattern) = n
        /\ DOMAIN more = 1 .. n + 1 /\ Len(more) = n + 1
        /\ more[n + 1] = l /\ \A i \in 1 .. n : more[i] = pattern[i]

LEMMA ReachedNext ==
    ASSUME Whole, NEW pattern, NEW more, NEW l, Longer(pattern, more, l)
    PROVE  Reached(more) = AllMatched(Reached(pattern), l)
<1>0. PICK n \in Nat :
        /\ DOMAIN pattern = 1 .. n /\ Len(pattern) = n
        /\ DOMAIN more = 1 .. n + 1 /\ Len(more) = n + 1
        /\ more[n + 1] = l /\ \A i \in 1 .. n : more[i] = pattern[i]
  BY DEF Longer
<1>1. /\ Len(pattern) = n /\ DOMAIN pattern = 1 .. n /\ DOMAIN more = 1 .. n + 1 /\ Len(more) = n + 1
      /\ more[n + 1] = l /\ \A i \in 1 .. n : more[i] = pattern[i]
  BY <1>0
<1>2. ASSUME NEW p \in DOMAIN tree, NEW k \in Inner(p), NEW r, r = Append(p, k)
      PROVE  Matches(Trail(r), more) <=> Matches(Trail(p), pattern) /\ l \in {"*", Label(p, k)}
  <2>1. /\ Len(p) \in Nat /\ Len(Trail(p)) = Len(p) /\ Len(Trail(r)) = Len(p) + 1
        /\ \A i \in 1 .. Len(p) : Trail(r)[i] = Trail(p)[i]
        /\ Trail(r)[Len(p) + 1] = Label(p, k)
    BY <1>2, TrailOfChild
  <2>2. CASE Len(p) # n
    BY <1>1, <2>1, <2>2 DEF Matches
  <2>3. CASE Len(p) = n
    <3>1. Matches(Trail(p), pattern) <=> \A i \in 1 .. n : pattern[i] \in {"*", Trail(p)[i]}
      BY <1>1, <2>1, <2>3 DEF Matches
    <3>2. Matches(Trail(r), more) <=> \A i \in 1 .. n + 1 : more[i] \in {"*", Trail(r)[i]}
      BY <1>1, <2>1, <2>3 DEF Matches
    <3>3. \A i \in 1 .. n : more[i] \in {"*", Trail(r)[i]} <=> pattern[i] \in {"*", Trail(p)[i]}
      BY <1>1, <2>1, <2>3
    <3>4. more[n + 1] \in {"*", Trail(r)[n + 1]} <=> l \in {"*", Label(p, k)}
      BY <1>1, <2>1, <2>3
    <3>5. \A i \in 1 .. n + 1 : i \in 1 .. n \/ i = n + 1
      OBVIOUS
    <3>6. n + 1 \in 1 .. n + 1 /\ \A i \in 1 .. n : i \in 1 .. n + 1
      OBVIOUS
    <3> QED
      BY <3>1, <3>2, <3>3, <3>4, <3>5, <3>6
  <2> QED
    BY <2>2, <2>3
<1>3. ASSUME NEW r \in Reached(more) PROVE r \in AllMatched(Reached(pattern), l)
  <2>1. r \in DOMAIN tree /\ Matches(Trail(r), more)
    BY DEF Reached
  <2>2. r # <<>>
    <3>1. Trail(<<>>) = <<>>
      BY DEF Trail
    <3>2. Len(more) # 0
      BY <1>1
    <3> QED
      BY <2>1, <3>1, <3>2 DEF Matches
  <2>3. PICK p \in DOMAIN tree : \E k \in Inner(p) : r = Append(p, k)
    BY <2>1, <2>2, WholeShape
  <2>4. PICK k \in Inner(p) : r = Append(p, k)
    BY <2>3
  <2>5. Matches(Trail(p), pattern) /\ l \in {"*", Label(p, k)}
    BY <1>2, <2>1, <2>4
  <2>6. r \in Matched(p, l) /\ p \in Reached(pattern)
    BY <2>4, <2>5 DEF Matched, Reached
  <2> QED
    BY <2>6 DEF AllMatched
<1>4. ASSUME NEW p \in Reached(pattern), NEW r \in Matched(p, l) PROVE r \in Reached(more)
  <2>1. p \in DOMAIN tree /\ Matches(Trail(p), pattern)
    BY DEF Reached
  <2>2. PICK k \in Inner(p) : r = Append(p, k) /\ l \in {"*", Label(p, k)}
    BY DEF Matched
  <2>3. r \in DOMAIN tree
    BY <2>1, <2>2, WholeShape
  <2> QED
    BY <1>2, <2>1, <2>2, <2>3 DEF Reached
<1> QED
  BY <1>3, <1>4 DEF AllMatched

\* A pattern of one more key.
LEMMA ReachedOne ==
    ASSUME Whole, NEW a
    PROVE  Reached(<<a>>) = AllMatched(Reached(<<>>), a)
<1> PICK s, t : s = <<>> /\ t = <<a>>
  OBVIOUS
<1>1. DOMAIN s = 1 .. 0 /\ DOMAIN t = 1 .. 1 /\ Len(s) = 0 /\ Len(t) = 1
  OBVIOUS
<1>2. t[1] = a
  OBVIOUS
<1>3. \A i \in 1 .. 0 : t[i] = s[i]
  OBVIOUS
<1> PICK n \in Nat : n = 0
  OBVIOUS
<1>4. DOMAIN s = 1 .. n /\ DOMAIN t = 1 .. n + 1 /\ Len(s) = n /\ Len(t) = n + 1 /\ t[n + 1] = a
  BY <1>1, <1>2
<1>5. \A i \in 1 .. n : t[i] = s[i]
  BY <1>3
<1>6. Longer(s, t, a)
  BY <1>4, <1>5 DEF Longer
<1>7. Reached(t) = AllMatched(Reached(s), a)
  BY <1>6, ReachedNext
<1> QED
  BY <1>7

LEMMA ReachedTwo ==
    ASSUME Whole, NEW a, NEW b
    PROVE  Reached(<<a, b>>) = AllMatched(Reached(<<a>>), b)
<1> PICK s, t : s = <<a>> /\ t = <<a, b>>
  OBVIOUS
<1>1. DOMAIN s = 1 .. 1 /\ DOMAIN t = 1 .. 2 /\ Len(s) = 1 /\ Len(t) = 2
  OBVIOUS
<1>2. t[1] = a /\ s[1] = a /\ t[2] = b
  OBVIOUS
<1>3. \A i \in 1 .. 1 : t[i] = s[i]
  <2>1. \A i \in 1 .. 1 : i = 1
    OBVIOUS
  <2> QED
    BY <1>2, <2>1
<1> PICK n \in Nat : n = 1
  OBVIOUS
<1>4. DOMAIN s = 1 .. n /\ DOMAIN t = 1 .. n + 1 /\ Len(s) = n /\ Len(t) = n + 1 /\ t[n + 1] = b
  BY <1>1, <1>2
<1>5. \A i \in 1 .. n : t[i] = s[i]
  BY <1>3
<1>6. Longer(s, t, b)
  BY <1>4, <1>5 DEF Longer
<1>7. Reached(t) = AllMatched(Reached(s), b)
  BY <1>6, ReachedNext
<1> QED
  BY <1>7

LEMMA ReachedThree ==
    ASSUME Whole, NEW a, NEW b, NEW c
    PROVE  Reached(<<a, b, c>>) = AllMatched(Reached(<<a, b>>), c)
<1> PICK s, t : s = <<a, b>> /\ t = <<a, b, c>>
  OBVIOUS
<1>1. DOMAIN s = 1 .. 2 /\ DOMAIN t = 1 .. 3 /\ Len(s) = 2 /\ Len(t) = 3
  OBVIOUS
<1>2. t[1] = a /\ s[1] = a /\ t[2] = b /\ s[2] = b /\ t[3] = c
  OBVIOUS
<1>3. \A i \in 1 .. 2 : t[i] = s[i]
  <2>1. \A i \in 1 .. 2 : i = 1 \/ i = 2
    OBVIOUS
  <2> QED
    BY <1>2, <2>1
<1> PICK n \in Nat : n = 2
  OBVIOUS
<1>4. DOMAIN s = 1 .. n /\ DOMAIN t = 1 .. n + 1 /\ Len(s) = n /\ Len(t) = n + 1 /\ t[n + 1] = c
  BY <1>1, <1>2
<1>5. \A i \in 1 .. n : t[i] = s[i]
  BY <1>3
<1>6. Longer(s, t, c)
  BY <1>4, <1>5 DEF Longer
<1>7. Reached(t) = AllMatched(Reached(s), c)
  BY <1>6, ReachedNext
<1> QED
  BY <1>7

LEMMA ReachedFour ==
    ASSUME Whole, NEW a, NEW b, NEW c, NEW d
    PROVE  Reached(<<a, b, c, d>>) = AllMatched(Reached(<<a, b, c>>), d)
<1> PICK s, t : s = <<a, b, c>> /\ t = <<a, b, c, d>>
  OBVIOUS
<1>1. DOMAIN s = 1 .. 3 /\ DOMAIN t = 1 .. 4 /\ Len(s) = 3 /\ Len(t) = 4
  OBVIOUS
<1>2. t[1] = a /\ s[1] = a /\ t[2] = b /\ s[2] = b /\ t[3] = c /\ s[3] = c /\ t[4] = d
  OBVIOUS
<1>3. \A i \in 1 .. 3 : t[i] = s[i]
  <2>1. \A i \in 1 .. 3 : i = 1 \/ i = 2 \/ i = 3
    OBVIOUS
  <2> QED
    BY <1>2, <2>1
<1> PICK n \in Nat : n = 3
  OBVIOUS
<1>4. DOMAIN s = 1 .. n /\ DOMAIN t = 1 .. n + 1 /\ Len(s) = n /\ Len(t) = n + 1 /\ t[n + 1] = d
  BY <1>1, <1>2
<1>5. \A i \in 1 .. n : t[i] = s[i]
  BY <1>3
<1>6. Longer(s, t, d)
  BY <1>4, <1>5 DEF Longer
<1>7. Reached(t) = AllMatched(Reached(s), d)
  BY <1>6, ReachedNext
<1> QED
  BY <1>7

LEMMA ReachedFive ==
    ASSUME Whole, NEW a, NEW b, NEW c, NEW d, NEW e
    PROVE  Reached(<<a, b, c, d, e>>) = AllMatched(Reached(<<a, b, c, d>>), e)
<1> PICK s, t : s = <<a, b, c, d>> /\ t = <<a, b, c, d, e>>
  OBVIOUS
<1>1. DOMAIN s = 1 .. 4 /\ DOMAIN t = 1 .. 5 /\ Len(s) = 4 /\ Len(t) = 5
  OBVIOUS
<1>2. t[1] = a /\ s[1] = a /\ t[2] = b /\ s[2] = b /\ t[3] = c /\ s[3] = c /\ t[4] = d /\ s[4] = d /\ t[5] = e
  OBVIOUS
<1>3. \A i \in 1 .. 4 : t[i] = s[i]
  <2>1. \A i \in 1 .. 4 : i = 1 \/ i = 2 \/ i = 3 \/ i = 4
    OBVIOUS
  <2> QED
    BY <1>2, <2>1
<1> PICK n \in Nat : n = 4
  OBVIOUS
<1>4. DOMAIN s = 1 .. n /\ DOMAIN t = 1 .. n + 1 /\ Len(s) = n /\ Len(t) = n + 1 /\ t[n + 1] = e
  BY <1>1, <1>2
<1>5. \A i \in 1 .. n : t[i] = s[i]
  BY <1>3
<1>6. Longer(s, t, e)
  BY <1>4, <1>5 DEF Longer
<1>7. Reached(t) = AllMatched(Reached(s), e)
  BY <1>6, ReachedNext
<1> QED
  BY <1>7

LEMMA ReachedSix ==
    ASSUME Whole, NEW a, NEW b, NEW c, NEW d, NEW e, NEW f
    PROVE  Reached(<<a, b, c, d, e, f>>) = AllMatched(Reached(<<a, b, c, d, e>>), f)
<1> PICK s, t : s = <<a, b, c, d, e>> /\ t = <<a, b, c, d, e, f>>
  OBVIOUS
<1>1. DOMAIN s = 1 .. 5 /\ DOMAIN t = 1 .. 6 /\ Len(s) = 5 /\ Len(t) = 6
  OBVIOUS
<1>2. t[1] = a /\ s[1] = a /\ t[2] = b /\ s[2] = b /\ t[3] = c /\ s[3] = c /\ t[4] = d /\ s[4] = d /\ t[5] = e /\ s[5] = e /\ t[6] = f
  OBVIOUS
<1>3. \A i \in 1 .. 5 : t[i] = s[i]
  <2>1. \A i \in 1 .. 5 : i = 1 \/ i = 2 \/ i = 3 \/ i = 4 \/ i = 5
    OBVIOUS
  <2> QED
    BY <1>2, <2>1
<1> PICK n \in Nat : n = 5
  OBVIOUS
<1>4. DOMAIN s = 1 .. n /\ DOMAIN t = 1 .. n + 1 /\ Len(s) = n /\ Len(t) = n + 1 /\ t[n + 1] = f
  BY <1>1, <1>2
<1>5. \A i \in 1 .. n : t[i] = s[i]
  BY <1>3
<1>6. Longer(s, t, f)
  BY <1>4, <1>5 DEF Longer
<1>7. Reached(t) = AllMatched(Reached(s), f)
  BY <1>6, ReachedNext
<1> QED
  BY <1>7


-----------------------------------------------------------------------------
(* A place and what is below it *)

Extends(r, p) == Len(p) <= Len(r) /\ \A i \in 1 .. Len(p) : r[i] = p[i]

LEMMA MatchedExtends ==
    ASSUME Whole, NEW p \in DOMAIN tree, NEW l, NEW r \in Matched(p, l)
    PROVE  r \in DOMAIN tree /\ Len(r) = Len(p) + 1 /\ Extends(r, p)
<1>1. p \in Paths
  BY WholeShape
<1>2. PICK k \in Nat : r = Append(p, k)
  BY MatchedIsBelow
<1>3. Len(r) = Len(p) + 1 /\ \A i \in 1 .. Len(p) : r[i] = p[i]
  BY <1>1, <1>2, PlaceBelow
<1>4. Len(p) \in Nat
  BY <1>1 DEF Paths
<1>5. r \in DOMAIN tree
  BY MatchedIsBelow
<1> QED
  BY <1>3, <1>4, <1>5 DEF Extends

LEMMA ExtendsItself ==
    ASSUME NEW p \in Paths
    PROVE  Extends(p, p)
BY DEF Extends, Paths

LEMMA ExtendsFurther ==
    ASSUME NEW p \in Paths, NEW q \in Paths, NEW r \in Paths, Extends(q, p), Extends(r, q)
    PROVE  Extends(r, p)
<1>1. Len(p) \in Nat /\ Len(q) \in Nat /\ Len(r) \in Nat
  BY DEF Paths
<1>2. \A i \in 1 .. Len(p) : i \in 1 .. Len(q)
  BY <1>1 DEF Extends
<1> QED
  BY <1>1, <1>2 DEF Extends

LEMMA ExtendsOnce ==
    ASSUME NEW p \in Paths, NEW q \in Paths, NEW r, Len(p) = Len(q), Extends(r, p), Extends(r, q)
    PROVE  p = q
<1>1. DOMAIN p = DOMAIN q /\ \A i \in DOMAIN p : p[i] = q[i]
  BY DEF Extends, Paths
<1>2. p = [i \in DOMAIN p |-> p[i]] /\ q = [i \in DOMAIN q |-> q[i]]
  BY DEF Paths
<1> QED
  BY <1>1, <1>2

\* A list for each of some places of the same depth, of what is below them.
LEMMA EachBelow ==
    ASSUME NEW T \in SUBSET Paths, NEW s \in Seq(T), NEW n, \A q \in ToSet(s) : Len(q) = n,
           NEW op, Lists(T, s, op), Distinct(s, op),
           \A q \in ToSet(s) : \A r \in ToSet(op[q]) : Extends(r, q)
    PROVE  LET all == FlattenSeq(ListOf(s, op))
           IN  /\ all \in Seq(T) /\ IsInjective(all)
               /\ ToSet(all) = UNION {ToSet(op[q]) : q \in ToSet(s)}
<1>1. ToSet(s) \subseteq Paths
  BY DEF ToSet
<1>2. Apart(s, op)
  BY <1>1, ExtendsOnce DEF Apart
<1> QED
  BY <1>2, GatheredMeans

\* Below the values of mappings is what is below any child of them: a key has nothing.
LEMMA StarMeans ==
    ASSUME Whole, NEW Q \in SUBSET DOMAIN tree, \A q \in Q : At(q).kind = "mapping", NEW l
    PROVE  AllMatched(AllMatched(Q, "*"), l) = AllMatched(UNION {ToSet(Values(q)) : q \in Q}, l)
<1>1. \A q \in Q : /\ ToSet(Values(q)) \subseteq Matched(q, "*")
                   /\ \A r \in Matched(q, "*") : r \in ToSet(Values(q)) \/ At(r).content = <<>>
  BY ValuesMean
<1>2. \A r : At(r).content = <<>> => Matched(r, l) = {}
  BY DEF Matched, Inner
<1> QED
  BY <1>1, <1>2 DEF AllMatched

-----------------------------------------------------------------------------
(* The values, items and fields of some places of the same depth *)

LEMMA TreeMembers ==
    ASSUME Whole, NEW s \in Seq(DOMAIN tree)
    PROVE  /\ DOMAIN tree \subseteq Paths /\ ToSet(s) \subseteq DOMAIN tree
           /\ \A i \in DOMAIN s : s[i] \in ToSet(s)
BY WholeShape DEF ToSet

\* A list of places, all at one depth, and lists of children of each of them.
AtDepth(s, n) == s \in Seq(DOMAIN tree) /\ IsInjective(s) /\ \A q \in ToSet(s) : Len(q) = n
OfChildren(s, op) ==
    \A q \in ToSet(s) :
        op[q] \in Seq(DOMAIN tree) /\ IsInjective(op[q]) /\ ToSet(op[q]) \subseteq Matched(q, "*")

ValuesOf(s) == Each(s, Values)
ItemsOf(s) == Each(s, Items)
FieldsOf(s, name) == Each(s, LAMBDA q : Field(q, name))

LEMMA ChildrenAt ==
    ASSUME Whole, NEW s, NEW n, AtDepth(s, n), NEW op, OfChildren(s, op), NEW all,
           all = FlattenSeq(ListOf(s, op))
    PROVE  AtDepth(all, n + 1) /\ ToSet(all) = UNION {ToSet(op[q]) : q \in ToSet(s)}
<1>1. /\ s \in Seq(DOMAIN tree) /\ IsInjective(s)
      /\ \A q \in ToSet(s) : q \in DOMAIN tree /\ Len(q) = n
      /\ DOMAIN tree \subseteq Paths
  BY TreeMembers DEF AtDepth
<1>2. \A q \in ToSet(s) : \A r \in ToSet(op[q]) : Extends(r, q) /\ Len(r) = n + 1
  <2> SUFFICES ASSUME NEW q \in ToSet(s), NEW r \in Matched(q, "*")
               PROVE  Extends(r, q) /\ Len(r) = n + 1
    BY DEF OfChildren
  <2> QED
    BY <1>1, MatchedExtends
<1>3. Lists(DOMAIN tree, s, op) /\ Distinct(s, op)
  BY <1>1 DEF Lists, Distinct, OfChildren
<1>4. /\ all \in Seq(DOMAIN tree) /\ IsInjective(all)
      /\ ToSet(all) = UNION {ToSet(op[q]) : q \in ToSet(s)}
  <2>1. \A q \in ToSet(s) : Len(q) = n
    BY <1>1
  <2>2. \A q \in ToSet(s) : \A r \in ToSet(op[q]) : Extends(r, q)
    BY <1>2
  <2> QED
    BY <1>1, <1>3, <2>1, <2>2, EachBelow
<1>5. \A r \in ToSet(all) : Len(r) = n + 1
  <2>1. \A r \in ToSet(all) : \E q \in ToSet(s) : r \in ToSet(op[q])
    BY <1>4
  <2> QED
    BY <1>2, <2>1
<1> QED
  BY <1>4, <1>5 DEF AtDepth

LEMMA ValuesAt ==
    ASSUME Whole, NEW s, NEW n, AtDepth(s, n), AreOf(s, "mapping")
    PROVE  /\ AtDepth(ValuesOf(s), n + 1)
           /\ ToSet(ValuesOf(s)) = UNION {ToSet(Values(q)) : q \in ToSet(s)}
<1> DEFINE op == [q \in ToSet(s) |-> Values(q)]
<1>1. /\ \A i \in DOMAIN s : s[i] \in ToSet(s)
      /\ \A q \in ToSet(s) : q \in DOMAIN tree /\ At(q).kind = "mapping"
  BY TreeMembers DEF AtDepth, AreOf
<1>2. \A q \in ToSet(s) : op[q] = Values(q)
  OBVIOUS
<1> HIDE DEF op
<1>3. OfChildren(s, op)
  BY <1>1, <1>2, ValuesMean DEF OfChildren
<1>4. ValuesOf(s) = FlattenSeq(ListOf(s, op))
  BY <1>1, <1>2 DEF ValuesOf, Each, ListOf
<1>5. UNION {ToSet(op[q]) : q \in ToSet(s)} = UNION {ToSet(Values(q)) : q \in ToSet(s)}
  BY <1>2
<1> QED
  BY <1>3, <1>4, <1>5, ChildrenAt

LEMMA ItemsAt ==
    ASSUME Whole, NEW s, NEW n, AtDepth(s, n), AreOf(s, "sequence")
    PROVE  AtDepth(ItemsOf(s), n + 1) /\ ToSet(ItemsOf(s)) = AllMatched(ToSet(s), "-")
<1> DEFINE op == [q \in ToSet(s) |-> Items(q)]
<1>1. /\ \A i \in DOMAIN s : s[i] \in ToSet(s)
      /\ \A q \in ToSet(s) : q \in DOMAIN tree /\ At(q).kind = "sequence"
  BY TreeMembers DEF AtDepth, AreOf
<1>2. \A q \in ToSet(s) : op[q] = Items(q)
  OBVIOUS
<1> HIDE DEF op
<1>3. \A q \in ToSet(s) : /\ Items(q) \in Seq(DOMAIN tree) /\ IsInjective(Items(q))
                          /\ ToSet(Items(q)) = Matched(q, "*") /\ ToSet(Items(q)) = Matched(q, "-")
  <2>1. "sequence" # "mapping"
    OBVIOUS
  <2> QED
    BY <1>1, <2>1, ItemsMean
<1>4. OfChildren(s, op)
  BY <1>2, <1>3 DEF OfChildren
<1>5. ItemsOf(s) = FlattenSeq(ListOf(s, op))
  BY <1>1, <1>2 DEF ItemsOf, Each, ListOf
<1>6. UNION {ToSet(op[q]) : q \in ToSet(s)} = AllMatched(ToSet(s), "-")
  BY <1>2, <1>3 DEF AllMatched
<1> QED
  BY <1>4, <1>5, <1>6, ChildrenAt

LEMMA FieldsAt ==
    ASSUME Whole, NEW s, NEW n, AtDepth(s, n), NEW name, name \notin {"-", "*"}
    PROVE  /\ AtDepth(FieldsOf(s, name), n + 1)
           /\ ToSet(FieldsOf(s, name)) = AllMatched(ToSet(s), name)
<1> DEFINE op == [q \in ToSet(s) |-> Field(q, name)]
<1>1. /\ \A i \in DOMAIN s : s[i] \in ToSet(s)
      /\ \A q \in ToSet(s) : q \in DOMAIN tree
  BY TreeMembers DEF AtDepth
<1>2. \A q \in ToSet(s) : op[q] = Field(q, name)
  OBVIOUS
<1> HIDE DEF op
<1>3. \A q \in ToSet(s) : /\ Field(q, name) \in Seq(DOMAIN tree) /\ IsInjective(Field(q, name))
                          /\ ToSet(Field(q, name)) = Matched(q, name)
  BY <1>1, FieldMeans
<1>4. \A q : Matched(q, name) \subseteq Matched(q, "*")
  BY DEF Matched
<1>5. OfChildren(s, op)
  BY <1>2, <1>3, <1>4 DEF OfChildren
<1>6. FieldsOf(s, name) = FlattenSeq(ListOf(s, op))
  BY <1>1, <1>2 DEF FieldsOf, Each, ListOf
<1>7. UNION {ToSet(op[q]) : q \in ToSet(s)} = AllMatched(ToSet(s), name)
  BY <1>2, <1>3 DEF AllMatched
<1> QED
  BY <1>5, <1>6, <1>7, ChildrenAt

-----------------------------------------------------------------------------
(* What one job names *)

ServiceImages(job) == Each(Services(job), LAMBDA q : Field(q, "image"))
StepUses(job) == Each(Steps(job), LAMBDA q : Field(q, "uses"))

LEMMA NoFieldBelow ==
    ASSUME NEW q, At(q).kind # "mapping", NEW name, name \notin {"-", "*"}
    PROVE  Matched(q, name) = {}
BY DEF Matched, Label

\* The field of one place.
LEMMA FieldBelow ==
    ASSUME Whole, NEW p \in DOMAIN tree, NEW name, name \notin {"-", "*"}
    PROVE  /\ Field(p, name) \in Seq(DOMAIN tree) /\ IsInjective(Field(p, name))
           /\ ToSet(Field(p, name)) = Matched(p, name)
           /\ \A r \in Matched(p, name) : r \in DOMAIN tree /\ Len(r) = Len(p) + 1 /\ Extends(r, p)
BY FieldMeans, MatchedExtends

LEMMA ContainerMeans ==
    ASSUME Whole, NEW job \in DOMAIN tree, Len(job) = 3
    PROVE  /\ Container(job) \in Seq(DOMAIN tree) /\ IsInjective(Container(job))
           /\ \A r : r \in ToSet(Container(job)) <=>
                \/ r \in Matched(job, "container") /\ At(r).kind # "mapping"
                \/ r \in AllMatched(Matched(job, "container"), "image")
           /\ \A r \in ToSet(Container(job)) : Len(r) \in {4, 5} /\ Extends(r, job)
<1> DEFINE T == DOMAIN tree
           op == [q \in T |-> IF At(q).kind = "mapping" THEN Field(q, "image") ELSE <<q>>]
<1> PICK s : s = Field(job, "container")
  OBVIOUS
<1>1. /\ s \in Seq(T) /\ IsInjective(s) /\ ToSet(s) = Matched(job, "container")
      /\ \A q \in ToSet(s) : q \in T /\ Len(q) = 4 /\ Extends(q, job)
  <2>1. /\ Field(job, "container") \in Seq(T) /\ IsInjective(Field(job, "container"))
        /\ ToSet(Field(job, "container")) = Matched(job, "container")
        /\ \A q \in Matched(job, "container") : q \in T /\ Len(q) = Len(job) + 1 /\ Extends(q, job)
    BY FieldBelow
  <2> QED
    BY <2>1
<1>2. T \subseteq Paths /\ \A i \in DOMAIN s : s[i] \in ToSet(s)
  BY <1>1, TreeMembers
<1>3. ASSUME NEW q \in ToSet(s)
      PROVE  /\ op[q] = IF At(q).kind = "mapping" THEN Field(q, "image") ELSE <<q>>
             /\ op[q] \in Seq(T) /\ IsInjective(op[q])
             /\ \A r \in ToSet(op[q]) : r \in T /\ Len(r) \in {4, 5} /\ Extends(r, q)
             /\ \A r : r \in ToSet(op[q]) <=>
                  (r = q /\ At(q).kind # "mapping") \/ r \in Matched(q, "image")
  <2>1. q \in T /\ Len(q) = 4 /\ q \in Paths
    BY <1>1, <1>2
  <2>2. op[q] = IF At(q).kind = "mapping" THEN Field(q, "image") ELSE <<q>>
    BY <2>1
  <2>3. CASE At(q).kind = "mapping"
    <3>1. op[q] = Field(q, "image")
      BY <2>2, <2>3
    <3>2. /\ Field(q, "image") \in Seq(T) /\ IsInjective(Field(q, "image"))
          /\ ToSet(Field(q, "image")) = Matched(q, "image")
          /\ \A r \in Matched(q, "image") : r \in T /\ Len(r) = Len(q) + 1 /\ Extends(r, q)
      BY <2>1, FieldBelow
    <3> HIDE DEF op
    <3> QED
      BY <2>1, <2>2, <2>3, <3>1, <3>2
  <2>4. CASE At(q).kind # "mapping"
    <3>1. op[q] = <<q>>
      BY <2>2, <2>4
    <3>2. <<q>> \in Seq(T) /\ ToSet(<<q>>) = {q} /\ IsInjective(<<q>>) /\ Extends(q, q)
      BY <2>1, MembersOfOne, OneIsDistinct, ExtendsItself
    <3>3. Matched(q, "image") = {}
      BY <2>4, NoFieldBelow
    <3> HIDE DEF op
    <3> QED
      BY <2>1, <2>2, <2>4, <3>1, <3>2, <3>3
  <2> QED
    BY <2>3, <2>4
<1> HIDE DEF op
<1>4. Container(job) = FlattenSeq(ListOf(s, op))
  BY <1>2, <1>3 DEF Container, Each, ListOf
<1>5. Lists(T, s, op) /\ Distinct(s, op)
  BY <1>1, <1>3 DEF Lists, Distinct
<1> PICK all : all = FlattenSeq(ListOf(s, op))
  OBVIOUS
<1>6. all \in Seq(T) /\ IsInjective(all) /\ ToSet(all) = UNION {ToSet(op[q]) : q \in ToSet(s)}
  <2>1. \A q \in ToSet(s) : Len(q) = 4
    BY <1>1
  <2>2. \A q \in ToSet(s) : \A r \in ToSet(op[q]) : Extends(r, q)
    BY <1>3
  <2> QED
    BY <1>1, <1>2, <1>5, <2>1, <2>2, EachBelow
<1>7. ASSUME NEW r \in ToSet(all) PROVE Len(r) \in {4, 5} /\ Extends(r, job)
  <2>1. PICK q \in ToSet(s) : r \in ToSet(op[q])
    BY <1>6
  <2>2. Extends(r, q) /\ Extends(q, job) /\ Len(r) \in {4, 5}
    BY <1>1, <1>3, <2>1
  <2>3. r \in Paths /\ q \in Paths /\ job \in Paths
    BY <1>1, <1>2, <1>3, <2>1
  <2> QED
    BY <2>2, <2>3, ExtendsFurther
<1>8. \A r : r \in ToSet(all) <=> \E q \in ToSet(s) : r \in ToSet(op[q])
  BY <1>6
<1>9. \A r : r \in ToSet(all) <=>
        \E q \in ToSet(s) : (r = q /\ At(q).kind # "mapping") \/ r \in Matched(q, "image")
  BY <1>3, <1>8
<1>10. \A r : r \in ToSet(all) <=>
                \/ r \in Matched(job, "container") /\ At(r).kind # "mapping"
                \/ r \in AllMatched(Matched(job, "container"), "image")
  BY <1>1, <1>9 DEF AllMatched
<1> QED
  BY <1>4, <1>6, <1>7, <1>10

LEMMA AllMatchedExtend ==
    ASSUME Whole, NEW p \in DOMAIN tree, NEW Q \in SUBSET DOMAIN tree, \A q \in Q : Extends(q, p),
           NEW l
    PROVE  AllMatched(Q, l) \in SUBSET DOMAIN tree /\ \A r \in AllMatched(Q, l) : Extends(r, p)
<1> SUFFICES ASSUME NEW q \in Q, NEW r \in Matched(q, l) PROVE r \in DOMAIN tree /\ Extends(r, p)
  BY DEF AllMatched
<1>1. r \in DOMAIN tree /\ Extends(r, q) /\ Extends(q, p)
  BY MatchedExtends
<1>2. p \in Paths /\ q \in Paths /\ r \in Paths
  BY <1>1, WholeShape
<1> QED
  BY <1>1, <1>2, ExtendsFurther

\* The places of the jobs, and what is below any child of a value of "jobs".
LEMMA JobsMean ==
    ASSUME Whole, ValidShape
    PROVE  /\ Jobs \in Seq(DOMAIN tree) /\ IsInjective(Jobs)
           /\ \A job \in ToSet(Jobs) : job \in DOMAIN tree /\ Len(job) = 3 /\ At(job).kind = "mapping"
           /\ \A l : AllMatched(Reached(<<"-", "jobs", "*">>), l) = AllMatched(ToSet(Jobs), l)
<1>1. Reached(<<"-">>) = {<<1>>} /\ <<1>> \in DOMAIN tree
  <2>1. Reached(<<"-">>) = AllMatched({<<>>}, "-")
    BY ReachedNone, ReachedOne
  <2>2. <<>> \in DOMAIN tree /\ At(<<>>).kind = "document" /\ Inner(<<>>) = {1}
    <3>1. <<>> \in DOMAIN tree /\ At(<<>>).kind = "document" /\ Len(At(<<>>).content) = 1
          /\ At(<<>>).content \in Seq(DOMAIN document)
      BY WholeShape
    <3> QED
      BY <3>1 DEF Inner
  <2>3. Matched(<<>>, "-") = {Append(<<>>, 1)}
    BY <2>2 DEF Matched, Label
  <2>4. AllMatched({<<>>}, "-") = Matched(<<>>, "-")
    BY DEF AllMatched
  <2>5. Append(<<>>, 1) = <<1>>
    OBVIOUS
  <2>6. Append(<<>>, 1) \in DOMAIN tree
    BY <2>2, WholeShape
  <2> QED
    BY <2>1, <2>3, <2>4, <2>5, <2>6
<1> PICK s : s = Field(<<1>>, "jobs")
  OBVIOUS
<1>2. /\ s \in Seq(DOMAIN tree) /\ IsInjective(s) /\ ToSet(s) = Matched(<<1>>, "jobs")
      /\ \A q \in ToSet(s) : q \in DOMAIN tree /\ Len(q) = 2
  <2>1. /\ Field(<<1>>, "jobs") \in Seq(DOMAIN tree) /\ IsInjective(Field(<<1>>, "jobs"))
        /\ ToSet(Field(<<1>>, "jobs")) = Matched(<<1>>, "jobs")
        /\ \A q \in Matched(<<1>>, "jobs") : q \in DOMAIN tree /\ Len(q) = Len(<<1>>) + 1
    BY <1>1, FieldBelow
  <2>2. Len(<<1>>) = 1
    OBVIOUS
  <2> QED
    BY <2>1, <2>2
<1>3. AreOf(s, "mapping") /\ AreOf(Jobs, "mapping")
  BY DEF ValidShape
<1>4. Reached(<<"-", "jobs", "*">>) = AllMatched(ToSet(s), "*")
  <2>1. Reached(<<"-", "jobs">>) = AllMatched(Reached(<<"-">>), "jobs")
    BY ReachedTwo
  <2>2. AllMatched({<<1>>}, "jobs") = ToSet(s)
    BY <1>2 DEF AllMatched
  <2>3. Reached(<<"-", "jobs", "*">>) = AllMatched(Reached(<<"-", "jobs">>), "*")
    BY ReachedThree
  <2> QED
    BY <1>1, <2>1, <2>2, <2>3
<1>5. /\ Jobs \in Seq(DOMAIN tree) /\ IsInjective(Jobs)
      /\ ToSet(Jobs) = UNION {ToSet(Values(q)) : q \in ToSet(s)}
      /\ \A job \in ToSet(Jobs) : Len(job) = 3
  <2>1. Jobs = ValuesOf(s)
    BY DEF Jobs, ValuesOf
  <2>2. AtDepth(s, 2)
    BY <1>2 DEF AtDepth
  <2>3. AtDepth(ValuesOf(s), 2 + 1) /\ ToSet(ValuesOf(s)) = UNION {ToSet(Values(q)) : q \in ToSet(s)}
    BY <1>3, <2>2, ValuesAt
  <2>4. 2 + 1 = 3
    OBVIOUS
  <2> QED
    BY <2>1, <2>3, <2>4, Zenon DEF AtDepth
<1>6. \A job \in ToSet(Jobs) : job \in DOMAIN tree /\ At(job).kind = "mapping"
  BY <1>3, <1>5, TreeMembers DEF AreOf
<1>7. \A l : AllMatched(AllMatched(ToSet(s), "*"), l) = AllMatched(ToSet(Jobs), l)
  <2>1. ToSet(s) \in SUBSET DOMAIN tree /\ \A q \in ToSet(s) : At(q).kind = "mapping"
    BY <1>2, <1>3 DEF AreOf
  <2>2. \A l : AllMatched(AllMatched(ToSet(s), "*"), l)
                 = AllMatched(UNION {ToSet(Values(q)) : q \in ToSet(s)}, l)
    BY <2>1, StarMeans
  <2> QED
    BY <1>5, <2>2
<1> QED
  BY <1>4, <1>5, <1>6, <1>7

\* The five places, from the places of the jobs.
LEMMA PatternsMean ==
    ASSUME Whole, ValidShape
    PROVE  LET J == ToSet(Jobs)
           IN  /\ Reached(<<"-", "jobs", "*", "uses">>) = AllMatched(J, "uses")
               /\ Reached(<<"-", "jobs", "*", "steps", "-", "uses">>)
                    = AllMatched(AllMatched(AllMatched(J, "steps"), "-"), "uses")
               /\ Reached(<<"-", "jobs", "*", "container">>) = AllMatched(J, "container")
               /\ Reached(<<"-", "jobs", "*", "container", "image">>)
                    = AllMatched(AllMatched(J, "container"), "image")
               /\ Reached(<<"-", "jobs", "*", "services", "*", "image">>)
                    = AllMatched(AllMatched(AllMatched(J, "services"), "*"), "image")
<1>1. \A l : AllMatched(Reached(<<"-", "jobs", "*">>), l) = AllMatched(ToSet(Jobs), l)
  BY JobsMean
<1>2. \A l : Reached(<<"-", "jobs", "*", l>>) = AllMatched(ToSet(Jobs), l)
  BY <1>1, ReachedFour
<1>3. /\ Reached(<<"-", "jobs", "*", "steps">>) = AllMatched(ToSet(Jobs), "steps")
      /\ Reached(<<"-", "jobs", "*", "services">>) = AllMatched(ToSet(Jobs), "services")
      /\ Reached(<<"-", "jobs", "*", "container">>) = AllMatched(ToSet(Jobs), "container")
      /\ Reached(<<"-", "jobs", "*", "uses">>) = AllMatched(ToSet(Jobs), "uses")
  BY <1>2
<1>4. Reached(<<"-", "jobs", "*", "container", "image">>)
        = AllMatched(Reached(<<"-", "jobs", "*", "container">>), "image")
  BY ReachedFive
<1>5. /\ Reached(<<"-", "jobs", "*", "steps", "-">>)
           = AllMatched(Reached(<<"-", "jobs", "*", "steps">>), "-")
      /\ Reached(<<"-", "jobs", "*", "services", "*">>)
           = AllMatched(Reached(<<"-", "jobs", "*", "services">>), "*")
  BY ReachedFive
<1>6. /\ Reached(<<"-", "jobs", "*", "steps", "-", "uses">>)
           = AllMatched(Reached(<<"-", "jobs", "*", "steps", "-">>), "uses")
      /\ Reached(<<"-", "jobs", "*", "services", "*", "image">>)
           = AllMatched(Reached(<<"-", "jobs", "*", "services", "*">>), "image")
  BY ReachedSix
<1> QED
  BY <1>3, <1>4, <1>5, <1>6, Zenon

LEMMA ServicesMean ==
    ASSUME Whole, ValidShape, NEW job \in ToSet(Jobs)
    PROVE  /\ ServiceImages(job) \in Seq(DOMAIN tree) /\ IsInjective(ServiceImages(job))
           /\ ToSet(ServiceImages(job)) = AllMatched(AllMatched(Matched(job, "services"), "*"), "image")
           /\ \A r \in ToSet(ServiceImages(job)) : Len(r) = 6
<1>1. job \in DOMAIN tree /\ Len(job) = 3
  BY JobsMean
<1> PICK s : s = Field(job, "services")
  OBVIOUS
<1>2. /\ s \in Seq(DOMAIN tree) /\ IsInjective(s) /\ ToSet(s) = Matched(job, "services")
      /\ \A q \in ToSet(s) : q \in DOMAIN tree /\ Len(q) = 4
  <2>1. /\ Field(job, "services") \in Seq(DOMAIN tree) /\ IsInjective(Field(job, "services"))
        /\ ToSet(Field(job, "services")) = Matched(job, "services")
        /\ \A q \in Matched(job, "services") : q \in DOMAIN tree /\ Len(q) = Len(job) + 1
    BY <1>1, FieldBelow
  <2> QED
    BY <1>1, <2>1
<1>3. AreOf(s, "mapping")
  BY DEF ValidShape
<1> PICK t : t = Services(job)
  OBVIOUS
<1>4. /\ t \in Seq(DOMAIN tree) /\ IsInjective(t)
      /\ ToSet(t) = UNION {ToSet(Values(q)) : q \in ToSet(s)}
      /\ \A r \in ToSet(t) : Len(r) = 5
  <2>1. Services(job) = ValuesOf(s)
    BY DEF Services, ValuesOf
  <2>2. AtDepth(s, 4)
    BY <1>2 DEF AtDepth
  <2>3. AtDepth(ValuesOf(s), 4 + 1) /\ ToSet(ValuesOf(s)) = UNION {ToSet(Values(q)) : q \in ToSet(s)}
    BY <1>3, <2>2, ValuesAt
  <2>4. 4 + 1 = 5
    OBVIOUS
  <2> QED
    BY <2>1, <2>3, <2>4, Zenon DEF AtDepth
<1>5. /\ AtDepth(FieldsOf(t, "image"), 5 + 1)
      /\ ToSet(FieldsOf(t, "image")) = AllMatched(ToSet(t), "image")
  <2>1. AtDepth(t, 5)
    BY <1>4 DEF AtDepth
  <2> QED
    BY <2>1, FieldsAt
<1>6. ServiceImages(job) = FieldsOf(t, "image")
  BY DEF ServiceImages, FieldsOf
<1>7. AllMatched(AllMatched(ToSet(s), "*"), "image")
        = AllMatched(UNION {ToSet(Values(q)) : q \in ToSet(s)}, "image")
  <2>1. ToSet(s) \in SUBSET DOMAIN tree /\ \A q \in ToSet(s) : At(q).kind = "mapping"
    BY <1>2, <1>3 DEF AreOf
  <2> QED
    BY <2>1, StarMeans
<1>8. 5 + 1 = 6
  OBVIOUS
<1> QED
  BY <1>2, <1>4, <1>5, <1>6, <1>7, <1>8, Zenon DEF AtDepth

LEMMA StepsMean ==
    ASSUME Whole, ValidShape, NEW job \in ToSet(Jobs)
    PROVE  /\ StepUses(job) \in Seq(DOMAIN tree) /\ IsInjective(StepUses(job))
           /\ ToSet(StepUses(job)) = AllMatched(AllMatched(Matched(job, "steps"), "-"), "uses")
           /\ \A r \in ToSet(StepUses(job)) : Len(r) = 6
<1>1. job \in DOMAIN tree /\ Len(job) = 3
  BY JobsMean
<1> PICK s : s = Field(job, "steps")
  OBVIOUS
<1>2. /\ s \in Seq(DOMAIN tree) /\ IsInjective(s) /\ ToSet(s) = Matched(job, "steps")
      /\ \A q \in ToSet(s) : q \in DOMAIN tree /\ Len(q) = 4
  <2>1. /\ Field(job, "steps") \in Seq(DOMAIN tree) /\ IsInjective(Field(job, "steps"))
        /\ ToSet(Field(job, "steps")) = Matched(job, "steps")
        /\ \A q \in Matched(job, "steps") : q \in DOMAIN tree /\ Len(q) = Len(job) + 1
    BY <1>1, FieldBelow
  <2> QED
    BY <1>1, <2>1
<1>3. AreOf(s, "sequence")
  BY DEF ValidShape
<1> PICK t : t = Steps(job)
  OBVIOUS
<1>4. /\ t \in Seq(DOMAIN tree) /\ IsInjective(t) /\ ToSet(t) = AllMatched(ToSet(s), "-")
      /\ \A r \in ToSet(t) : Len(r) = 5
  <2>1. Steps(job) = ItemsOf(s)
    BY DEF Steps, ItemsOf
  <2>2. AtDepth(s, 4)
    BY <1>2 DEF AtDepth
  <2>3. AtDepth(ItemsOf(s), 4 + 1) /\ ToSet(ItemsOf(s)) = AllMatched(ToSet(s), "-")
    BY <1>3, <2>2, ItemsAt
  <2>4. 4 + 1 = 5
    OBVIOUS
  <2> QED
    BY <2>1, <2>3, <2>4, Zenon DEF AtDepth
<1>5. /\ AtDepth(FieldsOf(t, "uses"), 5 + 1)
      /\ ToSet(FieldsOf(t, "uses")) = AllMatched(ToSet(t), "uses")
  <2>1. AtDepth(t, 5)
    BY <1>4 DEF AtDepth
  <2> QED
    BY <2>1, FieldsAt
<1>6. StepUses(job) = FieldsOf(t, "uses")
  BY DEF StepUses, FieldsOf
<1>7. 5 + 1 = 6
  OBVIOUS
<1> QED
  BY <1>2, <1>4, <1>5, <1>6, <1>7, Zenon DEF AtDepth

-----------------------------------------------------------------------------
(* The sites of a job *)

SiteSet == [kind : {"action", "image"}, path : DOMAIN tree]
UsesAt(job) == Matched(job, "uses") \union AllMatched(AllMatched(Matched(job, "steps"), "-"), "uses")
ImagesAt(job) ==
    {r \in Matched(job, "container") : At(r).kind # "mapping"}
      \union AllMatched(Matched(job, "container"), "image")
      \union AllMatched(AllMatched(Matched(job, "services"), "*"), "image")
\* A list of sites, each once.
SiteList(s) == s \in Seq(SiteSet) /\ IsInjective(s)

LEMMA SitesOfKind ==
    ASSUME Whole, NEW kind \in {"action", "image"}, NEW s \in Seq(DOMAIN tree), IsInjective(s)
    PROVE  /\ SiteList(AsSites(kind, s))
           /\ \A site : site \in ToSet(AsSites(kind, s)) <=>
                site \in SiteSet /\ site.kind = kind /\ site.path \in ToSet(s)
<1> DEFINE sites == AsSites(kind, s)
<1> PICK n \in Nat : n = Len(s)
  OBVIOUS
<1>1. DOMAIN s = 1 .. n /\ \A i \in 1 .. n : s[i] \in DOMAIN tree /\ s[i] \in ToSet(s)
  BY DEF ToSet
<1>2. DOMAIN sites = 1 .. n /\ \A i \in 1 .. n : sites[i] = [kind |-> kind, path |-> s[i]]
  BY <1>1 DEF AsSites
<1>3. sites = [i \in 1 .. n |-> [kind |-> kind, path |-> s[i]]]
  BY <1>1 DEF AsSites
<1>4. \A i \in 1 .. n : [kind |-> kind, path |-> s[i]] \in SiteSet
  BY <1>1 DEF SiteSet
<1>5. sites \in Seq(SiteSet)
  BY <1>3, <1>4
<1>6. IsInjective(sites)
  <2>1. ASSUME NEW i \in 1 .. n, NEW j \in 1 .. n, sites[i] = sites[j] PROVE i = j
    <3>1. [kind |-> kind, path |-> s[i]] = [kind |-> kind, path |-> s[j]]
      BY <1>2, <2>1
    <3>2. s[i] = s[j]
      BY <3>1
    <3> QED
      BY <1>1, <3>2 DEF IsInjective
  <2> QED
    BY <1>2, <2>1 DEF IsInjective
<1>7. ASSUME NEW site \in ToSet(sites)
      PROVE  site \in SiteSet /\ site.kind = kind /\ site.path \in ToSet(s)
  <2>1. PICK i \in 1 .. n : site = [kind |-> kind, path |-> s[i]]
    BY <1>2 DEF ToSet
  <2> QED
    BY <1>1, <1>4, <2>1
<1>8. ASSUME NEW site \in SiteSet, site.kind = kind, site.path \in ToSet(s)
      PROVE  site \in ToSet(sites)
  <2>1. PICK i \in 1 .. n : site.path = s[i]
    BY <1>1, <1>8 DEF ToSet
  <2>2. site = [kind |-> kind, path |-> s[i]]
    BY <1>8, <2>1 DEF SiteSet
  <2> QED
    BY <1>2, <2>2 DEF ToSet
<1> HIDE DEF sites
<1>9. SiteList(sites)
  BY <1>5, <1>6 DEF SiteList
<1>10. \A site : site \in ToSet(sites) <=> site \in SiteSet /\ site.kind = kind /\ site.path \in ToSet(s)
  BY <1>7, <1>8
<1> QED
  BY <1>9, <1>10 DEF sites

LEMMA TwoLists ==
    ASSUME NEW s, NEW t, SiteList(s), SiteList(t), \A a \in ToSet(s) : a \notin ToSet(t)
    PROVE  SiteList(s \o t) /\ \A a : a \in ToSet(s \o t) <=> a \in ToSet(s) \/ a \in ToSet(t)
<1>1. s \in Seq(SiteSet) /\ t \in Seq(SiteSet) /\ IsInjective(s) /\ IsInjective(t)
  BY DEF SiteList
<1>2. ToSet(s \o t) = ToSet(s) \union ToSet(t)
  BY <1>1, MembersOfConcat
<1>3. IsInjective(s \o t)
  BY <1>1, DistinctConcat
<1>4. s \o t \in Seq(SiteSet)
  BY <1>1
<1> QED
  BY <1>2, <1>3, <1>4 DEF SiteList

LEMMA SitesMean ==
    ASSUME Whole, ValidShape, NEW job \in ToSet(Jobs)
    PROVE  /\ SiteList(Sites(job))
           /\ \A site : site \in ToSet(Sites(job)) <=>
                /\ site \in SiteSet
                /\ \/ site.kind = "action" /\ site.path \in UsesAt(job)
                   \/ site.kind = "image" /\ site.path \in ImagesAt(job)
<1> PICK a, b, c, d : a = Field(job, "uses") /\ b = Container(job)
                      /\ c = ServiceImages(job) /\ d = StepUses(job)
  OBVIOUS
<1> PICK A, B, C, D : A = AsSites("action", a) /\ B = AsSites("image", b)
                      /\ C = AsSites("image", c) /\ D = AsSites("action", d)
  OBVIOUS
<1>0. job \in DOMAIN tree /\ Len(job) = 3
  BY JobsMean
<1>1. /\ a \in Seq(DOMAIN tree) /\ IsInjective(a) /\ ToSet(a) = Matched(job, "uses")
      /\ \A r \in ToSet(a) : Len(r) = 4
  <2>1. \A r \in Matched(job, "uses") : Len(r) = Len(job) + 1
    BY <1>0, FieldBelow
  <2>2. /\ Field(job, "uses") \in Seq(DOMAIN tree) /\ IsInjective(Field(job, "uses"))
        /\ ToSet(Field(job, "uses")) = Matched(job, "uses")
    BY <1>0, FieldBelow
  <2> QED
    BY <1>0, <2>1, <2>2
<1>2. /\ b \in Seq(DOMAIN tree) /\ IsInjective(b)
      /\ \A r : r \in ToSet(b) <=>
            \/ r \in Matched(job, "container") /\ At(r).kind # "mapping"
            \/ r \in AllMatched(Matched(job, "container"), "image")
      /\ \A r \in ToSet(b) : Len(r) \in {4, 5}
  BY <1>0, ContainerMeans
<1>3. /\ c \in Seq(DOMAIN tree) /\ IsInjective(c)
      /\ ToSet(c) = AllMatched(AllMatched(Matched(job, "services"), "*"), "image")
      /\ \A r \in ToSet(c) : Len(r) = 6
  BY ServicesMean
<1>4. /\ d \in Seq(DOMAIN tree) /\ IsInjective(d)
      /\ ToSet(d) = AllMatched(AllMatched(Matched(job, "steps"), "-"), "uses")
      /\ \A r \in ToSet(d) : Len(r) = 6
  BY StepsMean
<1>5. /\ SiteList(A)
      /\ \A x : x \in ToSet(A) <=> x \in SiteSet /\ x.kind = "action" /\ x.path \in ToSet(a)
  BY <1>1, SitesOfKind
<1>6. /\ SiteList(B)
      /\ \A x : x \in ToSet(B) <=> x \in SiteSet /\ x.kind = "image" /\ x.path \in ToSet(b)
  BY <1>2, SitesOfKind
<1>7. /\ SiteList(C)
      /\ \A x : x \in ToSet(C) <=> x \in SiteSet /\ x.kind = "image" /\ x.path \in ToSet(c)
  BY <1>3, SitesOfKind
<1>8. /\ SiteList(D)
      /\ \A x : x \in ToSet(D) <=> x \in SiteSet /\ x.kind = "action" /\ x.path \in ToSet(d)
  BY <1>4, SitesOfKind
<1>9. SiteList(A \o B) /\ \A x : x \in ToSet(A \o B) <=> x \in ToSet(A) \/ x \in ToSet(B)
  BY <1>5, <1>6, TwoLists
<1>10. SiteList(A \o B \o C) /\ \A x : x \in ToSet(A \o B \o C) <=> x \in ToSet(A \o B) \/ x \in ToSet(C)
  <2>1. \A x \in ToSet(A \o B) : x \notin ToSet(C)
    <3>1. \A r \in ToSet(b) : Len(r) # 6
      <4>1. \A r \in ToSet(b) : Len(r) \in {4, 5}
        BY <1>2
      <4>2. \A k \in {4, 5} : k # 6
        OBVIOUS
      <4> QED
        BY <4>1, <4>2
    <3>2. \A r \in ToSet(c) : Len(r) = 6
      BY <1>3
    <3>3. \A x \in ToSet(A) : x \notin ToSet(C)
      BY <1>5, <1>7
    <3>4. \A x \in ToSet(B) : x \notin ToSet(C)
      BY <1>6, <1>7, <3>1, <3>2
    <3> QED
      BY <1>9, <3>3, <3>4
  <2> QED
    BY <1>7, <1>9, <2>1, TwoLists
<1>11. SiteList(A \o B \o C \o D)
       /\ \A x : x \in ToSet(A \o B \o C \o D) <=> x \in ToSet(A \o B \o C) \/ x \in ToSet(D)
  <2>1. \A x \in ToSet(A \o B \o C) : x \notin ToSet(D)
    BY <1>1, <1>4, <1>5, <1>6, <1>7, <1>8, <1>9, <1>10
  <2> QED
    BY <1>8, <1>10, <2>1, TwoLists
<1>12. Sites(job) = A \o B \o C \o D
  BY DEF Sites, ServiceImages, StepUses
<1>13. \A x : x \in ToSet(A \o B \o C \o D) <=>
         \/ x \in SiteSet /\ x.kind = "action" /\ (x.path \in ToSet(a) \/ x.path \in ToSet(d))
         \/ x \in SiteSet /\ x.kind = "image" /\ (x.path \in ToSet(b) \/ x.path \in ToSet(c))
  BY <1>5, <1>6, <1>7, <1>8, <1>9, <1>10, <1>11
<1>14. \A r : r \in UsesAt(job) <=> r \in ToSet(a) \/ r \in ToSet(d)
  BY <1>1, <1>4 DEF UsesAt
<1>15. \A r : r \in ImagesAt(job) <=> r \in ToSet(b) \/ r \in ToSet(c)
  BY <1>2, <1>3 DEF ImagesAt
<1>16. \A x : x \in ToSet(A \o B \o C \o D) <=>
         /\ x \in SiteSet
         /\ \/ x.kind = "action" /\ x.path \in UsesAt(job)
            \/ x.kind = "image" /\ x.path \in ImagesAt(job)
  BY <1>13, <1>14, <1>15
<1> QED
  BY <1>11, <1>12, <1>16

-----------------------------------------------------------------------------
(* The sites of all jobs *)

LEMMA BelowJob ==
    ASSUME Whole, NEW job \in DOMAIN tree
    PROVE  \A r : r \in UsesAt(job) \/ r \in ImagesAt(job) => Extends(r, job)
<1>1. \A l : Matched(job, l) \in SUBSET DOMAIN tree /\ \A r \in Matched(job, l) : Extends(r, job)
  BY MatchedExtends
<1>2. \A l, m : /\ AllMatched(Matched(job, l), m) \in SUBSET DOMAIN tree
                /\ \A r \in AllMatched(Matched(job, l), m) : Extends(r, job)
  BY <1>1, AllMatchedExtend
<1>3. \A r \in AllMatched(AllMatched(Matched(job, "steps"), "-"), "uses") : Extends(r, job)
  <2>1. /\ AllMatched(Matched(job, "steps"), "-") \in SUBSET DOMAIN tree
        /\ \A r \in AllMatched(Matched(job, "steps"), "-") : Extends(r, job)
    BY <1>2
  <2> QED
    BY <2>1, AllMatchedExtend
<1>4. \A r \in AllMatched(AllMatched(Matched(job, "services"), "*"), "image") : Extends(r, job)
  <2>1. /\ AllMatched(Matched(job, "services"), "*") \in SUBSET DOMAIN tree
        /\ \A r \in AllMatched(Matched(job, "services"), "*") : Extends(r, job)
    BY <1>2
  <2> QED
    BY <2>1, AllMatchedExtend
<1>5. \A r \in UsesAt(job) : Extends(r, job)
  BY <1>1, <1>3 DEF UsesAt
<1>6. \A r \in ImagesAt(job) : Extends(r, job)
  BY <1>1, <1>2, <1>4 DEF ImagesAt
<1> QED
  BY <1>5, <1>6

LEMMA AllSitesMean ==
    ASSUME Whole, ValidShape
    PROVE  /\ SiteList(AllSites)
           /\ \A site : site \in ToSet(AllSites) <=>
                \E job \in ToSet(Jobs) :
                    /\ site \in SiteSet
                    /\ \/ site.kind = "action" /\ site.path \in UsesAt(job)
                       \/ site.kind = "image" /\ site.path \in ImagesAt(job)
<1> DEFINE op == [job \in ToSet(Jobs) |-> Sites(job)]
<1>1. /\ Jobs \in Seq(DOMAIN tree) /\ IsInjective(Jobs)
      /\ \A job \in ToSet(Jobs) : job \in DOMAIN tree /\ Len(job) = 3
      /\ \A i \in DOMAIN Jobs : Jobs[i] \in ToSet(Jobs)
  BY JobsMean, TreeMembers
<1>2. \A job \in ToSet(Jobs) : op[job] = Sites(job)
  OBVIOUS
<1> HIDE DEF op
<1>3. AllSites = FlattenSeq(ListOf(Jobs, op))
  BY <1>1, <1>2 DEF AllSites, Each, ListOf
<1>4. \A job \in ToSet(Jobs) : SiteList(op[job])
  BY <1>2, SitesMean
<1>5. Lists(SiteSet, Jobs, op) /\ Distinct(Jobs, op)
  BY <1>1, <1>4 DEF Lists, Distinct, SiteList
<1>6. \A job \in ToSet(Jobs) : \A site \in ToSet(op[job]) : Extends(site.path, job)
  <2> SUFFICES ASSUME NEW job \in ToSet(Jobs), NEW site \in ToSet(op[job])
               PROVE  Extends(site.path, job)
    OBVIOUS
  <2>1. site.path \in UsesAt(job) \/ site.path \in ImagesAt(job)
    BY <1>2, SitesMean
  <2> QED
    BY <1>1, <2>1, BelowJob
<1>7. Apart(Jobs, op)
  <2> SUFFICES ASSUME NEW x \in ToSet(Jobs), NEW y \in ToSet(Jobs), NEW site,
                      site \in ToSet(op[x]), site \in ToSet(op[y])
               PROVE  x = y
    BY DEF Apart
  <2>1. Extends(site.path, x) /\ Extends(site.path, y)
    BY <1>6
  <2>2. Len(x) = Len(y) /\ x \in Paths /\ y \in Paths
    BY <1>1, WholeShape
  <2> QED
    BY <2>1, <2>2, ExtendsOnce
<1> PICK all : all = FlattenSeq(ListOf(Jobs, op))
  OBVIOUS
<1>8. all \in Seq(SiteSet) /\ ToSet(all) = UNION {ToSet(op[x]) : x \in ToSet(Jobs)} /\ IsInjective(all)
  BY <1>1, <1>5, <1>7, GatheredMeans
<1>9. \A site : site \in ToSet(all) <=> \E job \in ToSet(Jobs) : site \in ToSet(Sites(job))
  BY <1>2, <1>8
<1>10. \A site : site \in ToSet(all) <=>
                \E job \in ToSet(Jobs) :
                    /\ site \in SiteSet
                    /\ \/ site.kind = "action" /\ site.path \in UsesAt(job)
                       \/ site.kind = "image" /\ site.path \in ImagesAt(job)
  BY <1>9, SitesMean
<1> QED
  BY <1>3, <1>8, <1>10 DEF SiteList

\* The places where a job may name an action or an image are the five.
LEMMA PlacesOfSites ==
    ASSUME Whole, ValidShape, NEW r \in DOMAIN tree
    PROVE  /\ (\E job \in ToSet(Jobs) : r \in UsesAt(job)) <=>
                \E pattern \in Governs("action") : Matches(Trail(r), pattern)
           /\ (\E job \in ToSet(Jobs) : r \in ImagesAt(job)) <=>
                \/ Matches(Trail(r), <<"-", "jobs", "*", "container">>) /\ At(r).kind # "mapping"
                \/ Matches(Trail(r), <<"-", "jobs", "*", "container", "image">>)
                \/ Matches(Trail(r), <<"-", "jobs", "*", "services", "*", "image">>)
<1> PICK J : J = ToSet(Jobs)
  OBVIOUS
<1>1. \A q, l : q \in AllMatched(J, l) <=> \E job \in J : q \in Matched(job, l)
  BY DEF AllMatched
<1>2. \A q, l, m : q \in AllMatched(AllMatched(J, l), m) <=> \E job \in J : q \in AllMatched(Matched(job, l), m)
  BY DEF AllMatched
<1>3. \A q, l, m, k : q \in AllMatched(AllMatched(AllMatched(J, l), m), k)
                        <=> \E job \in J : q \in AllMatched(AllMatched(Matched(job, l), m), k)
  BY DEF AllMatched
<1>4. \A pattern : r \in Reached(pattern) <=> Matches(Trail(r), pattern)
  BY DEF Reached
<1>5. /\ Reached(<<"-", "jobs", "*", "uses">>) = AllMatched(J, "uses")
      /\ Reached(<<"-", "jobs", "*", "steps", "-", "uses">>)
           = AllMatched(AllMatched(AllMatched(J, "steps"), "-"), "uses")
      /\ Reached(<<"-", "jobs", "*", "container">>) = AllMatched(J, "container")
      /\ Reached(<<"-", "jobs", "*", "container", "image">>)
           = AllMatched(AllMatched(J, "container"), "image")
      /\ Reached(<<"-", "jobs", "*", "services", "*", "image">>)
           = AllMatched(AllMatched(AllMatched(J, "services"), "*"), "image")
  BY PatternsMean
<1>6. (\E job \in J : r \in UsesAt(job)) <=>
        \/ Matches(Trail(r), <<"-", "jobs", "*", "uses">>)
        \/ Matches(Trail(r), <<"-", "jobs", "*", "steps", "-", "uses">>)
  <2>1. Matches(Trail(r), <<"-", "jobs", "*", "uses">>) <=> \E job \in J : r \in Matched(job, "uses")
    BY <1>1, <1>4, <1>5
  <2>2. Matches(Trail(r), <<"-", "jobs", "*", "steps", "-", "uses">>)
          <=> \E job \in J : r \in AllMatched(AllMatched(Matched(job, "steps"), "-"), "uses")
    BY <1>3, <1>4, <1>5
  <2> QED
    BY <2>1, <2>2 DEF UsesAt
<1>7. (\E job \in J : r \in ImagesAt(job)) <=>
                \/ Matches(Trail(r), <<"-", "jobs", "*", "container">>) /\ At(r).kind # "mapping"
                \/ Matches(Trail(r), <<"-", "jobs", "*", "container", "image">>)
                \/ Matches(Trail(r), <<"-", "jobs", "*", "services", "*", "image">>)
  <2>1. Matches(Trail(r), <<"-", "jobs", "*", "container">>)
          <=> \E job \in J : r \in Matched(job, "container")
    BY <1>1, <1>4, <1>5
  <2>2. Matches(Trail(r), <<"-", "jobs", "*", "container", "image">>)
          <=> \E job \in J : r \in AllMatched(Matched(job, "container"), "image")
    BY <1>2, <1>4, <1>5
  <2>3. Matches(Trail(r), <<"-", "jobs", "*", "services", "*", "image">>)
          <=> \E job \in J : r \in AllMatched(AllMatched(Matched(job, "services"), "*"), "image")
    BY <1>3, <1>4, <1>5
  <2>4. \A job : r \in ImagesAt(job) <=>
          \/ r \in Matched(job, "container") /\ At(r).kind # "mapping"
          \/ r \in AllMatched(Matched(job, "container"), "image")
          \/ r \in AllMatched(AllMatched(Matched(job, "services"), "*"), "image")
    BY DEF ImagesAt
  <2> QED
    BY <2>1, <2>2, <2>3, <2>4
<1>8. (\E pattern \in Governs("action") : Matches(Trail(r), pattern)) <=>
        \/ Matches(Trail(r), <<"-", "jobs", "*", "uses">>)
        \/ Matches(Trail(r), <<"-", "jobs", "*", "steps", "-", "uses">>)
  BY DEF Governs
<1> QED
  BY <1>6, <1>7, <1>8

-----------------------------------------------------------------------------
(* The sites that are not null *)

NamedAt(site) == IF IsNull(site.path) THEN <<>> ELSE <<site>>

LEMMA NamedOne ==
    ASSUME NEW site \in SiteSet
    PROVE  /\ NamedAt(site) \in Seq(SiteSet) /\ IsInjective(NamedAt(site))
           /\ Len(NamedAt(site)) \in Nat /\ Len(NamedAt(site)) <= 1
           /\ \A x : x \in ToSet(NamedAt(site)) <=> x = site /\ ~IsNull(site.path)
<1>1. CASE IsNull(site.path)
  <2>1. NamedAt(site) = <<>>
    BY <1>1 DEF NamedAt
  <2>2. <<>> \in Seq(SiteSet) /\ Len(<<>>) = 0
    OBVIOUS
  <2>3. Len(<<>>) \in Nat /\ Len(<<>>) <= 1
    BY <2>2
  <2> QED
    BY <1>1, <2>1, <2>2, <2>3, OneIsDistinct, MembersOfNone
<1>2. CASE ~IsNull(site.path)
  <2>1. NamedAt(site) = <<site>>
    BY <1>2 DEF NamedAt
  <2>2. Len(<<site>>) \in Nat /\ Len(<<site>>) <= 1
    OBVIOUS
  <2>3. <<site>> \in Seq(SiteSet) /\ ToSet(<<site>>) = {site}
    BY MembersOfOne
  <2> QED
    BY <1>2, <2>1, <2>2, <2>3, OneIsDistinct
<1> QED
  BY <1>1, <1>2

LEMMA NamedMeans ==
    ASSUME NEW s, SiteList(s)
    PROVE  /\ SiteList(Named(s))
           /\ \A site : site \in ToSet(Named(s)) <=> site \in ToSet(s) /\ ~IsNull(site.path)
<1> DEFINE op == [site \in SiteSet |-> NamedAt(site)]
<1>1. s \in Seq(SiteSet) /\ IsInjective(s) /\ ToSet(s) \subseteq SiteSet
      /\ \A i \in DOMAIN s : s[i] \in ToSet(s)
  BY DEF SiteList, ToSet
<1>2. \A site \in ToSet(s) :
        /\ op[site] = NamedAt(site) /\ op[site] \in Seq(SiteSet) /\ IsInjective(op[site])
        /\ \A x : x \in ToSet(op[site]) <=> x = site /\ ~IsNull(site.path)
  BY <1>1, NamedOne
<1> HIDE DEF op
<1>3. Named(s) = FlattenSeq(ListOf(s, op))
  BY <1>1, <1>2 DEF Named, Each, ListOf, NamedAt
<1>4. Lists(SiteSet, s, op) /\ Distinct(s, op) /\ Apart(s, op)
  BY <1>1, <1>2 DEF Lists, Distinct, Apart
<1> PICK all : all = FlattenSeq(ListOf(s, op))
  OBVIOUS
<1>5. all \in Seq(SiteSet) /\ ToSet(all) = UNION {ToSet(op[x]) : x \in ToSet(s)} /\ IsInjective(all)
  BY <1>1, <1>4, GatheredMeans
<1>6. \A site : site \in ToSet(all) <=> \E x \in ToSet(s) : site \in ToSet(op[x])
  BY <1>5
<1>7. \A site : site \in ToSet(all) <=> site \in ToSet(s) /\ ~IsNull(site.path)
  BY <1>2, <1>6
<1> QED
  BY <1>3, <1>5, <1>7 DEF SiteList

LEMMA OneMore ==
    ASSUME NEW a \in Nat, NEW b \in Nat, NEW m \in Nat, a < m, b <= 1
    PROVE  a + b \in Nat /\ a + b <= m
OBVIOUS

\* Each site that is reported finds room for one more.
LEMMA NamedBound ==
    ASSUME NEW s, SiteList(s), \A i \in DOMAIN s : Len(Named(SubSeq(s, 1, i - 1))) < MaxReferences
    PROVE  Len(Named(s)) \in Nat /\ Len(Named(s)) <= MaxReferences
<1>0. MaxReferences \in Nat
  BY DocumentAssumption
<1> PICK n \in Nat : n = Len(s)
  BY DEF SiteList
<1>1. s \in Seq(SiteSet) /\ DOMAIN s = 1 .. n /\ \A i \in 1 .. n : s[i] \in SiteSet
  BY DEF SiteList
<1> DEFINE piece == [i \in 1 .. n |-> NamedAt(s[i])]
<1>2. \A i \in 1 .. n : piece[i] = NamedAt(s[i]) /\ piece[i] \in Seq(SiteSet)
                        /\ Len(piece[i]) \in Nat /\ Len(piece[i]) <= 1
  BY <1>1, NamedOne
<1>3. Named(s) = FlattenSeq([i \in 1 .. n |-> piece[i]])
  BY <1>1, <1>2 DEF Named, Each, NamedAt
<1> HIDE DEF piece
<1>4. CASE n = 0
  <2>1. FlattenSeq([i \in 1 .. 0 |-> piece[i]]) = <<>>
    BY FlattenEmpty
  <2>2. Len(<<>>) = 0
    OBVIOUS
  <2> QED
    BY <1>0, <1>3, <1>4, <2>1, <2>2
<1>5. CASE n # 0
  <2> PICK m \in Nat : m + 1 = n
    <3>1. n - 1 \in Nat /\ (n - 1) + 1 = n
      BY <1>5
    <3> QED
      BY <3>1
  <2> PICK t : t = SubSeq(s, 1, m)
    OBVIOUS
  <2>1. t \in Seq(SiteSet) /\ Len(t) = m /\ \A i \in 1 .. m : t[i] = s[i]
    BY <1>1, PrefixOfLength
  <2>2. Named(t) = FlattenSeq([i \in 1 .. m |-> piece[i]])
    <3>1. DOMAIN t = 1 .. m /\ \A i \in 1 .. m : piece[i] = NamedAt(t[i])
      BY <1>2, <2>1
    <3> QED
      BY <3>1 DEF Named, Each, NamedAt
  <2>3. Len(Named(t)) < MaxReferences
    <3>1. n \in DOMAIN s /\ n - 1 = m
      BY <1>1, <1>5
    <3> QED
      BY <3>1
  <2>4. /\ FlattenSeq([i \in 1 .. m |-> piece[i]]) \in Seq(SiteSet)
        /\ FlattenSeq([i \in 1 .. m + 1 |-> piece[i]])
             = FlattenSeq([i \in 1 .. m |-> piece[i]]) \o piece[m + 1]
    BY <1>2, FlattenPositions
  <2>5. Named(s) = Named(t) \o piece[n] /\ Named(t) \in Seq(SiteSet)
    BY <1>3, <2>2, <2>4
  <2>6. piece[n] \in Seq(SiteSet) /\ Len(piece[n]) \in Nat /\ Len(piece[n]) <= 1
    BY <1>2, <1>5
  <2>7. Len(Named(t) \o piece[n]) = Len(Named(t)) + Len(piece[n]) /\ Len(Named(t)) \in Nat
    BY <2>5, <2>6
  <2> PICK a, b : a = Len(Named(t)) /\ b = Len(piece[n])
    OBVIOUS
  <2>8. a \in Nat /\ b \in Nat /\ a < MaxReferences /\ b <= 1 /\ Len(Named(s)) = a + b
    BY <2>3, <2>5, <2>6, <2>7
  <2>9. a + b \in Nat /\ a + b <= MaxReferences
    BY <1>0, <2>8, OneMore
  <2> QED
    BY <2>8, <2>9
<1> QED
  BY <1>4, <1>5

LEMMA LengthIsCount ==
    ASSUME NEW S, NEW s \in Seq(S), IsInjective(s)
    PROVE  IsFiniteSet(ToSet(s)) /\ Cardinality(ToSet(s)) = Len(s)
<1> PICK n \in Nat : n = Len(s)
  OBVIOUS
<1>1. DOMAIN s = 1 .. n /\ s = [i \in 1 .. n |-> s[i]] /\ ToSet(s) = {s[i] : i \in 1 .. n}
  BY DEF ToSet
<1>2. s \in Bijection(1 .. n, ToSet(s))
  BY <1>1 DEF Bijection, Injection, Surjection, IsInjective
<1>3. IsFiniteSet(1 .. n) /\ Cardinality(1 .. n) = n
  <2>1. 1 \in Int /\ n \in Int /\ (IF 1 > n THEN 0 ELSE n - 1 + 1) = n
    OBVIOUS
  <2> QED
    BY <2>1, FS_Interval
<1> QED
  BY <1>2, <1>3, FS_Bijection DEF ExistsBijection

-----------------------------------------------------------------------------
(* What is reported of a whole tree *)

LEMMA TwoSorts ==
    ASSUME NEW A, NEW B, IsFiniteSet(A), IsFiniteSet(B), NEW T,
           \A x : x \in T <=> \/ \E p \in A : x = [kind |-> "action", path |-> p]
                              \/ \E p \in B : x = [kind |-> "image", path |-> p]
    PROVE  Cardinality(T) = Cardinality(A) + Cardinality(B)
<1> DEFINE Tagged(kind, P) == {[kind |-> kind, path |-> p] : p \in P}
           a == Tagged("action", A)
           b == Tagged("image", B)
<1>1. ASSUME NEW kind, NEW P, IsFiniteSet(P)
      PROVE  IsFiniteSet(Tagged(kind, P)) /\ Cardinality(Tagged(kind, P)) = Cardinality(P)
  <2> DEFINE f == [p \in P |-> [kind |-> kind, path |-> p]]
  <2>1. f \in [P -> Tagged(kind, P)] /\ \A x \in Tagged(kind, P) : \E p \in P : f[p] = x
    OBVIOUS
  <2>2. \A p, q \in P : f[p] = f[q] => p = q
    <3> SUFFICES ASSUME NEW p \in P, NEW q \in P, f[p] = f[q] PROVE p = q
      OBVIOUS
    <3>1. [kind |-> kind, path |-> p] = [kind |-> kind, path |-> q]
      OBVIOUS
    <3> QED
      BY <3>1
  <2> HIDE DEF f, Tagged
  <2>3. f \in Bijection(P, Tagged(kind, P))
    BY <2>1, <2>2 DEF Bijection, Injection, Surjection, IsInjective
  <2> QED
    BY <1>1, <2>3, FS_Bijection DEF ExistsBijection
<1>2. T = a \union b
  OBVIOUS
<1>3. a \intersect b = {}
  <2>1. \A x \in a : x.kind = "action"
    OBVIOUS
  <2>2. \A x \in b : x.kind = "image"
    OBVIOUS
  <2> HIDE DEF a, b
  <2> QED
    BY <2>1, <2>2
<1>4. IsFiniteSet(a) /\ Cardinality(a) = Cardinality(A) /\ IsFiniteSet(b) /\ Cardinality(b) = Cardinality(B)
  BY <1>1
<1> HIDE DEF a, b
<1>5. Cardinality(a) \in Nat /\ Cardinality(b) \in Nat /\ Cardinality({}) = 0
  BY <1>4, FS_CardinalityType, FS_EmptySet
<1>6. Cardinality(a \union b) = Cardinality(a) + Cardinality(b) - Cardinality(a \intersect b)
  BY <1>4, FS_Union
<1>7. Cardinality(a) + Cardinality(b) - 0 = Cardinality(a) + Cardinality(b)
  BY <1>5
<1> QED
  BY <1>2, <1>3, <1>4, <1>5, <1>6, <1>7, Zenon

\* The sites that are not null are the governed places.
LEMMA NamedIsGoverned ==
    ASSUME Whole, ValidShape, ValidReferences
    PROVE  /\ SiteList(Named(AllSites))
           /\ \A site \in ToSet(Named(AllSites)) :
                At(site.path).value \in Immutable[site.kind]
           /\ \A site : site \in ToSet(Named(AllSites)) <=>
                site \in SiteSet /\ site.path \in Governed(site.kind)
<1>1. /\ SiteList(AllSites)
      /\ \A site : site \in ToSet(AllSites) <=>
                \E job \in ToSet(Jobs) :
                    /\ site \in SiteSet
                    /\ \/ site.kind = "action" /\ site.path \in UsesAt(job)
                       \/ site.kind = "image" /\ site.path \in ImagesAt(job)
  BY AllSitesMean
<1>2. /\ SiteList(Named(AllSites))
      /\ \A site : site \in ToSet(Named(AllSites)) <=> site \in ToSet(AllSites) /\ ~IsNull(site.path)
  BY <1>1, NamedMeans
<1>3. \A site \in ToSet(AllSites) : ValidSite(site)
  BY DEF ValidReferences, ToSet
<1>4. \A site \in ToSet(Named(AllSites)) :
        At(site.path).kind = "scalar" /\ At(site.path).value \in Immutable[site.kind]
  BY <1>2, <1>3 DEF ValidSite
<1>5. \A site \in SiteSet : site.path \in DOMAIN tree /\ site.kind \in {"action", "image"}
  BY DEF SiteSet
<1>6. \A p \in DOMAIN tree :
        p \in Governed("action") <=>
            /\ At(p).kind = "scalar" /\ ~IsNull(p)
            /\ \E job \in ToSet(Jobs) : p \in UsesAt(job)
  BY PlacesOfSites DEF Governed
<1>7. \A p \in DOMAIN tree :
        p \in Governed("image") <=>
            /\ At(p).kind = "scalar" /\ ~IsNull(p)
            /\ \E job \in ToSet(Jobs) : p \in ImagesAt(job)
  <2> SUFFICES ASSUME NEW p \in DOMAIN tree
               PROVE  p \in Governed("image") <=>
                        /\ At(p).kind = "scalar" /\ ~IsNull(p)
                        /\ \E job \in ToSet(Jobs) : p \in ImagesAt(job)
    OBVIOUS
  <2>1. Governs("image") =
          {<<"-", "jobs", "*", "container">>, <<"-", "jobs", "*", "container", "image">>,
           <<"-", "jobs", "*", "services", "*", "image">>}
    BY DEF Governs
  <2>2. (\E pattern \in Governs("image") : Matches(Trail(p), pattern)) <=>
          \/ Matches(Trail(p), <<"-", "jobs", "*", "container">>)
          \/ Matches(Trail(p), <<"-", "jobs", "*", "container", "image">>)
          \/ Matches(Trail(p), <<"-", "jobs", "*", "services", "*", "image">>)
    BY <2>1
  <2>3. (\E job \in ToSet(Jobs) : p \in ImagesAt(job)) <=>
                \/ Matches(Trail(p), <<"-", "jobs", "*", "container">>) /\ At(p).kind # "mapping"
                \/ Matches(Trail(p), <<"-", "jobs", "*", "container", "image">>)
                \/ Matches(Trail(p), <<"-", "jobs", "*", "services", "*", "image">>)
    BY PlacesOfSites
  <2>4. p \in Governed("image") <=>
          /\ At(p).kind = "scalar" /\ ~IsNull(p)
          /\ \E pattern \in Governs("image") : Matches(Trail(p), pattern)
    BY DEF Governed
  <2>5. At(p).kind = "scalar" => At(p).kind # "mapping"
    OBVIOUS
  <2> QED
    BY <2>2, <2>3, <2>4, <2>5
<1>8. \A site \in ToSet(Named(AllSites)) : site \in SiteSet /\ site.path \in Governed(site.kind)
  <2> SUFFICES ASSUME NEW site \in ToSet(Named(AllSites))
               PROVE  site \in SiteSet /\ site.path \in Governed(site.kind)
    OBVIOUS
  <2>1. site \in ToSet(AllSites) /\ ~IsNull(site.path) /\ At(site.path).kind = "scalar"
    BY <1>2, <1>4
  <2>2. PICK job \in ToSet(Jobs) :
          /\ site \in SiteSet
          /\ \/ site.kind = "action" /\ site.path \in UsesAt(job)
             \/ site.kind = "image" /\ site.path \in ImagesAt(job)
    BY <1>1, <2>1
  <2>3. site.path \in DOMAIN tree
    BY <1>5, <2>2
  <2> QED
    BY <1>6, <1>7, <2>1, <2>2, <2>3
<1>9. \A site \in SiteSet : site.path \in Governed(site.kind) => site \in ToSet(Named(AllSites))
  <2> SUFFICES ASSUME NEW site \in SiteSet, site.path \in Governed(site.kind)
               PROVE  site \in ToSet(Named(AllSites))
    OBVIOUS
  <2>1. site.path \in DOMAIN tree /\ site.kind \in {"action", "image"}
    BY <1>5
  <2>2. CASE site.kind = "action"
    BY <1>1, <1>2, <1>6, <2>1, <2>2
  <2>3. CASE site.kind = "image"
    BY <1>1, <1>2, <1>7, <2>1, <2>3
  <2> QED
    BY <2>1, <2>2, <2>3
<1> QED
  BY <1>2, <1>4, <1>8, <1>9

Complete(refs) ==
    /\ Len(refs) = Cardinality(Governed("action")) + Cardinality(Governed("image"))
    /\ Len(refs) <= MaxReferences
    /\ ToSet(refs) =
         UNION {{[kind |-> kind, value |-> At(p).value, line |-> tree[p].line]
                   : p \in Governed(kind)} : kind \in {"action", "image"}}
    /\ \A i \in DOMAIN refs : refs[i].value \in Immutable[refs[i].kind]

LEMMA ReportIsComplete ==
    ASSUME Whole, ValidShape, ValidReferences
    PROVE  Complete([i \in DOMAIN Named(AllSites) |-> Reference(Named(AllSites)[i])])
<1> PICK named : named = Named(AllSites)
  OBVIOUS
<1> DEFINE refs == [i \in DOMAIN named |-> Reference(named[i])]
<1>1. /\ SiteList(named)
      /\ \A site \in ToSet(named) : At(site.path).value \in Immutable[site.kind]
      /\ \A site : site \in ToSet(named) <=> site \in SiteSet /\ site.path \in Governed(site.kind)
  BY NamedIsGoverned
<1>2. /\ named \in Seq(SiteSet) /\ IsInjective(named)
      /\ \A i \in DOMAIN named : named[i] \in ToSet(named)
      /\ \A x \in ToSet(named) : \E i \in DOMAIN named : x = named[i]
  BY <1>1 DEF SiteList, ToSet
<1>3. Len(named) = Cardinality(Governed("action")) + Cardinality(Governed("image"))
  <2>1. Cardinality(ToSet(named)) = Len(named)
    BY <1>2, LengthIsCount
  <2>2. IsFiniteSet(DOMAIN tree) /\ Governed("action") \subseteq DOMAIN tree
        /\ Governed("image") \subseteq DOMAIN tree
    BY DEF Whole, DocumentTypeOK, Governed
  <2>3. IsFiniteSet(Governed("action")) /\ IsFiniteSet(Governed("image"))
    BY <2>2, FS_Subset
  <2>4. \A x : x \in ToSet(named) <=>
              \/ \E p \in Governed("action") : x = [kind |-> "action", path |-> p]
              \/ \E p \in Governed("image") : x = [kind |-> "image", path |-> p]
    <3>1. ASSUME NEW x \in ToSet(named)
          PROVE  \/ \E p \in Governed("action") : x = [kind |-> "action", path |-> p]
                 \/ \E p \in Governed("image") : x = [kind |-> "image", path |-> p]
      <4>1. x \in SiteSet /\ x.path \in Governed(x.kind)
        BY <1>1
      <4>2. x = [kind |-> x.kind, path |-> x.path] /\ x.kind \in {"action", "image"}
        BY <4>1 DEF SiteSet
      <4> QED
        BY <4>1, <4>2
    <3>2. ASSUME NEW kind \in {"action", "image"}, NEW p \in Governed(kind)
          PROVE  [kind |-> kind, path |-> p] \in ToSet(named)
      <4> PICK x : x = [kind |-> kind, path |-> p]
        OBVIOUS
      <4>1. x.kind = kind /\ x.path = p /\ p \in DOMAIN tree
        BY DEF Governed
      <4>2. x \in SiteSet
        BY <4>1 DEF SiteSet
      <4> QED
        BY <1>1, <4>1, <4>2
    <3> QED
      BY <3>1, <3>2
  <2> QED
    BY <2>1, <2>3, <2>4, TwoSorts
<1>4. Len(named) <= MaxReferences
  <2>1. SiteList(AllSites)
    BY AllSitesMean
  <2>2. \A i \in DOMAIN AllSites : Len(Named(SubSeq(AllSites, 1, i - 1))) < MaxReferences
    BY DEF ValidReferences
  <2> QED
    BY <2>1, <2>2, NamedBound
<1>5. DOMAIN refs = DOMAIN named /\ \A i \in DOMAIN named : refs[i] = Reference(named[i])
  OBVIOUS
<1>6. Len(refs) = Len(named)
  <2> PICK n \in Nat : n = Len(named)
    BY <1>2
  <2>1. DOMAIN named = 1 .. n
    BY <1>2
  <2>2. DOMAIN refs = 1 .. n
    BY <1>5, <2>1
  <2> QED
    BY <2>2
<1> HIDE DEF refs
<1>7. ToSet(refs) = {Reference(site) : site \in ToSet(named)}
  BY <1>5 DEF ToSet
<1>8. {Reference(site) : site \in ToSet(named)} =
         UNION {{[kind |-> kind, value |-> At(p).value, line |-> tree[p].line]
                   : p \in Governed(kind)} : kind \in {"action", "image"}}
  <2> DEFINE Of(kind, p) == [kind |-> kind, value |-> At(p).value, line |-> tree[p].line]
  <2>0. \A site : Reference(site) = Of(site.kind, site.path)
    BY DEF Reference
  <2> HIDE DEF Of
  <2>1. ASSUME NEW site \in ToSet(named)
        PROVE  \E kind \in {"action", "image"} : \E p \in Governed(kind) : Reference(site) = Of(kind, p)
    <3>1. site.kind \in {"action", "image"} /\ site.path \in Governed(site.kind)
      BY <1>1 DEF SiteSet
    <3> QED
      BY <2>0, <3>1
  <2>2. ASSUME NEW kind \in {"action", "image"}, NEW p \in Governed(kind)
        PROVE  \E site \in ToSet(named) : Of(kind, p) = Reference(site)
    <3> PICK x : x = [kind |-> kind, path |-> p]
      OBVIOUS
    <3>1. x.kind = kind /\ x.path = p /\ p \in DOMAIN tree
      BY DEF Governed
    <3>2. x \in SiteSet
      BY <3>1 DEF SiteSet
    <3>3. x \in ToSet(named)
      BY <1>1, <3>1, <3>2
    <3> QED
      BY <2>0, <3>1, <3>3
  <2>3. {Reference(site) : site \in ToSet(named)}
          = UNION {{Of(kind, p) : p \in Governed(kind)} : kind \in {"action", "image"}}
    BY <2>1, <2>2
  <2> QED
    BY <2>3 DEF Of
<1>9. \A i \in DOMAIN refs : refs[i].value \in Immutable[refs[i].kind]
  <2> SUFFICES ASSUME NEW i \in DOMAIN named PROVE refs[i].value \in Immutable[refs[i].kind]
    BY <1>5
  <2>1. refs[i] = Reference(named[i]) /\ named[i] \in ToSet(named)
    BY <1>2, <1>5
  <2>2. refs[i].value = At(named[i].path).value /\ refs[i].kind = named[i].kind
    BY <2>1 DEF Reference
  <2> QED
    BY <1>1, <2>1, <2>2
<1>10. Complete(refs)
  BY <1>3, <1>4, <1>6, <1>7, <1>8, <1>9 DEF Complete
<1> QED
  BY <1>10 DEF refs

-----------------------------------------------------------------------------
(* ReferencesAreComplete *)

LEMMA CompleteStays ==
    tree' = tree /\ document' = document => \A refs : Complete(refs) => Complete(refs)'
<1> SUFFICES ASSUME tree' = tree, document' = document
             PROVE  \A refs : Complete(refs) => Complete(refs)'
  OBVIOUS
<1>1. \A p : At(p)' = At(p)
  BY DEF At
<1>2. \A p : IsNull(p)' = IsNull(p) /\ Trail(p)' = Trail(p)
  BY <1>1 DEF IsNull, Trail, Is, Key
<1>3. \A kind : Governed(kind)' = Governed(kind)
  BY <1>1, <1>2 DEF Governed
<1> QED
  BY <1>1, <1>3 DEF Complete

LEMMA StepReferences ==
    ReferencesAreComplete /\ DocumentIInv /\ [DocumentNext]_documentVars => ReferencesAreComplete'
<1> SUFFICES ASSUME ReferencesAreComplete, DocumentIInv, [DocumentNext]_documentVars,
                    stage' = "accepted"
             PROVE  Complete(references)'
  BY DEF ReferencesAreComplete, Complete
<1>1. CASE stage = "accepted" /\ UNCHANGED documentVars
  <2>1. tree' = tree /\ document' = document /\ references' = references
    BY <1>1 DEF documentVars
  <2>2. Complete(references)
    BY <1>1 DEF ReferencesAreComplete, Complete
  <2> QED
    BY <2>1, <2>2, CompleteStays
<1>2. CASE Collect
  <2>1. /\ stage = "collect" /\ ValidShape /\ ValidReferences
        /\ references' = [i \in DOMAIN Named(AllSites) |-> Reference(Named(AllSites)[i])]
        /\ tree' = tree /\ document' = document
    BY <1>2 DEF Collect, Refuse
  <2>2. Whole
    BY <2>1 DEF Whole, DocumentIInv
  <2> PICK refs : refs = [i \in DOMAIN Named(AllSites) |-> Reference(Named(AllSites)[i])]
    OBVIOUS
  <2>3. Complete(refs) /\ references' = refs
    BY <2>1, <2>2, ReportIsComplete
  <2>4. Complete(refs)'
    BY <2>1, <2>3, CompleteStays
  <2> QED
    BY <2>3, <2>4
<1>3. CASE Check \/ EndCheck \/ EnterAlias \/ EnterNode \/ RefuseNode \/ Leave
  BY <1>3 DEF Check, EndCheck, EnterAlias, EnterNode, RefuseNode, Leave, Refuse, Push
<1>4. CASE DocumentFinished \/ UNCHANGED documentVars
  BY <1>1, <1>4 DEF DocumentFinished, documentVars
<1> QED
  BY <1>2, <1>3, <1>4 DEF DocumentNext

\* Nothing a job runs escapes: in an accepted workflow of any shape, with any aliases
\* and any limits, every action and image at one of the five places where a job may
\* name one is immutable and reported at its own line, and nothing else is.
THEOREM DocumentReferences == DocumentSpec => []ReferencesAreComplete
<1>1. DocumentInit => ReferencesAreComplete
  BY DEF DocumentInit, ReferencesAreComplete
<1> QED
  BY <1>1, DocumentInvariance, StepReferences, PTL DEF DocumentSpec
=============================================================================
