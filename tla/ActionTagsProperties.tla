------------------------ MODULE ActionTagsProperties ------------------------
(***************************************************************************)
(* What verifying the currency of pinned actions must guarantee.           *)
(***************************************************************************)
EXTENDS ActionTags

-----------------------------------------------------------------------------
(* The reference definition: what a listing says, whatever its order *)

LinesOf(n, peeled) == {line \in listed : line.name = n /\ line.peeled = peeled}

\* The commit a name stands for: its peeled line's if it has one.
CommitsOf(n) ==
    {line.commit : line \in LinesOf(n, LinesOf(n, TRUE) # {})}

Listed == {line.name : line \in listed}

\* Versions are ordered component by component.
Precedes(v, w) ==
    \/ Component(v, 1) < Component(w, 1)
    \/ Component(v, 1) = Component(w, 1) /\ Component(v, 2) < Component(w, 2)
    \/ /\ Component(v, 1) = Component(w, 1) /\ Component(v, 2) = Component(w, 2)
       /\ Component(v, 3) < Component(w, 3)

Equal(v, w) == ~Precedes(v, w) /\ ~Precedes(w, v)

\* Of equal versions the longer name counts as the newer one.
AtMost(v, w) == Precedes(v, w) \/ (Equal(v, w) /\ Len(v) <= Len(w))

Newest(n, S) == n \in S /\ \A m \in S : AtMost(m, n)

IsCurrent(p) ==
    /\ CommitsOf(p.version) = {p.commit}
    /\ \/ p.excluded = None /\ Newest(p.version, Listed)
       \/ /\ Newest(p.excluded, Listed)
          /\ Newest(p.version, {n \in Listed : ~Equal(n, p.excluded)})

\* After a listing is accepted the map says what the listing says: each name has
\* one base line and stands for one commit, wherever its peeled line came.
TagsAreListed ==
    phase \in {"pin", "newest", "remaining", "current", "refused"} =>
        /\ Listed # {}
        /\ \A n \in Listed :
            /\ Cardinality(LinesOf(n, FALSE)) = 1
            /\ CommitsOf(n) = {tags[n].commit}

\* A pin is accepted exactly when it is current: the order of the lines and the
\* order the map is walked in make no difference.
VerdictIsExact ==
    /\ phase = "current" => IsCurrent(pin)
    /\ phase = "refused" => ~IsCurrent(pin)
=============================================================================
