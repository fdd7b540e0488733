------------------------- MODULE DocumentProperties -------------------------
(***************************************************************************)
(* What reading a workflow must guarantee, stated on the meaning of the    *)
(* document: the possibly infinite tree in which every alias stands for    *)
(* the node it points to.                                                  *)
(***************************************************************************)
EXTENDS Document

Meant(n) == IF Is(n, "alias") THEN document[n].alias ELSE n

\* The places at each depth: a path and the node written there.
Level[depth \in 0 .. MaxDepth + 1] ==
    IF depth = 0 THEN {[path |-> <<>>, node |-> Root]}
    ELSE UNION {{[path |-> Append(place.path, i), node |-> document[Meant(place.node)].content[i]]
                    : i \in DOMAIN document[Meant(place.node)].content}
                 : place \in Level[depth - 1]}
Unfolding == UNION {Level[depth] : depth \in 0 .. MaxDepth}
IsWithin == Level[MaxDepth + 1] = {} /\ Cardinality(Unfolding) <= MaxNodes

\* Expansion yields the meaning of the document, whole: it is refused exactly when
\* the meaning is too deep, too large or infinite, however the aliases nest and
\* however often one anchor is used, and a node has the line of the alias that
\* stands for it.
ExpansionIsUnfolding ==
    /\ stage \in {"collect", "accepted"} =>
        /\ IsWithin
        /\ DOMAIN tree = {place.path : place \in Unfolding}
        /\ \A place \in Unfolding :
            tree[place.path] = Entry(Meant(place.node), document[place.node].line)
    /\ refusal = "expand" => ~IsWithin

\* The keys on the way to a path; an item of a sequence has none.
Trail(p) ==
    [i \in 1 .. Len(p) |->
        LET n == tree[SubSeq(p, 1, i - 1)].node IN
        IF Is(n, "mapping") /\ p[i] % 2 = 0 THEN Key(n, p[i] - 1) ELSE "-"]
Matches(trail, pattern) ==
    /\ Len(trail) = Len(pattern)
    /\ \A i \in DOMAIN pattern : pattern[i] \in {"*", trail[i]}
Governs(kind) ==
    IF kind = "action"
    THEN {<<"-", "jobs", "*", "uses">>, <<"-", "jobs", "*", "steps", "-", "uses">>}
    ELSE {<<"-", "jobs", "*", "container">>, <<"-", "jobs", "*", "container", "image">>,
          <<"-", "jobs", "*", "services", "*", "image">>}
Governed(kind) ==
    {p \in DOMAIN tree : At(p).kind = "scalar" /\ ~IsNull(p)
        /\ \E pattern \in Governs(kind) : Matches(Trail(p), pattern)}

\* Nothing a job runs escapes: in an accepted workflow every action and image at
\* one of the five places where a job may name one, however it got there, is
\* immutable and reported at its own line, and nothing else is reported.
ReferencesAreComplete ==
    stage = "accepted" =>
        /\ Len(references) = Cardinality(Governed("action")) + Cardinality(Governed("image"))
        /\ Len(references) <= MaxReferences
        /\ ToSet(references) =
             UNION {{[kind |-> kind, value |-> At(p).value, line |-> tree[p].line]
                       : p \in Governed(kind)} : kind \in {"action", "image"}}
        /\ \A i \in DOMAIN references : references[i].value \in Immutable[references[i].kind]
=============================================================================
