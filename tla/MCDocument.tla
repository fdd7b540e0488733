----------------------------- MODULE MCDocument -----------------------------
(***************************************************************************)
(* Workflows with one anchored node, or two, and two jobs that refer to    *)
(* them wherever an action or an image may be named, or to the workflow    *)
(* itself, or name their own.  A node's line is its number.                *)
(***************************************************************************)
EXTENDS DocumentProperties, TLC

Node(kind, value, line, content) ==
    [kind |-> kind, value |-> value, line |-> line, content |-> content, alias |-> "document"]
Scalar(value, line) == Node("scalar", value, line, <<>>)
Alias(target, line) == [Node("alias", "", line, <<>>) EXCEPT !.alias = target]

KeyTexts == {"x", "jobs", "one", "two", "uses", "steps", "container", "services", "image", "<<"}
KeyNodes == [n \in KeyTexts |-> Scalar(n, 0)]

\* The anchored node, and nodes to be part of it.
Anchors == {"pin", "loose", "null", "step", "list", "nest"}
Shared ==
    [n \in {"pin"} |-> Scalar("pinned", 2)] @@ [n \in {"loose"} |-> Scalar("main", 2)] @@
    [n \in {"null"} |-> Scalar("null", 2)] @@
    [n \in {"step"} |-> Node("mapping", "", 2, <<"uses", "own">>)] @@
    [n \in {"list"} |-> Node("sequence", "", 2, <<"step", "item">>)] @@
    [n \in {"item"} |-> Node("mapping", "", 3, <<"image", "none">>)] @@ [n \in {"none"} |-> Scalar("null", 3)] @@
    [n \in {"nest"} |-> Node("sequence", "", 2, <<"step", "again1", "again2">>)] @@
    [n \in {"again1", "again2"} |-> Alias("step", 4)] @@
    [n \in {"own"} |-> Scalar("pinned", 5)]

\* What a job may hold: v and w are an alias, or a node of its own.
JobContents(v, w) ==
    {<<>>, <<"uses", v>>, <<"container", v>>, <<"container", w, "uses", v>>, <<"steps", v>>,
     <<"steps", "steplist">>, <<"services", "servicemap">>, <<"container", "containermap">>,
     <<"uses", v, "uses", w>>, <<"<<", v>>, <<v, w>>}

\* What an alias may point to: the anchored node, its parts, what surrounds it.
Targets(anchor) ==
    {anchor, "top", "jobmap", "job1"}
        \union (IF anchor \in {"step", "list", "nest"} THEN {"step", "own"} ELSE {})

Workflow(anchor, target, own, content, second) ==
    Shared @@ KeyNodes @@
    [n \in {"document"} |-> Node("document", "", 0, <<"top">>)] @@
    [n \in {"top"} |-> Node("mapping", "", 1, <<"x", anchor, "jobs", "jobmap">>)] @@
    [n \in {"jobmap"} |-> Node("mapping", "", 6, <<"one", "job1", "two", second>>)] @@
    [n \in {"job1"} |-> Node("mapping", "", 7, content)] @@
    [n \in {"job2"} |-> Node("mapping", "", 8, <<"uses", "theirs">>)] @@
    [n \in {"job3"} |-> Alias("job1", 8)] @@
    [n \in {"mine", "theirs"} |-> Scalar(own, 9)] @@
    [n \in {"ref"} |-> Alias(target, 10)] @@ [n \in {"ref2", "ref3"} |-> Alias(anchor, 11)] @@
    [n \in {"steplist"} |-> Node("sequence", "", 12, <<"stepmap", "ref2">>)] @@
    [n \in {"stepmap"} |-> Node("mapping", "", 13, <<"uses", "ref">>)] @@
    [n \in {"servicemap"} |-> Node("mapping", "", 12, <<"x", "containermap", "one", "ref2">>)] @@
    [n \in {"containermap"} |-> Node("mapping", "", 13, <<"image", "ref">>)]

Owns == {"pinned", "digest", "main"}
Restricted(doc) == [n \in Written(doc) |-> doc[n]]
MCDocuments ==
    {Restricted(Workflow(pair[1], pair[2], own, content, second)) :
        pair \in UNION {{a} \X Targets(a) : a \in Anchors}, own \in Owns,
        content \in JobContents("ref", "ref2") \union JobContents("mine", "ref"),
        second \in {"job2", "job3", "ref3"}}

MCTexts == KeyTexts \union {"pinned", "digest", "main"}
MCImmutable == [kind \in {"action", "image"} |->
    IF kind = "action" THEN {"pinned"} ELSE {"pinned", "digest"}]
=============================================================================
