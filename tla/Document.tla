------------------------------ MODULE Document ------------------------------
(***************************************************************************)
(* From one workflow file to its references (src/goverify/workflow.go,     *)
(* decodeWorkflow and workflowReferences).  The parsed document is a graph *)
(* of nodes in which an alias points to an anchored node: an earlier one,  *)
(* or one that it is part of.  The document is checked as it is written,   *)
(* its aliases are expanded by copying, and the copy is searched for the   *)
(* actions and images that its jobs run.                                   *)
(*                                                                         *)
(* The copy is tree, a function on paths: the sequence of child numbers    *)
(* from the document node.  The recursion of expand is an explicit stack.  *)
(* The text of values is abstract; a value "null" is YAML's null.          *)
(***************************************************************************)
EXTENDS Integers, FiniteSets, SequencesExt, FiniteSetsExt

CONSTANTS
    Documents,  \* the documents considered: node -> its record
    Root,       \* the document node
    Texts,      \* the values that are strings
    Immutable,  \* Immutable[kind]: the strings that are immutable references
    MaxDepth, MaxNodes, MaxReferences

Kinds == {"document", "mapping", "sequence", "scalar", "alias"}

\* The nodes of a document as it is written.
Below(doc, nodes) == UNION {ToSet(doc[n].content) : n \in nodes}
Written(doc) ==
    LET level[depth \in 0 .. Cardinality(DOMAIN doc)] ==
            IF depth = 0 THEN {Root} ELSE Below(doc, level[depth - 1])
    IN UNION {level[depth] : depth \in 0 .. Cardinality(DOMAIN doc)}

\* The parser makes no other nodes, and an alias has no anchor of its own.
ASSUME DocumentAssumption ==
    /\ \A doc \in Documents :
        /\ IsFiniteSet(DOMAIN doc) /\ DOMAIN doc = Written(doc)
        /\ Root \in DOMAIN doc /\ doc[Root].kind = "document"
        /\ \A n \in DOMAIN doc :
            /\ doc[n].kind \in Kinds /\ doc[n].content \in Seq(DOMAIN doc)
            /\ doc[n].kind \in {"scalar", "alias"} => doc[n].content = <<>>
            /\ doc[n].kind = "alias" =>
                doc[n].alias \in DOMAIN doc /\ doc[doc[n].alias].kind # "alias"
    /\ \A kind \in {"action", "image"} : Immutable[kind] \subseteq Texts
    /\ "null" \notin Texts
    /\ {MaxDepth, MaxNodes, MaxReferences} \subseteq Nat

VARIABLES
    document,    \* never changes
    stage,       \* "check", "expand", "collect", "accepted" or "rejected"
    pending,     \* what is still to be checked: [node, path]
    tree,        \* path -> [node, line]
    stack,       \* the nodes being copied: [node, path, at]
    active,      \* the same nodes, as the code keeps them
    references,  \* what was found
    refusal      \* the stage that refused

documentVars == <<document, stage, pending, tree, stack, active, references, refusal>>

Is(n, kind) == document[n].kind = kind
NoTree == [p \in {} |-> {}]
Entry(n, line) == [node |-> n, line |-> line]

DocumentInit ==
    /\ document \in Documents
    /\ stage = "check"
    /\ pending = <<[node |-> Root, path |-> <<>>]>>
    /\ tree = NoTree
    /\ stack = <<>> /\ active = {}
    /\ references = <<>>
    /\ refusal = "none"

Refuse ==
    /\ stage' = "rejected" /\ refusal' = stage
    /\ UNCHANGED <<document, pending, tree, stack, active, references>>

-----------------------------------------------------------------------------
(* validWorkflowTree: the document as it is written. *)

Grown(p, n, line) == [q \in DOMAIN tree \union {p} |-> IF q = p THEN Entry(n, line) ELSE tree[q]]
HasRoom(p) == Cardinality(DOMAIN tree) < MaxNodes /\ Len(p) <= MaxDepth

\* uniqueWorkflowKeys: keys are strings, no two alike, and nothing is merged.
Keys(n) == {i \in DOMAIN document[n].content : i % 2 = 1}
Key(n, i) == document[document[n].content[i]].value
UniqueKeys(n) ==
    /\ \A i \in Keys(n) : Is(document[n].content[i], "scalar") /\ Key(n, i) \in Texts \ {"<<"}
    /\ \A i, j \in Keys(n) : i # j => Key(n, i) # Key(n, j)

ValidNode(n) ==
    /\ Is(n, "document") => Len(document[n].content) = 1
    /\ Is(n, "mapping") => Len(document[n].content) % 2 = 0 /\ UniqueKeys(n)

Check ==
    /\ stage = "check" /\ pending # <<>>
    /\ LET current == Last(pending)
           content == document[current.node].content
       IN \/ /\ HasRoom(current.path) /\ ValidNode(current.node)
             /\ tree' = Grown(current.path, current.node, document[current.node].line)
             /\ pending' = Front(pending) \o
                  [i \in DOMAIN content |->
                      [node |-> content[i], path |-> Append(current.path, i)]]
             /\ UNCHANGED <<document, stage, stack, active, references, refusal>>
          \/ ~(HasRoom(current.path) /\ ValidNode(current.node)) /\ Refuse

\* A document without aliases is its own expansion.
EndCheck ==
    /\ stage = "check" /\ pending = <<>>
    /\ \/ /\ \E p \in DOMAIN tree : Is(tree[p].node, "alias")
          /\ stage' = "expand" /\ tree' = NoTree
       \/ /\ ~\E p \in DOMAIN tree : Is(tree[p].node, "alias")
          /\ stage' = "collect" /\ UNCHANGED tree
    /\ UNCHANGED <<document, pending, stack, active, references, refusal>>

-----------------------------------------------------------------------------
(* expand *)

Children(n) == IF Is(n, "alias") THEN <<document[n].alias>> ELSE document[n].content

Top == Last(stack)
Begun == stack # <<>>

\* The node to copy next and its place: an alias takes no place of its own.
Child == IF Begun THEN Children(Top.node)[Top.at] ELSE Root
Place ==
    IF ~Begun THEN <<>>
    ELSE IF Is(Top.node, "alias") THEN Top.path ELSE Append(Top.path, Top.at)

\* The copy of an anchored node stands at the line of its alias.
Line == document[IF Begun /\ Is(Top.node, "alias") THEN Top.node ELSE Child].line

Unentered == IF Begun THEN Top.at <= Len(Children(Top.node)) ELSE tree = NoTree
Allowed == Len(Place) <= MaxDepth /\ Child \notin active

Advanced == IF Begun THEN [stack EXCEPT ![Len(stack)].at = @ + 1] ELSE stack
Push ==
    /\ stack' = Append(Advanced, [node |-> Child, path |-> Place, at |-> 1])
    /\ active' = active \union {Child}
    /\ UNCHANGED <<document, stage, pending, references, refusal>>

EnterAlias ==
    /\ stage = "expand" /\ Unentered /\ Is(Child, "alias") /\ Allowed
    /\ Push
    /\ UNCHANGED tree

EnterNode ==
    /\ stage = "expand" /\ Unentered /\ ~Is(Child, "alias") /\ Allowed
    /\ Cardinality(DOMAIN tree) < MaxNodes
    /\ Push
    /\ tree' = Grown(Place, Child, Line)

RefuseNode ==
    /\ stage = "expand" /\ Unentered
    /\ \/ ~Allowed
       \/ ~Is(Child, "alias") /\ Cardinality(DOMAIN tree) = MaxNodes
    /\ Refuse

\* Mutant: the deferred delete is missing.
LeaveActive ==
    /\ stage = "expand" /\ Begun /\ ~Unentered
    /\ stack' = Front(stack)
    /\ stage' = IF Len(stack) = 1 THEN "collect" ELSE stage
    /\ UNCHANGED <<document, pending, tree, active, references, refusal>>

Leave ==
    /\ stage = "expand" /\ Begun /\ ~Unentered
    /\ stack' = Front(stack)
    /\ active' = active \ {Top.node}
    /\ stage' = IF Len(stack) = 1 THEN "collect" ELSE stage
    /\ UNCHANGED <<document, pending, tree, references, refusal>>

-----------------------------------------------------------------------------
(* workflowReferences, on the expanded tree *)

At(p) == document[tree[p].node]
Items(p) == [i \in DOMAIN At(p).content |-> Append(p, i)]
Values(p) == [i \in 1 .. Len(At(p).content) \div 2 |-> Append(p, 2 * i)]

\* workflowField: the value of a key, as a sequence of at most one path.
Field(p, name) ==
    IF At(p).kind # "mapping" THEN <<>>
    ELSE FlattenSeq([i \in 1 .. Len(At(p).content) \div 2 |->
            IF At(Append(p, 2 * i - 1)).value = name THEN <<Append(p, 2 * i)>> ELSE <<>>])

Each(paths, Op(_)) == FlattenSeq([i \in DOMAIN paths |-> Op(paths[i])])

Jobs == Each(Field(<<1>>, "jobs"), Values)
Services(job) == Each(Field(job, "services"), Values)
Steps(job) == Each(Field(job, "steps"), Items)

\* Mutant: a container that is named directly is overlooked.
ContainerMapped(job) ==
    Each(Field(job, "container"), LAMBDA q : Field(q, "image"))

Container(job) ==
    Each(Field(job, "container"),
         LAMBDA q : IF At(q).kind = "mapping" THEN Field(q, "image") ELSE <<q>>)

\* Where a job names an action or an image, in the order of the code.
AsSites(kind, paths) == [i \in DOMAIN paths |-> [kind |-> kind, path |-> paths[i]]]
Sites(job) ==
    AsSites("action", Field(job, "uses"))
      \o AsSites("image", Container(job))
      \o AsSites("image", Each(Services(job), LAMBDA q : Field(q, "image")))
      \o AsSites("action", Each(Steps(job), LAMBDA q : Field(q, "uses")))
AllSites == Each(Jobs, Sites)

AreOf(paths, kind) == \A q \in ToSet(paths) : At(q).kind = kind

ValidShape ==
    /\ At(<<1>>).kind = "mapping"
    /\ AreOf(Field(<<1>>, "jobs"), "mapping") /\ AreOf(Jobs, "mapping")
    /\ \A job \in ToSet(Jobs) :
        /\ \A q \in ToSet(Field(job, "container")) :
            At(q).kind = "mapping" => Field(q, "image") # <<>>
        /\ AreOf(Field(job, "services"), "mapping") /\ AreOf(Services(job), "mapping")
        /\ AreOf(Field(job, "steps"), "sequence") /\ AreOf(Steps(job), "mapping")

\* appendWorkflowReference: null is no reference, but is not looked at once there
\* are enough.
IsNull(q) == At(q).kind = "scalar" /\ At(q).value = "null"
Named(sites) == Each(sites, LAMBDA site : IF IsNull(site.path) THEN <<>> ELSE <<site>>)
ValidSite(site) ==
    \/ IsNull(site.path)
    \/ At(site.path).kind = "scalar" /\ At(site.path).value \in Immutable[site.kind]
ValidReferences ==
    \A i \in DOMAIN AllSites :
        /\ Len(Named(SubSeq(AllSites, 1, i - 1))) < MaxReferences
        /\ ValidSite(AllSites[i])

Reference(site) ==
    [kind |-> site.kind, value |-> At(site.path).value, line |-> tree[site.path].line]

\* InspectWorkflowReferences; the result is then sorted by line and value.
Collect ==
    /\ stage = "collect"
    /\ \/ /\ ValidShape /\ ValidReferences
          /\ references' = [i \in DOMAIN Named(AllSites) |-> Reference(Named(AllSites)[i])]
          /\ stage' = "accepted"
          /\ UNCHANGED <<document, pending, tree, stack, active, refusal>>
       \/ ~(ValidShape /\ ValidReferences) /\ Refuse

-----------------------------------------------------------------------------
DocumentFinished == stage \in {"accepted", "rejected"} /\ UNCHANGED documentVars

DocumentNext ==
    \/ Check \/ EndCheck
    \/ EnterAlias \/ EnterNode \/ RefuseNode \/ Leave
    \/ Collect
    \/ DocumentFinished

DocumentSpec == DocumentInit /\ [][DocumentNext]_documentVars
=============================================================================
