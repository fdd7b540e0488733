---------------------------- MODULE LocalActions ----------------------------
(***************************************************************************)
(* Workflow references and the local actions behind them                   *)
(* (src/goverify/workflow.go, local_action.go).  VerifyWorkflowReferences  *)
(* reads each workflow in order and expands its references; a reference to *)
(* a local action is expanded depth first into the references of that      *)
(* action.  One owner, with its visited and active sets and its budgets,   *)
(* serves all workflows.                                                   *)
(*                                                                         *)
(* The recursion add / addLocalAction is an explicit stack whose bottom    *)
(* frame is the workflow.  A reference is a name: of a local action, of a  *)
(* workflow, or of something external that is pinned or not.               *)
(***************************************************************************)
EXTENDS Integers, Sequences

CONSTANTS
    Workflows,     \* the declared workflow files, in order
    Actions,       \* local action directories
    Pinned,        \* external references that are immutable
    Unpinned,      \* external references that are not
    Undeclared,    \* local workflows that are not declared
    Repositories,  \* the contents considered: file -> its references
    Size,          \* Size[d]: bytes of the metadata of action d
    MaxReferences, MaxActions, MaxBytes

Declared == {Workflows[i] : i \in DOMAIN Workflows}
Files == Declared \union Actions
References == Actions \union Pinned \union Unpinned \union Declared \union Undeclared

\* The declared workflows are sorted and named once; a reference is of one kind.
ASSUME LocalActionsAssumption ==
    /\ Workflows \in Seq(Declared)
    /\ \A i, j \in DOMAIN Workflows : i # j => Workflows[i] # Workflows[j]
    /\ Actions \intersect (Pinned \union Unpinned \union Declared \union Undeclared) = {}
    /\ Declared \intersect (Pinned \union Unpinned \union Undeclared) = {}
    /\ Undeclared \intersect (Pinned \union Unpinned) = {}
    /\ Pinned \intersect Unpinned = {}
    /\ Repositories \subseteq [Files -> Seq(References)]
    /\ Size \in [Actions -> Nat]
    /\ MaxReferences \in Nat /\ MaxActions \in Nat /\ MaxBytes \in Nat

VARIABLES
    content,     \* what the repository's files refer to; never changes
    ended,       \* the caller's context has ended
    turn,        \* position of the workflow being read or expanded
    stack,       \* frames [file, at]: at is the next reference of file to add
    entering,    \* the action about to be read: <<d>> or <<>>
    visited, active,
    references, actions, bytes,  \* what the budgets bound
    found,       \* the references admitted so far: <<file, reference>>
    status       \* "running", "verified" or "rejected"

budgets == <<references, actions, bytes>>
vars == <<content, ended, turn, stack, entering, visited, active, budgets, found, status>>

Init ==
    /\ content \in Repositories
    /\ ended = FALSE
    /\ turn = 1
    /\ stack = <<>>
    /\ entering = <<>>
    /\ visited = {}
    /\ active = {}
    /\ references = 0 /\ actions = 0 /\ bytes = 0
    /\ found = <<>>
    /\ status = "running"

-----------------------------------------------------------------------------
Top == stack[Len(stack)]
Reference == content[Top.file][Top.at]
Working == status = "running" /\ stack # <<>> /\ entering = <<>>
Exhausted == Working /\ Top.at > Len(content[Top.file])
HasReference == Working /\ Top.at <= Len(content[Top.file])

Frame(file) == [file |-> file, at |-> 1]
Advanced == [stack EXCEPT ![Len(stack)].at = @ + 1]

\* Mutant: only the first reference of a file is inspected.
InspectedFirst(file) ==
    content[file] # <<>> => content[file][1] \notin Unpinned

\* Inspection refuses a file with too many references or with one that is not
\* immutable; local references are immutable by construction.
Inspected(file) ==
    /\ Len(content[file]) <= MaxReferences
    /\ \A i \in DOMAIN content[file] : content[file][i] \notin Unpinned

\* The caller cancels, or its deadline passes.
End ==
    /\ status = "running"
    /\ ~ended
    /\ ended' = TRUE
    /\ UNCHANGED <<content, turn, stack, entering, visited, active, budgets, found, status>>

\* Mutant: the error is dropped and the workflow is tried again.
RejectIgnored ==
    /\ UNCHANGED status
    /\ active' = {}
    /\ stack' = <<>>
    /\ entering' = <<>>

\* Every error is returned at once; the deferred deletes empty active.
Reject ==
    /\ status' = "rejected"
    /\ active' = {}
    /\ stack' = <<>>
    /\ entering' = <<>>

-----------------------------------------------------------------------------
(* VerifyWorkflowReferences *)

BetweenWorkflows == status = "running" /\ stack = <<>>

\* The context, the file, its inspection, and the context again before the
\* references are expanded.
ReadWorkflow ==
    /\ BetweenWorkflows
    /\ turn <= Len(Workflows)
    /\ ~ended
    /\ Inspected(Workflows[turn])
    /\ stack' = <<Frame(Workflows[turn])>>
    /\ UNCHANGED <<content, ended, turn, entering, visited, active, budgets, found, status>>

\* The context has ended, the file cannot be read, or inspection refuses it.
RejectWorkflow ==
    /\ BetweenWorkflows
    /\ turn <= Len(Workflows)
    /\ Reject
    /\ UNCHANGED <<content, ended, turn, visited, budgets, found>>

Verified ==
    /\ BetweenWorkflows
    /\ turn > Len(Workflows)
    /\ status' = "verified"
    /\ UNCHANGED <<content, ended, turn, stack, entering, visited, active, budgets, found>>

-----------------------------------------------------------------------------
(* add: one reference of the file on top of the stack *)

\* The context and the reference budget come before anything else.
Admitted ==
    /\ HasReference
    /\ ~ended
    /\ references < MaxReferences
    /\ references' = references + 1

RejectUnadmitted ==
    /\ HasReference
    /\ ended \/ references = MaxReferences
    /\ Reject
    /\ UNCHANGED <<content, ended, turn, visited, budgets, found>>

\* A local workflow is verified in its own turn if it is declared.
AddWorkflow ==
    /\ Admitted
    /\ Reference \in Declared
    /\ stack' = Advanced
    /\ UNCHANGED <<content, ended, turn, entering, visited, active, actions, bytes, found, status>>

AddUndeclared ==
    /\ Admitted
    /\ Reference \in Undeclared
    /\ Reject
    /\ UNCHANGED <<content, ended, turn, visited, actions, bytes, found>>

AddExternal ==
    /\ Admitted
    /\ Reference \in Pinned \union Unpinned
    /\ found' = Append(found, <<Top.file, Reference>>)
    /\ stack' = Advanced
    /\ UNCHANGED <<content, ended, turn, entering, visited, active, actions, bytes, status>>

\* addLocalAction: a directory being expanded is a cycle, one that was expanded
\* is done, and any other is counted and marked before it is read.
AddCycle ==
    /\ Admitted
    /\ Reference \in active
    /\ Reject
    /\ UNCHANGED <<content, ended, turn, visited, actions, bytes, found>>

AddVisited ==
    /\ Admitted
    /\ Reference \in visited \ active
    /\ stack' = Advanced
    /\ UNCHANGED <<content, ended, turn, entering, visited, active, actions, bytes, found, status>>

\* Mutant: visited actions are read again.
IsNewToStack(d) == d \in Actions \ active

IsNew(d) == d \in Actions \ (visited \union active)

EnterAction ==
    /\ Admitted
    /\ IsNew(Reference)
    /\ actions < MaxActions
    /\ actions' = actions + 1
    /\ active' = active \union {Reference}
    /\ entering' = <<Reference>>
    /\ UNCHANGED <<content, ended, turn, stack, visited, bytes, found, status>>

RejectAction ==
    /\ Admitted
    /\ IsNew(Reference)
    /\ actions = MaxActions
    /\ Reject
    /\ UNCHANGED <<content, ended, turn, visited, actions, bytes, found>>

Reading == status = "running" /\ entering # <<>>

\* read and inspectLocalActionReferences: exactly one metadata file, within the
\* byte budget, all of whose references are immutable.
ReadAction ==
    /\ Reading
    /\ ~ended
    /\ Size[entering[1]] <= MaxBytes - bytes
    /\ Inspected(entering[1])
    /\ bytes' = bytes + Size[entering[1]]
    /\ stack' = Append(Advanced, Frame(entering[1]))
    /\ entering' = <<>>
    /\ UNCHANGED <<content, ended, turn, visited, active, references, actions, found, status>>

\* The context has ended, the metadata is missing, ambiguous, unreadable or too
\* large, or inspection refuses it.
RejectRead ==
    /\ Reading
    /\ Reject
    /\ UNCHANGED <<content, ended, turn, visited, budgets, found>>

-----------------------------------------------------------------------------
\* Mutant: the deferred delete is missing.
LeaveActive ==
    /\ Exhausted
    /\ Len(stack) > 1
    /\ visited' = visited \union {Top.file}
    /\ stack' = SubSeq(stack, 1, Len(stack) - 1)
    /\ UNCHANGED <<content, ended, turn, entering, active, budgets, found, status>>

\* The references of an action are all added: it is visited and no longer active.
LeaveAction ==
    /\ Exhausted
    /\ Len(stack) > 1
    /\ visited' = visited \union {Top.file}
    /\ active' = active \ {Top.file}
    /\ stack' = SubSeq(stack, 1, Len(stack) - 1)
    /\ UNCHANGED <<content, ended, turn, entering, budgets, found, status>>

LeaveWorkflow ==
    /\ Exhausted
    /\ Len(stack) = 1
    /\ stack' = <<>>
    /\ turn' = turn + 1
    /\ UNCHANGED <<content, ended, entering, visited, active, budgets, found, status>>

Finished == status # "running" /\ UNCHANGED vars

Step ==
    \/ ReadWorkflow \/ RejectWorkflow \/ Verified
    \/ RejectUnadmitted
    \/ AddWorkflow \/ AddUndeclared \/ AddExternal
    \/ AddCycle \/ AddVisited \/ EnterAction \/ RejectAction
    \/ ReadAction \/ RejectRead
    \/ LeaveAction \/ LeaveWorkflow

Next == End \/ Step \/ Finished

Spec == Init /\ [][Next]_vars

\* One goroutine over local files, none of which blocks.
FairSpec == Spec /\ WF_vars(Step)
=============================================================================
