---------------------------- MODULE MCWorkflows -----------------------------
(***************************************************************************)
(* The two operations that look into the workflows of a repository, each   *)
(* on its own instance.  One process carries out one of them: it reads the *)
(* references of a workflow or verifies that the pinned actions are        *)
(* current, and what the other would keep does not change.                 *)
(***************************************************************************)
EXTENDS MCDocument, MCActionTags

VARIABLE operation  \* "references" or "currency"

AnyDocument == CHOOSE doc \in Documents : TRUE

WorkflowsInit ==
    /\ operation \in {"references", "currency"}
    /\ DocumentInit
    /\ operation = "currency" => document = AnyDocument
    /\ Init

WorkflowsNext ==
    \/ operation = "references" /\ DocumentNext /\ UNCHANGED <<operation, vars>>
    \/ operation = "currency" /\ Next /\ UNCHANGED <<operation, documentVars>>

WorkflowsSpec == WorkflowsInit /\ [][WorkflowsNext]_<<operation, documentVars, vars>>
=============================================================================
