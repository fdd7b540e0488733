-------------------------- MODULE CampaignVerdict ---------------------------
(***************************************************************************)
(* What a fuzz campaign promises its caller, without workers, counters or  *)
(* contexts: controls finish in any order and the campaign concludes once, *)
(* with a verdict that depends on what finished and on whether the         *)
(* campaign itself was ended, never on which worker was first.             *)
(***************************************************************************)
EXTENDS Integers

CONSTANTS
    Controls,   \* the indices of the campaign's controls
    Outcome,    \* what a control can end with: records with a class
    Unset,      \* the outcome of a control that has not finished
    Undecided   \* the verdict before the campaign concludes

VARIABLES
    outcomes,   \* what each control ended with
    ended,      \* the caller cancelled or the deadline passed
    verdict     \* what the campaign returned

Of(classes) == {i \in Controls : outcomes[i].class \in classes}
Genuine == Of({"failed", "cleanup"})
Lowest(i, S) == i \in S /\ \A j \in S : i <= j

Init ==
    /\ outcomes = [i \in Controls |-> Unset]
    /\ ended = FALSE
    /\ verdict = Undecided

\* A control finishes.  It is interrupted only when the campaign was ended or
\* another control failed on its own account.
Finish(i, o) ==
    /\ verdict = Undecided
    /\ outcomes[i] = Unset
    /\ o # Unset
    /\ o.class = "cancelled" => ended \/ Genuine # {}
    /\ outcomes' = [outcomes EXCEPT ![i] = o]
    /\ UNCHANGED <<ended, verdict>>

End ==
    /\ ended' = TRUE
    /\ UNCHANGED <<outcomes, verdict>>

\* A verdict the finished controls justify.
Justified(v) ==
    \/ /\ v.kind \in {"success", "write"}
       /\ Of({"pass"}) = Controls
    \/ /\ v.kind = "context"
       /\ ended
       /\ Genuine = {}
    \/ /\ v.kind = "control"
       /\ IF Of({"cleanup"}) # {} THEN Lowest(v.index, Of({"cleanup"}))
                                  ELSE Lowest(v.index, Genuine)
    \/ /\ v.kind = "rejected"
       /\ \A i \in Controls : outcomes[i] = Unset

Conclude ==
    /\ verdict = Undecided
    /\ verdict' # Undecided
    /\ Justified(verdict')
    /\ UNCHANGED <<outcomes, ended>>

Next ==
    \/ \E i \in Controls, o \in Outcome : Finish(i, o)
    \/ End
    \/ Conclude

vars == <<outcomes, ended, verdict>>
Spec == Init /\ [][Next]_vars
=============================================================================
