------------------------- MODULE CampaignProperties -------------------------
(***************************************************************************)
(* What one fuzz campaign must guarantee.                                  *)
(***************************************************************************)
EXTENDS Campaign

\* Every variable keeps its type.
TypeOK ==
    /\ parent \in {"live"} \union Ended
    /\ child \in {"live"} \union Ended
    /\ next \in Nat
    /\ outcomes \in [Controls -> Outcomes]
    /\ once \in {"idle", "busy", "done"}
    /\ failed \in BOOLEAN
    /\ firstIndex \in Controls
    /\ pc \in [Workers -> {"idle", "check", "claim", "run", "once", "cancel", "done"}]
    /\ index \in [Workers -> Controls]
    /\ main \in {"admit", "wait", "write", "returned"}
    /\ lines \in Seq([control : Controls, executions : Executions \union {0}])
    /\ result \in Results
    /\ lateStarts \in [Workers -> Nat]

\* Two workers never hold the same control, and a control is run only while its
\* outcome is unset: each slot of outcomes has one writer, which is why the code
\* shares the slice without a lock.
SingleOwner ==
    \A w \in Workers :
        pc[w] = "run" =>
            /\ outcomes[index[w]] = Unset
            /\ \A v \in Workers \ {w} : pc[v] = "run" => index[v] # index[w]

\* No run outlives the call: once executeFuzzControls reports or returns, every
\* worker goroutine has returned, however the campaign was ended.
NoOrphanedWorker ==
    main \in {"write", "returned"} =>
        \A w \in Workers : pc[w] \in {"idle", "done"}

\* A line is written only when every control ran and passed with at least the
\* minimum number of executions; lines are in control order, carry that
\* control's executions, and success means that no line is missing.
CompleteReport ==
    /\ lines # <<>> =>
        \A i \in Controls : /\ outcomes[i].class = "pass"
                            /\ outcomes[i].executions >= Minimum
    /\ \A k \in 1 .. Len(lines) :
        lines[k] = [control |-> k - 1, executions |-> outcomes[k - 1].executions]
    /\ result.kind = "success" => Len(lines) = N

\* After cancellation a worker begins at most the one control it was about to
\* claim when the context ended.
OneLateStart == \A w \in Workers : lateStarts[w] <= 1

\* The campaign is its verdict: a genuine failure is never masked by the
\* cancellations it caused, a cleanup failure comes first, a control is blamed
\* only for a failure of its own, and the caller's cancellation is reported as
\* such.
Verdict == INSTANCE CampaignVerdict WITH
    Controls <- Controls,
    Outcome <- Outcomes,
    Unset <- Unset,
    Undecided <- Pending,
    outcomes <- outcomes,
    ended <- parent # "live",
    verdict <- result

ImplementsVerdict == Verdict!Spec

\* The campaign returns, whatever fails and whenever the caller cancels: no
\* worker is left waiting in first.Do, and none claims forever.
Returns == <>(main = "returned")
=============================================================================
