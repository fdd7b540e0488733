------------------------ MODULE ExecutionProperties -------------------------
(***************************************************************************)
(* What a profile run must guarantee.                                      *)
(***************************************************************************)
EXTENDS Execution

Ran == phase \in {"returned", "exited"}

\* The positions in output of a text, and whether one comes before another.
At(text) == {i \in DOMAIN output : output[i] = text}
Precedes(a, b) == \E i \in At(a), j \in At(b) : i < j

\* Success is complete and visible: the run passes only when every control did,
\* and then the caller has received the header, each control's heading and PASS
\* line in order, and the summary, in full.
PassIsComplete ==
    Ran /\ state = "pass" =>
        /\ results = [i \in 1 .. N |-> "pass"]
        /\ \A i \in 1 .. N :
            /\ Precedes(<<"header", 0>>, <<"heading", i>>)
            /\ Precedes(<<"heading", i>>, <<"pass", i>>)
            /\ Precedes(<<"pass", i>>, <<"summary", 0>>)
            /\ i > 1 => Precedes(<<"pass", i - 1>>, <<"heading", i>>)
            /\ i \in Showing => Precedes(<<"output", i>>, <<"pass", i>>)

\* A control is recorded as passed only if its process started, ended on its own
\* with status zero, left nothing behind, produced the expected output, and its
\* output was shown if it is to be.
PassIsEarned ==
    [][results' # results /\ results'[Len(results')] = "pass" =>
        /\ report.started /\ report.zero /\ report.err = {}
        /\ report.outcome = "completed"
        /\ k \in Expecting => report.matches
        /\ k \in Showing => At(<<"output", k>>) # {}]_vars

\* The first control that does not pass is the last one attempted, and the run's
\* state is that control's.
FirstNonPassStops ==
    \A i \in DOMAIN results : results[i] # "pass" =>
        i = Len(results) /\ Ran /\ state = results[i]

\* A run whose caller had cancelled before the last look never passes.
CancellationIsSeen ==
    [](parent # "live" /\ phase \notin {"summary", "returned", "exited"} =>
        [](phase = "exited" => state # "pass"))

\* A cleanup failure survives everything that happens after it: cancellation,
\* an unwritable report or unexpected output neither hide it from the error nor
\* turn the exit status into that of a cancelled or unavailable run.
CleanupFailed(r) == "proctree.ErrCleanup" \in r.err \/ r.outcome = "cleanup_failure"

CleanupIsReported ==
    phase = "exited" /\ results # <<>> /\ report # NoReport /\ CleanupFailed(report) =>
        "proctree.ErrCleanup" \in err /\ exit \in {1, 2}

\* The exit status explains the run: zero for a pass and nothing else, four only
\* when the caller ended it, and every state but fail has the status the
\* documentation gives it, or two when the diagnostic could not be written.
ExitExplainsState ==
    phase = "exited" =>
        /\ exit = 0 <=> state = "pass"
        /\ exit = 4 => parent # "live"
        /\ exit = 3 => "ErrUnavailable" \in err
        /\ state = "cancelled" => exit \in {2, 4}
        /\ state = "unavailable" => exit \in {2, 3}
        /\ state = "invocation_error" => exit = 2

\* The documented table for a failed control: exit status one, unless the
\* diagnostic could not be written.
FailExitsOne == phase = "exited" /\ state = "fail" => exit \in {1, 2}
=============================================================================
