----------------------------- MODULE Execution ------------------------------
(***************************************************************************)
(* One profile run: Execute and its control loop (src/execute.go), from    *)
(* the command that calls it to the exit status that command returns       *)
(* (src/cmd/secverify).  The caller may cancel and each control may reach  *)
(* its own deadline at any point, every write may fail, and a control's    *)
(* process may report anything proctree can.                               *)
(*                                                                         *)
(* An error is the set of sentinels errors.Is finds in it: errors.Join is  *)
(* union and errors.Is is membership.  nil is the empty set.               *)
(***************************************************************************)
EXTENDS Integers, Sequences

CONSTANTS
    N,          \* controls of the selected profile, run in order 1 .. N
    Showing,    \* controls with ShowSuccessOutput
    Expecting   \* controls with an expected stdout or stderr

ASSUME ExecutionAssumption ==
    /\ N \in Nat \ {0}
    /\ Showing \subseteq 1 .. N
    /\ Expecting \subseteq 1 .. N

VARIABLES
    parent,   \* error of the caller's context, "live" while it has none
    control,  \* error of the running control's context
    phase,    \* where the call is
    k,        \* the control being evaluated
    report,   \* what its process reported
    verdict,  \* its classification: a state and an error
    results,  \* Result.Controls: the states of the attempted controls
    state,    \* Result.State
    err,      \* the returned error
    output,   \* what was completely written: <<what, control>>
    exit      \* the exit status, -1 while the process runs

ctxVars  == <<parent, control>>
jobVars  == <<k, report, verdict>>
callVars == <<results, state, err>>
vars     == <<ctxVars, phase, jobVars, callVars, output, exit>>

States == {"pass", "fail", "cancelled", "unavailable", "invocation_error"}
Ended  == {"canceled", "deadline"}

\* The sentinels told apart: verify's own, the context's, and proctree's.
Sentinels == {"ErrFailed", "ErrUnavailable", "ErrCancelled", "ErrInvocation",
              "ErrOutput", "ErrReporting", "ErrInvalidPlan", "canceled", "deadline",
              "proctree.ErrCleanup", "proctree.ErrUnsupported", "proctree.ErrCancelled",
              "other"}

\* What a process run can report; matches compares its output with what the
\* control expects.
Reports == [started : BOOLEAN,
            outcome : {"completed", "cleanup_failure", "incomplete"},
            zero    : BOOLEAN,
            matches : BOOLEAN,
            err     : {{}, {"other"}, {"proctree.ErrUnsupported"},
                       {"proctree.ErrCleanup"}} \union
                      {{"proctree.ErrCancelled", why} : why \in Ended} \union
                      {{"proctree.ErrCancelled", "proctree.ErrCleanup", why} : why \in Ended}]

NoReport == [started |-> FALSE, outcome |-> "incomplete", zero |-> FALSE,
             matches |-> FALSE, err |-> {}]

Verdict(s, e) == [state |-> s, err |-> e]
Undecided == Verdict("pass", {})

Init ==
    /\ parent = "live"
    /\ control = "live"
    /\ phase = "command"
    /\ k = 1
    /\ report = NoReport
    /\ verdict = Undecided
    /\ results = <<>>
    /\ state = "pass"
    /\ err = {}
    /\ output = <<>>
    /\ exit = -1

-----------------------------------------------------------------------------
(* Environment *)

InControl == phase \in {"run", "classify", "deadline", "match"}

\* A signal cancels the command's context; a library caller's may also expire.
EndParent(why) ==
    /\ phase # "exited"
    /\ parent = "live"
    /\ parent' = why
    /\ UNCHANGED <<control, phase, jobVars, callVars, output, exit>>

\* The end of the parent reaches the control's context.
Propagate ==
    /\ InControl
    /\ parent # "live"
    /\ control = "live"
    /\ control' = parent
    /\ UNCHANGED <<parent, phase, jobVars, callVars, output, exit>>

\* The control's own timeout passes.
ControlDeadline ==
    /\ InControl
    /\ control = "live"
    /\ control' = "deadline"
    /\ UNCHANGED <<parent, phase, jobVars, callVars, output, exit>>

-----------------------------------------------------------------------------
(* Returning *)

\* Execute returns a state and an error.
Return(s, e) ==
    /\ phase' = "returned"
    /\ state' = s
    /\ err' = e

\* The ends of the caller's context seen as ErrCancelled.
Cancelled == {"ErrCancelled", parent}

\* A text is written completely, or the write fails.
Writes(text) == output' = Append(output, text)
WriteFails == UNCHANGED output

-----------------------------------------------------------------------------
(* The command before Execute *)

\* Identity, working directory, root resolution and plan construction may each
\* fail; discovery reports a cancelled context as it is.
CommandErrors ==
    {{"ErrInvocation"}, {"ErrInvalidPlan"}, {"ErrUnavailable"}, {"other"}}
        \union {{why} : why \in {parent} \intersect Ended}

CommandFails ==
    /\ phase = "command"
    /\ \E e \in CommandErrors : Return("none", e)
    /\ UNCHANGED <<ctxVars, jobVars, results, output, exit>>

CallExecute ==
    /\ phase = "command"
    /\ phase' = "start"
    /\ UNCHANGED <<ctxVars, jobVars, callVars, output, exit>>

\* Execute: argument checks, then the context before anything is admitted.
CheckStart ==
    /\ phase = "start"
    /\ \/ Return("invocation_error", {"ErrInvocation"})
       \/ parent # "live" /\ Return("cancelled", Cancelled)
       \/ parent = "live" /\ phase' = "admit" /\ UNCHANGED <<state, err>>
    /\ UNCHANGED <<ctxVars, jobVars, results, output, exit>>

\* Admission looks at the context before each profile and control, so it fails
\* on an ended context or an invalid plan; a context that ends after its last
\* look is not seen here.  Whatever failed, an ended context decides the state.
Admit ==
    /\ phase = "admit"
    /\ \/ parent # "live" /\ Return("cancelled", Cancelled)
       \/ parent = "live" /\ Return("invocation_error", {"ErrInvalidPlan"})
       \/ Return("invocation_error", {"ErrInvocation", "ErrInvalidPlan"})
       \/ phase' = "header" /\ UNCHANGED <<state, err>>
    /\ UNCHANGED <<ctxVars, jobVars, results, output, exit>>

WriteHeader ==
    /\ phase = "header"
    /\ \/ /\ Writes(<<"header", 0>>)
          /\ phase' = "next"
          /\ UNCHANGED <<state, err>>
       \/ WriteFails /\ Return("invocation_error", {"ErrInvocation", "ErrReporting"})
    /\ UNCHANGED <<ctxVars, jobVars, results, exit>>

-----------------------------------------------------------------------------
(* executeControls *)

\* Mutant: the loop does not look at the context.
NextControlUnchecked ==
    /\ phase = "next"
    /\ phase' = IF k <= N THEN "heading" ELSE "summary"
    /\ UNCHANGED <<ctxVars, jobVars, callVars, output, exit>>

\* The context before each control and after the last.
NextControl ==
    /\ phase = "next"
    /\ IF parent # "live"
         THEN Return("cancelled", Cancelled)
         ELSE /\ phase' = IF k <= N THEN "heading" ELSE "summary"
              /\ UNCHANGED <<state, err>>
    /\ UNCHANGED <<ctxVars, jobVars, results, output, exit>>

\* Mutant: an unavailable control is skipped over.
ConcludeSkipping(s, e) ==
    /\ results' = Append(results, s)
    /\ IF e # {} /\ s # "unavailable"
         THEN Return(s, e) /\ UNCHANGED k
         ELSE phase' = "next" /\ k' = k + 1 /\ UNCHANGED <<state, err>>

\* The result of a control is appended, and the loop goes on only without error.
Conclude(s, e) ==
    /\ results' = Append(results, s)
    /\ IF e # {}
         THEN Return(s, e) /\ UNCHANGED k
         ELSE phase' = "next" /\ k' = k + 1 /\ UNCHANGED <<state, err>>

\* A reporting failure keeps the error of the control it interrupted.
ReportingFails(e) ==
    WriteFails /\ Conclude("invocation_error", {"ErrInvocation", "ErrReporting"} \union e)

-----------------------------------------------------------------------------
(* executeControl *)

\* The heading, then a fresh context with the control's timeout: it starts out
\* ended if the parent has.
WriteHeading ==
    /\ phase = "heading"
    /\ \/ /\ Writes(<<"heading", k>>)
          /\ phase' = "run"
          /\ control' = parent
          /\ report' = NoReport
          /\ verdict' = Undecided
          /\ UNCHANGED <<k, callVars>>
       \/ /\ ReportingFails({})
          /\ UNCHANGED <<control, report, verdict>>
    /\ UNCHANGED <<parent, exit>>

\* The process ends.  It is interrupted only when its context has ended.
FinishRun(r) ==
    /\ phase = "run"
    /\ r.err \intersect Ended \subseteq {control}
    /\ report' = r
    /\ phase' = "classify"
    /\ UNCHANGED <<ctxVars, k, verdict, callVars, output, exit>>

\* classifyOutcome up to its look at the parent; what comes before that look
\* takes precedence over it.
ClassifyParent ==
    /\ phase = "classify"
    /\ LET cleanup == "proctree.ErrCleanup" \in report.err
                        \/ report.outcome = "cleanup_failure"
           unsupported == "proctree.ErrUnsupported" \in report.err
       IN \/ /\ cleanup
             /\ verdict' = Verdict("fail", {"ErrFailed", "proctree.ErrCleanup"} \union report.err)
             /\ phase' = "match"
          \/ /\ ~cleanup /\ unsupported
             /\ verdict' = Verdict("unavailable", {"ErrUnavailable"} \union report.err)
             /\ phase' = "match"
          \/ /\ ~cleanup /\ ~unsupported /\ parent # "live"
             /\ verdict' = Verdict("cancelled", Cancelled \union report.err)
             /\ phase' = "match"
          \/ /\ ~cleanup /\ ~unsupported /\ parent = "live"
             /\ phase' = "deadline"
             /\ UNCHANGED verdict
    /\ UNCHANGED <<ctxVars, k, report, callVars, output, exit>>

\* The rest of classifyOutcome: the second look, at the control's own context,
\* happens after the first.

\* Mutant: a zero exit status is enough.
ExitZero(r) == r.started /\ r.zero

Successful(r) == r.started /\ r.err = {} /\ r.zero /\ r.outcome = "completed"

ClassifyControl ==
    /\ phase = "deadline"
    /\ verdict' =
         IF control # "live" THEN Verdict("fail", {"ErrFailed", control} \union report.err)
         ELSE IF ~report.started THEN Verdict("invocation_error", {"ErrInvocation"} \union report.err)
         ELSE IF ~Successful(report) THEN Verdict("fail", {"ErrFailed"} \union report.err)
         ELSE Verdict("pass", {})
    /\ phase' = "match"
    /\ UNCHANGED <<ctxVars, k, report, callVars, output, exit>>

\* The expected output; only a pass is turned into a failure by it.
MatchOutput ==
    /\ phase = "match"
    /\ LET mismatch == k \in Expecting /\ ~report.matches
       IN verdict' = IF ~mismatch THEN verdict
                     ELSE IF verdict.state = "pass"
                       THEN Verdict("fail", {"ErrFailed", "ErrOutput"})
                     ELSE Verdict(verdict.state, {"ErrOutput"} \union verdict.err)
    /\ phase' = "output"
    /\ UNCHANGED <<ctxVars, k, report, callVars, output, exit>>

\* The tool's output, for a control that did not pass or shows its output.
WriteControlOutput ==
    /\ phase = "output"
    /\ IF verdict.state = "pass" /\ k \notin Showing
         THEN phase' = "label" /\ UNCHANGED <<output, k, callVars>>
         ELSE \/ /\ Writes(<<"output", k>>)
                 /\ phase' = "label"
                 /\ UNCHANGED <<k, callVars>>
              \/ ReportingFails(verdict.err)
    /\ UNCHANGED <<ctxVars, report, verdict, exit>>

\* Mutant: a failed write of the line is ignored.
WriteLabelUnchecked ==
    /\ phase = "label"
    /\ Writes(<<verdict.state, k>>) \/ WriteFails
    /\ Conclude(verdict.state, verdict.err)
    /\ UNCHANGED <<ctxVars, report, verdict, exit>>

\* The PASS, FAIL, ... line.
WriteLabel ==
    /\ phase = "label"
    /\ \/ Writes(<<verdict.state, k>>) /\ Conclude(verdict.state, verdict.err)
       \/ ReportingFails(verdict.err)
    /\ UNCHANGED <<ctxVars, report, verdict, exit>>

WriteSummary ==
    /\ phase = "summary"
    /\ \/ Writes(<<"summary", 0>>) /\ Return("pass", {})
       \/ WriteFails /\ Return("invocation_error", {"ErrInvocation", "ErrReporting"})
    /\ UNCHANGED <<ctxVars, jobVars, results, exit>>

-----------------------------------------------------------------------------
(* The exit status *)

\* Mutant: cancellation is looked up before the cleanup failure.
ExitForCancelledFirst(e) ==
    IF e \intersect {"ErrCancelled", "canceled"} # {} THEN 4
    ELSE IF "proctree.ErrCleanup" \in e THEN 1
    ELSE IF "ErrUnavailable" \in e THEN 3
    ELSE IF e \intersect {"ErrInvocation", "ErrInvalidPlan"} # {} THEN 2
    ELSE 1

ExitFor(e) ==
    IF "proctree.ErrCleanup" \in e THEN 1
    ELSE IF "ErrUnavailable" \in e THEN 3
    ELSE IF e \intersect {"ErrCancelled", "canceled"} # {} THEN 4
    ELSE IF e \intersect {"ErrInvocation", "ErrInvalidPlan"} # {} THEN 2
    ELSE 1

\* Mutant: a reporting failure exits by whatever else went wrong.
ExitIgnoringReporting ==
    /\ phase = "returned"
    /\ phase' = "exited"
    /\ exit' \in IF err = {} THEN {0} ELSE {2, ExitFor(err)}
    /\ UNCHANGED <<ctxVars, jobVars, callVars, output>>

\* The diagnostic goes to stderr, and not being able to write it, like not being
\* able to write the output, is an invocation error.
Exit ==
    /\ phase = "returned"
    /\ phase' = "exited"
    /\ \/ err = {} /\ exit' = 0
       \/ err # {} /\ exit' = IF "ErrReporting" \in err THEN 2 ELSE ExitFor(err)
       \/ err # {} /\ exit' = 2
    /\ UNCHANGED <<ctxVars, jobVars, callVars, output>>

Exited == phase = "exited" /\ UNCHANGED vars

-----------------------------------------------------------------------------
Call ==
    \/ CommandFails
    \/ CallExecute
    \/ CheckStart
    \/ Admit
    \/ WriteHeader
    \/ NextControl
    \/ WriteHeading
    \/ \E r \in Reports : FinishRun(r)
    \/ ClassifyParent
    \/ ClassifyControl
    \/ MatchOutput
    \/ WriteControlOutput
    \/ WriteLabel
    \/ WriteSummary
    \/ Exit

Next ==
    \/ \E why \in Ended : EndParent(why)
    \/ Propagate
    \/ ControlDeadline
    \/ Call
    \/ Exited

Spec == Init /\ [][Next]_vars
=============================================================================
