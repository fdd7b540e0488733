-------------------------- MODULE ExecutionProofs --------------------------
(***************************************************************************)
(* Proofs about a profile run, for any number of controls, whichever of    *)
(* them show their output or expect some.                                  *)
(***************************************************************************)
EXTENDS ExecutionProperties, TLAPS

-----------------------------------------------------------------------------
(* The inductive invariant, by concern *)

Before     == {"command", "start", "admit", "header"}
Evaluating == {"run", "classify", "deadline", "match", "output", "label"}
Looping    == {"next", "heading"} \union Evaluating
Over       == {"returned", "exited"}

Causes == {"live"} \union Ended
Texts  == (States \union {"header", "heading", "output", "summary"}) \X (0 .. N)

TypeOK ==
    /\ parent \in Causes
    /\ control \in Causes
    /\ phase \in Before \union Looping \union {"summary"} \union Over
    /\ k \in 1 .. N + 1
    /\ phase \in {"heading"} \union Evaluating => k <= N
    /\ report \in Reports
    /\ verdict \in [state : States, err : SUBSET Sentinels]
    /\ results \in Seq(States)
    /\ state \in States \union {"none"}
    /\ err \in SUBSET Sentinels
    /\ output \in Seq(Texts)
    /\ exit \in -1 .. 4

\* Until it returns the run has neither state nor error, and a control is reached
\* only when each one before it has passed.
Progress ==
    /\ phase \notin Over => state = "pass" /\ err = {}
    /\ phase \in Before => k = 1 /\ results = <<>>
    /\ phase \in Looping \union {"summary"} =>
        /\ Len(results) = k - 1
        /\ \A i \in DOMAIN results : results[i] = "pass"
    /\ phase = "summary" => k = N + 1

\* A run that is over has an error exactly if it did not pass, and what kept it
\* from passing is the last of its results.
Outcome ==
    phase \in Over =>
        /\ err = {} <=> state = "pass"
        /\ \A i \in DOMAIN results : results[i] # "pass" => i = Len(results) /\ state = results[i]
        /\ state = "pass" => Len(results) = N

\* What the process reported belongs to the control whose verdict is awaited; a
\* control that passed has left a clean report behind.
ReportOK ==
    /\ control = "canceled" => parent = "canceled"
    /\ report.err \intersect Ended # {} /\ phase \in {"classify", "deadline"} => control # "live"
    /\ "canceled" \in report.err => parent # "live"
    /\ phase \in Before \union {"next", "heading", "run", "summary"} => ~CleanupFailed(report)
    /\ phase = "deadline" => ~CleanupFailed(report) /\ "proctree.ErrUnsupported" \notin report.err

\* An error has its reason: it names a cancellation only after the caller has
\* ended, and each state has the sentinels that exitFor looks for and lacks
\* those that it looks for first.
Explained(s, e) ==
    /\ e = {} <=> s = "pass"
    /\ e \intersect {"ErrCancelled", "canceled"} # {} => parent # "live"
    /\ s = "cancelled" =>
        "ErrCancelled" \in e /\ e \intersect {"proctree.ErrCleanup", "ErrUnavailable"} = {}
    /\ s = "unavailable" => "ErrUnavailable" \in e /\ "proctree.ErrCleanup" \notin e
    /\ s = "invocation_error" =>
        \/ "ErrReporting" \in e
        \/ /\ "ErrInvocation" \in e \/ "ErrInvalidPlan" \in e
           /\ e \intersect {"proctree.ErrCleanup", "ErrUnavailable", "ErrCancelled", "canceled"} = {}

Earned ==
    report.started /\ report.zero /\ report.err = {} /\ report.outcome = "completed"

VerdictOK ==
    phase \in {"match", "output", "label"} =>
        /\ Explained(verdict.state, verdict.err)
        /\ CleanupFailed(report) => "proctree.ErrCleanup" \in verdict.err
        /\ verdict.state = "pass" => Earned
        /\ phase # "match" /\ verdict.state = "pass" /\ k \in Expecting => report.matches

ErrorOK ==
    phase \in Over =>
        /\ Explained(state, err)
        /\ CleanupFailed(report) => "proctree.ErrCleanup" \in err

ExitOK ==
    /\ phase # "exited" => exit = -1
    /\ phase = "exited" =>
        \/ err = {} /\ exit = 0
        \/ err # {} /\ exit = 2
        \/ err # {} /\ "ErrReporting" \notin err /\ exit = ExitFor(err)

\* The caller has received what control i should have written, in order.
Headed(i) ==
    /\ Precedes(<<"header", 0>>, <<"heading", i>>)
    /\ i > 1 => Precedes(<<"pass", i - 1>>, <<"heading", i>>)
Written(i) ==
    /\ Headed(i)
    /\ Precedes(<<"heading", i>>, <<"pass", i>>)
    /\ i \in Showing => Precedes(<<"output", i>>, <<"pass", i>>)

OutputOK ==
    /\ phase \in Looping \union {"summary"} =>
        At(<<"header", 0>>) # {} /\ \A i \in 1 .. k - 1 : Written(i)
    /\ phase \in Evaluating => Headed(k)
    /\ phase = "label" /\ k \in Showing => At(<<"output", k>>) # {}
    /\ phase \in Over /\ state = "pass" =>
        \A i \in 1 .. N : Written(i) /\ Precedes(<<"pass", i>>, <<"summary", 0>>)

IInv ==
    /\ Progress
    /\ Outcome
    /\ ReportOK
    /\ VerdictOK
    /\ ErrorOK
    /\ ExitOK
    /\ OutputOK

-----------------------------------------------------------------------------
(* Types *)

\* What a process may report; an interrupted run names why its context ended.
LEMMA ReportType ==
    ASSUME NEW r \in Reports
    PROVE  /\ r.started \in BOOLEAN /\ r.zero \in BOOLEAN /\ r.matches \in BOOLEAN
           /\ r.err \in SUBSET Sentinels
           /\ r.err \intersect {"ErrCancelled", "ErrUnavailable", "ErrReporting"} = {}
           /\ "proctree.ErrCleanup" \notin r.err /\ "proctree.ErrUnsupported" \notin r.err
                /\ r.err \intersect Ended = {} => r.err \in {{}, {"other"}}
BY DEF Reports, Sentinels, Ended

LEMMA NoReportType == NoReport \in Reports /\ ~CleanupFailed(NoReport) /\ NoReport.err = {}
BY DEF NoReport, Reports, CleanupFailed

\* Whatever is written is a text, and a text extends the output.
LEMMA WritesType ==
    ASSUME TypeOK, NEW i \in 0 .. N,
           NEW what \in States \union {"header", "heading", "output", "summary"},
           Writes(<<what, i>>)
    PROVE  output' \in Seq(Texts) /\ output' = Append(output, <<what, i>>)
<1>1. <<what, i>> \in Texts
  BY DEF Texts
<1>2. output \in Seq(Texts)
  BY DEF TypeOK
<1> QED
  BY <1>1, <1>2 DEF Writes

\* The result of a control is a state, and with an error it is the run's.
LEMMA ConcludeType ==
    ASSUME TypeOK, k <= N, NEW s \in States, NEW e \in SUBSET Sentinels, Conclude(s, e)
    PROVE  /\ results' \in Seq(States) /\ results' = Append(results, s)
           /\ state' \in States \union {"none"}
           /\ err' \in SUBSET Sentinels
           /\ k' \in 1 .. N + 1
           /\ phase' \in {"returned", "next"}
BY ExecutionAssumption DEF Conclude, Return, TypeOK

\* A reporting failure is such a result, and nothing more is written.
LEMMA ReportingFailsType ==
    ASSUME NEW e \in SUBSET Sentinels, ReportingFails(e)
    PROVE  /\ {"ErrInvocation", "ErrReporting"} \union e \in SUBSET Sentinels
           /\ Conclude("invocation_error", {"ErrInvocation", "ErrReporting"} \union e)
           /\ output' = output
BY DEF ReportingFails, WriteFails, Sentinels

\* The initial state and every step keep the types.
THEOREM TypeCorrect == Spec => []TypeOK
<1>1. Init => TypeOK
  BY ExecutionAssumption, NoReportType
     DEF Init, TypeOK, Causes, Before, Undecided, Verdict, States
<1>2. TypeOK /\ [Next]_vars => TypeOK'
  <2> SUFFICES ASSUME TypeOK, [Next]_vars
               PROVE  TypeOK'
    OBVIOUS
  <2> USE ExecutionAssumption DEF TypeOK, Causes, Ended, Before, Evaluating, Looping, Over,
          ctxVars, jobVars, callVars
  <2>1. ASSUME NEW why \in Ended, EndParent(why)
        PROVE  TypeOK'
    BY <2>1 DEF EndParent
  <2>2. CASE Propagate \/ ControlDeadline
    BY <2>2 DEF Propagate, ControlDeadline
  <2>3. CASE CommandFails
    <3>1. PICK e \in CommandErrors : Return("none", e)
      BY <2>3 DEF CommandFails
    <3>2. e \in SUBSET Sentinels
      BY DEF CommandErrors, Sentinels
    <3> QED
      BY <2>3, <3>1, <3>2 DEF CommandFails, Return
  <2>16. CASE CallExecute
    BY <2>16 DEF CallExecute
  <2>4. CASE CheckStart \/ Admit \/ NextControl
    BY <2>4, ZenonT(30) DEF CheckStart, Admit, NextControl, Return, Cancelled, Sentinels, States
  <2>5. CASE WriteHeader
    <3>1. CASE Writes(<<"header", 0>>) /\ phase' = "next" /\ UNCHANGED <<state, err>>
      BY <2>5, <3>1, WritesType DEF WriteHeader
    <3>2. CASE WriteFails /\ Return("invocation_error", {"ErrInvocation", "ErrReporting"})
      BY <2>5, <3>2 DEF WriteHeader, WriteFails, Return, Sentinels, States
    <3> QED
      BY <2>5, <3>1, <3>2 DEF WriteHeader
  <2>6. CASE WriteHeading
    <3>1. k \in 0 .. N
      BY <2>6 DEF WriteHeading
    <3>2. CASE Writes(<<"heading", k>>)
      <4>1. Undecided \in [state : States, err : SUBSET Sentinels]
        BY DEF Undecided, Verdict, States
      <4>2. output' \in Seq(Texts)
        BY <3>1, <3>2, WritesType
      <4>3. CASE ReportingFails({})
        BY <2>6, <4>3, ConcludeType, ReportingFailsType DEF WriteHeading, States
      <4> QED
        BY <2>6, <3>2, <4>1, <4>2, <4>3, NoReportType DEF WriteHeading
    <3>3. CASE ReportingFails({})
      BY <2>6, <3>3, ConcludeType, ReportingFailsType DEF WriteHeading, States
    <3> QED
      BY <2>6, <3>2, <3>3 DEF WriteHeading
  <2>7. ASSUME NEW r \in Reports, FinishRun(r)
        PROVE  TypeOK'
    BY <2>7 DEF FinishRun
  <2>8. CASE ClassifyParent
    BY <2>8, ReportType DEF ClassifyParent, Verdict, Cancelled, Sentinels, States
  <2>9. CASE ClassifyControl
    BY <2>9, ReportType DEF ClassifyControl, Verdict, Sentinels, States
  <2>10. CASE MatchOutput
    BY <2>10 DEF MatchOutput, Verdict, Sentinels, States
  <2>11. CASE WriteControlOutput
    <3>1. k \in 0 .. N /\ k <= N /\ verdict.err \in SUBSET Sentinels
      BY <2>11 DEF WriteControlOutput
    <3>2. CASE phase' = "label" /\ UNCHANGED <<k, callVars>>
      <4>1. output' \in Seq(Texts)
        BY <2>11, <3>1, <3>2, WritesType DEF WriteControlOutput, ReportingFails,
           WriteFails
      <4> QED
        BY <2>11, <3>1, <3>2, <4>1 DEF WriteControlOutput
    <3>3. CASE ReportingFails(verdict.err)
      BY <2>11, <3>1, <3>3, ConcludeType, ReportingFailsType DEF WriteControlOutput, States
    <3> QED
      BY <2>11, <3>2, <3>3 DEF WriteControlOutput
  <2>12. CASE WriteLabel
    <3>1. k \in 0 .. N /\ k <= N /\ verdict.state \in States /\ verdict.err \in SUBSET Sentinels
      BY <2>12 DEF WriteLabel
    <3>2. CASE Writes(<<verdict.state, k>>) /\ Conclude(verdict.state, verdict.err)
      BY <2>12, <3>1, <3>2, WritesType, ConcludeType DEF WriteLabel
    <3>3. CASE ReportingFails(verdict.err)
      BY <2>12, <3>1, <3>3, ConcludeType, ReportingFailsType DEF WriteLabel, States
    <3> QED
      BY <2>12, <3>2, <3>3 DEF WriteLabel
  <2>13. CASE WriteSummary
    <3>1. CASE Writes(<<"summary", 0>>) /\ Return("pass", {})
      <4>1. output' \in Seq(Texts)
        BY <3>1, WritesType
      <4> QED
        BY <2>13, <3>1, <4>1 DEF WriteSummary, Return, States
    <3>2. CASE WriteFails /\ Return("invocation_error", {"ErrInvocation", "ErrReporting"})
      BY <2>13, <3>2 DEF WriteSummary, WriteFails, Return, Sentinels, States
    <3> QED
      BY <2>13, <3>1, <3>2 DEF WriteSummary
  <2>14. CASE Exit
    BY <2>14 DEF Exit, ExitFor
  <2>15. CASE UNCHANGED vars
    BY <2>15 DEF vars
  <2> QED
    BY <2>1, <2>2, <2>3, <2>4, <2>5, <2>6, <2>7, <2>8, <2>9, <2>10, <2>11, <2>12, <2>13,
       <2>14, <2>15, <2>16 DEF Next, Call, Exited
<1> QED
  BY <1>1, <1>2, PTL DEF Spec
-----------------------------------------------------------------------------
(* The transcript *)

\* What has been written stays, in the same order, when more is.
LEMMA OutputGrows ==
    ASSUME TypeOK, output' = output \/ \E text \in Texts : output' = Append(output, text)
    PROVE  /\ \A a : At(a) # {} => At(a)' # {}
           /\ \A a, b : Precedes(a, b) => Precedes(a, b)'
<1>1. output \in Seq(Texts)
  BY DEF TypeOK
<1>2. DOMAIN output \subseteq DOMAIN output' /\ \A i \in DOMAIN output : output'[i] = output[i]
  BY <1>1
<1>3. \A a : At(a) \subseteq At(a)'
  BY <1>2 DEF At
<1> QED
  BY <1>3 DEF Precedes

\* A text that is written comes after every text before it.
LEMMA LastWritten ==
    ASSUME TypeOK, NEW text \in Texts, output' = Append(output, text)
    PROVE  /\ At(text)' # {}
           /\ \A a : At(a) # {} => Precedes(a, text)'
<1>1. output \in Seq(Texts)
  BY DEF TypeOK
<1> DEFINE last == Len(output) + 1
<1>2. /\ last \in DOMAIN output' /\ output'[last] = text
      /\ \A i \in DOMAIN output : i \in DOMAIN output' /\ output'[i] = output[i] /\ i < last
  BY <1>1
<1>3. last \in At(text)'
  BY <1>2 DEF At
<1>4. ASSUME NEW a, At(a) # {}
      PROVE  Precedes(a, text)'
  <2>1. PICK i \in DOMAIN output : output[i] = a
    BY <1>4 DEF At
  <2>2. i \in At(a)' /\ i < last
    BY <1>2, <2>1 DEF At
  <2> QED
    BY <1>3, <2>2 DEF Precedes
<1> QED
  BY <1>3, <1>4

\* What control i has written stays written.
LEMMA WrittenStays ==
    ASSUME TypeOK, output' = output \/ \E text \in Texts : output' = Append(output, text),
           NEW i
    PROVE  /\ Headed(i) => Headed(i)'
           /\ Written(i) => Written(i)'
BY OutputGrows DEF Headed, Written

-----------------------------------------------------------------------------
(* The inductive invariant *)

LEMMA InitIInv == Init => IInv
<1> SUFFICES ASSUME Init PROVE IInv
  OBVIOUS
<1> USE ExecutionAssumption DEF Init, Before, Evaluating, Looping, Over
<1>1. Progress /\ Outcome /\ VerdictOK /\ ErrorOK /\ ExitOK /\ OutputOK
  BY DEF Progress, Outcome, VerdictOK, ErrorOK, ExitOK, OutputOK
<1>2. ReportOK
  BY NoReportType DEF ReportOK
<1> QED
  BY <1>1, <1>2 DEF IInv

\* The contexts end, and nothing else happens.
LEMMA EnvironmentIInv ==
    ASSUME TypeOK, IInv,
           (\E why \in Ended : EndParent(why)) \/ Propagate \/ ControlDeadline \/ UNCHANGED vars
    PROVE  IInv'
<1>1. /\ UNCHANGED <<phase, k, report, verdict, results, state, err, output, exit>>
      /\ parent # "live" => parent' = parent
      /\ control # "live" => control' = control
      /\ control' = "canceled" => control = "canceled" \/ parent = "canceled"
  BY DEF EndParent, Propagate, ControlDeadline, vars, ctxVars, jobVars, callVars, TypeOK,
     Causes, Ended
<1>2. Progress' /\ Outcome' /\ ExitOK'
  BY <1>1 DEF Progress, Outcome, ExitOK, IInv
<1>3. ReportOK'
  BY <1>1 DEF ReportOK, IInv, CleanupFailed
<1>4. VerdictOK' /\ ErrorOK'
  BY <1>1 DEF VerdictOK, ErrorOK, IInv, Explained, Earned, CleanupFailed
<1>5. OutputOK'
  <2>1. \A i : (Headed(i) => Headed(i)') /\ (Written(i) => Written(i)')
    BY <1>1, WrittenStays
  <2>2. \A a, b : (Precedes(a, b) => Precedes(a, b)') /\ (At(a) # {} => At(a)' # {})
    BY <1>1, OutputGrows
  <2> QED
    BY <1>1, <2>1, <2>2 DEF OutputOK, IInv, Headed
<1> QED
  BY <1>2, <1>3, <1>4, <1>5 DEF IInv

\* The run returns from outside a control, with a state its error explains.
LEMMA ReturnIInv ==
    ASSUME TypeOK, IInv,
           phase \in Before \union {"next", "summary"},
           NEW s \in States \union {"none"}, NEW e, Return(s, e), Explained(s, e),
           UNCHANGED <<ctxVars, jobVars, results, exit>>,
           output' = output \/ \E text \in Texts : output' = Append(output, text),
           s = "pass" => phase = "summary" /\ output' = Append(output, <<"summary", 0>>)
    PROVE  IInv'
<1>1. /\ UNCHANGED <<parent, control, k, report, verdict, results, exit>>
      /\ phase' = "returned" /\ state' = s /\ err' = e
  BY DEF Return, ctxVars, jobVars
<1>2. Progress' /\ VerdictOK' /\ ExitOK'
  BY <1>1 DEF Progress, VerdictOK, ExitOK, IInv, Before, Looping, Evaluating, Over
<1>3. Outcome'
  <2>1. \A i \in DOMAIN results : results[i] = "pass"
    BY DEF Progress, IInv, Before, Looping
  <2>2. s = "pass" => Len(results) = N
    BY ExecutionAssumption DEF Progress, IInv
  <2> QED
    BY <1>1, <2>1, <2>2 DEF Outcome, Over, Explained
<1>4. ReportOK'
  BY <1>1 DEF ReportOK, IInv, CleanupFailed, Before
<1>5. ErrorOK'
  <2>1. ~CleanupFailed(report)
    BY DEF ReportOK, IInv
  <2> QED
    BY <1>1, <2>1 DEF ErrorOK, Explained, CleanupFailed
<1>6. OutputOK'
  <2>1. ASSUME s = "pass", NEW i \in 1 .. N
        PROVE  (Written(i) /\ Precedes(<<"pass", i>>, <<"summary", 0>>))'
    <3>1. Written(i) /\ At(<<"pass", i>>) # {}
      BY <2>1, ExecutionAssumption DEF OutputOK, Progress, IInv, Written, Precedes
    <3>2. <<"summary", 0>> \in Texts
      BY <2>1, ExecutionAssumption DEF Texts
    <3>3. Precedes(<<"pass", i>>, <<"summary", 0>>)'
      BY <2>1, <3>1, <3>2, LastWritten
    <3> QED
      BY <3>1, <3>3, WrittenStays
  <2> QED
    BY <1>1, <2>1 DEF OutputOK, Looping, Evaluating, Over
<1> QED
  BY <1>2, <1>3, <1>4, <1>5, <1>6 DEF IInv

\* The result of a control is appended: a pass goes on to the next control, and
\* anything else ends the run with the error that explains it.
LEMMA ConcludeIInv ==
    ASSUME TypeOK, IInv,
           phase \in {"heading", "output", "label"},
           NEW s \in States, NEW e \in SUBSET Sentinels, Conclude(s, e), Explained(s, e),
           UNCHANGED <<ctxVars, report, verdict, exit>>,
           CleanupFailed(report) => "proctree.ErrCleanup" \in e,
           output' = output \/ \E text \in Texts : output' = Append(output, text),
           NEW c \in 1 .. N, c = k,
           s = "pass" => Earned /\ Written(c)'
    PROVE  IInv'
<1>1. /\ UNCHANGED <<parent, control, report, verdict, exit>>
      /\ k \in 1 .. N /\ N \in Nat
  BY ExecutionAssumption DEF ctxVars, TypeOK, Evaluating
<1>2. results' = Append(results, s) /\ results \in Seq(States)
  BY DEF Conclude, TypeOK
<1>3. Len(results) = k - 1 /\ \A i \in DOMAIN results : results[i] = "pass"
  BY DEF Progress, IInv, Looping, Evaluating
<1>4. /\ s = "pass" => phase' = "next" /\ k' = k + 1 /\ UNCHANGED <<state, err>>
      /\ s # "pass" => phase' = "returned" /\ k' = k /\ state' = s /\ err' = e
  BY DEF Conclude, Explained, Return
<1>5. /\ Len(results') = k /\ DOMAIN results' = 1 .. k
      /\ \A i \in DOMAIN results' : results'[i] = IF i = k THEN s ELSE "pass"
  BY <1>1, <1>2, <1>3
<1>6. Progress' /\ Outcome'
  BY <1>1, <1>4, <1>5 DEF Progress, Outcome, IInv, Looping, Evaluating, Before, Over, Explained
<1>7. VerdictOK' /\ ExitOK'
  BY <1>1, <1>4 DEF VerdictOK, ExitOK, IInv
<1>8. ReportOK' /\ ErrorOK'
  BY <1>1, <1>4 DEF ReportOK, ErrorOK, IInv, CleanupFailed, Earned, Before, Explained, Over
<1>9. OutputOK'
  <2>1. At(<<"header", 0>>)' # {} /\ \A i \in 1 .. k - 1 : Written(i)'
    BY OutputGrows, WrittenStays DEF OutputOK, IInv, Looping, Evaluating
  <2>2. s = "pass" => \A i \in 1 .. k : Written(i)'
    BY <1>1, <2>1
  <2> QED
    BY <1>1, <1>4, <2>1, <2>2 DEF OutputOK, Looping, Evaluating, Over
<1> QED
  BY <1>6, <1>7, <1>8, <1>9 DEF IInv

\* A report that cannot be written ends the run whatever the control came to.
LEMMA ReportingFailsIInv ==
    ASSUME TypeOK, IInv,
           phase \in {"heading", "output", "label"},
           NEW e \in SUBSET Sentinels, ReportingFails(e),
           UNCHANGED <<ctxVars, report, verdict, exit>>,
           e \intersect {"ErrCancelled", "canceled"} # {} => parent # "live",
           CleanupFailed(report) => "proctree.ErrCleanup" \in e
    PROVE  IInv'
<1> DEFINE s == "invocation_error"
           f == {"ErrInvocation", "ErrReporting"} \union e
<1>1. f \in SUBSET Sentinels /\ Conclude(s, f) /\ output' = output
  BY ReportingFailsType
<1>2. k \in 1 .. N
  BY DEF TypeOK, Evaluating
<1>3. Explained(s, f) /\ s \in States /\ s # "pass"
  BY DEF Explained, States
<1>4. CleanupFailed(report) => "proctree.ErrCleanup" \in f
  OBVIOUS
<1> HIDE DEF s, f
<1> QED
  BY <1>1, <1>2, <1>3, <1>4, ConcludeIInv

\* Between its controls the run moves on and changes nothing else.
LEMMA MovesOnIInv ==
    ASSUME TypeOK, IInv,
           UNCHANGED <<ctxVars, jobVars, callVars, output, exit>>,
           \/ phase \in Before /\ phase' \in Before
           \/ phase = "next" /\ phase' = "heading"
           \/ phase = "next" /\ phase' = "summary" /\ k = N + 1
    PROVE  IInv'
<1>1. UNCHANGED <<parent, control, k, report, verdict, results, state, err, output, exit>>
  BY DEF ctxVars, jobVars, callVars
<1> USE DEF Before, Looping, Evaluating, Over
<1>2. Progress' /\ Outcome' /\ ExitOK' /\ VerdictOK' /\ ErrorOK'
  BY <1>1 DEF Progress, Outcome, ExitOK, VerdictOK, ErrorOK, IInv
<1>3. ReportOK'
  BY <1>1 DEF ReportOK, IInv, CleanupFailed
<1>4. OutputOK'
  <2>1. \A i : Written(i) => Written(i)'
    BY <1>1, WrittenStays
  <2>2. \A a : At(a) # {} => At(a)' # {}
    BY <1>1, OutputGrows
  <2> QED
    BY <1>1, <2>1, <2>2 DEF OutputOK, IInv
<1> QED
  BY <1>2, <1>3, <1>4 DEF IInv

\* The rest of Execute before and after its controls.
LEMMA CallIInv ==
    ASSUME TypeOK, IInv,
           CommandFails \/ CallExecute \/ CheckStart \/ Admit \/ WriteHeader \/ NextControl
             \/ WriteSummary
    PROVE  IInv'
<1>1. CASE CommandFails
  <2>1. PICK e \in CommandErrors : Return("none", e)
    BY <1>1 DEF CommandFails
  <2>2. Explained("none", e)
    BY DEF Explained, CommandErrors, Ended
  <2> QED
    BY <1>1, <2>1, <2>2, ReturnIInv DEF CommandFails, Before
<1>2. CASE CheckStart
  <2>1. CASE Return("invocation_error", {"ErrInvocation"})
    BY <1>2, <2>1, ReturnIInv DEF CheckStart, Before, States, Explained
  <2>2. CASE parent # "live" /\ Return("cancelled", Cancelled)
    BY <1>2, <2>2, ReturnIInv DEF CheckStart, Before, States, Explained, Cancelled, TypeOK,
       Causes, Ended
  <2>3. CASE parent = "live" /\ phase' = "admit" /\ UNCHANGED <<state, err>>
    BY <1>2, <2>3, MovesOnIInv DEF CheckStart, Before, callVars
  <2> QED
    BY <1>2, <2>1, <2>2, <2>3 DEF CheckStart
<1>3. CASE Admit
  <2>1. CASE parent # "live" /\ Return("cancelled", Cancelled)
    BY <1>3, <2>1, ReturnIInv DEF Admit, Before, States, Explained, Cancelled, TypeOK,
       Causes, Ended
  <2>2. CASE Return("invocation_error", {"ErrInvalidPlan"})
    BY <1>3, <2>2, ReturnIInv DEF Admit, Before, States, Explained
  <2>3. CASE Return("invocation_error", {"ErrInvocation", "ErrInvalidPlan"})
    BY <1>3, <2>3, ReturnIInv DEF Admit, Before, States, Explained
  <2>4. CASE phase' = "header" /\ UNCHANGED <<state, err>>
    BY <1>3, <2>4, MovesOnIInv DEF Admit, Before, callVars
  <2> QED
    BY <1>3, <2>1, <2>2, <2>3, <2>4 DEF Admit
<1>4. CASE WriteHeader
  <2>1. CASE WriteFails /\ Return("invocation_error", {"ErrInvocation", "ErrReporting"})
    BY <1>4, <2>1, ReturnIInv DEF WriteHeader, WriteFails, Before, States, Explained
  <2>2. CASE Writes(<<"header", 0>>) /\ phase' = "next" /\ UNCHANGED <<state, err>>
    <3>1. UNCHANGED <<parent, control, k, report, verdict, results, state, err, exit>>
      BY <1>4, <2>2 DEF WriteHeader, ctxVars, jobVars
    <3>2. phase = "header" /\ phase' = "next" /\ k = 1 /\ results = <<>>
      BY <1>4, <2>2 DEF WriteHeader, Progress, IInv, Before
    <3> USE DEF Before, Looping, Evaluating, Over
    <3>3. Progress' /\ Outcome' /\ VerdictOK' /\ ErrorOK' /\ ExitOK'
      BY <3>1, <3>2 DEF Progress, Outcome, VerdictOK, ErrorOK, ExitOK, IInv
    <3>4. ReportOK'
      BY <3>1, <3>2 DEF ReportOK, IInv, CleanupFailed
    <3>5. At(<<"header", 0>>)' # {}
      <4>1. <<"header", 0>> \in Texts
        BY ExecutionAssumption DEF Texts
      <4> QED
        BY <2>2, <4>1, LastWritten DEF Writes
    <3>6. OutputOK'
      BY <3>1, <3>2, <3>5 DEF OutputOK
    <3> QED
      BY <3>3, <3>4, <3>6 DEF IInv
  <2> QED
    BY <1>4, <2>1, <2>2 DEF WriteHeader
<1>5. CASE NextControl
  <2>1. CASE parent # "live"
    BY <1>5, <2>1, ReturnIInv DEF NextControl, States, Explained, Cancelled, TypeOK,
       Causes, Ended
  <2>2. CASE parent = "live"
    <3>1. k <= N \/ k = N + 1
      BY ExecutionAssumption DEF TypeOK
    <3> QED
      BY <1>5, <2>2, <3>1, ExecutionAssumption, MovesOnIInv DEF NextControl, callVars
  <2> QED
    BY <2>1, <2>2
<1>6. CASE WriteSummary
  <2>1. <<"summary", 0>> \in Texts
    BY ExecutionAssumption DEF Texts
  <2>2. CASE Writes(<<"summary", 0>>) /\ Return("pass", {})
    BY <1>6, <2>1, <2>2, ReturnIInv DEF WriteSummary, Writes, States, Explained
  <2>3. CASE WriteFails /\ Return("invocation_error", {"ErrInvocation", "ErrReporting"})
    BY <1>6, <2>3, ReturnIInv DEF WriteSummary, WriteFails, States, Explained
  <2> QED
    BY <1>6, <2>2, <2>3 DEF WriteSummary
<1>7. CASE CallExecute
  BY <1>7, MovesOnIInv DEF CallExecute, Before
<1> QED
  BY <1>1, <1>2, <1>3, <1>4, <1>5, <1>6, <1>7

\* Within a control only what the step decides can change: the report and the
\* verdict it decides must be in order, and what was written stays.
LEMMA EvaluatingIInv ==
    ASSUME TypeOK, IInv,
           phase \in {"run", "classify", "deadline", "match", "output"},
           phase' \in Evaluating \ {"run"},
           UNCHANGED <<ctxVars, k, callVars, exit>>,
           ReportOK', VerdictOK',
           output' = output \/ \E text \in Texts : output' = Append(output, text),
           phase' = "label" /\ k \in Showing => At(<<"output", k>>)' # {}
    PROVE  IInv'
<1>1. UNCHANGED <<parent, control, k, results, state, err, exit>>
  BY DEF ctxVars, callVars
<1> USE DEF Before, Looping, Evaluating, Over
<1>2. Progress' /\ Outcome' /\ ErrorOK' /\ ExitOK'
  BY <1>1 DEF Progress, Outcome, ErrorOK, ExitOK, IInv
<1>3. OutputOK'
  <2>1. \A i : (Headed(i) => Headed(i)') /\ (Written(i) => Written(i)')
    BY WrittenStays
  <2>2. At(<<"header", 0>>)' # {}
    BY OutputGrows DEF OutputOK, IInv
  <2> QED
    BY <1>1, <2>1, <2>2 DEF OutputOK, IInv, Headed
<1> QED
  BY <1>2, <1>3 DEF IInv

\* A control is introduced, and its report is not its predecessor's.
LEMMA WriteHeadingIInv ==
    ASSUME TypeOK, IInv, WriteHeading
    PROVE  IInv'
<1>1. CASE ReportingFails({})
  <2>1. ~CleanupFailed(report)
    BY DEF WriteHeading, ReportOK, IInv
  <2>2. UNCHANGED <<ctxVars, report, verdict, exit>>
    <3>1. phase' \in {"returned", "next"}
      BY <1>1 DEF ReportingFails, Conclude, Return
    <3> QED
      BY <1>1, <3>1 DEF WriteHeading, ctxVars
  <2> QED
    BY <1>1, <2>1, <2>2, ReportingFailsIInv DEF WriteHeading
<1>2. CASE Writes(<<"heading", k>>) /\ phase' = "run"
  <2>1. /\ phase = "heading" /\ phase' = "run"
        /\ control' = parent /\ parent' = parent
        /\ report' = NoReport /\ verdict' = Undecided
        /\ UNCHANGED <<k, results, state, err, exit>>
    BY <1>2 DEF WriteHeading, callVars, ReportingFails, Conclude, Return
  <2> USE DEF Before, Looping, Evaluating, Over
  <2>2. Progress' /\ Outcome' /\ VerdictOK' /\ ErrorOK' /\ ExitOK'
    BY <2>1 DEF Progress, Outcome, VerdictOK, ErrorOK, ExitOK, IInv
  <2>3. ReportOK'
    BY <2>1, NoReportType DEF ReportOK, CleanupFailed
  <2>4. OutputOK'
    <3>1. PICK c \in 1 .. N : c = k
      BY <2>1 DEF TypeOK
    <3>2. <<"heading", c>> \in Texts /\ output' = Append(output, <<"heading", c>>)
      BY <1>2, <3>1 DEF Texts, Writes
    <3>3. At(<<"header", 0>>) # {} /\ (c > 1 => At(<<"pass", c - 1>>) # {})
      <4>1. At(<<"header", 0>>) # {} /\ \A i \in 1 .. k - 1 : Written(i)
        BY <2>1 DEF OutputOK, IInv
      <4>2. c > 1 => Written(c - 1)
        BY <3>1, <4>1
      <4> QED
        BY <4>1, <4>2 DEF Written, Precedes
    <3>4. Headed(c)'
      BY <3>2, <3>3, LastWritten DEF Headed
    <3>5. At(<<"header", 0>>)' # {} /\ \A i \in 1 .. k - 1 : Written(i)'
      BY <2>1, <3>2, OutputGrows, WrittenStays DEF OutputOK, IInv
    <3> QED
      BY <2>1, <3>1, <3>4, <3>5 DEF OutputOK, Headed
  <2> QED
    BY <2>2, <2>3, <2>4 DEF IInv
<1> QED
  BY <1>1, <1>2 DEF WriteHeading

\* The process ends; what it reports is not yet judged.
LEMMA FinishRunIInv ==
    ASSUME TypeOK, IInv, NEW r \in Reports, FinishRun(r)
    PROVE  IInv'
<1>1. /\ phase = "run" /\ phase' = "classify" /\ report' = r
      /\ r.err \intersect Ended \subseteq {control}
      /\ UNCHANGED <<ctxVars, k, verdict, callVars, output, exit>>
  BY DEF FinishRun
<1>2. ReportOK'
  BY <1>1 DEF ReportOK, IInv, Before, Ended, ctxVars
<1>3. VerdictOK'
  BY <1>1 DEF VerdictOK
<1> QED
  BY <1>1, <1>2, <1>3, EvaluatingIInv DEF Evaluating

\* The outcome is classified, by what the report says before anything else.
LEMMA ClassifyIInv ==
    ASSUME TypeOK, IInv, ClassifyParent \/ ClassifyControl
    PROVE  IInv'
<1>1. report \in Reports /\ parent \in Causes /\ control \in Causes
  BY DEF TypeOK
<1>2. CASE ClassifyParent
  <2>1. /\ phase = "classify" /\ phase' \in {"match", "deadline"}
        /\ UNCHANGED <<ctxVars, k, report, callVars, output, exit>>
    BY <1>2 DEF ClassifyParent
  <2>2. ReportOK'
    BY <1>2, <2>1 DEF ClassifyParent, ReportOK, IInv, CleanupFailed, Before, ctxVars
  <2>3. VerdictOK'
    <3>1. CASE phase' = "match"
      <4>1. /\ Explained(verdict'.state, verdict'.err)
            /\ CleanupFailed(report) => "proctree.ErrCleanup" \in verdict'.err
            /\ verdict'.state # "pass"
        <5>1. /\ report.err \intersect {"ErrCancelled", "ErrUnavailable", "ErrReporting"} = {}
              /\ "canceled" \in report.err => parent # "live"
          BY <1>1, <2>1, ReportType DEF ReportOK, IInv
        <5>2. CASE verdict' = Verdict("fail", {"ErrFailed", "proctree.ErrCleanup"} \union report.err)
          BY <5>1, <5>2 DEF Verdict, Explained
        <5>3. CASE /\ ~CleanupFailed(report)
                   /\ verdict' = Verdict("unavailable", {"ErrUnavailable"} \union report.err)
          BY <5>1, <5>3 DEF Verdict, Explained, CleanupFailed
        <5>4. CASE /\ ~CleanupFailed(report) /\ parent # "live"
                   /\ verdict' = Verdict("cancelled", Cancelled \union report.err)
          BY <1>1, <5>1, <5>4 DEF Verdict, Explained, CleanupFailed, Cancelled, Causes, Ended
        <5> QED
          BY <1>2, <3>1, <5>2, <5>3, <5>4 DEF ClassifyParent, CleanupFailed
      <4> QED
        BY <2>1, <3>1, <4>1 DEF VerdictOK, Explained, CleanupFailed, ctxVars
    <3>2. CASE phase' # "match"
      BY <2>1, <3>2 DEF VerdictOK
    <3> QED
      BY <3>1, <3>2
  <2> QED
    BY <2>1, <2>2, <2>3, EvaluatingIInv DEF Evaluating
<1>3. CASE ClassifyControl
  <2>1. /\ phase = "deadline" /\ phase' = "match"
        /\ UNCHANGED <<ctxVars, k, report, callVars, output, exit>>
    BY <1>3 DEF ClassifyControl
  <2>2. ReportOK'
    BY <2>1 DEF ReportOK, IInv, CleanupFailed, Before, ctxVars
  <2>3. /\ ~CleanupFailed(report) /\ "proctree.ErrUnsupported" \notin report.err
        /\ report.err \intersect Ended # {} => control # "live"
        /\ "canceled" \in report.err => parent # "live"
        /\ control = "canceled" => parent # "live"
    BY <2>1 DEF ReportOK, IInv
  <2>4. control = "live" => report.err \in {{}, {"other"}}
    BY <1>1, <2>3, ReportType DEF CleanupFailed
  <2>5. /\ Explained(verdict'.state, verdict'.err)
        /\ verdict'.state = "pass" => Earned
    <3>1. report.err \intersect {"ErrCancelled", "ErrUnavailable", "ErrReporting"} = {}
      BY <1>1, ReportType
    <3>2. CASE control # "live"
      <4>1. verdict' = Verdict("fail", {"ErrFailed", control} \union report.err)
        BY <1>3, <3>2 DEF ClassifyControl
      <4>2. /\ "ErrFailed" \in verdict'.err /\ verdict'.state = "fail"
            /\ verdict'.err \intersect {"ErrCancelled", "canceled"} # {} => parent # "live"
        BY <1>1, <2>3, <3>1, <4>1 DEF Verdict, Causes, Ended
      <4> QED
        BY <4>2 DEF Explained
    <3>3. CASE control = "live"
      BY <1>3, <2>3, <2>4, <3>1, <3>3
         DEF ClassifyControl, Verdict, Explained, Earned, Successful
    <3> QED
      BY <3>2, <3>3
  <2>6. VerdictOK'
    BY <2>1, <2>3, <2>5 DEF VerdictOK, Explained, Earned, CleanupFailed, ctxVars
  <2> QED
    BY <2>1, <2>2, <2>6, EvaluatingIInv DEF Evaluating
<1> QED
  BY <1>2, <1>3

\* The output is compared and shown, and neither makes a control pass.
LEMMA ConclusionIInv ==
    ASSUME TypeOK, IInv, MatchOutput \/ WriteControlOutput \/ WriteLabel
    PROVE  IInv'
<1>1. /\ verdict.state \in States /\ verdict.err \in SUBSET Sentinels
      /\ phase \in {"match", "output", "label"} => k \in 1 .. N
  BY DEF TypeOK, Evaluating
<1>2. CASE MatchOutput
  <2>1. /\ phase = "match" /\ phase' = "output"
        /\ UNCHANGED <<ctxVars, k, report, callVars, output, exit>>
    BY <1>2 DEF MatchOutput
  <2>2. ReportOK'
    BY <2>1 DEF ReportOK, IInv, CleanupFailed, Before, ctxVars
  <2>3. /\ Explained(verdict.state, verdict.err)
        /\ CleanupFailed(report) => "proctree.ErrCleanup" \in verdict.err
        /\ verdict.state = "pass" => Earned
    BY <2>1 DEF VerdictOK, IInv
  <2>4. /\ Explained(verdict'.state, verdict'.err)
        /\ verdict'.state = "pass" => verdict.state = "pass" /\ (k \in Expecting => report.matches)
        /\ CleanupFailed(report) => "proctree.ErrCleanup" \in verdict'.err
    BY <1>1, <1>2, <2>3 DEF MatchOutput, Verdict, Explained, Earned, CleanupFailed
  <2>5. VerdictOK'
    BY <2>1, <2>3, <2>4 DEF VerdictOK, Explained, Earned, CleanupFailed, ctxVars
  <2> QED
    BY <2>1, <2>2, <2>5, EvaluatingIInv DEF Evaluating
<1>3. CASE WriteControlOutput
  <2>1. /\ phase = "output" /\ k \in 1 .. N
        /\ UNCHANGED <<ctxVars, report, verdict, exit>>
    BY <1>1, <1>3 DEF WriteControlOutput
  <2>2. CASE ReportingFails(verdict.err)
    BY <1>1, <2>1, <2>2, ReportingFailsIInv DEF VerdictOK, IInv, Explained
  <2>3. CASE ~ReportingFails(verdict.err)
    <3>1. /\ phase' = "label" /\ UNCHANGED <<k, callVars>>
          /\ \/ output' = output /\ k \notin Showing
             \/ output' = Append(output, <<"output", k>>)
      BY <1>3, <2>3 DEF WriteControlOutput, Writes
    <3>2. ReportOK'
      BY <2>1, <3>1 DEF ReportOK, IInv, CleanupFailed, Before, ctxVars
    <3>3. VerdictOK'
      BY <2>1, <3>1 DEF VerdictOK, IInv, Explained, Earned, CleanupFailed, ctxVars
    <3>4. PICK c \in 1 .. N : c = k /\ <<"output", c>> \in Texts
      BY <2>1 DEF Texts
    <3>5. k \in Showing => At(<<"output", c>>)' # {}
      BY <3>1, <3>4, LastWritten
    <3>6. k \in Showing => At(<<"output", k>>)' # {}
      BY <3>1, <3>4, <3>5
    <3> QED
      BY <2>1, <3>1, <3>2, <3>3, <3>4, <3>6, EvaluatingIInv DEF Evaluating
  <2> QED
    BY <2>2, <2>3
<1>4. CASE WriteLabel
  <2>1. /\ phase = "label" /\ k \in 1 .. N
        /\ UNCHANGED <<ctxVars, report, verdict, exit>>
    BY <1>1, <1>4 DEF WriteLabel
  <2>2. CASE ReportingFails(verdict.err)
    BY <1>1, <2>1, <2>2, ReportingFailsIInv DEF VerdictOK, IInv, Explained
  <2>3. CASE Writes(<<verdict.state, k>>) /\ Conclude(verdict.state, verdict.err)
    <3>1. PICK c \in 1 .. N : c = k
      BY <2>1
    <3>5. <<verdict.state, c>> \in Texts
      BY <1>1 DEF Texts
    <3>2. PICK text \in Texts : text = <<verdict.state, c>> /\ output' = Append(output, text)
      BY <2>3, <3>1, <3>5 DEF Writes
    <3>3. ASSUME verdict.state = "pass"
          PROVE  Earned /\ Written(c)'
      <4>1. /\ Headed(c) /\ At(<<"heading", c>>) # {}
            /\ c \in Showing => At(<<"output", c>>) # {}
        BY <2>1, <3>1 DEF OutputOK, IInv, Evaluating, Headed, Precedes
      <4>2. text = <<"pass", c>>
        BY <3>2, <3>3
      <4>3. Precedes(<<"heading", c>>, <<"pass", c>>)'
              /\ (c \in Showing => Precedes(<<"output", c>>, <<"pass", c>>)')
        BY <3>2, <4>1, <4>2, LastWritten
      <4>4. Written(c)'
        BY <3>2, <4>1, <4>3, WrittenStays DEF Written
      <4> QED
        BY <2>1, <3>3, <4>4 DEF VerdictOK, IInv
    <3>4. Explained(verdict.state, verdict.err)
            /\ (CleanupFailed(report) => "proctree.ErrCleanup" \in verdict.err)
      BY <2>1 DEF VerdictOK, IInv
    <3> QED
      BY <1>1, <2>1, <2>3, <3>1, <3>2, <3>3, <3>4, ConcludeIInv
  <2> QED
    BY <1>4, <2>2, <2>3 DEF WriteLabel
<1> QED
  BY <1>2, <1>3, <1>4

\* The command turns the error into its exit status.
LEMMA ExitIInv ==
    ASSUME TypeOK, IInv, Exit
    PROVE  IInv'
<1>1. /\ phase = "returned" /\ phase' = "exited"
      /\ UNCHANGED <<parent, control, k, report, verdict, results, state, err, output>>
  BY DEF Exit, ctxVars, jobVars, callVars
<1> USE DEF Before, Looping, Evaluating, Over
<1>2. Progress' /\ Outcome' /\ VerdictOK' /\ ErrorOK'
  BY <1>1 DEF Progress, Outcome, VerdictOK, ErrorOK, IInv, Explained, CleanupFailed
<1>3. ReportOK'
  BY <1>1 DEF ReportOK, IInv, CleanupFailed
<1>4. ExitOK'
  BY <1>1 DEF Exit, ExitOK, ExitFor
<1>5. OutputOK'
  <2>1. \A i : Written(i) => Written(i)'
    BY <1>1, WrittenStays
  <2>2. \A a, b : Precedes(a, b) => Precedes(a, b)'
    BY <1>1, OutputGrows
  <2> QED
    BY <1>1, <2>1, <2>2 DEF OutputOK, IInv
<1> QED
  BY <1>2, <1>3, <1>4, <1>5 DEF IInv

\* The inductive invariant holds of every behaviour.
THEOREM Invariance == Spec => []IInv
<1>1. TypeOK /\ IInv /\ [Next]_vars => IInv'
  BY EnvironmentIInv, CallIInv, WriteHeadingIInv, FinishRunIInv, ClassifyIInv, ConclusionIInv,
     ExitIInv DEF Next, Call, Exited
<1> QED
  BY <1>1, InitIInv, TypeCorrect, PTL DEF Spec

-----------------------------------------------------------------------------
(* What a profile run guarantees *)

\* A run that passes has passed every control and shown all of it, in order.
THEOREM PassesAreComplete == Spec => []PassIsComplete
<1>1. TypeOK /\ IInv => PassIsComplete
  <2> SUFFICES ASSUME TypeOK, IInv, Ran, state = "pass"
               PROVE  /\ results = [i \in 1 .. N |-> "pass"]
                      /\ \A i \in 1 .. N : Written(i) /\ Precedes(<<"pass", i>>, <<"summary", 0>>)
    BY DEF PassIsComplete, Written, Headed
  <2>1. results \in Seq(States) /\ Len(results) = N
    BY DEF TypeOK, Outcome, IInv, Ran, Over
  <2>2. \A i \in DOMAIN results : results[i] = "pass"
    BY DEF Outcome, IInv, Ran, Over
  <2>3. results = [i \in 1 .. N |-> "pass"]
    BY <2>1, <2>2
  <2> QED
    BY <2>3 DEF OutputOK, IInv, Ran, Over
<1> QED
  BY <1>1, TypeCorrect, Invariance, PTL

\* The first control that does not pass ends the run and gives it its state.
THEOREM FirstFailureDecides == Spec => []FirstNonPassStops
<1>1. TypeOK /\ IInv => FirstNonPassStops
  BY DEF FirstNonPassStops, TypeOK, IInv, Progress, Outcome, Ran, Before, Over
<1> QED
  BY <1>1, TypeCorrect, Invariance, PTL

\* A cleanup failure is in the error and in the exit status, whatever follows it.
THEOREM CleanupFailuresSurvive == Spec => []CleanupIsReported
<1>1. IInv => CleanupIsReported
  BY DEF CleanupIsReported, IInv, ErrorOK, ExitOK, ExitFor, Over
<1> QED
  BY <1>1, Invariance, PTL

\* The exit status says what happened.
THEOREM ExitStatusExplains == Spec => []ExitExplainsState
<1>1. IInv => ExitExplainsState
  <2> SUFFICES ASSUME IInv, phase = "exited"
               PROVE  ExitExplainsState
    BY DEF ExitExplainsState
  <2>1. Explained(state, err)
    BY DEF ErrorOK, IInv, Over
  <2>2. \/ err = {} /\ exit = 0
        \/ err # {} /\ exit = 2
        \/ err # {} /\ "ErrReporting" \notin err /\ exit = ExitFor(err)
    BY DEF ExitOK, IInv
  <2> QED
    BY <2>1, <2>2 DEF ExitExplainsState, Explained, ExitFor
<1> QED
  BY <1>1, Invariance, PTL

\* No control is recorded as passed that has not earned it.
THEOREM PassesAreEarned == Spec => PassIsEarned
<1>1. ASSUME TypeOK, IInv, [Next]_vars, results' # results, results'[Len(results')] = "pass"
      PROVE  /\ report.started /\ report.zero /\ report.err = {}
             /\ report.outcome = "completed"
             /\ k \in Expecting => report.matches
             /\ k \in Showing => At(<<"output", k>>) # {}
  <2>1. results \in Seq(States) /\ verdict.state \in States
    BY <1>1 DEF TypeOK
  <2>2. WriteHeading \/ WriteControlOutput \/ WriteLabel
    BY <1>1 DEF Next, Call, Exited, EndParent, Propagate, ControlDeadline, CommandFails,
       CallExecute, CheckStart, Admit, WriteHeader, NextControl, FinishRun, ClassifyParent,
       ClassifyControl, MatchOutput, WriteSummary, Exit, vars, callVars
  <2>3. ~ReportingFails({}) /\ ~ReportingFails(verdict.err)
    BY <1>1, <2>1 DEF ReportingFails, Conclude
  <2>4. WriteLabel /\ Conclude(verdict.state, verdict.err)
    BY <1>1, <2>2, <2>3 DEF WriteHeading, WriteControlOutput, WriteLabel, callVars
  <2>5. phase = "label" /\ verdict.state = "pass"
    BY <1>1, <2>1, <2>4 DEF WriteLabel, Conclude
  <2> QED
    BY <1>1, <2>5 DEF VerdictOK, OutputOK, IInv, Earned
<1> QED
  BY <1>1, TypeCorrect, Invariance, PTL DEF Spec, PassIsEarned

\* Once the caller has cancelled before the run's last look, it does not pass.
THEOREM CancellationsAreSeen == Spec => CancellationIsSeen
<1> DEFINE Seen == parent # "live" /\ phase # "summary" /\ (phase \in Over => state # "pass")
<1>1. TypeOK /\ IInv /\ parent # "live" /\ phase \notin {"summary", "returned", "exited"} => Seen
  BY DEF Over
<1>2. Seen => (phase = "exited" => state # "pass")
  BY DEF Over
<1>3. TypeOK /\ IInv /\ Seen /\ [Next]_vars => Seen'
  <2> SUFFICES ASSUME TypeOK, IInv, Seen, [Next]_vars
               PROVE  Seen'
    OBVIOUS
  <2>1. parent' # "live"
    BY DEF Next, Call, Exited, EndParent, Propagate, ControlDeadline, CommandFails, CallExecute,
       CheckStart, Admit, WriteHeader, NextControl, WriteHeading, FinishRun, ClassifyParent,
       ClassifyControl, MatchOutput, WriteControlOutput, WriteLabel, WriteSummary, Exit,
       vars, ctxVars
  <2>2. phase' # "summary" /\ (phase' = "returned" => state' # "pass" \/ phase = "returned")
    <3> USE DEF Over
    <3>1. CASE WriteHeading \/ WriteControlOutput
      BY <3>1 DEF WriteHeading, WriteControlOutput, ReportingFails, Conclude, Return
    <3>2. CASE WriteLabel
      <4>1. verdict.err # {} => verdict.state # "pass"
        BY <3>2 DEF WriteLabel, VerdictOK, IInv, Explained
      <4> QED
        BY <3>2, <4>1 DEF WriteLabel, ReportingFails, Conclude, Return
    <3> QED
      BY <3>1, <3>2 DEF Next, Call, Exited, EndParent, Propagate, ControlDeadline, CommandFails,
         CallExecute, CheckStart, Admit, WriteHeader, NextControl, FinishRun, ClassifyParent,
         ClassifyControl, MatchOutput, WriteSummary, Exit, Return, vars
  <2>3. phase \in Over => UNCHANGED state
    BY DEF Over, Next, Call, Exited, EndParent, Propagate, ControlDeadline, CommandFails,
       CallExecute, CheckStart, Admit, WriteHeader, NextControl, WriteHeading, FinishRun,
       ClassifyParent, ClassifyControl, MatchOutput, WriteControlOutput, WriteLabel,
       WriteSummary, Exit, vars, callVars
  <2>4. phase' = "exited" => phase \in Over
    BY DEF Over, Next, Call, Exited, EndParent, Propagate, ControlDeadline, CommandFails,
       CallExecute, CheckStart, Admit, WriteHeader, NextControl, WriteHeading, FinishRun,
       ClassifyParent, ClassifyControl, MatchOutput, WriteControlOutput, WriteLabel,
       WriteSummary, Exit, Return, ReportingFails, Conclude, vars
  <2> QED
    BY <2>1, <2>2, <2>3, <2>4 DEF Over
<1> QED
  BY <1>1, <1>2, <1>3, TypeCorrect, Invariance, PTL DEF Spec, CancellationIsSeen
=============================================================================
