----------------------------- MODULE FuzzProofs -----------------------------
(***************************************************************************)
(* Proofs about fuzzing, for repositories and campaigns of any size: fuzz  *)
(* campaigns with any number of controls and workers, then the discovery   *)
(* of modules and of fuzz targets in a repository that changes.            *)
(***************************************************************************)
EXTENDS CampaignProperties, TargetsProperties, FoldLemmas, TLAPS


-----------------------------------------------------------------------------
(* The inductive invariant, by concern *)

\* Before the workers start nothing has happened; afterwards all have started.
Phases ==
    /\ main = "admit" =>
        /\ \A w \in Workers : pc[w] = "idle"
        /\ child = "live"
        /\ next = 0
        /\ lines = <<>>
    /\ main = "wait" => \A w \in Workers : pc[w] # "idle"
    /\ main = "wait" => lines = <<>>
    /\ main = "returned" <=> result # Pending

\* An outcome other than a pass carries no executions, a pass carries enough.
OutcomesOK ==
    \A i \in Controls :
        /\ outcomes[i].class # "pass" => outcomes[i].executions = 0
        /\ outcomes[i].class = "pass" => outcomes[i].executions >= Minimum

\* Below the counter every control is finished or run by a worker, and above it
\* none is touched.
Claims ==
    /\ \A w \in Workers : pc[w] = "run" => index[w] < next
    /\ \A i \in Controls : i >= next => outcomes[i] = Unset
    /\ \A i \in Controls :
        i < next /\ outcomes[i] = Unset =>
            \E w \in Workers : pc[w] = "run" /\ index[w] = i

\* A worker leaves only when the controls ran out or the context ended.
Departures ==
    main \in {"admit", "wait"} =>
        \A w \in Workers : pc[w] = "done" => next >= N \/ child # "live"

\* Every error reaches first.Do, and the flag is raised only for an error.
Failures ==
    /\ failed <=> once # "idle"
    /\ failed => firstIndex \in Errors
    /\ \A w \in Workers : pc[w] \in {"once", "cancel"} => index[w] \in Errors
    /\ \A w \in Workers : pc[w] = "cancel" => failed
    /\ Errors # {} => failed \/ \E w \in Workers : pc[w] = "once"

\* The workers' context ends, and a run is interrupted, only because the campaign
\* ended or because some control failed on its own account.
Causes ==
    /\ main # "returned" /\ child # "live" => parent # "live" \/ Genuine # {}
    /\ Of({"cancelled"}) # {} => parent # "live" \/ Genuine # {}

\* The lines written so far.
LinesOK ==
    /\ main = "write" \/ lines # <<>> => Of({"pass"}) = Controls
    /\ Len(lines) <= N
    /\ \A k \in 1 .. Len(lines) :
        lines[k] = [control |-> k - 1, executions |-> outcomes[k - 1].executions]
    /\ result.kind = "success" => Len(lines) = N

\* Nobody is late while the context lives, and a worker about to claim has not
\* been late yet.
Lateness ==
    /\ \A w \in Workers : lateStarts[w] <= 1
    /\ \A w \in Workers : child = "live" \/ pc[w] = "claim" => lateStarts[w] = 0

IInv ==
    /\ Phases
    /\ OutcomesOK
    /\ SingleOwner
    /\ Claims
    /\ NoOrphanedWorker
    /\ Departures
    /\ Failures
    /\ Causes
    /\ LinesOK
    /\ Lateness

-----------------------------------------------------------------------------
(* Types *)

\* The campaign has at least one worker.
LEMMA SomeWorker == 1 \in Workers /\ Workers \subseteq Nat
BY CampaignAssumption DEF Workers, EffectiveJobs

LEMMA FirstControl == 0 \in Controls
BY CampaignAssumption DEF Controls

\* Whatever a run reports becomes a well-formed outcome.
LEMMA OutcomeType ==
    ASSUME NEW r \in Reports
    PROVE  /\ RunFuzzControl(r) \in Outcomes
           /\ RunFuzzControl(r).class # "unset"
           /\ RunFuzzControl(r).class = "pass" <=> Passes(r)
           /\ RunFuzzControl(r).class = "cancelled" => r.err = "cancelled"
           /\ RunFuzzControl(r).class # "pass" => RunFuzzControl(r).executions = 0
           /\ RunFuzzControl(r).class = "pass" => RunFuzzControl(r).executions >= Minimum
<1>1. r.err \in {"nil", "cancelled", "failed", "cleanup"} /\ r.executions \in Executions
  BY DEF Reports
<1>2. CASE Passes(r)
  BY <1>1, <1>2 DEF RunFuzzControl, Passes, Outcomes, Classes
<1>3. CASE ~Passes(r)
  BY <1>1, <1>3 DEF RunFuzzControl, Outcomes, Classes
<1> QED
  BY <1>2, <1>3

\* The initial state and every step keep the types.
THEOREM TypeCorrect == Spec => []TypeOK
<1>1. Init => TypeOK
  <2> SUFFICES ASSUME Init PROVE TypeOK
    OBVIOUS
  <2>1. Unset \in Outcomes /\ Pending \in Results
    BY FirstControl DEF Unset, Outcomes, Classes, Pending, Results
  <2>2. lines \in Seq([control : Controls, executions : Executions \union {0}])
    BY DEF Init
  <2> QED
    BY <2>1, <2>2, FirstControl DEF Init, TypeOK
<1>2. TypeOK /\ [Next]_vars => TypeOK'
  <2> SUFFICES ASSUME TypeOK, [Next]_vars
               PROVE  TypeOK'
    OBVIOUS
  <2> USE CampaignAssumption DEF TypeOK, Ended
  <2>1. ASSUME NEW why \in Ended, EndParent(why)
        PROVE  TypeOK'
    BY <2>1 DEF EndParent, poolVars, mainVars
  <2>2. CASE Propagate
    BY <2>2 DEF Propagate, poolVars, mainVars
  <2>3. CASE RejectCampaign \/ RejectEnded
    BY <2>3 DEF RejectCampaign, RejectEnded, Return, poolVars, Results, Controls
  <2>4. CASE StartWorkers
    BY <2>4 DEF StartWorkers, ctxVars
  <2>5. CASE ReportFailure
    BY <2>5, FirstControl DEF ReportFailure, Return, poolVars, Results
  <2>6. CASE ReportEnded \/ WriteEnded \/ ReturnSuccess
    BY <2>6 DEF ReportEnded, WriteEnded, ReturnSuccess, Return, poolVars, Results, Controls
  <2>7. CASE BeginReport
    BY <2>7 DEF BeginReport, ctxVars, poolVars
  <2>8. CASE WriteLine
    <3>1. CASE lines' = lines
      BY <2>8, <3>1 DEF WriteLine, Return, poolVars, Results, Controls
    <3>2. CASE lines' # lines
      <4>1. Len(lines) \in Controls
        BY <2>8 DEF WriteLine, Controls
      <4>2. outcomes[Len(lines)].executions \in Executions \union {0}
        BY <4>1 DEF Outcomes
      <4> DEFINE Line == [control : Controls, executions : Executions \union {0}]
                 line == [control |-> Len(lines),
                          executions |-> outcomes[Len(lines)].executions]
      <4>3. line \in Line
        BY <4>1, <4>2
      <4>4. lines' = Append(lines, line)
        BY <2>8, <3>2 DEF WriteLine
      <4>5. lines \in Seq(Line)
        OBVIOUS
      <4> HIDE DEF Line, line
      <4>6. lines' \in Seq(Line)
        BY <4>3, <4>4, <4>5
      <4> QED
        BY <2>8, <3>2, <4>6 DEF WriteLine, poolVars, Line
    <3> QED
      BY <3>1, <3>2
  <2>9. ASSUME NEW w \in Workers, Worker(w)
        PROVE  TypeOK'
    <3>1. CASE CheckContext(w)
      BY <3>1 DEF CheckContext, Goto, ctxVars, mainVars
    <3>2. CASE Claim(w)
      <4>1. next < N => next \in Controls
        BY DEF Controls
      <4>2. next <= N - 1 <=> next < N
        OBVIOUS
      <4>3. next' \in Nat
        BY <3>2 DEF Claim, ClaimWith
      <4>4. pc' \in [Workers -> {"idle", "check", "claim", "run", "once", "cancel", "done"}]
        BY <3>2 DEF Claim, ClaimWith, Goto
      <4>5. index' \in [Workers -> Controls]
        BY <3>2, <4>1, <4>2 DEF Claim, ClaimWith
      <4>6. lateStarts' \in [Workers -> Nat]
        <5>1. lateStarts' \in {lateStarts, [lateStarts EXCEPT ![w] = @ + 1]}
          BY <3>2 DEF Claim, ClaimWith
        <5>2. [lateStarts EXCEPT ![w] = @ + 1] \in [Workers -> Nat]
          OBVIOUS
        <5> QED
          BY <5>1, <5>2
      <4> QED
        BY <3>2, <4>3, <4>4, <4>5, <4>6 DEF Claim, ClaimWith, ctxVars, mainVars
    <3>3. ASSUME NEW r \in Reports, FinishRun(w, r)
          PROVE  TypeOK'
      BY <3>3, OutcomeType DEF FinishRun, Goto, ctxVars, mainVars
    <3>4. CASE EnterOnce(w)
      BY <3>4 DEF EnterOnce, Goto, ctxVars, mainVars
    <3>5. CASE CancelSiblings(w)
      BY <3>5 DEF CancelSiblings, Goto, mainVars
    <3>6. CASE SkipOnce(w)
      BY <3>6 DEF SkipOnce, Goto, ctxVars, mainVars
    <3> QED
      BY <2>9, <3>1, <3>2, <3>3, <3>4, <3>5, <3>6 DEF Worker
  <2>10. CASE UNCHANGED vars
    BY <2>10 DEF vars, ctxVars, poolVars, mainVars
  <2> QED
    BY <2>1, <2>2, <2>3, <2>4, <2>5, <2>6, <2>7, <2>8, <2>9, <2>10
       DEF Next, Main, Returned
<1> QED
  BY <1>1, <1>2, PTL DEF Spec

-----------------------------------------------------------------------------
(* The inductive invariant *)

LEMMA InitIInv == Init => IInv
<1> SUFFICES ASSUME Init PROVE IInv
  OBVIOUS
<1> USE CampaignAssumption DEF Init, Unset, Pending
<1>1. Phases
  BY DEF Phases
<1>2. OutcomesOK /\ SingleOwner /\ Claims /\ NoOrphanedWorker /\ Departures
  BY DEF OutcomesOK, SingleOwner, Claims, NoOrphanedWorker, Departures, Controls
<1>3. Failures /\ Causes /\ LinesOK /\ Lateness
  BY DEF Failures, Causes, LinesOK, Lateness, Of, Errors, Genuine, Controls
<1> QED
  BY <1>1, <1>2, <1>3 DEF IInv

\* The environment only ends contexts.
LEMMA EnvironmentIInv ==
    ASSUME TypeOK, IInv,
           (\E why \in Ended : EndParent(why)) \/ Propagate \/ UNCHANGED vars
    PROVE  IInv'
<1>1. UNCHANGED <<next, outcomes, once, failed, firstIndex, pc, index, lateStarts,
                  main, lines, result>>
  BY DEF EndParent, Propagate, vars, poolVars, mainVars
<1>2. /\ child' = "live" => child = "live"
      /\ parent # "live" => parent' # "live"
      /\ main = "admit" => child' = child
      /\ child' # child => parent # "live"
  BY DEF EndParent, Propagate, vars, ctxVars, Ended
<1>3. UNCHANGED <<Errors, Genuine, Of({"pass"}), Of({"cancelled"})>>
  BY <1>1 DEF Errors, Genuine, Of
<1>4. Phases'
  BY <1>1, <1>2 DEF Phases, IInv
<1>5. OutcomesOK' /\ SingleOwner' /\ Claims' /\ NoOrphanedWorker'
  BY <1>1 DEF OutcomesOK, SingleOwner, Claims, NoOrphanedWorker, IInv
<1>6. Departures'
  BY <1>1, <1>2 DEF Departures, IInv
<1>7. Failures'
  BY <1>1, <1>3 DEF Failures, IInv
<1>8. Causes'
  BY <1>1, <1>2, <1>3 DEF Causes, IInv
<1>9. LinesOK'
  BY <1>1, <1>3 DEF LinesOK, IInv
<1>10. Lateness'
  BY <1>1, <1>2 DEF Lateness, IInv
<1> QED
  BY <1>4, <1>5, <1>6, <1>7, <1>8, <1>9, <1>10 DEF IInv

\* A return ends the call with no worker running.
LEMMA ReturnIInv ==
    ASSUME TypeOK, IInv,
           UNCHANGED <<parent, poolVars, lines>>,
           NEW kind \in {"rejected", "context", "control", "write", "success"},
           NEW i \in Controls,
           Return(kind, i),
           main # "returned",
           \A w \in Workers : pc[w] \in {"idle", "done"},
           kind = "success" => Len(lines) = N,
           lines # <<>> \/ main = "write" => Of({"pass"}) = Controls
    PROVE  IInv'
<1>1. UNCHANGED <<parent, next, outcomes, once, failed, firstIndex, pc, index,
                  lateStarts, lines>>
  BY DEF poolVars
<1>2. /\ main' = "returned"
      /\ result' = [kind |-> kind, index |-> i]
      /\ result' # Pending
      /\ child' = "live" => child = "live"
  BY DEF Return, Pending
<1>3. UNCHANGED <<Errors, Genuine, Of({"pass"}), Of({"cancelled"})>>
  BY <1>1 DEF Errors, Genuine, Of
<1>4. Phases'
  BY <1>2 DEF Phases
<1>5. OutcomesOK' /\ SingleOwner' /\ Claims'
  BY <1>1 DEF OutcomesOK, SingleOwner, Claims, IInv
<1>6. NoOrphanedWorker' /\ Departures'
  BY <1>1, <1>2 DEF NoOrphanedWorker, Departures
<1>7. Failures'
  BY <1>1, <1>3 DEF Failures, IInv
<1>8. Causes'
  BY <1>1, <1>2, <1>3 DEF Causes, IInv
<1>9. LinesOK'
  BY <1>1, <1>2, <1>3 DEF LinesOK, IInv
<1>10. Lateness'
  BY <1>1, <1>2 DEF Lateness, IInv
<1> QED
  BY <1>4, <1>5, <1>6, <1>7, <1>8, <1>9, <1>10 DEF IInv

\* When every worker has left, no failure was recorded and the context lives,
\* every control has passed: a worker that left found the controls exhausted,
\* every claimed control was finished, and every error would be recorded.
LEMMA AllPassed ==
    ASSUME TypeOK, IInv, Joined, ~failed, child = "live"
    PROVE  Of({"pass"}) = Controls
<1>1. next >= N
  BY SomeWorker DEF Joined, Departures, IInv
<1>2. ASSUME NEW i \in Controls
      PROVE  outcomes[i].class = "pass"
  <2>1. i < next
    BY <1>1, CampaignAssumption DEF Controls, TypeOK
  <2>2. outcomes[i] # Unset
    BY <2>1 DEF Claims, Joined, IInv
  <2>3. i \notin Errors
    BY DEF Failures, Joined, IInv
  <2>4. outcomes[i] \in Outcomes /\ OutcomesOK
    BY DEF TypeOK, IInv
  <2>5. outcomes[i].class = "unset" => outcomes[i] = Unset
    BY <2>4 DEF OutcomesOK, Outcomes, Classes, Unset
  <2> QED
    BY <2>2, <2>3, <2>4, <2>5 DEF Errors, Of, Outcomes, Classes
<1> QED
  BY <1>2 DEF Of

\* The calling goroutine.
LEMMA MainIInv ==
    ASSUME TypeOK, IInv, Main
    PROVE  IInv'
<1>1. CASE RejectCampaign
  <2>1. \A w \in Workers : pc[w] \in {"idle", "done"}
    BY <1>1 DEF RejectCampaign, Phases, IInv
  <2> QED
    BY <1>1, <2>1, FirstControl, ReturnIInv DEF RejectCampaign, IInv, LinesOK
<1>2. CASE RejectEnded
  <2>1. \A w \in Workers : pc[w] \in {"idle", "done"}
    BY <1>2 DEF RejectEnded, Phases, IInv
  <2> QED
    BY <1>2, <2>1, FirstControl, ReturnIInv DEF RejectEnded, IInv, LinesOK
<1>3. CASE StartWorkers
  <2>1. \A w \in Workers : pc[w] = "idle"
    BY <1>3 DEF StartWorkers, Phases, IInv
  <2>2. \A w \in Workers : pc'[w] = "check"
    BY <1>3 DEF StartWorkers
  <2>3. /\ UNCHANGED <<parent, child, next, outcomes, once, failed, firstIndex, index,
                       lateStarts, lines, result>>
        /\ main' = "wait" /\ main = "admit"
    BY <1>3 DEF StartWorkers, ctxVars
  <2>4. UNCHANGED <<Errors, Genuine, Of({"pass"}), Of({"cancelled"})>>
    BY <2>3 DEF Errors, Genuine, Of
  <2>5. Phases' /\ OutcomesOK' /\ SingleOwner' /\ NoOrphanedWorker' /\ Departures'
    BY <2>2, <2>3 DEF Phases, OutcomesOK, SingleOwner, NoOrphanedWorker, Departures, IInv
  <2>6. Claims'
    BY <2>1, <2>2, <2>3 DEF Claims, IInv
  <2>7. Failures'
    BY <2>1, <2>2, <2>3, <2>4 DEF Failures, IInv
  <2>8. Causes' /\ LinesOK' /\ Lateness'
    BY <2>2, <2>3, <2>4 DEF Causes, LinesOK, Lateness, Phases, IInv
  <2> QED
    BY <2>5, <2>6, <2>7, <2>8 DEF IInv
<1>4. CASE ReportFailure
  <2>1. PICK kind \in {"context", "control"}, i \in Controls : Return(kind, i)
    BY <1>4, FirstControl DEF ReportFailure
  <2>2. main = "wait" /\ UNCHANGED <<parent, poolVars, lines>>
    BY <1>4 DEF ReportFailure, Joined
  <2>3. \A w \in Workers : pc[w] \in {"idle", "done"}
    BY <1>4 DEF ReportFailure, Joined
  <2> QED
    BY <2>1, <2>2, <2>3, ReturnIInv DEF IInv, LinesOK
<1>5. CASE ReportEnded
  BY <1>5, FirstControl, ReturnIInv DEF ReportEnded, Joined, IInv, LinesOK
<1>6. CASE BeginReport
  <2>1. /\ UNCHANGED <<parent, child, next, outcomes, once, failed, firstIndex, pc, index,
                       lateStarts, lines, result>>
        /\ main' = "write" /\ main = "wait"
    BY <1>6 DEF BeginReport, Joined, ctxVars, poolVars
  <2>2. UNCHANGED <<Errors, Genuine, Of({"pass"}), Of({"cancelled"})>>
    BY <2>1 DEF Errors, Genuine, Of
  <2>3. \A w \in Workers : pc[w] = "done"
    BY <1>6 DEF BeginReport, Joined
  <2>4. Of({"pass"}) = Controls
    BY <1>6, AllPassed DEF BeginReport
  <2>5. Phases' /\ OutcomesOK' /\ SingleOwner' /\ Claims' /\ NoOrphanedWorker' /\ Departures'
    BY <2>1, <2>3 DEF Phases, OutcomesOK, SingleOwner, Claims, NoOrphanedWorker,
       Departures, IInv
  <2>6. Failures'
    BY <2>1, <2>2 DEF Failures, IInv
  <2>7. Causes' /\ LinesOK' /\ Lateness'
    BY <2>1, <2>2, <2>4 DEF Causes, LinesOK, Lateness, IInv
  <2> QED
    BY <2>5, <2>6, <2>7 DEF IInv
<1>7. CASE WriteLine
  <2>1. \A w \in Workers : pc[w] \in {"idle", "done"}
    BY <1>7 DEF WriteLine, NoOrphanedWorker, IInv
  <2>2. Of({"pass"}) = Controls
    BY <1>7 DEF WriteLine, LinesOK, IInv
  <2>3. CASE Return("write", 0) /\ UNCHANGED lines
    BY <1>7, <2>1, <2>2, <2>3, FirstControl, ReturnIInv DEF WriteLine
  <2>4. CASE /\ lines' = Append(lines, [control |-> Len(lines),
                                        executions |-> outcomes[Len(lines)].executions])
             /\ UNCHANGED <<child, main, result>>
    <3>1. UNCHANGED <<parent, child, next, outcomes, once, failed, firstIndex, pc, index,
                      lateStarts, main, result>> /\ main = "write" /\ Len(lines) < N
      BY <1>7, <2>4 DEF WriteLine, poolVars
    <3>2. UNCHANGED <<Errors, Genuine, Of({"pass"}), Of({"cancelled"})>>
      BY <3>1 DEF Errors, Genuine, Of
    <3>3. Phases' /\ OutcomesOK' /\ SingleOwner' /\ Claims' /\ NoOrphanedWorker'
          /\ Departures' /\ Lateness'
      BY <3>1 DEF Phases, OutcomesOK, SingleOwner, Claims, NoOrphanedWorker,
         Departures, Lateness, IInv
    <3>4. Failures' /\ Causes'
      BY <3>1, <3>2 DEF Failures, Causes, IInv
    <3>5. LinesOK'
      <4>1. Len(lines) \in Nat /\ Len(lines') = Len(lines) + 1
        BY <2>4 DEF TypeOK
      <4>2. ASSUME NEW k \in 1 .. Len(lines')
            PROVE  lines'[k] = [control |-> k - 1, executions |-> outcomes[k - 1].executions]
        <5>1. CASE k \in 1 .. Len(lines)
          BY <2>4, <5>1 DEF TypeOK, LinesOK, IInv
        <5>2. CASE k = Len(lines) + 1
          BY <2>4, <4>1, <5>2 DEF TypeOK
        <5> QED
          BY <4>1, <5>1, <5>2
      <4>3. result.kind # "success"
        BY <3>1 DEF Phases, Pending, IInv
      <4> QED
        BY <2>2, <3>1, <3>2, <4>1, <4>2, <4>3, CampaignAssumption DEF LinesOK
    <3> QED
      BY <3>3, <3>4, <3>5 DEF IInv
  <2> QED
    BY <1>7, <2>3, <2>4 DEF WriteLine
<1>8. CASE WriteEnded
  BY <1>8, FirstControl, ReturnIInv DEF WriteEnded, NoOrphanedWorker, IInv, LinesOK
<1>9. CASE ReturnSuccess
  BY <1>9, FirstControl, ReturnIInv DEF ReturnSuccess, NoOrphanedWorker, IInv, LinesOK
<1> QED
  BY <1>1, <1>2, <1>3, <1>4, <1>5, <1>6, <1>7, <1>8, <1>9 DEF Main

\* A worker steps only after the workers were started and before they are joined.
LEMMA WorkerRunning ==
    ASSUME TypeOK, IInv, NEW w \in Workers, Worker(w)
    PROVE  /\ main = "wait"
           /\ lines = <<>>
           /\ UNCHANGED <<parent, main, lines, result>>
<1>1. pc[w] \notin {"idle", "done"}
  BY DEF Worker, CheckContext, Claim, ClaimWith, FinishRun, EnterOnce, CancelSiblings, SkipOnce
<1>2. main = "wait" /\ lines = <<>>
  BY <1>1 DEF TypeOK, Phases, NoOrphanedWorker, IInv
<1>3. UNCHANGED <<parent, main, lines, result>>
  BY DEF Worker, CheckContext, Claim, ClaimWith, FinishRun, EnterOnce, CancelSiblings,
     SkipOnce, ctxVars, mainVars
<1> QED
  BY <1>2, <1>3

\* Steps of a worker that touch neither the counter nor an outcome.
LEMMA ControlFlowIInv ==
    ASSUME TypeOK, TypeOK', IInv, NEW w \in Workers, Worker(w),
           CheckContext(w) \/ EnterOnce(w) \/ CancelSiblings(w) \/ SkipOnce(w)
    PROVE  IInv'
<1>1. /\ main = "wait"
      /\ lines = <<>>
      /\ UNCHANGED <<parent, main, lines, result>>
  BY WorkerRunning
<1>2. UNCHANGED <<next, outcomes, index, lateStarts>>
  BY DEF CheckContext, EnterOnce, CancelSiblings, SkipOnce
<1>3. /\ pc[w] \in {"check", "once", "cancel"}
      /\ pc'[w] \in {"check", "claim", "cancel", "done"}
      /\ pc'[w] = "claim" => child = "live"
      /\ pc'[w] = "done" => child # "live"
      /\ \A v \in Workers \ {w} : pc'[v] = pc[v]
  BY DEF CheckContext, EnterOnce, CancelSiblings, SkipOnce, Goto, TypeOK
<1>4. /\ child' = "live" => child = "live"
      /\ child # "live" => child' # "live"
      /\ child' # child => pc[w] = "cancel"
  BY DEF CheckContext, EnterOnce, CancelSiblings, SkipOnce, ctxVars
<1>5. UNCHANGED <<Errors, Genuine, Of({"pass"}), Of({"cancelled"})>>
  BY <1>2 DEF Errors, Genuine, Of
<1>6. Phases' /\ OutcomesOK' /\ NoOrphanedWorker'
  BY <1>1, <1>2, <1>3 DEF Phases, OutcomesOK, NoOrphanedWorker, IInv
<1>7. SingleOwner' /\ Claims'
  BY <1>2, <1>3 DEF SingleOwner, Claims, IInv
<1>8. Departures'
  BY <1>1, <1>2, <1>3, <1>4 DEF Departures, IInv
<1>9. Failures'
  <2>1. index[w] \in Errors \/ pc[w] = "check"
    BY <1>3 DEF Failures, IInv
  <2>2. CASE EnterOnce(w)
    BY <1>2, <1>3, <1>5, <2>1, <2>2 DEF EnterOnce, Failures, IInv
  <2>3. CASE ~EnterOnce(w)
    <3>1. UNCHANGED <<failed, firstIndex>>
      BY <2>3 DEF CheckContext, CancelSiblings, SkipOnce
    <3>2. (once # "idle")' <=> once # "idle"
      <4>1. pc[w] = "cancel" => failed
        BY DEF Failures, IInv
      <4> QED
        BY <2>3, <4>1 DEF CheckContext, CancelSiblings, SkipOnce, Failures, IInv
    <3>3. pc[w] = "once" => failed
      BY <2>3 DEF CheckContext, CancelSiblings, SkipOnce, Failures, IInv
    <3>4. pc'[w] # "cancel"
      BY <2>3 DEF CheckContext, CancelSiblings, SkipOnce, Goto, TypeOK
    <3> QED
      BY <1>2, <1>3, <1>5, <3>1, <3>2, <3>3, <3>4 DEF Failures, IInv
  <2> QED
    BY <2>2, <2>3
<1>10. Causes'
  <2>1. pc[w] = "cancel" => parent # "live" \/ Genuine # {}
    <3>1. pc[w] = "cancel" => Errors # {}
      BY DEF Failures, IInv
    <3>2. Errors \subseteq Genuine \union Of({"cancelled"})
      BY DEF Errors, Genuine, Of
    <3> QED
      BY <3>1, <3>2 DEF Causes, IInv
  <2> QED
    BY <1>1, <1>4, <1>5, <2>1 DEF Causes, IInv
<1>11. LinesOK'
  BY <1>1, <1>2, <1>5 DEF LinesOK, IInv
<1>12. Lateness'
  BY <1>2, <1>3, <1>4 DEF Lateness, IInv
<1> QED
  BY <1>6, <1>7, <1>8, <1>9, <1>10, <1>11, <1>12 DEF IInv

LEMMA ClaimIInv ==
    ASSUME TypeOK, TypeOK', IInv, NEW w \in Workers, Worker(w), Claim(w)
    PROVE  IInv'
<1>1. /\ main = "wait"
      /\ lines = <<>>
      /\ UNCHANGED <<parent, main, lines, result>>
  BY WorkerRunning
<1>2. /\ UNCHANGED <<child, outcomes, once, failed, firstIndex>>
      /\ next' = next + 1
      /\ pc[w] = "claim"
      /\ \A v \in Workers \ {w} : /\ pc'[v] = pc[v]
                                  /\ index'[v] = index[v]
                                  /\ lateStarts'[v] = lateStarts[v]
  BY DEF Claim, ClaimWith, ctxVars, Goto, TypeOK
<1>3. CASE next < N
  <2>1. pc'[w] = "run" /\ index'[w] = next
    BY <1>3, CampaignAssumption DEF Claim, ClaimWith, Goto, TypeOK
  <2>2. next \in Controls
    BY <1>3, CampaignAssumption DEF Controls, TypeOK
  <2>3. lateStarts'[w] \in 0 .. 1 /\ (child = "live" => lateStarts'[w] = 0)
    BY <1>2, <1>3, CampaignAssumption DEF Claim, ClaimWith, Lateness, IInv, TypeOK
  <2>4. UNCHANGED <<Errors, Genuine, Of({"pass"}), Of({"cancelled"})>>
    BY <1>2 DEF Errors, Genuine, Of
  <2>5. Phases' /\ OutcomesOK' /\ NoOrphanedWorker'
    BY <1>1, <1>2, <2>1 DEF Phases, OutcomesOK, NoOrphanedWorker, IInv
  <2>11. Departures'
    BY <1>1, <1>2, <2>1, CampaignAssumption DEF Departures, IInv, TypeOK
  <2>6. SingleOwner'
    <3>1. outcomes[next] = Unset
      BY <2>2 DEF Claims, IInv, TypeOK
    <3>2. \A v \in Workers \ {w} : pc[v] = "run" => index[v] # next
      BY DEF Claims, IInv, TypeOK, Controls
    <3> QED
      BY <1>2, <2>1, <3>1, <3>2 DEF SingleOwner, IInv
  <2>7. Claims'
    <3>1. ASSUME NEW v \in Workers, pc'[v] = "run"
          PROVE  index'[v] < next'
      <4>1. CASE v = w
        BY <1>2, <2>1, <4>1 DEF TypeOK
      <4>2. CASE v # w
        <5>1. index'[v] = index[v] /\ index[v] < next /\ index[v] \in Int
          BY <1>2, <3>1, <4>2 DEF Claims, IInv, TypeOK, Controls
        <5> QED
          BY <1>2, <5>1 DEF TypeOK
      <4> QED
        BY <4>1, <4>2
    <3>2. \A i \in Controls : i >= next' => outcomes'[i] = Unset
      BY <1>2 DEF Claims, IInv, TypeOK, Controls
    <3>3. ASSUME NEW i \in Controls, i < next', outcomes'[i] = Unset
          PROVE  \E v \in Workers : pc'[v] = "run" /\ index'[v] = i
      <4>1. CASE i = next
        BY <2>1, <4>1
      <4>2. CASE i # next
        <5>1. i < next /\ outcomes[i] = Unset
          BY <1>2, <3>3, <4>2 DEF Controls, TypeOK
        <5>2. PICK v \in Workers : pc[v] = "run" /\ index[v] = i
          BY <5>1 DEF Claims, IInv
        <5> QED
          BY <1>2, <5>2
      <4> QED
        BY <4>1, <4>2
    <3> QED
      BY <3>1, <3>2, <3>3 DEF Claims
  <2>8. Failures'
    BY <1>2, <2>1, <2>4 DEF Failures, IInv
  <2>9. Causes' /\ LinesOK'
    BY <1>1, <1>2, <2>4 DEF Causes, LinesOK, IInv
  <2>10. Lateness'
    BY <1>2, <2>1, <2>3 DEF Lateness, IInv
  <2> QED
    BY <2>5, <2>11, <2>6, <2>7, <2>8, <2>9, <2>10 DEF IInv
<1>4. CASE ~(next < N)
  <2>1. pc'[w] = "done" /\ UNCHANGED <<index, lateStarts>>
    BY <1>4, CampaignAssumption DEF Claim, ClaimWith, Goto, TypeOK
  <2>2. UNCHANGED <<Errors, Genuine, Of({"pass"}), Of({"cancelled"})>>
    BY <1>2 DEF Errors, Genuine, Of
  <2>3. Phases' /\ OutcomesOK' /\ NoOrphanedWorker'
    BY <1>1, <1>2, <2>1 DEF Phases, OutcomesOK, NoOrphanedWorker, IInv
  <2>4. Departures'
    BY <1>1, <1>2, <1>4, <2>1, CampaignAssumption DEF Departures, IInv, TypeOK
  <2>5. SingleOwner'
    BY <1>2, <2>1 DEF SingleOwner, IInv
  <2>6. Claims'
    BY <1>2, <1>4, <2>1, CampaignAssumption DEF Claims, IInv, TypeOK, Controls
  <2>7. Failures'
    BY <1>2, <2>1, <2>2 DEF Failures, IInv
  <2>8. Causes' /\ LinesOK'
    BY <1>1, <1>2, <2>2 DEF Causes, LinesOK, IInv
  <2>9. Lateness'
    BY <1>2, <2>1 DEF Lateness, IInv
  <2> QED
    BY <2>3, <2>4, <2>5, <2>6, <2>7, <2>8, <2>9 DEF IInv
<1> QED
  BY <1>3, <1>4

LEMMA FinishRunIInv ==
    ASSUME TypeOK, TypeOK', IInv, NEW w \in Workers, Worker(w),
           NEW r \in Reports, FinishRun(w, r)
    PROVE  IInv'
<1> DEFINE o == RunFuzzControl(r)
           i == index[w]
<1>1. /\ main = "wait"
      /\ lines = <<>>
      /\ UNCHANGED <<parent, main, lines, result>>
  BY WorkerRunning
<1>2. /\ UNCHANGED <<child, next, once, failed, firstIndex, index, lateStarts>>
      /\ pc[w] = "run"
      /\ pc'[w] = IF Passes(r) THEN "check" ELSE "once"
      /\ \A v \in Workers \ {w} : pc'[v] = pc[v]
      /\ i \in Controls
      /\ outcomes'[i] = o
      /\ \A j \in Controls \ {i} : outcomes'[j] = outcomes[j]
  BY DEF FinishRun, ctxVars, Goto, TypeOK
<1>3. /\ o \in Outcomes /\ o.class # "unset" /\ o # Unset
      /\ o.class = "pass" <=> Passes(r)
      /\ o.class = "cancelled" => child # "live"
      /\ o.class # "pass" => o.executions = 0
      /\ o.class = "pass" => o.executions >= Minimum
  BY OutcomeType DEF FinishRun, Unset
<1>4. outcomes[i] = Unset /\ i < next
  BY <1>2 DEF SingleOwner, Claims, IInv
<1> HIDE DEF o
<1>5. /\ Errors \subseteq Errors' /\ Genuine \subseteq Genuine'
      /\ Of({"cancelled"})' \subseteq Of({"cancelled"}) \union (IF o.class = "cancelled" THEN {i} ELSE {})
      /\ Errors' = Errors \union (IF Passes(r) THEN {} ELSE {i})
  BY <1>2, <1>3, <1>4 DEF Errors, Genuine, Of, Unset, Outcomes, Classes
<1>6. Phases' /\ NoOrphanedWorker' /\ Departures'
  BY <1>1, <1>2 DEF Phases, NoOrphanedWorker, Departures, IInv
<1>7. OutcomesOK'
  BY <1>2, <1>3 DEF OutcomesOK, IInv
<1>8. SingleOwner'
  BY <1>2, <1>4 DEF SingleOwner, IInv, TypeOK
<1>9. Claims'
  <2>1. \A v \in Workers : pc'[v] = "run" => index'[v] < next'
    BY <1>2 DEF Claims, IInv
  <2>2. \A j \in Controls : j >= next' => outcomes'[j] = Unset
    BY <1>2, <1>4 DEF Claims, IInv, TypeOK, Controls
  <2>3. ASSUME NEW j \in Controls, j < next', outcomes'[j] = Unset
        PROVE  \E v \in Workers : pc'[v] = "run" /\ index'[v] = j
    <3>1. j # i /\ j < next /\ outcomes[j] = Unset
      BY <1>2, <1>3, <2>3
    <3>2. PICK v \in Workers : pc[v] = "run" /\ index[v] = j
      BY <3>1 DEF Claims, IInv
    <3> QED
      BY <1>2, <3>1, <3>2
  <2> QED
    BY <2>1, <2>2, <2>3 DEF Claims
<1>10. Failures'
  BY <1>2, <1>5 DEF Failures, IInv
<1>11. Causes'
  BY <1>1, <1>2, <1>3, <1>5 DEF Causes, IInv
<1>12. LinesOK'
  BY <1>1, CampaignAssumption DEF LinesOK, IInv
<1>13. Lateness'
  BY <1>2 DEF Lateness, IInv
<1> QED
  BY <1>6, <1>7, <1>8, <1>9, <1>10, <1>11, <1>12, <1>13 DEF IInv

\* The inductive invariant holds of every behaviour.
THEOREM Invariance == Spec => []IInv
<1>1. TypeOK /\ TypeOK' /\ IInv /\ [Next]_vars => IInv'
  <2> SUFFICES ASSUME TypeOK, TypeOK', IInv, [Next]_vars
               PROVE  IInv'
    OBVIOUS
  <2>1. ASSUME NEW w \in Workers, Worker(w)
        PROVE  IInv'
    BY <2>1, ControlFlowIInv, ClaimIInv, FinishRunIInv DEF Worker
  <2> QED
    BY <2>1, EnvironmentIInv, MainIInv DEF Next, Returned
<1> QED
  BY <1>1, InitIInv, TypeCorrect, PTL DEF Spec

-----------------------------------------------------------------------------
(* What the campaign guarantees *)

\* Each control has at most one owner and is run at most once.
THEOREM ExclusiveRuns == Spec => []SingleOwner
BY Invariance, PTL DEF IInv

\* The call never reports or returns while a run is in progress.
THEOREM NoRunOutlivesTheCall == Spec => []NoOrphanedWorker
BY Invariance, PTL DEF IInv

\* Lines are complete, in order and earned, and success means all of them.
THEOREM ReportsAreComplete == Spec => []CompleteReport
<1>1. TypeOK /\ IInv => CompleteReport
  <2> SUFFICES ASSUME TypeOK, IInv PROVE CompleteReport
    OBVIOUS
  <2>1. lines # <<>> => \A i \in Controls : outcomes[i].class = "pass"
    BY DEF IInv, LinesOK, Of
  <2> QED
    BY <2>1 DEF CompleteReport, IInv, LinesOK, OutcomesOK
<1> QED
  BY <1>1, TypeCorrect, Invariance, PTL

\* Cancellation stops each worker after at most one more control.
THEOREM PromptCancellation == Spec => []OneLateStart
<1>1. IInv => OneLateStart
  BY DEF IInv, Lateness, OneLateStart
<1> QED
  BY <1>1, Invariance, PTL

-----------------------------------------------------------------------------
(* The campaign implements its verdict *)

\* A failure the campaign may report exists once one was recorded, and the choice
\* between a genuine failure and a cancellation is the one the verdict requires.
LEMMA FailureIsJustified ==
    ASSUME TypeOK, IInv, failed,
           NEW i \in Controls, NEW genuine \in BOOLEAN, DeterministicFailure(i, genuine)
    PROVE  /\ genuine => IF Of({"cleanup"}) # {} THEN Lowest(i, Of({"cleanup"}))
                                                 ELSE Lowest(i, Genuine)
           /\ ~genuine => Genuine = {} /\ parent # "live"
<1>1. Of({"cleanup"}) \subseteq Genuine
  BY DEF Of, Genuine
<1>2. genuine => IF Of({"cleanup"}) # {} THEN Lowest(i, Of({"cleanup"}))
                                         ELSE Lowest(i, Genuine)
  BY <1>1 DEF DeterministicFailure, Lowest
<1>3. ASSUME ~genuine
      PROVE  Genuine = {} /\ parent # "live"
  <2>1. Errors # {}
    BY DEF Failures, IInv
  <2>2. Genuine = {}
    BY <1>3, <2>1 DEF DeterministicFailure
  <2>3. Errors \subseteq Genuine \union Of({"cancelled"})
    BY DEF Errors, Genuine, Of
  <2> QED
    BY <2>1, <2>2, <2>3 DEF Causes, IInv
<1> QED
  BY <1>2, <1>3

\* The verdict sees the same sets of controls.
LEMMA VerdictSets ==
    /\ \A classes : Verdict!Of(classes) = Of(classes)
    /\ Verdict!Genuine = Genuine
    /\ \A i, S : Verdict!Lowest(i, S) <=> Lowest(i, S)
BY DEF Verdict!Of, Of, Verdict!Genuine, Genuine, Verdict!Lowest, Lowest

\* Before the workers start, a rejection or the caller's own end is justified.
LEMMA AdmitJustified ==
    ASSUME TypeOK, IInv, main = "admit"
    PROVE  /\ Verdict!Justified([kind |-> "rejected", index |-> 0])
           /\ parent # "live" => Verdict!Justified([kind |-> "context", index |-> 0])
<1>1. \A i \in Controls : outcomes[i] = Unset
  BY DEF Phases, Claims, IInv, Controls
<1>2. Genuine = {}
  BY <1>1 DEF Genuine, Of, Unset
<1> QED
  BY <1>1, <1>2, VerdictSets DEF Verdict!Justified

\* A return concludes the verdict it is justified by.
LEMMA ReturnConcludes ==
    ASSUME TypeOK, IInv, main # "returned",
           UNCHANGED <<parent, outcomes>>,
           NEW kind \in {"rejected", "context", "control", "write", "success"},
           NEW i \in Controls,
           Return(kind, i),
           Verdict!Justified([kind |-> kind, index |-> i])
    PROVE  Verdict!Next
<1>1. result = Pending /\ result' = [kind |-> kind, index |-> i] /\ result' # Pending
  BY DEF Phases, IInv, Return, Pending
<1> QED
  BY <1>1 DEF Verdict!Next, Verdict!Conclude

\* Every step of the campaign is a step of its verdict or changes nothing it sees.
LEMMA StepImplementsVerdict ==
    ASSUME TypeOK, IInv, [Next]_vars
    PROVE  [Verdict!Next]_(Verdict!vars)
<1> USE DEF Verdict!vars
<1>1. ASSUME NEW why \in Ended, EndParent(why)
      PROVE  Verdict!Next
  BY <1>1 DEF EndParent, Ended, poolVars, mainVars, Verdict!Next, Verdict!End
<1>2. CASE Propagate \/ UNCHANGED vars
  BY <1>2 DEF Propagate, vars, ctxVars, poolVars, mainVars
<1>3. CASE Main
  <2> USE FirstControl DEF Return, poolVars
  <2> DEFINE V(kind, i) == [kind |-> kind, index |-> i]
  <2>1. CASE RejectCampaign
    <3>1. Verdict!Justified(V("rejected", 0)) /\ main # "returned"
      BY <2>1, AdmitJustified DEF RejectCampaign
    <3> QED
      BY <2>1, <3>1, ReturnConcludes DEF RejectCampaign
  <2>2. CASE RejectEnded
    <3>1. Verdict!Justified(V("context", 0)) /\ main # "returned"
      BY <2>2, AdmitJustified DEF RejectEnded
    <3> QED
      BY <2>2, <3>1, ReturnConcludes DEF RejectEnded
  <2>3. CASE StartWorkers \/ BeginReport
    BY <2>3 DEF StartWorkers, BeginReport, ctxVars
  <2>4. CASE ReportFailure
    <3>1. PICK i \in Controls, genuine \in BOOLEAN :
            /\ DeterministicFailure(i, genuine)
            /\ IF ~genuine /\ parent # "live" THEN Return("context", 0)
                                              ELSE Return("control", i)
      BY <2>4 DEF ReportFailure
    <3>2. failed /\ main # "returned" /\ UNCHANGED <<parent, outcomes>>
      BY <2>4 DEF ReportFailure, Joined
    <3>3. CASE genuine
      <4>1. Verdict!Justified(V("control", i))
        BY <3>1, <3>2, <3>3, FailureIsJustified, VerdictSets DEF Verdict!Justified
      <4> QED
        BY <3>1, <3>2, <3>3, <4>1, ReturnConcludes
    <3>4. CASE ~genuine
      <4>1. Genuine = {} /\ parent # "live"
        BY <3>1, <3>2, <3>4, FailureIsJustified
      <4>2. Verdict!Justified(V("context", 0))
        BY <4>1, VerdictSets DEF Verdict!Justified
      <4> QED
        BY <3>1, <3>2, <3>4, <4>1, <4>2, ReturnConcludes
    <3> QED
      BY <3>3, <3>4
  <2>5. CASE ReportEnded
    <3>1. Errors = {}
      BY <2>5 DEF ReportEnded, Joined, Failures, IInv
    <3>2. Genuine = {} /\ parent # "live" /\ main # "returned"
      BY <2>5, <3>1 DEF ReportEnded, Joined, Causes, IInv, Errors, Genuine, Of
    <3>3. Verdict!Justified(V("context", 0))
      BY <3>2, VerdictSets DEF Verdict!Justified
    <3> QED
      BY <2>5, <3>2, <3>3, ReturnConcludes DEF ReportEnded
  <2>6. CASE WriteLine
    <3>1. main # "returned" /\ UNCHANGED <<parent, outcomes>>
      BY <2>6 DEF WriteLine
    <3>2. Verdict!Justified(V("write", 0))
      BY <2>6, VerdictSets DEF WriteLine, LinesOK, IInv, Verdict!Justified
    <3>3. CASE Return("write", 0)
      BY <3>1, <3>2, <3>3, ReturnConcludes
    <3>4. CASE UNCHANGED <<child, main, result>>
      BY <3>1, <3>4
    <3> QED
      BY <2>6, <3>3, <3>4 DEF WriteLine
  <2>7. CASE WriteEnded
    <3>1. Of({"pass"}) = Controls
      BY <2>7 DEF WriteEnded, LinesOK, IInv
    <3>2. Genuine = {} /\ parent # "live" /\ main # "returned"
      BY <2>7, <3>1 DEF WriteEnded, Causes, IInv, Genuine, Of
    <3>3. Verdict!Justified(V("context", 0))
      BY <3>2, VerdictSets DEF Verdict!Justified
    <3> QED
      BY <2>7, <3>2, <3>3, ReturnConcludes DEF WriteEnded
  <2>8. CASE ReturnSuccess
    <3>1. Verdict!Justified(V("success", 0)) /\ main # "returned"
      BY <2>8, VerdictSets DEF ReturnSuccess, LinesOK, IInv, Verdict!Justified
    <3> QED
      BY <2>8, <3>1, ReturnConcludes DEF ReturnSuccess
  <2> QED
    BY <1>3, <2>1, <2>2, <2>3, <2>4, <2>5, <2>6, <2>7, <2>8 DEF Main
<1>4. ASSUME NEW w \in Workers, Worker(w)
      PROVE  [Verdict!Next]_(Verdict!vars)
  <2>1. CASE CheckContext(w) \/ Claim(w) \/ EnterOnce(w) \/ CancelSiblings(w) \/ SkipOnce(w)
    BY <2>1 DEF CheckContext, Claim, ClaimWith, EnterOnce, CancelSiblings, SkipOnce,
       ctxVars, mainVars
  <2>2. ASSUME NEW r \in Reports, FinishRun(w, r)
        PROVE  Verdict!Next
    <3> DEFINE o == RunFuzzControl(r)
    <3>1. /\ index[w] \in Controls /\ outcomes[index[w]] = Unset
          /\ outcomes' = [outcomes EXCEPT ![index[w]] = o]
          /\ UNCHANGED <<parent, result>>
      BY <2>2 DEF FinishRun, SingleOwner, IInv, TypeOK, ctxVars, mainVars
    <3>2. result = Pending
      BY <1>4, WorkerRunning DEF Phases, IInv
    <3>3. o \in Outcomes /\ o # Unset
      BY OutcomeType DEF Unset
    <3>4. o.class = "cancelled" => parent # "live" \/ Genuine # {}
      BY <1>4, <2>2, OutcomeType, WorkerRunning DEF FinishRun, Causes, IInv
    <3> HIDE DEF o
    <3>5. Verdict!Finish(index[w], o)
      BY <3>1, <3>2, <3>3, <3>4, VerdictSets DEF Verdict!Finish
    <3> QED
      BY <3>1, <3>3, <3>5 DEF Verdict!Next
  <2> QED
    BY <1>4, <2>1, <2>2 DEF Worker
<1> QED
  BY <1>1, <1>2, <1>3, <1>4 DEF Next, Returned

\* A fuzz campaign, whatever its workers do, returns the verdict its finished
\* controls and its caller justify.
THEOREM CampaignImplementsVerdict == Spec => ImplementsVerdict
<1>1. Init => Verdict!Init
  BY DEF Init, Verdict!Init
<1> QED
  BY <1>1, StepImplementsVerdict, TypeCorrect, Invariance, PTL
     DEF Spec, ImplementsVerdict, Verdict!Spec

-----------------------------------------------------------------------------
(* Discovery: the inductive invariant, by concern *)

NamedPath == Seq(Names)
Places == {<<>>} \union Paths
ModuleRecord == [directory : NamedPath, path : Seq(STRING), version : Nat,
                 packages : BOOLEAN, production : BOOLEAN]

\* The repository: a path that was there all along is there, and one that is there was.
TreeOK ==
    /\ stable \subseteq present /\ present \subseteq seen /\ seen \subseteq Paths
    /\ Closed(stable) /\ Closed(present) /\ Closed(seen)

\* Paths none of which begins another.
Apart(s) == \A i, j \in DOMAIN s : i # j => ~IsPrefix(s[i], s[j])

\* What the walk still has to visit.
Held == IF phase = "walk" THEN ToSet(pending) ELSE {}

PendingOK ==
    phase = "walk" =>
        /\ pending \in Seq(Places)
        /\ Apart(pending)
        /\ \A r \in Held :
            /\ r # <<>> => r \in seen /\ Visible(r)
            /\ r # <<>> /\ r \notin Links /\ Kind(r) = "module" => Front(r) \in FoundAt
            /\ \A d \in FoundAt : ~IsPrefix(r, d)

\* The modules, each in a directory of its own, the root first.
ModulesOK ==
    /\ modules \in Seq(ModuleRecord)
    /\ Len(modules) <= MaxModules
    /\ \A i, j \in DOMAIN modules : modules[i].directory = modules[j].directory => i = j
    /\ inspected \in 0 .. Len(modules)
    /\ phase \notin {"walk", "rejected"} => modules # <<>> /\ modules[1].directory = <<>>

\* Nothing was found that never was.
FoundOK ==
    /\ FoundAt \subseteq WithModule(seen)
    /\ goFiles \subseteq OfKind({"code", "test"}, seen)
    /\ shellFiles \subseteq OfKind({"shell"}, seen)
    /\ workflowFiles \subseteq {p \in seen : IsWorkflow(p)}

\* Everything that was there all along is accounted for or below what is to be visited.
Accounted(p) ==
    /\ Kind(p) = "module" /\ p \notin Links => Front(p) \in FoundAt
    /\ Kind(p) \in {"code", "test"} => p \in goFiles
    /\ Kind(p) = "shell" => p \in shellFiles
    /\ IsWorkflow(p) => p \in workflowFiles

CoveredOK ==
    phase # "rejected" =>
        \A p \in stable : Visible(p) => Accounted(p) \/ \E r \in Held : IsPrefix(r, p)

\* No more entries were there all along than were read.
Read == {p \in stable : Visible(p) /\ \A r \in Held : ~Below(r, p)}

EntriesOK ==
    /\ phase = "walk" => entries \in 0 .. MaxEntries /\ Cardinality(Read) <= entries
    /\ phase \notin {"walk", "rejected"} => Cardinality(Read) <= MaxEntries

\* A module has packages when it is the nearest above some Go file that was found.
Mine(kinds, i) ==
    {p \in goFiles : Kind(p) \in kinds /\ Nearest(FoundAt, p) = modules[i].directory}

PackagesOK ==
    Discovered =>
        \A i \in DOMAIN modules :
            /\ modules[i].packages <=> Mine({"code", "test"}, i) # {}
            /\ modules[i].production <=> Mine({"code"}, i) # {}

DiscoveryIInv ==
    TreeOK /\ PendingOK /\ ModulesOK /\ FoundOK /\ CoveredOK /\ EntriesOK /\ PackagesOK

-----------------------------------------------------------------------------
(* Targets: the inductive invariant, by concern *)

\* A module is what its own go.mod says.
AsDescribed(m) ==
    m.path = Description[m.directory].path /\ m.version = Description[m.directory].version

\* What each module is found to be: as its go.mod says, if that never moved.
PathsOK ==
    /\ phase = "walk" => inspected = 0
    /\ phase \notin {"walk", "rejected"} =>
        \A i \in 1 .. inspected :
            modules[i].directory \in WithModule(stable) => AsDescribed(modules[i])
    /\ Discovered \/ phase = "classify" => inspected = Len(modules)

TargetRecord == [module : Seq(STRING), identity : Seq(STRING)]

ResultsOK == targets \in Seq(TargetRecord)

\* The test files of directory d whose targets must be found.
Due(d) ==
    {p \in stable \ Excluded :
        /\ d \in WithModule(stable)
        /\ Kind(p) = "test" /\ Below(d, p) /\ VisibleToGo(d, p)
        /\ \A e \in WithModule(seen) : Below(e, p) => ~Below(d, e)}

\* What identifies a target of file p in the inventory of module i.
Place(i, p) == modules[i].path \o SubSeq(Front(p), Len(modules[i].directory) + 1, Len(p) - 1)

Inventoried(i, p) == \A name \in FuzzNames(p) : Append(Place(i, p), name) \in Identities(targets)

Settled(i) == \A p \in Due(modules[i].directory) : Inventoried(i, p)

\* The modules with packages take turns, and those before this one are settled.
TurnOK ==
    /\ phase \in {"walk", "inspect", "classify", "discovered"} => turn = 0
    /\ phase \in {"list", "search", "done"} => turn \in DOMAIN modules /\ modules[turn].packages
    /\ phase \in {"list", "search"} =>
        \A i \in 1 .. turn - 1 : modules[i].packages => Settled(i)
    /\ phase = "done" => \A i \in DOMAIN modules : modules[i].packages => Settled(i)

\* Within a turn, each file due is in the inventory or listed and still to be met.
SearchOK ==
    phase = "search" =>
        /\ pending \in Seq(Places)
        /\ \A r \in ToSet(pending) : IsPrefix(Directory, r)
        /\ \A p \in Due(Directory) :
            \/ Inventoried(turn, p)
            \/ p \in active /\ \E r \in ToSet(pending) : IsPrefix(r, p)

TargetsIInv == DiscoveryIInv /\ PathsOK /\ ResultsOK /\ TurnOK /\ SearchOK

-----------------------------------------------------------------------------
(* Paths *)

LEMMA PathsAreNamed ==
    /\ Paths \subseteq NamedPath \ {<<>>}
    /\ Places \subseteq NamedPath
    /\ IsFiniteSet(Paths)
    /\ Workflows \in NamedPath
<1> USE DiscoveryAssumption
<1> DEFINE Proper == NamedPath \ {<<>>}
<1>1. Listing \in Seq(Proper)
  BY DEF NamedPath
<1> HIDE DEF Proper
<1>2. DOMAIN Listing = 1 .. Len(Listing) /\ Len(Listing) \in Nat
      /\ \A i \in DOMAIN Listing : Listing[i] \in Proper
  BY <1>1
<1>3. Paths \subseteq Proper
  BY <1>2 DEF Paths, ToSet
<1>4. <<>> \in NamedPath
  BY DEF NamedPath
<1>5. IsFiniteSet(Paths)
  <2>1. IsFiniteSet(1 .. Len(Listing))
    BY <1>2, FS_Interval
  <2>2. Paths = {Listing[i] : i \in 1 .. Len(Listing)}
    BY <1>2 DEF Paths, ToSet
  <2> DEFINE f == [i \in 1 .. Len(Listing) |-> Listing[i]]
  <2>3. f \in Surjection(1 .. Len(Listing), Paths)
    BY <2>2 DEF Surjection
  <2> QED
    BY <2>1, <2>3, FS_Surjection
<1> QED
  BY <1>3, <1>4, <1>5 DEF Places, Proper, NamedPath

\* A path without its last name.
LEMMA FrontMeans ==
    ASSUME NEW p \in NamedPath, p # <<>>
    PROVE  /\ Front(p) \in NamedPath /\ Len(Front(p)) = Len(p) - 1 /\ Len(p) \in Nat \ {0}
           /\ \A i \in 1 .. Len(p) - 1 : Front(p)[i] = p[i]
           /\ Front(p) = SubSeq(p, 1, Len(p) - 1)
           /\ Last(p) = p[Len(p)] /\ Last(p) \in Names
           /\ Below(Front(p), p)
<1>1. Len(p) \in Nat \ {0} /\ Len(p) - 1 \in 0 .. Len(p) /\ p[Len(p)] \in Names
  BY DEF NamedPath
<1>2. Front(p) = SubSeq(p, 1, Len(p) - 1)
  BY DEF Front
<1>3. /\ SubSeq(p, 1, Len(p) - 1) \in NamedPath /\ Len(SubSeq(p, 1, Len(p) - 1)) = Len(p) - 1
      /\ \A i \in 1 .. Len(p) - 1 : SubSeq(p, 1, Len(p) - 1)[i] = p[i]
      /\ IsPrefix(SubSeq(p, 1, Len(p) - 1), p)
  BY <1>1, PrefixOfLength DEF NamedPath
<1>4. Front(p) # p
  BY <1>1, <1>2, <1>3
<1> QED
  BY <1>1, <1>2, <1>3, <1>4 DEF Last, Below

\* What is directly below d on the way to p.
LEMMA NextMeans ==
    ASSUME NEW d \in NamedPath, NEW p \in NamedPath, Below(d, p)
    PROVE  LET q == SubSeq(p, 1, Len(d) + 1)
           IN /\ q \in NamedPath /\ q # <<>> /\ Front(q) = d /\ IsPrefix(q, p)
              /\ Len(q) = Len(d) + 1 /\ Len(d) \in 0 .. Len(p) - 1
              /\ Len(d) + 1 = Len(p) => q = p
<1> DEFINE n == Len(d) + 1
           q == SubSeq(p, 1, n)
<1>1. Len(d) \in Nat /\ Len(p) \in Nat /\ Len(d) < Len(p)
  BY PrefixShorter DEF NamedPath, Below
<1>2. n \in 0 .. Len(p)
  BY <1>1
<1> HIDE DEF n
<1>3. q \in NamedPath /\ Len(q) = n /\ IsPrefix(q, p)
  BY <1>2, PrefixOfLength DEF NamedPath
<1> HIDE DEF q
<1>4. q # <<>> /\ Len(q) = Len(d) + 1
  BY <1>1, <1>3 DEF n
<1>5. /\ Front(q) \in NamedPath /\ Len(Front(q)) = Len(d) /\ Below(Front(q), q)
  BY <1>1, <1>3, <1>4, FrontMeans
<1>6. IsPrefix(Front(q), p)
  BY <1>3, <1>5, PrefixTransitive DEF NamedPath, Below
<1>7. Front(q) = d
  BY <1>1, <1>5, <1>6, PrefixesCompare DEF NamedPath, Below
<1>8. ASSUME Len(d) + 1 = Len(p) PROVE q = p
  <2>1. IsPrefix(p, p) /\ Len(q) = Len(p)
    BY <1>4, <1>8, PrefixItself DEF NamedPath
  <2> QED
    BY <1>1, <1>3, <2>1, PrefixesCompare DEF NamedPath
<1> QED
  BY <1>1, <1>3, <1>4, <1>7, <1>8 DEF q, n

\* What is above a path of a closed set is a directory of it.
LEMMA ClosedAbove ==
    ASSUME NEW S \in SUBSET Paths, Closed(S), NEW p \in S, NEW d \in NamedPath,
           Below(d, p), d # <<>>
    PROVE  d \in S /\ d \in Directories
<1>1. p \in NamedPath
  BY PathsAreNamed
<1>2. Len(d) \in Nat /\ Len(p) \in Nat /\ Len(d) < Len(p) /\ Len(d) # 0
  BY <1>1, PrefixShorter DEF NamedPath, Below
<1>3. SubSeq(p, 1, Len(d)) = d
  BY <1>1, PrefixIsFirst DEF NamedPath, Below
<1>4. Len(d) \in 1 .. Len(p) - 1
  BY <1>2
<1> QED
  BY <1>3, <1>4 DEF Closed

LEMMA ClosedNext ==
    ASSUME NEW S \in SUBSET Paths, Closed(S), NEW p \in S, NEW d \in NamedPath, Below(d, p)
    PROVE  \E q \in S : Front(q) = d /\ IsPrefix(q, p)
<1>1. p \in NamedPath /\ p # <<>>
  BY PathsAreNamed
<1> DEFINE q == SubSeq(p, 1, Len(d) + 1)
<1>2. /\ q \in NamedPath /\ q # <<>> /\ Front(q) = d /\ IsPrefix(q, p)
  BY <1>1, NextMeans
<1> HIDE DEF q
<1>3. q \in S
  <2>1. CASE q = p
    BY <2>1
  <2>2. CASE q # p
    BY <1>1, <1>2, <2>2, ClosedAbove DEF Below
  <2> QED
    BY <2>1, <2>2
<1> QED
  BY <1>2, <1>3

\* What is below something below d is below d, and so is what that begins.
LEMMA BelowTransitive ==
    ASSUME NEW d \in NamedPath, NEW p \in NamedPath, NEW q \in NamedPath
    PROVE  /\ Below(d, p) /\ IsPrefix(p, q) => Below(d, q)
           /\ IsPrefix(d, p) /\ Below(p, q) => Below(d, q)
<1>1. Len(d) \in Nat /\ Len(p) \in Nat /\ Len(q) \in Nat
  BY DEF NamedPath
<1>2. ASSUME Below(d, p), IsPrefix(p, q) PROVE Below(d, q)
  <2>1. Len(d) < Len(p) /\ Len(p) <= Len(q) /\ IsPrefix(d, q)
    BY <1>2, PrefixShorter, PrefixMeans, PrefixTransitive DEF NamedPath, Below
  <2> QED
    BY <1>1, <2>1 DEF Below
<1>3. ASSUME IsPrefix(d, p), Below(p, q) PROVE Below(d, q)
  <2>1. Len(d) <= Len(p) /\ Len(p) < Len(q) /\ IsPrefix(d, q)
    BY <1>3, PrefixShorter, PrefixMeans, PrefixTransitive DEF NamedPath, Below
  <2> QED
    BY <1>1, <2>1 DEF Below
<1> QED
  BY <1>2, <1>3

\* The entry directly below d that begins p: entries of one directory differ.
LEMMA SiblingsApart ==
    ASSUME NEW p \in NamedPath \ {<<>>}, NEW q \in NamedPath \ {<<>>}, Front(p) = Front(q), p # q
    PROVE  ~IsPrefix(p, q)
<1>1. Len(p) = Len(q) /\ Len(p) \in Nat
  <2>1. Len(Front(p)) = Len(p) - 1 /\ Len(p) \in Nat
    BY FrontMeans
  <2>2. Len(Front(q)) = Len(q) - 1 /\ Len(q) \in Nat
    BY FrontMeans
  <2> QED
    BY <2>1, <2>2
<1> SUFFICES ASSUME IsPrefix(p, q) PROVE FALSE
  OBVIOUS
<1> QED
  BY <1>1, PrefixShorter DEF NamedPath

\* A path directly below d begins nothing that d does not.
LEMMA EntryBegins ==
    ASSUME NEW p \in NamedPath \ {<<>>}, NEW q \in NamedPath
    PROVE  /\ IsPrefix(p, q) => IsPrefix(Front(p), q)
           /\ IsPrefix(q, p) => q = p \/ IsPrefix(q, Front(p))
<1>1. Front(p) \in NamedPath /\ Below(Front(p), p) /\ Len(Front(p)) = Len(p) - 1
      /\ Len(p) \in Nat \ {0} /\ Len(q) \in Nat
  BY FrontMeans DEF NamedPath
<1>2. IsPrefix(p, q) => IsPrefix(Front(p), q)
  BY <1>1, PrefixTransitive DEF NamedPath, Below
<1>3. ASSUME IsPrefix(q, p), q # p PROVE IsPrefix(q, Front(p))
  <2>1. Len(q) < Len(p)
    BY <1>3, PrefixShorter DEF NamedPath
  <2> QED
    BY <1>1, <1>3, <2>1, PrefixesCompare DEF NamedPath, Below
<1> QED
  BY <1>2, <1>3

-----------------------------------------------------------------------------
(* What is listed, and what is visible *)

LEMMA EntriesAreListed ==
    ASSUME present \subseteq Paths, NEW d
    PROVE  /\ Entries(d) \in Seq(Paths) /\ IsInjective(Entries(d))
           /\ ToSet(Entries(d)) = {p \in present : Front(p) = d}
<1> DEFINE n == Len(Listing)
           In(p) == p \in present /\ Front(p) = d
           s == [i \in 1 .. n |-> IF In(Listing[i]) THEN <<Listing[i]>> ELSE <<>>]
<1>1. /\ n \in Nat /\ DOMAIN Listing = 1 .. n /\ \A i \in 1 .. n : Listing[i] \in Paths
      /\ \A i, j \in 1 .. n : Listing[i] = Listing[j] => i = j
      /\ Paths = {Listing[i] : i \in 1 .. n}
  <2>1. Listing \in Seq(Seq(Names) \ {<<>>}) /\ IsInjective(Listing)
    BY DiscoveryAssumption
  <2>2. n \in Nat /\ DOMAIN Listing = 1 .. n
    BY <2>1
  <2> QED
    BY <2>1, <2>2 DEF Paths, ToSet, IsInjective
<1>2. Entries(d) = FlattenSeq(s)
  BY <1>1 DEF Entries
<1> HIDE DEF n
<1>3. ASSUME NEW i \in 1 .. n
      PROVE  /\ s[i] \in Seq(Paths) /\ IsInjective(s[i])
             /\ ToSet(s[i]) = IF In(Listing[i]) THEN {Listing[i]} ELSE {}
  <2>1. PICK p \in Paths : p = Listing[i]
    BY <1>1
  <2>2. s[i] = IF In(p) THEN <<p>> ELSE <<>>
    BY <2>1
  <2> HIDE DEF s, In
  <2>3. <<p>> \in Seq(Paths) /\ ToSet(<<p>>) = {p} /\ ToSet(<<>>) = {} /\ <<>> \in Seq(Paths)
    BY MembersOfOne, MembersOfNone
  <2>4. IsInjective(<<p>>) /\ IsInjective(<<>>)
    BY DEF IsInjective
  <2>5. CASE In(p)
    BY <2>1, <2>2, <2>3, <2>4, <2>5, Zenon
  <2>6. CASE ~In(p)
    BY <2>1, <2>2, <2>3, <2>4, <2>6, Zenon
  <2> QED
    BY <2>5, <2>6
<1>4. s = [i \in 1 .. n |-> s[i]]
  OBVIOUS
<1> HIDE DEF s
<1>5. ASSUME NEW i \in 1 .. n, NEW j \in 1 .. n, i # j
      PROVE  ToSet(s[i]) \intersect ToSet(s[j]) = {}
  <2>1. Listing[i] # Listing[j]
    BY <1>1, <1>5
  <2>2. ToSet(s[i]) \subseteq {Listing[i]} /\ ToSet(s[j]) \subseteq {Listing[j]}
    BY <1>3
  <2> QED
    BY <2>1, <2>2
<1>6. IsInjective(FlattenSeq([i \in 1 .. n |-> s[i]]))
  <2>1. n \in Nat
    BY <1>1
  <2>2. \A i \in 1 .. n : s[i] \in Seq(Paths)
    BY <1>3
  <2>3. \A i \in 1 .. n : IsInjective(s[i])
    BY <1>3
  <2>4. \A i, j \in 1 .. n : i # j => ToSet(s[i]) \intersect ToSet(s[j]) = {}
    BY <1>5
  <2> QED
    BY <2>1, <2>2, <2>3, <2>4, DistinctFlatten
<1>7. s \in [1 .. n -> Seq(Paths)]
  BY <1>3, <1>4
<1>8. FlattenSeq(s) \in Seq(Paths) /\ ToSet(FlattenSeq(s)) = UNION {ToSet(s[i]) : i \in 1 .. n}
  <2>1. n \in Nat
    BY <1>1
  <2> QED
    BY <2>1, <1>7, MembersOfFlatten
<1>9. UNION {ToSet(s[i]) : i \in 1 .. n} = {p \in present : In(p)}
  <2>1. ASSUME NEW p \in present, In(p) PROVE \E i \in 1 .. n : p \in ToSet(s[i])
    <3>1. PICK i \in 1 .. n : p = Listing[i]
      BY <1>1
    <3>2. ToSet(s[i]) = {p}
      BY <1>3, <2>1, <3>1
    <3> QED
      BY <3>2
  <2>2. ASSUME NEW i \in 1 .. n, NEW p \in ToSet(s[i]) PROVE p \in present /\ In(p)
    <3>1. In(Listing[i]) /\ p = Listing[i]
      BY <1>3, <2>2
    <3> QED
      BY <3>1
  <2> QED
    BY <2>1, <2>2
<1>10. IsInjective(FlattenSeq(s))
  BY <1>4, <1>6
<1> QED
  BY <1>2, <1>8, <1>9, <1>10

LEMMA ContainsIsModule ==
    ASSUME present \subseteq Paths, NEW d
    PROVE  ContainsModule(Entries(d)) <=> IsModule(d)
<1> DEFINE list == Entries(d)
<1>1. ToSet(list) = {p \in present : Front(p) = d}
  BY EntriesAreListed
<1> HIDE DEF list
<1>2. ContainsModule(list) <=> \E p \in ToSet(list) : Kind(p) = "module" /\ p \notin Links
  BY DEF ContainsModule, ToSet
<1> QED
  BY <1>1, <1>2 DEF IsModule, list

LEMMA VisibleAbove ==
    ASSUME NEW p \in NamedPath, NEW q \in NamedPath, IsPrefix(p, q), Visible(q)
    PROVE  Visible(p)
<1>1. Len(p) \in Nat /\ Len(q) \in Nat /\ Len(p) <= Len(q) /\ \A i \in 1 .. Len(p) : p[i] = q[i]
  BY PrefixMeans DEF NamedPath
<1> QED
  BY <1>1 DEF Visible

LEMMA VisibleNext ==
    ASSUME NEW p \in NamedPath \ {<<>>}, Visible(Front(p)),
           Front(p) # <<>> => Kind(Front(p)) # "skipped"
    PROVE  Visible(p)
<1> DEFINE d == Front(p)
<1>1. /\ d \in NamedPath /\ Len(d) = Len(p) - 1 /\ Len(p) \in Nat \ {0}
      /\ \A i \in 1 .. Len(p) - 1 : d[i] = p[i]
  BY FrontMeans
<1>2. \A i \in 1 .. Len(d) - 1 : Class[d[i]] # "skipped"
  BY DEF Visible
<1>3. d # <<>> => Class[d[Len(d)]] # "skipped"
  BY DEF Kind, Last
<1> HIDE DEF d
<1>4. ASSUME NEW i \in 1 .. Len(p) - 1 PROVE Class[p[i]] # "skipped"
  <2>1. d[i] = p[i] /\ i \in 1 .. Len(d)
    BY <1>1
  <2>2. CASE i = Len(d)
    <3>1. d # <<>>
      BY <2>1, <2>2
    <3> QED
      BY <1>3, <2>1, <2>2, <3>1
  <2>3. CASE i # Len(d)
    BY <1>1, <1>2, <2>1, <2>3
  <2> QED
    BY <2>2, <2>3
<1> QED
  BY <1>4 DEF Visible

LEMMA VisibleBelow ==
    ASSUME NEW d \in NamedPath, NEW p \in NamedPath, Below(d, p), Visible(p), d # <<>>
    PROVE  Kind(d) # "skipped"
<1>1. /\ Len(d) \in Nat \ {0} /\ Len(p) \in Nat /\ Len(d) < Len(p)
      /\ \A i \in 1 .. Len(d) : d[i] = p[i]
  BY PrefixShorter, PrefixMeans DEF NamedPath, Below
<1>2. d[Len(d)] = p[Len(d)] /\ Len(d) \in 1 .. Len(p) - 1
  BY <1>1
<1> QED
  BY <1>2 DEF Visible, Kind, Last

LEMMA HasModule ==
    ASSUME NEW S, NEW d
    PROVE  d \in WithModule(S) <=>
             \E q \in S : q \notin Links /\ Kind(q) = "module" /\ Visible(q) /\ Front(q) = d
  BY DEF WithModule

\* A module's own directory is visible when its go.mod is.
LEMMA WorkflowsAreVisible ==
    ASSUME NEW p \in Paths, IsWorkflow(p)
    PROVE  Visible(p)
<1>1. p \in NamedPath /\ p # <<>> /\ Front(p) = Workflows
  BY PathsAreNamed DEF IsWorkflow
<1>2. /\ Len(Workflows) = Len(p) - 1 /\ \A i \in 1 .. Len(p) - 1 : Workflows[i] = p[i]
  BY <1>1, FrontMeans
<1>3. DOMAIN Workflows = 1 .. Len(Workflows) /\ \A i \in DOMAIN Workflows : Class[Workflows[i]] # "skipped"
  <2>1. Workflows \in Seq(Names) /\ \A i \in DOMAIN Workflows : Class[Workflows[i]] # "skipped"
    BY DiscoveryAssumption
  <2> QED
    BY <2>1
<1> QED
  BY <1>2, <1>3 DEF Visible

-----------------------------------------------------------------------------
(* The repository *)

LEMMA ReplaceKeeps ==
    ASSUME TreeOK, NEW S \in SUBSET Paths, Closed(S), Replace(S)
    PROVE  TreeOK' /\ stable' \subseteq stable /\ seen \subseteq seen'
<1>1. present' = S /\ stable' = stable \intersect S /\ seen' = seen \union S
  BY DEF Replace
<1>2. Closed(stable \intersect S) /\ Closed(seen \union S)
  BY DEF TreeOK, Closed
<1> QED
  BY <1>1, <1>2 DEF TreeOK, Closed

LEMMA ChangeKeeps ==
    ASSUME TreeOK, NEW p \in Paths, Create(p) \/ Delete(p)
    PROVE  TreeOK' /\ stable' \subseteq stable /\ seen \subseteq seen'
<1>1. p \in NamedPath /\ p # <<>> /\ present \in SUBSET Paths /\ Closed(present)
  BY PathsAreNamed DEF TreeOK
<1>2. CASE Create(p)
  <2>1. Front(p) \in {<<>>} \union (present \intersect Directories) /\ Replace(present \union {p})
    BY <1>2 DEF Create
  <2>2. ASSUME NEW n \in 1 .. Len(p) - 1
        PROVE  SubSeq(p, 1, n) \in present /\ SubSeq(p, 1, n) \in Directories
    <3> DEFINE a == SubSeq(p, 1, n)
    <3>1. n \in 0 .. Len(p) /\ Len(p) \in Nat \ {0}
      BY FrontMeans, <1>1
    <3>2. a \in NamedPath /\ Len(a) = n /\ IsPrefix(a, p)
      BY <1>1, <3>1, PrefixOfLength DEF NamedPath
    <3> HIDE DEF a
    <3>3. a # <<>> /\ a # p
      BY <3>1, <3>2
    <3>4. IsPrefix(a, Front(p))
      BY <1>1, <3>2, <3>3, EntryBegins
    <3>5. Front(p) \in NamedPath
      BY <1>1, FrontMeans
    <3>6. Front(p) # <<>>
      <4>1. Len(a) <= Len(Front(p))
        BY <3>2, <3>4, <3>5, PrefixMeans DEF NamedPath
      <4> QED
        BY <3>1, <3>2, <4>1
    <3>7. Front(p) \in present /\ Front(p) \in Directories
      BY <2>1, <3>6
    <3>8. a \in present /\ a \in Directories
      BY <1>1, <3>2, <3>3, <3>4, <3>7, ClosedAbove DEF Below
    <3> QED
      BY <3>8 DEF a
  <2>3. Closed(present \union {p})
    BY <1>1, <2>2 DEF Closed
  <2> QED
    BY <1>1, <2>1, <2>3, ReplaceKeeps
<1>3. CASE Delete(p)
  <2> DEFINE S == {q \in present : ~IsPrefix(p, q)}
  <2>1. Replace(S) /\ S \in SUBSET Paths
    BY <1>1, <1>3 DEF Delete
  <2>2. Closed(S)
    <3>1. SUFFICES ASSUME NEW q \in S, NEW n \in 1 .. Len(q) - 1
                   PROVE  SubSeq(q, 1, n) \in S /\ SubSeq(q, 1, n) \in Directories
      BY DEF Closed
    <3> DEFINE a == SubSeq(q, 1, n)
    <3>2. q \in NamedPath /\ q # <<>> /\ q \in present /\ ~IsPrefix(p, q)
      BY PathsAreNamed, <1>1
    <3>3. a \in present /\ a \in Directories
      BY <1>1, <3>2 DEF Closed
    <3>4. n \in 0 .. Len(q)
      BY <3>2, FrontMeans
    <3>5. a \in NamedPath /\ IsPrefix(a, q)
      BY <3>2, <3>4, PrefixOfLength DEF NamedPath
    <3> HIDE DEF a
    <3>6. ~IsPrefix(p, a)
      BY <1>1, <3>2, <3>5, PrefixTransitive DEF NamedPath
    <3> QED
      BY <3>3, <3>6 DEF a
  <2> HIDE DEF S
  <2> QED
    BY <2>1, <2>2, ReplaceKeeps
<1> QED
  BY <1>2, <1>3

-----------------------------------------------------------------------------
(* What is to be visited *)

LEMMA MembersAreCounted ==
    ASSUME NEW S, NEW s \in Seq(S)
    PROVE  IsFiniteSet(ToSet(s)) /\ Cardinality(ToSet(s)) \in Nat /\ Cardinality(ToSet(s)) <= Len(s)
<1> DEFINE n == Len(s)
           f == [i \in 1 .. n |-> s[i]]
<1>1. n \in Nat /\ DOMAIN s = 1 .. n
  OBVIOUS
<1> HIDE DEF n
<1>2. IsFiniteSet(1 .. n) /\ Cardinality(1 .. n) = n
  BY <1>1, FS_Interval
<1>3. f \in Surjection(1 .. n, ToSet(s))
  BY <1>1 DEF Surjection, ToSet
<1>4. IsFiniteSet(ToSet(s)) /\ Cardinality(ToSet(s)) <= Cardinality(1 .. n)
  BY <1>2, <1>3, FS_Surjection
<1> QED
  BY <1>2, <1>4, FS_CardinalityType DEF n

LEMMA HeadAndRest ==
    ASSUME NEW S, NEW s \in Seq(S), s # <<>>
    PROVE  /\ Head(s) \in S /\ Tail(s) \in Seq(S)
           /\ ToSet(s) = {Head(s)} \union ToSet(Tail(s)) /\ ToSet(s) \subseteq S
<1> DEFINE t == Tail(s)
<1>1. /\ Len(s) \in Nat \ {0} /\ DOMAIN s = 1 .. Len(s) /\ Head(s) = s[1]
      /\ t \in Seq(S) /\ Len(t) = Len(s) - 1 /\ DOMAIN t = 1 .. Len(s) - 1
      /\ \A i \in 1 .. Len(s) - 1 : t[i] = s[i + 1]
      /\ \A i \in 1 .. Len(s) : s[i] \in S
  OBVIOUS
<1> HIDE DEF t
<1>2. ASSUME NEW i \in 1 .. Len(s) PROVE s[i] = Head(s) \/ s[i] \in ToSet(t)
  <2>1. CASE i = 1
    BY <1>1, <2>1
  <2>2. CASE i # 1
    <3>1. i - 1 \in DOMAIN t /\ t[i - 1] = s[i]
      BY <1>1, <2>2
    <3> QED
      BY <3>1 DEF ToSet
  <2> QED
    BY <2>1, <2>2
<1>3. ASSUME NEW i \in DOMAIN t PROVE t[i] \in ToSet(s)
  BY <1>1 DEF ToSet
<1>4. Head(s) \in ToSet(s)
  BY <1>1 DEF ToSet
<1>5. ToSet(s) = {Head(s)} \union ToSet(t)
  BY <1>1, <1>2, <1>3, <1>4 DEF ToSet
<1>6. ToSet(s) \subseteq S
  BY <1>1 DEF ToSet
<1> QED
  BY <1>1, <1>5, <1>6 DEF t

LEMMA ApartRest ==
    ASSUME NEW S, NEW s \in Seq(S), s # <<>>, Apart(s)
    PROVE  /\ Apart(Tail(s))
           /\ \A r \in ToSet(Tail(s)) : ~IsPrefix(Head(s), r) /\ ~IsPrefix(r, Head(s))
<1> DEFINE t == Tail(s)
<1>1. /\ Len(s) \in Nat \ {0} /\ DOMAIN s = 1 .. Len(s) /\ Head(s) = s[1]
      /\ DOMAIN t = 1 .. Len(s) - 1
      /\ \A i \in 1 .. Len(s) - 1 : t[i] = s[i + 1]
  OBVIOUS
<1> HIDE DEF t
<1>2. ASSUME NEW i \in DOMAIN t, NEW j \in DOMAIN t, i # j PROVE ~IsPrefix(t[i], t[j])
  <2>1. i + 1 \in DOMAIN s /\ j + 1 \in DOMAIN s /\ i + 1 # j + 1
    BY <1>1, <1>2
  <2>2. ~IsPrefix(s[i + 1], s[j + 1])
    BY <2>1 DEF Apart
  <2> QED
    BY <1>1, <2>2
<1>3. ASSUME NEW i \in DOMAIN t PROVE ~IsPrefix(Head(s), t[i]) /\ ~IsPrefix(t[i], Head(s))
  <2>1. i + 1 \in DOMAIN s /\ 1 \in DOMAIN s /\ i + 1 # 1
    BY <1>1
  <2>2. ~IsPrefix(s[i + 1], s[1]) /\ ~IsPrefix(s[1], s[i + 1])
    BY <2>1 DEF Apart
  <2> QED
    BY <1>1, <2>2
<1> QED
  BY <1>2, <1>3 DEF Apart, ToSet, t

LEMMA ApartConcat ==
    ASSUME NEW S, NEW s \in Seq(S), NEW t \in Seq(S), Apart(s), Apart(t),
           \A p \in ToSet(s), q \in ToSet(t) : ~IsPrefix(p, q) /\ ~IsPrefix(q, p)
    PROVE  Apart(s \o t)
<1> DEFINE all == s \o t
           n == Len(s)
<1>1. /\ DOMAIN all = 1 .. n + Len(t) /\ DOMAIN s = 1 .. n /\ DOMAIN t = 1 .. Len(t)
      /\ n \in Nat /\ Len(t) \in Nat
      /\ \A i \in 1 .. n : all[i] = s[i]
      /\ \A i \in 1 .. Len(t) : all[n + i] = t[i]
  OBVIOUS
<1> HIDE DEF all, n
<1>2. ASSUME NEW i \in DOMAIN all
      PROVE  \/ i \in 1 .. n /\ all[i] = s[i] /\ all[i] \in ToSet(s)
             \/ i \notin 1 .. n /\ i - n \in 1 .. Len(t) /\ all[i] = t[i - n] /\ all[i] \in ToSet(t)
  <2>1. CASE i \in 1 .. n
    BY <1>1, <2>1 DEF ToSet
  <2>2. CASE i \notin 1 .. n
    <3>1. i - n \in 1 .. Len(t) /\ i = n + (i - n)
      BY <1>1, <2>2
    <3> QED
      BY <1>1, <2>2, <3>1 DEF ToSet
  <2> QED
    BY <2>1, <2>2
<1>3. ASSUME NEW i \in DOMAIN all, NEW j \in DOMAIN all, i # j PROVE ~IsPrefix(all[i], all[j])
  <2>1. CASE i \in 1 .. n /\ j \in 1 .. n
    <3>1. i \in DOMAIN s /\ j \in DOMAIN s /\ all[i] = s[i] /\ all[j] = s[j]
      BY <1>1, <2>1
    <3> QED
      BY <1>3, <3>1 DEF Apart
  <2>2. CASE i \notin 1 .. n /\ j \notin 1 .. n
    <3>1. i - n \in DOMAIN t /\ j - n \in DOMAIN t /\ all[i] = t[i - n] /\ all[j] = t[j - n]
      BY <1>1, <1>2, <2>2
    <3>2. i - n # j - n
      BY <1>1, <1>3
    <3> QED
      BY <3>1, <3>2 DEF Apart
  <2>3. CASE i \in 1 .. n /\ j \notin 1 .. n
    BY <1>2, <2>3
  <2>4. CASE i \notin 1 .. n /\ j \in 1 .. n
    BY <1>2, <2>4
  <2> QED
    BY <2>1, <2>2, <2>3, <2>4
<1> QED
  BY <1>3 DEF Apart, all

\* The entries of a directory that is about to be read.
LEMMA EntriesOfVisited ==
    ASSUME TreeOK, NEW d \in NamedPath
    PROVE  /\ Entries(d) \in Seq(Places) /\ Apart(Entries(d))
           /\ Len(Entries(d)) \in Nat /\ Cardinality(ToSet(Entries(d))) <= Len(Entries(d))
           /\ \A p : p \in ToSet(Entries(d)) <=> p \in present /\ Front(p) = d
           /\ \A p \in ToSet(Entries(d)) : p \in seen /\ p \in NamedPath \ {<<>>} /\ Below(d, p)
<1> DEFINE list == Entries(d)
<1>1. present \subseteq Paths /\ present \subseteq seen
  BY DEF TreeOK
<1>2. list \in Seq(Paths) /\ IsInjective(list) /\ ToSet(list) = {p \in present : Front(p) = d}
  BY <1>1, EntriesAreListed
<1> HIDE DEF list
<1>3. DOMAIN list = 1 .. Len(list) /\ Len(list) \in Nat /\ \A i \in DOMAIN list : list[i] \in Paths
  BY <1>2
<1>4. list \in Seq(Places)
  BY <1>2 DEF Places
<1>5. Apart(list)
  <2>1. SUFFICES ASSUME NEW i \in DOMAIN list, NEW j \in DOMAIN list, i # j
                 PROVE  ~IsPrefix(list[i], list[j])
    BY DEF Apart
  <2>2. list[i] # list[j]
    BY <1>2, <2>1 DEF IsInjective
  <2>3. list[i] \in NamedPath \ {<<>>} /\ list[j] \in NamedPath \ {<<>>}
    BY <1>3, PathsAreNamed
  <2>4. Front(list[i]) = d /\ Front(list[j]) = d
    BY <1>2 DEF ToSet
  <2> QED
    BY <2>2, <2>3, <2>4, SiblingsApart
<1>6. Cardinality(ToSet(list)) <= Len(list)
  BY <1>2, MembersAreCounted
<1>7. ASSUME NEW p \in ToSet(list)
      PROVE  p \in seen /\ p \in NamedPath \ {<<>>} /\ Below(d, p)
  <2>1. p \in NamedPath \ {<<>>} /\ Front(p) = d /\ p \in seen
    BY <1>1, <1>2, PathsAreNamed
  <2> QED
    BY <2>1, FrontMeans
<1> QED
  BY <1>2, <1>3, <1>4, <1>5, <1>6, <1>7 DEF list

-----------------------------------------------------------------------------
(* Discovery: each step preserves the invariant *)

LEMMA ReadIsFinite ==
    ASSUME TreeOK
    PROVE  IsFiniteSet(Read) /\ Cardinality(Read) \in Nat
<1>1. Read \subseteq Paths
  BY DEF Read, TreeOK
<1> QED
  BY <1>1, PathsAreNamed, FS_Subset, FS_CardinalityType

LEMMA DiscoveryInitKeeps == DiscoveryInit => DiscoveryIInv
<1> SUFFICES ASSUME DiscoveryInit PROVE DiscoveryIInv
  OBVIOUS
<1>1. TreeOK
  BY DiscoveryAssumption DEF DiscoveryInit, TreeOK
<1> DEFINE root == << <<>> >>
<1>2. pending = root /\ phase = "walk" /\ modules = <<>> /\ inspected = 0 /\ entries = 0
  BY DEF DiscoveryInit
<1>3. root \in Seq(Places) /\ ToSet(root) = {<<>>} /\ Apart(root)
  <2>1. <<>> \in Places
    BY DEF Places
  <2>2. Apart(root)
    BY DEF Apart
  <2> QED
    BY <2>1, <2>2, MembersOfOne
<1> HIDE DEF root
<1>4. Held = {<<>>} /\ FoundAt = {}
  BY <1>2, <1>3 DEF Held, FoundAt
<1>5. PendingOK
  BY <1>2, <1>3, <1>4 DEF PendingOK
<1>6. ModulesOK
  <2>1. modules \in Seq(ModuleRecord) /\ Len(modules) = 0
    BY <1>2
  <2>2. MaxModules \in Nat
    BY DiscoveryAssumption
  <2> QED
    BY <1>2, <2>1, <2>2 DEF ModulesOK
<1>7. FoundOK
  BY <1>4 DEF DiscoveryInit, FoundOK
<1>8. CoveredOK
  <2>1. SUFFICES ASSUME NEW p \in stable PROVE \E r \in Held : IsPrefix(r, p)
    BY DEF CoveredOK
  <2>2. p \in NamedPath
    BY <1>1, PathsAreNamed DEF TreeOK
  <2> QED
    BY <1>4, <2>2, PrefixItself DEF NamedPath
<1>9. EntriesOK
  <2>1. Read = {}
    <3>1. SUFFICES ASSUME NEW p \in stable PROVE Below(<<>>, p)
      BY <1>4 DEF Read
    <3>2. p \in NamedPath /\ p # <<>>
      BY <1>1, PathsAreNamed DEF TreeOK
    <3>3. IsPrefix(<<>>, p)
      BY <3>2, PrefixItself DEF NamedPath
    <3> QED
      BY <3>2, <3>3 DEF Below
  <2>2. Cardinality(Read) = 0
    BY <2>1, FS_EmptySet
  <2>3. MaxEntries \in Nat
    BY DiscoveryAssumption
  <2> QED
    BY <1>2, <2>2, <2>3 DEF EntriesOK
<1>10. PackagesOK
  BY <1>2 DEF PackagesOK, Discovered
<1> QED
  BY <1>1, <1>5, <1>6, <1>7, <1>8, <1>9, <1>10 DEF DiscoveryIInv

\* A change of the repository.
LEMMA TreeKeeps ==
    ASSUME DiscoveryIInv, TreeOK', stable' \subseteq stable, seen \subseteq seen',
           UNCHANGED <<phase, walked, found>>
    PROVE  DiscoveryIInv'
<1>1. /\ phase' = phase /\ pending' = pending /\ entries' = entries /\ modules' = modules
      /\ inspected' = inspected /\ goFiles' = goFiles /\ shellFiles' = shellFiles
      /\ workflowFiles' = workflowFiles
  BY DEF walked, found
<1>2. Held' = Held /\ FoundAt' = FoundAt /\ Discovered' = Discovered
  BY <1>1 DEF Held, FoundAt, Discovered
<1>3. PendingOK'
  BY <1>1, <1>2 DEF DiscoveryIInv, PendingOK
<1>4. ModulesOK'
  BY <1>1 DEF DiscoveryIInv, ModulesOK
<1>5. FoundOK'
  <2>1. WithModule(seen) \subseteq WithModule(seen')
    BY DEF WithModule
  <2>2. \A kinds : OfKind(kinds, seen) \subseteq OfKind(kinds, seen')
    BY DEF OfKind
  <2>3. /\ WithModule(seen)' = WithModule(seen')
        /\ OfKind({"code", "test"}, seen)' = OfKind({"code", "test"}, seen')
        /\ OfKind({"shell"}, seen)' = OfKind({"shell"}, seen')
    BY DEF WithModule, OfKind
  <2> QED
    BY <1>1, <1>2, <2>1, <2>2, <2>3 DEF DiscoveryIInv, FoundOK
<1>6. CoveredOK'
  BY <1>1, <1>2 DEF DiscoveryIInv, CoveredOK, Accounted
<1>7. EntriesOK'
  <2>1. Read' \subseteq Read
    BY <1>2 DEF Read
  <2>2. IsFiniteSet(Read) /\ Cardinality(Read) \in Nat
    BY ReadIsFinite DEF DiscoveryIInv
  <2>3. Cardinality(Read') <= Cardinality(Read) /\ Cardinality(Read') \in Nat
    BY <2>1, <2>2, FS_Subset, FS_CardinalityType
  <2>4. MaxEntries \in Nat
    BY DiscoveryAssumption
  <2> QED
    BY <1>1, <2>2, <2>3, <2>4 DEF DiscoveryIInv, EntriesOK
<1>8. PackagesOK'
  <2>1. \A kinds, i : Mine(kinds, i)' = Mine(kinds, i)
    BY <1>1, <1>2 DEF Mine
  <2> QED
    BY <1>1, <1>2, <2>1 DEF DiscoveryIInv, PackagesOK
<1> QED
  BY <1>3, <1>4, <1>5, <1>6, <1>7, <1>8 DEF DiscoveryIInv

\* A step after the walk, or one that refuses, that leaves what was found alone.
LEMMA LaterKeeps ==
    ASSUME DiscoveryIInv, UNCHANGED <<tree, found>>,
           \/ phase' = "rejected"
           \/ /\ phase \notin {"walk", "rejected"} /\ phase' # "walk"
              /\ Discovered' => Discovered
    PROVE  DiscoveryIInv'
<1>1. /\ modules' = modules /\ inspected' = inspected /\ goFiles' = goFiles
      /\ shellFiles' = shellFiles /\ workflowFiles' = workflowFiles
      /\ present' = present /\ stable' = stable /\ seen' = seen
  BY DEF tree, found
<1>2. Held' = {} /\ FoundAt' = FoundAt /\ phase' # "walk"
  BY <1>1 DEF Held, FoundAt
<1>3. PendingOK'
  BY <1>2 DEF PendingOK
<1>4. ModulesOK'
  BY <1>1 DEF DiscoveryIInv, ModulesOK
<1>5. FoundOK'
  BY <1>1, <1>2 DEF DiscoveryIInv, FoundOK, WithModule, OfKind
<1>6. CoveredOK' /\ EntriesOK'
  <2>1. CASE phase' = "rejected"
    BY <2>1 DEF CoveredOK, EntriesOK
  <2>2. CASE phase' # "rejected"
    <3>1. phase \notin {"walk", "rejected"} /\ Held = {}
      BY <2>2 DEF Held
    <3>2. Read' = Read
      BY <1>1, <1>2, <3>1 DEF Read
    <3> QED
      BY <1>1, <1>2, <3>1, <3>2 DEF DiscoveryIInv, CoveredOK, EntriesOK, Accounted
  <2> QED
    BY <2>1, <2>2
<1>7. PackagesOK'
  <2>1. \A kinds, i : Mine(kinds, i)' = Mine(kinds, i)
    BY <1>1, <1>2 DEF Mine
  <2>2. Discovered' => Discovered
    BY DEF Discovered
  <2> QED
    BY <1>1, <1>2, <2>1, <2>2 DEF DiscoveryIInv, PackagesOK
<1>8. TreeOK'
  BY <1>1 DEF DiscoveryIInv, TreeOK
<1> QED
  BY <1>3, <1>4, <1>5, <1>6, <1>7, <1>8 DEF DiscoveryIInv

LEMMA AtHead ==
    ASSUME DiscoveryIInv, phase = "walk", pending # <<>>
    PROVE  /\ Head(pending) \in Places /\ Head(pending) \in NamedPath /\ Visible(Head(pending))
           /\ Head(pending) # <<>> => Head(pending) \in seen
           /\ Tail(pending) \in Seq(Places) /\ Apart(Tail(pending))
           /\ Held = {Head(pending)} \union ToSet(Tail(pending))
           /\ \A r \in ToSet(Tail(pending)) :
                r \in NamedPath /\ ~IsPrefix(Head(pending), r) /\ ~IsPrefix(r, Head(pending))
<1> DEFINE d == Head(pending)
           rest == Tail(pending)
<1>1. pending \in Seq(Places) /\ Apart(pending) /\ Held = ToSet(pending)
  BY DEF DiscoveryIInv, PendingOK, Held
<1>2. /\ d \in Places /\ rest \in Seq(Places) /\ Held = {d} \union ToSet(rest)
      /\ ToSet(pending) \subseteq Places
  BY <1>1, HeadAndRest
<1>3. /\ Apart(rest) /\ \A r \in ToSet(rest) : ~IsPrefix(d, r) /\ ~IsPrefix(r, d)
  BY <1>1, ApartRest
<1>4. d \in NamedPath /\ \A r \in ToSet(rest) : r \in NamedPath
  BY <1>1, <1>2, PathsAreNamed
<1>5. d # <<>> => d \in seen /\ Visible(d)
  BY <1>2 DEF DiscoveryIInv, PendingOK
<1>6. d = <<>> => Visible(d)
  BY DEF Visible
<1> QED
  BY <1>2, <1>3, <1>4, <1>5, <1>6

\* The first entry is done with, and nothing that was there all along is below it.
LEMMA RestKeeps ==
    ASSUME DiscoveryIInv, phase = "walk", phase' = "walk", pending # <<>>,
           NEW d, d = Head(pending),
           pending' = Tail(pending), UNCHANGED <<tree, entries, modules, inspected>>, FoundOK',
           \A p \in stable : Visible(p) => ~Below(d, p), d \in stable => Accounted(d)',
           goFiles \subseteq goFiles', shellFiles \subseteq shellFiles',
           workflowFiles \subseteq workflowFiles'
    PROVE  DiscoveryIInv'
<1> DEFINE rest == Tail(pending)
<1>1. /\ present' = present /\ stable' = stable /\ seen' = seen
  BY DEF tree
<1>2. /\ d \in NamedPath /\ rest \in Seq(Places) /\ Apart(rest)
      /\ Held = {d} \union ToSet(rest)
  BY AtHead
<1>3. pending' = rest
  OBVIOUS
<1>4. \A p \in stable : Visible(p) => ~Below(d, p)
  OBVIOUS
<1>5. d \in stable => Accounted(d)'
  OBVIOUS
<1> HIDE DEF rest
<1>6. Held' = ToSet(rest) /\ FoundAt' = FoundAt
  BY <1>3 DEF Held, FoundAt
<1>7. TreeOK'
  BY <1>1 DEF DiscoveryIInv, TreeOK
<1>8. PendingOK'
  BY <1>1, <1>2, <1>3, <1>6 DEF DiscoveryIInv, PendingOK
<1>9. ModulesOK'
  BY DEF DiscoveryIInv, ModulesOK
<1>10. CoveredOK'
  <2>1. SUFFICES ASSUME NEW p \in stable, Visible(p), \A r \in ToSet(rest) : ~IsPrefix(r, p)
                 PROVE  Accounted(p)'
    BY <1>1, <1>6 DEF CoveredOK
  <2>2. Accounted(p) \/ IsPrefix(d, p)
    BY <1>2, <2>1 DEF DiscoveryIInv, CoveredOK
  <2>3. CASE Accounted(p)
    BY <1>6, <2>3 DEF Accounted
  <2>4. CASE IsPrefix(d, p)
    <3>1. d = p
      BY <1>4, <2>1, <2>4 DEF Below
    <3> QED
      BY <1>5, <2>1, <3>1
  <2> QED
    BY <2>2, <2>3, <2>4
<1>11. EntriesOK'
  <2>1. Read' = Read
    BY <1>1, <1>2, <1>4, <1>6 DEF Read
  <2> QED
    BY <2>1 DEF DiscoveryIInv, EntriesOK
<1>12. PackagesOK'
  BY DEF PackagesOK, Discovered
<1> QED
  BY <1>7, <1>8, <1>9, <1>10, <1>11, <1>12 DEF DiscoveryIInv

LEMMA IgnoredKeeps ==
    ASSUME DiscoveryIInv, phase = "walk", pending # <<>>, Head(pending) \in Directories,
           Ignored(Head(pending)), pending' = Tail(pending),
           UNCHANGED <<tree, entries, found, phase>>
    PROVE  DiscoveryIInv'
<1> PICK d : d = Head(pending)
  OBVIOUS
<1>1. d \in NamedPath /\ d # <<>> /\ Kind(d) = "skipped"
  BY AtHead DEF Ignored
<1>2. /\ modules' = modules /\ inspected' = inspected /\ goFiles' = goFiles
      /\ shellFiles' = shellFiles /\ workflowFiles' = workflowFiles /\ seen' = seen
  BY DEF found, tree
<1>3. FoundAt' = FoundAt
  BY <1>2 DEF FoundAt
<1>4. FoundOK'
  BY <1>2, <1>3 DEF DiscoveryIInv, FoundOK, WithModule, OfKind
<1>5. ASSUME NEW p \in stable, Visible(p) PROVE ~Below(d, p)
  <2>1. p \in NamedPath
    BY PathsAreNamed DEF DiscoveryIInv, TreeOK
  <2> QED
    BY <1>1, <1>5, <2>1, VisibleBelow
<1>6. Accounted(d)'
  <2>1. ~IsWorkflow(d) /\ Kind(d) \notin {"module", "code", "test", "shell"}
    BY <1>1 DEF IsWorkflow
  <2> QED
    BY <2>1 DEF Accounted
<1> QED
  BY <1>2, <1>4, <1>5, <1>6, RestKeeps

LEMMA FileKeeps ==
    ASSUME DiscoveryIInv, phase = "walk", pending # <<>>, Head(pending) \notin Directories,
           Refused(Head(pending)) = None, AddFile(Head(pending)), pending' = Tail(pending),
           UNCHANGED <<tree, entries, modules, inspected, phase>>
    PROVE  DiscoveryIInv'
<1> PICK f : f = Head(pending)
  OBVIOUS
<1>1. f \in NamedPath /\ f # <<>> /\ f \in seen /\ Visible(f)
  <2>1. <<>> \in Directories
    BY DEF Directories
  <2> QED
    BY <2>1, AtHead
<1>2. seen' = seen /\ FoundAt' = FoundAt
  BY DEF tree, FoundAt
<1>3. /\ goFiles' = IF Kind(f) \in {"code", "test"} THEN goFiles \union {f} ELSE goFiles
      /\ shellFiles' = IF Kind(f) = "shell" THEN shellFiles \union {f} ELSE shellFiles
      /\ workflowFiles' = IF IsWorkflow(f) THEN workflowFiles \union {f} ELSE workflowFiles
  BY DEF AddFile
<1>4. Kind(f) = "module" /\ f \notin Links => Front(f) \in FoundAt
  <2>1. f \in Held
    BY AtHead
  <2> QED
    BY <1>1, <2>1 DEF DiscoveryIInv, PendingOK
<1>5. ASSUME NEW p \in stable, Visible(p) PROVE ~Below(f, p)
  <2>1. stable \in SUBSET Paths /\ Closed(stable)
    BY DEF DiscoveryIInv, TreeOK
  <2> QED
    BY <1>1, <2>1, ClosedAbove
<1>6. Accounted(f)'
  BY <1>2, <1>3, <1>4 DEF Accounted, IsWorkflow
<1>7. FoundOK'
  <2>1. \A kinds : OfKind(kinds, seen)' = OfKind(kinds, seen)
    BY <1>2 DEF OfKind
  <2>2. \A kinds : Kind(f) \in kinds => f \in OfKind(kinds, seen)
    BY <1>1 DEF OfKind
  <2>3. WithModule(seen)' = WithModule(seen)
    BY <1>2 DEF WithModule
  <2>4. FoundOK
    BY DEF DiscoveryIInv
  <2>5. FoundAt' \subseteq WithModule(seen)'
    BY <1>2, <2>3, <2>4 DEF FoundOK
  <2>6. goFiles' \subseteq OfKind({"code", "test"}, seen)'
    <3>1. Kind(f) \in {"code", "test"} => f \in OfKind({"code", "test"}, seen)
      BY <2>2
    <3>2. OfKind({"code", "test"}, seen)' = OfKind({"code", "test"}, seen)
      BY <2>1
    <3> QED
      BY <1>3, <3>1, <3>2, <2>4 DEF FoundOK
  <2>7. shellFiles' \subseteq OfKind({"shell"}, seen)'
    <3>1. Kind(f) = "shell" => f \in OfKind({"shell"}, seen)
      BY <2>2
    <3>2. OfKind({"shell"}, seen)' = OfKind({"shell"}, seen)
      BY <2>1
    <3> QED
      BY <1>3, <3>1, <3>2, <2>4 DEF FoundOK
  <2>8. workflowFiles' \subseteq {p \in seen : IsWorkflow(p)}'
    BY <1>1, <1>2, <1>3, <2>4 DEF FoundOK
  <2> QED
    BY <2>5, <2>6, <2>7, <2>8 DEF FoundOK
<1>8. goFiles \subseteq goFiles' /\ shellFiles \subseteq shellFiles'
      /\ workflowFiles \subseteq workflowFiles'
  BY <1>3
<1> QED
  BY <1>5, <1>6, <1>7, <1>8, RestKeeps

\* A directory is read: its entries take its place.
LEMMA ReadKeeps ==
    ASSUME DiscoveryIInv, phase = "walk", phase' = "walk", pending # <<>>,
           NEW d \in Directories, d = Head(pending), ~Ignored(d), Readable(d),
           entries' = entries + Len(Entries(d)), pending' = Entries(d) \o Tail(pending),
           UNCHANGED <<tree, inspected, goFiles, shellFiles, workflowFiles>>,
           \/ ~IsModule(d) /\ modules' = modules
           \/ /\ IsModule(d) /\ Len(modules) < MaxModules
              /\ modules' = Append(modules, Module(d, <<>>, 0))
    PROVE  DiscoveryIInv'
<1> DEFINE list == Entries(d)
           rest == Tail(pending)
<1>1. TreeOK /\ PendingOK /\ ModulesOK /\ FoundOK /\ CoveredOK /\ EntriesOK
  BY DEF DiscoveryIInv
<1>2. /\ present' = present /\ stable' = stable /\ seen' = seen /\ inspected' = inspected
      /\ goFiles' = goFiles /\ shellFiles' = shellFiles /\ workflowFiles' = workflowFiles
  BY DEF tree
<1>3. /\ d \in NamedPath /\ Visible(d) /\ rest \in Seq(Places) /\ Apart(rest)
      /\ Held = {d} \union ToSet(rest)
      /\ \A r \in ToSet(rest) : r \in NamedPath /\ ~IsPrefix(d, r) /\ ~IsPrefix(r, d)
  BY AtHead
<1>4. /\ list \in Seq(Places) /\ Apart(list)
      /\ Len(list) \in Nat /\ Cardinality(ToSet(list)) <= Len(list)
      /\ \A p : p \in ToSet(list) <=> p \in present /\ Front(p) = d
      /\ \A p \in ToSet(list) : p \in seen /\ p \in NamedPath \ {<<>>} /\ Below(d, p)
  BY <1>1, <1>3, EntriesOfVisited
<1>5. pending' = list \o rest /\ entries' = entries + Len(list) /\ Len(list) <= MaxEntries - entries
  BY DEF Readable
<1>6. IsFiniteSet(ToSet(list)) /\ Cardinality(ToSet(list)) \in Nat
  BY <1>4, MembersAreCounted
<1> HIDE DEF list, rest
<1>7. pending' \in Seq(Places) /\ Held' = ToSet(list) \union ToSet(rest)
  <2>1. list \o rest \in Seq(Places) /\ ToSet(list \o rest) = ToSet(list) \union ToSet(rest)
    BY <1>3, <1>4, ConcatLaws, MembersOfConcat
  <2> QED
    BY <1>5, <2>1 DEF Held
<1>8. FoundAt' = IF IsModule(d) THEN FoundAt \union {d} ELSE FoundAt
  <2>1. CASE ~IsModule(d)
    BY <2>1 DEF FoundAt
  <2>2. CASE IsModule(d)
    <3> DEFINE n == Len(modules)
               m == Module(d, <<>>, 0)
    <3>1. modules \in Seq(ModuleRecord) /\ m.directory = d /\ modules' = Append(modules, m)
      BY <1>1, <2>2 DEF ModulesOK, Module
    <3> HIDE DEF m
    <3>2. /\ n \in Nat /\ DOMAIN modules = 1 .. n /\ DOMAIN modules' = 1 .. n + 1
          /\ modules'[n + 1] = m /\ \A i \in 1 .. n : modules'[i] = modules[i]
      BY <3>1
    <3> HIDE DEF n
    <3>3. 1 .. n + 1 = (1 .. n) \union {n + 1}
      BY <3>2
    <3> QED
      BY <2>2, <3>1, <3>2, <3>3 DEF FoundAt
  <2> QED
    BY <2>1, <2>2
<1>9. ASSUME NEW p \in ToSet(list) PROVE Visible(p)
  <2>1. p \in NamedPath \ {<<>>} /\ Front(p) = d
    BY <1>4
  <2>2. d # <<>> => Kind(d) # "skipped"
    BY DEF Ignored
  <2> QED
    BY <1>3, <2>1, <2>2, VisibleNext
<1>10. ASSUME NEW e \in FoundAt PROVE e \in NamedPath /\ ~IsPrefix(d, e)
  <2>1. modules \in Seq(ModuleRecord)
    BY <1>1 DEF ModulesOK
  <2>2. PICK i \in DOMAIN modules : e = modules[i].directory
    BY DEF FoundAt
  <2>3. modules[i] \in ModuleRecord
    BY <2>1
  <2>4. e \in NamedPath
    BY <2>2, <2>3 DEF ModuleRecord
  <2> QED
    BY <1>1, <1>3, <2>4 DEF PendingOK
<1>11. d \notin FoundAt
  BY <1>3, <1>10, PrefixItself DEF NamedPath
<1>12. TreeOK'
  BY <1>1, <1>2 DEF TreeOK
<1>13. Apart(pending')
  <2>1. ASSUME NEW p \in ToSet(list), NEW r \in ToSet(rest)
        PROVE  ~IsPrefix(p, r) /\ ~IsPrefix(r, p)
    <3>1. p \in NamedPath \ {<<>>} /\ Front(p) = d /\ Below(d, p)
      BY <1>4
    <3>2. r \in NamedPath /\ ~IsPrefix(d, r) /\ ~IsPrefix(r, d)
      BY <1>3
    <3>3. ~IsPrefix(p, r)
      BY <3>1, <3>2, EntryBegins
    <3>4. ~IsPrefix(r, p)
      BY <3>1, <3>2, EntryBegins DEF Below
    <3> QED
      BY <3>3, <3>4
  <2> QED
    BY <1>3, <1>4, <1>5, <2>1, ApartConcat
<1>14. PendingOK'
  <2>1. ASSUME NEW r \in ToSet(list)
        PROVE  /\ r # <<>> => r \in seen /\ Visible(r)
               /\ r \notin Links /\ Kind(r) = "module" => Front(r) \in FoundAt'
               /\ \A e \in FoundAt' : ~IsPrefix(r, e)
    <3>1. r \in seen /\ r \in present /\ Front(r) = d /\ r \in NamedPath \ {<<>>} /\ Below(d, r)
      BY <1>4
    <3>2. r \notin Links /\ Kind(r) = "module" => d \in FoundAt'
      BY <1>8, <3>1 DEF IsModule
    <3>3. ASSUME NEW e \in FoundAt' PROVE ~IsPrefix(r, e)
      <4>1. CASE e \in FoundAt
        <5>1. e \in NamedPath /\ ~IsPrefix(d, e)
          BY <1>10, <4>1
        <5> QED
          BY <3>1, <5>1, EntryBegins
      <4>2. CASE e = d
        <5>1. Len(d) < Len(r) /\ Len(d) \in Nat /\ Len(r) \in Nat
          BY <1>3, <3>1, PrefixShorter DEF NamedPath, Below
        <5>2. IsPrefix(r, d) => Len(r) <= Len(d)
          BY <1>3, <3>1, PrefixMeans DEF NamedPath
        <5> QED
          BY <4>2, <5>1, <5>2
      <4> QED
        BY <1>8, <4>1, <4>2
    <3> QED
      BY <1>9, <3>1, <3>2, <3>3
  <2>2. ASSUME NEW r \in ToSet(rest)
        PROVE  /\ r # <<>> => r \in seen /\ Visible(r)
               /\ r # <<>> /\ r \notin Links /\ Kind(r) = "module" => Front(r) \in FoundAt'
               /\ \A e \in FoundAt' : ~IsPrefix(r, e)
    <3>1. r \in Held /\ ~IsPrefix(r, d)
      BY <1>3
    <3> QED
      BY <1>1, <1>8, <3>1 DEF PendingOK
  <2> QED
    BY <1>2, <1>7, <1>13, <2>1, <2>2 DEF PendingOK
<1>15. ModulesOK'
  <2>1. CASE ~IsModule(d)
    BY <1>1, <1>2, <2>1 DEF ModulesOK
  <2>2. CASE IsModule(d)
    <3> DEFINE n == Len(modules)
               m == Module(d, <<>>, 0)
    <3>1. /\ modules \in Seq(ModuleRecord) /\ m.directory = d /\ modules' = Append(modules, m)
          /\ n < MaxModules /\ n <= MaxModules
      BY <1>1, <2>2 DEF ModulesOK, Module
    <3>2. m \in ModuleRecord
      BY <1>3 DEF Module, ModuleRecord
    <3> HIDE DEF m
    <3>3. /\ n \in Nat /\ DOMAIN modules = 1 .. n /\ DOMAIN modules' = 1 .. n + 1
          /\ modules'[n + 1] = m /\ \A i \in 1 .. n : modules'[i] = modules[i]
          /\ modules' \in Seq(ModuleRecord) /\ Len(modules') = n + 1
      BY <3>1, <3>2
    <3> HIDE DEF n
    <3>4. \A i \in 1 .. n : modules[i].directory # d
      BY <1>11, <3>3 DEF FoundAt
    <3>5. ASSUME NEW i \in 1 .. n + 1, NEW j \in 1 .. n + 1,
                 modules'[i].directory = modules'[j].directory
          PROVE  i = j
      <4>1. CASE i = n + 1 \/ j = n + 1
        BY <3>1, <3>3, <3>4, <3>5, <4>1
      <4>2. CASE i # n + 1 /\ j # n + 1
        <5>1. i \in 1 .. n /\ j \in 1 .. n
          BY <3>3, <4>2
        <5>2. modules[i].directory = modules[j].directory
          BY <3>3, <3>5, <5>1
        <5> QED
          BY <1>1, <3>3, <5>1, <5>2 DEF ModulesOK
      <4> QED
        BY <4>1, <4>2
    <3>6. n + 1 <= MaxModules /\ inspected' \in 0 .. n + 1
      <4>1. inspected \in 0 .. n /\ MaxModules \in Nat
        BY <1>1, DiscoveryAssumption DEF ModulesOK, n
      <4> QED
        BY <1>2, <3>1, <3>3, <4>1
    <3> QED
      BY <3>3, <3>5, <3>6 DEF ModulesOK
  <2> QED
    BY <2>1, <2>2
<1>16. FoundOK'
  <2>1. IsModule(d) => d \in WithModule(seen)
    <3>1. SUFFICES ASSUME IsModule(d) PROVE d \in WithModule(seen)
      OBVIOUS
    <3>2. PICK q \in present \ Links : Front(q) = d /\ Kind(q) = "module"
      BY <3>1 DEF IsModule
    <3>3. q \in ToSet(list) /\ q \in seen
      BY <1>4, <3>2
    <3> QED
      BY <1>9, <3>2, <3>3, HasModule
  <2> QED
    BY <1>1, <1>2, <1>8, <2>1 DEF FoundOK, WithModule, OfKind
\* What was there all along below d begins with an entry of d.
<1>17. ASSUME NEW p \in stable, Below(d, p) PROVE \E q \in ToSet(list) : IsPrefix(q, p)
  <2>1. stable \in SUBSET Paths /\ Closed(stable) /\ stable \subseteq present
    BY <1>1 DEF TreeOK
  <2>2. PICK q \in stable : Front(q) = d /\ IsPrefix(q, p)
    BY <1>3, <1>17, <2>1, ClosedNext
  <2> QED
    BY <1>4, <2>1, <2>2
<1>18. CoveredOK'
  <2>1. SUFFICES ASSUME NEW p \in stable, Visible(p),
                        \A r \in ToSet(list) \union ToSet(rest) : ~IsPrefix(r, p)
                 PROVE  Accounted(p)'
    BY <1>2, <1>7 DEF CoveredOK
  <2>2. Accounted(p) \/ IsPrefix(d, p)
    BY <1>1, <1>3, <2>1 DEF CoveredOK
  <2>3. CASE Accounted(p)
    BY <1>2, <1>8, <2>3 DEF Accounted
  <2>4. CASE IsPrefix(d, p)
    <3>1. p = d
      BY <1>17, <2>1, <2>4 DEF Below
    <3>2. p # <<>>
      BY <1>1, <2>1, PathsAreNamed DEF TreeOK
    <3>3. Kind(d) \in {"skipped", "hidden", "directory"}
      BY <3>1, <3>2 DEF Directories, Kind
    <3>4. ~IsWorkflow(d) /\ Kind(d) \notin {"module", "code", "test", "shell"}
      BY <3>3 DEF IsWorkflow
    <3> QED
      BY <3>1, <3>4 DEF Accounted
  <2> QED
    BY <2>2, <2>3, <2>4
<1>19. EntriesOK'
  <2>1. entries \in 0 .. MaxEntries /\ Cardinality(Read) <= entries /\ MaxEntries \in Nat
    BY <1>1, DiscoveryAssumption DEF EntriesOK
  <2>2. Read' \subseteq Read \union ToSet(list)
    <3>1. SUFFICES ASSUME NEW p \in stable, Visible(p),
                          \A r \in ToSet(list) \union ToSet(rest) : ~Below(r, p)
                   PROVE  p \in Read \/ p \in ToSet(list)
      BY <1>2, <1>7 DEF Read
    <3>2. CASE ~Below(d, p)
      BY <1>3, <3>1, <3>2 DEF Read
    <3>3. CASE Below(d, p)
      <4>1. PICK q \in ToSet(list) : IsPrefix(q, p)
        BY <1>17, <3>3
      <4> QED
        BY <3>1, <4>1 DEF Below
    <3> QED
      BY <3>2, <3>3
  <2>3. IsFiniteSet(Read) /\ Cardinality(Read) \in Nat
    BY <1>1, ReadIsFinite
  <2> DEFINE both == Read \union ToSet(list)
  <2>4. /\ IsFiniteSet(both)
        /\ Cardinality(both) = Cardinality(Read) + Cardinality(ToSet(list))
                                 - Cardinality(Read \intersect ToSet(list))
    BY <1>6, <2>3, FS_Union
  <2>5. Cardinality(Read \intersect ToSet(list)) \in Nat
    BY <2>3, FS_Subset, FS_CardinalityType
  <2>6. Cardinality(Read') <= Cardinality(both) /\ Cardinality(Read') \in Nat
        /\ Cardinality(both) \in Nat
    BY <2>2, <2>4, FS_Subset, FS_CardinalityType
  <2> HIDE DEF both
  <2>7. Cardinality(Read') <= entries' /\ entries' \in 0 .. MaxEntries
    BY <1>4, <1>5, <1>6, <2>1, <2>3, <2>4, <2>5, <2>6
  <2> QED
    BY <2>7 DEF EntriesOK
<1>20. PackagesOK'
  BY DEF PackagesOK, Discovered
<1> QED
  BY <1>12, <1>14, <1>15, <1>16, <1>18, <1>19, <1>20 DEF DiscoveryIInv

-----------------------------------------------------------------------------
(* The modules *)

\* The go.mod that the go command finds for a directory.
LEMMA GoverningMeans ==
    ASSUME present \subseteq Paths, NEW d \in NamedPath, Governed(d)
    PROVE  LET g == SubSeq(d, 1, Max(Governing(d)))
           IN g \in DOMAIN Description /\ (IsModule(d) => g = d)
<1> DEFINE n == Max(Governing(d))
           g == SubSeq(d, 1, n)
<1>1. Len(d) \in Nat /\ Governing(d) # {} /\ Governing(d) \subseteq 0 .. Len(d)
  BY DEF NamedPath, Governing, Governed
<1>2. n \in Governing(d) /\ \A m \in Governing(d) : m <= n
  BY <1>1, GreatestOf
<1> HIDE DEF n
<1>3. n \in 0 .. Len(d) /\ IsModule(g)
  BY <1>2 DEF Governing
<1>4. g \in DOMAIN Description
  <2> HIDE DEF g
  <2>1. PICK p \in present \ Links : Front(p) = g /\ Kind(p) = "module"
    BY <1>3 DEF IsModule
  <2>2. p \in {q \in Paths \ Links : Class[Last(q)] = "module"}
    BY <2>1 DEF Kind
  <2> QED
    BY <2>1, <2>2, DiscoveryAssumption
<1>5. SubSeq(d, 1, Len(d)) = d
  BY PrefixItself, PrefixIsFirst DEF NamedPath
<1>6. ASSUME IsModule(d) PROVE g = d
  <2>1. Len(d) \in Governing(d)
    <3> PICK m : m = Len(d)
      OBVIOUS
    <3>1. m \in 0 .. Len(d) /\ SubSeq(d, 1, m) = d
      BY <1>1, <1>5
    <3>2. m \in Governing(d)
      BY <1>6, <3>1 DEF Governing
    <3> QED
      BY <3>2
  <2>2. n = Len(d)
    BY <1>1, <1>2, <1>3, <2>1
  <2> QED
    BY <1>5, <2>2
<1> QED
  BY <1>4, <1>6 DEF n

LEMMA EndWalkKeeps ==
    ASSUME DiscoveryIInv, EndWalk
    PROVE  DiscoveryIInv'
<1>1. phase = "walk" /\ pending = <<>> /\ UNCHANGED <<tree, found>>
  BY DEF EndWalk
<1>2. CASE ~ValidLayout
  BY <1>1, <1>2, LaterKeeps DEF EndWalk, Refuse
<1>3. CASE ValidLayout
  <2>1. phase' = "inspect"
    BY <1>3 DEF EndWalk
  <2>2. /\ modules' = modules /\ inspected' = inspected /\ goFiles' = goFiles
        /\ shellFiles' = shellFiles /\ workflowFiles' = workflowFiles
        /\ present' = present /\ stable' = stable /\ seen' = seen
    BY <1>1 DEF tree, found
  <2>3. Held = {} /\ Held' = {} /\ FoundAt' = FoundAt
    BY <1>1, <2>1, <2>2, MembersOfNone DEF Held, FoundAt
  <2>4. TreeOK' /\ PendingOK' /\ PackagesOK'
    BY <2>1, <2>2 DEF DiscoveryIInv, TreeOK, PendingOK, PackagesOK, Discovered
  <2>5. ModulesOK'
    BY <1>3, <2>2 DEF DiscoveryIInv, ModulesOK, ValidLayout
  <2>6. FoundOK'
    BY <2>2, <2>3 DEF DiscoveryIInv, FoundOK, WithModule, OfKind
  <2>7. CoveredOK'
    BY <1>1, <2>2, <2>3 DEF DiscoveryIInv, CoveredOK, Accounted
  <2>8. EntriesOK'
    <3>1. Read' = Read
      BY <2>2, <2>3 DEF Read
    <3>2. IsFiniteSet(Read) /\ Cardinality(Read) \in Nat /\ MaxEntries \in Nat
      BY ReadIsFinite, DiscoveryAssumption DEF DiscoveryIInv
    <3> QED
      BY <1>1, <2>1, <3>1, <3>2 DEF DiscoveryIInv, EntriesOK
  <2> QED
    BY <2>4, <2>5, <2>6, <2>7, <2>8 DEF DiscoveryIInv
<1> QED
  BY <1>2, <1>3

LEMMA VisitKeeps ==
    ASSUME DiscoveryIInv, Visit
    PROVE  DiscoveryIInv'
<1>1. phase = "walk" /\ pending # <<>> /\ UNCHANGED tree
  BY DEF Visit
<1> DEFINE d == Head(pending)
<1>2. CASE VisitDirectory
  <2>1. CASE Ignored(d) /\ pending' = Tail(pending) /\ UNCHANGED <<entries, found, phase, refusal>>
    BY <1>1, <1>2, <2>1, IgnoredKeeps DEF VisitDirectory
  <2>2. CASE UNCHANGED <<walked, found>> /\ phase' = "rejected"
    BY <1>1, <2>2, LaterKeeps
  <2>3. CASE ~Ignored(d) /\ ReadDirectory(d)
    <3>1. CASE phase' = phase
      <4> PICK e \in Directories : e = Head(pending)
        BY <1>2 DEF VisitDirectory
      <4>1. Readable(e) /\ ~Ignored(e)
            /\ entries' = entries + Len(Entries(e)) /\ pending' = Entries(e) \o Tail(pending)
            /\ UNCHANGED <<inspected, goFiles, shellFiles, workflowFiles>>
        BY <2>3 DEF ReadDirectory
      <4>2. ContainsModule(Entries(e)) <=> IsModule(e)
        BY ContainsIsModule DEF DiscoveryIInv, TreeOK
      <4>3. \/ ~IsModule(e) /\ modules' = modules
            \/ /\ IsModule(e) /\ Len(modules) < MaxModules
               /\ modules' = Append(modules, Module(e, <<>>, 0))
        BY <1>1, <2>3, <3>1, <4>2 DEF ReadDirectory, Refuse
      <4> QED
        BY <1>1, <3>1, <4>1, <4>3, ReadKeeps
    <3>2. CASE phase' # phase
      <4>1. phase' = "rejected" /\ UNCHANGED found
        BY <2>3, <3>2 DEF ReadDirectory, Refuse, found
      <4> QED
        BY <1>1, <4>1, LaterKeeps
    <3> QED
      BY <3>1, <3>2
  <2> QED
    BY <1>2, <2>1, <2>2, <2>3 DEF VisitDirectory, Unreadable, Refuse
<1>3. CASE VisitFile
  <2>1. CASE Refused(d) = None
    BY <1>1, <1>3, <2>1, FileKeeps DEF VisitFile
  <2>2. CASE Refused(d) # None
    BY <1>1, <1>3, <2>2, LaterKeeps DEF VisitFile, Refuse
  <2> QED
    BY <2>1, <2>2
<1> QED
  BY <1>2, <1>3 DEF Visit

\* A go.mod is read: one module changes, and its directory stays.
LEMMA InspectMeans ==
    ASSUME DiscoveryIInv, InspectModule, phase' # "rejected"
    PROVE  /\ phase = "inspect" /\ phase' = phase
           /\ UNCHANGED <<tree, goFiles, shellFiles, workflowFiles>>
           /\ modules # <<>> /\ modules[1].directory = <<>> /\ modules \in Seq(ModuleRecord)
           /\ inspected \in Nat /\ inspected' = inspected + 1 /\ inspected' \in DOMAIN modules
           /\ modules' \in Seq(ModuleRecord) /\ Len(modules') = Len(modules)
           /\ DOMAIN modules' = DOMAIN modules
           /\ \A i \in DOMAIN modules :
                /\ modules'[i].directory = modules[i].directory
                /\ i # inspected + 1 => modules'[i] = modules[i]
                /\ i = inspected + 1 /\ IsModule(modules[i].directory) => AsDescribed(modules'[i])
<1> DEFINE k == inspected + 1
<1> PICK d : d = modules[k].directory
  OBVIOUS
<1> PICK read : read = Description[SubSeq(d, 1, Max(Governing(d)))]
  OBVIOUS
<1>1. /\ phase = "inspect" /\ inspected < Len(modules)
      /\ UNCHANGED <<tree, goFiles, shellFiles, workflowFiles>>
      /\ Governed(d) /\ modules' = [modules EXCEPT ![k] = Module(d, read.path, read.version)]
      /\ inspected' = k /\ phase' = phase
  BY DEF InspectModule, Refuse
<1>2. /\ modules \in Seq(ModuleRecord) /\ inspected \in 0 .. Len(modules)
      /\ modules # <<>> /\ modules[1].directory = <<>>
  BY <1>1 DEF DiscoveryIInv, ModulesOK
<1>3. k \in 1 .. Len(modules) /\ Len(modules) \in Nat /\ DOMAIN modules = 1 .. Len(modules)
      /\ inspected \in Nat
  BY <1>1, <1>2
<1>4. d \in NamedPath
  <2>1. modules[k] \in ModuleRecord
    BY <1>2, <1>3
  <2> QED
    BY <2>1 DEF ModuleRecord
<1>5. /\ read.path \in Seq(STRING) /\ read.version \in Nat
      /\ IsModule(d) => read = Description[d]
  <2>1. /\ SubSeq(d, 1, Max(Governing(d))) \in DOMAIN Description
        /\ IsModule(d) => SubSeq(d, 1, Max(Governing(d))) = d
    BY <1>1, <1>4, GoverningMeans DEF DiscoveryIInv, TreeOK
  <2>2. read \in [path : Seq(STRING), version : Nat, tools : BOOLEAN, replace : BOOLEAN]
    BY <2>1, DiscoveryAssumption
  <2> QED
    BY <2>1, <2>2
<1> PICK m : m = Module(d, read.path, read.version)
  OBVIOUS
<1>6. m \in ModuleRecord /\ m.directory = d /\ m.path = read.path /\ m.version = read.version
  BY <1>4, <1>5 DEF Module, ModuleRecord
<1> HIDE DEF k
<1>7. /\ modules' \in Seq(ModuleRecord) /\ Len(modules') = Len(modules)
      /\ DOMAIN modules' = DOMAIN modules
      /\ \A i \in DOMAIN modules : modules'[i] = IF i = k THEN m ELSE modules[i]
  <2>1. modules' = [modules EXCEPT ![k] = m] /\ m \in ModuleRecord
    BY <1>1, <1>6
  <2> QED
    BY <1>2, <1>3, <2>1
<1>8. \A i \in DOMAIN modules :
        /\ modules'[i].directory = modules[i].directory
        /\ i # k => modules'[i] = modules[i]
        /\ i = k /\ IsModule(modules[i].directory) => AsDescribed(modules'[i])
  BY <1>5, <1>6, <1>7 DEF AsDescribed
<1> QED
  BY <1>1, <1>2, <1>3, <1>7, <1>8 DEF k

LEMMA InspectKeeps ==
    ASSUME DiscoveryIInv, InspectModule
    PROVE  DiscoveryIInv'
<1>1. CASE phase' = "rejected"
  <2>1. UNCHANGED <<tree, found>>
    BY <1>1 DEF InspectModule, Refuse, found
  <2> QED
    BY <1>1, <2>1, LaterKeeps
<1>2. CASE phase' # "rejected"
  <2>1. /\ phase = "inspect" /\ phase' = phase
        /\ UNCHANGED <<tree, goFiles, shellFiles, workflowFiles>>
        /\ modules # <<>> /\ modules[1].directory = <<>> /\ modules \in Seq(ModuleRecord)
        /\ inspected \in Nat /\ inspected' = inspected + 1 /\ inspected' \in DOMAIN modules
        /\ modules' \in Seq(ModuleRecord) /\ Len(modules') = Len(modules)
        /\ DOMAIN modules' = DOMAIN modules
        /\ \A i \in DOMAIN modules : modules'[i].directory = modules[i].directory
    BY <1>2, InspectMeans
  <2>2. /\ goFiles' = goFiles /\ shellFiles' = shellFiles /\ workflowFiles' = workflowFiles
        /\ present' = present /\ stable' = stable /\ seen' = seen
    BY <2>1 DEF tree
  <2>3. FoundAt' = FoundAt
    BY <2>1 DEF FoundAt
  <2>4. Held = {} /\ Held' = {}
    BY <2>1 DEF Held
  <2>5. TreeOK' /\ PendingOK' /\ PackagesOK'
    BY <2>1, <2>2 DEF DiscoveryIInv, TreeOK, PendingOK, PackagesOK, Discovered
  <2>6. ModulesOK'
    <3>1. inspected' \in 0 .. Len(modules) /\ 1 \in DOMAIN modules /\ modules' # <<>>
      BY <2>1
    <3>2. Len(modules) <= MaxModules
          /\ \A i, j \in DOMAIN modules : modules[i].directory = modules[j].directory => i = j
      BY DEF DiscoveryIInv, ModulesOK
    <3>3. modules'[1].directory = <<>>
      BY <2>1, <3>1
    <3>4. \A i, j \in DOMAIN modules' : modules'[i].directory = modules'[j].directory => i = j
      BY <2>1, <3>2
    <3> QED
      BY <2>1, <3>1, <3>2, <3>3, <3>4 DEF ModulesOK
  <2>7. FoundOK'
    BY <2>2, <2>3 DEF DiscoveryIInv, FoundOK, WithModule, OfKind
  <2>8. CoveredOK'
    BY <2>1, <2>2, <2>3, <2>4 DEF DiscoveryIInv, CoveredOK, Accounted
  <2>9. EntriesOK'
    <3>1. Read' = Read
      BY <2>2, <2>4 DEF Read
    <3> QED
      BY <2>1, <3>1 DEF DiscoveryIInv, EntriesOK
  <2> QED
    BY <2>5, <2>6, <2>7, <2>8, <2>9 DEF DiscoveryIInv
<1> QED
  BY <1>1, <1>2

-----------------------------------------------------------------------------
(* The nearest module *)

\* There is a nearest directory above a path, and it is the longest.
LEMMA NearestMeans ==
    ASSUME NEW dirs \in SUBSET NamedPath, <<>> \in dirs, NEW p \in NamedPath \ {<<>>}
    PROVE  /\ Nearest(dirs, p) \in dirs /\ Below(Nearest(dirs, p), p)
           /\ \A e \in dirs : Below(e, p) =>
                Len(e) <= Len(Nearest(dirs, p)) /\ ~Below(Nearest(dirs, p), e)
<1> DEFINE Above == {d \in dirs : Below(d, p)}
           Lengths == {Len(d) : d \in Above}
           Best(d) == d \in dirs /\ Below(d, p) /\ \A e \in dirs : Below(e, p) => ~Below(d, e)
<1>1. Len(p) \in Nat /\ p \in NamedPath /\ \A d \in NamedPath : Len(d) \in Nat
  BY DEF NamedPath
<1>2. ASSUME NEW d \in Above PROVE Len(d) \in 0 .. Len(p)
  <2>1. Len(d) < Len(p)
    BY <1>2, PrefixShorter DEF NamedPath, Below
  <2> QED
    BY <1>1, <2>1
<1>3. <<>> \in Above
  BY PrefixItself DEF NamedPath, Below
<1>4. PICK n \in Lengths : \A m \in Lengths : n >= m
  <2>1. Lengths \in SUBSET (0 .. Len(p)) /\ Lengths # {}
    BY <1>2, <1>3
  <2>2. Max(Lengths) \in Lengths /\ \A y \in Lengths : Max(Lengths) >= y
    BY <1>1, <2>1, GreatestOf
  <2> QED
    BY <2>2
<1>5. PICK d \in Above : n = Len(d)
  BY <1>4
<1>6. Best(d)
  <2>1. SUFFICES ASSUME NEW e \in dirs, Below(e, p), Below(d, e) PROVE FALSE
    OBVIOUS
  <2>2. Len(d) < Len(e)
    BY <2>1, PrefixShorter DEF NamedPath, Below
  <2>3. Len(d) >= Len(e)
    BY <1>4, <1>5, <2>1
  <2> QED
    BY <1>1, <2>2, <2>3
<1> PICK x : x = Nearest(dirs, p)
  OBVIOUS
<1>7. Best(x)
  BY <1>6 DEF Nearest
<1>8. ASSUME NEW e \in dirs, Below(e, p) PROVE Len(e) <= Len(x)
  <2>1. SUFFICES ASSUME Len(x) < Len(e) PROVE Below(x, e)
    BY <1>1, <1>7, <1>8
  <2>2. IsPrefix(x, e)
    BY <1>1, <1>7, <1>8, <2>1, PrefixesCompare DEF NamedPath, Below
  <2> QED
    BY <1>1, <2>1, <2>2 DEF Below
<1> QED
  BY <1>7, <1>8

LEMMA NearestIsLongest ==
    ASSUME NEW dirs \in SUBSET NamedPath, <<>> \in dirs, NEW p \in NamedPath \ {<<>>},
           NEW d \in dirs, Below(d, p), \A e \in dirs : Below(e, p) => Len(e) <= Len(d)
    PROVE  d = Nearest(dirs, p)
<1> PICK x : x = Nearest(dirs, p)
  OBVIOUS
<1>1. x \in dirs /\ Below(x, p) /\ Len(d) <= Len(x)
  BY NearestMeans
<1>2. Len(x) = Len(d)
  BY <1>1 DEF NamedPath
<1> QED
  BY <1>1, <1>2, PrefixesCompare DEF NamedPath, Below

\* The modules' directories.
LEMMA FoundDirectories ==
    ASSUME ModulesOK
    PROVE  /\ FoundAt \subseteq NamedPath
           /\ \A i \in DOMAIN modules : modules[i] \in ModuleRecord /\ modules[i].directory \in NamedPath
           /\ modules # <<>> => 1 \in DOMAIN modules
<1>1. modules \in Seq(ModuleRecord)
  BY DEF ModulesOK
<1>2. ASSUME NEW i \in DOMAIN modules
      PROVE  modules[i] \in ModuleRecord /\ modules[i].directory \in NamedPath
  <2>1. modules[i] \in ModuleRecord
    BY <1>1
  <2> QED
    BY <2>1 DEF ModuleRecord
<1>3. modules # <<>> => 1 \in DOMAIN modules
  BY <1>1
<1> QED
  BY <1>2, <1>3 DEF FoundAt

\* A Go file's module is the nearest one upwards.
LEMMA OwnerIsNearest ==
    ASSUME ModulesOK, modules # <<>>, modules[1].directory = <<>>,
           NEW p \in NamedPath \ {<<>>}, NEW i \in DOMAIN modules
    PROVE  Owner(p) = i <=> Nearest(FoundAt, p) = modules[i].directory
<1>1. FoundAt \in SUBSET NamedPath /\ <<>> \in FoundAt
  BY FoundDirectories DEF FoundAt
<1> PICK d : d = Nearest(FoundAt, p)
  OBVIOUS
<1>2. /\ d \in FoundAt /\ Below(d, p)
      /\ \A e \in FoundAt : Below(e, p) => Len(e) <= Len(d)
  BY <1>1, NearestMeans
<1>3. PICK j \in DOMAIN modules : modules[j].directory = d
  BY <1>2 DEF FoundAt
<1> DEFINE Best(k) ==
      /\ Below(modules[k].directory, p)
      /\ \A l \in DOMAIN modules :
            Below(modules[l].directory, p) =>
              Length(modules[l].directory) <= Length(modules[k].directory)
<1>4. Best(j)
  BY <1>2, <1>3 DEF FoundAt, Length
<1>5. Owner(p) \in DOMAIN modules /\ Best(Owner(p))
  BY <1>4 DEF Owner
<1>6. modules[Owner(p)].directory = d
  <2> PICK k \in DOMAIN modules : k = Owner(p)
    BY <1>5
  <2> PICK e : e = modules[k].directory
    OBVIOUS
  <2>1. e \in FoundAt
    BY DEF FoundAt
  <2>2. Below(e, p)
    BY <1>5
  <2>3. \A x \in FoundAt : Below(x, p) => Len(x) <= Len(e)
    BY <1>5 DEF FoundAt, Length
  <2>4. e = Nearest(FoundAt, p)
    BY <1>1, <2>1, <2>2, <2>3, NearestIsLongest
  <2> QED
    BY <2>4
<1> QED
  BY <1>5, <1>6 DEF ModulesOK

HasPackages(i) == \E p \in goFiles : Owner(p) = i
HasProduction(i) == \E p \in goFiles : Owner(p) = i /\ Kind(p) = "code"

LEMMA ClassifyMeans ==
    ASSUME ModulesOK, ClassifyPackages
    PROVE  /\ modules' \in Seq(ModuleRecord) /\ Len(modules') = Len(modules)
           /\ DOMAIN modules' = DOMAIN modules
           /\ \A i \in DOMAIN modules :
                /\ modules'[i].directory = modules[i].directory
                /\ modules'[i].path = modules[i].path /\ modules'[i].version = modules[i].version
                /\ modules'[i].packages = HasPackages(i)
                /\ modules'[i].production = HasProduction(i)
<1>1. ModulesOK /\ modules \in Seq(ModuleRecord)
  BY DEF ModulesOK
<1>2. modules' = [i \in DOMAIN modules |->
         [modules[i] EXCEPT !.packages = HasPackages(i), !.production = HasProduction(i)]]
  BY DEF ClassifyPackages, HasPackages, HasProduction
<1>3. \A i : HasPackages(i) \in BOOLEAN /\ HasProduction(i) \in BOOLEAN
  BY DEF HasPackages, HasProduction
<1>4. /\ DOMAIN modules' = DOMAIN modules
      /\ \A i \in DOMAIN modules :
           modules'[i] = [modules[i] EXCEPT !.packages = HasPackages(i), !.production = HasProduction(i)]
  BY <1>2
<1>5. ASSUME NEW i \in DOMAIN modules
      PROVE  /\ modules'[i] \in ModuleRecord /\ modules'[i].directory = modules[i].directory
             /\ modules'[i].packages = HasPackages(i) /\ modules'[i].production = HasProduction(i)
             /\ modules'[i].path = modules[i].path /\ modules'[i].version = modules[i].version
  <2>1. modules[i] \in ModuleRecord
    BY <1>1, FoundDirectories
  <2> PICK m \in ModuleRecord : m = modules[i]
    BY <2>1
  <2> PICK a \in BOOLEAN : a = HasPackages(i)
    BY <1>3
  <2> PICK b \in BOOLEAN : b = HasProduction(i)
    BY <1>3
  <2>2. modules'[i] = [m EXCEPT !.packages = a, !.production = b]
    BY <1>4
  <2> PICK c : c = [m EXCEPT !.packages = a]
    OBVIOUS
  <2>3. c \in ModuleRecord /\ c.directory = m.directory /\ c.path = m.path /\ c.packages = a
        /\ c.version = m.version
    BY DEF ModuleRecord
  <2> PICK e : e = [c EXCEPT !.production = b]
    OBVIOUS
  <2>4. /\ e \in ModuleRecord /\ e.directory = c.directory /\ e.path = c.path
        /\ e.version = c.version /\ e.packages = c.packages /\ e.production = b
    BY <2>3 DEF ModuleRecord
  <2>5. modules'[i] = e
    BY <2>2
  <2> QED
    BY <2>3, <2>4, <2>5
<1>6. modules' \in Seq(ModuleRecord) /\ Len(modules') = Len(modules)
  <2>1. DOMAIN modules = 1 .. Len(modules) /\ Len(modules) \in Nat
    BY <1>1
  <2>2. modules' = [i \in 1 .. Len(modules) |-> modules'[i]]
    BY <1>2, <2>1
  <2>3. \A i \in 1 .. Len(modules) : modules'[i] \in ModuleRecord
    BY <1>5, <2>1
  <2> QED
    BY <2>1, <2>2, <2>3
<1> QED
  BY <1>4, <1>5, <1>6

LEMMA ClassifyKeeps ==
    ASSUME DiscoveryIInv, ClassifyPackages
    PROVE  DiscoveryIInv'
<1>1. phase = "classify" /\ phase' = "discovered"
      /\ UNCHANGED <<tree, ended, walked, inspected, goFiles, shellFiles, workflowFiles>>
  BY DEF ClassifyPackages
<1>2. TreeOK /\ ModulesOK /\ FoundOK /\ CoveredOK /\ EntriesOK
      /\ modules # <<>> /\ modules[1].directory = <<>> /\ modules \in Seq(ModuleRecord)
  BY <1>1 DEF DiscoveryIInv, ModulesOK
<1>3. /\ present' = present /\ stable' = stable /\ seen' = seen /\ inspected' = inspected
      /\ goFiles' = goFiles /\ shellFiles' = shellFiles /\ workflowFiles' = workflowFiles
  BY <1>1 DEF tree
<1>4. /\ modules' \in Seq(ModuleRecord) /\ Len(modules') = Len(modules)
      /\ DOMAIN modules' = DOMAIN modules
      /\ \A i \in DOMAIN modules :
           /\ modules'[i].directory = modules[i].directory
           /\ modules'[i].packages = HasPackages(i)
           /\ modules'[i].production = HasProduction(i)
  BY <1>2, ClassifyMeans
<1>5. FoundAt' = FoundAt
  BY <1>4 DEF FoundAt
<1>6. Held = {} /\ Held' = {}
  BY <1>1 DEF Held
<1>7. TreeOK' /\ PendingOK'
  BY <1>1, <1>2, <1>3 DEF TreeOK, PendingOK
<1>8. ModulesOK'
  <2>1. 1 \in DOMAIN modules
    BY <1>2, FoundDirectories
  <2>2. modules'[1].directory = <<>>
    BY <1>2, <1>4, <2>1
  <2>3. \A i, j \in DOMAIN modules' : modules'[i].directory = modules'[j].directory => i = j
    BY <1>2, <1>4 DEF ModulesOK
  <2>4. modules' # <<>> /\ Len(modules') <= MaxModules /\ inspected' \in 0 .. Len(modules')
    <3>1. Len(modules) <= MaxModules /\ inspected \in 0 .. Len(modules)
      BY <1>2 DEF ModulesOK
    <3>2. modules' # <<>>
      <4>1. Len(modules) # 0
        BY <1>2
      <4> QED
        BY <1>4, <4>1
    <3> QED
      BY <1>3, <1>4, <3>1, <3>2
  <2> QED
    BY <1>4, <2>2, <2>3, <2>4 DEF ModulesOK
<1>9. FoundOK'
  BY <1>2, <1>3, <1>5 DEF FoundOK, WithModule, OfKind
<1>10. CoveredOK'
  BY <1>1, <1>2, <1>3, <1>5, <1>6 DEF CoveredOK, Accounted
<1>11. EntriesOK'
  <2>1. Read' = Read
    BY <1>3, <1>6 DEF Read
  <2> QED
    BY <1>1, <1>2, <2>1 DEF EntriesOK
<1>12. ASSUME NEW i \in DOMAIN modules
       PROVE  /\ HasPackages(i) <=> Mine({"code", "test"}, i) # {}
              /\ HasProduction(i) <=> Mine({"code"}, i) # {}
  <2>1. ASSUME NEW p \in goFiles
        PROVE  /\ Kind(p) \in {"code", "test"}
               /\ Owner(p) = i <=> Nearest(FoundAt, p) = modules[i].directory
    <3>1. p \in OfKind({"code", "test"}, seen)
      BY <1>2 DEF FoundOK
    <3>2. Kind(p) \in {"code", "test"} /\ p \in NamedPath \ {<<>>}
      BY <1>2, <3>1, PathsAreNamed DEF OfKind, TreeOK
    <3> QED
      BY <1>2, <3>2, OwnerIsNearest
  <2> QED
    BY <2>1 DEF HasPackages, HasProduction, Mine
<1>13. \A kinds : \A i \in DOMAIN modules : Mine(kinds, i)' = Mine(kinds, i)
  BY <1>3, <1>4, <1>5 DEF Mine
<1>14. PackagesOK'
  <2>1. ASSUME NEW i \in DOMAIN modules'
        PROVE  /\ modules'[i].packages <=> Mine({"code", "test"}, i)' # {}
               /\ modules'[i].production <=> Mine({"code"}, i)' # {}
    <3>1. i \in DOMAIN modules
      BY <1>4
    <3>2. modules'[i].packages = HasPackages(i) /\ modules'[i].production = HasProduction(i)
      BY <1>4, <3>1
    <3>3. Mine({"code", "test"}, i)' = Mine({"code", "test"}, i) /\ Mine({"code"}, i)' = Mine({"code"}, i)
      BY <1>13, <3>1
    <3>4. /\ HasPackages(i) <=> Mine({"code", "test"}, i) # {}
          /\ HasProduction(i) <=> Mine({"code"}, i) # {}
      BY <1>12, <3>1
    <3> QED
      BY <3>2, <3>3, <3>4
  <2> QED
    BY <2>1 DEF PackagesOK
<1> QED
  BY <1>7, <1>8, <1>9, <1>10, <1>11, <1>14 DEF DiscoveryIInv

-----------------------------------------------------------------------------
(* Discovery: the theorem *)

LEMMA DiscoveryStepKeeps ==
    ASSUME DiscoveryIInv, [TargetsNext]_targetsVars
    PROVE  DiscoveryIInv'
<1>1. CASE Environment /\ UNCHANGED <<phase, walked, found, refusal, searchVars>>
  <2>1. CASE EndContext /\ UNCHANGED tree
    <3>1. TreeOK' /\ stable' = stable /\ seen' = seen
      BY <2>1 DEF tree, DiscoveryIInv, TreeOK
    <3> QED
      BY <1>1, <3>1, TreeKeeps
  <2>2. ASSUME NEW p \in Paths, Create(p) \/ Delete(p)
        PROVE  DiscoveryIInv'
    <3>1. TreeOK' /\ stable' \subseteq stable /\ seen \subseteq seen'
      BY <2>2, ChangeKeeps DEF DiscoveryIInv
    <3> QED
      BY <1>1, <3>1, TreeKeeps
  <2> QED
    BY <1>1, <2>1, <2>2 DEF Environment
<1>2. CASE Visit
  BY <1>2, VisitKeeps
<1>3. CASE EndWalk
  BY <1>3, EndWalkKeeps
<1>4. CASE InspectModule
  BY <1>4, InspectKeeps
<1>5. CASE ValidateModules
  <2>1. /\ UNCHANGED <<tree, found>>
        /\ \/ phase' = "rejected"
           \/ phase = "inspect" /\ phase' = "classify"
    BY <1>5 DEF ValidateModules, Refuse
  <2> QED
    BY <2>1, LaterKeeps DEF Discovered
<1>6. CASE ClassifyPackages
  BY <1>6, ClassifyKeeps
<1>7. CASE Find
  <2>1. UNCHANGED <<tree, found>>
    BY <1>7 DEF Find, NextModule, NoModules, ListFiles, Search, Unread, Finish
  <2>2. \/ phase' = "rejected"
        \/ phase \in {"discovered", "list", "search"} /\ phase' \in {"list", "search", "done"}
    <3>1. CASE Search
      BY <3>1 DEF Search, SearchDirectory, SearchFile, Refuse
    <3>2. CASE ListFiles
      BY <3>2 DEF ListFiles, Refuse
    <3> QED
      BY <1>7, <3>1, <3>2 DEF Find, NextModule, NoModules, Unread, Finish, Refuse
  <2> QED
    BY <2>1, <2>2, LaterKeeps DEF Discovered
<1>8. CASE Fail
  BY <1>8, LaterKeeps DEF Fail, Refuse
<1>9. CASE UNCHANGED targetsVars
  <2>1. TreeOK' /\ stable' = stable /\ seen' = seen /\ UNCHANGED <<phase, walked, found>>
    BY <1>9 DEF targetsVars, discoveryVars, tree, DiscoveryIInv, TreeOK
  <2> QED
    BY <2>1, TreeKeeps
<1> QED
  BY <1>1, <1>2, <1>3, <1>4, <1>5, <1>6, <1>7, <1>8, <1>9
  DEF TargetsNext, Discover, DiscoveryNext

\* The inductive invariant of discovery, which the search for targets leaves alone.
THEOREM DiscoveryInvariance == TargetsSpec => []DiscoveryIInv
<1>1. TargetsInit => DiscoveryIInv
  BY DiscoveryInitKeeps DEF TargetsInit
<1>2. DiscoveryIInv /\ [TargetsNext]_targetsVars => DiscoveryIInv'
  BY DiscoveryStepKeeps
<1> QED
  BY <1>1, <1>2, PTL DEF TargetsSpec

LEMMA FoundIsComplete == DiscoveryIInv => DiscoveryIsComplete
<1> SUFFICES ASSUME DiscoveryIInv, Discovered PROVE DiscoveryIsComplete
  BY DEF DiscoveryIsComplete
<1>1. TreeOK /\ ModulesOK /\ FoundOK /\ CoveredOK /\ EntriesOK /\ PackagesOK
  BY DEF DiscoveryIInv
<1>2. phase \notin {"walk", "rejected"} /\ Held = {}
  BY DEF Discovered, Held
<1>3. \A p \in stable : Visible(p) => Accounted(p)
  BY <1>1, <1>2 DEF CoveredOK
<1>4. WithModule(stable) \subseteq FoundAt /\ FoundAt \subseteq WithModule(seen)
  BY <1>1, <1>3 DEF FoundOK, Accounted, WithModule
<1>5. Cardinality(FoundAt) = Len(modules) /\ Len(modules) <= MaxModules
  <2> DEFINE n == Len(modules)
             f == [i \in 1 .. n |-> modules[i].directory]
  <2>1. n \in Nat /\ DOMAIN modules = 1 .. n /\ n <= MaxModules
        /\ \A i, j \in 1 .. n : modules[i].directory = modules[j].directory => i = j
    <3>1. modules \in Seq(ModuleRecord) /\ n <= MaxModules
          /\ \A i, j \in DOMAIN modules : modules[i].directory = modules[j].directory => i = j
      BY <1>1 DEF ModulesOK
    <3> QED
      BY <3>1
  <2> HIDE DEF n
  <2>2. f \in Bijection(1 .. n, FoundAt)
    BY <2>1 DEF Bijection, Injection, Surjection, IsInjective, FoundAt
  <2>3. IsFiniteSet(1 .. n) /\ Cardinality(1 .. n) = n
    BY <2>1, FS_Interval
  <2>4. Cardinality(FoundAt) = Cardinality(1 .. n)
    BY <2>2, <2>3, FS_Bijection DEF ExistsBijection
  <2> QED
    BY <2>1, <2>3, <2>4 DEF n
<1>6. Cardinality({p \in stable : Visible(p)}) <= MaxEntries
  <2>1. Read = {p \in stable : Visible(p)}
    BY <1>2 DEF Read
  <2> QED
    BY <1>1, <1>2, <2>1 DEF EntriesOK
<1>7. OfKind({"shell"}, stable) \subseteq shellFiles /\ shellFiles \subseteq OfKind({"shell"}, seen)
  BY <1>1, <1>3 DEF FoundOK, Accounted, OfKind
<1>8. /\ {p \in stable : IsWorkflow(p)} \subseteq workflowFiles
      /\ workflowFiles \subseteq {p \in seen : IsWorkflow(p)}
  <2>1. \A p \in stable : IsWorkflow(p) => Visible(p)
    BY <1>1, WorkflowsAreVisible DEF TreeOK
  <2> QED
    BY <1>1, <1>3, <2>1 DEF FoundOK, Accounted
<1>9. OfKind({"code", "test"}, stable) \subseteq goFiles /\ goFiles \subseteq OfKind({"code", "test"}, seen)
  BY <1>1, <1>3 DEF FoundOK, Accounted, OfKind
<1>10. ASSUME NEW i \in DOMAIN modules
       PROVE  LET mine(kinds, S) ==
                    {p \in OfKind(kinds, S) : Nearest(FoundAt, p) = modules[i].directory}
              IN /\ mine({"code", "test"}, stable) # {} => modules[i].packages
                 /\ modules[i].packages => mine({"code", "test"}, seen) # {}
                 /\ mine({"code"}, stable) # {} => modules[i].production
                 /\ modules[i].production => mine({"code"}, seen) # {}
  <2>1. /\ modules[i].packages <=> Mine({"code", "test"}, i) # {}
        /\ modules[i].production <=> Mine({"code"}, i) # {}
    BY <1>1 DEF PackagesOK
  <2> QED
    BY <1>9, <2>1 DEF Mine, OfKind
<1> QED
  BY <1>4, <1>5, <1>6, <1>7, <1>8, <1>10 DEF DiscoveryIsComplete

\* Whatever changes in the repository during the walk, discovery finds every module,
\* shell file and workflow that was there all along, and nothing that never was; each
\* module is found once, within the limits, and has packages exactly when a Go file has
\* it as the nearest module upwards.
THEOREM DiscoveryCompleteness == TargetsSpec => []DiscoveryIsComplete
BY DiscoveryInvariance, FoundIsComplete, PTL

-----------------------------------------------------------------------------
(* The files due: what the search cannot miss *)

\* What Go sees below a module is visible.
LEMMA VisibleFrom ==
    ASSUME NEW S \in SUBSET Paths, NEW d \in WithModule(S), NEW p \in NamedPath,
           d \in NamedPath, Below(d, p), VisibleToGo(d, p)
    PROVE  Visible(p)
<1>1. /\ Len(d) \in Nat /\ Len(p) \in Nat /\ Len(d) < Len(p)
      /\ \A i \in 1 .. Len(d) : d[i] = p[i]
  BY PrefixShorter, PrefixMeans DEF NamedPath, Below
<1>2. \A i \in 1 .. Len(d) : Class[d[i]] # "skipped"
  <2>1. PICK q \in S : Visible(q) /\ Front(q) = d
    BY HasModule
  <2>2. q \in NamedPath /\ q # <<>>
    BY <2>1, PathsAreNamed
  <2>3. Len(d) = Len(q) - 1 /\ \A i \in 1 .. Len(q) - 1 : d[i] = q[i]
    BY <2>1, <2>2, FrontMeans
  <2> QED
    BY <2>1, <2>3 DEF Visible
<1>3. SUFFICES ASSUME NEW i \in 1 .. Len(p) - 1 PROVE Class[p[i]] # "skipped"
  BY DEF Visible
<1>4. CASE i \in 1 .. Len(d)
  BY <1>1, <1>2, <1>4
<1>5. CASE i \notin 1 .. Len(d)
  <2>1. i \in Len(d) + 1 .. Len(p) - 1
    BY <1>1, <1>5
  <2> QED
    BY <2>1 DEF VisibleToGo
<1> QED
  BY <1>4, <1>5

\* A file due is below directories that the go command lists and the walk enters.
LEMMA DueMeans ==
    ASSUME TreeOK, NEW d \in NamedPath, NEW p \in Due(d)
    PROVE  /\ p \in stable /\ p \in Paths /\ p \in NamedPath \ {<<>>} /\ p \notin Excluded
           /\ Kind(p) = "test" /\ p \notin Directories /\ Below(d, p) /\ Visible(p)
           /\ \A e \in NamedPath : Below(d, e) /\ Below(e, p) =>
                /\ e # <<>> /\ e \in stable /\ e \notin Links
                /\ Kind(e) = "directory" /\ ~IsModule(e)
<1>1. /\ p \in stable /\ p \notin Excluded /\ d \in WithModule(stable)
      /\ Kind(p) = "test" /\ Below(d, p) /\ VisibleToGo(d, p)
      /\ \A e \in WithModule(seen) : Below(e, p) => ~Below(d, e)
  BY DEF Due
<1>2. p \in Paths /\ p \in NamedPath \ {<<>>} /\ stable \in SUBSET Paths /\ Closed(stable)
      /\ stable \subseteq present /\ present \subseteq seen /\ present \subseteq Paths
  BY <1>1, PathsAreNamed DEF TreeOK
<1>3. p \notin Directories
  BY <1>1, <1>2 DEF Directories, Kind
<1>4. /\ Len(d) \in Nat /\ Len(p) \in Nat /\ Len(d) < Len(p)
      /\ \A i \in 1 .. Len(d) : d[i] = p[i]
  BY <1>1, <1>2, PrefixShorter, PrefixMeans DEF NamedPath, Below
<1>5. Visible(p)
  BY <1>1, <1>2, VisibleFrom
<1>6. ASSUME NEW e \in NamedPath, Below(d, e), Below(e, p)
      PROVE  e # <<>> /\ e \in stable /\ e \notin Links /\ Kind(e) = "directory" /\ ~IsModule(e)
  <2>1. /\ Len(e) \in Nat /\ Len(d) < Len(e) /\ Len(e) < Len(p)
        /\ \A i \in 1 .. Len(e) : e[i] = p[i]
    BY <1>2, <1>6, PrefixShorter, PrefixMeans DEF NamedPath, Below
  <2>2. e # <<>>
    BY <1>4, <2>1
  <2>3. e \in stable /\ e \in Directories
    BY <1>1, <1>2, <1>6, <2>2, ClosedAbove
  <2>4. e \notin Links
    BY <2>2, <2>3 DEF Directories
  <2>5. Kind(e) = "directory"
    <3>1. Len(e) \in Len(d) + 1 .. Len(p) - 1 /\ e[Len(e)] = p[Len(e)]
      BY <1>4, <2>1
    <3> QED
      BY <1>1, <3>1 DEF VisibleToGo, Kind, Last
  <2>6. ~IsModule(e)
    <3>1. SUFFICES ASSUME NEW q \in present \ Links, Front(q) = e, Kind(q) = "module" PROVE FALSE
      BY DEF IsModule
    <3>2. q \in NamedPath \ {<<>>} /\ q \in seen
      BY <1>2, PathsAreNamed
    <3>3. Visible(e)
      BY <1>2, <1>5, <1>6, VisibleAbove DEF Below
    <3>4. Visible(q)
      BY <2>5, <3>1, <3>2, <3>3, VisibleNext
    <3>5. e \in WithModule(seen)
      BY <3>1, <3>2, <3>4, HasModule
    <3> QED
      BY <1>1, <1>6, <3>5
  <2> QED
    BY <2>2, <2>3, <2>4, <2>5, <2>6
<1> QED
  BY <1>1, <1>2, <1>3, <1>5, <1>6

\* The go command lists every file due.
LEMMA DueIsListed ==
    ASSUME TreeOK, NEW d \in NamedPath
    PROVE  Due(d) \subseteq GoList(d)
<1> SUFFICES ASSUME NEW p \in Due(d) PROVE p \in GoList(d)
  OBVIOUS
<1>1. /\ p \in stable /\ p \in NamedPath \ {<<>>} /\ p \notin Excluded
      /\ Kind(p) = "test" /\ Below(d, p)
      /\ \A e \in NamedPath : Below(d, e) /\ Below(e, p) =>
           e \notin Links /\ Kind(e) = "directory" /\ ~IsModule(e)
  BY DueMeans
<1>2. stable \subseteq present
  BY DEF TreeOK
<1>3. Len(d) \in Nat /\ Len(p) \in Nat
  BY <1>1 DEF NamedPath
<1>4. ASSUME NEW i \in Len(d) + 1 .. Len(p) - 1
      PROVE  /\ Class[p[i]] = "directory"
             /\ SubSeq(p, 1, i) \notin Links /\ ~IsModule(SubSeq(p, 1, i))
  <2> DEFINE e == SubSeq(p, 1, i)
  <2>1. i \in 0 .. Len(p) /\ i \in 1 .. i
    BY <1>3
  <2>2. /\ e \in NamedPath /\ Len(e) = i /\ IsPrefix(e, p)
        /\ \A j \in 1 .. i : e[j] = p[j]
    BY <1>1, <2>1, PrefixOfLength DEF NamedPath
  <2> HIDE DEF e
  <2>3. Below(e, p)
    BY <1>3, <2>2 DEF Below
  <2>4. IsPrefix(d, e)
    BY <1>1, <1>3, <2>2, PrefixesCompare DEF NamedPath, Below
  <2>5. Below(d, e)
    BY <1>3, <2>2, <2>4 DEF Below
  <2>6. e \notin Links /\ Kind(e) = "directory" /\ ~IsModule(e)
    BY <1>1, <2>2, <2>3, <2>5
  <2>7. Class[p[i]] = "directory"
    BY <2>1, <2>2, <2>6 DEF Kind, Last
  <2> QED
    BY <2>6, <2>7 DEF e
<1> QED
  BY <1>1, <1>2, <1>4 DEF GoList

LEMMA DueShrinks ==
    ASSUME stable' \subseteq stable, seen \subseteq seen'
    PROVE  \A d : Due(d)' \subseteq Due(d)
<1> SUFFICES ASSUME NEW d, NEW p \in Due(d)' PROVE p \in Due(d)
  OBVIOUS
<1>1. /\ p \in stable' \ Excluded /\ d \in WithModule(stable')
      /\ Kind(p) = "test" /\ Below(d, p) /\ VisibleToGo(d, p)
      /\ \A e \in WithModule(seen') : Below(e, p) => ~Below(d, e)
  BY DEF Due
<1>2. WithModule(stable') \subseteq WithModule(stable) /\ WithModule(seen) \subseteq WithModule(seen')
  BY DEF WithModule
<1> QED
  BY <1>1, <1>2 DEF Due

LEMMA InventoryGrows ==
    ASSUME ResultsOK, modules' = modules,
           \/ targets' = targets
           \/ \E more \in Seq(TargetRecord) : targets' = targets \o more
    PROVE  \A i, p : Inventoried(i, p) => Inventoried(i, p)'
<1>1. Identities(targets) \subseteq Identities(targets')
  <2>1. CASE targets' = targets
    BY <2>1
  <2>2. ASSUME NEW more \in Seq(TargetRecord), targets' = targets \o more
        PROVE  Identities(targets) \subseteq Identities(targets')
    <3>1. targets \in Seq(TargetRecord)
      BY DEF ResultsOK
    <3>2. \A i \in DOMAIN targets : i \in DOMAIN targets' /\ targets'[i] = targets[i]
      BY <2>2, <3>1
    <3> QED
      BY <3>2 DEF Identities
  <2> QED
    BY <2>1, <2>2
<1>2. Identities(targets)' = Identities(targets')
  BY DEF Identities
<1> QED
  BY <1>1, <1>2 DEF Inventoried, Place

\* The package of a file in a module.
LEMMA PlaceMeans ==
    ASSUME ModulesOK, NEW t \in DOMAIN modules, NEW p \in Paths
    PROVE  Place(t, p) \in Seq(STRING)
<1> DEFINE a == Front(p)
           m == Len(modules[t].directory) + 1
           n == Len(p) - 1
           rest == SubSeq(a, m, n)
<1>1. modules[t] \in ModuleRecord /\ modules[t].directory \in NamedPath
  BY FoundDirectories
<1>2. modules[t].path \in Seq(STRING) /\ m \in Nat \ {0}
  BY <1>1 DEF ModuleRecord, NamedPath
<1>3. a \in Seq(STRING) /\ Len(a) = n /\ n \in Nat
  <2>1. a \in NamedPath /\ Len(a) = n /\ n \in Nat
    <3>1. p \in NamedPath /\ p # <<>>
      BY PathsAreNamed
    <3> QED
      BY <3>1, FrontMeans
  <2>2. Names \subseteq STRING
    BY DiscoveryAssumption
  <2> HIDE DEF a, n
  <2>3. a = [i \in 1 .. n |-> a[i]] /\ \A i \in 1 .. n : a[i] \in STRING
    BY <2>1, <2>2 DEF NamedPath
  <2>4. [i \in 1 .. n |-> a[i]] \in Seq(STRING)
    <3>1. n \in Nat
      BY <2>1
    <3>2. \A i \in 1 .. n : a[i] \in STRING
      BY <2>3
    <3> QED
      BY <3>1, <3>2
  <2>5. a \in Seq(STRING)
    BY <2>3, <2>4
  <2> QED
    BY <2>1, <2>3
<1>4. rest \in Seq(STRING)
  <2> HIDE DEF a, m, n
  <2> QED
    BY <1>2, <1>3
<1>5. Place(t, p) = modules[t].path \o rest
  BY DEF Place
<1> HIDE DEF a, m, n, rest
<1> QED
  BY <1>2, <1>4, <1>5

\* The targets that a file declares, in this module's turn.
LEMMA DeclaredMeans ==
    ASSUME ModulesOK, turn \in DOMAIN modules, NEW p \in Paths, NEW names \in Seq(STRING)
    PROVE  /\ Declared(p, names) \in Seq(TargetRecord)
           /\ Len(Declared(p, names)) = Len(names)
           /\ \A i \in DOMAIN names : Declared(p, names)[i].identity = Append(Place(turn, p), names[i])
<1>1. modules[turn].path \in Seq(STRING)
  BY FoundDirectories DEF ModuleRecord
<1>2. Place(turn, p) = Package(p)
  BY DEF Package, Place, Directory
<1>3. Package(p) \in Seq(STRING)
  BY <1>2, PlaceMeans
<1>4. ASSUME NEW i \in DOMAIN names
      PROVE  /\ Target(p, names[i]) \in TargetRecord
             /\ Target(p, names[i]).identity = Append(Place(turn, p), names[i])
  <2>1. names[i] \in STRING
    OBVIOUS
  <2>2. Append(Package(p), names[i]) \in Seq(STRING)
    BY <1>3, <2>1
  <2> QED
    BY <1>1, <1>2, <2>2 DEF Target, Identity, TargetRecord
<1>5. Declared(p, names) = [i \in 1 .. Len(names) |-> Target(p, names[i])] /\ Len(names) \in Nat
      /\ DOMAIN names = 1 .. Len(names)
  BY DEF Declared
<1>6. \A i \in 1 .. Len(names) : Target(p, names[i]) \in TargetRecord
  BY <1>4, <1>5
<1> QED
  BY <1>4, <1>5, <1>6

-----------------------------------------------------------------------------
(* The search: each step preserves the invariant *)

\* A change of the repository only makes fewer files due.
LEMMA DueLess ==
    ASSUME PathsOK, ResultsOK, TurnOK, SearchOK, stable' \subseteq stable, seen \subseteq seen',
           UNCHANGED <<phase, walked, found, searchVars>>
    PROVE  PathsOK' /\ ResultsOK' /\ TurnOK' /\ SearchOK'
<1>1. /\ phase' = phase /\ pending' = pending /\ modules' = modules /\ inspected' = inspected
      /\ turn' = turn /\ active' = active /\ targets' = targets
  BY DEF walked, found, searchVars, results
<1>2. PathsOK'
  <2>1. WithModule(stable') \subseteq WithModule(stable) /\ WithModule(stable)' = WithModule(stable')
    BY DEF WithModule
  <2> QED
    BY <1>1, <2>1 DEF PathsOK, Discovered
<1>3. ResultsOK'
  BY <1>1 DEF ResultsOK
<1>4. \A i, p : Inventoried(i, p) => Inventoried(i, p)'
  BY <1>1, InventoryGrows
<1>5. \A d : Due(d)' \subseteq Due(d)
  BY DueShrinks
<1>6. \A i : Settled(i) => Settled(i)'
  <2>1. SUFFICES ASSUME NEW i, Settled(i), NEW d, d = modules[i].directory, NEW p \in Due(d)'
                 PROVE  Inventoried(i, p)'
    BY <1>1 DEF Settled
  <2> QED
    BY <1>4, <1>5, <2>1 DEF Settled
<1>7. TurnOK'
  BY <1>1, <1>6 DEF TurnOK
<1>8. SearchOK'
  <2>1. SUFFICES ASSUME phase = "search" PROVE SearchOK'
    BY <1>1 DEF SearchOK
  <2> PICK d : d = Directory
    OBVIOUS
  <2> PICK k : k = turn
    OBVIOUS
  <2>2. Directory' = d /\ turn' = k
    BY <1>1 DEF Directory
  <2>3. /\ pending \in Seq(Places)
        /\ \A r \in ToSet(pending) : IsPrefix(d, r)
        /\ \A p \in Due(d) :
            \/ Inventoried(k, p)
            \/ p \in active /\ \E r \in ToSet(pending) : IsPrefix(r, p)
    BY <2>1 DEF SearchOK
  <2>4. ASSUME NEW p \in Due(Directory)'
        PROVE  \/ Inventoried(k, p)'
               \/ p \in active /\ \E r \in ToSet(pending) : IsPrefix(r, p)
    <3>1. p \in Due(d)'
      BY <2>2, <2>4 DEF Due
    <3>2. p \in Due(d)
      BY <1>5, <3>1
    <3> QED
      BY <1>4, <2>3, <3>2
  <2> QED
    BY <1>1, <2>2, <2>3, <2>4 DEF SearchOK, Inventoried, Place
<1> QED
  BY <1>2, <1>3, <1>7, <1>8

LEMMA RefusalKeeps ==
    ASSUME ResultsOK, phase' = "rejected", targets' = targets
    PROVE  PathsOK' /\ ResultsOK' /\ TurnOK' /\ SearchOK'
BY DEF PathsOK, ResultsOK, TurnOK, SearchOK, Discovered

LEMMA DiscoverKeeps ==
    ASSUME DiscoveryIInv, PathsOK, ResultsOK, TurnOK, SearchOK, Discover
    PROVE  PathsOK' /\ ResultsOK' /\ TurnOK' /\ SearchOK'
<1>1. turn' = turn /\ targets' = targets
  BY DEF Discover, searchVars, results
<1>2. CASE phase' = "rejected"
  BY <1>1, <1>2, RefusalKeeps
<1>3. CASE phase' # "rejected"
  <2>1. ASSUME phase \in {"walk", "inspect", "classify"},
               phase' \in {"walk", "inspect", "classify", "discovered"}, PathsOK'
        PROVE  PathsOK' /\ ResultsOK' /\ TurnOK' /\ SearchOK'
    BY <1>1, <2>1 DEF ResultsOK, TurnOK, SearchOK
  <2>2. CASE Visit
    <3>1. phase = "walk" /\ phase' = "walk" /\ inspected' = inspected
      BY <1>3, <2>2 DEF Visit, VisitDirectory, ReadDirectory, Unreadable, VisitFile, Refuse, found
    <3>2. PathsOK'
      BY <3>1 DEF PathsOK, Discovered
    <3> QED
      BY <2>1, <3>1, <3>2
  <2>3. CASE EndWalk
    <3>1. phase = "walk" /\ phase' = "inspect" /\ inspected' = inspected
      BY <1>3, <2>3 DEF EndWalk, Refuse, found
    <3>2. inspected' = 0
      BY <3>1 DEF PathsOK
    <3>3. PathsOK'
      BY <3>1, <3>2 DEF PathsOK, Discovered
    <3> QED
      BY <2>1, <3>1, <3>3
  <2>4. CASE InspectModule
    <3>1. /\ phase = "inspect" /\ phase' = phase /\ stable' = stable
          /\ inspected \in Nat /\ inspected' = inspected + 1 /\ inspected' \in DOMAIN modules
          /\ modules \in Seq(ModuleRecord)
          /\ \A i \in DOMAIN modules :
               /\ modules'[i].directory = modules[i].directory
               /\ i # inspected + 1 => modules'[i] = modules[i]
               /\ i = inspected + 1 /\ IsModule(modules[i].directory) => AsDescribed(modules'[i])
      BY <1>3, <2>4, InspectMeans DEF tree
    <3>2. \A d \in WithModule(stable) : IsModule(d)
      BY DEF DiscoveryIInv, TreeOK, WithModule, IsModule
    <3>3. ASSUME NEW i \in 1 .. inspected', modules'[i].directory \in WithModule(stable')
          PROVE  AsDescribed(modules'[i])
      <4>1. i \in DOMAIN modules
        BY <3>1
      <4>2. modules[i].directory \in WithModule(stable) /\ modules'[i].directory = modules[i].directory
        BY <3>1, <3>3, <4>1
      <4>3. CASE i = inspected + 1
        BY <3>1, <3>2, <4>1, <4>2, <4>3
      <4>4. CASE i # inspected + 1
        <5>1. i \in 1 .. inspected /\ modules'[i] = modules[i]
          BY <3>1, <4>1, <4>4
        <5> QED
          BY <3>1, <4>2, <5>1 DEF PathsOK
      <4> QED
        BY <4>3, <4>4
    <3>4. PathsOK'
      BY <3>1, <3>3 DEF PathsOK, Discovered, WithModule
    <3> QED
      BY <2>1, <3>1, <3>4
  <2>5. CASE ValidateModules
    <3>1. /\ phase = "inspect" /\ phase' = "classify" /\ inspected = Len(modules)
          /\ inspected' = inspected /\ modules' = modules /\ stable' = stable
      BY <1>3, <2>5 DEF ValidateModules, Refuse, found, tree
    <3>2. PathsOK'
      BY <3>1 DEF PathsOK, Discovered, WithModule
    <3> QED
      BY <2>1, <3>1, <3>2
  <2>6. CASE ClassifyPackages
    <3>1. /\ phase = "classify" /\ phase' = "discovered"
          /\ inspected' = inspected /\ stable' = stable
      BY <2>6 DEF ClassifyPackages, tree
    <3>2. /\ modules \in Seq(ModuleRecord) /\ Len(modules') = Len(modules)
          /\ \A i \in DOMAIN modules :
               /\ modules'[i].directory = modules[i].directory /\ modules'[i].path = modules[i].path
               /\ modules'[i].version = modules[i].version
      BY <2>6, ClassifyMeans DEF DiscoveryIInv, ModulesOK
    <3>3. inspected = Len(modules) /\ DOMAIN modules = 1 .. Len(modules)
      BY <3>1, <3>2 DEF PathsOK
    <3>4. PathsOK'
      BY <3>1, <3>2, <3>3 DEF PathsOK, Discovered, WithModule, AsDescribed
    <3> QED
      BY <2>1, <3>1, <3>4
  <2> QED
    BY <2>2, <2>3, <2>4, <2>5, <2>6 DEF Discover, DiscoveryNext
<1> QED
  BY <1>2, <1>3

\* What a step of the search leaves alone.
LEMMA SearchKeepsPaths ==
    ASSUME PathsOK, UNCHANGED <<tree, found>>,
           phase \in {"discovered", "list", "search"}, phase' \in {"list", "search", "done"}
    PROVE  PathsOK' /\ \A d : Due(d)' = Due(d)
<1>1. modules' = modules /\ inspected' = inspected /\ stable' = stable /\ seen' = seen
  BY DEF tree, found
<1> QED
  BY <1>1 DEF PathsOK, Discovered, Due, WithModule

\* The search of one module is over.
LEMMA TurnEnds ==
    ASSUME SearchOK, phase = "search", active = {}
    PROVE  Settled(turn)
BY DEF SearchOK, Settled, Directory

LEMMA NextModuleKeeps ==
    ASSUME DiscoveryIInv, PathsOK, ResultsOK, TurnOK, SearchOK, NextModule
    PROVE  PathsOK' /\ ResultsOK' /\ TurnOK' /\ SearchOK'
<1>1. /\ phase \in {"discovered", "search"} /\ phase' = "list" /\ UNCHANGED <<tree, found>>
      /\ targets' = targets /\ modules' = modules
      /\ phase = "search" => active = {}
  BY DEF NextModule, results, found
<1> PICK i \in turn + 1 .. Len(modules) :
      modules[i].packages /\ (\A j \in turn + 1 .. i - 1 : ~modules[j].packages) /\ turn' = i
  BY DEF NextModule
<1>2. modules \in Seq(ModuleRecord) /\ turn \in Nat /\ DOMAIN modules = 1 .. Len(modules)
  <2>1. modules \in Seq(ModuleRecord)
    BY DEF DiscoveryIInv, ModulesOK
  <2>2. DOMAIN modules = 1 .. Len(modules)
    BY <2>1
  <2> QED
    BY <1>1, <2>1, <2>2 DEF TurnOK
<1>3. i \in DOMAIN modules
  BY <1>2
<1>4. \A d : Due(d)' = Due(d)
  BY <1>1, SearchKeepsPaths
<1>5. \A j, p : Inventoried(j, p) => Inventoried(j, p)'
  BY <1>1, InventoryGrows
<1>6. ASSUME NEW j \in 1 .. i - 1, modules[j].packages PROVE Settled(j)'
  <2>1. Settled(j)
    <3>1. j \notin turn + 1 .. i - 1
      BY <1>6
    <3>2. turn # 0 /\ j \in 1 .. turn
      BY <1>2, <3>1
    <3>3. phase = "search"
      BY <1>1, <3>2 DEF TurnOK
    <3>4. CASE j = turn
      BY <1>1, <3>3, <3>4, TurnEnds
    <3>5. CASE j # turn
      <4>1. j \in 1 .. turn - 1
        BY <1>2, <3>2, <3>5
      <4> QED
        BY <1>6, <3>3, <4>1 DEF TurnOK
    <3> QED
      BY <3>4, <3>5
  <2>2. SUFFICES ASSUME NEW d, d = modules[j].directory, NEW p \in Due(d)'
                 PROVE  Inventoried(j, p)'
    BY <1>1 DEF Settled
  <2> QED
    BY <1>4, <1>5, <2>1, <2>2 DEF Settled
<1>7. TurnOK'
  BY <1>1, <1>3, <1>6 DEF TurnOK
<1> QED
  BY <1>1, <1>7, SearchKeepsPaths DEF ResultsOK, SearchOK

LEMMA FinishKeeps ==
    ASSUME DiscoveryIInv, PathsOK, ResultsOK, TurnOK, SearchOK, Finish
    PROVE  PathsOK' /\ ResultsOK' /\ TurnOK' /\ SearchOK'
<1>1. /\ phase = "search" /\ phase' = "done" /\ UNCHANGED <<tree, found>>
      /\ targets' = targets /\ modules' = modules /\ active = {} /\ turn' = turn
      /\ \A i \in turn + 1 .. Len(modules) : ~modules[i].packages
  BY DEF Finish, searchVars, results, found
<1>2. modules \in Seq(ModuleRecord) /\ turn \in DOMAIN modules /\ modules[turn].packages
      /\ DOMAIN modules = 1 .. Len(modules)
  <2>1. modules \in Seq(ModuleRecord)
    BY DEF DiscoveryIInv, ModulesOK
  <2>2. DOMAIN modules = 1 .. Len(modules)
    BY <2>1
  <2> QED
    BY <1>1, <2>1, <2>2 DEF TurnOK
<1>3. \A d : Due(d)' = Due(d)
  BY <1>1, SearchKeepsPaths
<1>4. \A j, p : Inventoried(j, p) => Inventoried(j, p)'
  BY <1>1, InventoryGrows
<1>5. ASSUME NEW j \in DOMAIN modules, modules[j].packages PROVE Settled(j)'
  <2>1. Settled(j)
    <3>1. j \in 1 .. turn
      BY <1>1, <1>2, <1>5
    <3>2. CASE j = turn
      BY <1>1, <3>2, TurnEnds
    <3>3. CASE j # turn
      <4>1. j \in 1 .. turn - 1
        BY <1>2, <3>1, <3>3
      <4> QED
        BY <1>1, <1>5, <4>1 DEF TurnOK
    <3> QED
      BY <3>2, <3>3
  <2>2. SUFFICES ASSUME NEW d, d = modules[j].directory, NEW p \in Due(d)'
                 PROVE  Inventoried(j, p)'
    BY <1>1 DEF Settled
  <2> QED
    BY <1>3, <1>4, <2>1, <2>2 DEF Settled
<1>6. TurnOK'
  BY <1>1, <1>2, <1>5 DEF TurnOK
<1> QED
  BY <1>1, <1>6, SearchKeepsPaths DEF ResultsOK, SearchOK

\* Within a turn the modules before it stay settled.
LEMMA TurnGoesOn ==
    ASSUME PathsOK, TurnOK, phase \in {"list", "search"}, phase' = "search", turn' = turn,
           UNCHANGED <<tree, found>>, \A i, p : Inventoried(i, p) => Inventoried(i, p)'
    PROVE  TurnOK'
<1>1. modules' = modules
  BY DEF found
<1>2. \A d : Due(d)' = Due(d)
  BY SearchKeepsPaths
<1>3. ASSUME NEW j, Settled(j) PROVE Settled(j)'
  <2>1. SUFFICES ASSUME NEW d, d = modules[j].directory, NEW p \in Due(d)'
                 PROVE  Inventoried(j, p)'
    BY <1>1 DEF Settled
  <2> QED
    BY <1>2, <1>3, <2>1 DEF Settled
<1> QED
  BY <1>1, <1>3 DEF TurnOK

\* A turn's own directory, and what SearchOK says of the state after a step.
LEMMA SearchGoesOn ==
    ASSUME PathsOK, phase \in {"list", "search"}, phase' = "search",
           UNCHANGED <<tree, found>>, turn' = turn, NEW d, d = Directory, NEW k, k = turn,
           pending' \in Seq(Places), \A r \in ToSet(pending') : IsPrefix(d, r),
           \A p \in Due(d) : \/ Inventoried(k, p)'
                             \/ p \in active' /\ \E r \in ToSet(pending') : IsPrefix(r, p)
    PROVE  SearchOK'
<1>1. Directory' = d /\ turn' = k
  BY DEF Directory, found
<1>2. ASSUME NEW p \in Due(Directory)'
      PROVE  \/ Inventoried(k, p)'
             \/ p \in active' /\ \E r \in ToSet(pending') : IsPrefix(r, p)
  <2>1. p \in Due(d)'
    BY <1>1, <1>2 DEF Due
  <2>2. p \in Due(d)
    BY <2>1, SearchKeepsPaths
  <2> QED
    BY <2>2
<1> QED
  BY <1>1, <1>2 DEF SearchOK, Inventoried, Place

LEMMA ListFilesKeeps ==
    ASSUME DiscoveryIInv, PathsOK, ResultsOK, TurnOK, SearchOK, ListFiles
    PROVE  PathsOK' /\ ResultsOK' /\ TurnOK' /\ SearchOK'
<1>1. /\ phase = "list" /\ UNCHANGED <<tree, found>> /\ turn' = turn /\ targets' = targets
      /\ modules' = modules
  BY DEF ListFiles, results, found
<1>2. CASE phase' = "rejected"
  BY <1>1, <1>2, RefusalKeeps
<1>3. CASE phase' # "rejected"
  <2> PICK d : d = Directory
    OBVIOUS
  <2> PICK k : k = turn
    OBVIOUS
  <2>1. phase' = "search" /\ active' = GoList(d) /\ pending' = <<d>> /\ Exists(d)
    BY <1>3 DEF ListFiles, Refuse
  <2>2. d \in NamedPath /\ d \in Places
    <3>1. turn \in DOMAIN modules
      BY <1>1 DEF TurnOK
    <3> QED
      BY <2>1, <3>1, FoundDirectories DEF DiscoveryIInv, Directory, Exists, TreeOK, Places
  <2>3. pending' \in Seq(Places) /\ ToSet(pending') = {d}
    BY <2>1, <2>2, MembersOfOne
  <2>4. \A r \in ToSet(pending') : IsPrefix(d, r)
    BY <2>2, <2>3, PrefixItself DEF NamedPath
  <2>5. \A p \in Due(d) : p \in active' /\ \E r \in ToSet(pending') : IsPrefix(r, p)
    <3>1. SUFFICES ASSUME NEW p \in Due(d) PROVE p \in active' /\ IsPrefix(d, p)
      BY <2>3
    <3> QED
      BY <2>1, <2>2, DueIsListed, DueMeans DEF DiscoveryIInv, Below
  <2>6. \A i, p : Inventoried(i, p) => Inventoried(i, p)'
    BY <1>1, InventoryGrows
  <2>7. TurnOK'
    BY <1>1, <2>1, <2>6, TurnGoesOn
  <2>8. SearchOK'
    BY <1>1, <2>1, <2>3, <2>4, <2>5, SearchGoesOn
  <2>9. PathsOK'
    BY <1>1, <2>1, SearchKeepsPaths
  <2> QED
    BY <1>1, <2>7, <2>8, <2>9 DEF ResultsOK
<1> QED
  BY <1>2, <1>3

\* The first of what is still to be searched.
LEMMA AtSearchHead ==
    ASSUME DiscoveryIInv, TurnOK, SearchOK, phase = "search", pending # <<>>,
           NEW d, d = Directory, NEW k, k = turn
    PROVE  /\ d \in NamedPath /\ k \in DOMAIN modules
           /\ Head(pending) \in NamedPath /\ Head(pending) \in Places /\ IsPrefix(d, Head(pending))
           /\ Tail(pending) \in Seq(Places) /\ \A r \in ToSet(Tail(pending)) : IsPrefix(d, r)
           /\ \A p \in Due(d) :
                \/ Inventoried(k, p)
                \/ /\ p \in active
                   /\ \/ IsPrefix(Head(pending), p)
                      \/ \E r \in ToSet(Tail(pending)) : IsPrefix(r, p)
<1>1. turn \in DOMAIN modules
  BY DEF TurnOK
<1>2. d \in NamedPath
  BY <1>1, FoundDirectories DEF DiscoveryIInv, Directory
<1>3. /\ pending \in Seq(Places) /\ \A r \in ToSet(pending) : IsPrefix(d, r)
      /\ \A p \in Due(d) :
            \/ Inventoried(k, p)
            \/ p \in active /\ \E r \in ToSet(pending) : IsPrefix(r, p)
  BY DEF SearchOK
<1>4. /\ Head(pending) \in Places /\ Tail(pending) \in Seq(Places)
      /\ ToSet(pending) = {Head(pending)} \union ToSet(Tail(pending))
  BY <1>3, HeadAndRest
<1>5. Head(pending) \in NamedPath
  BY <1>4, PathsAreNamed
<1> QED
  BY <1>1, <1>2, <1>3, <1>4, <1>5

\* The entries of a directory take its place, unless it is ignored or another module's.
LEMMA SearchDirectoryMeans ==
    ASSUME DiscoveryIInv, TurnOK, SearchOK, Search, SearchDirectory, phase' # "rejected",
           NEW h, h = Head(pending), NEW rest, rest = Tail(pending),
           NEW list, list = IF IgnoredGo(h) \/ Nested(h) THEN <<>> ELSE Entries(h)
    PROVE  /\ h \in Directories /\ phase' = "search" /\ pending' \in Seq(Places)
           /\ ToSet(pending') = ToSet(list) \union ToSet(rest)
           /\ ToSet(list) \subseteq ToSet(Entries(h))
           /\ \A p : p \in ToSet(Entries(h)) <=> p \in present /\ Front(p) = h
           /\ \A p \in ToSet(Entries(h)) : p \in seen /\ p \in NamedPath \ {<<>>} /\ Below(h, p)
<1>1. phase = "search" /\ pending # <<>>
  BY DEF Search
<1>2. /\ h \in Directories /\ phase' = "search"
      /\ \/ IgnoredGo(h) /\ pending' = rest
         \/ /\ ~IgnoredGo(h) /\ pending' = (IF Nested(h) THEN <<>> ELSE Entries(h)) \o rest
  BY <1>1 DEF SearchDirectory, Refuse
<1>3. h \in NamedPath /\ rest \in Seq(Places)
  BY <1>1, AtSearchHead
<1>4. /\ Entries(h) \in Seq(Places)
      /\ \A p : p \in ToSet(Entries(h)) <=> p \in present /\ Front(p) = h
      /\ \A p \in ToSet(Entries(h)) : p \in seen /\ p \in NamedPath \ {<<>>} /\ Below(h, p)
  BY <1>3, EntriesOfVisited DEF DiscoveryIInv
<1>5. list \in Seq(Places) /\ ToSet(list) \subseteq ToSet(Entries(h))
  BY <1>4, MembersOfNone
<1>6. pending' = list \o rest
  <2>1. CASE IgnoredGo(h)
    <3>1. <<>> \o rest = rest
      BY <1>3
    <3> QED
      BY <1>2, <2>1, <3>1
  <2>2. CASE ~IgnoredGo(h)
    BY <1>2, <2>2
  <2> QED
    BY <2>1, <2>2
<1>7. list \o rest \in Seq(Places) /\ ToSet(list \o rest) = ToSet(list) \union ToSet(rest)
  <2>1. ASSUME NEW s \in Seq(Places), NEW t \in Seq(Places)
        PROVE  s \o t \in Seq(Places) /\ ToSet(s \o t) = ToSet(s) \union ToSet(t)
    BY MembersOfConcat, ConcatLaws
  <2>2. rest \in Seq(Places)
    BY <1>3
  <2>3. list \in Seq(Places)
    BY <1>5
  <2> QED
    BY <2>1, <2>2, <2>3
<1> QED
  BY <1>2, <1>4, <1>5, <1>6, <1>7

LEMMA SearchDirectoryKeeps ==
    ASSUME DiscoveryIInv, PathsOK, ResultsOK, TurnOK, SearchOK, Search, SearchDirectory
    PROVE  PathsOK' /\ ResultsOK' /\ TurnOK' /\ SearchOK'
<1>1. /\ phase = "search" /\ pending # <<>> /\ UNCHANGED <<tree, found>> /\ turn' = turn
      /\ targets' = targets /\ active' = active /\ modules' = modules
  BY DEF Search, SearchDirectory, results, found
<1>2. CASE phase' = "rejected"
  BY <1>1, <1>2, RefusalKeeps
<1>3. CASE phase' # "rejected"
  <2> PICK d : d = Directory
    OBVIOUS
  <2> PICK k : k = turn
    OBVIOUS
  <2> PICK h : h = Head(pending)
    OBVIOUS
  <2> PICK rest : rest = Tail(pending)
    OBVIOUS
  <2> PICK list : list = IF IgnoredGo(h) \/ Nested(h) THEN <<>> ELSE Entries(h)
    OBVIOUS
  <2>1. /\ d \in NamedPath /\ h \in NamedPath /\ IsPrefix(d, h)
        /\ \A r \in ToSet(rest) : IsPrefix(d, r)
        /\ \A p \in Due(d) :
              \/ Inventoried(k, p)
              \/ p \in active /\ (IsPrefix(h, p) \/ \E r \in ToSet(rest) : IsPrefix(r, p))
    BY <1>1, AtSearchHead
  <2>2. \A i, p : Inventoried(i, p) => Inventoried(i, p)'
    BY <1>1, InventoryGrows
  <2>3. /\ h \in Directories /\ phase' = "search" /\ pending' \in Seq(Places)
        /\ ToSet(pending') = ToSet(list) \union ToSet(rest)
        /\ ToSet(list) \subseteq ToSet(Entries(h))
        /\ \A p : p \in ToSet(Entries(h)) <=> p \in present /\ Front(p) = h
        /\ \A p \in ToSet(Entries(h)) : p \in NamedPath \ {<<>>} /\ Below(h, p)
    BY <1>3, SearchDirectoryMeans
  <2>4. ASSUME NEW r \in ToSet(pending') PROVE IsPrefix(d, r)
    <3>1. CASE r \in ToSet(rest)
      BY <2>1, <3>1
    <3>2. CASE r \in ToSet(list)
      <4>1. r \in NamedPath /\ IsPrefix(h, r)
        BY <2>3, <3>2 DEF Below
      <4> QED
        BY <2>1, <4>1, PrefixTransitive DEF NamedPath
    <3> QED
      BY <2>3, <3>1, <3>2
  <2>5. ASSUME NEW p \in Due(d), IsPrefix(h, p)
        PROVE  \E r \in ToSet(pending') : IsPrefix(r, p)
    <3>1. /\ p \in stable /\ p \in NamedPath \ {<<>>} /\ p \notin Directories
          /\ \A e \in NamedPath : Below(d, e) /\ Below(e, p) =>
                Kind(e) = "directory" /\ ~IsModule(e)
      BY <2>1, DueMeans DEF DiscoveryIInv
    <3>2. Below(h, p)
      BY <2>3, <2>5, <3>1 DEF Below
    <3>3. ~IgnoredGo(h) /\ ~Nested(h)
      <4>1. CASE h = d
        BY <4>1 DEF IgnoredGo, Nested
      <4>2. CASE h # d
        <5>1. Kind(h) = "directory" /\ ~IsModule(h)
          BY <2>1, <3>1, <3>2, <4>2 DEF Below
        <5>2. ~ContainsModule(Entries(h))
          BY <5>1, ContainsIsModule DEF DiscoveryIInv, TreeOK
        <5> QED
          BY <5>1, <5>2 DEF IgnoredGo, Nested
      <4> QED
        BY <4>1, <4>2
    <3>4. PICK q \in stable : Front(q) = h /\ IsPrefix(q, p)
      BY <2>1, <3>1, <3>2, ClosedNext DEF DiscoveryIInv, TreeOK
    <3>5. q \in ToSet(Entries(h))
      BY <2>3, <3>4 DEF DiscoveryIInv, TreeOK
    <3> QED
      BY <2>3, <3>3, <3>4, <3>5
  <2>6. ASSUME NEW p \in Due(d)
        PROVE  \/ Inventoried(k, p)'
               \/ p \in active' /\ \E r \in ToSet(pending') : IsPrefix(r, p)
    BY <1>1, <2>1, <2>2, <2>3, <2>5
  <2>7. TurnOK'
    BY <1>1, <2>2, <2>3, TurnGoesOn
  <2>8. SearchOK'
    BY <1>1, <2>3, <2>4, <2>6, SearchGoesOn
  <2>9. PathsOK'
    BY <1>1, <2>3, SearchKeepsPaths
  <2> QED
    BY <1>1, <2>7, <2>8, <2>9 DEF ResultsOK
<1> QED
  BY <1>2, <1>3

LEMMA SearchFileKeeps ==
    ASSUME DiscoveryIInv, PathsOK, ResultsOK, TurnOK, SearchOK, Search, SearchFile
    PROVE  PathsOK' /\ ResultsOK' /\ TurnOK' /\ SearchOK'
<1>1. /\ phase = "search" /\ pending # <<>> /\ UNCHANGED <<tree, found>> /\ turn' = turn
      /\ modules' = modules
  BY DEF Search, found
<1>2. CASE phase' = "rejected"
  <2>1. targets' = targets
    BY <1>1, <1>2 DEF SearchFile, results
  <2> QED
    BY <1>2, <2>1, RefusalKeeps
<1>3. CASE phase' # "rejected"
  <2> PICK d : d = Directory
    OBVIOUS
  <2> PICK k : k = turn
    OBVIOUS
  <2> PICK f : f = Head(pending)
    OBVIOUS
  <2> PICK rest : rest = Tail(pending)
    OBVIOUS
  <2>1. /\ f \notin Directories /\ phase' = "search" /\ pending' = rest
        /\ \/ f \notin active /\ active' = active /\ targets' = targets
           \/ /\ f \in active /\ active' = active \ {f}
              /\ targets' = targets \o Declared(f, Fuzz[f])
    BY <1>1, <1>3 DEF SearchFile, Refuse, results
  <2>2. /\ d \in NamedPath /\ k \in DOMAIN modules /\ f \in NamedPath /\ f \in Places
        /\ rest \in Seq(Places) /\ \A r \in ToSet(rest) : IsPrefix(d, r)
        /\ \A p \in Due(d) :
              \/ Inventoried(k, p)
              \/ p \in active /\ (IsPrefix(f, p) \/ \E r \in ToSet(rest) : IsPrefix(r, p))
    BY <1>1, AtSearchHead
  <2>3. f # <<>> /\ f \in Paths
    BY <2>1, <2>2 DEF Directories, Places
  <2> PICK more : more = Declared(f, Fuzz[f])
    OBVIOUS
  <2>4. Fuzz[f] \in Seq(STRING)
    BY <2>3, TargetsAssumption
  <2>5. /\ more \in Seq(TargetRecord) /\ Len(more) = Len(Fuzz[f])
        /\ \A i \in DOMAIN Fuzz[f] : more[i].identity = Append(Place(k, f), Fuzz[f][i])
    BY <2>2, <2>3, <2>4, DeclaredMeans DEF DiscoveryIInv
  <2>6. targets \in Seq(TargetRecord)
    BY DEF ResultsOK
  <2>7. ResultsOK'
    <3>1. targets \o more \in Seq(TargetRecord)
      BY <2>5, <2>6
    <3> QED
      BY <2>1, <2>6, <3>1 DEF ResultsOK
  <2>8. \A i, p : Inventoried(i, p) => Inventoried(i, p)'
    BY <1>1, <2>1, <2>5, InventoryGrows
  <2>9. ASSUME f \in active PROVE Inventoried(k, f)'
    <3>1. SUFFICES ASSUME NEW i \in DOMAIN Fuzz[f]
                   PROVE  Append(Place(k, f), Fuzz[f][i]) \in Identities(targets')
      BY <1>1 DEF Inventoried, FuzzNames, ToSet, Place, Identities
    <3>2. i \in 1 .. Len(more) /\ Len(targets) \in Nat
      BY <2>4, <2>5, <2>6
    <3>3. targets' = targets \o more
      BY <2>1, <2>9
    <3>4. Len(targets) + i \in DOMAIN targets' /\ targets'[Len(targets) + i] = more[i]
      BY <2>5, <2>6, <3>2, <3>3
    <3>5. more[i].identity \in Identities(targets')
      BY <3>4 DEF Identities
    <3> QED
      BY <2>5, <3>5
  <2>10. ASSUME NEW p \in Due(d), IsPrefix(f, p) PROVE p = f
    <3>1. p \in stable /\ stable \in SUBSET Paths /\ Closed(stable)
      BY <2>2, DueMeans DEF DiscoveryIInv, TreeOK
    <3> QED
      BY <2>1, <2>2, <2>3, <2>10, <3>1, ClosedAbove DEF Below
  <2>11. ASSUME NEW p \in Due(d)
         PROVE  \/ Inventoried(k, p)'
                \/ p \in active' /\ \E r \in ToSet(pending') : IsPrefix(r, p)
    <3>1. CASE Inventoried(k, p)
      BY <2>8, <3>1
    <3>2. CASE p = f /\ p \in active
      BY <2>9, <3>2
    <3>3. CASE p # f /\ p \in active /\ \E r \in ToSet(rest) : IsPrefix(r, p)
      BY <2>1, <3>3
    <3> QED
      BY <2>2, <2>10, <3>1, <3>2, <3>3
  <2>12. TurnOK'
    BY <1>1, <2>1, <2>8, TurnGoesOn
  <2>13. pending' \in Seq(Places) /\ \A r \in ToSet(pending') : IsPrefix(d, r)
    BY <2>1, <2>2
  <2>14. SearchOK'
    BY <1>1, <2>1, <2>11, <2>13, SearchGoesOn
  <2>15. PathsOK'
    BY <1>1, <2>1, SearchKeepsPaths
  <2> QED
    BY <2>7, <2>12, <2>14, <2>15
<1> QED
  BY <1>2, <1>3

-----------------------------------------------------------------------------
(* The search: the theorem *)

LEMMA TargetsStepKeeps ==
    ASSUME TargetsIInv, [TargetsNext]_targetsVars
    PROVE  TargetsIInv'
<1>1. DiscoveryIInv /\ PathsOK /\ ResultsOK /\ TurnOK /\ SearchOK
  BY DEF TargetsIInv
<1>2. DiscoveryIInv'
  BY <1>1, DiscoveryStepKeeps
<1>3. PathsOK' /\ ResultsOK' /\ TurnOK' /\ SearchOK'
  <2>1. CASE Environment /\ UNCHANGED <<phase, walked, found, refusal, searchVars>>
    <3>1. CASE EndContext /\ UNCHANGED tree
      <4>1. stable' = stable /\ seen' = seen
        BY <3>1 DEF tree
      <4> QED
        BY <1>1, <2>1, <4>1, DueLess
    <3>2. ASSUME NEW p \in Paths, Create(p) \/ Delete(p)
          PROVE  PathsOK' /\ ResultsOK' /\ TurnOK' /\ SearchOK'
      <4>1. stable' \subseteq stable /\ seen \subseteq seen'
        BY <1>1, <3>2, ChangeKeeps DEF DiscoveryIInv
      <4> QED
        BY <1>1, <2>1, <4>1, DueLess
    <3> QED
      BY <2>1, <3>1, <3>2 DEF Environment
  <2>2. CASE Discover
    BY <1>1, <2>2, DiscoverKeeps
  <2>3. CASE NextModule
    BY <1>1, <2>3, NextModuleKeeps
  <2>4. CASE NoModules \/ Unread \/ Fail
    <3>1. phase' = "rejected" /\ targets' = targets
      BY <2>4 DEF NoModules, Unread, Fail, Refuse, searchVars, results
    <3> QED
      BY <1>1, <3>1, RefusalKeeps
  <2>5. CASE ListFiles
    BY <1>1, <2>5, ListFilesKeeps
  <2>6. CASE Search
    BY <1>1, <2>6, SearchDirectoryKeeps, SearchFileKeeps DEF Search
  <2>7. CASE Finish
    BY <1>1, <2>7, FinishKeeps
  <2>8. CASE UNCHANGED targetsVars
    <3>1. stable' = stable /\ seen' = seen /\ UNCHANGED <<phase, walked, found, searchVars>>
      BY <2>8 DEF targetsVars, discoveryVars, tree
    <3> QED
      BY <1>1, <3>1, DueLess
  <2> QED
    BY <2>1, <2>2, <2>3, <2>4, <2>5, <2>6, <2>7, <2>8 DEF TargetsNext, Find
<1> QED
  BY <1>2, <1>3 DEF TargetsIInv

\* The inductive invariant of discovery and of the search for targets.
THEOREM TargetsInvariance == TargetsSpec => []TargetsIInv
<1>1. TargetsInit => TargetsIInv
  <2> SUFFICES ASSUME TargetsInit PROVE TargetsIInv
    OBVIOUS
  <2>1. DiscoveryIInv
    BY DiscoveryInitKeeps DEF TargetsInit
  <2>2. phase = "walk" /\ inspected = 0 /\ turn = 0 /\ targets = <<>>
    BY DEF TargetsInit, DiscoveryInit
  <2> QED
    BY <2>1, <2>2 DEF TargetsIInv, PathsOK, ResultsOK, TurnOK, SearchOK, Discovered
<1>2. TargetsIInv /\ [TargetsNext]_targetsVars => TargetsIInv'
  BY TargetsStepKeeps
<1> QED
  BY <1>1, <1>2, PTL DEF TargetsSpec

LEMMA SettledIsComplete == TargetsIInv => NothingIsMissed
<1> SUFFICES ASSUME TargetsIInv, phase = "done", NEW p \in stable \ Excluded,
                    NEW d \in WithModule(stable),
                    Kind(p) = "test", Below(d, p), VisibleToGo(d, p),
                    \A e \in WithModule(seen) : Below(e, p) => ~Below(d, e),
                    NEW name \in FuzzNames(p)
             PROVE  Append(Description[d].path \o SubSeq(Front(p), Len(d) + 1, Len(p) - 1), name)
                      \in Identities(targets)
  BY DEF NothingIsMissed
<1>1. DiscoveryIInv /\ PathsOK /\ TurnOK /\ ModulesOK /\ TreeOK /\ DiscoveryIsComplete /\ Discovered
  BY FoundIsComplete DEF TargetsIInv, DiscoveryIInv, Discovered
<1>2. d \in FoundAt /\ FoundAt \subseteq WithModule(seen) /\ FoundAt \in SUBSET NamedPath
  BY <1>1, FoundDirectories DEF DiscoveryIsComplete
<1>3. PICK i \in DOMAIN modules : modules[i].directory = d
  BY <1>2 DEF FoundAt
<1>4. p \in Due(d)
  BY DEF Due
<1>5. p \in NamedPath \ {<<>>} /\ Visible(p)
  BY <1>1, <1>2, <1>4, DueMeans
<1>6. d = Nearest(FoundAt, p)
  <2>1. <<>> \in FoundAt
    <3>1. modules # <<>> /\ modules[1].directory = <<>>
      BY <1>1 DEF ModulesOK, Discovered
    <3> QED
      BY <1>1, <3>1, FoundDirectories DEF FoundAt
  <2>2. ASSUME NEW e \in FoundAt, Below(e, p) PROVE Len(e) <= Len(d)
    <3>1. e \in NamedPath /\ d \in NamedPath /\ Len(e) \in Nat /\ Len(d) \in Nat
      BY <1>2 DEF NamedPath
    <3>2. ~Below(d, e)
      BY <1>2, <2>2
    <3>3. SUFFICES ASSUME Len(d) < Len(e) PROVE Below(d, e)
      BY <3>1, <3>2
    <3>4. IsPrefix(d, e)
      BY <1>5, <2>2, <3>1, <3>3, PrefixesCompare DEF NamedPath, Below
    <3> QED
      BY <3>1, <3>3, <3>4 DEF Below
  <2> QED
    BY <1>2, <1>5, <2>1, <2>2, NearestIsLongest
<1>7. modules[i].packages
  <2>1. p \in {q \in OfKind({"code", "test"}, stable) : Nearest(FoundAt, q) = modules[i].directory}
    BY <1>3, <1>5, <1>6 DEF OfKind
  <2> QED
    BY <1>1, <2>1 DEF DiscoveryIsComplete
<1>8. Inventoried(i, p)
  BY <1>1, <1>3, <1>4, <1>7 DEF TurnOK, Settled
<1>9. modules[i].path = Description[d].path
  <2>1. modules \in Seq(ModuleRecord) /\ inspected = Len(modules)
    BY <1>1 DEF ModulesOK, PathsOK
  <2>2. i \in 1 .. inspected
    BY <2>1
  <2> QED
    BY <1>1, <1>3, <2>2 DEF PathsOK, AsDescribed
<1> QED
  BY <1>3, <1>8, <1>9 DEF Inventoried, Place

\* No fuzz target of a file that was there all along, in a module whose boundaries never
\* moved, is missed when the search ends, whatever else changed under the two walks.
THEOREM TargetsCompleteness == TargetsSpec => []NothingIsMissed
BY TargetsInvariance, SettledIsComplete, PTL

-----------------------------------------------------------------------------
(* The listings: the inventory is what the listed files declare *)

\* How many bytes the files read have, each read for a module.
Volume(S) == MapThenSumSet(LAMBDA r : Size[r[2]], S)

LEMMA VolumeSums ==
    ASSUME NEW U, IsFiniteSet(U), \A r \in U : Size[r[2]] \in Nat, NEW S \in SUBSET U,
           NEW all \in [SUBSET U -> Nat], SumsOver(all, U, [r \in U |-> Size[r[2]]])
    PROVE  Volume(S) = all[S]
<1> DEFINE f == [r \in U |-> Size[r[2]]]
           Step(it) == [T \in SUBSET S |->
                          IF T = {} THEN 0
                          ELSE Size[(CHOOSE x \in T : TRUE)[2]] + it[T \ {CHOOSE x \in T : TRUE}]]
           sum == CHOOSE it : it = Step(it)
<1>1. Volume(S) = sum[S]
  BY DEF Volume, MapThenSumSet, MapThenFoldSet
<1>2. \A it : Step(it) = SumStep(it, S, f)
  <2>1. ASSUME NEW T \in SUBSET S, T # {}
        PROVE  f[CHOOSE x \in T : TRUE] = Size[(CHOOSE x \in T : TRUE)[2]]
    <3>1. (CHOOSE x \in T : TRUE) \in U
      BY <2>1
    <3> QED
      BY <3>1
  <2> HIDE DEF f
  <2> QED
    BY <2>1 DEF SumStep
<1>3. f \in [U -> Nat]
  OBVIOUS
<1>4. SumsOver(all, U, f)
  OBVIOUS
<1> HIDE DEF f
<1>5. /\ \E it : it = SumStep(it, S, f)
      /\ \A it : it = SumStep(it, S, f) => it[S] = all[S]
  BY <1>3, <1>4, SumStepMeans
<1> HIDE DEF Step
<1>6. \E it : it = Step(it)
  BY <1>2, <1>5
<1>7. sum = Step(sum)
  BY <1>6
<1> HIDE DEF sum
<1> QED
  BY <1>1, <1>2, <1>5, <1>7

\* One more file adds its bytes.
LEMMA VolumeGrows ==
    ASSUME NEW n \in Nat, NEW S \in SUBSET ((1 .. n) \X Paths),
           NEW new \in (1 .. n) \X Paths, new \notin S
    PROVE  Volume(S \union {new}) = Volume(S) + Size[new[2]]
<1> DEFINE U == (1 .. n) \X Paths
           f == [r \in U |-> Size[r[2]]]
           T == S \union {new}
<1>1. IsFiniteSet(U)
  <2>1. IsFiniteSet(1 .. n) /\ IsFiniteSet(Paths)
    BY PathsAreNamed, FS_Interval
  <2> QED
    BY <2>1, FS_Product
<1>2. \A r \in U : Size[r[2]] \in Nat
  BY TargetsAssumption
<1>3. f \in [U -> Nat] /\ f[new] = Size[new[2]]
  BY <1>2
<1>4. new \in U /\ S \in SUBSET U /\ T \in SUBSET U /\ new \in T /\ T \ {new} = S
  OBVIOUS
<1> HIDE DEF U, f, T
<1>5. PICK all \in [SUBSET U -> Nat] : SumsOver(all, U, f)
  BY <1>1, <1>3, SumsExist
<1>6. \A R \in SUBSET U : Volume(R) = all[R]
  BY <1>1, <1>2, <1>5, VolumeSums DEF f
<1>7. all[T] = Size[new[2]] + all[S]
  BY <1>3, <1>4, <1>5 DEF SumsOver
<1>8. all[S] \in Nat /\ Size[new[2]] \in Nat
  BY <1>2, <1>4
<1> QED
  BY <1>4, <1>6, <1>7, <1>8 DEF T

LEMMA VolumeOfNone == Volume({}) = 0
<1> DEFINE f == [r \in {} |-> Size[r[2]]]
<1>1. IsFiniteSet({}) /\ f \in [{} -> Nat]
  BY FS_EmptySet
<1>2. PICK all \in [SUBSET {} -> Nat] : SumsOver(all, {}, f)
  <2> HIDE DEF f
  <2> QED
    BY <1>1, SumsExist
<1>3. Volume({}) = all[{}]
  BY <1>1, <1>2, VolumeSums
<1> QED
  BY <1>2, <1>3 DEF SumsOver

Reading(i, files) == {<<i, p>> : p \in files}

\* What has been read of what was listed.
AlreadyRead == Listed \ Reading(turn, active)

ListingRecord == [module : Nat, files : SUBSET Paths]

\* Each module that has had its turn is listed once, in order.
ListingsOK ==
    /\ listings \in Seq(ListingRecord)
    /\ \A k \in DOMAIN listings :
        /\ listings[k].module \in 1 .. turn /\ modules[listings[k].module].packages
        /\ phase = "list" => listings[k].module # turn
    /\ \A j, k \in DOMAIN listings : j < k => listings[j].module < listings[k].module
    /\ phase \in {"list", "search", "done"} =>
        \A i \in DOMAIN modules :
            /\ modules[i].packages
            /\ phase = "list" => i < turn
            /\ phase = "search" => i <= turn
            => \E k \in DOMAIN listings : listings[k].module = i

\* What is to be read is listed for the module that is searched.
ActiveOK ==
    /\ active \in SUBSET Paths
    /\ phase \notin {"search", "rejected"} => active = {}
    /\ phase = "search" => Reading(turn, active) \subseteq Listed

\* What has been read is in the inventory.
ReadOK ==
    /\ Identities(targets) = UNION {IdentitiesIn(r[1], r[2]) : r \in AlreadyRead}
    /\ bytes = Volume(AlreadyRead)

DistinctOK ==
    /\ benchmarks \in Seq(TargetRecord)
    /\ Distinct(targets) /\ Distinct(benchmarks)

ListedOK == ListingsOK /\ ActiveOK /\ ReadOK /\ DistinctOK

LEMMA ListedIsRead ==
    ASSUME ListingsOK
    PROVE  turn \in Nat => Listed \in SUBSET ((1 .. turn) \X Paths)
<1>1. ASSUME NEW k \in DOMAIN listings, NEW p \in listings[k].files
      PROVE  listings[k].module \in 1 .. turn /\ p \in Paths
  <2>1. listings[k] \in ListingRecord
    <3>1. listings \in Seq(ListingRecord)
      BY DEF ListingsOK
    <3> QED
      BY <3>1
  <2> QED
    BY <1>1, <2>1 DEF ListingsOK, ListingRecord
<1> QED
  BY <1>1 DEF Listed

LEMMA ReadStays ==
    ASSUME ReadOK, modules' = modules, targets' = targets, bytes' = bytes,
           AlreadyRead' = AlreadyRead
    PROVE  ReadOK'
<1>1. \A i, p : IdentitiesIn(i, p)' = IdentitiesIn(i, p)
  BY DEF IdentitiesIn
<1>2. bytes' = Volume(AlreadyRead')
  BY DEF ReadOK
<1>3. Identities(targets') = UNION {IdentitiesIn(r[1], r[2])' : r \in AlreadyRead'}
  BY <1>1 DEF ReadOK
<1> QED
  BY <1>2, <1>3 DEF ReadOK, Volume, MapThenSumSet, MapThenFoldSet, Identities

\* A step that lists nothing and reads nothing.
LEMMA ListedStays ==
    ASSUME ListedOK, modules' = modules, UNCHANGED searchVars,
           phase' = phase \/ phase' = "rejected"
    PROVE  ListedOK'
<1>1. /\ turn' = turn /\ active' = active /\ listings' = listings /\ bytes' = bytes
      /\ targets' = targets /\ benchmarks' = benchmarks
  BY DEF searchVars, results
<1>2. ListingsOK'
  BY <1>1 DEF ListedOK, ListingsOK
<1>3. ActiveOK'
  BY <1>1 DEF ListedOK, ActiveOK, Listed
<1>4. AlreadyRead' = AlreadyRead
  BY <1>1 DEF AlreadyRead, Listed
<1>5. ReadOK'
  BY <1>1, <1>4, ReadStays DEF ListedOK
<1>6. DistinctOK'
  BY <1>1 DEF ListedOK, DistinctOK, Distinct
<1> QED
  BY <1>2, <1>3, <1>5, <1>6 DEF ListedOK

\* Nothing is listed before discovery is over.
LEMMA NothingListedYet ==
    ASSUME ListedOK, TurnOK, phase \in {"walk", "inspect", "classify", "discovered"}
    PROVE  turn = 0 /\ listings = <<>> /\ Listed = {} /\ active = {} /\ AlreadyRead = {}
<1>1. turn = 0 /\ active = {} /\ listings \in Seq(ListingRecord)
      /\ \A k \in DOMAIN listings : listings[k].module \in 1 .. turn
  BY DEF TurnOK, ListedOK, ActiveOK, ListingsOK
<1>2. DOMAIN listings = {}
  <2>1. 1 .. 0 = {}
    OBVIOUS
  <2> QED
    BY <1>1, <2>1
<1>3. listings = <<>>
  BY <1>1, <1>2
<1> QED
  BY <1>1, <1>2, <1>3 DEF Listed, AlreadyRead

LEMMA ListedDiscover ==
    ASSUME ListedOK, TurnOK, Discover
    PROVE  ListedOK'
<1>1. /\ turn' = turn /\ active' = active /\ listings' = listings /\ bytes' = bytes
      /\ targets' = targets /\ benchmarks' = benchmarks
      /\ phase \in {"walk", "inspect", "classify"}
      /\ phase' \in {"walk", "inspect", "classify", "discovered", "rejected"}
  BY DEF Discover, searchVars, results, DiscoveryNext, Visit, VisitDirectory, VisitFile,
         ReadDirectory, Unreadable, Refuse, EndWalk, InspectModule, ValidateModules,
         ClassifyPackages
<1>2. turn = 0 /\ listings = <<>> /\ Listed = {} /\ active = {} /\ AlreadyRead = {}
  BY <1>1, NothingListedYet
<1>3. Listed' = {} /\ AlreadyRead' = {}
  BY <1>1, <1>2 DEF Listed, AlreadyRead
<1>4. ListingsOK'
  <2>1. listings' \in Seq(ListingRecord) /\ DOMAIN listings' = {}
    BY <1>1, <1>2
  <2> QED
    BY <1>1, <2>1 DEF ListingsOK
<1>5. ActiveOK'
  BY <1>1, <1>2 DEF ActiveOK
<1>6. ReadOK'
  <2>1. bytes' = Volume({}) /\ Identities(targets') = {}
    BY <1>1, <1>2 DEF ListedOK, ReadOK
  <2> QED
    BY <1>3, <2>1 DEF ReadOK, Volume, MapThenSumSet, MapThenFoldSet, Identities
<1>7. DistinctOK'
  BY <1>1 DEF ListedOK, DistinctOK, Distinct
<1> QED
  BY <1>4, <1>5, <1>6, <1>7 DEF ListedOK

LEMMA ListedNextModule ==
    ASSUME ListedOK, TurnOK, modules \in Seq(ModuleRecord), NextModule
    PROVE  ListedOK' /\ AlreadyRead' = AlreadyRead
<1>1. /\ phase \in {"discovered", "search"} /\ phase' = "list" /\ active = {} /\ active' = active
      /\ modules' = modules /\ listings' = listings /\ bytes' = bytes
      /\ targets' = targets /\ benchmarks' = benchmarks
  <2>1. phase = "discovered" => active = {}
    BY DEF ListedOK, ActiveOK
  <2> QED
    BY <2>1 DEF NextModule, results, found
<1> PICK i \in turn + 1 .. Len(modules) :
      modules[i].packages /\ (\A j \in turn + 1 .. i - 1 : ~modules[j].packages) /\ turn' = i
  BY DEF NextModule
<1>2. DOMAIN modules = 1 .. Len(modules) /\ turn \in Nat
  BY <1>1 DEF TurnOK
<1>3. /\ listings \in Seq(ListingRecord)
      /\ \A k \in DOMAIN listings :
            listings[k].module \in 1 .. turn /\ modules[listings[k].module].packages
      /\ \A j, k \in DOMAIN listings : j < k => listings[j].module < listings[k].module
  BY DEF ListedOK, ListingsOK
<1>4. ASSUME NEW m \in DOMAIN modules, modules[m].packages, m < i
      PROVE  \E k \in DOMAIN listings : listings[k].module = m
  <2>1. m \notin turn + 1 .. i - 1
    BY <1>4
  <2>2. m \in 1 .. turn
    BY <1>2, <1>4, <2>1
  <2>3. phase = "search"
    BY <1>1, <2>2 DEF TurnOK
  <2> QED
    BY <1>4, <2>2, <2>3 DEF ListedOK, ListingsOK
<1>5. \A k \in DOMAIN listings : listings[k].module \in 1 .. i /\ listings[k].module # i
  BY <1>2, <1>3
<1>6. ListingsOK'
  BY <1>1, <1>3, <1>4, <1>5 DEF ListingsOK
<1>7. ActiveOK'
  BY <1>1 DEF ActiveOK
<1>8. AlreadyRead' = AlreadyRead
  BY <1>1 DEF AlreadyRead, Listed, Reading
<1>9. ReadOK'
  BY <1>1, <1>8, ReadStays DEF ListedOK
<1>10. DistinctOK'
  BY <1>1 DEF ListedOK, DistinctOK, Distinct
<1> QED
  BY <1>6, <1>7, <1>8, <1>9, <1>10 DEF ListedOK

LEMMA ListedFinish ==
    ASSUME ListedOK, TurnOK, modules \in Seq(ModuleRecord), Finish
    PROVE  ListedOK'
<1>1. /\ phase = "search" /\ phase' = "done" /\ active = {} /\ active' = active /\ turn' = turn
      /\ modules' = modules /\ listings' = listings /\ bytes' = bytes
      /\ targets' = targets /\ benchmarks' = benchmarks
      /\ \A i \in turn + 1 .. Len(modules) : ~modules[i].packages
  BY DEF Finish, searchVars, results, found
<1>2. DOMAIN modules = 1 .. Len(modules) /\ turn \in DOMAIN modules
  BY <1>1 DEF TurnOK
<1>3. ASSUME NEW m \in DOMAIN modules, modules[m].packages
      PROVE  \E k \in DOMAIN listings : listings[k].module = m
  <2>1. m <= turn
    BY <1>1, <1>2, <1>3
  <2> QED
    BY <1>1, <1>3, <2>1 DEF ListedOK, ListingsOK
<1>4. ListingsOK'
  BY <1>1, <1>3 DEF ListedOK, ListingsOK
<1>5. ActiveOK'
  BY <1>1 DEF ActiveOK
<1>6. AlreadyRead' = AlreadyRead
  BY <1>1 DEF AlreadyRead, Listed
<1>7. ReadOK'
  BY <1>1, <1>6, ReadStays DEF ListedOK
<1>8. DistinctOK'
  BY <1>1 DEF ListedOK, DistinctOK, Distinct
<1> QED
  BY <1>4, <1>5, <1>7, <1>8 DEF ListedOK

\* The files of a module are listed when none of its files has been.
LEMMA ListedListFiles ==
    ASSUME ListedOK, TurnOK, TreeOK, modules \in Seq(ModuleRecord), ListFiles, phase' # "rejected"
    PROVE  ListedOK' /\ AlreadyRead' = AlreadyRead
<1> PICK files : files = GoList(Directory)
  OBVIOUS
<1> PICK t : t = turn
  OBVIOUS
<1> PICK new : new = [module |-> t, files |-> files]
  OBVIOUS
<1>1. /\ phase = "list" /\ phase' = "search" /\ turn' = t /\ modules' = modules
      /\ active' = files /\ listings' = Append(listings, new)
      /\ bytes' = bytes /\ targets' = targets /\ benchmarks' = benchmarks
  BY DEF ListFiles, Refuse, results, found
<1>2. t \in 1 .. Len(modules) /\ t \in DOMAIN modules /\ modules[t].packages /\ t \in Nat \ {0}
  BY <1>1 DEF TurnOK
<1>3. files \in SUBSET Paths
  BY DEF GoList, TreeOK
<1>4. new \in ListingRecord /\ new.module = t /\ new.files = files
  BY <1>2, <1>3 DEF ListingRecord
<1>5. /\ listings \in Seq(ListingRecord)
      /\ \A k \in DOMAIN listings :
            listings[k].module \in 1 .. t - 1 /\ modules[listings[k].module].packages
      /\ \A j, k \in DOMAIN listings : j < k => listings[j].module < listings[k].module
      /\ \A i \in DOMAIN modules :
            modules[i].packages /\ i < t => \E k \in DOMAIN listings : listings[k].module = i
  BY <1>1, <1>2 DEF ListedOK, ListingsOK
<1>6. active = {}
  BY <1>1 DEF ListedOK, ActiveOK
<1> PICK n : n = Len(listings) + 1
  OBVIOUS
<1>7. /\ listings' \in Seq(ListingRecord) /\ DOMAIN listings' = DOMAIN listings \union {n}
      /\ \A k \in DOMAIN listings : listings'[k] = listings[k] /\ k < n
      /\ listings'[n] = new /\ n \in Nat /\ n \notin DOMAIN listings
  BY <1>1, <1>4, <1>5
<1>8. ListingsOK'
  <2>1. \A k \in DOMAIN listings' :
            listings'[k].module \in 1 .. t /\ modules[listings'[k].module].packages
    BY <1>2, <1>4, <1>5, <1>7
  <2>2. ASSUME NEW j \in DOMAIN listings', NEW k \in DOMAIN listings', j < k
        PROVE  listings'[j].module < listings'[k].module
    <3>1. j \in DOMAIN listings /\ j \in Nat
      BY <1>5, <1>7, <2>2
    <3>2. CASE k = n
      BY <1>2, <1>4, <1>5, <1>7, <3>1, <3>2
    <3>3. CASE k \in DOMAIN listings
      BY <1>5, <1>7, <2>2, <3>1, <3>3
    <3> QED
      BY <1>7, <2>2, <3>2, <3>3
  <2>3. ASSUME NEW i \in DOMAIN modules, modules[i].packages, i <= t
        PROVE  \E k \in DOMAIN listings' : listings'[k].module = i
    <3>1. CASE i = t
      BY <1>4, <1>7, <3>1
    <3>2. CASE i # t
      <4>1. i < t
        BY <1>2, <2>3, <3>2
      <4> QED
        BY <1>5, <1>7, <2>3, <4>1
    <3> QED
      BY <3>1, <3>2
  <2>4. \A k \in DOMAIN listings' :
            /\ listings'[k].module \in 1 .. turn' /\ modules'[listings'[k].module].packages
            /\ phase' = "list" => listings'[k].module # turn'
    BY <1>1, <2>1
  <2>5. \A j, k \in DOMAIN listings' : j < k => listings'[j].module < listings'[k].module
    BY <2>2
  <2>6. \A i \in DOMAIN modules' :
            /\ modules'[i].packages
            /\ phase' = "list" => i < turn'
            /\ phase' = "search" => i <= turn'
            => \E k \in DOMAIN listings' : listings'[k].module = i
    BY <1>1, <2>3
  <2>7. listings' \in Seq(ListingRecord)
    BY <1>7
  <2> QED
    BY <2>4, <2>5, <2>6, <2>7 DEF ListingsOK
<1>9. Listed' = Listed \union Reading(t, files)
  BY <1>4, <1>7 DEF Listed, Reading
<1>10. Listed \intersect Reading(t, files) = {}
  <2>1. ASSUME NEW k \in DOMAIN listings PROVE listings[k].module # t
    BY <1>2, <1>5, <2>1
  <2> QED
    BY <2>1 DEF Listed, Reading
<1>11. AlreadyRead' = AlreadyRead
  <2>1. AlreadyRead' = Listed' \ Reading(t, files)
    BY <1>1 DEF AlreadyRead, Reading
  <2>2. AlreadyRead = Listed
    BY <1>6 DEF AlreadyRead, Reading
  <2> QED
    BY <1>9, <1>10, <2>1, <2>2
<1>12. ActiveOK'
  BY <1>1, <1>3, <1>9 DEF ActiveOK, Reading
<1>13. ReadOK'
  BY <1>1, <1>11, ReadStays DEF ListedOK
<1>14. DistinctOK'
  BY <1>1 DEF ListedOK, DistinctOK, Distinct
<1> QED
  BY <1>8, <1>11, <1>12, <1>13, <1>14 DEF ListedOK

\* What a listed file adds to the inventory when it is read.
LEMMA FileAdds ==
    ASSUME ModulesOK, turn \in DOMAIN modules, NEW p \in Paths,
           NEW before \in Seq(TargetRecord), NEW more, more = Declared(p, Fuzz[p])
    PROVE  Identities(before \o more) = Identities(before) \union IdentitiesIn(turn, p)
<1>1. Fuzz[p] \in Seq(STRING)
  BY TargetsAssumption
<1>2. /\ more \in Seq(TargetRecord) /\ Len(more) = Len(Fuzz[p])
      /\ \A i \in DOMAIN Fuzz[p] : more[i].identity = Append(Place(turn, p), Fuzz[p][i])
  BY <1>1, DeclaredMeans
<1> PICK names : names = Fuzz[p]
  OBVIOUS
<1>3. DOMAIN names = DOMAIN more /\ DOMAIN more = 1 .. Len(more)
  BY <1>1, <1>2
<1> PICK all : all = before \o more
  OBVIOUS
<1>4. Len(before) \in Nat /\ Len(more) \in Nat /\ DOMAIN before = 1 .. Len(before)
      /\ DOMAIN all = 1 .. Len(before) + Len(more)
  <2>1. Len(before) \in Nat /\ Len(more) \in Nat /\ DOMAIN before = 1 .. Len(before)
    BY <1>2
  <2>2. before \in Seq(TargetRecord) /\ more \in Seq(TargetRecord)
    BY <1>2
  <2>3. all \in Seq(TargetRecord) /\ Len(all) = Len(before) + Len(more)
    BY <2>2
  <2> QED
    BY <2>1, <2>3
<1>5. \A i \in DOMAIN before : i \in DOMAIN all /\ all[i] = before[i]
  BY <1>2, <1>4
<1>6. \A i \in DOMAIN more : Len(before) + i \in DOMAIN all /\ all[Len(before) + i] = more[i]
  BY <1>2, <1>3, <1>4
<1>7. ASSUME NEW i \in DOMAIN all, i \notin DOMAIN before
      PROVE  \E j \in DOMAIN more : i = Len(before) + j
  <2>1. i - Len(before) \in 1 .. Len(more)
    BY <1>4, <1>7
  <2> QED
    BY <1>3, <1>4, <2>1
<1>8. Identities(all) = Identities(before) \union Identities(more)
  <2>1. ASSUME NEW i \in DOMAIN all
        PROVE  all[i].identity \in Identities(before) \union Identities(more)
    <3>1. CASE i \in DOMAIN before
      BY <1>5, <3>1 DEF Identities
    <3>2. CASE i \notin DOMAIN before
      <4>1. PICK j \in DOMAIN more : i = Len(before) + j
        BY <1>7, <3>2
      <4>2. all[i] = more[j]
        BY <1>6, <4>1
      <4> QED
        BY <4>1, <4>2 DEF Identities
    <3> QED
      BY <3>1, <3>2
  <2>2. \A i \in DOMAIN before : before[i].identity \in Identities(all)
    <3>1. SUFFICES ASSUME NEW i \in DOMAIN before PROVE before[i].identity \in Identities(all)
      OBVIOUS
    <3>2. i \in DOMAIN all /\ before[i].identity = all[i].identity
      BY <1>5
    <3> QED
      BY <3>2 DEF Identities
  <2>3. \A j \in DOMAIN more : more[j].identity \in Identities(all)
    <3>1. SUFFICES ASSUME NEW j \in DOMAIN more PROVE more[j].identity \in Identities(all)
      OBVIOUS
    <3>2. Len(before) + j \in DOMAIN all /\ more[j].identity = all[Len(before) + j].identity
      BY <1>6
    <3> QED
      BY <3>2 DEF Identities
  <2>4. Identities(all) \subseteq Identities(before) \union Identities(more)
    <3>1. SUFFICES ASSUME NEW x \in Identities(all)
                   PROVE  x \in Identities(before) \union Identities(more)
      OBVIOUS
    <3>2. PICK i \in DOMAIN all : x = all[i].identity
      BY DEF Identities
    <3> QED
      BY <2>1, <3>2
  <2>5. Identities(before) \subseteq Identities(all)
    <3>1. SUFFICES ASSUME NEW x \in Identities(before) PROVE x \in Identities(all)
      OBVIOUS
    <3>2. PICK i \in DOMAIN before : x = before[i].identity
      BY DEF Identities
    <3> QED
      BY <2>2, <3>2
  <2>6. Identities(more) \subseteq Identities(all)
    <3>1. SUFFICES ASSUME NEW x \in Identities(more) PROVE x \in Identities(all)
      OBVIOUS
    <3>2. PICK i \in DOMAIN more : x = more[i].identity
      BY DEF Identities
    <3> QED
      BY <2>3, <3>2
  <2> QED
    BY <2>4, <2>5, <2>6
<1>9. Identities(more) = IdentitiesIn(turn, p)
  <2>1. Identities(more) = {Append(Place(turn, p), names[i]) : i \in DOMAIN names}
    BY <1>2, <1>3 DEF Identities
  <2>2. FuzzNames(p) = {names[i] : i \in DOMAIN names}
    BY DEF FuzzNames, ToSet
  <2> QED
    BY <2>1, <2>2 DEF IdentitiesIn, Place
<1> QED
  BY <1>8, <1>9

\* A listed file is read once.
LEMMA ListedSearchFile ==
    ASSUME ListedOK, TurnOK, ModulesOK, ResultsOK, Search, SearchFile, phase' # "rejected",
           NEW f, f = Head(pending), NEW t, t = turn
    PROVE  /\ ListedOK'
           /\ AlreadyRead' = IF f \in active THEN AlreadyRead \union {<<t, f>>} ELSE AlreadyRead
<1>1. /\ phase = "search" /\ phase' = "search" /\ turn' = t /\ modules' = modules
      /\ listings' = listings
  BY DEF Search, SearchFile, Refuse, found
<1>2. CASE f \notin active
  <2>1. UNCHANGED searchVars
    BY <1>1, <1>2 DEF SearchFile, Refuse, searchVars, results
  <2>2. AlreadyRead' = AlreadyRead
    BY <2>1 DEF AlreadyRead, Listed, searchVars
  <2> QED
    BY <1>1, <1>2, <2>1, <2>2, ListedStays
<1>3. CASE f \in active
  <2> PICK fuzz : fuzz = targets \o Declared(f, Fuzz[f])
    OBVIOUS
  <2> PICK bench : bench = benchmarks \o Declared(f, Benchmarks[f])
    OBVIOUS
  <2>1. /\ active' = active \ {f} /\ bytes' = bytes + Size[f]
        /\ targets' = fuzz /\ benchmarks' = bench
        /\ Distinct(fuzz) /\ Distinct(bench)
    BY <1>1, <1>3 DEF SearchFile, Refuse, None
  <2>2. /\ t \in DOMAIN modules /\ t \in Nat \ {0} /\ f \in Paths
        /\ active \in SUBSET Paths /\ Reading(t, active) \subseteq Listed
    <3>1. modules \in Seq(ModuleRecord)
      BY DEF ModulesOK
    <3> QED
      BY <1>1, <1>3, <3>1 DEF TurnOK, ListedOK, ActiveOK
  <2>3. Listed' = Listed
    BY <1>1 DEF Listed
  <2> PICK new : new = <<t, f>>
    OBVIOUS
  <2>4. /\ new \in Reading(t, active) /\ new \notin AlreadyRead
        /\ Reading(t, active \ {f}) = Reading(t, active) \ {new}
    BY <1>3 DEF AlreadyRead, Reading
  <2>5. AlreadyRead' = AlreadyRead \union {new}
    <3>1. AlreadyRead' = Listed \ Reading(t, active \ {f})
      BY <1>1, <2>1, <2>3 DEF AlreadyRead, Reading
    <3>2. AlreadyRead = Listed \ Reading(t, active)
      BY DEF AlreadyRead
    <3> QED
      BY <2>2, <2>4, <3>1, <3>2
  <2>6. ListingsOK'
    BY <1>1 DEF ListedOK, ListingsOK
  <2>7. ActiveOK'
    <3>1. Reading(t, active \ {f}) \subseteq Listed
      BY <2>2, <2>4
    <3> QED
      BY <1>1, <2>1, <2>2, <2>3, <3>1 DEF ActiveOK, Reading
  <2>8. ReadOK'
    <3>1. Volume(AlreadyRead \union {new}) = Volume(AlreadyRead) + Size[f]
      <4> PICK S : S = AlreadyRead
        OBVIOUS
      <4>1. t \in Nat
        BY <2>2
      <4>2. S \in SUBSET ((1 .. t) \X Paths)
        BY <2>2, ListedIsRead DEF ListedOK, AlreadyRead
      <4>3. new \in (1 .. t) \X Paths /\ new[2] = f
        BY <2>2
      <4>4. new \notin S
        BY <2>4
      <4>5. Volume(S \union {new}) = Volume(S) + Size[new[2]]
        BY <4>1, <4>2, <4>3, <4>4, VolumeGrows
      <4> QED
        BY <4>3, <4>5
    <3>2. bytes' = Volume(AlreadyRead')
      BY <2>1, <2>5, <3>1 DEF ListedOK, ReadOK
    <3>3. Identities(fuzz) = Identities(targets) \union IdentitiesIn(t, f)
      BY <2>2, FileAdds DEF ResultsOK
    <3>4. \A i, p : IdentitiesIn(i, p)' = IdentitiesIn(i, p)
      BY <1>1 DEF IdentitiesIn
    <3>5. new[1] = t /\ new[2] = f
      OBVIOUS
    <3>6. Identities(targets) = UNION {IdentitiesIn(r[1], r[2]) : r \in AlreadyRead}
      BY DEF ListedOK, ReadOK
    <3>7. Identities(targets') = UNION {IdentitiesIn(r[1], r[2]) : r \in AlreadyRead'}
      <4> DEFINE Ids(r) == IdentitiesIn(r[1], r[2])
      <4>1. UNION {Ids(r) : r \in AlreadyRead \union {new}}
              = (UNION {Ids(r) : r \in AlreadyRead}) \union Ids(new)
        <5> PICK S : S = AlreadyRead
          OBVIOUS
        <5> HIDE DEF Ids
        <5> QED
          OBVIOUS
      <4> QED
        BY <2>1, <2>5, <3>3, <3>5, <3>6, <4>1
    <3>8. Identities(targets') = UNION {IdentitiesIn(r[1], r[2])' : r \in AlreadyRead'}
      BY <3>4, <3>7
    <3> QED
      BY <3>2, <3>8 DEF ReadOK, Volume, MapThenSumSet, MapThenFoldSet, Identities
  <2>9. DistinctOK'
    <3>1. Benchmarks[f] \in Seq(STRING)
      BY <2>2, TargetsAssumption
    <3>2. Declared(f, Benchmarks[f]) \in Seq(TargetRecord)
      BY <2>2, <3>1, DeclaredMeans
    <3>3. benchmarks \in Seq(TargetRecord)
      BY DEF ListedOK, DistinctOK
    <3>4. bench \in Seq(TargetRecord)
      BY <3>2, <3>3
    <3>5. Distinct(targets') /\ Distinct(benchmarks') /\ benchmarks' \in Seq(TargetRecord)
      BY <2>1, <3>4
    <3> QED
      BY <3>5 DEF DistinctOK, Distinct
  <2> QED
    BY <1>3, <2>5, <2>6, <2>7, <2>8, <2>9 DEF ListedOK
<1> QED
  BY <1>2, <1>3

LEMMA ListedStepKeeps ==
    ASSUME TargetsIInv, ListedOK, [TargetsNext]_targetsVars
    PROVE  ListedOK'
<1>1. TreeOK /\ ModulesOK /\ modules \in Seq(ModuleRecord) /\ ResultsOK /\ TurnOK
  BY DEF TargetsIInv, DiscoveryIInv, ModulesOK
<1>2. CASE Environment /\ UNCHANGED <<phase, walked, found, refusal, searchVars>>
  <2>1. modules' = modules /\ UNCHANGED searchVars /\ phase' = phase
    BY <1>2 DEF found
  <2> QED
    BY <2>1, ListedStays
<1>3. CASE Discover
  BY <1>1, <1>3, ListedDiscover
<1>4. CASE NextModule
  BY <1>1, <1>4, ListedNextModule
<1>5. CASE NoModules \/ Unread \/ Fail
  <2>1. modules' = modules /\ UNCHANGED searchVars /\ phase' = "rejected"
    BY <1>5 DEF NoModules, Unread, Fail, Refuse, found
  <2> QED
    BY <2>1, ListedStays
<1>6. CASE ListFiles
  <2>1. ASSUME phase' = "rejected" PROVE modules' = modules /\ UNCHANGED searchVars
    BY <1>6, <2>1 DEF ListFiles, Refuse, found, searchVars
  <2> QED
    BY <1>1, <1>6, <2>1, ListedListFiles, ListedStays
<1>7. CASE Search /\ SearchDirectory
  <2>1. /\ modules' = modules /\ UNCHANGED searchVars
        /\ phase' = phase \/ phase' = "rejected"
    BY <1>7 DEF Search, SearchDirectory, Refuse, found, searchVars
  <2> QED
    BY <2>1, ListedStays
<1>8. CASE Search /\ SearchFile
  <2>1. ASSUME phase' = "rejected" PROVE modules' = modules /\ UNCHANGED searchVars
    BY <1>8, <2>1 DEF Search, SearchFile, Refuse, found, searchVars
  <2> QED
    BY <1>1, <1>8, <2>1, ListedSearchFile, ListedStays
<1>9. CASE Finish
  BY <1>1, <1>9, ListedFinish
<1>10. CASE UNCHANGED targetsVars
  <2>1. modules' = modules /\ UNCHANGED searchVars /\ phase' = phase
    BY <1>10 DEF targetsVars, discoveryVars, found
  <2> QED
    BY <2>1, ListedStays
<1> QED
  BY <1>2, <1>3, <1>4, <1>5, <1>6, <1>7, <1>8, <1>9, <1>10 DEF TargetsNext, Find, Search

\* What has been read of the listings is in the inventory, at every step of the search.
THEOREM ListingsInvariance == TargetsSpec => []ListedOK
<1>1. TargetsInit => ListedOK
  <2> SUFFICES ASSUME TargetsInit PROVE ListedOK
    OBVIOUS
  <2>1. /\ phase = "walk" /\ turn = 0 /\ active = {} /\ listings = <<>> /\ bytes = 0
        /\ targets = <<>> /\ benchmarks = <<>>
    BY DEF TargetsInit, DiscoveryInit
  <2>2. DOMAIN listings = {} /\ DOMAIN targets = {} /\ DOMAIN benchmarks = {}
        /\ listings \in Seq(ListingRecord) /\ benchmarks \in Seq(TargetRecord)
    BY <2>1
  <2>3. Listed = {} /\ AlreadyRead = {} /\ Identities(targets) = {}
    BY <2>2 DEF Listed, AlreadyRead, Identities
  <2> QED
    BY <2>1, <2>2, <2>3, VolumeOfNone DEF ListedOK, ListingsOK, ActiveOK, ReadOK, DistinctOK, Distinct
<1>2. TargetsIInv /\ ListedOK /\ [TargetsNext]_targetsVars => ListedOK'
  BY ListedStepKeeps
<1> QED
  BY <1>1, <1>2, TargetsInvariance, PTL DEF TargetsSpec

\* A list without two entries of one identity has as many identities as entries.
LEMMA DistinctMeans ==
    ASSUME NEW list \in Seq(TargetRecord), Distinct(list)
    PROVE  Cardinality(Identities(list)) = Len(list)
<1> PICK n : n = Len(list)
  OBVIOUS
<1> DEFINE f == [i \in 1 .. n |-> list[i].identity]
<1>1. n \in Nat /\ DOMAIN list = 1 .. n
  OBVIOUS
<1>2. f \in Bijection(1 .. n, Identities(list))
  BY <1>1 DEF Bijection, Injection, Surjection, IsInjective, Identities, Distinct
<1>3. IsFiniteSet(1 .. n) /\ Cardinality(1 .. n) = n
  <2>1. 1 \in Int
    OBVIOUS
  <2>2. n \in Int
    BY <1>1
  <2>3. IsFiniteSet(1 .. n) /\ Cardinality(1 .. n) = IF 1 > n THEN 0 ELSE n - 1 + 1
    BY <2>1, <2>2, FS_Interval
  <2> QED
    BY <1>1, <2>3
<1>4. Cardinality(Identities(list)) = Cardinality(1 .. n)
  BY <1>2, <1>3, FS_Bijection DEF ExistsBijection
<1> QED
  BY <1>3, <1>4

LEMMA FoundIsListed == TargetsIInv /\ ListedOK => TargetsAreListed
<1> SUFFICES ASSUME TargetsIInv, ListedOK, phase = "done" PROVE TargetsAreListed
  BY DEF TargetsAreListed
<1>1. /\ ListingsOK /\ ActiveOK /\ ReadOK /\ DistinctOK /\ TurnOK /\ ResultsOK
      /\ modules \in Seq(ModuleRecord)
  BY DEF ListedOK, TargetsIInv, DiscoveryIInv, ModulesOK
<1>2. turn \in DOMAIN modules /\ DOMAIN modules = 1 .. Len(modules) /\ active = {}
  BY <1>1 DEF TurnOK, ActiveOK
<1>3. {listings[k].module : k \in DOMAIN listings} = {i \in DOMAIN modules : modules[i].packages}
  <2>1. ASSUME NEW k \in DOMAIN listings
        PROVE  listings[k].module \in DOMAIN modules /\ modules[listings[k].module].packages
    BY <1>1, <1>2 DEF ListingsOK
  <2>2. ASSUME NEW i \in DOMAIN modules, modules[i].packages
        PROVE  \E k \in DOMAIN listings : listings[k].module = i
    BY <1>1, <2>2 DEF ListingsOK
  <2> QED
    BY <2>1, <2>2
<1>4. \A j, k \in DOMAIN listings : j < k => listings[j].module < listings[k].module
  BY <1>1 DEF ListingsOK
<1>5. AlreadyRead = Listed
  BY <1>2 DEF AlreadyRead, Reading
<1>6. \A list \in {targets, benchmarks} : Cardinality(Identities(list)) = Len(list)
  <2>1. targets \in Seq(TargetRecord) /\ benchmarks \in Seq(TargetRecord)
        /\ Distinct(targets) /\ Distinct(benchmarks)
    BY <1>1 DEF ResultsOK, DistinctOK
  <2> QED
    BY <2>1, DistinctMeans
<1>7. Identities(targets) = UNION {IdentitiesIn(r[1], r[2]) : r \in Listed}
  BY <1>1, <1>5 DEF ReadOK
<1>8. bytes = MapThenSumSet(LAMBDA r : Size[r[2]], Listed)
  BY <1>1, <1>5 DEF ReadOK, Volume
<1> QED
  BY <1>3, <1>4, <1>6, <1>7, <1>8 DEF TargetsAreListed

\* When the search ends the inventory is the go command's view of every module with
\* packages: what the listed files declare, each file read once, no identity twice.
THEOREM TargetsListing == TargetsSpec => []TargetsAreListed
BY TargetsInvariance, ListingsInvariance, FoundIsListed, PTL

-----------------------------------------------------------------------------
(* The modules: each is what a go.mod of its own, or one above it, said *)

Describes(e, m) ==
    /\ IsPrefix(e, m.directory)
    /\ m.path = Description[e].path /\ m.version = Description[e].version
    /\ m.directory \in WithModule(stable) => e = m.directory

\* Each module that was inspected is what a module that is, or was, there says; once
\* they are validated no two have one path.
DescribedOK ==
    phase # "rejected" =>
        /\ \A i \in 1 .. inspected : \E e \in WithModule(seen) : Describes(e, modules[i])
        /\ Discovered \/ phase = "classify" =>
            \A i, j \in DOMAIN modules : modules[i].path = modules[j].path => i = j

\* Nothing happens after a refusal.
LEMMA RefusedForGood ==
    ASSUME phase = "rejected", [TargetsNext]_targetsVars
    PROVE  UNCHANGED <<tree, ended, listings, refusal, phase>>
BY DEF TargetsNext, Environment, Create, Delete, Replace, EndContext, Final, Discover,
   DiscoveryNext, Visit, EndWalk, InspectModule, ValidateModules, ClassifyPackages, Find,
   NextModule, NoModules, ListFiles, Search, Unread, Finish, Fail, targetsVars, discoveryVars,
   searchVars

\* The go.mod that the go command finds is one that discovery could have found too.
LEMMA GoverningSeen ==
    ASSUME TreeOK, NEW d \in WithModule(seen), d \in NamedPath, Governed(d)
    PROVE  LET g == SubSeq(d, 1, Max(Governing(d)))
           IN /\ g \in WithModule(seen) /\ IsPrefix(g, d)
              /\ d \in WithModule(stable) => g = d
<1> PICK n : n = Max(Governing(d))
  OBVIOUS
<1>1. Len(d) \in Nat /\ Governing(d) # {} /\ Governing(d) \subseteq 0 .. Len(d)
  BY DEF NamedPath, Governing, Governed
<1>2. n \in Governing(d)
  BY <1>1, GreatestOf
<1> PICK g : g = SubSeq(d, 1, n)
  OBVIOUS
<1>3. n \in 0 .. Len(d) /\ IsModule(g)
  BY <1>2 DEF Governing
<1>4. g \in NamedPath /\ Len(g) = n /\ IsPrefix(g, d) /\ \A i \in 1 .. n : g[i] = d[i]
  BY <1>3, PrefixOfLength DEF NamedPath
<1>5. PICK q \in present : q \notin Links /\ Kind(q) = "module" /\ Front(q) = g
  BY <1>3 DEF IsModule
<1>6. PICK r \in seen : Visible(r) /\ Front(r) = d
  BY HasModule
<1>7. q \in NamedPath \ {<<>>} /\ r \in NamedPath \ {<<>>} /\ q \in seen
  BY <1>5, <1>6, PathsAreNamed DEF TreeOK
<1>8. /\ Len(q) - 1 = n /\ \A i \in 1 .. Len(q) - 1 : g[i] = q[i]
      /\ Len(r) - 1 = Len(d) /\ \A i \in 1 .. Len(r) - 1 : d[i] = r[i]
  <2>1. Len(Front(q)) = Len(q) - 1 /\ \A i \in 1 .. Len(q) - 1 : Front(q)[i] = q[i]
    BY <1>7, FrontMeans
  <2>2. Len(Front(r)) = Len(r) - 1 /\ \A i \in 1 .. Len(r) - 1 : Front(r)[i] = r[i]
    BY <1>7, FrontMeans
  <2> QED
    BY <1>4, <1>5, <1>6, <2>1, <2>2
<1>9. Visible(q)
  <2> SUFFICES ASSUME NEW i \in 1 .. Len(q) - 1 PROVE Class[q[i]] # "skipped"
    BY DEF Visible
  <2>1. q[i] = r[i] /\ i \in 1 .. Len(r) - 1
    BY <1>1, <1>3, <1>4, <1>8
  <2> QED
    BY <1>6, <2>1 DEF Visible
<1>10. g \in WithModule(seen)
  BY <1>5, <1>7, <1>9, HasModule
<1>11. ASSUME d \in WithModule(stable) PROVE g = d
  <2>1. IsModule(d) /\ present \subseteq Paths
    BY <1>11 DEF TreeOK, WithModule, IsModule
  <2> QED
    BY <2>1, GoverningMeans
<1> QED
  BY <1>4, <1>10, <1>11

\* What was said of the modules stands while they do.
LEMMA DescribedStays ==
    ASSUME DescribedOK, stable' \subseteq stable, seen \subseteq seen', phase # "rejected",
           modules' = modules, inspected' = inspected,
           (Discovered \/ phase = "classify")' => Discovered \/ phase = "classify"
    PROVE  DescribedOK'
<1>1. WithModule(stable)' \subseteq WithModule(stable) /\ WithModule(seen) \subseteq WithModule(seen)'
  BY DEF WithModule
<1>2. ASSUME NEW i \in 1 .. inspected PROVE \E e \in WithModule(seen)' : Describes(e, modules[i])'
  <2>1. PICK e \in WithModule(seen) : Describes(e, modules[i])
    BY DEF DescribedOK
  <2>2. Describes(e, modules[i])'
    BY <1>1, <2>1 DEF Describes
  <2> QED
    BY <1>1, <2>2
<1>3. (Discovered \/ phase = "classify")' =>
        \A i, j \in DOMAIN modules : modules[i].path = modules[j].path => i = j
  BY DEF DescribedOK
<1> QED
  BY <1>2, <1>3 DEF DescribedOK

LEMMA InspectDescribed ==
    ASSUME DiscoveryIInv, PathsOK, DescribedOK, InspectModule, phase' # "rejected"
    PROVE  DescribedOK'
<1>1. /\ phase = "inspect" /\ phase' = phase /\ present' = present /\ stable' = stable /\ seen' = seen
      /\ inspected \in Nat /\ inspected' = inspected + 1 /\ inspected' \in DOMAIN modules
      /\ \A i \in DOMAIN modules :
           /\ modules'[i].directory = modules[i].directory
           /\ i # inspected + 1 => modules'[i] = modules[i]
  BY InspectMeans DEF tree
<1>2. WithModule(stable)' = WithModule(stable) /\ WithModule(seen)' = WithModule(seen)
  BY <1>1 DEF WithModule
<1> PICK k : k = inspected + 1
  OBVIOUS
<1> PICK d : d = modules[k].directory
  OBVIOUS
<1> PICK g : g = SubSeq(d, 1, Max(Governing(d)))
  OBVIOUS
<1>3. /\ modules \in Seq(ModuleRecord) /\ k \in DOMAIN modules /\ d \in NamedPath
      /\ d \in WithModule(seen) /\ TreeOK
  <2>1. ModulesOK /\ FoundOK /\ TreeOK
    BY DEF DiscoveryIInv
  <2>2. modules[k].directory \in NamedPath /\ k \in DOMAIN modules
    BY <1>1, <2>1, FoundDirectories
  <2> QED
    BY <1>1, <2>1, <2>2 DEF FoundAt, FoundOK, ModulesOK
<1>4. Governed(d) /\ modules' = [modules EXCEPT ![k] = Module(d, Description[g].path, Description[g].version)]
  BY DEF InspectModule, Refuse
<1>5. modules'[k] = Module(d, Description[g].path, Description[g].version)
  BY <1>3, <1>4
<1>6. /\ modules'[k].directory = d /\ modules'[k].path = Description[g].path
      /\ modules'[k].version = Description[g].version
  BY <1>5 DEF Module
<1>7. g \in WithModule(seen) /\ IsPrefix(g, d) /\ (d \in WithModule(stable) => g = d)
  BY <1>3, <1>4, GoverningSeen
<1>8. Describes(g, modules[k])'
  BY <1>2, <1>6, <1>7 DEF Describes
<1>9. ASSUME NEW i \in 1 .. inspected' PROVE \E e \in WithModule(seen)' : Describes(e, modules[i])'
  <2>1. CASE i = k
    BY <1>2, <1>7, <1>8, <2>1
  <2>2. CASE i # k
    <3>1. i \in 1 .. inspected /\ i \in DOMAIN modules
      BY <1>1, <1>3, <2>2
    <3>2. PICK e \in WithModule(seen) : Describes(e, modules[i])
      BY <1>1, <3>1 DEF DescribedOK
    <3>3. modules'[i] = modules[i]
      BY <1>1, <2>2, <3>1
    <3> QED
      BY <1>2, <3>2, <3>3 DEF Describes
  <2> QED
    BY <2>1, <2>2
<1> QED
  BY <1>1, <1>9 DEF DescribedOK, Discovered

LEMMA ValidateDescribed ==
    ASSUME DiscoveryIInv, DescribedOK, ValidateModules, phase' # "rejected"
    PROVE  DescribedOK'
<1>1. /\ phase = "inspect" /\ ValidModules /\ modules' = modules /\ inspected' = inspected
      /\ stable' = stable /\ seen' = seen
  BY DEF ValidateModules, Refuse, found, tree
<1>2. WithModule(stable)' = WithModule(stable) /\ WithModule(seen)' = WithModule(seen)
  BY <1>1 DEF WithModule
<1>3. ASSUME NEW i \in DOMAIN modules, NEW j \in DOMAIN modules, modules[i].path = modules[j].path
      PROVE  i = j
  <2>1. modules \in Seq(ModuleRecord)
    BY DEF DiscoveryIInv, ModulesOK
  <2>2. i \in 1 .. Len(modules) /\ j \in 1 .. Len(modules) /\ Len(modules) \in Nat
    BY <2>1
  <2>3. ~(i < j) /\ ~(j < i)
    <3>1. i < j => i \in 1 .. j - 1
      BY <2>2
    <3>2. j < i => j \in 1 .. i - 1
      BY <2>2
    <3> QED
      BY <1>1, <1>3, <3>1, <3>2 DEF ValidModules
  <2> QED
    BY <2>2, <2>3
<1>4. \A i \in 1 .. inspected : \E e \in WithModule(seen) : Describes(e, modules[i])
  BY <1>1 DEF DescribedOK
<1> QED
  BY <1>1, <1>2, <1>3, <1>4 DEF DescribedOK, Describes

LEMMA ClassifyDescribed ==
    ASSUME DiscoveryIInv, PathsOK, DescribedOK, ClassifyPackages
    PROVE  DescribedOK'
<1>1. phase = "classify" /\ inspected' = inspected /\ stable' = stable /\ seen' = seen
  BY DEF ClassifyPackages, tree
<1>2. WithModule(stable)' = WithModule(stable) /\ WithModule(seen)' = WithModule(seen)
  BY <1>1 DEF WithModule
<1>3. /\ modules \in Seq(ModuleRecord) /\ DOMAIN modules' = DOMAIN modules
      /\ \A i \in DOMAIN modules :
           /\ modules'[i].directory = modules[i].directory /\ modules'[i].path = modules[i].path
           /\ modules'[i].version = modules[i].version
  BY ClassifyMeans DEF DiscoveryIInv, ModulesOK
<1>4. DOMAIN modules = 1 .. inspected
  BY <1>1, <1>3 DEF PathsOK
<1>5. ASSUME NEW i \in 1 .. inspected PROVE \E e \in WithModule(seen)' : Describes(e, modules[i])'
  <2>1. PICK e \in WithModule(seen) : Describes(e, modules[i])
    BY <1>1 DEF DescribedOK
  <2> QED
    BY <1>2, <1>3, <1>4, <2>1 DEF Describes
<1>6. \A i, j \in DOMAIN modules' : modules'[i].path = modules'[j].path => i = j
  BY <1>1, <1>3 DEF DescribedOK
<1> QED
  BY <1>1, <1>5, <1>6 DEF DescribedOK

LEMMA DescribedStepKeeps ==
    ASSUME TargetsIInv, DescribedOK, [TargetsNext]_targetsVars
    PROVE  DescribedOK'
<1>1. DiscoveryIInv /\ PathsOK
  BY DEF TargetsIInv
<1>2. CASE phase' = "rejected"
  BY <1>2 DEF DescribedOK
<1>3. CASE phase' # "rejected"
  <2>1. phase # "rejected"
    BY <1>3, RefusedForGood
  <2>2. ASSUME UNCHANGED <<tree, found>>, phase \in {"discovered", "list", "search", "done"} \/ phase' \in {"walk", "inspect"}
        PROVE  DescribedOK'
    <3>1. stable' = stable /\ seen' = seen /\ modules' = modules /\ inspected' = inspected
      BY <2>2 DEF tree, found
    <3> QED
      BY <2>1, <2>2, <3>1, DescribedStays DEF Discovered
  <2>3. CASE Environment /\ UNCHANGED <<phase, walked, found, refusal, searchVars>>
    <3>1. stable' \subseteq stable /\ seen \subseteq seen'
      <4>1. CASE EndContext /\ UNCHANGED tree
        BY <4>1 DEF tree
      <4>2. ASSUME NEW p \in Paths, Create(p) \/ Delete(p)
            PROVE  stable' \subseteq stable /\ seen \subseteq seen'
        BY <1>1, <4>2, ChangeKeeps DEF DiscoveryIInv
      <4> QED
        BY <2>3, <4>1, <4>2 DEF Environment
    <3>2. modules' = modules /\ inspected' = inspected /\ phase' = phase
      BY <2>3 DEF found
    <3> QED
      BY <2>1, <3>1, <3>2, DescribedStays DEF Discovered
  <2>4. CASE Discover
    <3>1. CASE Visit
      <4>1. phase' = "walk" /\ inspected' = inspected /\ phase = "walk"
        BY <1>3, <3>1 DEF Visit, VisitDirectory, ReadDirectory, Unreadable, VisitFile, Refuse, found
      <4>2. 1 .. inspected' = {}
        BY <1>1, <4>1 DEF PathsOK
      <4> QED
        BY <4>1, <4>2 DEF DescribedOK, Discovered
    <3>2. CASE EndWalk
      <4>1. phase' = "inspect" /\ UNCHANGED <<tree, found>>
        BY <1>3, <3>2 DEF EndWalk, Refuse
      <4> QED
        BY <2>2, <4>1
    <3>3. CASE InspectModule
      BY <1>1, <1>3, <3>3, InspectDescribed
    <3>4. CASE ValidateModules
      BY <1>1, <1>3, <3>4, ValidateDescribed
    <3>5. CASE ClassifyPackages
      BY <1>1, <3>5, ClassifyDescribed
    <3> QED
      BY <2>4, <3>1, <3>2, <3>3, <3>4, <3>5 DEF Discover, DiscoveryNext
  <2>5. CASE Find
    <3>1. UNCHANGED <<tree, found>> /\ phase \in {"discovered", "list", "search", "done"}
      BY <2>5 DEF Find, NextModule, NoModules, ListFiles, Search, Unread, Finish
    <3> QED
      BY <2>2, <3>1
  <2>6. CASE Fail
    BY <1>3, <2>6 DEF Fail, Refuse
  <2>7. CASE UNCHANGED targetsVars
    <3>1. /\ stable' = stable /\ seen' = seen /\ modules' = modules /\ inspected' = inspected
          /\ phase' = phase
      BY <2>7 DEF targetsVars, discoveryVars, tree, found
    <3> QED
      BY <2>1, <3>1, DescribedStays DEF Discovered
  <2> QED
    BY <2>3, <2>4, <2>5, <2>6, <2>7 DEF TargetsNext
<1> QED
  BY <1>2, <1>3

THEOREM DescriptionsInvariance == TargetsSpec => []DescribedOK
<1>1. TargetsInit => DescribedOK
  BY DEF TargetsInit, DiscoveryInit, DescribedOK, Discovered
<1>2. TargetsIInv /\ DescribedOK /\ [TargetsNext]_targetsVars => DescribedOK'
  BY DescribedStepKeeps
<1> QED
  BY <1>1, <1>2, TargetsInvariance, PTL DEF TargetsSpec

LEMMA DescribedIsOwn == TargetsIInv /\ DescribedOK => ModulesAreTheirOwn
<1> SUFFICES ASSUME TargetsIInv, DescribedOK, Discovered, NEW i \in DOMAIN modules
             PROVE  \E d \in WithModule(seen) :
                        /\ IsPrefix(d, modules[i].directory)
                        /\ modules[i].path = Description[d].path
                        /\ modules[i].version = Description[d].version
                        /\ d # modules[i].directory =>
                            {d, modules[i].directory} \intersect WithModule(stable) = {}
  BY DEF ModulesAreTheirOwn
<1>1. DiscoveryIInv /\ ModulesOK /\ PathsOK /\ phase # "rejected" /\ DiscoveryIsComplete
  BY FoundIsComplete DEF TargetsIInv, DiscoveryIInv, Discovered
<1>2. DOMAIN modules = 1 .. inspected
  <2>1. modules \in Seq(ModuleRecord) /\ inspected = Len(modules)
    BY <1>1 DEF ModulesOK, PathsOK
  <2> QED
    BY <2>1
<1>3. PICK d \in WithModule(seen) : Describes(d, modules[i])
  BY <1>1, <1>2 DEF DescribedOK
<1>4. ASSUME d # modules[i].directory, d \in WithModule(stable) PROVE FALSE
  <2>1. PICK j \in DOMAIN modules : modules[j].directory = d
    BY <1>1, <1>4 DEF DiscoveryIsComplete, FoundAt
  <2>2. PICK e \in WithModule(seen) : Describes(e, modules[j])
    BY <1>1, <1>2 DEF DescribedOK
  <2>3. e = d
    BY <1>4, <2>1, <2>2 DEF Describes
  <2>4. modules[i].path = modules[j].path
    BY <1>3, <2>2, <2>3 DEF Describes
  <2>5. i = j
    BY <1>1, <2>4 DEF DescribedOK
  <2> QED
    BY <1>4, <2>1, <2>5
<1> QED
  BY <1>3, <1>4 DEF Describes

\* A module is what its own go.mod says wherever one was there all along, whatever else
\* comes and goes; any other is what a go.mod above it says that was not.
THEOREM ModulesOwnership == TargetsSpec => []ModulesAreTheirOwn
BY TargetsInvariance, DescriptionsInvariance, DescribedIsOwn, PTL

-----------------------------------------------------------------------------
(* The refusals: each has its reason in the repository *)

\* What ever was, is and was there all along, until something changes.
CalmOK == changes \in Nat /\ (changes = 0 => stable = present /\ seen = present)

RootOK == \A i \in DOMAIN modules : modules[i].directory = <<>> => i = 1

RootLinter(p) == Len(p) = 1 /\ Kind(p) = "linter"

\* The linter's configuration is one that was met; one that was there all along was,
\* or is still to be met.
LinterOK ==
    /\ linterConfig # <<>> =>
        /\ linterConfig \in seen /\ RootLinter(linterConfig)
        /\ \A r \in Held : ~IsPrefix(r, linterConfig)
    /\ \A p \in stable : RootLinter(p) => linterConfig # <<>> \/ \E r \in Held : IsPrefix(r, p)

\* Until something changes, what is active is still to be met.
MetOK ==
    phase = "search" =>
        /\ \A r \in ToSet(pending) : r # <<>> => r \in seen
        /\ changes = 0 =>
            /\ \A d \in {Directory} : active \subseteq GoList(d)
            /\ \A p \in active : \E r \in ToSet(pending) : IsPrefix(r, p)

\* What a list holds was declared by a file that was read.
Traced(list, D) ==
    \A i \in DOMAIN list : \E r \in AlreadyRead : \E j \in DOMAIN D[r[2]] :
        list[i].identity = Append(Place(r[1], r[2]), D[r[2]][j])

TracedOK ==
    /\ \A k \in DOMAIN listings : listings[k].files \subseteq Tests
    /\ Traced(targets, Fuzz) /\ Traced(benchmarks, Benchmarks)

ReasonsOK ==
    /\ phase # "rejected" =>
        CalmOK /\ RootOK /\ LinterOK /\ MetOK /\ TracedOK /\ refusal = None
    /\ RefusalsAreExplained

\* A reason stands while the repository does.
LEMMA ReasonStands ==
    ASSUME UNCHANGED <<tree, ended, listings>>, Explained(refusal')
    PROVE  RefusalsAreExplained'
<1> PICK why : why = refusal'
  OBVIOUS
<1>1. /\ present' = present /\ stable' = stable /\ seen' = seen /\ changes' = changes
      /\ ended' = ended /\ listings' = listings
  BY DEF tree
<1>2. /\ \A kinds : OfKind(kinds, stable)' = OfKind(kinds, stable)
      /\ WithModule(stable)' = WithModule(stable) /\ WithModule(seen)' = WithModule(seen)
      /\ Tests' = Tests
  BY <1>1 DEF OfKind, WithModule, Tests
<1>3. Count({p \in seen : Len(p) = 1 /\ Kind(p) = "linter"})'
        = Count({p \in seen : Len(p) = 1 /\ Kind(p) = "linter"})
  BY <1>1 DEF Count
<1> QED
  BY <1>1, <1>2, <1>3 DEF RefusalsAreExplained, Explained

LEMMA NoneIsExplained ==
    ASSUME NEW why, why \in {None, "failed", "entries", "modules", "sources", "bytes", "targets"}
    PROVE  Explained(why)
BY DEF Explained, None

LEMMA LinterAtRoot ==
    ASSUME NEW p \in NamedPath, p # <<>>
    PROVE  RootLinter(p) <=> Front(p) = <<>> /\ Kind(p) = "linter"
<1>1. Front(p) \in NamedPath /\ Len(Front(p)) = Len(p) - 1 /\ Len(p) \in Nat
  BY FrontMeans
<1> PICK d : d = Front(p)
  OBVIOUS
<1>2. Len(d) = 0 <=> d = <<>>
  BY <1>1 DEF NamedPath
<1> QED
  BY <1>1, <1>2 DEF RootLinter

\* What was seen is there, until something changes.
LEMMA StillThere ==
    ASSUME CalmOK, changes = 0, NEW d, d # <<>> => d \in seen
    PROVE  Exists(d)
BY DEF CalmOK, Exists

LEMMA ModuleStillThere ==
    ASSUME DiscoveryIInv, CalmOK, changes = 0, NEW d \in FoundAt
    PROVE  d \in WithModule(seen) /\ d \in WithModule(stable) /\ Exists(d) /\ IsModule(d) /\ Governed(d)
           /\ d \in NamedPath
<1>1. FoundAt \subseteq WithModule(seen) /\ seen = present /\ stable = present /\ present \in SUBSET Paths
      /\ Closed(present) /\ FoundAt \subseteq NamedPath
  BY FoundDirectories DEF DiscoveryIInv, FoundOK, CalmOK, TreeOK
<1>2. PICK q \in present : q \notin Links /\ Kind(q) = "module" /\ Visible(q) /\ Front(q) = d
  BY <1>1, HasModule
<1>3. IsModule(d)
  BY <1>2 DEF IsModule
<1>4. Exists(d)
  <2>1. q \in NamedPath /\ q # <<>>
    BY <1>1, PathsAreNamed
  <2>2. d \in NamedPath /\ Below(d, q)
    BY <1>2, <2>1, FrontMeans
  <2> QED
    BY <1>1, <2>2, ClosedAbove DEF Exists
<1>5. Governed(d)
  <2> PICK n : n = Len(d)
    OBVIOUS
  <2>1. d \in NamedPath
    BY <1>1
  <2>2. n \in 0 .. Len(d) /\ SubSeq(d, 1, n) = d
    BY <2>1, PrefixItself, PrefixIsFirst DEF NamedPath
  <2>3. n \in Governing(d)
    BY <1>3, <2>2 DEF Governing
  <2> QED
    BY <2>3 DEF Governed
<1>6. d \in WithModule(seen) /\ d \in WithModule(stable)
  BY <1>1
<1> QED
  BY <1>1, <1>3, <1>4, <1>5, <1>6

-----------------------------------------------------------------------------
(* Discovery: why it refuses *)

LEMMA VisitExplained ==
    ASSUME DiscoveryIInv, CalmOK, LinterOK, Visit, phase' = "rejected"
    PROVE  Explained(refusal')
<1> PICK h : h = Head(pending)
  OBVIOUS
<1> PICK why : why = refusal'
  OBVIOUS
<1>1. phase = "walk" /\ pending # <<>>
  BY DEF Visit
<1>2. h \in NamedPath /\ (h # <<>> => h \in seen) /\ h \in Held
  BY <1>1, AtHead
<1>3. CASE VisitDirectory
  <2>1. (why = "missing" /\ ~Exists(h)) \/ why \in {"entries", "modules"}
    BY <1>1, <1>3 DEF VisitDirectory, ReadDirectory, Unreadable, Refuse
  <2>2. CASE why = "missing"
    <3>1. changes > 0
      BY <1>2, <2>1, <2>2, StillThere DEF CalmOK
    <3> QED
      BY <2>2, <3>1 DEF Explained
  <2> QED
    BY <2>1, <2>2, NoneIsExplained
<1>4. CASE VisitFile
  <2>1. h \notin Directories /\ why = Refused(h)
    BY <1>1, <1>4 DEF VisitFile, Refuse
  <2>2. h # <<>> /\ h \in seen
    BY <1>2, <2>1 DEF Directories
  <2>3. \/ why = "link" /\ h \in Links
        \/ why = "linter" /\ Front(h) = <<>> /\ Kind(h) = "linter" /\ linterConfig # <<>>
        \/ why \in {"sources", None}
    BY <2>1 DEF Refused
  <2>4. CASE why = "link"
    BY <2>2, <2>3, <2>4 DEF Explained, None
  <2>5. CASE why = "linter"
    <3> DEFINE both == {p \in seen : RootLinter(p)}
    <3>1. Front(h) = <<>> /\ Kind(h) = "linter" /\ linterConfig # <<>>
      BY <2>3, <2>5 DEF None
    <3>2. RootLinter(h)
      BY <1>2, <2>2, <3>1, LinterAtRoot
    <3>3. linterConfig \in seen /\ RootLinter(linterConfig) /\ linterConfig # h
      <4>1. linterConfig \in seen /\ RootLinter(linterConfig) /\ ~IsPrefix(h, linterConfig)
        BY <1>2, <3>1 DEF LinterOK
      <4>2. IsPrefix(h, h)
        BY <1>2, PrefixItself DEF NamedPath
      <4> QED
        BY <4>1, <4>2
    <3>4. {h, linterConfig} \subseteq both /\ IsFiniteSet(both)
      <4>1. both \subseteq Paths
        BY DEF DiscoveryIInv, TreeOK
      <4> QED
        BY <2>2, <3>2, <3>3, <4>1, PathsAreNamed, FS_Subset
    <3>5. Cardinality({h, linterConfig}) = 2
      <4>1. Cardinality({h}) = 1 /\ IsFiniteSet({h})
        BY FS_Singleton
      <4>2. {h, linterConfig} = {h} \union {linterConfig} /\ linterConfig \notin {h}
        BY <3>3
      <4> QED
        BY <4>1, <4>2, FS_AddElement
    <3>6. Cardinality(both) > 1
      <4>1. 2 <= Cardinality(both) /\ Cardinality(both) \in Nat
        BY <3>4, <3>5, FS_Subset, FS_CardinalityType
      <4> QED
        BY <4>1
    <3>7. both = {p \in seen : Len(p) = 1 /\ Kind(p) = "linter"}
      BY DEF RootLinter
    <3> HIDE DEF both
    <3> QED
      BY <2>5, <3>6, <3>7 DEF Explained, Count
  <2> QED
    BY <2>3, <2>4, <2>5, NoneIsExplained
<1> QED
  BY <1>3, <1>4 DEF Visit

LEMMA EndWalkExplained ==
    ASSUME DiscoveryIInv, RootOK, LinterOK, EndWalk, phase' = "rejected"
    PROVE  Explained(refusal')
<1>1. phase = "walk" /\ pending = <<>> /\ ~ValidLayout /\ refusal' = "layout"
  BY DEF EndWalk, Refuse
<1>2. Held = {}
  BY <1>1, MembersOfNone DEF Held
<1>3. ASSUME <<>> \in WithModule(stable) PROVE modules # <<>> /\ modules[1].directory = <<>>
  <2>1. PICK q \in stable : q \notin Links /\ Kind(q) = "module" /\ Visible(q) /\ Front(q) = <<>>
    BY <1>3, HasModule
  <2>2. Accounted(q)
    BY <1>1, <1>2, <2>1 DEF DiscoveryIInv, CoveredOK
  <2>3. <<>> \in FoundAt
    BY <2>1, <2>2 DEF Accounted
  <2>4. PICK i \in DOMAIN modules : modules[i].directory = <<>>
    BY <2>3 DEF FoundAt
  <2>5. i = 1
    BY <2>4 DEF RootOK
  <2> QED
    BY <2>4, <2>5
<1>4. ASSUME linterConfig = <<>> PROVE {p \in stable : RootLinter(p)} = {}
  BY <1>2, <1>4 DEF LinterOK
<1>5. <<>> \notin WithModule(stable) \/ {p \in stable : RootLinter(p)} = {}
  BY <1>1, <1>3, <1>4 DEF ValidLayout
<1> QED
  BY <1>1, <1>5 DEF Explained, RootLinter

LEMMA InspectExplained ==
    ASSUME DiscoveryIInv, CalmOK, InspectModule, phase' = "rejected"
    PROVE  Explained(refusal')
<1> PICK why : why = refusal'
  OBVIOUS
<1> PICK d : d = modules[inspected + 1].directory
  OBVIOUS
<1> PICK g : g = SubSeq(d, 1, Max(Governing(d)))
  OBVIOUS
<1>1. /\ phase = "inspect" /\ inspected < Len(modules)
      /\ \/ why = "module" /\ Description[g].tools /\ Description[g].replace /\ Governed(d)
         \/ why = "missing" /\ ~(Exists(d) /\ Governed(d))
  BY DEF InspectModule, Refuse
<1>2. inspected + 1 \in DOMAIN modules
  <2>1. modules \in Seq(ModuleRecord) /\ inspected \in 0 .. Len(modules)
    BY DEF DiscoveryIInv, ModulesOK
  <2> QED
    BY <1>1, <2>1
<1>3. d \in FoundAt
  BY <1>2 DEF FoundAt
<1>4. changes = 0 => d \in WithModule(seen) /\ Exists(d) /\ IsModule(d) /\ Governed(d) /\ d \in NamedPath
  BY <1>3, ModuleStillThere
<1>5. CASE why = "missing"
  <2>1. changes > 0
    BY <1>1, <1>4, <1>5 DEF CalmOK
  <2> QED
    BY <1>5, <2>1 DEF Explained
<1>6. CASE why = "module"
  <2>1. Governed(d) /\ Description[g].tools /\ Description[g].replace
    BY <1>1, <1>6
  <2>2. d \in WithModule(seen) /\ d \in NamedPath /\ TreeOK
    BY <1>3, FoundDirectories DEF DiscoveryIInv, FoundOK
  <2>3. g \in WithModule(seen)
    BY <2>1, <2>2, GoverningSeen
  <2> QED
    BY <1>6, <2>1, <2>3 DEF Explained
<1> QED
  BY <1>1, <1>5, <1>6

LEMMA ValidateExplained ==
    ASSUME DiscoveryIInv, DescribedOK, ValidateModules, phase' = "rejected"
    PROVE  Explained(refusal')
<1>1. phase = "inspect" /\ inspected = Len(modules) /\ ~ValidModules /\ refusal' = "module"
  BY DEF ValidateModules, Refuse
<1>2. /\ DOMAIN modules = 1 .. inspected /\ inspected \in Nat
      /\ \A i, j \in DOMAIN modules : modules[i].directory = modules[j].directory => i = j
  <2>1. modules \in Seq(ModuleRecord)
        /\ \A i, j \in DOMAIN modules : modules[i].directory = modules[j].directory => i = j
    BY DEF DiscoveryIInv, ModulesOK
  <2> QED
    BY <1>1, <2>1
<1>3. ASSUME NEW i \in DOMAIN modules
      PROVE  /\ modules[i].directory \in WithModule(seen) /\ modules[i].directory \in NamedPath
             /\ \E e \in WithModule(seen) : Describes(e, modules[i])
  BY <1>1, <1>2, FoundDirectories DEF DescribedOK, DiscoveryIInv, FoundOK, FoundAt
<1> PICK i \in DOMAIN modules :
       \/ ~(modules[i].version <= Toolchain)
       \/ \E j \in 1 .. i - 1 : modules[j].path = modules[i].path
  BY <1>1 DEF ValidModules
<1> PICK d \in WithModule(seen) : Describes(d, modules[i])
  BY <1>3
<1>4. CASE ~(modules[i].version <= Toolchain)
  <2>1. modules[i].version \in Nat /\ Toolchain \in Nat
    <3>1. modules[i] \in ModuleRecord
      BY FoundDirectories DEF DiscoveryIInv
    <3> QED
      BY <3>1, DiscoveryAssumption DEF ModuleRecord
  <2>2. Description[d].version > Toolchain
    BY <1>4, <2>1 DEF Describes
  <2> QED
    BY <1>1, <2>2 DEF Explained
<1>5. ASSUME NEW j \in 1 .. i - 1, modules[j].path = modules[i].path
      PROVE  Explained("module")
  <2>1. j \in DOMAIN modules /\ j # i /\ modules[j].directory # modules[i].directory
    BY <1>2
  <2>2. PICK e \in WithModule(seen) : Describes(e, modules[j])
    BY <1>3, <2>1
  <2>3. CASE d # e
    BY <1>5, <2>2, <2>3 DEF Explained, Describes
  \* One go.mod describes two modules, and is above one of them at least.
  <2>4. CASE d = e
    <3>1. ASSUME NEW k \in DOMAIN modules, Describes(d, modules[k]), modules[k].directory # d
          PROVE  Explained("module")
      <4> PICK below : below = modules[k].directory
        OBVIOUS
      <4>1. below \in WithModule(seen) /\ Below(d, below) /\ below \notin WithModule(stable)
        BY <1>3, <3>1 DEF Describes, Below
      <4> QED
        BY <4>1 DEF Explained
    <3> QED
      BY <2>1, <2>2, <2>4, <3>1
  <2> QED
    BY <2>3, <2>4
<1> QED
  BY <1>1, <1>4, <1>5

LEMMA NoModulesExplained ==
    ASSUME DiscoveryIInv, NoModules
    PROVE  Explained(refusal')
<1>1. phase = "discovered" /\ refusal' = "packages" /\ \A i \in DOMAIN modules : ~modules[i].packages
  BY DEF NoModules, Refuse
<1>2. DiscoveryIsComplete /\ Discovered /\ ModulesOK
  BY <1>1, FoundIsComplete DEF Discovered, DiscoveryIInv
<1>3. ASSUME NEW p \in OfKind({"code", "test"}, stable) PROVE FALSE
  <2> PICK d : d = Nearest(FoundAt, p)
    OBVIOUS
  <2>1. p \in NamedPath \ {<<>>}
    BY PathsAreNamed DEF OfKind, DiscoveryIInv, TreeOK
  <2>2. FoundAt \in SUBSET NamedPath /\ <<>> \in FoundAt
    <3>1. modules # <<>> /\ modules[1].directory = <<>>
      BY <1>1, <1>2 DEF ModulesOK
    <3> QED
      BY <1>2, <3>1, FoundDirectories DEF FoundAt
  <2>3. d \in FoundAt
    BY <2>1, <2>2, NearestMeans
  <2>4. PICK i \in DOMAIN modules : modules[i].directory = d
    BY <2>3 DEF FoundAt
  <2>5. p \in {q \in OfKind({"code", "test"}, stable) : Nearest(FoundAt, q) = modules[i].directory}
    BY <2>4
  <2> QED
    BY <1>1, <1>2, <2>5 DEF DiscoveryIsComplete
<1> QED
  BY <1>1, <1>3 DEF Explained

-----------------------------------------------------------------------------
(* The search: why it refuses *)

\* A module that was found and is gone.
LEMMA ListFilesExplained ==
    ASSUME DiscoveryIInv, CalmOK, TurnOK, ListFiles, phase' = "rejected"
    PROVE  Explained(refusal')
<1> PICK d : d = Directory
  OBVIOUS
<1>1. phase = "list" /\ refusal' = "missing" /\ ~(Exists(d) /\ Governed(d))
  BY DEF ListFiles, Refuse
<1>2. turn \in DOMAIN modules
  BY <1>1 DEF TurnOK
<1>3. d \in FoundAt
  BY <1>2 DEF FoundAt, Directory
<1>4. changes > 0
  BY <1>1, <1>3, ModuleStillThere DEF CalmOK
<1> QED
  BY <1>1, <1>4 DEF Explained

\* A directory that was listed and is gone.
LEMMA SearchDirectoryExplained ==
    ASSUME DiscoveryIInv, CalmOK, SearchOK, MetOK, Search, SearchDirectory, phase' = "rejected"
    PROVE  Explained(refusal')
<1> PICK h : h = Head(pending)
  OBVIOUS
<1> PICK why : why = refusal'
  OBVIOUS
<1>1. phase = "search" /\ pending # <<>> /\ ((why = "missing" /\ ~Exists(h)) \/ why = "entries")
  BY DEF Search, SearchDirectory, Refuse
<1>2. h # <<>> => h \in seen
  <2>1. pending \in Seq(Places)
    BY <1>1 DEF SearchOK
  <2>2. h \in ToSet(pending)
    BY <1>1, <2>1, HeadAndRest
  <2> QED
    BY <1>1, <2>2 DEF MetOK
<1>3. CASE why = "missing"
  <2>1. changes > 0
    BY <1>1, <1>2, <1>3, StillThere DEF CalmOK
  <2> QED
    BY <1>3, <2>1 DEF Explained
<1> QED
  BY <1>1, <1>3, NoneIsExplained

\* A file that the walk no longer meets.
LEMMA UnreadExplained ==
    ASSUME CalmOK, MetOK, Unread
    PROVE  Explained(refusal')
<1>1. phase = "search" /\ pending = <<>> /\ active # {} /\ refusal' = "listing"
  BY DEF Unread, Refuse
<1>2. changes > 0
  BY <1>1, MembersOfNone DEF MetOK, CalmOK
<1> QED
  BY <1>1, <1>2 DEF Explained

LEMMA LastOfAppend ==
    ASSUME NEW S, NEW s \in Seq(S), NEW t \in Seq(S), NEW x \in S, NEW y \in S,
           Append(s, x) = Append(t, y)
    PROVE  x = y
<1>1. /\ Len(s) \in Nat /\ Len(Append(s, x)) = Len(s) + 1 /\ Append(s, x)[Len(s) + 1] = x
  OBVIOUS
<1>2. /\ Len(t) \in Nat /\ Len(Append(t, y)) = Len(t) + 1 /\ Append(t, y)[Len(t) + 1] = y
  OBVIOUS
<1> QED
  BY <1>1, <1>2

\* Two targets of one identity: some name is declared in two files, twice in one, or
\* in one that was read for two modules.
LEMMA DuplicateMeans ==
    ASSUME ModulesOK, TurnOK, ListedOK, TracedOK, phase = "search",
           NEW D \in {Fuzz, Benchmarks}, NEW list \in Seq(TargetRecord),
           Traced(list, D), Distinct(list), NEW f \in active,
           ~Distinct(list \o Declared(f, D[f]))
    PROVE  Explained("duplicate")
<1> PICK t : t = turn
  OBVIOUS
<1>1. /\ t \in DOMAIN modules /\ active \in SUBSET Paths /\ Reading(t, active) \subseteq Listed
      /\ AlreadyRead = Listed \ Reading(t, active)
  BY DEF TurnOK, ListedOK, ActiveOK, AlreadyRead
<1>2. \A p \in Paths : D[p] \in Seq(STRING)
  BY TargetsAssumption
<1> PICK names : names = D[f]
  OBVIOUS
<1> PICK more : more = Declared(f, names)
  OBVIOUS
<1>3. f \in Paths /\ names \in Seq(STRING)
  BY <1>1, <1>2
<1>4. /\ more \in Seq(TargetRecord) /\ Len(more) = Len(names)
      /\ \A i \in DOMAIN names : more[i].identity = Append(Place(t, f), names[i])
  BY <1>1, <1>3, DeclaredMeans
<1>5. DOMAIN more = DOMAIN names
  <2>1. DOMAIN more = 1 .. Len(more)
    BY <1>4
  <2>2. DOMAIN names = 1 .. Len(names)
    BY <1>3
  <2> QED
    BY <1>4, <2>1, <2>2
<1>6. ASSUME NEW r \in Listed
      PROVE  \E k \in DOMAIN listings : /\ listings[k].module = r[1] /\ r[2] \in listings[k].files
                                        /\ r[1] \in DOMAIN modules /\ r[2] \in Tests /\ r[2] \in Paths
                                        /\ r = <<r[1], r[2]>>
  <2>1. PICK k \in DOMAIN listings : r \in {<<listings[k].module, p>> : p \in listings[k].files}
    BY DEF Listed
  <2>2. listings[k].module = r[1] /\ r[2] \in listings[k].files /\ r = <<r[1], r[2]>>
    BY <2>1
  <2>3. listings[k].module \in 1 .. t /\ listings \in Seq(ListingRecord)
    BY DEF ListedOK, ListingsOK
  <2>4. listings[k].module \in DOMAIN modules
    <3>1. modules \in Seq(ModuleRecord)
      BY DEF ModulesOK
    <3>2. DOMAIN modules = 1 .. Len(modules) /\ Len(modules) \in Nat
      BY <3>1
    <3> QED
      BY <1>1, <2>3, <3>2
  <2>5. listings[k].files \subseteq Tests
    BY DEF TracedOK
  <2>6. listings[k].files \subseteq Paths
    <3>1. listings[k] \in ListingRecord
      BY <2>3
    <3> QED
      BY <3>1 DEF ListingRecord
  <2> QED
    BY <2>2, <2>4, <2>5, <2>6
<1>7. <<t, f>> \in Listed /\ f \in Tests
  <2>1. <<t, f>> \in Listed
    BY <1>1 DEF Reading
  <2>2. <<t, f>>[2] \in Tests
    BY <1>6, <2>1
  <2> QED
    BY <2>1, <2>2
<1>8. Place(t, f) \in Seq(STRING)
  BY <1>1, <1>3, PlaceMeans
<1>9. ASSUME NEW i \in DOMAIN list
      PROVE  \E r \in AlreadyRead : \E j \in DOMAIN D[r[2]] :
                /\ list[i].identity = Append(Place(r[1], r[2]), D[r[2]][j])
                /\ Place(r[1], r[2]) \in Seq(STRING) /\ D[r[2]][j] \in STRING
  <2>1. PICK r \in AlreadyRead : \E j \in DOMAIN D[r[2]] :
            list[i].identity = Append(Place(r[1], r[2]), D[r[2]][j])
    BY DEF Traced
  <2>2. PICK j \in DOMAIN D[r[2]] : list[i].identity = Append(Place(r[1], r[2]), D[r[2]][j])
    BY <2>1
  <2>3. r[1] \in DOMAIN modules /\ r[2] \in Paths
    <3>1. r \in Listed
      BY <1>1
    <3> QED
      BY <1>6, <3>1
  <2>4. Place(r[1], r[2]) \in Seq(STRING)
    BY <2>3, PlaceMeans
  <2>5. D[r[2]] \in Seq(STRING)
    BY <1>2, <2>3
  <2>6. D[r[2]][j] \in STRING
    BY <2>5
  <2> QED
    BY <2>2, <2>4, <2>6
<1>10. ASSUME NEW i \in DOMAIN list, NEW j \in DOMAIN names, list[i].identity = more[j].identity
       PROVE  Explained("duplicate")
  <2>1. PICK r \in AlreadyRead : \E m \in DOMAIN D[r[2]] :
            /\ list[i].identity = Append(Place(r[1], r[2]), D[r[2]][m])
            /\ Place(r[1], r[2]) \in Seq(STRING) /\ D[r[2]][m] \in STRING
    BY <1>9
  <2>2. PICK m \in DOMAIN D[r[2]] :
            /\ list[i].identity = Append(Place(r[1], r[2]), D[r[2]][m])
            /\ Place(r[1], r[2]) \in Seq(STRING) /\ D[r[2]][m] \in STRING
    BY <2>1
  <2> PICK q : q = r[2]
    OBVIOUS
  <2>3. names[j] = D[q][m]
    <3>1. names[j] \in STRING
      BY <1>3
    <3>2. Append(Place(r[1], r[2]), D[r[2]][m]) = Append(Place(t, f), names[j])
      BY <1>4, <1>10, <2>2
    <3>3. D[r[2]][m] = names[j]
      BY <1>8, <2>2, <3>1, <3>2, LastOfAppend
    <3> QED
      BY <3>3
  <2>4. r \in Listed /\ q \in Tests
    <3>1. r \in Listed
      BY <1>1
    <3> QED
      BY <1>6, <3>1
  <2>5. CASE q # f
    <3>1. D[f][j] \in ToSet(D[q])
      BY <2>2, <2>3 DEF ToSet
    <3> QED
      BY <1>7, <2>4, <2>5, <3>1 DEF Explained
  <2>6. CASE q = f
    <3>1. r = <<r[1], f>>
      BY <1>6, <2>4, <2>6
    <3>2. r[1] # t
      BY <1>1, <3>1 DEF Reading
    <3>3. PICK k \in DOMAIN listings : listings[k].module = t /\ f \in listings[k].files
      <4>1. <<t, f>>[1] = t /\ <<t, f>>[2] = f
        OBVIOUS
      <4> QED
        BY <1>6, <1>7, <4>1
    <3>4. PICK n \in DOMAIN listings : listings[n].module = r[1] /\ f \in listings[n].files
      BY <1>6, <2>4, <2>6
    <3>5. n # k
      BY <3>2, <3>3, <3>4
    <3> QED
      BY <1>7, <3>3, <3>4, <3>5 DEF Explained
  <2> QED
    BY <2>5, <2>6
<1>11. ASSUME NEW i \in DOMAIN names, NEW j \in DOMAIN names, i # j,
              more[i].identity = more[j].identity
       PROVE  Explained("duplicate")
  <2>1. names[i] \in STRING /\ names[j] \in STRING
    BY <1>3
  <2>2. Append(Place(t, f), names[i]) = Append(Place(t, f), names[j])
    BY <1>4, <1>11
  <2>3. names[i] = names[j]
    BY <1>8, <2>1, <2>2, LastOfAppend
  <2> QED
    BY <1>7, <1>11, <2>3 DEF Explained
<1> PICK n : n = Len(list)
  OBVIOUS
<1> PICK all : all = list \o more
  OBVIOUS
<1>12. /\ n \in Nat /\ DOMAIN list = 1 .. n /\ DOMAIN all = 1 .. n + Len(more) /\ Len(more) \in Nat
       /\ DOMAIN more = 1 .. Len(more)
       /\ \A i \in 1 .. n : all[i] = list[i]
       /\ \A j \in 1 .. Len(more) : all[n + j] = more[j]
  <2>1. more \in Seq(TargetRecord)
    BY <1>4
  <2> QED
    BY <2>1
<1>13. ASSUME NEW i \in DOMAIN all
       PROVE  \/ i \in DOMAIN list /\ all[i] = list[i]
              \/ i \notin DOMAIN list /\ i - n \in DOMAIN names /\ all[i] = more[i - n]
  <2>1. CASE i \in 1 .. n
    BY <1>12, <2>1
  <2>2. CASE i \notin 1 .. n
    <3>1. i - n \in 1 .. Len(more) /\ i = n + (i - n)
      BY <1>12, <2>2
    <3>2. all[n + (i - n)] = more[i - n]
      BY <1>12, <3>1
    <3> QED
      BY <1>5, <1>12, <2>2, <3>1, <3>2
  <2> QED
    BY <2>1, <2>2
<1>14. PICK i \in DOMAIN all, j \in DOMAIN all : i # j /\ all[i].identity = all[j].identity
  BY DEF Distinct
<1>15. CASE i \in DOMAIN list /\ j \in DOMAIN list
  BY <1>13, <1>14, <1>15 DEF Distinct
<1>16. CASE i \notin DOMAIN list /\ j \notin DOMAIN list
  <2>1. i - n \in DOMAIN names /\ j - n \in DOMAIN names /\ all[i] = more[i - n] /\ all[j] = more[j - n]
    BY <1>13, <1>16
  <2>2. i - n # j - n
    BY <1>12, <1>14
  <2> QED
    BY <1>11, <1>14, <2>1, <2>2
<1>17. CASE i \in DOMAIN list /\ j \notin DOMAIN list
  BY <1>10, <1>13, <1>14, <1>17
<1>18. CASE i \notin DOMAIN list /\ j \in DOMAIN list
  BY <1>10, <1>13, <1>14, <1>18
<1> QED
  BY <1>15, <1>16, <1>17, <1>18

\* A link, a file that is gone, or a name that is declared again.
LEMMA SearchFileExplained ==
    ASSUME DiscoveryIInv, ResultsOK, TurnOK, SearchOK, ListedOK, CalmOK, MetOK, TracedOK,
           Search, SearchFile, phase' = "rejected"
    PROVE  Explained(refusal')
<1> PICK f : f = Head(pending)
  OBVIOUS
<1> PICK why : why = refusal'
  OBVIOUS
<1> PICK fuzz : fuzz = targets \o Declared(f, Fuzz[f])
  OBVIOUS
<1> PICK bench : bench = benchmarks \o Declared(f, Benchmarks[f])
  OBVIOUS
<1>1. phase = "search" /\ pending # <<>> /\ f \notin Directories
  BY DEF Search, SearchFile
<1>2. f \in seen
  <2>1. pending \in Seq(Places)
    BY <1>1 DEF SearchOK
  <2>2. f \in ToSet(pending) /\ f # <<>>
    BY <1>1, <2>1, HeadAndRest DEF Directories
  <2> QED
    BY <1>1, <2>2 DEF MetOK
<1>3. \/ why = "link" /\ f \in Links
      \/ f \in active /\ why = "missing" /\ f \notin present
      \/ f \in active /\ why = "duplicate" /\ (~Distinct(fuzz) \/ ~Distinct(bench))
      \/ why \in {"bytes", "targets", None}
  BY <1>1 DEF SearchFile, Refuse
<1>4. CASE why = "link"
  BY <1>2, <1>3, <1>4 DEF Explained, None
<1>5. CASE why = "missing"
  <2>1. f \notin present
    BY <1>3, <1>5 DEF None
  <2>2. changes > 0
    BY <1>2, <2>1 DEF CalmOK
  <2> QED
    BY <1>5, <2>2 DEF Explained
<1>6. CASE why = "duplicate"
  <2>1. f \in active /\ (~Distinct(fuzz) \/ ~Distinct(bench))
    BY <1>3, <1>6 DEF None
  <2>2. /\ targets \in Seq(TargetRecord) /\ benchmarks \in Seq(TargetRecord)
        /\ Distinct(targets) /\ Distinct(benchmarks)
        /\ Traced(targets, Fuzz) /\ Traced(benchmarks, Benchmarks) /\ ModulesOK
    BY DEF ResultsOK, ListedOK, DistinctOK, TracedOK, DiscoveryIInv
  <2>3. Fuzz \in {Fuzz, Benchmarks} /\ Benchmarks \in {Fuzz, Benchmarks}
    OBVIOUS
  <2>4. ~Distinct(fuzz) => Explained("duplicate")
    BY <1>1, <2>1, <2>2, <2>3, DuplicateMeans
  <2>5. ~Distinct(bench) => Explained("duplicate")
    BY <1>1, <2>1, <2>2, <2>3, DuplicateMeans
  <2> QED
    BY <1>6, <2>1, <2>4, <2>5
<1> QED
  BY <1>3, <1>4, <1>5, <1>6, NoneIsExplained

\* Every step that refuses has its reason.
LEMMA RefusalExplained ==
    ASSUME TargetsIInv, ListedOK, DescribedOK, ReasonsOK, [TargetsNext]_targetsVars,
           phase # "rejected", phase' = "rejected"
    PROVE  RefusalsAreExplained'
<1>1. /\ DiscoveryIInv /\ PathsOK /\ ResultsOK /\ TurnOK /\ SearchOK
      /\ CalmOK /\ RootOK /\ LinterOK /\ MetOK /\ TracedOK
  BY DEF TargetsIInv, ReasonsOK
<1>2. UNCHANGED <<tree, ended, listings>> /\ Explained(refusal')
  <2>1. CASE Environment /\ UNCHANGED <<phase, walked, found, refusal, searchVars>>
    BY <2>1
  <2>2. CASE Discover
    <3>1. UNCHANGED <<tree, ended, listings>>
      BY <2>2 DEF Discover, searchVars, DiscoveryNext, Visit, EndWalk, InspectModule,
                  ValidateModules, ClassifyPackages
    <3>2. CASE Visit
      BY <1>1, <3>1, <3>2, VisitExplained
    <3>3. CASE EndWalk
      BY <1>1, <3>1, <3>3, EndWalkExplained
    <3>4. CASE InspectModule
      BY <1>1, <3>1, <3>4, InspectExplained
    <3>5. CASE ValidateModules
      BY <1>1, <3>1, <3>5, ValidateExplained
    <3>6. CASE ClassifyPackages
      BY <3>6 DEF ClassifyPackages
    <3> QED
      BY <2>2, <3>2, <3>3, <3>4, <3>5, <3>6 DEF Discover, DiscoveryNext
  <2>3. CASE NextModule
    BY <2>3 DEF NextModule
  <2>4. CASE NoModules
    <3>1. UNCHANGED <<tree, ended, listings>>
      BY <2>4 DEF NoModules, searchVars
    <3> QED
      BY <1>1, <2>4, <3>1, NoModulesExplained
  <2>5. CASE ListFiles
    <3>1. UNCHANGED <<tree, ended, listings>>
      BY <2>5 DEF ListFiles, Refuse
    <3> QED
      BY <1>1, <2>5, <3>1, ListFilesExplained
  <2>6. CASE Search
    <3>1. UNCHANGED <<tree, ended, listings>>
      BY <2>6 DEF Search
    <3> QED
      BY <1>1, <2>6, <3>1, SearchDirectoryExplained, SearchFileExplained DEF Search
  <2>7. CASE Unread
    <3>1. UNCHANGED <<tree, ended, listings>>
      BY <2>7 DEF Unread, searchVars
    <3> QED
      BY <1>1, <2>7, <3>1, UnreadExplained
  <2>8. CASE Finish
    BY <2>8 DEF Finish
  <2>9. CASE Fail
    <3>1. UNCHANGED <<tree, ended, listings>>
      BY <2>9 DEF Fail, searchVars
    <3>2. refusal' = IF ended THEN "cancelled" ELSE "failed"
      BY <2>9 DEF Fail, Refuse
    <3>3. CASE ended
      BY <3>1, <3>2, <3>3 DEF Explained
    <3>4. CASE ~ended
      BY <3>1, <3>2, <3>4, NoneIsExplained
    <3> QED
      BY <3>3, <3>4
  <2>10. CASE UNCHANGED targetsVars
    BY <2>10 DEF targetsVars, discoveryVars
  <2> QED
    BY <2>1, <2>2, <2>3, <2>4, <2>5, <2>6, <2>7, <2>8, <2>9, <2>10 DEF TargetsNext, Find
<1> QED
  BY <1>2, ReasonStands

-----------------------------------------------------------------------------
(* The refusals: each step preserves their reasons *)

LEMMA CalmKeeps ==
    ASSUME CalmOK, [TargetsNext]_targetsVars
    PROVE  CalmOK'
<1>1. CASE UNCHANGED tree
  BY <1>1 DEF CalmOK, tree
<1>2. CASE Environment
  <2>1. changes \in Nat
    BY DEF CalmOK
  <2>2. UNCHANGED tree \/ changes' = changes + 1
    BY <1>2 DEF Environment, Create, Delete, Replace
  <2> QED
    BY <1>1, <2>1, <2>2 DEF CalmOK
<1> QED
  BY <1>1, <1>2 DEF TargetsNext, Discover, DiscoveryNext, Visit, EndWalk, InspectModule,
     ValidateModules, ClassifyPackages, Find, NextModule, NoModules, ListFiles, Search, Unread,
     Finish, Fail, targetsVars, discoveryVars

\* The root is the first directory read.
LEMMA RootRead ==
    ASSUME DiscoveryIInv, phase = "walk", pending # <<>>, NEW d, d = Head(pending), RootOK,
           modules' = Append(modules, Module(d, <<>>, 0))
    PROVE  RootOK'
<1>1. modules \in Seq(ModuleRecord) /\ d \in NamedPath /\ d \in Held
  BY AtHead DEF DiscoveryIInv, ModulesOK
<1> PICK n : n = Len(modules)
  OBVIOUS
<1> PICK new : new = Module(d, <<>>, 0)
  OBVIOUS
<1>2. /\ n \in Nat /\ DOMAIN modules = 1 .. n /\ modules' = Append(modules, new)
      /\ new.directory = d /\ new \in ModuleRecord
  <2>1. new.directory = d
    BY DEF Module
  <2>2. new \in ModuleRecord
    <3>1. <<>> \in Seq(STRING) /\ 0 \in Nat /\ FALSE \in BOOLEAN
      OBVIOUS
    <3> QED
      BY <1>1, <3>1 DEF Module, ModuleRecord
  <2> QED
    BY <1>1, <2>1, <2>2
<1>3. /\ DOMAIN modules' = 1 .. n + 1 /\ modules'[n + 1] = new
      /\ \A i \in DOMAIN modules : modules'[i] = modules[i]
  BY <1>1, <1>2
<1>4. ASSUME d = <<>> PROVE n = 0
  <2>1. ASSUME NEW i \in DOMAIN modules PROVE FALSE
    <3>1. modules[i].directory \in FoundAt /\ modules[i].directory \in NamedPath
      BY FoundDirectories DEF FoundAt, DiscoveryIInv
    <3>2. IsPrefix(<<>>, modules[i].directory)
      BY <3>1, PrefixItself DEF NamedPath
    <3> QED
      BY <1>1, <1>4, <3>1, <3>2 DEF DiscoveryIInv, PendingOK
  <2> QED
    BY <1>2, <2>1
<1>5. ASSUME NEW i \in DOMAIN modules', modules'[i].directory = <<>> PROVE i = 1
  <2>1. CASE i \in DOMAIN modules
    BY <1>3, <1>5, <2>1 DEF RootOK
  <2>2. CASE i \notin DOMAIN modules
    <3>1. i = n + 1
      BY <1>2, <1>3, <2>2
    <3>2. d = <<>>
      BY <1>2, <1>3, <1>5, <3>1
    <3> QED
      BY <1>4, <3>1, <3>2
  <2> QED
    BY <2>1, <2>2
<1> QED
  BY <1>5 DEF RootOK

LEMMA RootKeeps ==
    ASSUME DiscoveryIInv, RootOK, [TargetsNext]_targetsVars, phase' # "rejected"
    PROVE  RootOK'
<1>1. CASE modules' = modules
  BY <1>1 DEF RootOK
<1>2. CASE Visit
  <2>1. \/ modules' = modules
        \/ modules' = Append(modules, Module(Head(pending), <<>>, 0))
    BY <1>2 DEF Visit, VisitDirectory, VisitFile, ReadDirectory, Unreadable, Refuse, found
  <2>2. phase = "walk" /\ pending # <<>>
    BY <1>2 DEF Visit
  <2> QED
    BY <1>1, <2>1, <2>2, RootRead
<1>3. CASE InspectModule
  BY <1>3, InspectMeans DEF RootOK
<1>4. CASE ClassifyPackages
  BY <1>4, ClassifyMeans DEF RootOK, DiscoveryIInv
<1>5. CASE EndWalk \/ ValidateModules
  <2>1. modules' = modules
    BY <1>5 DEF EndWalk, ValidateModules, found
  <2> QED
    BY <1>1, <2>1
<1>6. CASE Find \/ Fail \/ UNCHANGED found \/ UNCHANGED targetsVars
  <2>1. modules' = modules
    BY <1>6 DEF Find, NextModule, NoModules, ListFiles, Search, Unread, Finish, Fail, found,
                targetsVars, discoveryVars
  <2> QED
    BY <1>1, <2>1
<1> QED
  BY <1>2, <1>3, <1>4, <1>5, <1>6 DEF TargetsNext, Discover, DiscoveryNext

LEMMA LinterStays ==
    ASSUME LinterOK, linterConfig' = linterConfig, Held' = Held,
           stable' \subseteq stable, seen \subseteq seen'
    PROVE  LinterOK'
<1> PICK held : held = Held
  OBVIOUS
<1>1. Held = held /\ Held' = held
  OBVIOUS
<1> QED
  BY <1>1 DEF LinterOK

\* Nothing but the root is above the linter's configuration.
LEMMA LinterIsOne ==
    ASSUME NEW d \in NamedPath, d # <<>>, NEW p \in NamedPath, RootLinter(p), IsPrefix(d, p)
    PROVE  d = p
<1>1. Len(p) = 1 /\ IsPrefix(p, p)
  BY PrefixItself DEF RootLinter, NamedPath
<1>2. Len(d) \in Nat \ {0} /\ Len(d) <= Len(p)
  BY PrefixMeans DEF NamedPath
<1>3. Len(d) = Len(p) /\ Len(d) <= Len(p)
  BY <1>1, <1>2
<1> QED
  BY <1>1, <1>3, PrefixesCompare DEF NamedPath

\* The walk meets every linter's configuration.
LEMMA LinterVisit ==
    ASSUME DiscoveryIInv, LinterOK, Visit, phase' # "rejected"
    PROVE  LinterOK'
<1> PICK h : h = Head(pending)
  OBVIOUS
<1> PICK rest : rest = Tail(pending)
  OBVIOUS
<1>1. phase = "walk" /\ phase' = "walk" /\ pending # <<>> /\ stable' = stable /\ seen' = seen
  BY DEF Visit, VisitDirectory, VisitFile, ReadDirectory, Unreadable, Refuse, tree
<1>2. /\ h \in NamedPath /\ (h # <<>> => h \in seen) /\ rest \in Seq(Places)
      /\ Held = {h} \union ToSet(rest)
      /\ \A r \in ToSet(rest) : r \in NamedPath /\ ~IsPrefix(h, r) /\ ~IsPrefix(r, h)
  BY <1>1, AtHead
<1>3. \A p \in stable : p \in NamedPath \ {<<>>} /\ p \in present
  BY PathsAreNamed DEF DiscoveryIInv, TreeOK
<1>4. /\ linterConfig # <<>> =>
            linterConfig \in seen /\ RootLinter(linterConfig) /\ \A r \in Held : ~IsPrefix(r, linterConfig)
      /\ \A p \in stable : RootLinter(p) => linterConfig # <<>> \/ \E r \in Held : IsPrefix(r, p)
  BY DEF LinterOK
<1>5. ASSUME NEW p \in stable, RootLinter(p), IsPrefix(h, p), h # <<>> PROVE h = p
  <2>1. p \in NamedPath
    BY <1>3
  <2> QED
    BY <1>2, <1>5, <2>1, LinterIsOne
<1>6. ASSUME NEW new \in SUBSET NamedPath, Held' = new \union ToSet(rest),
             linterConfig' = linterConfig, \A r \in new : IsPrefix(h, r),
             \A p \in stable : RootLinter(p) /\ IsPrefix(h, p) =>
                linterConfig # <<>> \/ \E r \in new : IsPrefix(r, p)
      PROVE  LinterOK'
  <2>1. ASSUME linterConfig # <<>>, NEW r \in Held' PROVE ~IsPrefix(r, linterConfig)
    <3>1. CASE r \in ToSet(rest)
      BY <1>2, <1>4, <2>1, <3>1
    <3>2. CASE r \in new
      <4>1. linterConfig \in NamedPath
        BY <1>4, <2>1, PathsAreNamed DEF DiscoveryIInv, TreeOK
      <4>2. ~IsPrefix(h, linterConfig)
        BY <1>2, <1>4, <2>1
      <4> QED
        BY <1>2, <1>6, <3>2, <4>1, <4>2, PrefixTransitive DEF NamedPath
    <3> QED
      BY <1>6, <2>1, <3>1, <3>2
  <2>2. ASSUME NEW p \in stable, RootLinter(p), linterConfig = <<>>
        PROVE  \E r \in Held' : IsPrefix(r, p)
    <3>1. PICK r \in Held : IsPrefix(r, p)
      BY <1>4, <2>2
    <3>2. CASE r = h
      BY <1>6, <2>2, <3>1, <3>2
    <3>3. CASE r \in ToSet(rest)
      BY <1>6, <3>1, <3>3
    <3> QED
      BY <1>2, <3>1, <3>2, <3>3
  <2> QED
    BY <1>1, <1>4, <1>6, <2>1, <2>2 DEF LinterOK
<1>7. ASSUME h \notin Directories, Refused(h) = None, AddFile(h), pending' = rest PROVE LinterOK'
  <2>1. h # <<>> /\ h \in seen
    BY <1>2, <1>7 DEF Directories
  <2>2. RootLinter(h) => linterConfig = <<>>
    BY <1>2, <1>7, <2>1, LinterAtRoot DEF Refused, None
  <2>3. linterConfig' = IF RootLinter(h) THEN h ELSE linterConfig
    BY <1>2, <1>7, <2>1, LinterAtRoot DEF AddFile
  <2>4. Held' = ToSet(rest)
    BY <1>1, <1>7 DEF Held
  <2>5. CASE RootLinter(h)
    <3>1. linterConfig' = h
      BY <2>3, <2>5
    <3> QED
      BY <1>1, <1>2, <2>1, <2>4, <2>5, <3>1 DEF LinterOK
  <2>6. CASE ~RootLinter(h)
    <3>1. \A p \in stable : RootLinter(p) => ~IsPrefix(h, p)
      BY <1>5, <2>1, <2>6
    <3>2. Held' = {} \union ToSet(rest) /\ linterConfig' = linterConfig
      BY <2>3, <2>4, <2>6
    <3> QED
      BY <1>6, <3>1, <3>2
  <2> QED
    BY <2>5, <2>6
<1>8. ASSUME Ignored(h), pending' = rest, linterConfig' = linterConfig PROVE LinterOK'
  <2>1. h # <<>> /\ ~RootLinter(h)
    BY <1>8 DEF Ignored, RootLinter
  <2>2. \A p \in stable : RootLinter(p) => ~IsPrefix(h, p)
    BY <1>5, <2>1
  <2>3. Held' = {} \union ToSet(rest)
    BY <1>1, <1>8 DEF Held
  <2> QED
    BY <1>6, <1>8, <2>2, <2>3
<1>9. ASSUME h \in Directories, pending' = Entries(h) \o rest, linterConfig' = linterConfig
      PROVE  LinterOK'
  <2> PICK list : list = Entries(h)
    OBVIOUS
  <2>1. /\ list \in Seq(Places) /\ \A p : p \in ToSet(list) <=> p \in present /\ Front(p) = h
        /\ \A p \in ToSet(list) : p \in NamedPath /\ Below(h, p)
    BY <1>2, EntriesOfVisited DEF DiscoveryIInv
  <2>2. ToSet(list \o rest) = ToSet(list) \union ToSet(rest)
    <3>1. ASSUME NEW s \in Seq(Places), NEW t \in Seq(Places)
          PROVE  ToSet(s \o t) = ToSet(s) \union ToSet(t)
      BY MembersOfConcat
    <3>2. list \in Seq(Places) /\ rest \in Seq(Places)
      BY <1>2, <2>1
    <3> QED
      BY <3>1, <3>2
  <2>3. Held' = ToSet(list) \union ToSet(rest)
    BY <1>1, <1>9, <2>2 DEF Held
  <2>4. \A r \in ToSet(list) : IsPrefix(h, r)
    BY <2>1 DEF Below
  <2>5. ASSUME NEW p \in stable, RootLinter(p), IsPrefix(h, p) PROVE p \in ToSet(list)
    <3>1. p \in NamedPath \ {<<>>} /\ p \in present /\ Front(p) = <<>> /\ Kind(p) = "linter"
      BY <1>3, <2>5, LinterAtRoot
    <3>2. h = <<>>
      <4>1. SUFFICES ASSUME h # <<>> PROVE FALSE
        OBVIOUS
      <4>2. h = p
        BY <1>5, <2>5, <4>1
      <4> QED
        BY <1>9, <3>1, <4>1, <4>2 DEF Directories, Kind
    <3> QED
      BY <2>1, <3>1, <3>2
  <2>6. \A p \in stable : RootLinter(p) /\ IsPrefix(h, p) => \E r \in ToSet(list) : IsPrefix(r, p)
    <3>1. \A p \in stable : IsPrefix(p, p)
      BY <1>3, PrefixItself DEF NamedPath
    <3> QED
      BY <2>5, <3>1
  <2>7. ToSet(list) \in SUBSET NamedPath
    BY <2>1
  <2> QED
    BY <1>6, <1>9, <2>3, <2>4, <2>6, <2>7
<1> QED
  BY <1>1, <1>7, <1>8, <1>9 DEF Visit, VisitDirectory, VisitFile, ReadDirectory, Unreadable,
     Refuse, found

\* What a step may do to the repository.
LEMMA TreeMoves ==
    ASSUME TreeOK, [TargetsNext]_targetsVars
    PROVE  stable' \subseteq stable /\ seen \subseteq seen'
<1>1. CASE UNCHANGED tree
  BY <1>1 DEF tree
<1>2. ASSUME NEW p \in Paths, Create(p) \/ Delete(p)
      PROVE  stable' \subseteq stable /\ seen \subseteq seen'
  BY <1>2, ChangeKeeps
<1> QED
  BY <1>1, <1>2 DEF TargetsNext, Environment, Discover, DiscoveryNext, Visit, EndWalk,
     InspectModule, ValidateModules, ClassifyPackages, Find, NextModule, NoModules, ListFiles,
     Search, Unread, Finish, Fail, targetsVars, discoveryVars

LEMMA LinterKeeps ==
    ASSUME DiscoveryIInv, LinterOK, [TargetsNext]_targetsVars, phase' # "rejected"
    PROVE  LinterOK'
<1>1. stable' \subseteq stable /\ seen \subseteq seen'
  BY TreeMoves DEF DiscoveryIInv
<1>2. CASE Visit
  BY <1>2, LinterVisit
<1>3. CASE UNCHANGED <<phase, walked, found>>
  <2>1. Held' = Held /\ linterConfig' = linterConfig
    BY <1>3 DEF Held, walked, found
  <2> QED
    BY <1>1, <2>1, LinterStays
<1>4. CASE EndWalk
  <2>1. Held = {}
    BY <1>4, MembersOfNone DEF EndWalk, Held
  <2>2. Held' = {} /\ linterConfig' = linterConfig
    BY <1>4 DEF EndWalk, Held, found, Refuse
  <2> QED
    BY <1>1, <2>1, <2>2, LinterStays
<1>5. CASE InspectModule \/ ValidateModules \/ ClassifyPackages \/ Find
  <2>1. phase # "walk" /\ phase' # "walk" /\ linterConfig' = linterConfig
    BY <1>5 DEF InspectModule, ValidateModules, ClassifyPackages, Find, NextModule, NoModules,
                ListFiles, Search, SearchDirectory, SearchFile, Unread, Finish, Refuse, found
  <2>2. Held = {} /\ Held' = {}
    BY <2>1 DEF Held
  <2> QED
    BY <1>1, <2>1, <2>2, LinterStays
<1>6. CASE Fail
  BY <1>6 DEF Fail, Refuse
<1>7. CASE UNCHANGED targetsVars
  BY <1>3, <1>7 DEF targetsVars, discoveryVars
<1> QED
  BY <1>2, <1>3, <1>4, <1>5, <1>6, <1>7 DEF TargetsNext, Discover, DiscoveryNext

\* What the go command lists below d: files in directories that the search enters.
LEMMA GoListMeans ==
    ASSUME TreeOK, NEW d \in NamedPath, NEW p \in GoList(d)
    PROVE  /\ p \in present /\ p \in NamedPath \ {<<>>} /\ p \notin Directories
           /\ Kind(p) = "test" /\ Below(d, p) /\ VisibleToGo(d, p)
           /\ \A e \in NamedPath : Below(d, e) /\ Below(e, p) => Kind(e) = "directory" /\ ~IsModule(e)
<1>1. /\ p \in present /\ Below(d, p) /\ Kind(p) = "test"
      /\ \A i \in Len(d) + 1 .. Len(p) - 1 : Class[p[i]] = "directory" /\ ~IsModule(SubSeq(p, 1, i))
  BY DEF GoList
<1>2. p \in NamedPath \ {<<>>}
  BY <1>1, PathsAreNamed DEF TreeOK
<1>3. p \notin Directories
  BY <1>1, <1>2 DEF Directories, Kind
<1>4. ASSUME NEW e \in NamedPath, Below(d, e), Below(e, p)
      PROVE  Kind(e) = "directory" /\ ~IsModule(e)
  <2>1. /\ Len(d) \in Nat /\ Len(e) \in Nat /\ Len(p) \in Nat /\ Len(d) < Len(e) /\ Len(e) < Len(p)
        /\ \A i \in 1 .. Len(e) : e[i] = p[i]
    BY <1>2, <1>4, PrefixShorter, PrefixMeans DEF NamedPath, Below
  <2>2. SubSeq(p, 1, Len(e)) = e
    BY <1>2, <1>4, PrefixIsFirst DEF NamedPath, Below
  <2>3. Len(e) \in Len(d) + 1 .. Len(p) - 1 /\ e[Len(e)] = p[Len(e)]
    BY <2>1
  <2> QED
    BY <1>1, <2>2, <2>3 DEF Kind, Last
<1> QED
  BY <1>1, <1>2, <1>3, <1>4 DEF VisibleToGo

LEMMA MetHolds ==
    ASSUME UNCHANGED tree, modules' = modules, turn' = turn, NEW d, d = Directory,
           \A r \in ToSet(pending') : r # <<>> => r \in seen,
           changes = 0 => /\ active' \subseteq GoList(d)
                          /\ \A p \in active' : \E r \in ToSet(pending') : IsPrefix(r, p)
    PROVE  MetOK'
<1>1. present' = present /\ seen' = seen /\ changes' = changes
  BY DEF tree
<1>2. Directory' = d
  BY DEF Directory
<1>3. GoList(d)' = GoList(d)
  BY <1>1 DEF GoList, IsModule
<1> QED
  BY <1>1, <1>2, <1>3 DEF MetOK

LEMMA MetListFiles ==
    ASSUME DiscoveryIInv, TurnOK, ListFiles, phase' # "rejected"
    PROVE  MetOK'
<1> PICK d : d = Directory
  OBVIOUS
<1>1. /\ phase = "list" /\ active' = GoList(d) /\ pending' = <<d>> /\ UNCHANGED tree
      /\ modules' = modules /\ turn' = turn
  BY DEF ListFiles, Refuse, found
<1>2. turn \in DOMAIN modules
  BY <1>1 DEF TurnOK
<1>3. d \in FoundAt /\ d \in NamedPath
  BY <1>2, FoundDirectories DEF FoundAt, Directory, DiscoveryIInv
<1>4. d # <<>> => d \in seen
  <2>1. PICK q \in seen : Front(q) = d
    BY <1>3, HasModule DEF DiscoveryIInv, FoundOK
  <2>2. q \in NamedPath /\ q # <<>> /\ seen \in SUBSET Paths /\ Closed(seen)
    BY <2>1, PathsAreNamed DEF DiscoveryIInv, TreeOK
  <2>3. Below(d, q)
    BY <2>1, <2>2, FrontMeans
  <2> QED
    BY <1>3, <2>1, <2>2, <2>3, ClosedAbove
<1>5. ToSet(pending') = {d}
  BY <1>1, MembersOfOne
<1>6. \A p \in GoList(d) : IsPrefix(d, p)
  BY DEF GoList, Below
<1> QED
  BY <1>1, <1>4, <1>5, <1>6, MetHolds

LEMMA MetSearchDirectory ==
    ASSUME DiscoveryIInv, TurnOK, SearchOK, MetOK, Search, SearchDirectory,
           phase' # "rejected"
    PROVE  MetOK'
<1> PICK d : d = Directory
  OBVIOUS
<1> PICK h : h = Head(pending)
  OBVIOUS
<1> PICK rest : rest = Tail(pending)
  OBVIOUS
<1> PICK list : list = IF IgnoredGo(h) \/ Nested(h) THEN <<>> ELSE Entries(h)
  OBVIOUS
<1>1. /\ phase = "search" /\ pending # <<>> /\ UNCHANGED tree /\ turn' = turn
      /\ active' = active /\ modules' = modules
  BY DEF Search, SearchDirectory, found
<1>2. d \in NamedPath /\ h \in NamedPath /\ IsPrefix(d, h) /\ ToSet(pending) = {h} \union ToSet(rest)
  <2>1. pending \in Seq(Places)
    BY <1>1 DEF SearchOK
  <2> QED
    BY <1>1, <2>1, AtSearchHead, HeadAndRest
<1>3. /\ h \in Directories /\ ToSet(pending') = ToSet(list) \union ToSet(rest)
      /\ ToSet(list) \subseteq ToSet(Entries(h))
      /\ \A p : p \in ToSet(Entries(h)) <=> p \in present /\ Front(p) = h
      /\ \A p \in ToSet(Entries(h)) : p \in seen
  BY SearchDirectoryMeans
<1>4. /\ \A r \in ToSet(pending) : r # <<>> => r \in seen
      /\ changes = 0 => /\ active \subseteq GoList(d)
                        /\ \A p \in active : \E r \in ToSet(pending) : IsPrefix(r, p)
  BY <1>1 DEF MetOK
<1>5. ASSUME NEW p \in GoList(d), IsPrefix(h, p)
      PROVE  \E r \in ToSet(pending') : IsPrefix(r, p)
  <2>1. /\ p \in present /\ p \in NamedPath \ {<<>>} /\ p \notin Directories
        /\ \A e \in NamedPath : Below(d, e) /\ Below(e, p) => Kind(e) = "directory" /\ ~IsModule(e)
    BY <1>2, GoListMeans DEF DiscoveryIInv
  <2>2. Below(h, p)
    BY <1>3, <1>5, <2>1 DEF Below
  <2>3. ~IgnoredGo(h) /\ ~Nested(h)
    <3>1. CASE h = d
      BY <3>1 DEF IgnoredGo, Nested
    <3>2. CASE h # d
      <4>1. Kind(h) = "directory" /\ ~IsModule(h)
        BY <1>2, <2>1, <2>2, <3>2 DEF Below
      <4>2. ~ContainsModule(Entries(h))
        BY <4>1, ContainsIsModule DEF DiscoveryIInv, TreeOK
      <4> QED
        BY <4>1, <4>2 DEF IgnoredGo, Nested
    <3> QED
      BY <3>1, <3>2
  <2>4. PICK q \in present : Front(q) = h /\ IsPrefix(q, p)
    <3>1. present \in SUBSET Paths /\ Closed(present)
      BY DEF DiscoveryIInv, TreeOK
    <3> QED
      BY <1>2, <2>1, <2>2, <3>1, ClosedNext
  <2>5. q \in ToSet(list)
    BY <1>3, <2>3, <2>4
  <2> QED
    BY <1>3, <2>4, <2>5
<1>6. ASSUME changes = 0, NEW p \in active PROVE \E r \in ToSet(pending') : IsPrefix(r, p)
  <2>1. p \in GoList(d)
    BY <1>4, <1>6
  <2>2. PICK r \in ToSet(pending) : IsPrefix(r, p)
    BY <1>4, <1>6
  <2> QED
    BY <1>2, <1>3, <1>5, <2>1, <2>2
<1>7. \A r \in ToSet(pending') : r # <<>> => r \in seen
  BY <1>2, <1>3, <1>4
<1> QED
  BY <1>1, <1>4, <1>6, <1>7, MetHolds

LEMMA MetSearchFile ==
    ASSUME DiscoveryIInv, TurnOK, SearchOK, MetOK, Search, SearchFile, phase' # "rejected"
    PROVE  MetOK'
<1> PICK d : d = Directory
  OBVIOUS
<1> PICK f : f = Head(pending)
  OBVIOUS
<1> PICK rest : rest = Tail(pending)
  OBVIOUS
<1>1. /\ phase = "search" /\ pending # <<>> /\ UNCHANGED tree /\ turn' = turn /\ modules' = modules
      /\ f \notin Directories /\ pending' = rest /\ active' \subseteq active /\ f \notin active'
  BY DEF Search, SearchFile, Refuse, found
<1>2. d \in NamedPath /\ f \in NamedPath /\ ToSet(pending) = {f} \union ToSet(rest)
  <2>1. pending \in Seq(Places)
    BY <1>1 DEF SearchOK
  <2> QED
    BY <1>1, <2>1, AtSearchHead, HeadAndRest
<1>3. /\ \A r \in ToSet(pending) : r # <<>> => r \in seen
      /\ changes = 0 => /\ active \subseteq GoList(d)
                        /\ \A p \in active : \E r \in ToSet(pending) : IsPrefix(r, p)
  BY <1>1 DEF MetOK
<1>4. ASSUME NEW p \in GoList(d), IsPrefix(f, p) PROVE p = f
  <2>1. p \in present /\ present \in SUBSET Paths /\ Closed(present)
    BY <1>2, GoListMeans DEF DiscoveryIInv, TreeOK
  <2>2. f # <<>>
    BY <1>1 DEF Directories
  <2> QED
    BY <1>1, <1>2, <1>4, <2>1, <2>2, ClosedAbove DEF Below
<1>5. ASSUME changes = 0, NEW p \in active' PROVE \E r \in ToSet(pending') : IsPrefix(r, p)
  <2>1. p \in active /\ p \in GoList(d) /\ p # f
    BY <1>1, <1>3, <1>5
  <2>2. PICK r \in ToSet(pending) : IsPrefix(r, p)
    BY <1>3, <1>5, <2>1
  <2> QED
    BY <1>1, <1>2, <1>4, <2>1, <2>2
<1>6. changes = 0 => active' \subseteq GoList(d)
  BY <1>1, <1>3
<1>7. \A r \in ToSet(pending') : r # <<>> => r \in seen
  BY <1>1, <1>2, <1>3
<1> QED
  BY <1>1, <1>5, <1>6, <1>7, MetHolds

LEMMA MetKeeps ==
    ASSUME DiscoveryIInv, TurnOK, SearchOK, CalmOK, MetOK, [TargetsNext]_targetsVars,
           phase' # "rejected"
    PROVE  MetOK'
<1>1. CASE UNCHANGED <<tree, phase, pending, modules, turn, active>>
  <2>1. SUFFICES ASSUME phase = "search" PROVE MetOK'
    BY <1>1 DEF MetOK
  <2> PICK d : d = Directory
    OBVIOUS
  <2>2. /\ \A r \in ToSet(pending) : r # <<>> => r \in seen
        /\ changes = 0 => /\ active \subseteq GoList(d)
                          /\ \A p \in active : \E r \in ToSet(pending) : IsPrefix(r, p)
    BY <2>1 DEF MetOK
  <2> QED
    BY <1>1, <2>2, MetHolds
<1>2. CASE Environment /\ UNCHANGED <<phase, walked, found, refusal, searchVars>>
  <2>1. CASE UNCHANGED tree
    BY <1>1, <1>2, <2>1 DEF walked, found, searchVars
  <2>2. ASSUME NEW p \in Paths, Create(p) \/ Delete(p) PROVE MetOK'
    <3>1. changes' = changes + 1 /\ changes \in Nat
      BY <2>2 DEF Create, Delete, Replace, CalmOK
    <3>2. changes' # 0 /\ pending' = pending /\ phase' = phase
      BY <1>2, <3>1 DEF walked
    <3>3. seen \subseteq seen'
      BY <2>2, ChangeKeeps DEF DiscoveryIInv
    <3> QED
      BY <3>2, <3>3 DEF MetOK
  <2> QED
    BY <1>2, <2>1, <2>2 DEF Environment
<1>3. CASE phase' # "search"
  BY <1>3 DEF MetOK
<1>4. CASE ListFiles
  BY <1>4, MetListFiles
<1>5. CASE Search
  BY <1>5, MetSearchDirectory, MetSearchFile DEF Search
<1>6. CASE Discover \/ NextModule \/ NoModules \/ Unread \/ Finish \/ Fail
  BY <1>3, <1>6 DEF Discover, DiscoveryNext, Visit, VisitDirectory, VisitFile, ReadDirectory,
     Unreadable, EndWalk, InspectModule, ValidateModules, ClassifyPackages, NextModule, NoModules,
     Unread, Finish, Fail, Refuse
<1>7. CASE UNCHANGED targetsVars
  BY <1>1, <1>7 DEF targetsVars, discoveryVars, walked, found, searchVars
<1> QED
  BY <1>2, <1>4, <1>5, <1>6, <1>7 DEF TargetsNext, Find

LEMMA TracedStays ==
    ASSUME TracedOK, modules' = modules, UNCHANGED results, AlreadyRead' = AlreadyRead,
           \A k \in DOMAIN listings' : listings'[k].files \subseteq Tests'
    PROVE  TracedOK'
<1>1. targets' = targets /\ benchmarks' = benchmarks
  BY DEF results
<1>2. \A i, p : Place(i, p)' = Place(i, p)
  BY DEF Place
<1> PICK read : read = AlreadyRead
  OBVIOUS
<1>3. AlreadyRead = read /\ AlreadyRead' = read
  OBVIOUS
<1>4. Traced(targets, Fuzz)'
  BY <1>1, <1>2, <1>3 DEF TracedOK, Traced
<1>5. Traced(benchmarks, Benchmarks)'
  BY <1>1, <1>2, <1>3 DEF TracedOK, Traced
<1> QED
  BY <1>4, <1>5 DEF TracedOK

\* Tests that were seen stay seen.
LEMMA TestsStay ==
    ASSUME TracedOK, seen \subseteq seen', listings' = listings
    PROVE  \A k \in DOMAIN listings' : listings'[k].files \subseteq Tests'
BY DEF TracedOK, Tests, OfKind

LEMMA TracedListFiles ==
    ASSUME DiscoveryIInv, TurnOK, ListedOK, TracedOK, ListFiles, phase' # "rejected"
    PROVE  TracedOK'
<1> PICK d : d = Directory
  OBVIOUS
<1> PICK files : files = GoList(d)
  OBVIOUS
<1> PICK t : t = turn
  OBVIOUS
<1> PICK new : new = [module |-> t, files |-> files]
  OBVIOUS
<1>1. /\ phase = "list" /\ UNCHANGED results /\ modules' = modules /\ seen' = seen
      /\ listings' = Append(listings, new) /\ listings \in Seq(ListingRecord)
  BY DEF ListFiles, Refuse, tree, found, ListedOK, ListingsOK
<1>2. t \in DOMAIN modules
  BY <1>1 DEF TurnOK
<1>3. d \in FoundAt /\ d \in NamedPath
  BY <1>2, FoundDirectories DEF FoundAt, Directory, DiscoveryIInv
<1>4. files \subseteq Tests
  <2>1. SUFFICES ASSUME NEW p \in GoList(d) PROVE p \in Tests
    OBVIOUS
  <2>2. /\ p \in present /\ p \in NamedPath /\ Kind(p) = "test" /\ Below(d, p) /\ VisibleToGo(d, p)
    BY <1>3, GoListMeans DEF DiscoveryIInv
  <2>3. seen \in SUBSET Paths /\ p \in seen /\ d \in WithModule(seen)
    BY <1>3, <2>2 DEF DiscoveryIInv, TreeOK, FoundOK
  <2>4. Visible(p)
    BY <1>3, <2>2, <2>3, VisibleFrom
  <2> QED
    BY <2>2, <2>3, <2>4 DEF Tests, OfKind
<1>5. Tests' = Tests
  BY <1>1 DEF Tests, OfKind
<1>6. ASSUME NEW k \in DOMAIN listings' PROVE listings'[k].files \subseteq Tests
  <2>1. (k \in DOMAIN listings /\ listings'[k] = listings[k]) \/ listings'[k] = new
    BY <1>1
  <2>2. new.files = files
    OBVIOUS
  <2> QED
    BY <1>4, <2>1, <2>2 DEF TracedOK
<1>7. AlreadyRead' = AlreadyRead
  BY ListedListFiles DEF DiscoveryIInv, ModulesOK
<1> QED
  BY <1>1, <1>5, <1>6, <1>7, TracedStays

\* A file's own names are traced to it.
LEMMA TracedMore ==
    ASSUME ModulesOK, turn \in DOMAIN modules, NEW D \in {Fuzz, Benchmarks},
           NEW list \in Seq(TargetRecord), Traced(list, D), NEW f \in Paths,
           NEW t, t = turn, modules' = modules,
           AlreadyRead' = AlreadyRead \union {<<t, f>>},
           NEW all, all = list \o Declared(f, D[f])
    PROVE  Traced(all, D)'
<1> PICK names : names = D[f]
  OBVIOUS
<1> PICK more : more = Declared(f, names)
  OBVIOUS
<1>1. names \in Seq(STRING)
  BY TargetsAssumption
<1>2. /\ more \in Seq(TargetRecord) /\ Len(more) = Len(names)
      /\ \A i \in DOMAIN names : more[i].identity = Append(Place(t, f), names[i])
  BY <1>1, DeclaredMeans
<1>3. DOMAIN names = 1 .. Len(names)
  BY <1>1
<1> PICK n : n = Len(list)
  OBVIOUS
<1>4. /\ n \in Nat /\ DOMAIN list = 1 .. n /\ DOMAIN all = 1 .. n + Len(more) /\ Len(more) \in Nat
      /\ \A i \in 1 .. n : all[i] = list[i]
      /\ \A j \in 1 .. Len(more) : all[n + j] = more[j]
  <2>1. more \in Seq(TargetRecord)
    BY <1>2
  <2> QED
    BY <2>1
<1>5. \A i, p : Place(i, p)' = Place(i, p)
  BY DEF Place
<1> PICK read : read = AlreadyRead
  OBVIOUS
<1>6. AlreadyRead' = read \union {<<t, f>>}
  OBVIOUS
<1>7. ASSUME NEW i \in DOMAIN all
      PROVE  \E r \in read \union {<<t, f>>} : \E j \in DOMAIN D[r[2]] :
                all[i].identity = Append(Place(r[1], r[2]), D[r[2]][j])
  <2>1. CASE i \in 1 .. n
    <3>1. i \in DOMAIN list /\ all[i] = list[i]
      BY <1>4, <2>1
    <3> QED
      BY <3>1 DEF Traced
  <2>2. CASE i \notin 1 .. n
    <3> PICK j : j = i - n
      OBVIOUS
    <3>1. j \in 1 .. Len(more) /\ i = n + j
      BY <1>4, <2>2
    <3>2. j \in DOMAIN names /\ all[i] = more[j]
      BY <1>2, <1>3, <1>4, <3>1
    <3>3. all[i].identity = Append(Place(t, f), D[f][j])
      BY <1>2, <3>2
    <3>4. <<t, f>>[1] = t /\ <<t, f>>[2] = f
      OBVIOUS
    <3> QED
      BY <3>2, <3>3, <3>4
  <2> QED
    BY <2>1, <2>2
<1>8. ASSUME NEW i \in DOMAIN all
      PROVE  \E r \in AlreadyRead' : \E j \in DOMAIN D[r[2]] :
                all[i].identity = Append(Place(r[1], r[2])', D[r[2]][j])
  <2>1. PICK r \in read \union {<<t, f>>} : \E j \in DOMAIN D[r[2]] :
                all[i].identity = Append(Place(r[1], r[2]), D[r[2]][j])
    BY <1>7
  <2>2. Place(r[1], r[2])' = Place(r[1], r[2])
    BY <1>5
  <2> QED
    BY <1>6, <2>1, <2>2
<1> QED
  BY <1>8 DEF Traced

LEMMA TracedSearchFile ==
    ASSUME DiscoveryIInv, ResultsOK, TurnOK, ListedOK, TracedOK, Search, SearchFile,
           phase' # "rejected"
    PROVE  TracedOK'
<1> PICK f : f = Head(pending)
  OBVIOUS
<1> PICK t : t = turn
  OBVIOUS
<1>1. phase = "search" /\ modules' = modules /\ listings' = listings /\ seen' = seen
  BY DEF Search, found, tree
<1>2. AlreadyRead' = IF f \in active THEN AlreadyRead \union {<<t, f>>} ELSE AlreadyRead
  BY ListedSearchFile DEF DiscoveryIInv
<1>3. \A k \in DOMAIN listings' : listings'[k].files \subseteq Tests'
  BY <1>1, TestsStay
<1>4. CASE f \notin active
  <2>1. UNCHANGED results
    BY <1>4 DEF SearchFile
  <2> QED
    BY <1>1, <1>2, <1>3, <1>4, <2>1, TracedStays
<1>5. CASE f \in active
  <2> PICK fuzz : fuzz = targets \o Declared(f, Fuzz[f])
    OBVIOUS
  <2> PICK bench : bench = benchmarks \o Declared(f, Benchmarks[f])
    OBVIOUS
  <2>1. targets' = fuzz /\ benchmarks' = bench
    BY <1>5 DEF SearchFile, Refuse
  <2>2. /\ turn \in DOMAIN modules /\ f \in Paths /\ ModulesOK
        /\ targets \in Seq(TargetRecord) /\ benchmarks \in Seq(TargetRecord)
        /\ Traced(targets, Fuzz) /\ Traced(benchmarks, Benchmarks)
    BY <1>1, <1>5 DEF TurnOK, ListedOK, ActiveOK, DistinctOK, ResultsOK, TracedOK, DiscoveryIInv
  <2>3. AlreadyRead' = AlreadyRead \union {<<t, f>>}
    BY <1>2, <1>5
  <2>4. Traced(fuzz, Fuzz)'
    <3>1. Fuzz \in {Fuzz, Benchmarks}
      OBVIOUS
    <3> QED
      BY <1>1, <2>2, <2>3, <3>1, TracedMore
  <2>5. Traced(bench, Benchmarks)'
    <3>1. Benchmarks \in {Fuzz, Benchmarks}
      OBVIOUS
    <3> QED
      BY <1>1, <2>2, <2>3, <3>1, TracedMore
  <2> QED
    BY <1>3, <2>1, <2>4, <2>5 DEF TracedOK, Traced
<1> QED
  BY <1>4, <1>5

LEMMA TracedDiscover ==
    ASSUME TurnOK, ListedOK, TracedOK, Discover
    PROVE  TracedOK'
<1>1. phase \in {"walk", "inspect", "classify"} /\ UNCHANGED searchVars
  BY DEF Discover, DiscoveryNext, Visit, EndWalk, InspectModule, ValidateModules, ClassifyPackages
<1>2. listings = <<>> /\ AlreadyRead = {}
  BY <1>1, NothingListedYet
<1>3. DOMAIN targets = {} /\ DOMAIN benchmarks = {}
  BY <1>2 DEF TracedOK, Traced
<1>4. targets' = targets /\ benchmarks' = benchmarks /\ listings' = listings
  BY <1>1 DEF searchVars, results
<1>5. Traced(targets, Fuzz)' /\ Traced(benchmarks, Benchmarks)'
  BY <1>3, <1>4 DEF Traced
<1> QED
  BY <1>2, <1>4, <1>5 DEF TracedOK

LEMMA TracedKeeps ==
    ASSUME TargetsIInv, ListedOK, TracedOK, [TargetsNext]_targetsVars, phase' # "rejected"
    PROVE  TracedOK'
<1>1. DiscoveryIInv /\ TreeOK /\ ResultsOK /\ TurnOK /\ modules \in Seq(ModuleRecord)
  BY DEF TargetsIInv, DiscoveryIInv, ModulesOK
<1>2. seen \subseteq seen'
  BY <1>1, TreeMoves
<1>3. CASE modules' = modules /\ UNCHANGED searchVars
  <2>1. AlreadyRead' = AlreadyRead /\ UNCHANGED results /\ listings' = listings
    BY <1>3 DEF AlreadyRead, Listed, searchVars
  <2> QED
    BY <1>2, <1>3, <2>1, TestsStay, TracedStays
<1>4. CASE Discover
  BY <1>1, <1>4, TracedDiscover
<1>5. CASE NextModule
  <2>1. modules' = modules /\ UNCHANGED results /\ listings' = listings
    BY <1>5 DEF NextModule, found
  <2>2. AlreadyRead' = AlreadyRead
    BY <1>1, <1>5, ListedNextModule
  <2> QED
    BY <1>2, <2>1, <2>2, TestsStay, TracedStays
<1>6. CASE ListFiles
  BY <1>1, <1>6, TracedListFiles
<1>7. CASE Search /\ SearchFile
  BY <1>1, <1>7, TracedSearchFile
<1>8. CASE Search /\ SearchDirectory
  BY <1>3, <1>8 DEF Search, SearchDirectory, found, searchVars, results
<1>9. CASE Finish \/ UNCHANGED targetsVars \/ UNCHANGED <<found, searchVars>>
  BY <1>3, <1>9 DEF Finish, targetsVars, discoveryVars, found
<1>10. CASE NoModules \/ Unread \/ Fail
  BY <1>10 DEF NoModules, Unread, Fail, Refuse
<1> QED
  BY <1>4, <1>5, <1>6, <1>7, <1>8, <1>9, <1>10 DEF TargetsNext, Find, Search

LEMMA NoRefusalYet ==
    ASSUME phase # "rejected", refusal = None, [TargetsNext]_targetsVars, phase' # "rejected"
    PROVE  refusal' = None
BY DEF TargetsNext, Environment, Discover, DiscoveryNext, Visit, VisitDirectory, VisitFile,
   ReadDirectory, Unreadable, EndWalk, InspectModule, ValidateModules, ClassifyPackages, Find,
   NextModule, NoModules, ListFiles, Search, SearchDirectory, SearchFile, Unread, Finish, Fail,
   Refuse, targetsVars, discoveryVars

LEMMA ReasonsStepKeeps ==
    ASSUME TargetsIInv, ListedOK, DescribedOK, ReasonsOK, [TargetsNext]_targetsVars
    PROVE  ReasonsOK'
<1>1. CASE phase = "rejected"
  <2>1. UNCHANGED <<tree, ended, listings, refusal, phase>>
    BY <1>1, RefusedForGood
  <2>2. Explained(refusal')
    BY <2>1 DEF ReasonsOK, RefusalsAreExplained
  <2>3. RefusalsAreExplained'
    BY <2>1, <2>2, ReasonStands
  <2> QED
    BY <1>1, <2>1, <2>3 DEF ReasonsOK
<1>2. CASE phase # "rejected" /\ phase' = "rejected"
  BY <1>2, RefusalExplained DEF ReasonsOK
<1>3. CASE phase # "rejected" /\ phase' # "rejected"
  <2>1. /\ DiscoveryIInv /\ TurnOK /\ SearchOK
        /\ CalmOK /\ RootOK /\ LinterOK /\ MetOK /\ TracedOK /\ refusal = None
    BY <1>3 DEF TargetsIInv, ReasonsOK
  <2>2. CalmOK' /\ RootOK' /\ LinterOK' /\ MetOK' /\ TracedOK' /\ refusal' = None
    BY <1>3, <2>1, CalmKeeps, RootKeeps, LinterKeeps, MetKeeps, TracedKeeps, NoRefusalYet
  <2>3. RefusalsAreExplained'
    BY <2>2 DEF RefusalsAreExplained, Explained, None
  <2> QED
    BY <2>2, <2>3 DEF ReasonsOK
<1> QED
  BY <1>1, <1>2, <1>3

\* Until a refusal, everything that could be its reason is still to be met or was read.
THEOREM RefusalsInvariance == TargetsSpec => []ReasonsOK
<1>1. TargetsInit => ReasonsOK
  <2> SUFFICES ASSUME TargetsInit PROVE ReasonsOK
    OBVIOUS
  <2>1. /\ phase = "walk" /\ pending = << <<>> >> /\ changes = 0 /\ stable = present /\ seen = present
        /\ modules = <<>> /\ linterConfig = <<>> /\ refusal = None /\ listings = <<>>
        /\ targets = <<>> /\ benchmarks = <<>> /\ present \in Trees
    BY DEF TargetsInit, DiscoveryInit
  <2>2. CalmOK
    BY <2>1 DEF CalmOK
  <2>3. RootOK
    <3>1. DOMAIN modules = {}
      BY <2>1
    <3> QED
      BY <3>1 DEF RootOK
  <2>4. LinterOK
    <3>1. <<>> \in NamedPath
      BY DEF NamedPath
    <3>2. ToSet(pending) = {<<>>}
      BY <2>1, <3>1, MembersOfOne
    <3>3. <<>> \in Held
      BY <2>1, <3>2 DEF Held
    <3>4. \A p \in stable : p \in NamedPath
      BY <2>1, DiscoveryAssumption, PathsAreNamed
    <3>5. \A p \in stable : IsPrefix(<<>>, p)
      BY <3>4, PrefixItself DEF NamedPath
    <3> QED
      BY <2>1, <3>3, <3>5 DEF LinterOK
  <2>5. MetOK
    BY <2>1 DEF MetOK
  <2>6. TracedOK
    <3>1. DOMAIN listings = {} /\ DOMAIN targets = {} /\ DOMAIN benchmarks = {}
      BY <2>1
    <3> QED
      BY <3>1 DEF TracedOK, Traced
  <2>7. RefusalsAreExplained
    BY <2>1, NoneIsExplained DEF RefusalsAreExplained
  <2> QED
    BY <2>1, <2>2, <2>3, <2>4, <2>5, <2>6, <2>7 DEF ReasonsOK
<1>2. TargetsIInv /\ ListedOK /\ DescribedOK /\ ReasonsOK /\ [TargetsNext]_targetsVars => ReasonsOK'
  BY ReasonsStepKeeps
<1> QED
  BY <1>1, <1>2, TargetsInvariance, ListingsInvariance, DescriptionsInvariance, PTL DEF TargetsSpec

\* Every refusal has its reason in the repository: what is missing means that it changed,
\* and what is wrong with its layout, a link, a module or a name is wrong there.
THEOREM TargetsRefusals == TargetsSpec => []RefusalsAreExplained
<1>1. ReasonsOK => RefusalsAreExplained
  BY DEF ReasonsOK
<1> QED
  BY <1>1, RefusalsInvariance, PTL
=============================================================================
