------------------------------ MODULE Campaign ------------------------------
(***************************************************************************)
(* One fuzz campaign (src/goverify/campaign.go): executeFuzzControls runs  *)
(* N controls on a fixed pool of worker goroutines.  Workers claim indices *)
(* from one atomic counter, the first failing worker cancels its siblings  *)
(* through a sync.Once, and after workers.Wait the campaign picks the      *)
(* failure it reports or writes one line per control.                      *)
(*                                                                         *)
(* There are two contexts: the campaign's own (deadline and caller; parent *)
(* in the code) and the child that the first failure cancels.  The Go      *)
(* runtime marks the parent before it reaches the child, so the two are    *)
(* separate variables and Propagate is a step of its own.                  *)
(***************************************************************************)
EXTENDS Integers, Sequences

CONSTANTS
    N,          \* number of controls, indexed 0 .. N-1
    Jobs,       \* campaign.Jobs; zero means one
    Minimum,    \* minimumFuzzExecutions(campaign)
    Executions  \* execution counts a fuzz run may print (bounds the model)

ASSUME CampaignAssumption ==
    /\ N \in Nat \ {0}
    /\ Jobs \in Nat
    /\ Minimum \in Nat
    /\ Executions \subseteq Nat

Controls == 0 .. N - 1
EffectiveJobs == IF Jobs = 0 THEN 1 ELSE Jobs
Workers == 1 .. (IF EffectiveJobs <= N THEN EffectiveJobs ELSE N)

VARIABLES
    parent,      \* error of the campaign context, "live" while it has none
    child,       \* error of the context the workers and runs observe
    next,        \* atomic counter: the next index to hand out
    outcomes,    \* outcomes[i]: what control i returned
    once,        \* sync.Once: "idle", "busy" inside the function, "done"
    failed,      \* set by the first failing worker
    firstIndex,  \* the index that worker ran
    pc,          \* where each worker is in forWorker
    index,       \* the index each worker holds
    main,        \* the goroutine that called executeFuzzControls
    lines,       \* outcome lines fully written so far
    result,      \* what the call returned
    lateStarts   \* history: controls each worker began after cancellation

ctxVars  == <<parent, child>>
poolVars == <<next, outcomes, once, failed, firstIndex, pc, index, lateStarts>>
mainVars == <<main, lines, result>>
vars     == <<ctxVars, poolVars, mainVars>>

-----------------------------------------------------------------------------
(* What a run reports and how the campaign classifies it *)

Ended == {"cancelled", "deadline"}

\* The reports of an external process run.  "success" stands for a run that
\* started, exited zero and completed; terminal says whether its output ends in
\* a recognised execution line.
Reports == [err      : {"nil", "cancelled", "failed", "cleanup"},
            outcome  : {"success", "unsuccessful", "cleanup_failure"},
            terminal : BOOLEAN,
            executions : Executions]

\* Mutant: the execution count is printed but not held to the minimum.
PassesAnyCount(r) == r.err = "nil" /\ r.outcome = "success" /\ r.terminal

Passes(r) ==
    /\ r.err = "nil"
    /\ r.outcome = "success"
    /\ r.terminal
    /\ r.executions >= Minimum

\* The stored outcome: runFuzzControl turns an unsuccessful or unterminated run
\* into an error, and the failure scan sees a cleanup failure in either the
\* error or the process outcome.  Nothing reads the count of a failed outcome.
RunFuzzControl(r) ==
    IF Passes(r) THEN [class |-> "pass", executions |-> r.executions]
    ELSE [class |-> IF r.err = "cleanup" \/ r.outcome = "cleanup_failure"
                      THEN "cleanup"
                      ELSE IF r.err = "cancelled" THEN "cancelled" ELSE "failed",
          executions |-> 0]

Unset == [class |-> "unset", executions |-> 0]
Classes == {"unset", "pass", "failed", "cancelled", "cleanup"}
Outcomes == [class : Classes, executions : Executions \union {0}]

Of(classes) == {i \in Controls : outcomes[i].class \in classes}
Errors  == Of({"failed", "cancelled", "cleanup"})
Genuine == Of({"failed", "cleanup"})

Lowest(i, S) == i \in S /\ \A j \in S : i <= j

\* Mutant: report whichever failure was observed first.
FirstObservedFailure(i, genuine) == i = firstIndex /\ genuine = (i \in Genuine)

\* deterministicFuzzFailure(outcomes, firstIndex) = (i, genuine)
DeterministicFailure(i, genuine) ==
    \/ genuine /\ Lowest(i, Of({"cleanup"}))
    \/ genuine /\ Of({"cleanup"}) = {} /\ Lowest(i, Genuine)
    \/ ~genuine /\ Genuine = {} /\ Lowest(i, Errors)
    \/ ~genuine /\ Errors = {} /\ i = firstIndex

Pending == [kind |-> "pending", index |-> 0]
Results == [kind : {"pending", "rejected", "context", "control", "write", "success"},
            index : Controls]

-----------------------------------------------------------------------------
Init ==
    /\ parent = "live"
    /\ child = "live"
    /\ next = 0
    /\ outcomes = [i \in Controls |-> Unset]
    /\ once = "idle"
    /\ failed = FALSE
    /\ firstIndex = 0
    /\ pc = [w \in Workers |-> "idle"]
    /\ index = [w \in Workers |-> 0]
    /\ main = "admit"
    /\ lines = <<>>
    /\ result = Pending
    /\ lateStarts = [w \in Workers |-> 0]

-----------------------------------------------------------------------------
(* Environment: the caller cancels, or a deadline passes *)

EndParent(why) ==
    /\ main # "returned"
    /\ parent = "live"
    /\ parent' = why
    /\ UNCHANGED <<child, poolVars, mainVars>>

\* The parent's cancellation reaches the child it was derived into.
Propagate ==
    /\ main \in {"wait", "write"}
    /\ parent # "live"
    /\ child = "live"
    /\ child' = parent
    /\ UNCHANGED <<parent, poolVars, mainVars>>

-----------------------------------------------------------------------------
(* The calling goroutine *)

\* Every return runs the deferred cancel of the child context.
Return(kind, i) ==
    /\ main' = "returned"
    /\ result' = [kind |-> kind, index |-> i]
    /\ child' = IF child = "live" THEN "cancelled" ELSE child

\* Invalid arguments, campaign or targets, or an unsupported platform.
RejectCampaign ==
    /\ main = "admit"
    /\ Return("rejected", 0)
    /\ UNCHANGED <<parent, poolVars, lines>>

\* The caller's context had already ended.
RejectEnded ==
    /\ main = "admit"
    /\ parent # "live"
    /\ Return("context", 0)
    /\ UNCHANGED <<parent, poolVars, lines>>

\* The context was live when runFuzzCampaignWith looked, yet may end before the
\* workers start: both orders are EndParent before or after this step.
StartWorkers ==
    /\ main = "admit"
    /\ parent = "live"
    /\ main' = "wait"
    /\ pc' = [w \in Workers |-> "check"]
    /\ UNCHANGED <<ctxVars, next, outcomes, once, failed, firstIndex, index,
                   lateStarts, lines, result>>

\* Mutant: return with the first worker instead of the last.
JoinedFirst == main = "wait" /\ \E w \in Workers : pc[w] = "done"

\* workers.Wait returns once every worker has.
Joined == main = "wait" /\ \A w \in Workers : pc[w] = "done"

ReportFailure ==
    /\ Joined
    /\ failed
    /\ \E i \in Controls, genuine \in BOOLEAN :
        /\ DeterministicFailure(i, genuine)
        /\ IF ~genuine /\ parent # "live" THEN Return("context", 0)
                                          ELSE Return("control", i)
    /\ UNCHANGED <<parent, poolVars, lines>>

ReportEnded ==
    /\ Joined
    /\ ~failed
    /\ child # "live"
    /\ Return("context", 0)
    /\ UNCHANGED <<parent, poolVars, lines>>

BeginReport ==
    /\ Joined
    /\ ~failed
    /\ child = "live"
    /\ main' = "write"
    /\ UNCHANGED <<ctxVars, poolVars, lines, result>>

\* One iteration of writeFuzzOutcomes; the writer may fail.
WriteLine ==
    /\ main = "write"
    /\ Len(lines) < N
    /\ child = "live"
    /\ \/ /\ lines' = Append(lines, [control |-> Len(lines),
                                     executions |-> outcomes[Len(lines)].executions])
          /\ UNCHANGED <<child, main, result>>
       \/ /\ Return("write", 0)
          /\ UNCHANGED lines
    /\ UNCHANGED <<parent, poolVars>>

WriteEnded ==
    /\ main = "write"
    /\ Len(lines) < N
    /\ child # "live"
    /\ Return("context", 0)
    /\ UNCHANGED <<parent, poolVars, lines>>

ReturnSuccess ==
    /\ main = "write"
    /\ Len(lines) = N
    /\ Return("success", 0)
    /\ UNCHANGED <<parent, poolVars, lines>>

-----------------------------------------------------------------------------
(* The worker loop, forWorker *)

Goto(w, label) == pc' = [pc EXCEPT ![w] = label]

\* Mutant: the head of the loop does not look at the context.
SkipContext(w) ==
    /\ pc[w] = "check"
    /\ Goto(w, "claim")
    /\ UNCHANGED <<ctxVars, next, outcomes, once, failed, firstIndex, index,
                   lateStarts, mainVars>>

\* Mutant: continue instead of return when the context has ended.
SpinOnContext(w) ==
    /\ pc[w] = "check"
    /\ Goto(w, IF child = "live" THEN "claim" ELSE "check")
    /\ UNCHANGED <<ctxVars, next, outcomes, once, failed, firstIndex, index,
                   lateStarts, mainVars>>

\* ctx.Err() at the head of the loop.
CheckContext(w) ==
    /\ pc[w] = "check"
    /\ Goto(w, IF child = "live" THEN "claim" ELSE "done")
    /\ UNCHANGED <<ctxVars, next, outcomes, once, failed, firstIndex, index,
                   lateStarts, mainVars>>

\* One claim, given the values the counter may be left with and the last index
\* the loop accepts.
ClaimWith(w, counters, last) ==
    /\ pc[w] = "claim"
    /\ next' \in counters
    /\ IF next <= last
         THEN /\ Goto(w, "run")
              /\ index' = [index EXCEPT ![w] = next]
              /\ lateStarts' = IF child = "live" THEN lateStarts
                               ELSE [lateStarts EXCEPT ![w] = @ + 1]
         ELSE /\ Goto(w, "done")
              /\ UNCHANGED <<index, lateStarts>>
    /\ UNCHANGED <<ctxVars, outcomes, once, failed, firstIndex, mainVars>>

\* Mutant: a plain counter, whose increment another worker may overwrite.
ClaimPlain(w) == ClaimWith(w, {next, next + 1}, N - 1)

\* Mutant: the bound is off by one.
ClaimPastEnd(w) == ClaimWith(w, {next + 1}, N)

\* next.Add(1) - 1, and the return when it is past the last control.
Claim(w) == ClaimWith(w, {next + 1}, N - 1)

\* The run returns.  It reports cancellation only if its context has ended, and
\* may still report anything else then.
FinishRun(w, r) ==
    /\ pc[w] = "run"
    /\ r.err = "cancelled" => child # "live"
    /\ outcomes' = [outcomes EXCEPT ![index[w]] = RunFuzzControl(r)]
    /\ Goto(w, IF Passes(r) THEN "check" ELSE "once")
    /\ UNCHANGED <<ctxVars, next, once, failed, firstIndex, index, lateStarts,
                   mainVars>>

\* first.Do: the first caller runs the function, a concurrent caller waits for
\* it, a later caller returns at once.
EnterOnce(w) ==
    /\ pc[w] = "once"
    /\ once = "idle"
    /\ once' = "busy"
    /\ failed' = TRUE
    /\ firstIndex' = index[w]
    /\ Goto(w, "cancel")
    /\ UNCHANGED <<ctxVars, next, outcomes, index, lateStarts, mainVars>>

CancelSiblings(w) ==
    /\ pc[w] = "cancel"
    /\ child' = IF child = "live" THEN "cancelled" ELSE child
    /\ once' = "done"
    /\ Goto(w, "check")
    /\ UNCHANGED <<parent, next, outcomes, failed, firstIndex, index,
                   lateStarts, mainVars>>

SkipOnce(w) ==
    /\ pc[w] = "once"
    /\ once = "done"
    /\ Goto(w, "check")
    /\ UNCHANGED <<ctxVars, next, outcomes, once, failed, firstIndex, index,
                   lateStarts, mainVars>>

Worker(w) ==
    \/ CheckContext(w)
    \/ Claim(w)
    \/ \E r \in Reports : FinishRun(w, r)
    \/ EnterOnce(w)
    \/ CancelSiblings(w)
    \/ SkipOnce(w)

Main ==
    \/ RejectCampaign
    \/ RejectEnded
    \/ StartWorkers
    \/ ReportFailure
    \/ ReportEnded
    \/ BeginReport
    \/ WriteLine
    \/ WriteEnded
    \/ ReturnSuccess

\* The call has returned: nothing is left to run.
Returned == main = "returned" /\ UNCHANGED vars

-----------------------------------------------------------------------------
Next ==
    \/ \E why \in Ended : EndParent(why)
    \/ Propagate
    \/ Main
    \/ \E w \in Workers : Worker(w)
    \/ Returned

Spec == Init /\ [][Next]_vars

\* The scheduler runs every goroutine that can run, the runtime delivers
\* cancellation, and every run returns: the process owner bounds it by its own
\* timeout and cleanup budget.  Nothing forces the caller to cancel.
FairSpec ==
    /\ Spec
    /\ WF_vars(Propagate)
    /\ WF_vars(Main)
    /\ \A w \in Workers : WF_vars(Worker(w))
=============================================================================
