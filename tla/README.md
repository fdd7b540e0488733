# Verification of secverify

TLA+ models of [`secengcommons/verify`](../src/README.md), a Go program that
discovers a repository, builds a plan of controls and runs each control as a
bounded process. The models cover the parts of the program whose correctness
depends on order, concurrency, failure or arithmetic at a limit. TLC checks each
model on small instances; TLAPS proves the safety properties of every component,
but for one, for every value of their constants, and two refinements. Promises
of the documentation that the code does not keep are runs of their own (section 4).

Every definition is translated from the Go source, and `PROJECT.json` names the
lines. Three libraries are external and are modelled by how the program uses
them: `proctree` (owns a process tree, reports an outcome), the YAML parser, and
the flag parser. Paths below are relative to `src/`.

## 1. The system

```
 cmd/secverify            goverify                              verify (root package)
 main -> plan.go  ----->  discovery.go, fuzz.go   inventory
         |                repository.go           controls ---> validate.go  admit
         |                                                       execute.go   run in order
         v                                                          | one process per control
     exit status  <----  state and error  <-------------------------+
                                                                    | some controls run
                                                                    v secverify itself
 repository_internal.go: decode the envelope on stdin, then one of
   campaign.go   coverage (repository_operations.go)   benchmark.go   dependency.go
   workflow.go + local_action.go (admission)            workflow_currency.go (pins)
```

| Component | State it keeps | Operations | What is hard | What makes it correct |
|---|---|---|---|---|
| Command and planning (`plan.go`, `repository.go`) | resolved tools, fuzz settings, groups of controls, timeouts | inspect, select tools, read settings, build one of seven profiles | profiles share pieces with different options; two levels of timeouts; rounding of batches | a plan is exactly what the profile table promises, every tool it runs was resolved, prerequisites come first, deadlines leave time for lanes and for cleanup |
| Plan admission (`validate.go`) | identities seen, executable and directory caches, running totals | limits of the plan, then profile by profile and control by control: identity, bounds, executable, directory, strings | bounds at the limit, a file system and a context that change between looks | an admitted plan is within every limit, a refused one is not, one name is one file, and the whole is one step to its caller |
| Profile execution (`execute.go`, `execution.go`) | context, results, state, error, output | header, then per control: heading, run, classify, match, output, label; summary; exit status | two contexts that end at any time, a write that fails at any time, errors that carry several sentinels at once | a pass is complete and earned, the first non-pass stops, cleanup failures and cancellation are never lost |
| Fuzz campaign (`campaign.go`) | shared counter, `sync.Once`, outcomes slice, two contexts | claim, run, first failure cancels, join, report | the only concurrent code of the program | each control has one owner, the report does not depend on the schedule, the call joins and returns |
| Coverage operation (`repository_operations.go`, `coverage.go`) | temporary file, 64-bit totals, first uncovered row | run, read, add rows, summarise, remove | partial failure with a deferred removal, overflow | success means full coverage, the file is gone or the error says so |
| Workflow references (`workflow.go`, `local_action.go`) | stack, visited and active actions, three budgets | read a workflow, enter, read, leave an action | recursion through repository data, cycles and diamonds, budgets across files | verified means everything reachable is pinned |
| Pin currency (`workflow_currency.go`) | tag map of one repository | list tags, merge lines, scan for the newest | lines in any order, unordered map walks, equal versions | the verdict is a function of the listing |
| Compatibility versions (`discovery.go`) | minimum, candidates, scopes | candidates by minor, scopes per candidate | two- and three-component versions, equal minors | only supported versions are run, and every older minor has its version |
| Discovery (`discovery.go`, `source.go`) | entry, module and source counts; modules and files found | bounded walk, one `go mod edit` per module, validation, ownership of files | the repository changes between the looks; several limits; a hidden directory that is walked | what was there all along is found, what never was is not, and a file belongs to its nearest module |
| Test targets (`fuzz.go`) | files listed and not yet seen, entries, bytes, targets | per module: `go list`, walk, read | three looks at one repository, boundaries of modules that move, budgets shared by modules | no target of an undisturbed file is missed, the inventory is what was listed, a refusal has a reason |
| Workflow document (`workflow.go`) | nodes to check, nodes being copied, copy | check, expand aliases, collect references | exponential growth, cycles, five places that name an action or an image, each reachable through aliases | the copy is the meaning of the document; nothing a job runs is overlooked |
| Output (`safeoutput`, `exactwrite`) | buffer, state of the line | escape, append, flush, write what is left | a flush inside an escape, short writes, commands across texts | the report is exact and holds no command |
| Dependency currency (`dependency.go`), benchmarks (`benchmark.go`), operation envelopes (`repositoryop`), identity (`identity.go`) | none beyond one call | sequential loops, parsing, formatting | little that depends on order | see section 8 |

Components interact by calls, by one cancellation context passed down the whole
tree, and by processes: a control may run this program again, which reads its
work from an envelope on standard input. The only memory shared by goroutines is
that of a fuzz campaign.

## 2. Modules

Each component has a module with its state and actions, a `...Properties` module
that states what must hold, and, where the instance needs definitions, an `MC...`
module.

| Module | Models | Correspondence |
|---|---|---|
| `Campaign` | `runFuzzCampaignWith`, `executeFuzzControls` and all they call | One worker is a `pc` over the loop `forWorker`: `CheckContext` (`ctx.Err`), `Claim` (`next.Add`), `FinishRun`, `EnterOnce`/`CancelSiblings`/`SkipOnce` (`first.Do`, with its blocking). The caller is `main`: `StartWorkers`, the join, `ReportFailure`/`ReportEnded`/`BeginReport`, `WriteLine`. `parent` and `child` are the two contexts, `Propagate` the delay between them. |
| `CampaignVerdict` | the promise of a campaign | controls finish in any order and the campaign concludes once; no workers, counter or contexts |
| `Execution` | `runRepositoryInvocation`, `Execute`, `executeControls`, `executeControl`, `classifyOutcome`, `exitFor` | `phase` is the program counter; every write, admission step and process report is a choice; an error is the set of sentinels `errors.Is` finds in it, so `errors.Join` is union |
| `Planning` | `repositoryConfigurationWith`, `RepositoryPlanFor` and the profile builders | one action per step of the configuration and per profile; a control is its role, its index, the programs it runs and its timeouts |
| `Coverage` | `runCoverageWith` and `CheckCoverage` | one action per step that can fail; numbers are lists of digits parsed with a bounded integer, so overflow is real |
| `LocalActions` | `VerifyWorkflowReferences` and `localActionOwner` | the Go call stack is `stack`; `visited`, `active` and the counters are the owner's fields |
| `ActionTags` | `verifyWorkflowCurrencyWith` for one repository | lines arrive in any order; the two scans of the tag map pick the next name nondeterministically, as a Go map does |
| `Compatibility` | `repositoryCompatibility`, `goCompatibilityVersions`, `repositoryCompatibilityControls` | a version is the sequence of its components; candidates and controls are appended one at a time |
| `Discovery` | `discoverRepositoryWith` | the recursion of `walk` is the sequence `pending`; a path is the sequence of its names; files and directories appear and vanish at any step, and `stable` and `seen` record what was there all along and what was ever there |
| `Targets` | `discoverTestTargetsWith`, after `Discovery` | extends `Discovery` with a second walk per module; `active` is the set of listed files not read yet, `listings` what the go command listed for each module |
| `Document` | `decodeWorkflow` and `workflowReferences` | nodes are a graph; `stage` is how far the file has got; the copy is a function from places (sequences of child numbers) to nodes and lines; `stack` and `active` are the recursion of `expand` and its set |
| `Admission` | `admitWithCancellation`, `selectedProfile` and the part of `execute` that calls them | one action per look at the file system or the context; `executables` and `directories` are the caches; `flaw` is which of the two checks of a command fails |
| `Output` | `safeoutput.Write`, `Diagnostic`, `exactwrite.Bytes` for the two texts of a control | a symbol of the report is printed or one byte of an escape; `chunk` is what `exactwrite` still has to write |

The theorems about a component, its type correctness and its inductive invariant
are in a module of their own: `ExecutionProofs`, `LocalActionsProofs` and
`OutputProofs` have one component each, `WorkflowProofs` the two that look into one
workflow (`Document` and `ActionTags`), `OperationProofs` two operations of a profile
(`Coverage` and `Compatibility`), `PlanProofs` the two that a plan goes through
(`Planning` and `Admission`), `FuzzProofs` those that find and run fuzz targets
(`Discovery` with `Targets`, and `Campaign`).
`FoldLemmas` holds what the proofs need to know about folds and sequences.

Compositions: `Targets` runs on the modules `Discovery` has just found, in the
same changing repository. `Admission` implements the step `Admit` of `Execution`: its
property `AdmissionIsOneStep` instantiates `Execution` with a refinement mapping
under which every other step is a stutter. `Document` yields the references that
`LocalActions` expands; the latter takes them as given. (`MCWorkflows` puts `Document`
and `ActionTags` side by side: a process carries out one of the two operations, and
what the other would keep does not change.) Likewise `Execution` takes
the writing of a control's output, which `Output` details, as one step that
succeeds or fails.

`Planning` takes the list of older versions as given, with the only facts
`Compatibility` establishes about it: each version lists some scopes, and a later
version lists at least those of an earlier one.

Definitions whose comment begins with "Mutant:" are variants of the definition
that follows, each with one plausible bug. They are no part of a specification;
`PROJECT.json` pairs each with the property that detects it, so that every
checked property is known to depend on the code it is about.

## 3. What is checked

| Run | Properties | What it shows |
|---|---|---|
| `campaign` | `SingleOwner`, `NoOrphanedWorker`, `CompleteReport`, `OneLateStart`, `ImplementsVerdict`, `Returns` | Under every interleaving, report and time of cancellation: an outcome slot has one writer; no worker outlives the call; a line is printed only for complete success; a worker begins at most one control after cancellation; the reported failure is the one `CampaignVerdict` allows; the call returns |
| `execution` | `PassIsComplete`, `PassIsEarned`, `FirstNonPassStops`, `CancellationIsSeen`, `CleanupIsReported`, `ExitExplainsState` | From the command to its exit status |
| `planning` | `PlanIsTheTable`, `PrerequisitesComeFirst`, `CampaignHasTime` | Plans against the documented table of profiles, order and deadlines |
| `coverage` | `CoverageIsExact`, `NoProfileLeft`, `CancelledIsNotCovered` | Against a reference definition with unbounded numbers |
| `local_actions` | `VerifiedIsImmutable`, `EachReferenceOnce`, `CyclesAreReal`, `Ends` | Against reachability defined without a traversal |
| `compatibility` | `ControlsAreSupported`, `MinorsAreTested` | Every pair of modules over eight floors and five toolchains: what is run is supported, and what is older than the toolchain is run, the toolchain's own minor included |
| `targets` | `DiscoveryIsComplete`, `ModulesAreTheirOwn`, `NothingIsMissed`, `TargetsAreListed`, `RefusalsAreExplained`, `LimitsAreReached` | Discovery and target search against the set of paths that were there all along and the set that ever was: what both runs of the walk find, whose `go.mod` describes a module, why they refuse, and that no limit is met early |
| `workflows` | `ExpansionIsUnfolding`, `ReferencesAreComplete`, `TagsAreListed`, `VerdictIsExact` | Two operations, of which a process carries out one. `Document`: the copy against the unfolding of the graph, defined level by level without a budget or an active set; the references against patterns of keys. `ActionTags`: against a definition of "current" over the set of lines |
| `admission` | `AdmissionIsExact`, `OneFilePerName`, `AdmissionIsOneStep` | The verdict against limits stated as sums over sets; the refinement of `Execution` |
| `output` | `ReportIsExact`, `ReportIsInert` | The report against a rendering place by place without a buffer; what a runner that scans lines would see |

`campaign` also checks the type invariant `TypeOK`, on which the proofs rest.
`execution_exit` and `compatibility_floors` are described in section 4.

### Bounds

- `campaign`: three controls on two workers. Two workers are enough for every
  race on the counter, the `Once` and the contexts, because each involves two
  parties; the third control gives a worker something to claim after its sibling
  failed, and the failure scan something between and after two failures.
  Execution counts 0 and 1 lie on both sides of a minimum of 1. Four controls on
  three workers have been checked as well.
- `execution`: two controls, the first with expected output and the second shown.
  The loop carries nothing from one control to the next but the position, so a
  third control repeats the second.
- `planning`: two modules of every kind (a kind is any combination of packages,
  production sources and tools), two older versions, and target counts 0 to 3 and
  11 to 13: an empty inventory, a partial batch, and both sides of the largest
  deadline that is not capped. `Cleanup` is one minute; the value is external,
  and nothing depends on it beyond its being positive and below 30.
- `coverage`: integers wrap at 25, so decimals of two digits reach, meet and pass
  the limit. Two rows fit in a profile and three are offered.
- `local_actions`: two workflows and three actions with up to two references each
  and a fourth behind the third: chains, diamonds, self-references and cycles. Each
  of the three budgets is met exactly by a repository that is verified, and the
  reference, the action or the bytes that exceed it are why another is refused.
- `workflows`, pin currency: four names, two of them equal versions, each with a base and a
  peeled line, up to four lines.
- `compatibility`: floors with and without a patch, in three minors and two
  majors; toolchains in, at and above the minor of a floor. Prerelease versions
  have components that are not numbers, give no candidates, and are left out.
- `targets`: 128 repositories of a root module with any of a nested module, a
  module that is a hidden directory, workflows, a skipped directory with a
  `go.mod`, and test, shell and other Go files, and six with something that discovery refuses; one
  path (with what is below it) appears or vanishes at any step. One change is
  enough to separate any two looks, and takes away the `go.mod` of a nested module
  before it is described; 14 entries hold some of these repositories exactly and not
  others. That a module is accepted as another describes it takes two changes and does
  not happen here; the proof of `ModulesAreTheirOwn` covers it. A limit on entries, modules, source files and
  their bytes, on target bytes and on targets is met and exceeded by some
  repository. A file's size is one, and the length of a path is its number of names.
- `workflows`, documents: 23 nodes and six levels, each met exactly by a document that is read
  and exceeded by one that is refused; three references, where a workflow may name
  up to four. Aliases to the job or the workflow that holds them have an infinite
  meaning.
- `admission`: two profiles and two controls in each, three controls and six bytes
  in a plan; each limit is met exactly by a plan that is admitted, and is the only
  one broken by another. One change of the file
  system is enough to separate a cached look from a later one.
- `output`: a buffer of three bytes, so that an escape of four always straddles a
  flush; texts of up to three symbols over every class of symbol, and longer ones
  that hold a whole command after another symbol.

### Fairness

`Campaign` and `LocalActions` state liveness. Their weak fairness is that the scheduler
runs a goroutine that can run, and for `Campaign` that the Go runtime delivers a
cancellation to a derived context, and that a process run returns: `proctree`
bounds it by the control's timeout and a cleanup budget. No fairness is assumed
of the caller, of deadlines or of failures, so each property holds whether or not
they happen. The other modules are sequential, bounded by their input and state
only safety; TLC checks that they stop nowhere but in their final states.

## 4. Where the code and its documentation disagree

Two runs are expected to find a violation of what the README promises. The first,
`execution_exit`:

- `FailExitsOne`: the README gives the state `fail` exit status 1. `classifyOutcome`
  looks at the caller's context (`execute.go:206`) and then at the control's own
  (line 208). When the caller cancels between the two looks the control is
  classified `fail`, with `context.Canceled` joined to `ErrFailed`, and `exitFor`
  (`cmd/secverify/execution.go:114`), which takes the first sentinel that matches,
  exits 4 while the state and the label say FAIL.

The second, `compatibility_floors`, states two sentences about Go floors, as they are
written, on the instance of `compatibility`. `MinorsAreTested` states what does hold,
and is proved:

- `ModulesAreAdmittedAtTheirFloor`: the README says that a two-component floor such as
  `go 1.24` selects `go1.24.0`, and that the profile runs the older minors "with each
  module admitted at its own floor". Neither always holds. When the lowest floor
  and the toolchain share a minor the floor is used as it is written
  (`goverify/discovery.go:584`), so that modules at `go 1.24` under `go1.24.3` are
  tested with `go1.24`; this is the counterexample of the run. And one version is chosen
  for each minor (line 577), so a module whose floor is a later patch of that minor is
  left out of it: with floors 1.25 and 1.25.3 under `go1.26` the second module is
  tested in no older minor at all.

One more disagreement is a constant, and no behaviour of a model: the README bounds a
fuzz lane at two minutes and an ordinary control at five, and lanes get the tool's
five minutes (`cmd/secverify/plan.go:378`).

And one remark: a test file whose module loses its `go.mod` between discovery and
the search is listed for the module above and for its own, and read twice. The
inventory then holds its targets under both module paths; when the paths are nested
as usual (`m` and `m/sub`) the two packages are one and the run refuses the file as
its own duplicate. `RefusalsAreExplained` allows for it, and `LimitsAreReached` for a
whole module that is walked twice: both came to light when an earlier, stronger form
of them could not be proved.

## 5. What is proved

Every theorem holds for every value of the constants that satisfies the named
assumption of the module; nothing else is assumed, and TLC evaluates each
assumption on the instance it checks. The pattern is the same everywhere: the safety
properties are not inductive, so each module states an `IInv` by concern (each
concern a named conjunct), proves `Init => IInv` and one lemma per action or group
of actions, combines them in `Invariance`, and derives the properties from it.
Every `IInv` was checked by TLC on the module's run before it was proved.

### Campaign

For every number of controls, of jobs, every minimum and every set of execution
counts (`CampaignAssumption`).

| Theorem | Statement |
|---|---|
| `TypeCorrect` | `Spec => []TypeOK` |
| `ExclusiveRuns` | `Spec => []SingleOwner` |
| `NoRunOutlivesTheCall` | `Spec => []NoOrphanedWorker` |
| `ReportsAreComplete` | `Spec => []CompleteReport` |
| `PromptCancellation` | `Spec => []OneLateStart` |
| `CampaignImplementsVerdict` | `Spec => Verdict!Spec`, the refinement |

That one control has one owner depends on how the counter relates to what was
handed out; that lines are earned depends on why a worker may leave its loop.
`IInv` adds:

- `Phases`: where workers can be in each phase of the caller;
- `OutcomesOK` and `Claims`: an index below the counter is running or has an
  outcome, an index at or above it is untouched, and a held index is below it;
- `Departures`: a worker is done only if the context has ended or the counter is
  past the last control;
- `Failures` and `Causes`: `failed`, `firstIndex` and the state of the `Once`
  agree with the outcomes, and a cancelled outcome or an ended child context has
  a cause: an ended parent, a returned call, or a control that failed on its own
  account;
- `LinesOK` and `Lateness`: what was printed, and that a worker that began late is
  at most running that one control.

The refinement maps every step to `Finish`, `End`, `Conclude` or a stutter;
`Causes` is what makes the step `Finish` legal (no control is interrupted without a
reason) and what excludes that a control is blamed for an interruption it did not
cause.

### Discovery and test targets

For any repository, any changes of it between the looks, any names, descriptions of
modules and limits (`DiscoveryAssumption`, `TargetsAssumption`: what is above a path
that exists is a directory that exists, and each `go.mod` there may be has a
description).

| Theorem | Statement |
|---|---|
| `DiscoveryCompleteness` | `TargetsSpec => []DiscoveryIsComplete` |
| `ModulesOwnership` | `TargetsSpec => []ModulesAreTheirOwn` |
| `TargetsCompleteness` | `TargetsSpec => []NothingIsMissed` |
| `TargetsListing` | `TargetsSpec => []TargetsAreListed` |
| `TargetsRefusals` | `TargetsSpec => []RefusalsAreExplained` |

The walk is correct because of what it has still to visit. `CoveredOK` says that
each path that was there all along is accounted for or has a beginning in `pending`;
`PendingOK` that no entry of `pending` begins another or is at or above a module
found, so that a module is found once; `EntriesOK` that no more such paths are above
or beside what is pending than entries were read. Reading a directory replaces it by
its entries, and `ClosedNext` is why one of them begins whatever was there all along
below it. `OwnerIsNearest` shows that the longest prefix is the nearest module upwards.

The go command describes the module whose `go.mod` is the nearest above the directory
it is run in, so a module that loses its own meanwhile is described as another.
`DescribedOK` says that each module inspected is what a `go.mod` that was ever there
says, its own where that was there all along, and that no two paths are equal once
they are validated (`GoverningSeen`, `InspectDescribed`, `ValidateDescribed`). Were a
module described by another that was there all along, that one would have been found
too, described by itself, and refused as its duplicate (`DescribedIsOwn`).

For the search, `Due` are the files that must be found in a directory. `DueMeans` is
the heart: between a module and a file due in it every directory is one that the go
command lists, that the walk does not ignore and that never had a `go.mod`, because a
`go.mod` that was ever there would be a boundary that moved. So each file due is
listed (`DueIsListed`), and within a turn it is in the inventory or listed and still
to be met (`SearchOK`); a turn ends when no listed file is unread (`TurnOK`). Files due
only become fewer when the repository changes (`DueShrinks`). `PathsOK` says that a
module's path is that of its own `go.mod`, if that was there all along.

What the inventory holds is `ListedOK`, about `AlreadyRead`: the files listed, each
with its turn, less those of this turn that are still `active`. The identities in
`targets` are those of the files already read and `bytes` is the sum of their sizes
(`ReadOK`); the turns of `listings` increase and skip no module with packages
(`ListingsOK`), so that a file listed twice is two files read; and what is active was
listed in the turn that is last (`ActiveOK`). Reading a file adds one pair to
`AlreadyRead` and one term to the sum; a turn ends with `active` empty, when the files
already read are the files listed.

Why a run refuses is `ReasonsOK`: until it does, whatever could be a reason is still
to be met or has left its trace. While nothing changes what was ever there is there
(`CalmOK`), so a look that finds something missing finds that the repository changed;
a module found has its `go.mod` still (`ModuleStillThere`). A module that is refused is
what some `go.mod` says (`DescribedOK`), so that what is wrong with it is wrong there,
or two modules were described by one, which is above a module whose own is gone. The one configuration of
the linter is one that was met, and no entry of `pending` begins it (`LinterOK`), so a
second one is another file; at the end of the walk nothing is pending, so a layout
without a root module or a linter is the repository's. While nothing changes each
listed file that is unread is below an entry of `pending` (`MetOK`), which is why a
file left over means a change. Every identity in the inventory ends with a name that a
file already read declares (`TracedOK`): when a new one collides, the two names are
equal, and they are in two files, twice in one, or in one that was listed for two
modules (`DuplicateMeans`).

### Execution

For any number of controls, whichever show their output or expect some
(`ExecutionAssumption`).

| Theorem | Statement |
|---|---|
| `PassesAreComplete` | `Spec => []PassIsComplete` |
| `PassesAreEarned` | `Spec => PassIsEarned` (action property) |
| `FirstFailureDecides` | `Spec => []FirstNonPassStops` |
| `CancellationsAreSeen` | `Spec => CancellationIsSeen` (action property) |
| `CleanupFailuresSurvive` | `Spec => []CleanupIsReported` |
| `ExitStatusExplains` | `Spec => []ExitExplainsState` |

`Progress` says that a control is reached only when each before it passed,
`ReportOK` that a clean-up failure is never carried past the control it belongs to.
`Explained` is the heart of the exit status: each state comes with the sentinels
that `exitFor` looks for and without those it looks for first, so that
`errors.Join` cannot change the answer; it is required of a verdict
(`VerdictOK`), kept when the run ends (`ErrorOK`) and read by `ExitOK`. The one state of
which it promises less is `fail`: section 4. `OutputOK` orders the lines that
precede each label.

### Workflow references

For any repository: any number of workflows and local actions that refer to each
other in any way, and any budgets (`LocalActionsAssumption`).

| Theorem | Statement |
|---|---|
| `VerifiedMeansImmutable` | `Spec => []VerifiedIsImmutable` |
| `RefusedCyclesAreReal` | `Spec => CyclesAreReal` (action property) |
| `ReferencesAreFoundOnce` | `Spec => []EachReferenceOnce` |

Correctness of a depth-first search without a bound on the graph. `StackOK` ties the
stack to `active`; `SettledOK` says that each frame is settled up to its next
reference and that what is `visited` refers to nothing refused and only to what
is visited, so `visited` is closed and holds all that is reachable when the stack
is empty; `PathOK` says that a frame is below the frames under it, which makes a
refused cycle a real one. The counters need a second invariant, `CInv`, over the
positions expanded so far (`Added`).

### Pin currency

For any listing in any order, any scan of the map and any pins
(`ActionTagsAssumption`).

| Theorem | Statement |
|---|---|
| `MapIsListing` | `Spec => []TagsAreListed` |
| `VerdictsAreExact` | `Spec => []VerdictIsExact` |

`MapOK` says what the merged map is after every prefix of the lines. `ScanOK`
says that the latest name is the newest of what the scan has reached; versions
that compare equal make it one of several, and `PinOK` with the lemmas about the
order (`AtMostTotal`, `AtMostTransitive`, `NewestUnique`) shows that the choice does not
show.

### Workflow document

For every document, whatever its aliases point to, and all limits
(`DocumentAssumption`: a document has the nodes that are written in it, a scalar or an
alias has no content, and no alias points to an alias).

| Theorem | Statement |
|---|---|
| `DocumentInvariance` | `DocumentSpec => []DocumentIInv` |
| `DocumentExpansion` | `DocumentSpec => []ExpansionIsUnfolding` |
| `DocumentReferences` | `DocumentSpec => []ReferencesAreComplete` |

`Due` says which node the document has at a place below what is copied already. While
the document is checked or expanded every place that is due is in the tree, or
pending, or awaited by exactly one frame of the stack (`CheckedOK`, `AwaitedOK` with
`Fresh`); a copy is what is due there, at the line of its alias (`CopiedOK`). So when
nothing is awaited the tree is whole (`WholeOK`), and a whole tree is the unfolding:
`LevelsAreSpots`, `DueIsMeant` and `MeantIsDue` go level by level between the two.

A refusal is the harder half. `active` is the set of nodes on the stack (`StackOK`),
which is a walk through the document. When the next node is active, the walk closes a
cycle and every path goes on below it: some place is as deep as one likes (`Endless`,
`Cyclic`), so that the level beyond `MaxDepth` is not empty. When a place is too deep
it is itself such a place (`TooDeep`). When the tree is full, what is in it and the
place that did not fit are more places of the unfolding than `MaxNodes` (`TooLarge`);
that counts only because each level is finite and has each path once
(`UnfoldingIsFinite`).

The search of `Collect` is five nested loops that append; the property speaks of
patterns of keys. Both are brought to sets of places: `Matched(p, l)` is the children of
`p` whose key matches `l`. A pattern of one more key reaches the matched children of
what the pattern reached (`ReachedNext`), and `FieldMeans`, `ValuesMean` and
`ItemsMean` say which matched children a loop lists, each once. They differ in one
place: a star also matches the keys of a mapping, which `Values` leaves out; but a key
is a scalar and has nothing below it (`StarMeans`). Lists of lists stay free of
duplicates because places below different jobs, or at different depths, differ
(`ChildrenAt`, `AllSitesMean`), so that the length of the report is the number of
governed places (`NamedIsGoverned`, `ReportIsComplete`). The bound of `MaxReferences`
comes from the check before the last site (`NamedBound`).

### Coverage

For every width of integer, limit on rows and set of profiles
(`CoverageAssumption`).

| Theorem | Statement |
|---|---|
| `VerdictIsExact` | `Spec => []CoverageIsExact` |
| `FileIsRemoved` | `Spec => []NoProfileLeft` |
| `CancellationIsAnError` | `Spec => CancelledIsNotCovered` (action property) |

`DecimalIsNumber` proves that the bounded parser returns the number the digits
denote exactly when it fits and nothing otherwise; `SumsOK` carries the unbounded
total of the rows read, which the machine's sums equal because each addition was
guarded.

### Compatibility profile

For any number of modules, any versions from Go 1.21 on and any toolchain
(`CompatibilityAssumption`).

| Theorem | Statement |
|---|---|
| `ControlsSupported` | `CompatibilitySpec => []ControlsAreSupported` |
| `EveryMinorTested` | `CompatibilitySpec => []MinorsAreTested` |

`Nth` names the candidates of the lowest floor in closed form. `CandidatesOK` says
that the candidates appended are the first of these, `ControlsOK` that what is left
of them is a suffix and that the controls are those of what was taken (`Built`):
each control belongs to a candidate already reached, and each selected scope of a
candidate reached has its control. `NthOrder` gives the order of the controls,
`MinimumExists` that some module has the lowest floor; `FinishedProfile` says what is
checked and tested in the end. The proof found that an
earlier `MinorsAreTested` did not hold in general: where modules have floors of two
major versions the code has no candidates, whichever of them the toolchain has, so
the property now says of which repositories it speaks.

### Planning

For any number of modules, older versions and fuzz targets, and any cleanup time
below thirty minutes (`PlanningAssumption`).

| Theorem | Statement |
|---|---|
| `PlanIsExact` | `PlanningSpec => []PlanIsTheTable` |
| `ToolsResolved` | `PlanningSpec => []ToolsAreResolved` |
| `PrerequisitesFirst` | `PlanningSpec => []PrerequisitesComeFirst` |
| `EnoughTime` | `PlanningSpec => []CampaignHasTime` |

`StepOK` says what has been resolved when each step is taken and that a plan
returned is the list of its profile with no identity twice. The rest is about these
lists. Each piece of a list is shown to hold sound controls only (`Good`: programs
among those resolved, timeouts in order and long enough) and to have exactly the
identities of a part of the table (`PreparationIds`, `StaticIds`, `CompatibilityIds`, ...), and
a list has what its pieces have (`IdsOfConcat`, `IdsOfEach`). Order is proved
likewise, from which roles a piece holds (`OrderedConcat`). `DeadlineGivesTime` is
the arithmetic of the campaign's batches: the deadline covers each lane's time on
two jobs or is the largest there is.

### Plan admission

For every plan, every limit and whatever the file system and the context do
(`AdmissionAssumption`).

| Theorem | Statement |
|---|---|
| `VerdictsAreExact` | `Spec => []AdmissionIsExact` |
| `NamesAreLookedUpOnce` | `Spec => []OneFilePerName` |
| `RefinesExecution` | `Spec => AdmissionIsOneStep`, the refinement of `Execution` |

`LimitsAreWithin` proves that the loops of subtractions from a budget accept
exactly the plans whose sum is within it. `PlaceOK`, `IdsOK` and `FilesOK` say
what has been admitted, that the identities met are remembered, and that an
admitted control uses what the caches hold, which are never overwritten;
`CauseOK` gives every refusal its reason.

### Output

For all texts, every size of the buffer and every writer (`OutputAssumption`,
`TextAssumption`: the classes of symbols do not overlap where the code's do not,
and an escaped byte is shown as a symbol that has no meaning to the runner).

| Theorem | Statement |
|---|---|
| `ReportsAreExact` | `Spec => []ReportIsExact` |
| `ReportsAreInert` | `Spec => []ReportIsInert` |

`IInv` says that what is written, in the chunk, in the buffer and waiting is, one
after the other, the rendering of what has been read (`ProgressOK`), and that the
two flags of the loop are `LineStart` and the last symbol (`ReadOK`).
`StateIsLineStart` proves the same of the fold in `Safe`. For the runner,
`Follows` relates what it sees to what was read: where it takes a line to begin,
one does begin, and a colon or hash it sees last was printed for one that begins
no command; so the next symbol cannot complete a command (`FollowsPrinted`), an
escape resets the relation (`FollowsNew`), and a text begins after the end of a line. What is
cut off is inert because a command lies within what precedes its end
(`InertBeginning`).

### Induction over data

The library's induction theorems take an operator as a parameter and cannot be used
here. `FoldLemmas` proves what is needed without them. `Least` (a nonempty set of
naturals has a least element) follows from the well-foundedness of strict
inclusion among finite sets, and `Induction` is its first-order form: a set that
holds 0 and with each member below `n` the next holds all up to `n`. On it rest that a fold
satisfies its recurrence on every prefix (`FoldPrefix`), what `FlattenSeq` is
(`FlattenAppend`), what its members are (`MembersOfFlatten`), and that the first members of a sequence of sequences begin all
of them (`FlattenGrows`). A property of every prefix is then a set of
positions, `{m \in 0 .. n : ...}`. A finite set is emptied one element at a time
(`SetInduction`), which gives a sum over one that a term can be added to (`SumStep`).

### Only proved

- `ToolsAreResolved` of `PlanningProperties`: that no control of a plan runs a program
  the steps before did not resolve.

### Only model-checked

- Liveness (`Returns`, `Ends`): it needs fairness and ENABLED.
- `LimitsAreReached`: it compares sums and counts of files over whole repositories
  with what two walks have added up.

## 6. Abstractions worth knowing

- The text of lines, names, diagnostics and argument vectors is left out wherever
  no property is about it. A process report is a record of what the code looks
  at; parsing a fuzz record or a profile row yields any value it could.
- A context that ends is a step of the environment at any time. In `Planning` it
  is one of the reasons why a step fails.
- In `ActionTags` an exclusion is present or absent; whether its reason is
  well-formed is left out. A stable tag name is the sequence of its components.
- In `Planning`, `ExtraTest`, `AdditionalProfiles` and an explicit campaign
  timeout are left out: the command line never sets them. Display names are left
  out too, although a long package path can make one too long for admission; the
  hazard is listed in `PROJECT.json`.
- In `Discovery` whether a path is a directory, a file of some kind or a link is
  fixed; whether it exists is not, and what is above a path that exists does. `go mod edit` and `go list` are one look each,
  at the state of the repository then. The order in which targets and source files
  are finally sorted is left out; no property depends on it.
- In `Document` a value is a name and its being immutable a set; the parser, and
  version comments, are external to it. A merge key is refused.
- In `Admission` the aggregate is one step (it reads only the plan), as are the
  lookup of an executable and that of a directory.
- In `Output` a symbol is one byte. A character of several bytes is printed or
  escaped byte by byte, so a flush inside it is a flush between symbols.

## 7. Plan

Done, in this order: `Campaign` with its abstraction and proofs, `Execution`,
`LocalActions`, `ActionTags`, `Coverage`, `Compatibility`, `Planning`; then
`Discovery` with `Targets`, `Document`, `Admission` and `Output`.

Theorems: all safety properties of these but `LimitsAreReached`, which would need the
sets of entries read, limit by limit.
