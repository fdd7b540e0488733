----------------------------- MODULE Admission ------------------------------
(***************************************************************************)
(* Plan admission (src/validate.go) as Execute calls it (src/execute.go):  *)
(* the aggregate limits, then every control of every profile, each name of *)
(* an executable and each directory looked up once, and the profile to     *)
(* run.  The plan is the caller's; the file system and the caller's        *)
(* context may change between any two looks.                               *)
(*                                                                         *)
(* Of a control's command the model keeps its executable, its directory,   *)
(* its size, and its flaw: what is wrong with its bounds, which are        *)
(* checked first, or its arguments and environment, checked last.          *)
(***************************************************************************)
EXTENDS Integers, SequencesExt

CONSTANTS
    Plans,       \* sequences of profiles, see PlanProfile below
    IdBytes,     \* bytes of the plan's own identity
    Selected,    \* the profile to run
    Names,       \* names of executables
    Directories, \* directories other than the root
    Files,       \* the files a name may resolve to
    MaxChanges,  \* how often the file system changes
    MaxProfiles, MaxControls, MaxPlanControls, MaxPlanBytes

CONSTANTS Root, NoFile

Control == [id : STRING, bytes : Nat, flaw : {"none", "bounds", "strings"},
            executable : Names, directory : Directories \union {Root}]
PlanProfile == [id : STRING, bytes : Nat, valid : BOOLEAN, controls : Seq(Control)]

ASSUME AdmissionAssumption ==
    /\ Plans \subseteq Seq(PlanProfile)
    /\ NoFile \notin Files /\ Root \notin Directories
    /\ {IdBytes, MaxChanges, MaxProfiles, MaxControls} \subseteq Nat
    /\ {MaxPlanControls, MaxPlanBytes} \subseteq Nat \ {0}

VARIABLES
    plan,        \* never changes
    resolves,    \* resolves[n]: what name n resolves to now
    standing,    \* the directories that exist now
    changes,     \* how often the file system has changed
    resolved, stood,  \* what has ever resolved or stood: a history
    parent,      \* error of the caller's context, "live" while it has none
    step,
    at, control, \* the profile and the control being admitted
    profiles, controls,      \* identities seen
    executables, directories, \* the caches
    admitted,    \* the profiles admitted: sequences of [file, directory]
    cause,       \* why admission failed
    state, err   \* what Execute returns

environment == <<resolves, standing, changes, resolved, stood, parent>>
seen == <<profiles, controls>>
caches == <<executables, directories>>
position == <<at, control>>
result == <<cause, state, err>>
vars == <<plan, environment, step, position, seen, caches, admitted, result>>

Places == Directories \union {Root}
Looks(r) == {<<n, r[n]>> : n \in Names}

Init ==
    /\ plan \in Plans
    /\ resolves \in [Names -> Files \union {NoFile}]
    /\ standing \in SUBSET Places
    /\ changes = 0
    /\ resolved = Looks(resolves)
    /\ stood = {<<d, d \in standing>> : d \in Places}
    /\ parent = "live"
    /\ step = "plan"
    /\ at = 1 /\ control = 1
    /\ profiles = {} /\ controls = {}
    /\ executables = [n \in Names |-> NoFile]
    /\ directories = {Root}
    /\ admitted = <<>>
    /\ cause = "none" /\ state = "pass" /\ err = {}

-----------------------------------------------------------------------------
(* Environment *)

Final == step \in {"header", "returned"}

EndContext ==
    /\ ~Final /\ parent = "live"
    /\ parent' \in {"canceled", "deadline"}
    /\ UNCHANGED <<plan, resolves, standing, changes, resolved, stood, step, position, seen,
                   caches, admitted, result>>

ChangeFiles ==
    /\ ~Final /\ changes < MaxChanges
    /\ changes' = changes + 1
    /\ \/ /\ \E n \in Names, f \in Files \union {NoFile} :
              resolves' = [resolves EXCEPT ![n] = f]
          /\ resolves' # resolves
          /\ UNCHANGED standing
       \/ /\ \E d \in Places :
              standing' = (standing \ {d}) \union ({d} \ standing)
          /\ UNCHANGED resolves
    /\ resolved' = resolved \union Looks(resolves')
    /\ stood' = stood \union {<<d, d \in standing'>> : d \in Places}
    /\ UNCHANGED <<plan, parent, step, position, seen, caches, admitted, result>>

-----------------------------------------------------------------------------
(* The limits on the whole plan *)

\* Mutant: the controls of earlier profiles are forgotten.
AddControlForgetful(sum, c) ==
    IF sum.valid /\ c.bytes <= MaxPlanBytes - sum.bytes
    THEN [sum EXCEPT !.bytes = c.bytes]
    ELSE [sum EXCEPT !.valid = FALSE]

\* validPlanAggregate counts down what is left, so that no sum can overflow.
AddControl(sum, c) ==
    IF sum.valid /\ c.bytes <= MaxPlanBytes - sum.bytes
    THEN [sum EXCEPT !.bytes = @ + c.bytes]
    ELSE [sum EXCEPT !.valid = FALSE]

AddProfile(sum, profile) ==
    IF /\ sum.valid
       /\ profile.bytes <= MaxPlanBytes - sum.bytes
       /\ Len(profile.controls) <= MaxPlanControls - sum.controls
    THEN FoldLeft(AddControl,
                  [sum EXCEPT !.bytes = @ + profile.bytes,
                              !.controls = @ + Len(profile.controls)],
                  profile.controls)
    ELSE [sum EXCEPT !.valid = FALSE]

Aggregate == FoldLeft(AddProfile, [valid |-> TRUE, bytes |-> IdBytes, controls |-> 0], plan)
ValidAggregate == Aggregate.valid /\ Aggregate.controls # 0
ValidHeader == plan # <<>> /\ Len(plan) <= MaxProfiles

-----------------------------------------------------------------------------
(* Admission *)

Reject(why) ==
    /\ step' = "rejected" /\ cause' = why
    /\ UNCHANGED <<plan, environment, position, seen, caches, admitted, state, err>>

GoTo(next) == step' = next /\ UNCHANGED <<plan, environment, result>>

CheckPlan ==
    /\ step = "plan"
    /\ \/ /\ ValidHeader /\ ValidAggregate
          /\ GoTo("root") /\ UNCHANGED <<position, seen, caches, admitted>>
       \/ ~(ValidHeader /\ ValidAggregate) /\ Reject("plan")

CheckRoot ==
    /\ step = "root"
    /\ \/ Root \in standing /\ GoTo("profile") /\ UNCHANGED <<position, seen, caches, admitted>>
       \/ Root \notin standing /\ Reject("directory")

Profile == plan[at]
Command == Profile.controls[control]

\* admitProfile, up to its loop; the context is looked at first.
ValidProfile ==
    /\ Profile.valid /\ Profile.id \notin profiles
    /\ Profile.controls # <<>> /\ Len(Profile.controls) <= MaxControls

EnterProfile ==
    /\ step = "profile" /\ at <= Len(plan)
    /\ \/ /\ parent = "live" /\ ValidProfile
          /\ profiles' = profiles \union {Profile.id}
          /\ controls' = {}
          /\ control' = 1
          /\ admitted' = Append(admitted, <<>>)
          /\ GoTo("control") /\ UNCHANGED <<at, caches>>
       \/ parent = "live" /\ ~ValidProfile /\ Reject("plan")
       \/ parent # "live" /\ Reject("cancelled")

\* admitControl: its identity, its display name and the bounds of its command.
EnterControl ==
    /\ step = "control" /\ control <= Len(Profile.controls)
    /\ \/ /\ parent = "live" /\ Command.id \notin controls /\ Command.flaw # "bounds"
          /\ controls' = controls \union {Command.id}
          /\ GoTo("executable") /\ UNCHANGED <<position, profiles, caches, admitted>>
       \/ /\ parent = "live" /\ (Command.id \in controls \/ Command.flaw = "bounds")
          /\ Reject("plan")
       \/ parent # "live" /\ Reject("cancelled")

\* Mutant: the cache is never read.
KnownNever(n) == FALSE

Known(n) == executables[n] # NoFile

Resolve ==
    /\ step = "executable"
    /\ LET n == Command.executable IN
       \/ /\ Known(n)
          /\ GoTo("directory") /\ UNCHANGED <<position, seen, caches, admitted>>
       \/ /\ ~Known(n) /\ resolves[n] # NoFile
          /\ executables' = [executables EXCEPT ![n] = resolves[n]]
          /\ GoTo("directory") /\ UNCHANGED <<position, seen, directories, admitted>>
       \/ ~Known(n) /\ resolves[n] = NoFile /\ Reject("executable")

\* admittedDirectoryCached, then the strings, and the control is admitted.
EnterDirectory ==
    /\ step = "directory"
    /\ LET d == Command.directory
           one == [file |-> executables[Command.executable], directory |-> d]
       IN \/ /\ d \in directories \union standing /\ Command.flaw # "strings"
             /\ directories' = directories \union {d}
             /\ admitted' = [admitted EXCEPT ![at] = Append(@, one)]
             /\ control' = control + 1
             /\ GoTo("control") /\ UNCHANGED <<at, seen, executables>>
          \/ d \in directories \union standing /\ Command.flaw = "strings" /\ Reject("plan")
          \/ d \notin directories \union standing /\ Reject("directory")

LeaveProfile ==
    /\ step = "control" /\ control > Len(Profile.controls)
    /\ at' = at + 1
    /\ GoTo("profile") /\ UNCHANGED <<control, seen, caches, admitted>>

-----------------------------------------------------------------------------
(* What Execute makes of it *)

Return(s, e) == step' = "returned" /\ state' = s /\ err' = e

\* Mutant: the context is not looked at again.
FailOnce ==
    /\ step = "rejected"
    /\ IF cause = "cancelled" THEN Return("cancelled", {"ErrCancelled", parent})
       ELSE Return("invocation_error", {"ErrInvalidPlan"})
    /\ UNCHANGED <<plan, environment, position, seen, caches, admitted, cause>>

\* Whatever failed, a context that has ended by now decides.
Fail ==
    /\ step = "rejected"
    /\ IF parent # "live" THEN Return("cancelled", {"ErrCancelled", parent})
       ELSE Return("invocation_error", {"ErrInvalidPlan"})
    /\ UNCHANGED <<plan, environment, position, seen, caches, admitted, cause>>

\* selectedProfile
Select ==
    /\ step = "profile" /\ at > Len(plan)
    /\ \/ /\ Selected \in profiles
          /\ step' = "header"
          /\ UNCHANGED <<state, err>>
       \/ /\ Selected \notin profiles
          /\ Return("invocation_error", {"ErrInvocation", "ErrInvalidPlan"})
    /\ UNCHANGED <<plan, environment, position, seen, caches, admitted, cause>>

Step ==
    \/ CheckPlan \/ CheckRoot
    \/ EnterProfile \/ EnterControl \/ Resolve \/ EnterDirectory \/ LeaveProfile
    \/ Fail \/ Select

Next == ChangeFiles \/ EndContext \/ Step \/ (Final /\ UNCHANGED vars)

Spec == Init /\ [][Next]_vars
=============================================================================
