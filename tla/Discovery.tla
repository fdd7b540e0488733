----------------------------- MODULE Discovery ------------------------------
(***************************************************************************)
(* Repository discovery (src/goverify/discovery.go): a bounded walk of the *)
(* repository from its root, one go command per module found, validation   *)
(* of the modules and the assignment of each Go file to a module.  The     *)
(* repository belongs to the caller and may change at any step.            *)
(*                                                                         *)
(* A path is the sequence of its names; the root is <<>>.  What a path is  *)
(* depends on its last name alone, and on whether it is a symbolic link.   *)
(* The recursion of walk is the sequence pending: the entries, in the      *)
(* order of their directories' snapshots, that are still to be visited.    *)
(***************************************************************************)
EXTENDS Integers, FiniteSets, SequencesExt, FiniteSetsExt

CONSTANTS
    Listing,      \* every path but the root, siblings in the order of names
    Class,        \* what a name stands for
    Links,        \* paths that are symbolic links
    Trees,        \* the repositories considered: sets of paths
    MaxChanges,   \* how often a repository changes under discovery
    Workflows,    \* the directory .github/workflows
    Description,  \* go mod edit -json: directory -> path, version, tools, replace
    Toolchain,    \* the root module's toolchain
    MaxEntries, MaxModules, MaxSources, MaxSourceBytes

Paths == ToSet(Listing)
Names == DOMAIN Class
Kinds == {"skipped", "hidden", "directory", "module", "linter", "code", "test",
          "shell", "workflow", "other"}
Directories == {<<>>} \union
    {p \in Paths : p \notin Links /\ Class[Last(p)] \in {"skipped", "hidden", "directory"}}

\* What is above a path that exists is a directory that exists.
Closed(S) ==
    \A p \in S : \A n \in 1 .. Len(p) - 1 : SubSeq(p, 1, n) \in S \intersect Directories

\* Every go.mod there may be has a description.
ASSUME DiscoveryAssumption ==
    /\ Listing \in Seq(Seq(Names) \ {<<>>}) /\ IsInjective(Listing)
    /\ Names \subseteq STRING /\ \A n \in Names : Class[n] \in Kinds
    /\ \A S \in Trees : S \subseteq Paths /\ Closed(S)
    /\ Workflows \in Seq(Names) /\ \A i \in DOMAIN Workflows : Class[Workflows[i]] # "skipped"
    /\ {Front(p) : p \in {q \in Paths \ Links : Class[Last(q)] = "module"}}
         \subseteq DOMAIN Description
    /\ \A d \in DOMAIN Description :
        Description[d] \in [path : Seq(STRING), version : Nat, tools : BOOLEAN, replace : BOOLEAN]
    /\ {MaxChanges, MaxEntries, MaxModules, MaxSources, MaxSourceBytes, Toolchain} \subseteq Nat

VARIABLES
    present,    \* the paths that exist
    stable,     \* the paths that have existed all along
    seen,       \* the paths that have ever existed
    changes,    \* how often the repository has changed
    ended,      \* the caller's context has ended
    phase,
    pending,    \* the entries still to be visited
    entries,    \* how many entries have been read
    modules,    \* the modules in the order found
    inspected,  \* how many of them have been described
    goFiles, shellFiles, workflowFiles,
    linterConfig,   \* a path, or <<>> for none
    refusal     \* why the repository was refused

tree == <<present, stable, seen, changes>>
walked == <<pending, entries>>
found == <<modules, inspected, goFiles, shellFiles, workflowFiles, linterConfig>>
discoveryVars == <<tree, ended, phase, walked, found, refusal>>

Kind(p) == Class[Last(p)]
Below(d, p) == d # p /\ IsPrefix(d, p)
None == "none"

DiscoveryInit ==
    /\ present \in Trees
    /\ stable = present /\ seen = present /\ changes = 0
    /\ ended = FALSE
    /\ phase = "walk"
    /\ pending = << <<>> >>
    /\ entries = 0
    /\ modules = <<>> /\ inspected = 0
    /\ goFiles = {} /\ shellFiles = {} /\ workflowFiles = {}
    /\ linterConfig = <<>>
    /\ refusal = None

-----------------------------------------------------------------------------
(* Environment *)

Final == phase \in {"done", "rejected"}

Replace(S) ==
    /\ ~Final
    /\ changes < MaxChanges
    /\ changes' = changes + 1
    /\ present' = S
    /\ stable' = stable \intersect S
    /\ seen' = seen \union S

Create(p) ==
    /\ p \notin present /\ Front(p) \in {<<>>} \union (present \intersect Directories)
    /\ Replace(present \union {p})

Delete(p) ==
    /\ p \in present
    /\ Replace({q \in present : ~IsPrefix(p, q)})

EndContext == ~Final /\ ~ended /\ ended' = TRUE

-----------------------------------------------------------------------------
(* The walk *)

Refuse(why) == phase' = "rejected" /\ refusal' = why

\* readBoundedDirectory: the entries of d as they are now, sorted by name, unless
\* there are more of them than remain.
Entries(d) ==
    FlattenSeq([i \in DOMAIN Listing |->
        IF Listing[i] \in present /\ Front(Listing[i]) = d THEN <<Listing[i]>> ELSE <<>>])

\* Mutant: the last entry that remains is not for use.
ReadableBelow(d) == Len(Entries(d)) < MaxEntries - entries

Readable(d) == Len(Entries(d)) <= MaxEntries - entries

Exists(d) == d = <<>> \/ d \in present

ContainsModule(listed) ==
    \E i \in DOMAIN listed : Kind(listed[i]) = "module" /\ listed[i] \notin Links

\* A module in directory d and what its go.mod says, nothing before it is read.
Module(d, path, version) ==
    [directory |-> d, path |-> path, version |-> version, packages |-> FALSE, production |-> FALSE]

\* walk: a directory is noticed as a module when it is read, before its entries.
ReadDirectory(d) ==
    /\ Readable(d)
    /\ entries' = entries + Len(Entries(d))
    /\ pending' = Entries(d) \o Tail(pending)
    /\ \/ /\ ~ContainsModule(Entries(d))
          /\ UNCHANGED <<modules, phase, refusal>>
       \/ /\ ContainsModule(Entries(d)) /\ Len(modules) < MaxModules
          /\ modules' = Append(modules, Module(d, <<>>, 0))
          /\ UNCHANGED <<phase, refusal>>
       \/ /\ ContainsModule(Entries(d)) /\ Len(modules) = MaxModules
          /\ Refuse("modules")
          /\ UNCHANGED modules
    /\ UNCHANGED <<inspected, goFiles, shellFiles, workflowFiles, linterConfig>>

Unreadable(d) ==
    /\ ~Readable(d)
    /\ Refuse("entries")
    /\ UNCHANGED <<walked, found>>

\* Mutant: a hidden directory is not walked.
IgnoredHidden(p) == p # <<>> /\ Kind(p) \in {"skipped", "hidden"}

\* .github is the one hidden directory that is walked.
Ignored(p) == p # <<>> /\ Kind(p) = "skipped"

VisitDirectory ==
    LET d == Head(pending) IN
    /\ d \in Directories
    /\ \/ /\ Ignored(d)
          /\ pending' = Tail(pending)
          /\ UNCHANGED <<entries, found, phase, refusal>>
       \/ ~Ignored(d) /\ ~Exists(d) /\ Refuse("missing") /\ UNCHANGED <<walked, found>>
       \/ ~Ignored(d) /\ Exists(d) /\ (ReadDirectory(d) \/ Unreadable(d))

\* addRepositorySource: a path is as long as it has names.
Length(p) == Len(p)
Fits(files, p) ==
    /\ Length(p) <= MaxSourceBytes - MapThenSumSet(Length, files)
    /\ Cardinality(files) # MaxSources

IsWorkflow(p) == Front(p) = Workflows /\ Kind(p) = "workflow"

\* addSourceFile.  Each kind of file has its own list; a test is a Go file too.
AddFile(p) ==
    /\ linterConfig' = IF Front(p) = <<>> /\ Kind(p) = "linter" THEN p ELSE linterConfig
    /\ goFiles' = IF Kind(p) \in {"code", "test"} THEN goFiles \union {p} ELSE goFiles
    /\ shellFiles' = IF Kind(p) = "shell" THEN shellFiles \union {p} ELSE shellFiles
    /\ workflowFiles' = IF IsWorkflow(p) THEN workflowFiles \union {p} ELSE workflowFiles

Refused(p) ==
    CASE p \in Links                                           -> "link"
      [] Front(p) = <<>> /\ Kind(p) = "linter" /\ linterConfig # <<>> -> "linter"
      [] Kind(p) = "shell" /\ ~Fits(shellFiles, p)             -> "sources"
      [] IsWorkflow(p) /\ ~Fits(workflowFiles, p)              -> "sources"
      [] OTHER                                                 -> None

VisitFile ==
    LET p == Head(pending) IN
    /\ p \notin Directories
    /\ \/ /\ Refused(p) = None
          /\ AddFile(p)
          /\ pending' = Tail(pending)
          /\ UNCHANGED <<entries, modules, inspected, phase, refusal>>
       \/ Refused(p) # None /\ Refuse(Refused(p)) /\ UNCHANGED <<walked, found>>

Visit ==
    /\ phase = "walk" /\ pending # <<>> /\ ~ended
    /\ VisitDirectory \/ VisitFile
    /\ UNCHANGED <<tree, ended>>

\* discoverRepositoryFiles: the root is a module and the linter is configured.
ValidLayout ==
    modules # <<>> /\ modules[1].directory = <<>> /\ linterConfig # <<>>

EndWalk ==
    /\ phase = "walk" /\ pending = <<>>
    /\ \/ ValidLayout /\ phase' = "inspect" /\ UNCHANGED refusal
       \/ ~ValidLayout /\ Refuse("layout")
    /\ UNCHANGED <<tree, ended, walked, found>>

-----------------------------------------------------------------------------
(* The modules *)

IsModule(d) == \E p \in present \ Links : Front(p) = d /\ Kind(p) = "module"

\* The go command works on the nearest go.mod upwards of its directory.
Governing(d) == {n \in 0 .. Len(d) : IsModule(SubSeq(d, 1, n))}
Governed(d) == Governing(d) # {}

\* inspectRepositoryModule: go mod edit reads go.mod as it is now.
InspectModule ==
    /\ phase = "inspect" /\ inspected < Len(modules) /\ ~ended
    /\ LET d == modules[inspected + 1].directory
           read == Description[SubSeq(d, 1, Max(Governing(d)))]
       IN \/ /\ Exists(d) /\ Governed(d) /\ ~(read.tools /\ read.replace)
             /\ modules' = [modules EXCEPT ![inspected + 1] = Module(d, read.path, read.version)]
             /\ inspected' = inspected + 1
             /\ UNCHANGED <<phase, refusal>>
          \/ /\ Exists(d) /\ Governed(d) /\ read.tools /\ read.replace
             /\ Refuse("module")
             /\ UNCHANGED <<modules, inspected>>
          \/ /\ ~(Exists(d) /\ Governed(d))
             /\ Refuse("missing")
             /\ UNCHANGED <<modules, inspected>>
    /\ UNCHANGED <<tree, ended, walked, goFiles, shellFiles, workflowFiles, linterConfig>>

\* Mutant: two modules may have one path.
ValidVersions == \A i \in DOMAIN modules : modules[i].version <= Toolchain

\* validateRepositoryModules
ValidModules ==
    \A i \in DOMAIN modules :
        /\ modules[i].version <= Toolchain
        /\ \A j \in 1 .. i - 1 : modules[j].path # modules[i].path

ValidateModules ==
    /\ phase = "inspect" /\ inspected = Len(modules)
    /\ \/ ValidModules /\ phase' = "classify" /\ UNCHANGED refusal
       \/ ~ValidModules /\ Refuse("module")
    /\ UNCHANGED <<tree, ended, walked, found>>

\* Mutant: the shortest directory, which is the root's.
OwnerShortest(p) ==
    CHOOSE i \in DOMAIN modules : modules[i].directory = <<>>

\* repositoryFileModule: the longest directory that is a prefix; the root has none.
Owner(p) ==
    CHOOSE i \in DOMAIN modules :
        /\ Below(modules[i].directory, p)
        /\ \A j \in DOMAIN modules :
            Below(modules[j].directory, p) =>
                Length(modules[j].directory) <= Length(modules[i].directory)

\* The context is looked at once for each file.
ClassifyPackages ==
    /\ phase = "classify" /\ (ended => goFiles = {})
    /\ modules' = [i \in DOMAIN modules |->
         [modules[i] EXCEPT
            !.packages = \E p \in goFiles : Owner(p) = i,
            !.production = \E p \in goFiles : Owner(p) = i /\ Kind(p) = "code"]]
    /\ phase' = "discovered"
    /\ UNCHANGED <<tree, ended, walked, inspected, goFiles, shellFiles, workflowFiles,
                   linterConfig, refusal>>

DiscoveryNext == Visit \/ EndWalk \/ InspectModule \/ ValidateModules \/ ClassifyPackages
=============================================================================
