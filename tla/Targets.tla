------------------------------ MODULE Targets -------------------------------
(***************************************************************************)
(* Fuzz and benchmark targets (src/goverify/fuzz.go), found in the modules *)
(* that Discovery has just found.  For each module the go command lists    *)
(* the test files it would build; then the module's directories are walked *)
(* and each listed file is read.  The listing and the walk are two looks   *)
(* at a repository that may change between them and since discovery.       *)
(***************************************************************************)
EXTENDS Discovery

CONSTANTS
    Excluded,     \* test files that build constraints exclude
    Fuzz,         \* Fuzz[p]: the fuzz targets that test file p declares
    Benchmarks,   \* Benchmarks[p]: the benchmarks it declares
    Size,         \* Size[p]: its bytes
    MaxFuzzEntries, MaxTotalBytes, MaxTargets

ASSUME TargetsAssumption ==
    /\ \A p \in Paths : Fuzz[p] \in Seq(STRING) /\ Benchmarks[p] \in Seq(STRING)
                         /\ Size[p] \in Nat
    /\ {MaxFuzzEntries, MaxTotalBytes, MaxTargets} \subseteq Nat

VARIABLES
    turn,       \* the module whose targets are being found
    active,     \* the listed files that have not been read yet
    listings,   \* the modules listed so far and the files listed for each
    bytes,      \* how many bytes have been read
    targets,    \* the fuzz targets in the order found
    benchmarks  \* the benchmarks in the order found

results == <<targets, benchmarks>>
searchVars == <<turn, active, listings, bytes, results>>
targetsVars == <<discoveryVars, searchVars>>

TargetsInit ==
    /\ DiscoveryInit
    /\ turn = 0 /\ active = {} /\ listings = <<>> /\ bytes = 0
    /\ targets = <<>> /\ benchmarks = <<>>

-----------------------------------------------------------------------------
(* The go command *)

\* go list ./... in d: the test files below d that belong to the module of d and
\* that constraints do not exclude.  Hidden directories and nested modules are
\* other modules' business.
GoList(d) ==
    {p \in present \ Excluded :
        /\ Below(d, p) /\ Kind(p) = "test"
        /\ \A i \in Len(d) + 1 .. Len(p) - 1 :
            /\ Class[p[i]] = "directory"
            /\ SubSeq(p, 1, i) \notin Links
            /\ ~IsModule(SubSeq(p, 1, i))}

-----------------------------------------------------------------------------
Directory == modules[turn].directory

\* The modules with packages, one after the other; there must be one.
NextModule ==
    /\ \/ phase = "discovered"
       \/ phase = "search" /\ pending = <<>> /\ active = {}
    /\ \E i \in turn + 1 .. Len(modules) :
        /\ modules[i].packages
        /\ \A j \in turn + 1 .. i - 1 : ~modules[j].packages
        /\ turn' = i
    /\ entries' = IF phase = "discovered" THEN 0 ELSE entries
    /\ phase' = "list"
    /\ UNCHANGED <<tree, ended, pending, found, refusal, active, listings, bytes, results>>

NoModules ==
    /\ phase = "discovered"
    /\ \A i \in DOMAIN modules : ~modules[i].packages
    /\ Refuse("packages")
    /\ UNCHANGED <<tree, ended, walked, found, searchVars>>

\* activeTestFiles, then the walk of the module from its own directory.
ListFiles ==
    /\ phase = "list" /\ ~ended
    /\ \/ /\ Exists(Directory) /\ Governed(Directory)
          /\ active' = GoList(Directory)
          /\ listings' = Append(listings, [module |-> turn, files |-> GoList(Directory)])
          /\ pending' = <<Directory>>
          /\ phase' = "search"
          /\ UNCHANGED <<refusal, entries>>
       \/ /\ ~(Exists(Directory) /\ Governed(Directory))
          /\ Refuse("missing")
          /\ UNCHANGED <<walked, active, listings>>
    /\ UNCHANGED <<tree, ended, found, turn, bytes, results>>

\* walkDirectory: a directory with its own go.mod is another module's.
Nested(d) == d # Directory /\ ContainsModule(Entries(d))

\* Mutant: the name of the module's own directory is looked at too.
IgnoredGoAlways(d) == d # <<>> /\ Kind(d) \in {"skipped", "hidden"}

IgnoredGo(d) == d # Directory /\ Kind(d) \in {"skipped", "hidden"}

SearchDirectory ==
    /\ Head(pending) \in Directories
    /\ LET d == Head(pending)
           unread == Len(Entries(d)) > MaxFuzzEntries - entries
       IN \/ /\ IgnoredGo(d)
             /\ pending' = Tail(pending)
             /\ UNCHANGED <<entries, phase, refusal>>
          \/ /\ ~IgnoredGo(d) /\ ~Exists(d) /\ Refuse("missing")
             /\ UNCHANGED walked
          \/ /\ ~IgnoredGo(d) /\ Exists(d) /\ unread /\ Refuse("entries")
             /\ UNCHANGED walked
          \/ /\ ~IgnoredGo(d) /\ Exists(d) /\ ~unread
             /\ entries' = entries + Len(Entries(d))
             /\ pending' = (IF Nested(d) THEN <<>> ELSE Entries(d)) \o Tail(pending)
             /\ UNCHANGED <<phase, refusal>>
    /\ UNCHANGED <<active, bytes, results>>

\* targetPackage, and what identifies a target in it.
Package(p) == modules[turn].path \o SubSeq(Front(p), Len(Directory) + 1, Len(p) - 1)
Identity(p, name) == Append(Package(p), name)

Target(p, name) == [module |-> modules[turn].path, identity |-> Identity(p, name)]
Declared(p, names) == [i \in DOMAIN names |-> Target(p, names[i])]

\* addTestTarget for each name that a file declares.
Distinct(list) == \A i, j \in DOMAIN list : i # j => list[i].identity # list[j].identity

\* inspectFile: a file that is not listed is skipped; a listed one is read once.
SearchFile ==
    /\ Head(pending) \notin Directories
    /\ LET p == Head(pending)
           fuzz == targets \o Declared(p, Fuzz[p])
           bench == benchmarks \o Declared(p, Benchmarks[p])
           problem ==
             CASE p \notin present                          -> "missing"
               [] bytes + Size[p] > MaxTotalBytes           -> "bytes"
               [] Len(fuzz) > MaxTargets \/ Len(bench) > MaxTargets -> "targets"
               [] ~Distinct(fuzz) \/ ~Distinct(bench)       -> "duplicate"
               [] OTHER                                     -> None
       IN \/ p \in Links /\ Refuse("link") /\ UNCHANGED <<walked, active, bytes, results>>
          \/ /\ p \notin Links /\ p \notin active
             /\ pending' = Tail(pending)
             /\ UNCHANGED <<entries, phase, refusal, active, bytes, results>>
          \/ /\ p \notin Links /\ p \in active /\ problem # None
             /\ Refuse(problem)
             /\ UNCHANGED <<walked, active, bytes, results>>
          \/ /\ p \notin Links /\ p \in active /\ problem = None
             /\ active' = active \ {p}
             /\ bytes' = bytes + Size[p]
             /\ targets' = fuzz /\ benchmarks' = bench
             /\ pending' = Tail(pending)
             /\ UNCHANGED <<entries, phase, refusal>>

Search ==
    /\ phase = "search" /\ pending # <<>> /\ ~ended
    /\ SearchDirectory \/ SearchFile
    /\ UNCHANGED <<tree, ended, found, turn, listings>>

\* Mutant: files that were listed and not seen are forgotten.
UnreadForgotten ==
    /\ phase = "search" /\ pending = <<>> /\ active # {}
    /\ active' = {}
    /\ UNCHANGED <<discoveryVars, turn, listings, bytes, results>>

\* A listed file that the walk did not see.
Unread ==
    /\ phase = "search" /\ pending = <<>> /\ active # {}
    /\ Refuse("listing")
    /\ UNCHANGED <<tree, ended, walked, found, searchVars>>

\* The last module; the targets are sorted by module, package and name, an order
\* that depends on the text of paths and is left out.
Finish ==
    /\ phase = "search" /\ pending = <<>> /\ active = {} /\ ~ended
    /\ \A i \in turn + 1 .. Len(modules) : ~modules[i].packages
    /\ phase' = "done"
    /\ UNCHANGED <<tree, ended, walked, found, refusal, searchVars>>

\* Any step may fail, and the next look at an ended context does.
Fail ==
    /\ ~Final
    /\ Refuse(IF ended THEN "cancelled" ELSE "failed")
    /\ UNCHANGED <<tree, ended, walked, found, searchVars>>

-----------------------------------------------------------------------------
Environment ==
    \/ \E p \in Paths : (Create(p) \/ Delete(p)) /\ UNCHANGED ended
    \/ EndContext /\ UNCHANGED tree

Discover == DiscoveryNext /\ UNCHANGED searchVars
Find == NextModule \/ NoModules \/ ListFiles \/ Search \/ Unread \/ Finish

TargetsNext ==
    \/ Environment /\ UNCHANGED <<phase, walked, found, refusal, searchVars>>
    \/ Discover
    \/ Find
    \/ Fail
    \/ Final /\ UNCHANGED targetsVars

TargetsSpec == TargetsInit /\ [][TargetsNext]_targetsVars
=============================================================================
