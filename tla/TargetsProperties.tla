------------------------- MODULE TargetsProperties --------------------------
(***************************************************************************)
(* What discovery must guarantee of a repository that changes under it:    *)
(* stable holds what was there all along, seen what was ever there.        *)
(***************************************************************************)
EXTENDS Targets

\* Discovery looks everywhere but below skipped directories; Go, below d, not
\* below hidden ones either.
Visible(p) == \A i \in 1 .. Len(p) - 1 : Class[p[i]] # "skipped"
VisibleToGo(d, p) == \A i \in Len(d) + 1 .. Len(p) - 1 : Class[p[i]] = "directory"

WithModule(S) == {Front(p) : p \in {q \in S \ Links : Kind(q) = "module" /\ Visible(q)}}
OfKind(kinds, S) == {p \in S : Kind(p) \in kinds /\ Visible(p)}

Nearest(dirs, p) ==
    CHOOSE d \in dirs : Below(d, p) /\ \A e \in dirs : Below(e, p) => ~Below(d, e)

Discovered == phase \in {"discovered", "list", "search", "done"}
FoundAt == {modules[i].directory : i \in DOMAIN modules}

\* Discovery accounts for everything that was there all along and for nothing that
\* never was: each module, within the limits, once; each shell and workflow file;
\* and a module has packages, or production sources, when a file of that kind has
\* it as the nearest module upwards.
DiscoveryIsComplete ==
    Discovered =>
        /\ WithModule(stable) \subseteq FoundAt /\ FoundAt \subseteq WithModule(seen)
        /\ Cardinality(FoundAt) = Len(modules) /\ Len(modules) <= MaxModules
        /\ Cardinality({p \in stable : Visible(p)}) <= MaxEntries
        /\ OfKind({"shell"}, stable) \subseteq shellFiles /\ shellFiles \subseteq OfKind({"shell"}, seen)
        /\ {p \in stable : IsWorkflow(p)} \subseteq workflowFiles
        /\ workflowFiles \subseteq {p \in seen : IsWorkflow(p)}
        /\ \A i \in DOMAIN modules :
            LET mine(kinds, S) ==
                  {p \in OfKind(kinds, S) : Nearest(FoundAt, p) = modules[i].directory}
            IN /\ mine({"code", "test"}, stable) # {} => modules[i].packages
               /\ modules[i].packages => mine({"code", "test"}, seen) # {}
               /\ mine({"code"}, stable) # {} => modules[i].production
               /\ modules[i].production => mine({"code"}, seen) # {}

\* The go command describes the module it was asked for.  It works on the nearest
\* go.mod upwards, so where the own one is missing by then it describes another; that
\* is accepted at most for two modules neither of which was there all along.
ModulesAreTheirOwn ==
    Discovered =>
        \A i \in DOMAIN modules : \E d \in WithModule(seen) :
            /\ IsPrefix(d, modules[i].directory)
            /\ modules[i].path = Description[d].path
            /\ modules[i].version = Description[d].version
            /\ d # modules[i].directory =>
                {d, modules[i].directory} \intersect WithModule(stable) = {}

Identities(list) == {list[i].identity : i \in DOMAIN list}
FuzzNames(p) == ToSet(Fuzz[p])

\* No target of an undisturbed file is missed: a test file that was there all
\* along, in a module whose boundaries never moved, is in the inventory under
\* that module's path, whatever else changed during the two walks.
NothingIsMissed ==
    phase = "done" =>
        \A p \in stable \ Excluded, d \in WithModule(stable) :
            /\ Kind(p) = "test" /\ Below(d, p) /\ VisibleToGo(d, p)
            /\ \A e \in WithModule(seen) : Below(e, p) => ~Below(d, e)
            => \A name \in FuzzNames(p) :
                Append(Description[d].path \o SubSeq(Front(p), Len(d) + 1, Len(p) - 1), name)
                    \in Identities(targets)

\* What identifies the fuzz targets of file p in module i; and the files listed, each
\* with the module it was listed for.
IdentitiesIn(i, p) ==
    {Append(modules[i].path \o SubSeq(Front(p), Len(modules[i].directory) + 1, Len(p) - 1), name)
       : name \in FuzzNames(p)}
Listed == UNION {{<<listings[k].module, p>> : p \in listings[k].files} : k \in DOMAIN listings}

\* The inventory is the go command's view: each module with packages is listed once
\* and in order, the targets are those that the listed files declare, each file read
\* once for the module it was listed for, and no two targets have one identity.
TargetsAreListed ==
    phase = "done" =>
        /\ {listings[k].module : k \in DOMAIN listings} = {i \in DOMAIN modules : modules[i].packages}
        /\ \A j, k \in DOMAIN listings : j < k => listings[j].module < listings[k].module
        /\ Identities(targets) = UNION {IdentitiesIn(r[1], r[2]) : r \in Listed}
        /\ \A list \in {targets, benchmarks} : Cardinality(Identities(list)) = Len(list)
        /\ bytes = MapThenSumSet(LAMBDA r : Size[r[2]], Listed)

Count(S) == Cardinality(S)
Shown == {p \in seen : Visible(p)}
Tests == OfKind({"test"}, seen)

\* The reason in the repository for a refusal.
Explained(why) ==
    /\ why = "packages" => OfKind({"code", "test"}, stable) = {}
    /\ why \in {"missing", "listing"} => changes > 0
    /\ why = "link" => seen \intersect Links # {}
    /\ why = "linter" => Count({p \in seen : Len(p) = 1 /\ Kind(p) = "linter"}) > 1
    /\ why = "layout" =>
        \/ <<>> \notin WithModule(stable)
        \/ {p \in stable : Len(p) = 1 /\ Kind(p) = "linter"} = {}
    /\ why = "module" =>
        \E d, e \in WithModule(seen) :
            \/ d # e /\ Description[d].path = Description[e].path
            \/ Description[d].version > Toolchain
            \/ Description[d].tools /\ Description[d].replace
            \/ Below(e, d) /\ d \notin WithModule(stable)
    /\ why = "duplicate" =>
        \E D \in {Fuzz, Benchmarks} : \E p \in Tests : \E i \in DOMAIN D[p] :
            \/ \E q \in Tests \ {p} : D[p][i] \in ToSet(D[q])
            \/ \E j \in DOMAIN D[p] \ {i} : D[p][j] = D[p][i]
            \/ \E j, k \in DOMAIN listings :
                j # k /\ p \in listings[j].files \intersect listings[k].files
    /\ why = "cancelled" => ended

\* Every refusal has its reason in the repository: a missing file, or a disagreement
\* between the listing and the walk, means that the repository changed; what is wrong
\* with the layout, a link, a module or a name is wrong there.  A module whose go.mod
\* goes away meanwhile is described as the one above it, which may be refused as its
\* duplicate; and its files are read for two modules and may be their own duplicates.
RefusalsAreExplained == Explained(refusal)

\* No limit is reached early: the files, modules, bytes and names that ever were
\* exceed it.  The search may read an entry once for each module; while nothing
\* changes, only the entries at the top of a nested module are read twice.
LimitsAreReached ==
    /\ refusal = "entries" /\ turn = 0 => Count(Shown) > MaxEntries
    /\ refusal = "entries" /\ turn > 0 => turn * Count(Shown) > MaxFuzzEntries
    /\ refusal = "entries" /\ turn > 0 /\ changes = 0 =>
        Count(Shown) + Count({p \in seen : Front(p) \in FoundAt \ {<<>>}}) > MaxFuzzEntries
    /\ refusal = "modules" => Count(WithModule(seen)) > MaxModules
    /\ refusal = "sources" =>
        \E files \in {OfKind({"shell"}, seen), {p \in seen : IsWorkflow(p)}} :
            Count(files) > MaxSources \/ MapThenSumSet(Length, files) > MaxSourceBytes
    /\ refusal = "bytes" /\ changes = 0 =>
        MapThenSumSet(LAMBDA p : Size[p], Tests) > MaxTotalBytes
    /\ refusal = "targets" /\ changes = 0 =>
        \E D \in {Fuzz, Benchmarks} :
            MapThenSumSet(LAMBDA p : Len(D[p]), Tests) > MaxTargets
=============================================================================
