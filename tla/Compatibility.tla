--------------------------- MODULE Compatibility ----------------------------
(***************************************************************************)
(* The compatibility profile: from the modules of a repository and its     *)
(* toolchain to the Go versions its tests run with                         *)
(* (src/goverify/discovery.go) and the controls that run them              *)
(* (src/goverify/repository.go).                                           *)
(*                                                                         *)
(* A stable Go version is the sequence of its two or three components:     *)
(* "1.24" is <<1, 24>>.  With a prerelease among them goVersionParts finds *)
(* no parts and there are no candidates, as for unequal major versions.    *)
(***************************************************************************)
EXTENDS Integers, Sequences, SequencesExt

CONSTANTS
    Versions,   \* go directives considered
    Toolchains, \* toolchains considered
    Modules     \* how many modules a repository has; 1 is the root

\* version.Compare(v, w) < 0 from Go 1.21 on, where a language version precedes
\* its first release.
Earlier(v, w) ==
    \/ \E i \in DOMAIN v \intersect DOMAIN w :
        v[i] < w[i] /\ \A j \in 1 .. i - 1 : v[j] = w[j]
    \/ Len(v) < Len(w) /\ IsPrefix(v, w)

NotAfter(v, w) == v = w \/ Earlier(v, w)

\* A missing patch component is zero in goVersionParts.
Part(v, i) == IF i <= Len(v) THEN v[i] ELSE 0

ASSUME CompatibilityAssumption ==
    /\ \A v \in Versions \union Toolchains :
        v \in Seq(Nat) /\ Len(v) \in {2, 3} /\ ~Earlier(v, <<1, 21>>)
    /\ Modules \in Nat \ {0}

VARIABLES
    module,      \* module[i]: its go directive and whether it has packages
    toolchain,   \* the root module's
    stage,
    minor,       \* the next minor version to consider
    candidates,  \* the versions chosen so far
    scope,       \* the next module to consider for the first pending candidate
    controls     \* <<version, module>> tests, <<version, 0>> toolchain checks

compatibilityVars == <<module, toolchain, stage, minor, candidates, scope, controls>>

\* A validated inventory: no module asks for more than the toolchain.
CompatibilityInit ==
    /\ toolchain \in Toolchains
    /\ module \in [1 .. Modules -> [go : {v \in Versions : NotAfter(v, toolchain)},
                                    packages : BOOLEAN]]
    /\ stage = "candidates"
    /\ minor = 0
    /\ candidates = <<>>
    /\ scope = 0
    /\ controls = <<>>

-----------------------------------------------------------------------------
(* goCompatibilityVersions *)

Tested == {m \in 1 .. Modules : module[m].packages}

IsMinimum(v) ==
    /\ \E m \in Tested : v = module[m].go
    /\ \A m \in Tested : NotAfter(v, module[m].go)

Comparable(v) ==
    /\ v[1] = toolchain[1]
    /\ v[2] <= toolchain[2]
    /\ v # toolchain

\* No module has packages, or nothing older than the toolchain is supported.
NoCandidates ==
    /\ stage = "candidates"
    /\ candidates = <<>>
    /\ \A m \in Tested : IsMinimum(module[m].go) => ~Comparable(module[m].go)
    /\ stage' = "done"
    /\ UNCHANGED <<module, toolchain, minor, candidates, scope, controls>>

Minors(v) == v[2] .. toolchain[2] - 1

\* The oldest minor runs with the minimum itself when that names a patch.
Candidate(v, m) == IF m = v[2] /\ Part(v, 3) # 0 THEN v ELSE <<v[1], m, 0>>

AddCandidate ==
    /\ stage = "candidates"
    /\ \E v \in Versions :
        /\ IsMinimum(v)
        /\ Comparable(v)
        /\ LET m == IF candidates = <<>> THEN v[2] ELSE minor
           IN /\ m \in Minors(v)
              /\ candidates' = Append(candidates, Candidate(v, m))
              /\ minor' = m + 1
    /\ UNCHANGED <<module, toolchain, stage, scope, controls>>

\* Mutant: a floor in the toolchain's own minor has no version.
MinimumForgotten(v) == candidates

\* A floor in the toolchain's own minor runs with itself.
Completed(v) == IF candidates = <<>> THEN <<v>> ELSE candidates

EndCandidates ==
    /\ stage = "candidates"
    /\ \E v \in Versions :
        /\ IsMinimum(v)
        /\ Comparable(v)
        /\ IF candidates = <<>> THEN Minors(v) = {} ELSE minor \notin Minors(v)
        /\ candidates' = Completed(v)
    /\ stage' = "controls"
    /\ UNCHANGED <<module, toolchain, minor, scope, controls>>

-----------------------------------------------------------------------------
(* repositoryCompatibility's scopes and repositoryCompatibilityControls *)

\* Mutant: every module is a scope of every version.
ScopesAll(v) == Tested

Scopes(v) == {m \in Tested : NotAfter(module[m].go, v)}

\* No scope named means every scope.
Selected(v) == IF Scopes(v) = {} THEN Tested ELSE Scopes(v)

\* The toolchain check of a candidate, then the test of each selected scope.
AddControl ==
    /\ stage = "controls"
    /\ candidates # <<>>
    /\ LET v == Head(candidates)
       IN controls' = IF scope = 0 \/ scope \in Selected(v)
                        THEN Append(controls, <<v, scope>>) ELSE controls
    /\ scope' = (scope + 1) % (Modules + 1)
    /\ candidates' = IF scope = Modules THEN Tail(candidates) ELSE candidates
    /\ UNCHANGED <<module, toolchain, stage, minor>>

EndControls ==
    /\ stage = "controls"
    /\ candidates = <<>>
    /\ stage' = "done"
    /\ UNCHANGED <<module, toolchain, minor, candidates, scope, controls>>

Done == stage = "done" /\ UNCHANGED compatibilityVars

CompatibilityNext == NoCandidates \/ AddCandidate \/ EndCandidates \/ AddControl \/ EndControls \/ Done

CompatibilitySpec == CompatibilityInit /\ [][CompatibilityNext]_compatibilityVars
=============================================================================
