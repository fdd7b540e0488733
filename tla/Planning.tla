------------------------------ MODULE Planning ------------------------------
(***************************************************************************)
(* How `secverify <profile>` becomes a plan (src/cmd/secverify/plan.go and *)
(* src/goverify/repository.go): the repository is inspected, the tools the *)
(* profile needs are resolved, the fuzz settings are read, the controls of *)
(* the profile are built in order, and the plan is admitted.               *)
(*                                                                         *)
(* A control is its role, the index its identifier carries, the programs   *)
(* it runs and its timeouts; argument vectors and display names are left   *)
(* out.  Times are whole minutes, as in the source.  A context that ends   *)
(* is one of the reasons why a step that consults it fails.                *)
(***************************************************************************)
EXTENDS Integers, Sequences, FiniteSets, SequencesExt

CONSTANTS
    MaxModules,     \* modules of a repository (bounds the model)
    MaxVersions,    \* older toolchains of the compatibility profile (bound)
    TargetCounts,   \* how many fuzz targets discovery may find (bound)
    Cleanup         \* proctree.MaxCleanupTimeout

ASSUME PlanningAssumption ==
    /\ MaxModules \in Nat \ {0}
    /\ MaxVersions \in Nat
    /\ TargetCounts \subseteq Nat
    /\ Cleanup \in 1 .. 29

ControlTimeout == 5
MaxTimeout == 30
Jobs == 2

Profiles == {"static", "compatibility", "test", "campaign", "fuzz-inventory",
             "benchmark", "all"}

VARIABLES
    inventory,  \* what discovery found
    profile,    \* the profile asked for
    programs,   \* programs resolved so far
    fuzz,       \* the fuzz settings: "unread", "unusable" or "usable"
    extra,      \* ExtraStatic: the shell and workflow controls
    pc,         \* the step of repositoryConfigurationWith to take next
    targets,    \* fuzz targets found while the profile was built
    outcome     \* what planning returned

planningVars == <<inventory, profile, programs, fuzz, extra, pc, targets, outcome>>

-----------------------------------------------------------------------------
(* The repository *)

Modules == {m \in [packages : BOOLEAN, production : BOOLEAN, tools : BOOLEAN] :
              m.production => m.packages}

\* One group after another, for the positions of a sequence.
Concat(n, Group(_)) == FlattenSeq([i \in 1 .. n |-> Group(i)])

\* The test scopes: the modules that have packages, in module order.
Scopes(modules) ==
    Concat(Len(modules), LAMBDA i : IF modules[i].packages THEN <<i>> ELSE <<>>)

\* Every older version lists the scopes whose floor it reaches; a later version
\* reaches at least those.
Compatibilities(modules) ==
    LET scopes == ToSet(Scopes(modules)) IN
    {versions \in SeqOf((SUBSET scopes) \ {{}}, MaxVersions) :
        \A v, w \in DOMAIN versions : v < w => versions[v] \subseteq versions[w]}

Inventories ==
    [modules : SeqOf(Modules, MaxModules) \ {<<>>}, shell : BOOLEAN,
     workflows : BOOLEAN,
     compatibility : SeqOf((SUBSET (1 .. MaxModules)) \ {{}}, MaxVersions)]

-----------------------------------------------------------------------------
(* Timeouts *)

\* InnerTimeout and OuterTimeout: the parent leaves the child time to clean up.
InnerTimeout(requested) ==
    IF requested \in 1 .. MaxTimeout /\ requested > MaxTimeout - Cleanup
      THEN MaxTimeout - Cleanup ELSE requested
OuterTimeout(requested) ==
    IF requested \in 1 .. MaxTimeout THEN InnerTimeout(requested) + Cleanup
                                     ELSE requested

\* Mutant: the last, partial batch is not counted.
FullBatches(count) == count \div Jobs

Batches(count) == (count + Jobs - 1) \div Jobs

\* campaignDeadline, for the zero campaign.Timeout the command line leaves.
CampaignDeadline(count) ==
    IF Batches(count) <= 0 \/ ControlTimeout > MaxTimeout \div Batches(count)
      THEN MaxTimeout
      ELSE ControlTimeout * Batches(count)

-----------------------------------------------------------------------------
(* Controls *)

ExactControl(role, at, tools) ==
    [role |-> role, at |-> at, tools |-> tools, timeout |-> ControlTimeout,
     inner |-> 0, lane |-> 0]

\* This program runs again as a child with a deadline of its own.
Child(role, at, tools, deadline, lane) ==
    [role |-> role, at |-> at, tools |-> tools \union {"self"},
     timeout |-> OuterTimeout(deadline), inner |-> InnerTimeout(deadline),
     lane |-> lane]

Internal(role, at, tools) == Child(role, at, tools, ControlTimeout, 0)

FuzzCampaign(count) ==
    Child("fuzz_campaign", <<>>, {"go"}, CampaignDeadline(count),
          InnerTimeout(ControlTimeout))

Compile(i) == Internal("compile", <<i>>, {"go"})

Preparation(i) == <<ExactControl("tidy", <<i>>, {"go"}),
                    ExactControl("verify", <<i>>, {"go"})>>

\* Mutant: a module without packages has nothing to analyse.
AnalysisOfCode(i) ==
    IF ~inventory.modules[i].packages THEN <<>>
    ELSE <<ExactControl("fix", <<i>>, {"go"}), ExactControl("format", <<i>>, {"linter"}),
           ExactControl("vet", <<i>>, {"go"}), ExactControl("lint", <<i>>, {"linter"}),
           ExactControl("vulnerabilities", <<i>>, {"vulnerability"}), Compile(i)>>

Analysis(i) ==
    LET module == inventory.modules[i]
        vulnerabilities == ExactControl("vulnerabilities", <<i>>, {"vulnerability"}) IN
    IF module.packages
      THEN <<ExactControl("fix", <<i>>, {"go"}), ExactControl("format", <<i>>, {"linter"}),
             ExactControl("vet", <<i>>, {"go"}), ExactControl("lint", <<i>>, {"linter"}),
             vulnerabilities, Compile(i)>>
      ELSE IF module.tools THEN <<vulnerabilities>> ELSE <<>>

Count == Len(inventory.modules)
TestScopes == Scopes(inventory.modules)

StaticControls ==
    <<ExactControl("toolchain", <<>>, {"go"}),
      ExactControl("linter_config", <<>>, {"linter"}),
      ExactControl("coverage_self_test", <<>>, {"self"})>>
    \o Concat(Count, Preparation)
    \o <<Internal("dependency_currency", <<>>, {"go"})>>
    \o Concat(Count, Analysis)
    \o extra

\* One toolchain check per version, then the scopes it lists; none lists them all.
VersionControls(v) ==
    <<ExactControl("compatibility_toolchain", <<v>>, {"go"})>>
    \o Concat(Len(TestScopes), LAMBDA s :
         IF \/ inventory.compatibility[v] = {}
            \/ TestScopes[s] \in inventory.compatibility[v]
           THEN <<ExactControl("compatibility_test", <<v, s>>, {"go"})>> ELSE <<>>)

CompatibilityControls ==
    Concat(Len(inventory.compatibility), VersionControls)

ScopeControls(s) ==
    (IF inventory.modules[TestScopes[s]].production
       THEN <<Internal("coverage", <<s>>, {"go"})>> ELSE <<>>)
    \o <<ExactControl("race", <<s>>, {"go"})>>

TestControls == Concat(Len(TestScopes), ScopeControls)

\* Mutant: the preflight compiles the production modules only.
CompilesOfProduction ==
    Concat(Count, LAMBDA i :
        IF inventory.modules[i].production THEN <<Compile(i)>> ELSE <<>>)

\* repositoryTargetCompileControls: every module that has packages.
Compiles ==
    Concat(Count, LAMBDA i :
        IF inventory.modules[i].packages THEN <<Compile(i)>> ELSE <<>>)

FuzzControls(count) == IF count = 0 THEN <<>> ELSE <<FuzzCampaign(count)>>

-----------------------------------------------------------------------------
Pending == [kind |-> "pending", controls |-> <<>>]

PlanningInit ==
    /\ inventory \in {i \in Inventories :
                        i.compatibility \in Compatibilities(i.modules)}
    /\ profile \in Profiles
    /\ programs = {}
    /\ fuzz = "unread"
    /\ extra = <<>>
    /\ pc = "foundation"
    /\ targets = 0
    /\ outcome = Pending

ReturnPlan(kind, controls) ==
    /\ pc' = "returned"
    /\ outcome' = [kind |-> kind, controls |-> controls]

\* A program is not found, discovery or a child command fails, an envelope is
\* too large, or the context has ended.
PlanningFails ==
    /\ pc # "returned"
    /\ ReturnPlan("failed", <<>>)
    /\ UNCHANGED <<inventory, profile, programs, fuzz, extra, targets>>

ResolveTools(tools, next) ==
    /\ programs' = programs \union tools
    /\ pc' = next
    /\ UNCHANGED <<inventory, profile, targets, outcome>>

InspectFoundation ==
    /\ pc = "foundation"
    /\ ResolveTools({"go", "self"}, "analysis")
    /\ UNCHANGED <<fuzz, extra>>

SelectAnalysisTools ==
    /\ pc = "analysis"
    /\ ResolveTools(IF profile \in {"static", "all"} THEN {"linter", "vulnerability"}
                                               ELSE {}, "git")
    /\ UNCHANGED <<fuzz, extra>>

SelectGitTool ==
    /\ pc = "git"
    /\ ResolveTools(IF inventory.workflows /\ profile \in {"static", "all"}
                 THEN {"git"} ELSE {}, "fuzz")
    /\ UNCHANGED <<fuzz, extra>>

\* FUZZTIME and FUZZ_PARALLEL are read for the profiles that fuzz; an
\* unparsable value fails here, an unusable one when the campaign is built.
SelectFuzzCampaign ==
    /\ pc = "fuzz"
    /\ fuzz' \in (IF profile \in {"campaign", "all"} THEN {"unusable", "usable"}
                                                    ELSE {"usable"})
    /\ ResolveTools({}, "static")
    /\ UNCHANGED extra

WorkflowControls ==
    <<ExactControl("workflow_admission", <<>>, {"self"}),
      ExactControl("workflow", <<>>, {"actionlint", "shellcheck"}),
      Internal("workflow_dependencies", <<>>, {"git"})>>

ShellControls ==
    <<ExactControl("shell_syntax", <<>>, {"bash"}),
      ExactControl("shell_analysis", <<>>, {"shellcheck"})>>

SelectStaticControls ==
    /\ pc = "static"
    /\ IF profile \in {"static", "all"}
         THEN /\ extra' = (IF inventory.shell THEN ShellControls ELSE <<>>)
                          \o (IF inventory.workflows THEN WorkflowControls ELSE <<>>)
              /\ ResolveTools((IF inventory.shell THEN {"bash", "shellcheck"} ELSE {})
                         \union (IF inventory.workflows
                                   THEN {"actionlint", "shellcheck"} ELSE {}),
                         "build")
         ELSE /\ ResolveTools({}, "build")
              /\ UNCHANGED extra
    /\ UNCHANGED fuzz

-----------------------------------------------------------------------------
(* RepositoryPlanFor: one action per profile that can be refused in its own way *)

\* verify.Validate: an empty profile or a repeated identifier is refused.
Admit(controls) ==
    ReturnPlan(IF controls # <<>> /\ IsInjective([i \in DOMAIN controls |->
                                   <<controls[i].role, controls[i].at>>])
             THEN "planned" ELSE "invalid", controls)

Building(profiles) ==
    /\ pc = "build"
    /\ profile \in profiles
    /\ UNCHANGED <<inventory, profile, programs, fuzz, extra>>

BuildStatic ==
    /\ Building({"static"})
    /\ Admit(StaticControls)
    /\ UNCHANGED targets

BuildCompatibility ==
    /\ Building({"compatibility"})
    /\ Admit(CompatibilityControls)
    /\ UNCHANGED targets

\* Where the race detector is not supported, tests are unavailable.
BuildTest ==
    /\ Building({"test"})
    /\ \/ Admit(TestControls)
       \/ TestScopes # <<>> /\ ReturnPlan("unavailable", <<>>)
    /\ UNCHANGED targets

\* Source discovery finds the targets; it needs a module with packages.
Discovers(count) == TestScopes # <<>> /\ targets' = count

\* Settings are looked at before discovery, the platform only when there is
\* something to fuzz.
Campaigns(count) == fuzz = "usable" /\ Discovers(count)

BuildCampaign ==
    /\ Building({"campaign"})
    /\ \/ \E count \in TargetCounts \ {0} :
            /\ Campaigns(count)
            /\ \/ Admit(Compiles \o FuzzControls(count))
               \/ ReturnPlan("unavailable", <<>>)
       \/ /\ \/ (TestScopes = <<>> \/ fuzz = "unusable") /\ UNCHANGED targets
             \/ Campaigns(0)
          /\ ReturnPlan("invalid", <<>>)

BuildInventory ==
    /\ Building({"fuzz-inventory"})
    /\ \/ \E count \in TargetCounts :
            /\ Discovers(count)
            /\ Admit(Compiles \o <<Internal("fuzz_inventory", <<>>, {})>>)
       \/ /\ TestScopes = <<>>
          /\ ReturnPlan("invalid", <<>>)
          /\ UNCHANGED targets

\* Without a benchmark, or a module to look for one in, there is no plan.
BuildBenchmark ==
    /\ Building({"benchmark"})
    /\ \/ /\ Discovers(0)
          /\ Admit(Compiles \o <<Internal("benchmark", <<>>, {"go"})>>)
       \/ /\ ReturnPlan("invalid", <<>>)
          /\ UNCHANGED targets

\* Fuzzing is optional here: no module or no target leaves it out, and its
\* settings matter only when there is a module.  Where there is one, race
\* detection or fuzzing may not be supported.
BuildAll ==
    /\ Building({"all"})
    /\ \/ \E count \in TargetCounts :
            /\ \/ Campaigns(count)
               \/ TestScopes = <<>> /\ count = 0 /\ targets' = 0
            /\ \/ Admit(StaticControls \o CompatibilityControls \o TestControls
                        \o FuzzControls(count))
               \/ TestScopes # <<>> /\ ReturnPlan("unavailable", <<>>)
       \/ /\ TestScopes # <<>> /\ fuzz = "unusable"
          /\ ReturnPlan("invalid", <<>>)
          /\ UNCHANGED targets

Build ==
    \/ BuildStatic
    \/ BuildCompatibility
    \/ BuildTest
    \/ BuildCampaign
    \/ BuildInventory
    \/ BuildBenchmark
    \/ BuildAll

\* Planning has returned: nothing is left to do.
Returned == pc = "returned" /\ UNCHANGED planningVars

PlanningNext ==
    \/ PlanningFails
    \/ InspectFoundation
    \/ SelectAnalysisTools
    \/ SelectGitTool
    \/ SelectFuzzCampaign
    \/ SelectStaticControls
    \/ Build
    \/ Returned

PlanningSpec == PlanningInit /\ [][PlanningNext]_planningVars
=============================================================================
