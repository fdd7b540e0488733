------------------------- MODULE PlanningProperties -------------------------
(***************************************************************************)
(* What a plan promises, stated over the inventory rather than over the    *)
(* functions that build it.                                                *)
(***************************************************************************)
EXTENDS Planning

Planned == outcome.kind = "planned"
Plan == outcome.controls
Identities == {<<Plan[i].role, Plan[i].at>> : i \in DOMAIN Plan}

ModulesWith(Has(_)) == {i \in DOMAIN inventory.modules : Has(inventory.modules[i])}
Code == ModulesWith(LAMBDA m : m.packages)
ScopesWith(Has(_)) ==
    {s \in DOMAIN TestScopes : Has(inventory.modules[TestScopes[s]])}
Of(roles, indices) == {<<role, <<i>>>> : role \in roles, i \in indices}
Whole(roles) == {<<role, <<>>>> : role \in roles}

-----------------------------------------------------------------------------
(* The table of profiles, as the README of the repository gives it *)

Static ==
    Whole({"toolchain", "linter_config", "coverage_self_test",
           "dependency_currency"})
    \union Of({"tidy", "verify"}, DOMAIN inventory.modules)
    \union Of({"fix", "format", "vet", "lint", "compile"}, Code)
    \union Of({"vulnerabilities"}, ModulesWith(LAMBDA m : m.packages \/ m.tools))
    \union (IF inventory.shell THEN Whole({"shell_syntax", "shell_analysis"}) ELSE {})
    \union (IF inventory.workflows
              THEN Whole({"workflow_admission", "workflow", "workflow_dependencies"})
              ELSE {})

Older ==
    Of({"compatibility_toolchain"}, DOMAIN inventory.compatibility)
    \union {<<"compatibility_test", p>> : p \in
              {p \in (DOMAIN inventory.compatibility) \X (DOMAIN TestScopes) :
                 TestScopes[p[2]] \in inventory.compatibility[p[1]]}}

Tests ==
    Of({"coverage"}, ScopesWith(LAMBDA m : m.production))
    \union Of({"race"}, DOMAIN TestScopes)

Fuzzing == IF targets = 0 THEN {} ELSE Whole({"fuzz_campaign"})
Compiled == Of({"compile"}, Code)

Applicable ==
    CASE profile = "static"         -> Static
      [] profile = "compatibility"  -> Older
      [] profile = "test"           -> Tests
      [] profile = "campaign"       -> Compiled \union Fuzzing
      [] profile = "fuzz-inventory" -> Compiled \union Whole({"fuzz_inventory"})
      [] profile = "benchmark"      -> Compiled \union Whole({"benchmark"})
      [] profile = "all"            -> Static \union Older \union Tests \union Fuzzing

\* A plan holds exactly the controls its profile promises for this repository,
\* each of them once: no module, scope or version is left out, and "all" is the
\* sum of the static, compatibility, test and fuzz controls.
PlanIsTheTable ==
    Planned => Identities = Applicable /\ Cardinality(Identities) = Len(Plan)

\* Every program a planned control runs was resolved on the way to the plan,
\* although each profile resolves only what it needs: the Go tool that stands
\* in for the others is never run in their place.
ToolsAreResolved ==
    Planned => \A i \in DOMAIN Plan : Plan[i].tools \subseteq programs

\* Control i comes before control j if the roles are in this order.
Prerequisites ==
    {<<"workflow_admission", "workflow">>,
     <<"workflow_admission", "workflow_dependencies">>,
     <<"toolchain", "dependency_currency">>,
     <<"compile", "fuzz_campaign">>,
     <<"compile", "fuzz_inventory">>,
     <<"compile", "benchmark">>}

\* Execution stops at the first control that does not pass, so order is meaning:
\* workflow files are admitted before anything analyses them, and every module
\* that may declare targets is compiled, in every profile, before a target of
\* any module is listed or run.
PrerequisitesComeFirst ==
    Planned => \A i, j \in DOMAIN Plan :
        /\ <<Plan[i].role, Plan[j].role>> \in Prerequisites => i < j
        /\ Plan[j].role \in {"fuzz_campaign", "fuzz_inventory", "benchmark"} =>
             \A m \in Code : \E k \in 1 .. j - 1 :
                Plan[k].role = "compile" /\ Plan[k].at = <<m>>

\* The aggregate deadline leaves every lane its own timeout however the targets
\* fall on the lanes, unless it is the longest there may be; and every child
\* that this program runs as a control can be cleaned up before the control's
\* own timeout, which plan admission accepts.
CampaignHasTime ==
    Planned => \A i \in DOMAIN Plan :
        /\ Plan[i].timeout \in 1 .. MaxTimeout
        /\ Plan[i].inner > 0 => Plan[i].timeout >= Plan[i].inner + Cleanup
        /\ Plan[i].role = "fuzz_campaign" =>
             \/ Plan[i].inner = MaxTimeout - Cleanup
             \/ Plan[i].inner * Jobs >= targets * Plan[i].lane
=============================================================================
