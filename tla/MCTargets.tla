----------------------------- MODULE MCTargets ------------------------------
(***************************************************************************)
(* Repositories of up to fifteen paths: a root module, a nested one, one   *)
(* that is a hidden directory, and one below a skipped directory.          *)
(***************************************************************************)
EXTENDS TargetsProperties

MCListing ==
    << <<".github">>,
       <<".github", "go.mod">>,
       <<".github", "tool_test.go">>,
       <<".github", "workflows">>,
       <<".github", "workflows", "ci.yml">>,
       <<".golangci.yaml">>,
       <<".golangci.yml">>,
       <<"go.mod">>,
       <<"old">>,
       <<"old", "go.mod">>,
       <<"patched">>,
       <<"patched", "go.mod">>,
       <<"root.go">>,
       <<"run.sh">>,
       <<"sub">>,
       <<"sub", "go.mod">>,
       <<"sub", "late_test.go">>,
       <<"sub", "run.sh">>,
       <<"sub", "sub_test.go">>,
       <<"sub", "windows_test.go">>,
       <<"testdata">>,
       <<"testdata", "go.mod">>,
       <<"twin">>,
       <<"twin", "go.mod">>,
       <<"vendor.go">> >>

MCClass ==
    [n \in {".github"} |-> "hidden"] @@ [n \in {"testdata"} |-> "skipped"] @@
    [n \in {"old", "patched", "sub", "twin", "workflows"} |-> "directory"] @@
    [n \in {"go.mod"} |-> "module"] @@ [n \in {"ci.yml"} |-> "workflow"] @@
    [n \in {".golangci.yaml", ".golangci.yml"} |-> "linter"] @@
    [n \in {"root.go", "vendor.go"} |-> "code"] @@ [n \in {"run.sh"} |-> "shell"] @@
    [n \in {"late_test.go", "sub_test.go", "tool_test.go", "windows_test.go"} |-> "test"]

MCLinks == {<<"vendor.go">>}
MCWorkflows == <<".github", "workflows">>

Always == {<<"go.mod">>, <<".golangci.yml">>}
Parts ==
    {{<<".github">>, <<".github", "go.mod">>, <<".github", "tool_test.go">>},
     {<<".github">>, <<".github", "workflows">>, <<".github", "workflows", "ci.yml">>},
     {<<"sub">>, <<"sub", "sub_test.go">>},
     {<<"sub">>, <<"sub", "go.mod">>, <<"sub", "windows_test.go">>},
     {<<"root.go">>},
     {<<"run.sh">>, <<"sub">>, <<"sub", "late_test.go">>},
     {<<"testdata">>, <<"testdata", "go.mod">>}}
Bad == {{<<n>>, <<n, "go.mod">>} : n \in {"old", "patched", "twin"}}
Refusable == {{<<"vendor.go">>}, {<<".golangci.yaml">>}, UNION Bad} \union Bad
MCTrees == {Always \union UNION S : S \in SUBSET Parts} \union {Always \union S : S \in Refusable}

Describe(p, v, tools) == [path |-> p, version |-> v, tools |-> tools, replace |-> TRUE]
MCDescription ==
    [d \in {<<>>} |-> Describe(<<"m">>, 1, FALSE)] @@
    [d \in {<<"sub">>} |-> Describe(<<"m", "sub">>, 1, FALSE)] @@
    [d \in {<<".github">>} |-> Describe(<<"n">>, 1, FALSE)] @@
    [d \in {<<"old">>} |-> Describe(<<"o">>, 2, FALSE)] @@
    [d \in {<<"patched">>} |-> Describe(<<"p">>, 1, TRUE)] @@
    [d \in {<<"twin">>} |-> Describe(<<"m">>, 1, FALSE)] @@
    [d \in {<<"testdata">>} |-> Describe(<<"t">>, 1, FALSE)]

MCExcluded == {<<"sub", "windows_test.go">>}
MCTests == {p \in ToSet(MCListing) : MCClass[Last(p)] = "test"}
MCFuzz == [p \in ToSet(MCListing) |->
    CASE p = <<".github", "tool_test.go">> -> <<"FuzzTwo">>
      [] p \in MCTests                     -> <<"FuzzOne">>
      [] OTHER                             -> <<>>]
MCBenchmarks == [p \in ToSet(MCListing) |->
    CASE p = <<".github", "tool_test.go">> -> <<"BenchmarkThree">>
      [] p = <<"sub", "sub_test.go">>      -> <<"BenchmarkOne", "BenchmarkTwo">>
      [] OTHER                             -> <<>>]
MCSize == [p \in ToSet(MCListing) |-> 1]
=============================================================================
