----------------------------- MODULE MCDiscovery -----------------------------
(* Small repositories for Discovery: one with no manifest, one for each      *)
(* language, two packages whose scripts collide and a Rust package with a    *)
(* lockfile; steps with two names and texts two of which are one command     *)
(* spelled twice; configurations that disable, override, duplicate and       *)
(* replace.                                                                  *)
EXTENDS Discovery

CONSTANTS
  n1, n2,                             \* step ids
  test, spaced, script, setup, lint,  \* texts
  p1, p2                              \* paths

MCSplit ==
  test :> <<"cargo", "test", "--all-targets">>
    @@ spaced :> <<"cargo", "test", "--all-targets">>
    @@ script :> <<"./verify.sh", "test">> @@ setup :> <<"cargo", "+1.85.0", "install">>
    @@ lint :> <<"npm", "run", "lint">>
MCCiId ==
  test :> "ci-test-1" @@ spaced :> "ci-test-2" @@ script :> "ci-x" @@ setup :> "ci-y"
    @@ lint :> "ci-lint-3"
MCCiCovers == test :> {p1} @@ spaced :> {} @@ script :> {} @@ setup :> {} @@ lint :> {p2}

\* Package scripts: two whose names differ in punctuation, two that begin alike
\* for longer than an id can, and others.
MCScriptOrder == <<"build:long-a", "build:long-b", "lint", "test:a-b", "test:a:b", "test:watch">>
MCScripts == Range(MCScriptOrder)
MCScriptRank == [s \in MCScripts |-> CHOOSE n \in DOMAIN MCScriptOrder : MCScriptOrder[n] = s]
MCJsId ==
  "build:long-a" :> "js-build-long" @@ "build:long-b" :> "js-build-long" @@ "lint" :> "js-lint"
    @@ "test:a-b" :> "js-test-a-b" @@ "test:a:b" :> "js-test-a-b"
    @@ "test:watch" :> "js-test-watch"
MCLongJsId ==
  "build:long-a" :> "js-too-long" @@ "build:long-b" :> "js-too-long" @@ "lint" :> "js-lint-4"
    @@ "test:a-b" :> "js-test-a-b-5" @@ "test:a:b" :> "js-test-a-b-6"
    @@ "test:watch" :> "js-test-watch-7"

MCWords ==
  ManifestWords \cup MCScripts \cup {"", "+1.85.0", "install", "./verify.sh", "verify"}
MCParts ==
  [w \in MCWords |-> IF w = "test:watch" THEN {"test", "watch"} ELSE {w}]
MCBase ==
  [w \in MCWords |->
     CASE w \in {"test:a-b", "test:a:b", "test:watch"} -> "test"
       [] w \in {"build:long-a", "build:long-b"} -> "build"
       [] OTHER -> w]
MCCoverage == [javascript |-> {p2}, python |-> {}, rust |-> {p1}, go |-> {p1}]

MCIdOrder ==
  <<"ci-lint-3", "ci-test-1", "ci-test-2", "ci-x", "ci-y", "fixtures", "go-build", "go-test",
    "go-vet", "js-build-long", "js-lint", "js-lint-4", "js-test-a-b", "js-test-a-b-5",
    "js-test-a-b-6", "js-test-watch", "js-test-watch-7", "js-too-long", "python-mypy",
    "python-ruff", "python-test", "rust-build", "rust-format", "rust-lint", "rust-test",
    "unknown">>
MCIds == Range(MCIdOrder)
MCIdRank == [id \in MCIds |-> CHOOSE n \in DOMAIN MCIdOrder : MCIdOrder[n] = id]

\* A script looks like verification, and so does a test with an expression.
MCLooks == {<<n1, script>>, <<n2, script>>, <<n1, test>>}
SameId == {<<n, n>> : n \in Names}
LongId == SameId \cup {<<n2, n1>>}

AStep(name, text, dir) == [name |-> name, text |-> text, dir |-> dir]
FewSteps ==
  {AStep(n, t, Here) : n \in Names, t \in {test, spaced, script, setup}}
    \cup {AStep(n1, test, "sub"), AStep(n2, test, "expr"), AStep(n1, test, "expr"),
          AStep(n2, test, "gone")}
FixerSteps == {AStep(n1, lint, Here), AStep(n2, test, Here)}
MCSteps == FewSteps \cup {AStep(n1, lint, Here)}

Package(files, scripts, requirements) ==
  [files |-> files, scripts |-> scripts, requirements |-> requirements]
Rust == Package({"Cargo.toml"}, <<>>, {})
Fixer == Package({"package.json", "package-lock.json"}, "lint" :> {"--fix"} @@ "test:a-b" :> {}, {})
FewProjects == {NoProject, Rust}
FixerProjects == {Fixer}
MCProjects ==
  FewProjects \cup
  {Package({"package.json", "pnpm-lock.yaml", "Cargo.toml", "Cargo.lock"},
           "test:a-b" :> {} @@ "test:a:b" :> {} @@ "test:watch" :> {}, {}),
   Package({"package.json"}, "build:long-a" :> {} @@ "build:long-b" :> {}, {}),
   Fixer,
   Package({"pyproject.toml", "tox.ini", "go.mod"}, <<>>,
           {Requirement("tool", "name", "ruff"), Requirement("tool.uv.dev-dependencies", "name", "pytest-cov"),
            Requirement("build-system", "name", "mypy")}),
   Package({"requirements.txt", "tox.ini"}, <<>>,
           {Requirement("requirements.txt", "name with url", "mypy"),
            Requirement("requirements.txt", "url", "pytest")})}

Explicit(id, replaces) ==
  [id |-> id, argv |-> <<"./verify.sh">>, dir |-> Here, covers |-> {p2}, explicit |-> TRUE,
   replaces |-> replaces]
Config(disabled, list) == [disable_checks |-> disabled, checks |-> list]
MCConfigs ==
  {Config({"rust-test"}, <<>>),
   Config({}, <<Explicit("rust-test", <<n1>>)>>),
   Config({"rust-test"}, <<Explicit("rust-test", <<n2>>)>>),
   Config({}, <<Explicit("fixtures", <<n1>>)>>),
   Config({}, <<Explicit("fixtures", <<n2, n1>>)>>),
   Config({}, <<Explicit("unknown", <<n1>>), Explicit("fixtures", <<n1>>)>>),
   Config({"ci-test-1"}, <<Explicit("unknown", <<>>), Explicit("fixtures", <<n2>>)>>)}

ARequest(changed, changed_only, requested) ==
  [changed |-> changed, changed_only |-> changed_only, requested |-> requested]
MCRequests ==
  {ARequest({}, FALSE, {}), ARequest({p2}, FALSE, {}),
   ARequest({p1}, TRUE, {}), ARequest({p1, p2}, TRUE, {}),
   ARequest({p1, p2}, FALSE, {"rust-test"}), ARequest({}, TRUE, {"fixtures", "rust-test"})}
OneRequest == {ARequest({}, FALSE, {})}

\* Repositories with other manifests have at most two steps.
TwoStepsInOthers == project \in FewProjects \/ Len(steps) <= 2
=============================================================================
