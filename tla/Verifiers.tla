------------------------------ MODULE Verifiers ------------------------------
(***************************************************************************)
(* What discovery takes for a verification command (src/src/discover.rs):  *)
(* the readers of package.json, of the Python files, of Cargo.toml and of  *)
(* go.mod, each of which yields checks, and the texts of workflow steps    *)
(* that are one command of a known verifier.                               *)
(*                                                                         *)
(* A command is a sequence of words.  What is inside a word matters for    *)
(* package scripts alone; of their names only the parts that are looked at *)
(* are given.                                                              *)
(***************************************************************************)
EXTENDS Naturals, Sequences, FiniteSets, FiniteSetsExt, SequencesExt

CONSTANTS
  Words,        \* words of commands; "" stands for a missing one
  Toolchains,   \* those that begin with a plus, as in `cargo +1.85.0`
  Parts,        \* word -> what is between its colons, hyphens and underscores
  Base,         \* word -> what is before its first colon
  SaysCheck,    \* words that contain "check"
  Scripts,      \* the possible names of package scripts
  ScriptRank,   \* their lexical order, that of a BTreeMap
  JsId,         \* script -> its id: "js-" and the portable part of its name
  LongJsId,     \* script -> that id with the digest of the name after it
  Plugins,      \* distributions whose names begin with "pytest-"
  Coverage      \* language -> paths its checks cover

\* The words of the commands that manifests yield.
Managers == {"npm", "pnpm", "yarn", "bun"}
ManifestWords ==
  Managers \cup
  {"run", "python3", "-m", "pytest", "tox", "ruff", "check", ".", "mypy", "cargo", "fmt",
   "--check", "clippy", "--all-targets", "--locked", "--", "-D", "warnings", "test", "build",
   "--release", "go", "./...", "vet"}

\* The ids of the checks that the Python files, Cargo.toml and go.mod yield.
ToolIds ==
  {"python-test", "python-ruff", "python-mypy", "rust-format", "rust-lint", "rust-test",
   "rust-build", "go-test", "go-vet", "go-build"}

ASSUME WordAssumption ==
  /\ "" \in Words /\ ManifestWords \subseteq Words /\ Scripts \subseteq Words
  /\ Toolchains \subseteq Words /\ SaysCheck \subseteq Words
  /\ DOMAIN Parts = Words /\ DOMAIN Base = Words
ASSUME ScriptAssumption ==
  /\ ScriptRank \in [Scripts -> Nat]
  /\ \A s, t \in Scripts : ScriptRank[s] = ScriptRank[t] => s = t
  /\ DOMAIN JsId = Scripts /\ DOMAIN LongJsId = Scripts

Here == "."
NoKind == "no kind"

\* A declared Python requirement: the table or file it is in, whether it is a
\* name, a name with a URL, a URL or an option, and the normalized name.
Requirement(place, form, name) == [place |-> place, form |-> form, name |-> name]

\* The members of a finite set, each after those that come before it.
InOrder(S, before) ==
  [n \in 1..Cardinality(S) |->
     CHOOSE x \in S : Cardinality({y \in S : <<y, x>> \in before}) = n - 1]

-----------------------------------------------------------------------------
(* Package scripts.                                                        *)

\* A script that does not end or that changes files, by its name or its text.
NotAVerification(script, flags) ==
  \/ Parts[script] \cap {"watch", "dev", "serve", "start", "update", "snapshot"} # {}
  \/ flags \cap {"--watch", "--fix", "--write"} # {}

\* The kind of check a script is, by its name and the flags its text contains.
javascript_script_kind(script, flags) ==
  IF NotAVerification(script, flags)
    THEN NoKind
    ELSE CASE Base[script] \in {"typecheck", "type-check", "check-types", "tsc"} -> "typecheck"
           [] Base[script] \in {"test", "lint", "build"} -> Base[script]
           [] /\ Base[script] \in {"format", "fmt"}
              /\ script \in SaysCheck \/ "--check" \in flags -> "format"
           [] OTHER -> NoKind

\* The first lockfile that is there selects the package manager.
LockFiles ==
  <<<<"pnpm", "pnpm-lock.yaml">>, <<"yarn", "yarn.lock">>, <<"bun", "bun.lock">>,
    <<"bun", "bun.lockb">>, <<"npm", "npm-shrinkwrap.json">>, <<"npm", "package-lock.json">>>>
package_manager(files) ==
  LET present == {n \in DOMAIN LockFiles : LockFiles[n][2] \in files} IN
  IF present = {} THEN "npm" ELSE LockFiles[Min(present)][1]

language_check(id, argv, language) ==
  [id |-> id, argv |-> argv, dir |-> Here, covers |-> Coverage[language],
   explicit |-> FALSE, replaces |-> <<>>]

CheckScripts(scripts) ==
  {s \in DOMAIN scripts : javascript_script_kind(s, scripts[s]) # NoKind}

\* Mutant: in the opposite order.
ScriptAfter(s, t) == ScriptRank[t] < ScriptRank[s]

ScriptBefore(s, t) == ScriptRank[s] < ScriptRank[t]

\* The id of a script, where those in `long` have the longer one.
ScriptId(long, s) == IF s \in long THEN LongJsId[s] ELSE JsId[s]

\* The scripts whose id is taken by one before them.
LongNamed(found) ==
  CHOOSE long \in SUBSET found :
    \A s \in found :
      s \in long <=> \E t \in found : ScriptBefore(t, s) /\ ScriptId(long, t) = JsId[s]

discover_javascript(files, scripts) ==
  LET found == CheckScripts(scripts)
      long == LongNamed(found)
      order == InOrder(found, {p \in found \X found : ScriptBefore(p[1], p[2])})
  IN  [n \in DOMAIN order |->
         language_check(ScriptId(long, order[n]),
                        <<package_manager(files), "run", order[n]>>, "javascript")]

-----------------------------------------------------------------------------
(* Python, Rust and Go.                                                    *)

PythonFiles == {"pyproject.toml", "requirements.txt", "requirements-dev.txt", "tox.ini"}
PythonTools == {"pytest", "tox", "ruff", "mypy"}

\* The tables of pyproject.toml that declare dependencies.
PyprojectTables ==
  {"project.dependencies", "project.optional-dependencies", "dependency-groups",
   "tool.poetry.dependencies", "tool.poetry.dev-dependencies", "tool.poetry.group",
   "tool.uv.dev-dependencies", "tool.pdm.dev-dependencies", "tool.hatch.envs"}

record_distribution(name) == IF name \in Plugins THEN {"pytest"} ELSE {name} \cap PythonTools

\* A name counts, with or without a URL; a URL, a path or an option does not.
python_distribution_name(r) == IF r.form \in {"name", "name with url"} THEN {r.name} ELSE {}

Evidence(requirements) ==
  UNION {record_distribution(n) : n \in UNION {python_distribution_name(r) : r \in requirements}}

\* The tools a pyproject.toml declares: as dependencies or by their own table.
collect_pyproject_evidence(requirements) ==
  Evidence({r \in requirements : r.place \in PyprojectTables})
    \cup ({r.name : r \in {q \in requirements : q.place = "tool"}} \cap PythonTools)

PythonEvidence(files, requirements) ==
  (IF "pyproject.toml" \in files THEN collect_pyproject_evidence(requirements) ELSE {})
    \cup Evidence({r \in requirements :
                     r.place \in files \cap {"requirements.txt", "requirements-dev.txt"}})
    \cup (IF "tox.ini" \in files THEN {"tox"} ELSE {})

\* pytest and tox share an id: tox counts only without pytest.
discover_python(files, requirements) ==
  LET evidence == PythonEvidence(files, requirements)
      If(tool, id, argv) ==
        IF tool \in evidence THEN <<language_check(id, argv, "python")>> ELSE <<>>
  IN  (IF "pytest" \in evidence
         THEN If("pytest", "python-test", <<"python3", "-m", "pytest">>)
         ELSE If("tox", "python-test", <<"python3", "-m", "tox">>))
        \o If("ruff", "python-ruff", <<"python3", "-m", "ruff", "check", ".">>)
        \o If("mypy", "python-mypy", <<"python3", "-m", "mypy", ".">>)

discover_rust(files) ==
  LET locked == IF "Cargo.lock" \in files THEN <<"--locked">> ELSE <<>> IN
  <<language_check("rust-format", <<"cargo", "fmt", "--check">>, "rust"),
    language_check("rust-lint", <<"cargo", "clippy", "--all-targets">> \o locked
                                  \o <<"--", "-D", "warnings">>, "rust"),
    language_check("rust-test", <<"cargo", "test", "--all-targets">> \o locked, "rust"),
    language_check("rust-build", <<"cargo", "build", "--release">> \o locked, "rust")>>

discover_go ==
  <<language_check("go-test", <<"go", "test", "./...">>, "go"),
    language_check("go-vet", <<"go", "vet", "./...">>, "go"),
    language_check("go-build", <<"go", "build", "./...">>, "go")>>

\* The checks the manifests in the repository's root yield.
ManifestChecks(files, scripts, requirements) ==
  (IF "package.json" \in files THEN discover_javascript(files, scripts) ELSE <<>>)
    \o (IF files \cap PythonFiles # {} THEN discover_python(files, requirements) ELSE <<>>)
    \o (IF "Cargo.toml" \in files THEN discover_rust(files) ELSE <<>>)
    \o (IF "go.mod" \in files THEN discover_go ELSE <<>>)

-----------------------------------------------------------------------------
(* Workflow commands.                                                      *)

Word(words, n) == IF n \in DOMAIN words THEN words[n] ELSE ""

CargoKind(word) ==
  CASE word = "fmt" -> "format"
    [] word = "clippy" -> "lint"
    [] word = "test" -> "test"
    [] word = "check" -> "typecheck"
    [] word \in {"build", "package"} -> "build"
    [] OTHER -> NoKind

PythonKind(module) ==
  CASE module \in {"pytest", "unittest", "tox"} -> "test"
    [] module = "ruff" -> "lint"
    [] module \in {"mypy", "pyright"} -> "typecheck"
    [] module = "build" -> "build"
    [] OTHER -> NoKind

GoKind(word) ==
  CASE word = "test" -> "test" [] word = "vet" -> "lint" [] word = "build" -> "build"
    [] OTHER -> NoKind

\* The word after the first -m that has one after it.
Module(words) ==
  LET at == {i \in 1..(Len(words) - 1) : words[i] = "-m"} IN
  IF at = {} THEN "" ELSE words[Min(at) + 1]

\* The kind of check a command is; of a package script only the name is known.
CommandKind(words) ==
  LET program == Word(words, 1) IN
  CASE program = "cargo" -> CargoKind(Word(words, IF Word(words, 2) \in Toolchains THEN 3 ELSE 2))
    [] program \in Managers ->
         javascript_script_kind(IF Word(words, 2) = "run" /\ Len(words) > 2
                                  THEN words[3] ELSE Word(words, 2), {})
    [] program \in {"python", "python3"} -> PythonKind(Module(words))
    [] program = "go" -> GoKind(Word(words, 2))
    [] OTHER -> NoKind
=============================================================================
