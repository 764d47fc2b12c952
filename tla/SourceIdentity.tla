----------------------------- MODULE SourceIdentity -----------------------------
(***************************************************************************)
(* identify_source (src/src/source.rs, src/src/git.rs) as the git commands *)
(* and file reads it is, before discovery and again after the checks, with *)
(* edits of the workspace and of the repository between any two of them.   *)
(*                                                                         *)
(* An identity is collected piece by piece, so it may be of no state the   *)
(* workspace was ever in.  Two collections that agree are evidence of what *)
(* lay between them, as long as nothing was put back to what it was; that  *)
(* is what source_unchanged stands on, and what the properties are about.  *)
(*                                                                         *)
(* Contents, commits and refs are values that are only compared, but for   *)
(* what the contents of files put into the stream of bytes that is hashed: *)
(* they have no length there.  SHA-256 is taken to be injective.           *)
(***************************************************************************)
EXTENDS Naturals, FiniteSets, Sequences

CONSTANTS
  Paths, NoPath,   \* entries a workspace may have
  Rank,            \* their order, in which git lists them
  Ignored,         \* paths that .gitignore excludes
  Manifest,        \* a path that discovery reads
  Data,            \* contents of files, link targets, submodule commits
  Bytes,           \* what a file of such a content puts into the stream
  Commits, Unborn, \* commits, and what HEAD is before the first one
  Refs, Detached,  \* branches and the absence of one, which is one of them
  Worlds,          \* workspaces and repositories a run may start in
  StateDirs,       \* where the evidence store may be: a path, or NoPath if it
                   \* is not in the workspace
  MaxEdits         \* bound: edits during a run

Kinds == {"file", "symlink", "submodule"}
None == "none"
\* What is at a path.  The mode is a file's executable bit or whether a
\* submodule is dirty.
Entry == [is : Kinds, data : Data, mode : BOOLEAN]
NoEntry == [is |-> None]
Tree == [Paths -> Entry \cup {NoEntry}]
EmptyTree == [p \in Paths |-> NoEntry]
NoTree == [p \in {} |-> NoEntry]

World == [kind : [Paths -> Kinds \cup {None}], data : [Paths -> Data],
          mode : [Paths -> BOOLEAN], index : Tree, head : Commits \cup {Unborn},
          trees : [Commits -> Tree \cup {NoTree}], ref : Refs]

ASSUME PathAssumption ==
  /\ NoPath \notin Paths /\ Manifest \in Paths
  /\ Ignored \subseteq Paths /\ StateDirs \subseteq Paths \cup {NoPath}
  /\ Rank \in [Paths -> Nat] /\ \A p, q \in Paths : Rank[p] = Rank[q] => p = q
ASSUME WorldAssumption ==
  Worlds \subseteq World /\ Unborn \notin Commits /\ Detached \in Refs
ASSUME EditAssumption == MaxEdits \in Nat

\* The pieces of the stream.  A path and a link's target have their length before
\* them, as have the two answers of git about a submodule; a file's content is
\* there as it is, which may be text or read like the pieces around it.
Tokens == ({"path"} \X Paths) \cup {<<"file">>} \cup ({"text", "symlink"} \X Data)
            \cup ({"bit"} \X BOOLEAN) \cup ({"submodule"} \X Data \X BOOLEAN)

ASSUME ContentAssumption ==
  /\ Bytes \in [Data -> Seq(Tokens)]
  /\ \A c, d \in Data : Bytes[c] = Bytes[d] => c = d

Stages == {"head", "ref", "status", "diff", "diff_cached", "others", "list",
           "hash", "read", "submodule_status", "discover", "checks", "done",
           "failed"}

\* A path that was inspected and is about to be read.
NoReading == [path |-> NoPath]
Reading == {NoReading} \cup [path : Paths, is : Kinds, mode : BOOLEAN]
             \cup [path : Paths, is : {"submodule"}, data : Data]

VARIABLES
  stage,       \* the next step of the run
  round,       \* the identification it is in or had last: 1 or 2
  error,       \* why identification failed, or "none"
  partial,     \* the identity collected so far
  todo,        \* listed paths still to be hashed
  reading,     \* the path inspected and about to be read, or NoReading
  source,      \* the identity before discovery
  source_after,\* the identity after the checks
  discovered,  \* what discovery read at Manifest: pairs of kind and data
  state_dir,   \* where the store is
  kind, data, mode, index, head, trees, ref,  \* the world
  edits,       \* edits made by others
  past,        \* history: the values each facet of the world has had
  restored,    \* history: a facet was put back to a value it had had
  followed,    \* history: a file became a link after it had been inspected
  quiet,       \* history: nothing was edited since this identification began
  drifted      \* history: facets that differed from source before round 2

program == <<stage, round, error>>
collected == <<partial, todo, reading>>
outcome == <<source, source_after, discovered>>
worktree == <<kind, data, mode>>
repository == <<index, head, trees, ref>>
world == <<worktree, repository>>
history == <<edits, past, restored, followed, quiet, drifted>>
vars == <<stage, round, error, partial, todo, reading, source, source_after,
          discovered, state_dir, kind, data, mode, index, head, trees, ref,
          edits, past, restored, followed, quiet, drifted>>

\* The state of a path in git status: index against HEAD, work against index.
PathStatus == [x : BOOLEAN, y : BOOLEAN, untracked : BOOLEAN]
Entries == UNION {[s -> Entry] : s \in SUBSET Paths}
\* What is hashed is the stream; the entries are history, what it was made of.
Identity == [commit : Commits \cup {Unborn}, ref : Refs, status : [Paths -> PathStatus],
             changed : SUBSET Paths, stream : Seq(Tokens), entries : Entries]

Clean == [x |-> FALSE, y |-> FALSE, untracked |-> FALSE]
NoEntries == [p \in {} |-> NoEntry]
Nothing == [commit |-> Unborn, ref |-> Detached,
            status |-> [p \in Paths |-> Clean], changed |-> {}, stream |-> <<>>,
            entries |-> NoEntries]

\* What an identity tells of the world, one value each.
Facets == (Paths \X {"kind", "data", "mode"}) \cup {<<NoPath, "head">>, <<NoPath, "ref">>}
FacetValues == [kind |-> Kinds \cup {None}, data |-> Data, mode |-> BOOLEAN,
                head |-> Commits \cup {Unborn}, ref |-> Refs]
Now(f) == CASE f[2] = "kind" -> kind[f[1]]
            [] f[2] = "data" -> data[f[1]]
            [] f[2] = "mode" -> mode[f[1]]
            [] f[2] = "head" -> head
            [] f[2] = "ref"  -> ref

TypeOK ==
  /\ stage \in Stages /\ round \in {1, 2}
  /\ error \in {"none", "io", "missing"}
  /\ partial \in Identity /\ source \in Identity /\ source_after \in Identity
  /\ todo \subseteq Paths
  /\ reading \in Reading
  /\ discovered \subseteq (Kinds \cup {None}) \X Data
  /\ state_dir \in StateDirs
  /\ kind \in [Paths -> Kinds \cup {None}] /\ data \in [Paths -> Data]
  /\ mode \in [Paths -> BOOLEAN]
  /\ index \in Tree /\ head \in Commits \cup {Unborn}
  /\ trees \in [Commits -> Tree \cup {NoTree}] /\ ref \in Refs
  /\ edits \in 0..MaxEdits
  /\ DOMAIN past = Facets /\ \A f \in Facets : past[f] \subseteq FacetValues[f[2]]
  /\ restored \in BOOLEAN /\ followed \in BOOLEAN /\ quiet \in BOOLEAN
  /\ drifted \subseteq Facets

Init ==
  /\ stage = "head" /\ round = 1 /\ error = "none"
  /\ partial = Nothing /\ todo = {} /\ reading = NoReading
  /\ source = Nothing /\ source_after = Nothing /\ discovered = {}
  /\ state_dir \in StateDirs
  /\ \E w \in Worlds :
       /\ kind = w.kind /\ data = w.data /\ mode = w.mode
       /\ index = w.index /\ head = w.head /\ trees = w.trees /\ ref = w.ref
  /\ edits = 0
  /\ past = [f \in Facets |-> {Now(f)}]
  /\ restored = FALSE /\ followed = FALSE /\ quiet = TRUE
  /\ drifted = {}

-----------------------------------------------------------------------------
(* What git says of the world.                                             *)

Seen(p, m) == IF kind[p] = None THEN NoEntry
              ELSE [is |-> kind[p], data |-> data[p], mode |-> m]
Work(p) == Seen(p, kind[p] # "symlink" /\ mode[p])
\* What git add puts into the index: of a submodule only its commit.
Added(p) == Seen(p, kind[p] = "file" /\ mode[p])
tree == IF head = Unborn THEN EmptyTree ELSE trees[head]

\* git ls-files --others --exclude-standard.
Others == {p \in Paths \ Ignored : index[p] = NoEntry /\ kind[p] # None}
Cached == {p \in Paths : index[p] # NoEntry}

\* git status --porcelain --untracked-files=all.
Status == [p \in Paths |->
  [x |-> index[p] # tree[p],
   y |-> index[p] # NoEntry /\ Work(p) # index[p],
   untracked |-> p \in Others]]
Dirty(status) == \E p \in Paths : status[p] # Clean

\* git diff --name-only HEAD: what is tracked, as it is in the workspace.
DiffHead ==
  {p \in Paths : IF tree[p] = NoEntry THEN index[p] # NoEntry /\ kind[p] # None
                 ELSE index[p] = NoEntry \/ Work(p) # tree[p]}
\* git diff --cached --name-only HEAD.
DiffCached == {p \in Paths : index[p] # tree[p]}

\* git ls-files --cached --others --exclude-standard: tracked paths, whether
\* they exist or not, and the other ones that are not ignored.
workspace_files == Cached \cup Others

-----------------------------------------------------------------------------
(* identify_source.                                                        *)

Goto(next) == stage' = next /\ UNCHANGED <<round, error>>
Fail(why) == stage' = "failed" /\ error' = why /\ UNCHANGED round

\* A command that reports, into a field of the identity.
Report(at, next, identity) ==
  /\ stage = at
  /\ \/ Goto(next) /\ partial' = identity
     \/ Fail("io") /\ UNCHANGED partial
  /\ UNCHANGED <<todo, reading, outcome, state_dir, world, history>>

\* No HEAD, or a detached one, is an answer and not a failure.
ReadHead == Report("head", "ref", [partial EXCEPT !.commit = head])
ReadRef == Report("ref", "status", [partial EXCEPT !.ref = ref])
ReadStatus == Report("status", "diff", [partial EXCEPT !.status = Status])

\* changed_paths(has_head): three commands, or one without a HEAD; which it is
\* was decided when HEAD was read.
ReadDiff ==
  IF partial.commit = Unborn
    THEN Report("diff", "list", [partial EXCEPT !.changed = workspace_files])
    ELSE Report("diff", "diff_cached", [partial EXCEPT !.changed = DiffHead])

\* Mutant: the second diff is left out.
SkipDiffCached == Report("diff_cached", "others", partial)

ReadDiffCached ==
  Report("diff_cached", "others", [partial EXCEPT !.changed = @ \cup DiffCached])
ReadOthers == Report("others", "list", [partial EXCEPT !.changed = @ \cup Others])

\* Mutant: ignored paths are listed.
ListAll ==
  /\ stage = "list"
  /\ Goto("hash") /\ todo' = Cached \cup {p \in Paths : kind[p] # None}
  /\ UNCHANGED <<partial, reading, outcome, state_dir, world, history>>

List ==
  /\ stage = "list"
  /\ \/ Goto("hash") /\ todo' = workspace_files
     \/ Fail("io") /\ UNCHANGED todo
  /\ UNCHANGED <<partial, reading, outcome, state_dir, world, history>>

\* Mutants: a listed path that is gone is passed over, or read all the same.
InspectSkipping ==
  /\ stage = "hash"
  /\ \E p \in todo :
       /\ \A q \in todo : Rank[p] <= Rank[q]
       /\ todo' = todo \ {p}
       /\ IF kind[p] # None
            THEN /\ Goto("read")
                 /\ reading' = [path |-> p, is |-> kind[p], mode |-> kind[p] = "file" /\ mode[p]]
            ELSE Goto("hash") /\ UNCHANGED reading
  /\ UNCHANGED <<partial, outcome, state_dir, world, history>>
InspectUnchecked ==
  /\ stage = "hash"
  /\ \E p \in todo :
       /\ \A q \in todo : Rank[p] <= Rank[q]
       /\ Goto("read")
       /\ todo' = todo \ {p}
       /\ reading' = [path |-> p, is |-> kind[p], mode |-> kind[p] = "file" /\ mode[p]]
  /\ UNCHANGED <<partial, outcome, state_dir, world, history>>

\* symlink_metadata of the next path: its type and a file's executable bit.  A
\* listed path that does not exist, or is of another type, ends it all.
Inspect ==
  /\ stage = "hash"
  /\ \E p \in todo :
       /\ \A q \in todo : Rank[p] <= Rank[q]
       /\ \/ /\ kind[p] # None
             /\ Goto("read")
             /\ todo' = todo \ {p}
             /\ reading' = [path |-> p, is |-> kind[p], mode |-> kind[p] = "file" /\ mode[p]]
          \/ kind[p] = None /\ Fail("missing") /\ UNCHANGED <<todo, reading>>
          \/ Fail("io") /\ UNCHANGED <<todo, reading>>
  /\ UNCHANGED <<partial, outcome, state_dir, world, history>>

\* Mutant: the executable bit is left out.
PieceWithoutBit(p, e) ==
  <<<<"path", p>>>> \o
    (CASE e.is = "symlink"   -> <<<<"symlink", e.data>>>>
       [] e.is = "file"      -> <<<<"file">>>> \o Bytes[e.data]
       [] e.is = "submodule" -> <<<<"submodule", e.data, e.mode>>>>)

\* What the hasher is fed for the entry e at p.
Piece(p, e) ==
  <<<<"path", p>>>> \o
    (CASE e.is = "symlink"   -> <<<<"symlink", e.data>>>>
       [] e.is = "file"      -> <<<<"file">>>> \o Bytes[e.data] \o <<<<"bit", e.mode>>>>
       [] e.is = "submodule" -> <<<<"submodule", e.data, e.mode>>>>)

\* The entry of the path being read goes into the digest.
AddEntry(d, m) ==
  LET e == [is |-> reading.is, data |-> d, mode |-> m] IN
  /\ partial' = [partial EXCEPT
       !.stream = @ \o Piece(reading.path, e),
       !.entries = [q \in DOMAIN @ \cup {reading.path} |-> IF q = reading.path THEN e ELSE @[q]]]
  /\ reading' = NoReading

\* read_link, or File::open and reads; what was inspected may be gone or have
\* become something else.  Opening follows a link, to a content elsewhere.
ReadEntry ==
  /\ stage = "read" /\ reading.is # "submodule"
  /\ LET now == kind[reading.path] IN
     \/ /\ now = reading.is
        /\ Goto("hash") /\ AddEntry(data[reading.path], reading.mode)
        /\ UNCHANGED followed
     \/ /\ reading.is = "file" /\ now = "symlink"
        /\ \E d \in Data : AddEntry(d, reading.mode)
        /\ Goto("hash") /\ followed' = TRUE
     \/ Fail("io") /\ UNCHANGED <<partial, reading, followed>>
  /\ UNCHANGED <<todo, outcome, state_dir, world, edits, past, restored, quiet,
                 drifted>>

\* hash_submodule: HEAD and then the status of the submodule.
ReadSubmodule ==
  /\ stage = "read" /\ reading.is = "submodule"
  /\ \/ /\ kind[reading.path] = "submodule"
        /\ Goto("submodule_status")
        /\ reading' = [path |-> reading.path, is |-> "submodule", data |-> data[reading.path]]
     \/ Fail("io") /\ UNCHANGED reading
  /\ UNCHANGED <<partial, todo, outcome, state_dir, world, history>>

ReadSubmoduleStatus ==
  /\ stage = "submodule_status"
  /\ \/ /\ kind[reading.path] = "submodule"
        /\ Goto("hash") /\ AddEntry(reading.data, mode[reading.path])
     \/ Fail("io") /\ UNCHANGED <<partial, reading>>
  /\ UNCHANGED <<todo, outcome, state_dir, world, history>>

-----------------------------------------------------------------------------
(* What differs from an identity now.  A path that is ignored and not       *)
(* tracked is not part of one.                                              *)

Covered(id) == DOMAIN id.entries \cup (Paths \ Ignored)
KindIn(id, p) == IF p \in DOMAIN id.entries THEN id.entries[p].is ELSE None

\* The facets of which an identity tells the value, and the value.
FacetsOf(id) ==
  {f \in Facets :
     /\ f[2] = "kind" => f[1] \in Covered(id)
     /\ f[2] = "data" => f[1] \in DOMAIN id.entries
     /\ f[2] = "mode" => f[1] \in DOMAIN id.entries /\ id.entries[f[1]].is # "symlink"}
In(id, f) == CASE f[2] = "kind" -> KindIn(id, f[1])
               [] f[2] = "data" -> id.entries[f[1]].data
               [] f[2] = "mode" -> id.entries[f[1]].mode
               [] f[2] = "head" -> id.commit
               [] f[2] = "ref"  -> id.ref
Deviating(id) == {f \in FacetsOf(id) : Now(f) # In(id, f)}

\* The first identity is complete.
Identified ==
  /\ stage = "hash" /\ todo = {} /\ round = 1
  /\ Goto("discover")
  /\ source' = partial
  /\ drifted' = Deviating(partial)
  /\ UNCHANGED <<collected, source_after, discovered, state_dir, world,
                 edits, past, restored, followed, quiet>>

\* Discovery asks whether a manifest is there, reads it and hashes it: so often
\* as it likes, each time as it is then.
Discover ==
  /\ stage = "discover"
  /\ \/ /\ Goto("discover")
        /\ discovered' = discovered \cup {<<kind[Manifest], data[Manifest]>>}
     \/ Goto("checks") /\ UNCHANGED discovered
  /\ UNCHANGED <<collected, source, source_after, state_dir, world, history>>

\* The checks are over: identify_source again.
IdentifyAgain ==
  /\ stage = "checks"
  /\ stage' = "head" /\ round' = 2 /\ UNCHANGED error
  /\ partial' = Nothing
  /\ quiet' = TRUE
  /\ UNCHANGED <<todo, reading, outcome, state_dir, world, edits, past, restored,
                 followed, drifted>>

IdentifiedAgain ==
  /\ stage = "hash" /\ todo = {} /\ round = 2
  /\ Goto("done")
  /\ source_after' = partial
  /\ UNCHANGED <<collected, source, discovered, state_dir, world, history>>

-----------------------------------------------------------------------------
(* The world.                                                              *)

Alive == stage \notin {"done", "failed"}
Between == stage \in {"discover", "checks"}

\* Whatever changes leaves its trace in the history.
Trace ==
  /\ past' = [f \in Facets |-> past[f] \cup {Now(f)'}]
  /\ restored' = (restored \/ \E f \in Facets : Now(f)' # Now(f) /\ Now(f)' \in past[f])
  /\ drifted' = IF Between THEN drifted \cup Deviating(source)' ELSE drifted

\* The path p becomes k, with content d and mode m; a path that goes keeps them.
Put(p, k, d, m) ==
  /\ <<k, d, m>> # <<kind[p], data[p], mode[p]>>
  /\ k = None => d = data[p] /\ m = mode[p] /\ kind[p] # None
  /\ k = "symlink" => m = mode[p]
  /\ kind' = [kind EXCEPT ![p] = k]
  /\ data' = [data EXCEPT ![p] = d]
  /\ mode' = [mode EXCEPT ![p] = m]
  /\ UNCHANGED repository

\* The run's own store: directories, logs and receipts, if it is inside.
StoreWrites ==
  /\ stage = "checks" /\ state_dir # NoPath
  /\ \E d \in Data : Put(state_dir, "file", d, mode[state_dir])
  /\ UNCHANGED <<program, collected, outcome, state_dir, edits, followed, quiet>>
  /\ Trace

EditWorktree ==
  \E p \in Paths, k \in Kinds \cup {None}, d \in Data, m \in BOOLEAN : Put(p, k, d, m)

\* git add, git rm --cached.
Stage ==
  /\ \E p \in Paths :
       /\ index' \in {[index EXCEPT ![p] = e] : e \in {Added(p), NoEntry}}
       /\ index' # index
  /\ UNCHANGED <<worktree, head, trees, ref>>

\* git commit makes a new commit of the index; git reset --soft goes to any.
MoveHead ==
  /\ \E c \in Commits \ {head} :
       /\ head' = c
       /\ trees' = IF trees[c] = NoTree THEN [trees EXCEPT ![c] = index] ELSE trees
  /\ UNCHANGED <<worktree, index, ref>>

\* git switch --create, git switch --detach.
Switch ==
  /\ ref' \in Refs \ {ref}
  /\ UNCHANGED <<worktree, index, head, trees>>

\* Somebody else, or a check, edits the workspace or the repository.
Edit ==
  /\ Alive /\ edits < MaxEdits
  /\ EditWorktree \/ Stage \/ MoveHead \/ Switch
  /\ edits' = edits + 1
  /\ quiet' = FALSE
  /\ UNCHANGED <<program, collected, outcome, state_dir, followed>>
  /\ Trace

Ended == ~Alive /\ UNCHANGED vars

Collect ==
  \/ ReadHead \/ ReadRef \/ ReadStatus \/ ReadDiff \/ ReadDiffCached \/ ReadOthers
  \/ List \/ Inspect \/ ReadEntry \/ ReadSubmodule \/ ReadSubmoduleStatus

Next ==
  \/ Collect \/ Identified \/ Discover \/ StoreWrites \/ IdentifyAgain
  \/ IdentifiedAgain \/ Edit \/ Ended

Spec == Init /\ [][Next]_vars

-----------------------------------------------------------------------------
(* Properties.                                                             *)

\* source_unchanged compares two identities by what they have: of the workspace
\* the digest of the stream and the number of files.
Agree(a, b) ==
  /\ a.commit = b.commit /\ a.ref = b.ref /\ a.status = b.status
  /\ a.stream = b.stream /\ Cardinality(DOMAIN a.entries) = Cardinality(DOMAIN b.entries)
  /\ a.changed = b.changed

\* No file of it has a content that reads like the beginning of an entry.
Delimited(id) ==
  \A p \in DOMAIN id.entries : id.entries[p].is = "file" =>
    \A i \in DOMAIN Bytes[id.entries[p].data] : Bytes[id.entries[p].data][i][1] # "path"

\* If both identities agree, then the workspace was what they say, at every
\* moment from the end of the first collection to the start of the second, and
\* discovery read its manifest of that content: although neither collection was
\* atomic, and the contents of files have no length in the digest.  The
\* exceptions are edits that put something back to what it was, a link that took
\* a file's place while it was hashed, and a file that has a path with its length
\* in its content, as if an entry began there.
UnchangedIsSteady ==
  stage = "done" /\ Agree(source_after, source) /\ ~restored /\ ~followed
                  /\ Delimited(source) /\ Delimited(source_after) =>
    /\ drifted = {}
    /\ Manifest \in Covered(source) =>
         \A seen \in discovered :
           /\ seen[1] = KindIn(source, Manifest)
           /\ seen[1] # None => seen[2] = source.entries[Manifest].data

\* Identities that agree are of the same entries, whatever the files contain:
\* docs/RECEIPTS.md says that they cover path boundaries and file content, and
\* that a mutation makes the receipt fail.  It is violated, with nothing put back
\* and no link followed: a boundary that is in one file's content may move into
\* another's.
UnchangedMeansSame ==
  stage = "done" /\ Agree(source_after, source) /\ ~restored /\ ~followed =>
    source_after.entries = source.entries

\* A run that nobody disturbs never finds its source changed, unless its own
\* store is in the workspace where git lists it.
MismatchHasCause ==
  stage = "done" /\ ~Agree(source_after, source) =>
    \/ edits > 0
    \/ state_dir \in Paths /\ (state_dir \notin Ignored \/ index[state_dir] # NoEntry)

\* The dirty flag and the changed paths, collected by different commands, agree
\* when nothing is edited meanwhile: staged and then reverted, removed from the
\* index only, before the first commit.
DirtyHasPaths ==
  stage \in {"list", "hash", "read", "submodule_status"} /\ quiet =>
    (Dirty(partial.status) <=> partial.changed # {})

\* An undisturbed workspace has no identity exactly if a tracked path has been
\* deleted from it without telling git; no receipt can say so.
DeletedHasNoIdentity ==
  quiet =>
    /\ error = "missing" => \E p \in Cached : kind[p] = None
    /\ stage = "done" => \A p \in Cached : kind[p] # None
=============================================================================
