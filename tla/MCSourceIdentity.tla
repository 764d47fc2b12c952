---------------------------- MODULE MCSourceIdentity ----------------------------
(* A manifest and a path that .gitignore excludes but that may be tracked,   *)
(* in repositories before and after the first commit, with a submodule, with *)
(* staged changes, with a tracked file deleted, and with two files that have *)
(* been changed and that have the boundary between them in the content of    *)
(* the second one.                                                           *)
EXTENDS SourceIdentity, TLC

CONSTANTS manifest, other, first, second, main

MCRank == manifest :> 1 @@ other :> 2

\* A text, and the text twice with the end of one entry and the beginning of the
\* other one between.
Text == <<<<"text", 0>>>>
MCBytes == 0 :> Text @@ 1 :> Text \o <<<<"bit", FALSE>>, <<"path", other>>, <<"file">>>> \o Text

Old == [is |-> "file", data |-> 0, mode |-> FALSE]
New == [is |-> "file", data |-> 1, mode |-> FALSE]
Script == [is |-> "file", data |-> 0, mode |-> TRUE]
Sub == [is |-> "submodule", data |-> 0, mode |-> FALSE]
TreeOf(m, o) == (manifest :> m @@ other :> o)

\* What is in the last commit, the index and the workspace for two paths.
AWorld(c, i, w, at) ==
  [kind |-> [p \in Paths |-> w[p].is],
   data |-> [p \in Paths |-> IF w[p] = NoEntry THEN 0 ELSE w[p].data],
   mode |-> [p \in Paths |-> FALSE],
   index |-> i, head |-> at, ref |-> main,
   trees |-> [k \in Commits |-> IF k = at THEN c ELSE NoTree]]

Changed == AWorld(TreeOf(NoEntry, Script), TreeOf(NoEntry, Script), TreeOf(Old, New), first)

ChangedWorlds == {Changed}
MCWorlds ==
  {Changed,
   AWorld(TreeOf(Old, NoEntry), TreeOf(Old, NoEntry), TreeOf(Old, NoEntry), first),
   AWorld(TreeOf(Old, Sub), TreeOf(Old, Sub), TreeOf(Old, Sub), first),
   AWorld(TreeOf(Old, Old), TreeOf(New, Old), TreeOf(Old, NoEntry), first),
   AWorld(EmptyTree, TreeOf(NoEntry, NoEntry), TreeOf(Old, NoEntry), Unborn)}
=============================================================================
