----------------------------- MODULE MCRunChecks -----------------------------
(* Small selections for RunChecks: prefixes of one order of the checks, as   *)
(* discovery sorts the checks by id.                                         *)
EXTENDS RunChecks

CONSTANTS c1, c2, c3

ThreePlans == {<<>>, <<c1>>, <<c1, c2, c3>>}

\* The clock moves in runs of at most one check on an unedited workspace.
ClockInShortRuns ==
  clock > 0 \/ stepped =>
    /\ Len(plan) <= 1 /\ workspace = source /\ source_after = source /\ out # "foreign"
=============================================================================
