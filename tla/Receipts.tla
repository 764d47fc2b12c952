------------------------------- MODULE Receipts -------------------------------
(***************************************************************************)
(* The data of a receipt (src/src/model.rs), the outcome the producer      *)
(* writes into it (receipt_outcome in execute.rs) and the outcome and the  *)
(* other invariants the verifier recomputes from it (verify_semantics in   *)
(* verify.rs).  The two computations are separate in the code and are kept *)
(* separate here: relating them is what the specifications of the          *)
(* components are for.                                                     *)
(***************************************************************************)
EXTENDS Integers, Sequences

CheckOutcomes == {"Passed", "Failed", "TimedOut", "Cancelled",
                  "LogLimitExceeded", "SpawnFailed", "Skipped"}
ReceiptOutcomes == {"Passed", "Failed", "Incomplete", "Cancelled"}

\* checks is a sequence of executions, records with at least the fields id,
\* outcome, started and completed.
OutcomesOf(checks) == {checks[i].outcome : i \in DOMAIN checks}
IdsOf(checks) == {checks[i].id : i \in DOMAIN checks}
AllPassed(checks) == \A i \in DOMAIN checks : checks[i].outcome = "Passed"

\* What run_checks writes: the token's state counts as well as the checks'.
receipt_outcome(checks, gaps, cancelled, unchanged) ==
  IF cancelled \/ "Cancelled" \in OutcomesOf(checks) THEN "Cancelled"
  ELSE IF ~unchanged \/ ~AllPassed(checks) THEN "Failed"
  ELSE IF checks = <<>> \/ gaps THEN "Incomplete"
  ELSE "Passed"

\* What the verifier expects: it has the checks and the gaps, not the token.
expected_outcome(receipt) ==
  IF "Cancelled" \in OutcomesOf(receipt.checks) THEN "Cancelled"
  ELSE IF ~receipt.source_unchanged \/ ~AllPassed(receipt.checks) THEN "Failed"
  ELSE IF receipt.checks = <<>> \/ receipt.gaps THEN "Incomplete"
  ELSE "Passed"

\* The problems verify_semantics pushes, one name per message.  The one for a log
\* reference whose handle is not that of its digest is left out: the references
\* of a run are built from their digests (persist_log), so they fit.
verify_semantics(receipt) ==
  LET checks == receipt.checks
      Found(name, cond) == IF cond THEN {name} ELSE {}
  IN  Found("discovery source", receipt.source # receipt.discovery_source)
      \cup Found("source_unchanged",
                 receipt.source_unchanged # (receipt.source = receipt.source_after))
      \cup Found("receipt time", receipt.completed < receipt.started)
      \cup Found("selection", receipt.selected # IdsOf(checks))
      \cup Found("duplicate",
                 \E i, j \in DOMAIN checks : i # j /\ checks[i].id = checks[j].id)
      \cup Found("check time",
                 \E i \in DOMAIN checks : checks[i].completed < checks[i].started)
      \cup Found("outcome", receipt.outcome # expected_outcome(receipt))
=============================================================================
