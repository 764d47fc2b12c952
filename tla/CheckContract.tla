---------------------------- MODULE CheckContract ----------------------------
(***************************************************************************)
(* What a call of execute_check promises its caller, run_checks: at some   *)
(* point it returns one outcome or an error.  The outcome has a cause that *)
(* holds when it returns; the logs it recorded are final, and every        *)
(* process of the check's group is dead that can be killed: what the check *)
(* left behind cannot add to its evidence.                                 *)
(***************************************************************************)
EXTENDS Naturals

CONSTANTS
  Processes,   \* the processes of the check's group
  Limit        \* the combined log limit

VARIABLES
  status,      \* "running", "returned" or "failed"
  verdict,     \* the outcome returned, or "none"
  alive,       \* processes of the group that are not dead and reaped
  immune,      \* processes that may be beyond the reach of a signal
  logged,      \* size of what the check has written to its two streams
  cancelled,   \* the cancellation token
  expired      \* the deadline has passed

vars == <<status, verdict, alive, immune, logged, cancelled, expired>>

Init ==
  /\ status = "running" /\ verdict = "none"
  /\ alive = {} /\ immune = {} /\ logged = 0
  /\ cancelled \in BOOLEAN /\ expired = FALSE

\* The check runs: processes come and go, and one of them writes.  After an
\* error it may still be running, unsupervised.
Run ==
  /\ status # "returned"
  /\ alive' \in SUBSET Processes /\ immune' \in SUBSET Processes
  /\ logged' \in {logged, logged + 1}
  /\ UNCHANGED <<status, verdict, cancelled, expired>>

\* After an outcome only what could not be killed lives on, and forks.  When
\* all are dead they stay so, and the logs do not change.
Linger ==
  /\ status = "returned"
  /\ immune' \in SUBSET Processes
  /\ alive' \in SUBSET immune'
  /\ alive = {} => alive' = {}
  /\ UNCHANGED <<status, verdict, logged, cancelled, expired>>

Cancel == cancelled' = TRUE /\ UNCHANGED <<status, verdict, alive, immune, logged, expired>>
Expire == expired' = TRUE /\ UNCHANGED <<status, verdict, alive, immune, logged, cancelled>>

\* The outcomes for which there is cause now.
Justified ==
  {"SpawnFailed"}
    \cup (IF cancelled THEN {"Cancelled"} ELSE {})
    \cup (IF expired THEN {"TimedOut"} ELSE {})
    \cup (IF logged > Limit THEN {"LogLimitExceeded"} ELSE {"Passed", "Failed"})

Return ==
  /\ status = "running"
  /\ alive \subseteq immune
  /\ verdict' \in Justified
  /\ status' = "returned"
  /\ UNCHANGED <<alive, immune, logged, cancelled, expired>>

Fail ==
  /\ status = "running"
  /\ status' = "failed"
  /\ UNCHANGED <<verdict, alive, immune, logged, cancelled, expired>>

Next == Run \/ Linger \/ Cancel \/ Expire \/ Return \/ Fail

Spec == Init /\ [][Next]_vars
=============================================================================
