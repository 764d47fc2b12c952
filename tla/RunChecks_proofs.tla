--------------------------- MODULE RunChecks_proofs ---------------------------
(***************************************************************************)
(* Proofs about RunChecks, for any set of checks, any set of plans without *)
(* duplicates and of any length, any contents of the workspace and any     *)
(* readings of the clock.                                                  *)
(*                                                                         *)
(* The properties speak of the executions, the receipt and the exit code   *)
(* of states far apart.  The inductive invariant ties them together: the   *)
(* executions are a prefix of the plan, the fail-fast flag sums up their   *)
(* outcomes, and a receipt, once built, says what these variables, which   *)
(* no longer change, still say.                                            *)
(***************************************************************************)
EXTENDS RunChecks, SequenceTheorems, TLAPS

Early == {"preflight", "identify", "discover", "open_store", "run_checks"}
Late == {"write_receipt", "announce", "publish", "emit"}
Gone == {"exited", "killed"}

InvPlan == plan = <<>> \/ plan \in Plans

\* The executions are a prefix of the plan, and all of it after the loop.
InvLoop ==
  /\ step \in Early => executions = <<>>
  /\ Len(executions) <= Len(plan)
  /\ step = "in_check" => Len(executions) < Len(plan)
  /\ step \in {"identify_again", "decide"} \cup Late => Len(executions) = Len(plan)
  /\ \A i \in 1..Len(executions) : executions[i].id = plan[i]

\* The flag assigned after the last execution speaks for all of them.
InvStop ==
  stop <=> invocation.fail_fast
             /\ \E i \in 1..Len(executions) : executions[i].outcome # "Passed"

\* Unless the clock was stepped back, nothing ends before it starts.
InvTimes ==
  ~stepped =>
    /\ started.run <= clock /\ started.check <= clock
    /\ \A i \in 1..Len(executions) : executions[i].started <= executions[i].completed
    /\ receipt # NoReceipt => receipt.started <= receipt.completed

\* A receipt is built once, of variables that change no more; the token it
\* saw may have been set since.
InvReceipt ==
  /\ step \in Late => receipt # NoReceipt
  /\ receipt # NoReceipt =>
       /\ step \in Late \cup Gone
       /\ Len(executions) = Len(plan)
       /\ receipt.source = source /\ receipt.discovery_source = source
       /\ receipt.source_after = source_after
       /\ receipt.source_unchanged = (source_after = source)
       /\ receipt.selected = {plan[i] : i \in DOMAIN plan}
       /\ receipt.checks = executions /\ receipt.gaps = gaps
       /\ \/ receipt.outcome = receipt_outcome(executions, gaps, FALSE, source_after = source)
          \/ receipt.outcome = "Cancelled" /\ cancelled

InvStored ==
  /\ step \in {"announce", "publish", "emit"} => stored
  /\ stored => receipt # NoReceipt

InvOut ==
  /\ ~invocation.receipt_out => out = "absent"
  /\ out = "receipt" => stored
  /\ step = "emit" /\ invocation.receipt_out => out = "receipt"
  /\ out = "receipt" => step \in {"emit"} \cup Gone

InvExit == exit # NoExit <=> step = "exited"

IInv ==
  /\ TypeOK /\ InvPlan /\ InvLoop /\ InvStop /\ FailFast /\ InvTimes
  /\ InvReceipt /\ InvStored /\ InvOut /\ InvExit /\ ExitCodeTells

-----------------------------------------------------------------------------
(* Each lemma below shows that a step keeps one part of IInv.              *)

USE DEF Steps, Early, Late, Gone, NoExit, ExitCodes, Goto, Exit, Abort
USE DEF Record, Alive, Handling, vars, command, discovered, loop, result, world
USE PlansAssumption, ClockAssumption

\* Discovery either returns a plan or ends the run.
LEMMA DiscoverStep ==
  ASSUME Discover
  PROVE  /\ step = "discover"
         /\ UNCHANGED <<source, loop, result, world, invocation>>
         /\ \/ step' = "open_store" /\ exit' = exit /\ plan' \in Plans /\ gaps' \in BOOLEAN
            \/ step' = "exited" /\ exit' \in {3, 5, 6, 101} /\ UNCHANGED <<plan, gaps>>
<1>1. CASE Goto("open_store") /\ plan' \in Plans
             /\ gaps' \in IF plan' = <<>> THEN {TRUE} ELSE BOOLEAN
  BY <1>1 DEF Discover
<1>2. CASE Abort({3, 5, 6}) /\ UNCHANGED <<plan, gaps>>
  BY <1>2 DEF Discover
<1>3. QED
  BY <1>1, <1>2 DEF Discover

\* The plan is empty or one that discovery may return.
LEMMA InvPlanKept == IInv /\ [Next]_vars => InvPlan'
<1> SUFFICES ASSUME IInv, [Next]_vars PROVE InvPlan'
  OBVIOUS
<1>0. InvPlan
  BY DEF IInv
<1> USE <1>0 DEF InvPlan
<1>1. CASE Preflight \/ Identify \/ OpenStore
  BY <1>1 DEF Preflight, Identify, OpenStore
<1>2. CASE Discover
  BY <1>2 DEF Discover
<1>3. CASE StartRun \/ StartCheck \/ EndLoop \/ ExecuteFails
  BY <1>3 DEF StartRun, StartCheck, EndLoop, ExecuteFails
<1>4. CASE ExecuteCheck
  BY <1>4 DEF ExecuteCheck
<1>5. CASE SkipCheck
  BY <1>5 DEF SkipCheck
<1>6. CASE IdentifyAgain \/ Decide \/ WriteReceipt \/ Announce
  BY <1>6 DEF IdentifyAgain, Decide, WriteReceipt, Announce
<1>7. CASE Publish \/ EmitReceipt \/ ProgressPanics
  BY <1>7 DEF Publish, EmitReceipt, ProgressPanics
<1>8. CASE \/ Edit \/ Occupy \/ Interrupt \/ Crash
           \/ Tick \/ StepClockBack \/ UNCHANGED vars
  BY <1>8 DEF Edit, Occupy, Interrupt, Crash, Tick, StepClockBack
<1>9. QED
  BY <1>1, <1>2, <1>3, <1>4, <1>5, <1>6, <1>7, <1>8
     DEF Next, Process, World, Ended

\* There is an exit code exactly when the process has exited.
LEMMA InvExitKept == IInv /\ [Next]_vars => InvExit'
<1> SUFFICES ASSUME IInv, [Next]_vars PROVE InvExit'
  OBVIOUS
<1>0. InvExit
  BY DEF IInv
<1> USE <1>0 DEF InvExit
<1>1. CASE Discover
  BY <1>1, DiscoverStep
<1>2. CASE Preflight \/ Identify \/ OpenStore
  BY <1>2 DEF Preflight, Identify, OpenStore
<1>3. CASE StartRun \/ StartCheck \/ EndLoop \/ ExecuteFails
  BY <1>3 DEF StartRun, StartCheck, EndLoop, ExecuteFails
<1>4. CASE ExecuteCheck
  BY <1>4 DEF ExecuteCheck
<1>5. CASE SkipCheck
  BY <1>5 DEF SkipCheck
<1>6. CASE IdentifyAgain \/ Decide \/ WriteReceipt \/ Announce
  BY <1>6 DEF IdentifyAgain, Decide, WriteReceipt, Announce
<1>7. CASE Publish \/ EmitReceipt \/ ProgressPanics
  BY <1>7 DEF Publish, EmitReceipt, ProgressPanics
<1>8. CASE \/ Edit \/ Occupy \/ Interrupt \/ Crash
           \/ Tick \/ StepClockBack \/ UNCHANGED vars
  BY <1>8 DEF Edit, Occupy, Interrupt, Crash, Tick, StepClockBack
<1>9. QED
  BY <1>1, <1>2, <1>3, <1>4, <1>5, <1>6, <1>7, <1>8
     DEF Next, Process, World, Ended

\* The portable copy is there once it is published, and not before.
LEMMA InvOutKept == IInv /\ [Next]_vars => InvOut'
<1> SUFFICES ASSUME IInv, [Next]_vars PROVE InvOut'
  OBVIOUS
<1>0. InvOut /\ InvStored /\ TypeOK
  BY DEF IInv
<1> USE <1>0 DEF InvOut, InvStored, TypeOK
<1>1. CASE Preflight \/ Identify \/ OpenStore
  BY <1>1 DEF Preflight, Identify, OpenStore
<1>2. CASE Discover
  BY <1>2 DEF Discover
<1>3. CASE StartRun \/ StartCheck \/ EndLoop \/ ExecuteFails
  BY <1>3 DEF StartRun, StartCheck, EndLoop, ExecuteFails
<1>4. CASE ExecuteCheck
  BY <1>4 DEF ExecuteCheck
<1>5. CASE SkipCheck
  BY <1>5 DEF SkipCheck
<1>6. CASE IdentifyAgain \/ Decide \/ WriteReceipt \/ Announce
  BY <1>6 DEF IdentifyAgain, Decide, WriteReceipt, Announce
<1>7. CASE Publish \/ EmitReceipt \/ ProgressPanics
  BY <1>7 DEF Publish, EmitReceipt, ProgressPanics
<1>8. CASE \/ Edit \/ Occupy \/ Interrupt \/ Crash
           \/ Tick \/ StepClockBack \/ UNCHANGED vars
  BY <1>8 DEF Edit, Occupy, Interrupt, Crash, Tick, StepClockBack
<1>9. QED
  BY <1>1, <1>2, <1>3, <1>4, <1>5, <1>6, <1>7, <1>8
     DEF Next, Process, World, Ended

\* Only a receipt that was built is stored.
LEMMA InvStoredKept == IInv /\ [Next]_vars => InvStored'
<1> SUFFICES ASSUME IInv, [Next]_vars PROVE InvStored'
  OBVIOUS
<1>0. InvStored /\ InvReceipt
  BY DEF IInv
<1> USE <1>0 DEF InvStored, InvReceipt
<1>1. CASE Decide
  BY <1>1 DEF Decide, NoReceipt
<1>2. CASE Preflight \/ Identify \/ OpenStore
  BY <1>2 DEF Preflight, Identify, OpenStore
<1>3. CASE Discover
  BY <1>3 DEF Discover
<1>4. CASE StartRun \/ StartCheck \/ EndLoop \/ ExecuteFails
  BY <1>4 DEF StartRun, StartCheck, EndLoop, ExecuteFails
<1>5. CASE ExecuteCheck
  BY <1>5 DEF ExecuteCheck
<1>6. CASE SkipCheck
  BY <1>6 DEF SkipCheck
<1>7. CASE IdentifyAgain \/ WriteReceipt \/ Announce
  BY <1>7 DEF IdentifyAgain, WriteReceipt, Announce
<1>8. CASE Publish \/ EmitReceipt \/ ProgressPanics
  BY <1>8 DEF Publish, EmitReceipt, ProgressPanics
<1>9. CASE \/ Edit \/ Occupy \/ Interrupt \/ Crash
           \/ Tick \/ StepClockBack \/ UNCHANGED vars
  BY <1>9 DEF Edit, Occupy, Interrupt, Crash, Tick, StepClockBack
<1>10. QED
  BY <1>1, <1>2, <1>3, <1>4, <1>5, <1>6, <1>7, <1>8, <1>9
     DEF Next, Process, World, Ended

\* The executions recorded so far grow by one, and the rest of them stays.
LEMMA RecordAppends ==
  ASSUME TypeOK, InvLoop, step = "in_check", NEW outcome \in CheckOutcomes,
         NEW from \in Clock, Record(outcome, from)
  PROVE  /\ Len(executions') = Len(executions) + 1
         /\ \A i \in 1..Len(executions) : executions'[i] = executions[i]
         /\ executions'[Len(executions) + 1] =
              [id |-> plan[Len(executions) + 1], outcome |-> outcome,
               started |-> from, completed |-> clock]
         /\ plan[Len(executions) + 1] \in Checks
         /\ executions' \in Seq(Execution) /\ events' \in Seq(Event)
<1>1. Len(executions) \in Nat /\ Len(executions) + 1 \in 1..Len(plan)
  BY DEF TypeOK, InvLoop
<1>2. plan[Len(executions) + 1] \in Checks
  BY <1>1 DEF TypeOK
<1>3. [id |-> plan[Len(executions) + 1], outcome |-> outcome,
       started |-> from, completed |-> clock] \in Execution
  BY <1>2 DEF TypeOK, Execution
<1>4. [state |-> "CheckFinished", id |-> plan[Len(executions) + 1],
       outcome |-> outcome] \in Event
  BY <1>2 DEF Event
<1>5. QED
  BY <1>1, <1>2, <1>3, <1>4 DEF TypeOK, Emit

\* The executions stay a prefix of the plan.
LEMMA InvLoopKept == IInv /\ [Next]_vars => InvLoop'
<1> SUFFICES ASSUME IInv, [Next]_vars PROVE InvLoop'
  OBVIOUS
<1>0. InvLoop /\ InvReceipt /\ InvPlan /\ TypeOK
  BY DEF IInv
<1> USE <1>0 DEF InvLoop, InvReceipt, InvPlan, TypeOK
<1>1. CASE Discover
  BY <1>1, DiscoverStep DEF IsPlan
<1>2. CASE ExecuteCheck
  <2>1. PICK outcome \in CheckOutcomes : Record(outcome, started.check)
    BY <1>2 DEF ExecuteCheck
  <2>2. QED
    BY <1>2, <2>1, RecordAppends DEF ExecuteCheck
<1>3. CASE SkipCheck
  BY <1>3, RecordAppends DEF SkipCheck, CheckOutcomes
<1>4. CASE Preflight \/ Identify \/ OpenStore
  BY <1>4 DEF Preflight, Identify, OpenStore
<1>5. CASE StartRun \/ StartCheck \/ EndLoop \/ ExecuteFails
  BY <1>5 DEF StartRun, StartCheck, EndLoop, ExecuteFails
<1>6. CASE IdentifyAgain \/ Decide \/ WriteReceipt \/ Announce
  BY <1>6 DEF IdentifyAgain, Decide, WriteReceipt, Announce
<1>7. CASE Publish \/ EmitReceipt \/ ProgressPanics
  BY <1>7 DEF Publish, EmitReceipt, ProgressPanics
<1>8. CASE \/ Edit \/ Occupy \/ Interrupt \/ Crash
           \/ Tick \/ StepClockBack \/ UNCHANGED vars
  BY <1>8 DEF Edit, Occupy, Interrupt, Crash, Tick, StepClockBack
<1>9. QED
  BY <1>1, <1>2, <1>3, <1>4, <1>5, <1>6, <1>7, <1>8
     DEF Next, Process, World, Ended

\* The fail-fast flag keeps speaking for all executions.
LEMMA InvStopKept == IInv /\ [Next]_vars => InvStop'
<1> SUFFICES ASSUME IInv, [Next]_vars PROVE InvStop'
  OBVIOUS
<1>0. InvLoop /\ InvStop /\ TypeOK
  BY DEF IInv
<1> USE <1>0
<1>1. CASE Discover
  <2>1. UNCHANGED <<stop, invocation, executions>>
    BY <1>1, DiscoverStep
  <2>2. QED
    BY <2>1 DEF InvStop
<1>2. CASE ExecuteCheck
  <2>1. PICK outcome \in CheckOutcomes : Record(outcome, started.check)
    BY <1>2 DEF ExecuteCheck
  <2>2. (stop' <=> (invocation.fail_fast /\ outcome # "Passed")) /\ invocation' = invocation
    BY <2>1
  <2>3. /\ Len(executions) \in Nat /\ Len(executions') = Len(executions) + 1
        /\ \A i \in 1..Len(executions) : executions'[i] = executions[i]
        /\ executions'[Len(executions) + 1].outcome = outcome
    BY <1>2, <2>1, RecordAppends DEF ExecuteCheck, TypeOK
  <2>4. invocation.fail_fast => \A i \in 1..Len(executions) : executions[i].outcome = "Passed"
    BY <1>2 DEF ExecuteCheck, InvStop
  <2>5. QED
    BY <2>2, <2>3, <2>4 DEF InvStop
<1>3. CASE SkipCheck
  <2>1. Record("Skipped", clock) /\ stop
    BY <1>3 DEF SkipCheck
  <2>2. (stop' <=> invocation.fail_fast) /\ invocation' = invocation
    BY <2>1
  <2>3. /\ Len(executions) \in Nat /\ Len(executions') = Len(executions) + 1
        /\ \A i \in 1..Len(executions) : executions'[i] = executions[i]
    BY <1>3, <2>1, RecordAppends DEF SkipCheck, CheckOutcomes, TypeOK
  <2>4. QED
    BY <2>1, <2>2, <2>3 DEF InvStop
<1>4. CASE Preflight \/ Identify \/ OpenStore
  <2>1. UNCHANGED <<stop, invocation, executions>>
    BY <1>4 DEF Preflight, Identify, OpenStore
  <2>2. QED
    BY <2>1 DEF InvStop
<1>5. CASE StartRun \/ StartCheck \/ EndLoop \/ ExecuteFails
  <2>1. UNCHANGED <<stop, invocation, executions>>
    BY <1>5 DEF StartRun, StartCheck, EndLoop, ExecuteFails
  <2>2. QED
    BY <2>1 DEF InvStop
<1>6. CASE IdentifyAgain \/ Decide \/ WriteReceipt \/ Announce
  <2>1. UNCHANGED <<stop, invocation, executions>>
    BY <1>6 DEF IdentifyAgain, Decide, WriteReceipt, Announce
  <2>2. QED
    BY <2>1 DEF InvStop
<1>7. CASE Publish \/ EmitReceipt \/ ProgressPanics
  <2>1. UNCHANGED <<stop, invocation, executions>>
    BY <1>7 DEF Publish, EmitReceipt, ProgressPanics
  <2>2. QED
    BY <2>1 DEF InvStop
<1>8. CASE \/ Edit \/ Occupy \/ Interrupt \/ Crash
           \/ Tick \/ StepClockBack \/ UNCHANGED vars
  <2>1. UNCHANGED <<stop, invocation, executions>>
    BY <1>8 DEF Edit, Occupy, Interrupt, Crash, Tick, StepClockBack
  <2>2. QED
    BY <2>1 DEF InvStop
<1>9. QED
  BY <1>1, <1>2, <1>3, <1>4, <1>5, <1>6, <1>7, <1>8
     DEF Next, Process, World, Ended

\* A step records a skipped check only after one that did not pass.
LEMMA FailFastKept == IInv /\ [Next]_vars => FailFast'
<1> SUFFICES ASSUME IInv, [Next]_vars PROVE FailFast'
  OBVIOUS
<1>0. InvLoop /\ InvStop /\ TypeOK /\ FailFast
  BY DEF IInv
<1> USE <1>0
<1>1. CASE Discover
  <2>1. UNCHANGED <<executions, invocation>>
    BY <1>1, DiscoverStep
  <2>2. QED
    BY <2>1 DEF FailFast
<1>2. CASE ExecuteCheck
  <2>1. PICK outcome \in CheckOutcomes, from \in Clock :
          Record(outcome, from) /\ (outcome = "Skipped" <=> stop)
    BY <1>2 DEF ExecuteCheck, CheckOutcomes, TypeOK
  <2>2. invocation' = invocation /\ step = "in_check"
    BY <1>2, <2>1 DEF ExecuteCheck
  <2>3. /\ Len(executions) \in Nat /\ Len(executions') = Len(executions) + 1
        /\ \A i \in 1..Len(executions) : executions'[i] = executions[i]
        /\ executions'[Len(executions) + 1].outcome = outcome
        /\ executions' \in Seq(Execution)
    BY <2>1, <2>2, RecordAppends DEF TypeOK
  <2>4. /\ DOMAIN executions = 1..Len(executions)
        /\ DOMAIN executions' = 1..Len(executions) + 1
    BY <2>3 DEF TypeOK
  <2>5. ASSUME NEW j \in 1..Len(executions) + 1, j # Len(executions) + 1
        PROVE  (executions'[j].outcome = "Skipped") <=>
                  /\ invocation.fail_fast
                  /\ \E i \in 1..(j - 1) : executions'[i].outcome # "Passed"
    <3>1. /\ j \in 1..Len(executions)
          /\ \A i \in 1..(j - 1) : i \in 1..Len(executions)
      BY <2>3, <2>5
    <3>2. QED
      BY <2>3, <2>4, <3>1 DEF FailFast
  <2>6. (executions'[Len(executions) + 1].outcome = "Skipped") <=>
          invocation.fail_fast
            /\ \E i \in 1..(Len(executions) + 1 - 1) : executions'[i].outcome # "Passed"
    BY <2>1, <2>3 DEF InvStop
  <2>7. QED
    BY <2>2, <2>4, <2>5, <2>6 DEF FailFast
<1>3. CASE SkipCheck
  <2>1. PICK outcome \in CheckOutcomes, from \in Clock :
          Record(outcome, from) /\ (outcome = "Skipped" <=> stop)
    BY <1>3 DEF SkipCheck, CheckOutcomes, TypeOK
  <2>2. invocation' = invocation /\ step = "in_check"
    BY <1>3, <2>1 DEF SkipCheck
  <2>3. /\ Len(executions) \in Nat /\ Len(executions') = Len(executions) + 1
        /\ \A i \in 1..Len(executions) : executions'[i] = executions[i]
        /\ executions'[Len(executions) + 1].outcome = outcome
        /\ executions' \in Seq(Execution)
    BY <2>1, <2>2, RecordAppends DEF TypeOK
  <2>4. /\ DOMAIN executions = 1..Len(executions)
        /\ DOMAIN executions' = 1..Len(executions) + 1
    BY <2>3 DEF TypeOK
  <2>5. ASSUME NEW j \in 1..Len(executions) + 1, j # Len(executions) + 1
        PROVE  (executions'[j].outcome = "Skipped") <=>
                  /\ invocation.fail_fast
                  /\ \E i \in 1..(j - 1) : executions'[i].outcome # "Passed"
    <3>1. /\ j \in 1..Len(executions)
          /\ \A i \in 1..(j - 1) : i \in 1..Len(executions)
      BY <2>3, <2>5
    <3>2. QED
      BY <2>3, <2>4, <3>1 DEF FailFast
  <2>6. (executions'[Len(executions) + 1].outcome = "Skipped") <=>
          invocation.fail_fast
            /\ \E i \in 1..(Len(executions) + 1 - 1) : executions'[i].outcome # "Passed"
    BY <2>1, <2>3 DEF InvStop
  <2>7. QED
    BY <2>2, <2>4, <2>5, <2>6 DEF FailFast
<1>4. CASE Preflight \/ Identify \/ OpenStore
  <2>1. UNCHANGED <<executions, invocation>>
    BY <1>4 DEF Preflight, Identify, OpenStore
  <2>2. QED
    BY <2>1 DEF FailFast
<1>5. CASE StartRun \/ StartCheck \/ EndLoop \/ ExecuteFails
  <2>1. UNCHANGED <<executions, invocation>>
    BY <1>5 DEF StartRun, StartCheck, EndLoop, ExecuteFails
  <2>2. QED
    BY <2>1 DEF FailFast
<1>6. CASE IdentifyAgain \/ Decide \/ WriteReceipt \/ Announce
  <2>1. UNCHANGED <<executions, invocation>>
    BY <1>6 DEF IdentifyAgain, Decide, WriteReceipt, Announce
  <2>2. QED
    BY <2>1 DEF FailFast
<1>7. CASE Publish \/ EmitReceipt \/ ProgressPanics
  <2>1. UNCHANGED <<executions, invocation>>
    BY <1>7 DEF Publish, EmitReceipt, ProgressPanics
  <2>2. QED
    BY <2>1 DEF FailFast
<1>8. CASE \/ Edit \/ Occupy \/ Interrupt \/ Crash
           \/ Tick \/ StepClockBack \/ UNCHANGED vars
  <2>1. UNCHANGED <<executions, invocation>>
    BY <1>8 DEF Edit, Occupy, Interrupt, Crash, Tick, StepClockBack
  <2>2. QED
    BY <2>1 DEF FailFast
<1>9. QED
  BY <1>1, <1>2, <1>3, <1>4, <1>5, <1>6, <1>7, <1>8
     DEF Next, Process, World, Ended

\* What is recorded ended after it began, unless the clock was stepped back.
LEMMA InvTimesKept == IInv /\ [Next]_vars => InvTimes'
<1> SUFFICES ASSUME IInv, [Next]_vars PROVE InvTimes'
  OBVIOUS
<1>0. InvTimes /\ InvLoop /\ TypeOK
  BY DEF IInv
<1> USE <1>0
<1>1. CASE Discover
  <2>1. UNCHANGED <<stepped, started, clock, executions, receipt>>
    BY <1>1, DiscoverStep
  <2>2. QED
    BY <2>1 DEF InvTimes
<1>2. CASE StartRun
  BY <1>2 DEF StartRun, InvTimes, InvLoop, TypeOK, Clock
<1>3. CASE StartCheck
  BY <1>3 DEF StartCheck, InvTimes, TypeOK, Clock
<1>4. CASE ExecuteCheck
  <2>1. PICK outcome \in CheckOutcomes, from \in Clock :
          Record(outcome, from) /\ from \in {started.check, clock}
    BY <1>4 DEF ExecuteCheck, CheckOutcomes, TypeOK
  <2>2. UNCHANGED <<stepped, started, clock, receipt>> /\ step = "in_check"
    BY <1>4, <2>1 DEF ExecuteCheck
  <2>3. /\ Len(executions) \in Nat /\ Len(executions') = Len(executions) + 1
        /\ \A i \in 1..Len(executions) : executions'[i] = executions[i]
        /\ executions'[Len(executions) + 1].started = from
        /\ executions'[Len(executions) + 1].completed = clock
    BY <2>1, <2>2, RecordAppends DEF TypeOK
  <2>4. ~stepped => from <= clock
    BY <2>1 DEF InvTimes, TypeOK, Clock
  <2>5. QED
    BY <2>2, <2>3, <2>4 DEF InvTimes
<1>5. CASE SkipCheck
  <2>1. PICK outcome \in CheckOutcomes, from \in Clock :
          Record(outcome, from) /\ from \in {started.check, clock}
    BY <1>5 DEF SkipCheck, CheckOutcomes, TypeOK
  <2>2. UNCHANGED <<stepped, started, clock, receipt>> /\ step = "in_check"
    BY <1>5, <2>1 DEF SkipCheck
  <2>3. /\ Len(executions) \in Nat /\ Len(executions') = Len(executions) + 1
        /\ \A i \in 1..Len(executions) : executions'[i] = executions[i]
        /\ executions'[Len(executions) + 1].started = from
        /\ executions'[Len(executions) + 1].completed = clock
    BY <2>1, <2>2, RecordAppends DEF TypeOK
  <2>4. ~stepped => from <= clock
    BY <2>1 DEF InvTimes, TypeOK, Clock
  <2>5. QED
    BY <2>2, <2>3, <2>4 DEF InvTimes
<1>6. CASE Decide
  BY <1>6 DEF Decide, InvTimes, TypeOK, Clock
<1>7. CASE Tick
  BY <1>7 DEF Tick, InvTimes, TypeOK, Clock
<1>8. CASE StepClockBack
  BY <1>8 DEF StepClockBack, InvTimes
<1>9. CASE Preflight \/ Identify \/ OpenStore
  <2>1. UNCHANGED <<stepped, started, clock, executions, receipt>>
    BY <1>9 DEF Preflight, Identify, OpenStore
  <2>2. QED
    BY <2>1 DEF InvTimes
<1>10. CASE EndLoop \/ ExecuteFails
  <2>1. UNCHANGED <<stepped, started, clock, executions, receipt>>
    BY <1>10 DEF EndLoop, ExecuteFails
  <2>2. QED
    BY <2>1 DEF InvTimes
<1>11. CASE IdentifyAgain \/ WriteReceipt \/ Announce
  <2>1. UNCHANGED <<stepped, started, clock, executions, receipt>>
    BY <1>11 DEF IdentifyAgain, WriteReceipt, Announce
  <2>2. QED
    BY <2>1 DEF InvTimes
<1>12. CASE Publish \/ EmitReceipt \/ ProgressPanics
  <2>1. UNCHANGED <<stepped, started, clock, executions, receipt>>
    BY <1>12 DEF Publish, EmitReceipt, ProgressPanics
  <2>2. QED
    BY <2>1 DEF InvTimes
<1>13. CASE Edit \/ Occupy \/ Interrupt \/ Crash \/ UNCHANGED vars
  <2>1. UNCHANGED <<stepped, started, clock, executions, receipt>>
    BY <1>13 DEF Edit, Occupy, Interrupt, Crash
  <2>2. QED
    BY <2>1 DEF InvTimes
<1>14. QED
  BY <1>1, <1>2, <1>3, <1>4, <1>5, <1>6, <1>7, <1>8, <1>9, <1>10, <1>11,
     <1>12, <1>13
     DEF Next, Process, World, Ended

\* The receipt keeps saying what its variables say.
LEMMA InvReceiptKept == IInv /\ [Next]_vars => InvReceipt'
<1> SUFFICES ASSUME IInv, [Next]_vars PROVE InvReceipt'
  OBVIOUS
<1>0. InvReceipt /\ InvLoop
  BY DEF IInv
<1> USE <1>0
<1>1. CASE Preflight
  <2>1. receipt = NoReceipt /\ receipt' = NoReceipt /\ step' \notin Late
    BY <1>1 DEF InvReceipt, Preflight
  <2>2. QED
    BY <2>1 DEF InvReceipt
<1>2. CASE Identify
  <2>1. receipt = NoReceipt /\ receipt' = NoReceipt /\ step' \notin Late
    BY <1>2 DEF InvReceipt, Identify
  <2>2. QED
    BY <2>1 DEF InvReceipt
<1>3. CASE Discover
  <2>1. receipt = NoReceipt /\ receipt' = NoReceipt /\ step' \notin Late
    BY <1>3, DiscoverStep DEF InvReceipt
  <2>2. QED
    BY <2>1 DEF InvReceipt
<1>4. CASE OpenStore
  <2>1. receipt = NoReceipt /\ receipt' = NoReceipt /\ step' \notin Late
    BY <1>4 DEF InvReceipt, OpenStore
  <2>2. QED
    BY <2>1 DEF InvReceipt
<1>5. CASE StartRun
  <2>1. receipt = NoReceipt /\ receipt' = NoReceipt /\ step' \notin Late
    BY <1>5 DEF InvReceipt, StartRun
  <2>2. QED
    BY <2>1 DEF InvReceipt
<1>6. CASE StartCheck
  <2>1. receipt = NoReceipt /\ receipt' = NoReceipt /\ step' \notin Late
    BY <1>6 DEF InvReceipt, StartCheck
  <2>2. QED
    BY <2>1 DEF InvReceipt
<1>7. CASE EndLoop
  <2>1. receipt = NoReceipt /\ receipt' = NoReceipt /\ step' \notin Late
    BY <1>7 DEF InvReceipt, EndLoop
  <2>2. QED
    BY <2>1 DEF InvReceipt
<1>8. CASE ExecuteCheck
  <2>1. PICK outcome : Record(outcome, started.check)
    BY <1>8 DEF ExecuteCheck
  <2>2. receipt = NoReceipt /\ receipt' = NoReceipt /\ step' \notin Late
    BY <1>8, <2>1 DEF InvReceipt, ExecuteCheck
  <2>3. QED
    BY <2>2 DEF InvReceipt
<1>9. CASE SkipCheck
  <2>1. receipt = NoReceipt /\ receipt' = NoReceipt /\ step' \notin Late
    BY <1>9 DEF InvReceipt, SkipCheck
  <2>2. QED
    BY <2>1 DEF InvReceipt
<1>10. CASE ExecuteFails
  <2>1. receipt = NoReceipt /\ receipt' = NoReceipt /\ step' \notin Late
    BY <1>10 DEF InvReceipt, ExecuteFails
  <2>2. QED
    BY <2>1 DEF InvReceipt
<1>11. CASE IdentifyAgain
  <2>1. receipt = NoReceipt /\ receipt' = NoReceipt /\ step' \notin Late
    BY <1>11 DEF InvReceipt, IdentifyAgain
  <2>2. QED
    BY <2>1 DEF InvReceipt
<1>12. CASE Decide
  <2>1. receipt' # NoReceipt
    BY <1>12 DEF Decide, NoReceipt
  <2>2. /\ UNCHANGED <<source, source_after, executions, gaps, plan, cancelled>>
        /\ step' = "write_receipt"
    BY <1>12 DEF Decide
  <2>3. /\ receipt'.source = source /\ receipt'.discovery_source = source
        /\ receipt'.source_after = source_after
        /\ receipt'.source_unchanged = (source_after = source)
        /\ receipt'.selected = {plan[i] : i \in DOMAIN plan}
        /\ receipt'.checks = executions /\ receipt'.gaps = gaps
        /\ receipt'.outcome = RunOutcome
    BY <1>12 DEF Decide
  <2>4. \/ RunOutcome = receipt_outcome(executions, gaps, FALSE, source_after = source)
        \/ RunOutcome = "Cancelled" /\ cancelled
    BY DEF RunOutcome, receipt_outcome
  <2>5. Len(executions) = Len(plan)
    BY <1>12 DEF Decide, InvLoop
  <2>6. QED
    BY <2>1, <2>2, <2>3, <2>4, <2>5 DEF InvReceipt
<1>13. CASE WriteReceipt
  <2>1. /\ UNCHANGED <<source, source_after, executions, gaps, plan, receipt>>
        /\ (cancelled => cancelled')
    BY <1>13 DEF WriteReceipt
  <2>2. step' \in Late \cup Gone \/ step' = step
    BY <1>13 DEF WriteReceipt
  <2>3. step' \in Late => step \in Late
    BY <1>13 DEF WriteReceipt
  <2>4. QED
    BY <2>1, <2>2, <2>3 DEF InvReceipt
<1>14. CASE Announce
  <2>1. /\ UNCHANGED <<source, source_after, executions, gaps, plan, receipt>>
        /\ (cancelled => cancelled')
    BY <1>14 DEF Announce
  <2>2. step' \in Late \cup Gone \/ step' = step
    BY <1>14 DEF Announce
  <2>3. step' \in Late => step \in Late
    BY <1>14 DEF Announce
  <2>4. QED
    BY <2>1, <2>2, <2>3 DEF InvReceipt
<1>15. CASE Publish
  <2>1. /\ UNCHANGED <<source, source_after, executions, gaps, plan, receipt>>
        /\ (cancelled => cancelled')
    BY <1>15 DEF Publish
  <2>2. step' \in Late \cup Gone \/ step' = step
    BY <1>15 DEF Publish
  <2>3. step' \in Late => step \in Late
    BY <1>15 DEF Publish
  <2>4. QED
    BY <2>1, <2>2, <2>3 DEF InvReceipt
<1>16. CASE EmitReceipt
  <2>1. /\ UNCHANGED <<source, source_after, executions, gaps, plan, receipt>>
        /\ (cancelled => cancelled')
    BY <1>16 DEF EmitReceipt
  <2>2. step' \in Late \cup Gone \/ step' = step
    BY <1>16 DEF EmitReceipt
  <2>3. step' \in Late => step \in Late
    BY <1>16 DEF EmitReceipt
  <2>4. QED
    BY <2>1, <2>2, <2>3 DEF InvReceipt
<1>17. CASE ProgressPanics
  <2>1. /\ UNCHANGED <<source, source_after, executions, gaps, plan, receipt>>
        /\ (cancelled => cancelled')
    BY <1>17 DEF ProgressPanics
  <2>2. step' \in Late \cup Gone \/ step' = step
    BY <1>17 DEF ProgressPanics
  <2>3. step' \in Late => step \in Late
    BY <1>17 DEF ProgressPanics
  <2>4. QED
    BY <2>1, <2>2, <2>3 DEF InvReceipt
<1>18. CASE Interrupt
  <2>1. /\ UNCHANGED <<source, source_after, executions, gaps, plan, receipt>>
        /\ (cancelled => cancelled')
    BY <1>18 DEF Interrupt
  <2>2. step' \in Late \cup Gone \/ step' = step
    BY <1>18 DEF Interrupt
  <2>3. step' \in Late => step \in Late
    BY <1>18 DEF Interrupt
  <2>4. QED
    BY <2>1, <2>2, <2>3 DEF InvReceipt
<1>19. CASE Crash
  <2>1. /\ UNCHANGED <<source, source_after, executions, gaps, plan, receipt>>
        /\ (cancelled => cancelled')
    BY <1>19 DEF Crash
  <2>2. step' \in Late \cup Gone \/ step' = step
    BY <1>19 DEF Crash
  <2>3. step' \in Late => step \in Late
    BY <1>19 DEF Crash
  <2>4. QED
    BY <2>1, <2>2, <2>3 DEF InvReceipt
<1>20. CASE Edit \/ Occupy \/ Tick \/ StepClockBack \/ UNCHANGED vars
  <2>1. UNCHANGED <<step, source, source_after, executions, gaps, plan, receipt, cancelled>>
    BY <1>20 DEF Edit, Occupy, Tick, StepClockBack
  <2>2. QED
    BY <2>1 DEF InvReceipt
<1>21. QED
  BY <1>1, <1>2, <1>3, <1>4, <1>5, <1>6, <1>7, <1>8, <1>9, <1>10, <1>11,
     <1>12, <1>13, <1>14, <1>15, <1>16, <1>17, <1>18, <1>19, <1>20
     DEF Next, Process, World, Ended

\* The exit code is chosen where the receipt and the portable copy are what it says.
LEMMA ExitCodeTellsKept == IInv /\ [Next]_vars => ExitCodeTells'
<1> SUFFICES ASSUME IInv, [Next]_vars PROVE ExitCodeTells'
  OBVIOUS
<1>0. /\ ExitCodeTells
      /\ InvExit /\ InvOut /\ InvStored /\ InvLoop /\ InvReceipt /\ TypeOK
  BY DEF IInv
<1> USE <1>0
<1>1. CASE Preflight
  <2>1. exit' = NoExit \/ exit' \in {3, 4, 5, 6, 101}
    BY <1>1 DEF InvExit, Preflight
  <2>2. QED
    BY <2>1 DEF ExitCodeTells
<1>2. CASE Identify
  <2>1. exit' = NoExit \/ exit' \in {3, 4, 5, 6, 101}
    BY <1>2 DEF InvExit, Identify
  <2>2. QED
    BY <2>1 DEF ExitCodeTells
<1>3. CASE Discover
  <2>1. exit' = NoExit \/ exit' \in {3, 4, 5, 6, 101}
    BY <1>3, DiscoverStep DEF InvExit
  <2>2. QED
    BY <2>1 DEF ExitCodeTells
<1>4. CASE OpenStore
  <2>1. exit' = NoExit \/ exit' \in {3, 4, 5, 6, 101}
    BY <1>4 DEF InvExit, OpenStore
  <2>2. QED
    BY <2>1 DEF ExitCodeTells
<1>5. CASE StartRun
  <2>1. exit' = NoExit \/ exit' \in {3, 4, 5, 6, 101}
    BY <1>5 DEF InvExit, StartRun
  <2>2. QED
    BY <2>1 DEF ExitCodeTells
<1>6. CASE StartCheck
  <2>1. exit' = NoExit \/ exit' \in {3, 4, 5, 6, 101}
    BY <1>6 DEF InvExit, StartCheck
  <2>2. QED
    BY <2>1 DEF ExitCodeTells
<1>7. CASE EndLoop
  <2>1. exit' = NoExit \/ exit' \in {3, 4, 5, 6, 101}
    BY <1>7 DEF InvExit, EndLoop
  <2>2. QED
    BY <2>1 DEF ExitCodeTells
<1>8. CASE ExecuteCheck
  <2>1. exit' = NoExit \/ exit' \in {3, 4, 5, 6, 101}
    BY <1>8 DEF InvExit, ExecuteCheck
  <2>2. QED
    BY <2>1 DEF ExitCodeTells
<1>9. CASE SkipCheck
  <2>1. exit' = NoExit \/ exit' \in {3, 4, 5, 6, 101}
    BY <1>9 DEF InvExit, SkipCheck
  <2>2. QED
    BY <2>1 DEF ExitCodeTells
<1>10. CASE ExecuteFails
  <2>1. exit' = NoExit \/ exit' \in {3, 4, 5, 6, 101}
    BY <1>10 DEF InvExit, ExecuteFails
  <2>2. QED
    BY <2>1 DEF ExitCodeTells
<1>11. CASE IdentifyAgain
  <2>1. exit' = NoExit \/ exit' \in {3, 4, 5, 6, 101}
    BY <1>11 DEF InvExit, IdentifyAgain
  <2>2. QED
    BY <2>1 DEF ExitCodeTells
<1>12. CASE Decide
  <2>1. exit' = NoExit \/ exit' \in {3, 4, 5, 6, 101}
    BY <1>12 DEF InvExit, Decide
  <2>2. QED
    BY <2>1 DEF ExitCodeTells
<1>13. CASE WriteReceipt
  <2>1. exit' = NoExit \/ exit' \in {3, 4, 5, 6, 101}
    BY <1>13 DEF InvExit, WriteReceipt
  <2>2. QED
    BY <2>1 DEF ExitCodeTells
<1>14. CASE Announce
  <2>1. exit' = NoExit \/ exit' \in {3, 4, 5, 6, 101}
    BY <1>14 DEF InvExit, Announce
  <2>2. QED
    BY <2>1 DEF ExitCodeTells
<1>15. CASE Publish
  <2>1. /\ exit' \in {NoExit, 7, 101}
        /\ ~invocation.receipt_out => exit' = NoExit
    BY <1>15 DEF Publish, InvExit
  <2>2. UNCHANGED <<stored, executions, plan, gaps, source, source_after, receipt, invocation>>
    BY <1>15 DEF Publish
  <2>3. exit' = 7 => out' = out
    BY <1>15 DEF Publish, InvExit
  <2>4. out # "receipt" /\ stored /\ Len(executions) = Len(plan)
    BY <1>15 DEF Publish, InvOut, InvStored, InvLoop
  <2>5. QED
    BY <2>1, <2>2, <2>3, <2>4 DEF ExitCodeTells
<1>16. CASE EmitReceipt
  <2>1. UNCHANGED <<stored, executions, plan, gaps, source, source_after, receipt, invocation, out>>
    BY <1>16 DEF EmitReceipt
  <2>2. /\ stored /\ receipt # NoReceipt /\ Len(executions) = Len(plan)
        /\ invocation.receipt_out => out = "receipt"
    BY <1>16 DEF EmitReceipt, InvOut, InvStored, InvLoop, InvReceipt
  <2>3. \/ exit' = 0 /\ receipt.outcome = "Passed"
        \/ exit' = 1 /\ receipt.outcome # "Passed"
        \/ exit' \in {5, 6, 101}
    BY <1>16 DEF EmitReceipt
  <2>4. ASSUME receipt.outcome = "Passed"
        PROVE  plan # <<>> /\ ~gaps /\ AllPassed(executions) /\ source_after = source
    <3>1. "Passed" = receipt_outcome(executions, gaps, FALSE, source_after = source)
      BY <2>2, <2>4 DEF InvReceipt
    <3>2. /\ executions # <<>>
          /\ ~gaps /\ AllPassed(executions) /\ source_after = source
      BY <3>1 DEF receipt_outcome
    <3>3. plan # <<>>
      BY <2>2, <3>2 DEF TypeOK
    <3>4. QED
      BY <3>2, <3>3
  <2>5. QED
    BY <2>1, <2>2, <2>3, <2>4 DEF ExitCodeTells
<1>17. CASE ProgressPanics
  <2>1. exit' = NoExit \/ exit' \in {3, 4, 5, 6, 101}
    BY <1>17 DEF InvExit, ProgressPanics
  <2>2. QED
    BY <2>1 DEF ExitCodeTells
<1>18. CASE Edit
  <2>1. exit' = NoExit \/ exit' \in {3, 4, 5, 6, 101}
    BY <1>18 DEF InvExit, Edit
  <2>2. QED
    BY <2>1 DEF ExitCodeTells
<1>19. CASE Occupy
  <2>1. exit' = NoExit \/ exit' \in {3, 4, 5, 6, 101}
    BY <1>19 DEF InvExit, Occupy
  <2>2. QED
    BY <2>1 DEF ExitCodeTells
<1>20. CASE Interrupt
  <2>1. exit' = NoExit \/ exit' \in {3, 4, 5, 6, 101}
    BY <1>20 DEF InvExit, Interrupt
  <2>2. QED
    BY <2>1 DEF ExitCodeTells
<1>21. CASE Crash
  <2>1. exit' = NoExit \/ exit' \in {3, 4, 5, 6, 101}
    BY <1>21 DEF InvExit, Crash
  <2>2. QED
    BY <2>1 DEF ExitCodeTells
<1>22. CASE Tick
  <2>1. exit' = NoExit \/ exit' \in {3, 4, 5, 6, 101}
    BY <1>22 DEF InvExit, Tick
  <2>2. QED
    BY <2>1 DEF ExitCodeTells
<1>23. CASE StepClockBack
  <2>1. exit' = NoExit \/ exit' \in {3, 4, 5, 6, 101}
    BY <1>23 DEF InvExit, StepClockBack
  <2>2. QED
    BY <2>1 DEF ExitCodeTells
<1>24. CASE UNCHANGED vars
  <2>1. UNCHANGED vars
    BY <1>24
  <2>2. QED
    BY <2>1 DEF ExitCodeTells
<1>25. QED
  BY <1>1, <1>2, <1>3, <1>4, <1>5, <1>6, <1>7, <1>8, <1>9, <1>10, <1>11,
     <1>12, <1>13, <1>14, <1>15, <1>16, <1>17, <1>18, <1>19, <1>20, <1>21,
     <1>22, <1>23, <1>24
     DEF Next, Process, World, Ended

\* Every variable keeps its type.
LEMMA TypeOKKept == IInv /\ [Next]_vars => TypeOK'
<1> SUFFICES ASSUME IInv, [Next]_vars PROVE TypeOK'
  OBVIOUS
<1>0. TypeOK /\ InvLoop /\ InvPlan
  BY DEF IInv
<1> USE <1>0 DEF TypeOK, Clock
<1>1. CASE Preflight
  <2>1. step' \in Steps /\ exit' \in ExitCodes \cup {NoExit}
    BY <1>1 DEF Preflight
  <2>2. UNCHANGED <<discovered, loop, result, world, invocation>>
    BY <1>1 DEF Preflight
  <2>3. QED
    BY <2>1, <2>2
<1>2. CASE Discover
  BY <1>2, DiscoverStep, SMTT(30) DEF IsPlan
<1>3. CASE StartCheck
  <2>1. Len(executions) + 1 \in 1..Len(plan)
    BY <1>3 DEF StartCheck
  <2>2. [state |-> "CheckStarted", id |-> plan[Len(executions) + 1]] \in Event
    BY <2>1 DEF Event
  <2>3. QED
    BY <1>3, <2>2 DEF StartCheck, Emit
<1>4. CASE ExecuteCheck
  <2>1. PICK outcome \in CheckOutcomes, from \in Clock : Record(outcome, from)
    BY <1>4 DEF ExecuteCheck, CheckOutcomes
  <2>2. /\ step = "in_check"
        /\ strayed' \in BOOLEAN /\ UNCHANGED <<workspace, cancelled, out, clock, stepped>>
    BY <1>4 DEF ExecuteCheck
  <2>3. executions' \in Seq(Execution) /\ events' \in Seq(Event)
    BY <2>1, <2>2, RecordAppends
  <2>4. /\ step' \in Steps
        /\ stop' \in BOOLEAN /\ UNCHANGED <<exit, invocation, discovered, result, started>>
    BY <2>1
  <2>5. QED
    BY <2>2, <2>3, <2>4
<1>5. CASE SkipCheck
  <2>1. PICK outcome \in CheckOutcomes, from \in Clock : Record(outcome, from)
    BY <1>5 DEF SkipCheck, CheckOutcomes
  <2>2. /\ step = "in_check"
        /\ strayed' \in BOOLEAN /\ UNCHANGED <<workspace, cancelled, out, clock, stepped>>
    BY <1>5 DEF SkipCheck
  <2>3. executions' \in Seq(Execution) /\ events' \in Seq(Event)
    BY <2>1, <2>2, RecordAppends
  <2>4. /\ step' \in Steps
        /\ stop' \in BOOLEAN /\ UNCHANGED <<exit, invocation, discovered, result, started>>
    BY <2>1
  <2>5. QED
    BY <2>2, <2>3, <2>4
<1>6. CASE Decide
  <2>1. RunOutcome \in ReceiptOutcomes
    BY DEF RunOutcome, receipt_outcome, ReceiptOutcomes
  <2>2. {plan[i] : i \in DOMAIN plan} \in SUBSET Checks
    OBVIOUS
  <2>3. (source_after = source) \in BOOLEAN
    OBVIOUS
  <2>4. receipt' \in Receipt
    BY <1>6, <2>1, <2>2, <2>3 DEF Decide, Receipt
  <2>5. QED
    BY <1>6, <2>4 DEF Decide
<1>7. CASE WriteReceipt
  <2>1. step' \in Steps /\ exit' \in ExitCodes \cup {NoExit}
    BY <1>7 DEF WriteReceipt
  <2>2. stored' \in BOOLEAN
    BY <1>7 DEF WriteReceipt
  <2>3. UNCHANGED <<discovered, loop, source_after, receipt, world, invocation>>
    BY <1>7 DEF WriteReceipt
  <2>4. QED
    BY <2>1, <2>2, <2>3
<1>8. CASE Announce
  <2>1. [state |-> "ReceiptStored"] \in Event
    BY DEF Event
  <2>2. QED
    BY <1>8, <2>1 DEF Announce, Emit
<1>9. CASE Interrupt
  <2>1. step' \in Steps /\ exit' = exit /\ cancelled' \in BOOLEAN
    BY <1>9 DEF Interrupt
  <2>2. UNCHANGED <<discovered, loop, result, workspace, out, clock, stepped, strayed, invocation>>
    BY <1>9 DEF Interrupt
  <2>3. QED
    BY <2>1, <2>2
<1>10. CASE OpenStore
  BY <1>10 DEF OpenStore
<1>11. CASE Identify
  BY <1>11 DEF Identify
<1>12. CASE StartRun
  BY <1>12 DEF StartRun
<1>13. CASE EndLoop \/ ExecuteFails
  BY <1>13 DEF EndLoop, ExecuteFails
<1>14. CASE IdentifyAgain
  BY <1>14 DEF IdentifyAgain
<1>15. CASE Publish \/ EmitReceipt \/ ProgressPanics
  BY <1>15 DEF Publish, EmitReceipt, ProgressPanics
<1>16. CASE Edit
  BY <1>16 DEF Edit
<1>17. CASE Occupy
  BY <1>17 DEF Occupy
<1>18. CASE Crash
  BY <1>18 DEF Crash
<1>19. CASE Tick
  BY <1>19 DEF Tick
<1>20. CASE StepClockBack
  BY <1>20 DEF StepClockBack
<1>21. CASE UNCHANGED vars
  BY <1>21
<1>22. QED
  BY <1>1, <1>2, <1>3, <1>4, <1>5, <1>6, <1>7, <1>8, <1>9, <1>10, <1>11,
     <1>12, <1>13, <1>14, <1>15, <1>16, <1>17, <1>18, <1>19, <1>20, <1>21
     DEF Next, Process, World, Ended

\* The initial states satisfy every part.
LEMMA InitIInv == Init => IInv
<1> SUFFICES ASSUME Init PROVE IInv
  OBVIOUS
<1> USE DEF Init
<1>1. TypeOK
  <2>1. invocation \in [fail_fast : BOOLEAN, receipt_out : BOOLEAN]
        /\ out \in {"absent", "foreign", "receipt"}
    OBVIOUS
  <2>2. clock \in Clock /\ started \in [run : Clock, check : Clock]
    BY DEF Clock
  <2>3. /\ /\ workspace \in Contents
        /\ source \in Contents /\ source_after \in Contents
        /\ plan \in Seq(Checks) /\ executions \in Seq(Execution) /\ events \in Seq(Event)
    OBVIOUS
  <2>4. /\ /\ step \in Steps
        /\ exit \in ExitCodes \cup {NoExit} /\ gaps \in BOOLEAN
        /\ stop \in BOOLEAN /\ cancelled \in BOOLEAN /\ stored \in BOOLEAN
        /\ stepped \in BOOLEAN /\ strayed \in BOOLEAN /\ receipt \in Receipt \cup {NoReceipt}
    OBVIOUS
  <2>5. QED
    BY ONLY <2>1, <2>2, <2>3, <2>4 DEF TypeOK
<1>2. InvPlan /\ InvLoop /\ InvStop /\ FailFast
  BY DEF InvPlan, InvLoop, InvStop, FailFast
<1>3. InvTimes /\ InvReceipt /\ InvStored
  BY DEF InvTimes, InvReceipt, InvStored
<1>4. InvOut /\ InvExit /\ ExitCodeTells
  BY DEF InvOut, InvExit, ExitCodeTells
<1>5. QED
  BY <1>1, <1>2, <1>3, <1>4 DEF IInv

\* IInv is inductive: it holds in every reachable state of a run.
THEOREM Invariance == Spec => []IInv
<1>1. IInv /\ [Next]_vars => IInv'
  BY TypeOKKept, InvPlanKept, InvLoopKept, InvStopKept, FailFastKept,
     InvTimesKept,
     InvReceiptKept, InvStoredKept, InvOutKept, InvExitKept, ExitCodeTellsKept DEF IInv
<1>2. QED
  BY <1>1, InitIInv, PTL DEF Spec

-----------------------------------------------------------------------------
\* Every variable has its type: the plan holds known checks, the executions
\* and the receipt are complete records.
THEOREM TypeCorrect == Spec => []TypeOK
<1>1. IInv => TypeOK
  BY DEF IInv
<1>2. QED
  BY <1>1, Invariance, PTL

\* --fail-fast, for a plan of any length: nothing runs after the first outcome
\* that is not Passed, and nothing is skipped without one.
THEOREM FailFastHolds == Spec => []FailFast
<1>1. IInv => FailFast
  BY DEF IInv
<1>2. QED
  BY <1>1, Invariance, PTL

\* The exit codes 0, 1 and 7 of `taskattest run` mean what they say.
THEOREM ExitCodeTruthful == Spec => []ExitCodeTells
<1>1. IInv => ExitCodeTells
  BY DEF IInv
<1>2. QED
  BY <1>1, Invariance, PTL

\* A portable copy never exists without the primary receipt, killed or not.
THEOREM PrimaryBeforeCopy == Spec => []PrimaryFirst
<1>1. IInv => PrimaryFirst
  BY DEF IInv, InvOut, PrimaryFirst
<1>2. QED
  BY <1>1, Invariance, PTL

\* In a state of the invariant, verify_semantics accepts the stored receipt,
\* but for the two exceptions the property names.
LEMMA InvVerifies == IInv => StoredReceiptVerifies
<1> SUFFICES ASSUME IInv, stored
             PROVE  LET problems == verify_semantics(receipt) IN
                      /\ problems \subseteq {"receipt time", "check time", "outcome"}
                      /\ problems \cap {"receipt time", "check time"} # {} => stepped
                      /\ "outcome" \in problems =>
                           /\ cancelled /\ receipt.outcome = "Cancelled"
                           /\ "Cancelled" \notin OutcomesOf(executions)
  BY DEF StoredReceiptVerifies
<1>0. /\ TypeOK
      /\ InvPlan /\ InvLoop /\ InvTimes /\ InvReceipt /\ receipt # NoReceipt
  BY DEF IInv, InvStored
<1>1. /\ Len(executions) = Len(plan) /\ receipt.checks = executions
      /\ receipt.source = receipt.discovery_source
      /\ receipt.source_unchanged = (receipt.source = receipt.source_after)
      /\ receipt.selected = {plan[i] : i \in DOMAIN plan}
      /\ receipt.gaps = gaps
  BY <1>0 DEF InvReceipt
<1>2. /\ DOMAIN executions = 1..Len(plan) /\ DOMAIN plan = 1..Len(plan)
      /\ \A i \in 1..Len(plan) : executions[i].id = plan[i]
  BY <1>0, <1>1 DEF TypeOK, InvLoop
<1>3. receipt.selected = IdsOf(executions)
  BY <1>1, <1>2 DEF IdsOf
<1>4. ~\E i, j \in DOMAIN executions :
         i # j /\ executions[i].id = executions[j].id
  <2>1. \A i, j \in 1..Len(plan) : plan[i] = plan[j] => i = j
    BY <1>0 DEF InvPlan, IsPlan
  <2>2. QED
    BY <1>2, <2>1
<1>5. ~stepped => /\ ~(receipt.completed < receipt.started)
                  /\ \A i \in DOMAIN executions :
                       ~(executions[i].completed < executions[i].started)
  <2>1. receipt \in Receipt
    BY <1>0 DEF TypeOK
  <2>2. receipt.started \in Int /\ receipt.completed \in Int
    BY <2>1 DEF Receipt, Clock
  <2>3. \A i \in 1..Len(plan) : executions[i].started \in Int /\ executions[i].completed \in Int
    <3>1. \A i \in 1..Len(plan) : executions[i] \in Execution
      BY <1>0, <1>1, <1>2 DEF TypeOK
    <3>2. QED
      BY <3>1 DEF Execution, Clock
  <2>4. QED
    BY <1>0, <1>1, <1>2, <2>2, <2>3 DEF InvTimes
<1>6. receipt.outcome # expected_outcome(receipt) =>
        /\ cancelled /\ receipt.outcome = "Cancelled"
        /\ "Cancelled" \notin OutcomesOf(executions)
  <2>1. CASE receipt.outcome = receipt_outcome(executions, gaps, FALSE, source_after = source)
    <3>1. receipt.source_unchanged = (source_after = source)
      BY <1>0 DEF InvReceipt
    <3>2. expected_outcome(receipt) = receipt.outcome
      BY <1>1, <2>1, <3>1 DEF expected_outcome, receipt_outcome
    <3>3. QED
      BY <3>2
  <2>2. CASE receipt.outcome = "Cancelled" /\ cancelled
    BY <1>1, <2>2 DEF expected_outcome
  <2>3. QED
    BY <1>0, <2>1, <2>2 DEF InvReceipt
<1>7. QED
  BY <1>1, <1>3, <1>4, <1>5, <1>6 DEF verify_semantics

\* What the producer stores, the verifier accepts, for any plan and any
\* outcomes, edits and interruptions.
THEOREM ProducedIsVerifiable == Spec => []StoredReceiptVerifies
<1>1. QED
  BY InvVerifies, Invariance, PTL

\* A Ctrl-C seen before the outcome is decided marks the run for good: from
\* then on every receipt it may build is a cancelled one.
Marked ==
  /\ cancelled
  /\ \/ step \in Undecided \cup Gone /\ receipt = NoReceipt
     \/ receipt # NoReceipt /\ receipt.outcome = "Cancelled"

LEMMA MarkedStays == IInv /\ Marked /\ [Next]_vars => Marked'
<1> SUFFICES ASSUME IInv, Marked, [Next]_vars PROVE Marked'
  OBVIOUS
<1>0. TypeOK /\ InvReceipt /\ InvExit
  BY DEF IInv
<1> USE DEF Undecided
<1>1. cancelled' = TRUE
  <2>1. CASE Discover
    BY <2>1, DiscoverStep DEF Marked
  <2>2. CASE \/ Preflight \/ Identify \/ OpenStore
             \/ StartRun \/ StartCheck \/ EndLoop
    BY <2>2, <1>0
       DEF Marked, TypeOK, Preflight, Identify, OpenStore, StartRun,
           StartCheck, EndLoop
  <2>3. CASE \/ ExecuteCheck \/ SkipCheck \/ ExecuteFails
             \/ IdentifyAgain \/ Decide
    BY <2>3, <1>0
       DEF Marked, TypeOK, ExecuteCheck, SkipCheck, ExecuteFails,
           IdentifyAgain, Decide
  <2>4. CASE \/ WriteReceipt \/ Announce \/ Publish
             \/ EmitReceipt \/ ProgressPanics
    BY <2>4, <1>0
       DEF Marked, TypeOK, WriteReceipt, Announce, Publish, EmitReceipt,
           ProgressPanics
  <2>5. CASE World
    BY <2>5, <1>0
       DEF Marked, TypeOK, World, Edit, Occupy, Interrupt, Crash, Tick,
           StepClockBack
  <2>6. CASE UNCHANGED vars
    BY <2>6, <1>0 DEF Marked, TypeOK
  <2>7. QED
    BY <2>1, <2>2, <2>3, <2>4, <2>5, <2>6 DEF Next, Process, Ended
<1>2. CASE Decide
  <2>1. receipt' # NoReceipt /\ receipt'.outcome = RunOutcome
    BY <1>2 DEF Decide, NoReceipt
  <2>2. RunOutcome = "Cancelled"
    BY DEF Marked, RunOutcome, receipt_outcome
  <2>3. QED
    BY <1>1, <2>1, <2>2 DEF Marked
<1>3. CASE ~Decide
  <2>1. receipt' = receipt
    <3>1. CASE Discover
      BY <3>1, DiscoverStep
    <3>2. CASE ExecuteCheck \/ SkipCheck
      BY <3>2 DEF ExecuteCheck, SkipCheck
    <3>3. CASE \/ Preflight \/ Identify \/ OpenStore
               \/ StartRun \/ StartCheck \/ EndLoop
      BY <3>3 DEF Preflight, Identify, OpenStore, StartRun, StartCheck, EndLoop
    <3>4. CASE ExecuteFails \/ IdentifyAgain \/ WriteReceipt \/ Announce
      BY <3>4 DEF ExecuteFails, IdentifyAgain, WriteReceipt, Announce
    <3>5. CASE Publish \/ EmitReceipt \/ ProgressPanics
      BY <3>5 DEF Publish, EmitReceipt, ProgressPanics
    <3>6. CASE World
      BY <3>6 DEF World, Edit, Occupy, Interrupt, Crash, Tick, StepClockBack
    <3>7. QED
      BY <1>3, <3>1, <3>2, <3>3, <3>4, <3>5, <3>6 DEF Next, Process, Ended
  <2>2. receipt = NoReceipt => step \in Undecided \cup Gone
    BY DEF Marked
  <2>3. receipt = NoReceipt => step' \in Undecided \cup Gone
    <3> SUFFICES ASSUME receipt = NoReceipt PROVE step' \in Undecided \cup Gone
      OBVIOUS
    <3>1. CASE Discover \/ Preflight \/ Identify \/ OpenStore
      BY <2>2, <3>1 DEF Discover, Preflight, Identify, OpenStore
    <3>2. CASE ExecuteCheck
      BY <3>2 DEF ExecuteCheck
    <3>3. CASE SkipCheck
      BY <3>3 DEF SkipCheck
    <3>4. CASE \/ StartRun \/ StartCheck \/ EndLoop
               \/ ExecuteFails \/ IdentifyAgain
      BY <3>4 DEF StartRun, StartCheck, EndLoop, ExecuteFails, IdentifyAgain
    <3>5. CASE WriteReceipt \/ Announce \/ Publish \/ EmitReceipt
      BY <2>2, <3>5 DEF WriteReceipt, Announce, Publish, EmitReceipt
    <3>6. CASE ProgressPanics
      BY <3>6 DEF ProgressPanics
    <3>7. CASE World
      BY <2>2, <3>7
         DEF World, Edit, Occupy, Interrupt, Crash, Tick, StepClockBack
    <3>8. CASE UNCHANGED vars
      BY <2>2, <3>8
    <3>9. QED
      BY <1>3, <3>1, <3>2, <3>3, <3>4, <3>5, <3>6, <3>7, <3>8
         DEF Next, Process, Ended
  <2>4. QED
    BY <1>1, <2>1, <2>3 DEF Marked
<1>4. QED
  BY <1>2, <1>3

\* A Ctrl-C that arrives before the outcome is decided is never lost.
THEOREM CancellationNeverLost == Spec => CancellationSticks
<1>1. IInv /\ cancelled /\ step \in Undecided => Marked
  BY DEF IInv, InvReceipt, Marked, Undecided
<1>2. IInv /\ Marked => (stored => receipt.outcome = "Cancelled")
  BY DEF IInv, InvStored, Marked
<1>3. QED
  BY <1>1, <1>2, MarkedStays, Invariance, PTL DEF Spec, CancellationSticks

-----------------------------------------------------------------------------
(* The progress stream.                                                    *)

\* The event at place k of a stream tells what happened.
Tells(k) ==
  LET e == events[k] IN
  /\ e.state = "CheckStarted" => k % 2 = 1 /\ e.id = plan[(k + 1) \div 2]
  /\ e.state = "CheckFinished" =>
       /\ k % 2 = 0 /\ e.id = plan[k \div 2]
       /\ e.outcome = executions[k \div 2].outcome
  /\ e.state = "ReceiptStored" => stored /\ k = Len(events) /\ k = 2 * Len(plan) + 1

Counted == {"next_check", "identify_again", "decide", "write_receipt", "announce"}

\* There are two events for each execution, and one for the check that runs.
InvEvents ==
  /\ \A k \in 1..Len(events) : Tells(k)
  /\ step \in Early => events = <<>>
  /\ step \in Counted =>
       Len(events) = 2 * Len(executions)
  /\ step = "in_check" => Len(events) = 2 * Len(executions) + 1
  /\ Len(events) <= 2 * Len(executions) + 1

\* Without a new event the stream tells the same.
LEMMA NoNews ==
  ASSUME IInv, InvEvents, events' = events, plan' = plan \/ events = <<>>,
         executions' = executions, stored => stored',
         \/ step' = step
         \/ step' \in {"publish", "emit"} \cup Gone
         \/ step' \in Early /\ step \in Early
         \/ step' \in Counted /\ Len(events) = 2 * Len(executions)
  PROVE  InvEvents'
<1>1. \A k \in 1..Len(events) : Tells(k)'
  BY DEF InvEvents, Tells
<1>2. /\ step' \in Early => events' = <<>>
      /\ step' = "in_check" => Len(events) = 2 * Len(executions) + 1
      /\ step' \in Counted =>
           Len(events) = 2 * Len(executions)
  BY DEF InvEvents, Counted
<1>3. QED
  BY <1>1, <1>2 DEF InvEvents

\* A new event comes after what the stream tells.
LEMMA News ==
  ASSUME IInv, InvEvents, NEW e \in Event, Emit(e), plan' = plan, stored' = stored,
         Len(events) < 2 * Len(plan) + 1,
         \A i \in 1..Len(executions) : executions'[i] = executions[i]
  PROVE  /\ Len(events') = Len(events) + 1 /\ events'[Len(events) + 1] = e
         /\ Len(events) \in Nat
         /\ \A k \in 1..Len(events) : Tells(k)'
<1>1. /\ events \in Seq(Event) /\ executions \in Seq(Execution) /\ plan \in Seq(Checks)
  BY DEF IInv, TypeOK
<1>2. /\ Len(events) \in Nat /\ Len(events') = Len(events) + 1 /\ events'[Len(events) + 1] = e
      /\ \A k \in 1..Len(events) : events'[k] = events[k]
  BY <1>1 DEF Emit
<1>3. ASSUME NEW k \in 1..Len(events) PROVE Tells(k)'
  <2>1. Tells(k) /\ events'[k] = events[k] /\ Len(events) <= 2 * Len(executions) + 1
    BY <1>2 DEF InvEvents
  <2>2. events[k].state # "ReceiptStored"
    BY <2>1, <1>1 DEF Tells
  <2>3. Len(executions) \in Nat /\ k \in Nat /\ k >= 1 /\ k <= Len(events)
    BY <1>1, <1>2
  <2>4. k % 2 = 0 => k \div 2 \in 1..Len(executions)
    BY <2>1, <2>3
  <2>5. k % 2 = 0 => executions'[k \div 2] = executions[k \div 2]
    BY <2>4
  <2>6. QED
    BY <2>1, <2>2, <2>5 DEF Tells
<1>4. QED
  BY <1>2, <1>3

LEMMA EventsKept == IInv /\ InvEvents /\ [Next]_vars => InvEvents'
<1> SUFFICES ASSUME IInv, InvEvents, [Next]_vars PROVE InvEvents'
  OBVIOUS
<1>0. /\ TypeOK /\ InvLoop
      /\ Len(executions) \in Nat /\ Len(plan) \in Nat /\ Len(events) \in Nat
  BY DEF IInv, TypeOK
<1>1. CASE Discover
  BY <1>1, DiscoverStep, NoNews DEF InvEvents
<1>2. CASE Preflight \/ Identify \/ OpenStore
  BY <1>2, NoNews DEF Preflight, Identify, OpenStore
<1>3. CASE StartRun \/ EndLoop \/ ExecuteFails
  BY <1>0, <1>3, NoNews DEF StartRun, EndLoop, ExecuteFails, InvEvents, InvLoop, Counted
<1>4. CASE IdentifyAgain \/ Decide \/ WriteReceipt
  BY <1>4, NoNews DEF IdentifyAgain, Decide, WriteReceipt, InvEvents, Counted
<1>5. CASE Publish \/ EmitReceipt \/ ProgressPanics
  BY <1>5, NoNews DEF Publish, EmitReceipt, ProgressPanics
<1>6. CASE Edit \/ Occupy \/ Interrupt \/ Crash \/ Tick \/ StepClockBack \/ UNCHANGED vars
  BY <1>6, NoNews DEF Edit, Occupy, Interrupt, Crash, Tick, StepClockBack
<1>7. CASE StartCheck
  <2> DEFINE e == [state |-> "CheckStarted", id |-> plan[Len(executions) + 1]]
  <2>1. /\ Emit(e) /\ plan' = plan /\ stored' = stored /\ executions' = executions
        /\ Len(executions) < Len(plan) /\ step = "next_check" /\ step' = "in_check"
    BY <1>7 DEF StartCheck
  <2>2. e \in Event
    <3>1. plan[Len(executions) + 1] \in Checks
      BY <1>0, <2>1 DEF TypeOK
    <3>2. QED
      BY <3>1 DEF Event
  <2>3. Len(events) = 2 * Len(executions)
    BY <2>1 DEF InvEvents, Counted
  <2> HIDE DEF e
  <2>n. PICK n \in Nat : n = Len(events) + 1
    BY <1>0
  <2>4. /\ Len(events') = Len(events) + 1 /\ events'[n] = e
        /\ \A k \in 1..Len(events) : Tells(k)'
    BY <1>0, <2>1, <2>2, <2>3, <2>n, News
  <2>5. Tells(n)'
    <3>1. n % 2 = 1 /\ (n + 1) \div 2 = Len(executions) + 1
      BY <1>0, <2>3, <2>n
    <3>2. e.state = "CheckStarted" /\ e.id = plan[Len(executions) + 1]
      BY DEF e
    <3>3. QED
      BY <2>1, <2>4, <3>1, <3>2 DEF Tells
  <2>6. \A k \in 1..Len(events') : Tells(k)'
    BY <1>0, <2>n, <2>4, <2>5
  <2>7. QED
    BY <1>0, <2>1, <2>3, <2>4, <2>6 DEF InvEvents, Counted
<1>8. CASE ExecuteCheck \/ SkipCheck
  <2>1. PICK outcome \in CheckOutcomes, from \in Clock : Record(outcome, from)
    BY <1>0, <1>8 DEF ExecuteCheck, SkipCheck, TypeOK, CheckOutcomes
  <2> DEFINE e == [state |-> "CheckFinished", id |-> plan[Len(executions) + 1], outcome |-> outcome]
  <2>2. step = "in_check" /\ step' = "next_check" /\ Emit(e) /\ plan' = plan /\ stored' = stored
    BY <1>8, <2>1 DEF ExecuteCheck, SkipCheck
  <2>3. /\ Len(executions') = Len(executions) + 1
        /\ \A i \in 1..Len(executions) : executions'[i] = executions[i]
        /\ executions'[Len(executions) + 1].outcome = outcome
        /\ plan[Len(executions) + 1] \in Checks
    BY <1>0, <2>1, <2>2, RecordAppends
  <2>4. Len(events) = 2 * Len(executions) + 1 /\ Len(executions) < Len(plan)
    BY <1>0, <2>2 DEF InvEvents, InvLoop
  <2>5. e \in Event
    BY <2>3 DEF Event
  <2> HIDE DEF e
  <2>n. PICK n \in Nat : n = Len(events) + 1
    BY <1>0
  <2>6. /\ Len(events') = Len(events) + 1 /\ events'[n] = e
        /\ \A k \in 1..Len(events) : Tells(k)'
    BY <1>0, <2>2, <2>3, <2>4, <2>5, <2>n, News
  <2>7. Tells(n)'
    <3>1. n % 2 = 0 /\ n \div 2 = Len(executions) + 1
      BY <1>0, <2>4, <2>n
    <3>2. e.state = "CheckFinished" /\ e.id = plan[Len(executions) + 1] /\ e.outcome = outcome
      BY DEF e
    <3>3. QED
      BY <2>2, <2>3, <2>6, <3>1, <3>2 DEF Tells
  <2>8. \A k \in 1..Len(events') : Tells(k)'
    BY <1>0, <2>n, <2>6, <2>7
  <2>9. QED
    BY <1>0, <2>2, <2>3, <2>4, <2>6, <2>8 DEF InvEvents
<1>9. CASE Announce
  <2> DEFINE e == [state |-> "ReceiptStored"]
  <2>1. /\ Emit(e) /\ plan' = plan /\ stored' = stored /\ executions' = executions
        /\ step = "announce" /\ step' = "publish"
    BY <1>9 DEF Announce
  <2>2. e \in Event
    BY DEF Event
  <2>3. Len(events) = 2 * Len(executions) /\ Len(executions) = Len(plan) /\ stored
    BY <1>0, <2>1 DEF InvEvents, Counted, InvLoop, IInv, InvStored
  <2>4. e.state = "ReceiptStored"
    OBVIOUS
  <2> HIDE DEF e
  <2>n. PICK n \in Nat : n = Len(events) + 1
    BY <1>0
  <2>5. /\ Len(events') = Len(events) + 1 /\ events'[n] = e
        /\ \A k \in 1..Len(events) : Tells(k)'
    BY <1>0, <2>1, <2>2, <2>3, <2>n, News
  <2>6. Tells(n)'
    BY <1>0, <2>n, <2>1, <2>3, <2>4, <2>5 DEF Tells
  <2>7. \A k \in 1..Len(events') : Tells(k)'
    BY <1>0, <2>n, <2>5, <2>6
  <2>8. QED
    BY <1>0, <2>1, <2>3, <2>5, <2>7 DEF InvEvents, Counted
<1>10. QED
  BY <1>1, <1>2, <1>3, <1>4, <1>5, <1>6, <1>7, <1>8, <1>9 DEF Next, Process, World, Ended

\* The progress stream is the history of the run, for a plan of any length and
\* wherever the run ends: each event is in its place and says what the receipt
\* will say, and ReceiptStored is the last one.
THEOREM ProgressTells == Spec => []ProgressIsHistory
<1>1. Init => InvEvents
  BY DEF Init, InvEvents
<1>2. ASSUME IInv, InvEvents PROVE ProgressIsHistory
  <2>1. events \in Seq(Event) /\ DOMAIN events = 1..Len(events)
    BY <1>2 DEF IInv, TypeOK
  <2> SUFFICES ASSUME NEW k \in 1..Len(events)
               PROVE  LET e == events[k] IN
                      CASE e.state = "CheckStarted" -> k % 2 = 1 /\ e.id = plan[(k + 1) \div 2]
                        [] e.state = "CheckFinished" ->
                             /\ k % 2 = 0 /\ e.id = plan[k \div 2]
                             /\ e.outcome = executions[k \div 2].outcome
                        [] e.state = "ReceiptStored" ->
                             stored /\ k = Len(events) /\ k = 2 * Len(plan) + 1
    BY <2>1 DEF ProgressIsHistory
  <2>2. events[k].state \in {"CheckStarted", "CheckFinished", "ReceiptStored"}
    <3>1. events[k] \in Event
      BY <2>1
    <3>2. QED
      BY <3>1 DEF Event
  <2>3. Tells(k)
    BY <1>2 DEF InvEvents
  <2>4. QED
    BY <2>2, <2>3 DEF Tells
<1>3. QED
  BY <1>1, <1>2, EventsKept, Invariance, PTL DEF Spec
=============================================================================
