------------------------ MODULE CheckExecution_proofs ------------------------
(***************************************************************************)
(* Proofs about CheckExecution, for every set of descendants, every log    *)
(* limit, any number of units written, and processes that may or may not   *)
(* leave the group or refuse its signals.                                  *)
(*                                                                         *)
(* The safety properties all speak of step = "done".  They follow from one *)
(* inductive invariant that says what each earlier step of the supervisor  *)
(* already guarantees: whether the leader is born, running or reaped,      *)
(* who may be left in its group, which threads are joined, where the logs  *)
(* are; and, at every step, how the shared counter relates to what   *)
(* the threads have read.                                                  *)
(***************************************************************************)
EXTENDS CheckExecution, TLAPS

\* Before the spawn nothing has happened outside the store.
InvUnborn ==
  leader = "unborn" =>
    /\ group = {} /\ escaped = {} /\ shielded = {} /\ forced = None
    /\ total = 0 /\ ~limitHit
    /\ \A s \in Streams : /\ holders[s] = {} /\ written[s] = 0 /\ read[s] = 0
                          /\ thread[s] = "unstarted"

\* What the supervisor knows of the leader and its group at each step.
InvProcesses ==
  /\ step \in {"create", "spawn"} => leader = "unborn"
  /\ step \in Polling \cup {"term_group", "grace", "kill_group"}
       => leader \in {"running", "zombie"}
  /\ step = "wait" => /\ leader = "zombie" \/ (leader = "running" /\ Leader \in shielded)
                      /\ group \subseteq shielded
  /\ step \in {"sweep_group"} \cup Orphaning => leader = "reaped"
  /\ step \in Collecting => leader = "reaped" /\ group \subseteq shielded
  /\ step = "done" => leader \in {"unborn", "reaped"} /\ group \subseteq shielded

\* Only live processes hold a pipe; a thread at end of stream has read it all
\* and nobody can write to it again.
InvPipes ==
  \A s \in Streams :
    /\ holders[s] \subseteq LiveProcs
    /\ read[s] <= written[s]
    /\ thread[s] = "eof" => holders[s] = {} /\ read[s] = written[s]

\* The counter lags behind the units read by what the threads have not added.
Pending(s) == IF thread[s] = "adding" THEN 1 ELSE 0

InvTotal ==
  total + Pending("stdout") + Pending("stderr") = read["stdout"] + read["stderr"]

InvLimit ==
  (limitHit \/ \E s \in Streams : thread[s] = "flagging") => total > MaxLogBytes

\* A stop was forced for a reason that held, and these reasons are stable.
InvForced ==
  /\ forced = "Cancelled" => cancelled
  /\ forced = "TimedOut" => expired
  /\ forced = "LogLimitExceeded" => limitHit

InvJoined ==
  /\ step = "join_stderr" => thread["stdout"] = "eof"
  /\ step \in {"persist_stdout", "persist_stderr"} \/ (step = "done" /\ leader # "unborn")
       => \A s \in Streams : thread[s] = "eof"

\* Once there is a leader, a log is a capture file until it is a blob.
InvFiles ==
  /\ step = "create" => tmp = {} /\ blobs = {}
  /\ step \notin {"create", "persist_stderr"} \cup Ended => tmp = Streams /\ blobs = {}
  /\ step = "persist_stderr" => tmp = {"stderr"} /\ blobs = {"stdout"}
  /\ step = "done" /\ leader # "unborn" => tmp = {} /\ blobs = Streams
  /\ IF leader = "unborn" THEN blobs = {} ELSE tmp \cup blobs = Streams

InvOutcome ==
  /\ step # "done" => outcome = None
  /\ step = "done" => outcome = IF leader = "unborn" THEN "SpawnFailed" ELSE Verdict

IInv ==
  /\ TypeOK /\ InvUnborn /\ InvProcesses /\ InvPipes /\ InvTotal /\ InvLimit
  /\ InvForced /\ InvJoined /\ InvFiles /\ InvOutcome

-----------------------------------------------------------------------------
(* Every lemma below shows that a step keeps one part of IInv.  The steps  *)
(* are taken in three families: the supervisor's (with its own failures),  *)
(* a capture thread's and the world's.                                     *)

USE DEF Steps, Polling, Terminating, Orphaning, Collecting, Ended, None,
        Outcomes, ForcedOutcomes, Streams
USE DEF CreateCaptures, Spawn, SpawnFails, TryWait, SeeCancel, SeeLimit,
        SeeDeadline, TermGroup, GracePoll, SweepGroup, HardKill, WaitLeader,
        ProbeGroup, KillOrphans, SuperviseFails, JoinStdout, JoinStderr,
        PersistStdout, PersistStderr
USE DEF Goto, Reap, ForceStop, KillGroup, Join, Drained, Persist
USE DEF Capture, AddTotal, FlagLimit, EndOfStream, CaptureFails
USE DEF LeaderExits, Fork, Escape, ChangeUser, KidExits, Write, Cancel, DeadlinePasses,
        GraceEnds, Die, LiveProcs, Procs
USE DEF supervisor, processes, threads, environment, files
USE LimitAssumption, LeaderAssumption

\* The initial state satisfies every part.
LEMMA InitIInv == Init => IInv
<1> SUFFICES ASSUME Init PROVE IInv
  OBVIOUS
<1> USE DEF Init
<1>1. TypeSupervisor
  BY DEF TypeSupervisor
<1>2. TypeProcesses
  BY DEF TypeProcesses
<1>3. TypeThreads
  BY DEF TypeThreads
<1>4. TypeOutside
  BY DEF TypeOutside
<1>5. InvUnborn
  BY DEF InvUnborn
<1>6. InvProcesses
  BY DEF InvProcesses
<1>7. InvPipes
  BY DEF InvPipes
<1>8. InvTotal
  BY DEF InvTotal, Pending
<1>9. InvLimit
  BY DEF InvLimit
<1>10. InvForced
  BY DEF InvForced
<1>11. InvJoined
  BY DEF InvJoined
<1>12. InvFiles
  BY DEF InvFiles
<1>13. InvOutcome
  BY DEF InvOutcome
<1> QED
  BY <1>1, <1>2, <1>3, <1>4, <1>5, <1>6, <1>7, <1>8, <1>9, <1>10, <1>11, <1>12, <1>13 DEF IInv, TypeOK

\* The supervisor's own variables are typed.
LEMMA TypeSupervisorKept == IInv /\ [Next]_vars => TypeSupervisor'
<1> SUFFICES ASSUME IInv, [Next]_vars PROVE TypeSupervisor'
  OBVIOUS
<1> USE DEF IInv, TypeOK, TypeSupervisor, TypeProcesses, Verdict
<1>1. CASE Supervise \/ SuperviseFails
  BY <1>1 DEF Supervise
<1>2. ASSUME NEW s \in Streams, CaptureThread(s) \/ CaptureFails(s) PROVE TypeSupervisor'
  BY <1>2 DEF CaptureThread
<1>3. CASE World
  BY <1>3 DEF World
<1>4. CASE UNCHANGED vars
  BY <1>4 DEF vars
<1> QED
  BY <1>1, <1>2, <1>3, <1>4 DEF Next, Faults, Returned

\* The processes and pipes are typed.
LEMMA TypeProcessesKept == IInv /\ [Next]_vars => TypeProcesses'
<1> SUFFICES ASSUME IInv, [Next]_vars PROVE TypeProcesses'
  OBVIOUS
<1> USE DEF IInv, TypeOK, TypeProcesses
<1>1. CASE Supervise \/ SuperviseFails
  <2>1. CASE SweepGroup \/ HardKill \/ KillOrphans
    <3>1. holders' \in [Streams -> SUBSET Procs]
      BY <2>1
    <3> QED
      BY <2>1, <3>1
  <2>2. CASE ~(SweepGroup \/ HardKill \/ KillOrphans)
    BY <1>1, <2>2 DEF Supervise
  <2> QED
    BY <2>1, <2>2
<1>2. ASSUME NEW s \in Streams, CaptureThread(s) \/ CaptureFails(s) PROVE TypeProcesses'
  BY <1>2 DEF CaptureThread
<1>3. CASE World
  BY <1>3 DEF World
<1>4. CASE UNCHANGED vars
  BY <1>4 DEF vars
<1> QED
  BY <1>1, <1>2, <1>3, <1>4 DEF Next, Faults, Returned

\* The capture threads and their counters are typed.
LEMMA TypeThreadsKept == IInv /\ [Next]_vars => TypeThreads'
<1> SUFFICES ASSUME IInv, [Next]_vars PROVE TypeThreads'
  OBVIOUS
<1> USE DEF IInv, TypeOK, TypeThreads
<1>1. CASE Supervise \/ SuperviseFails
  BY <1>1 DEF Supervise
<1>2. ASSUME NEW s \in Streams, CaptureThread(s) \/ CaptureFails(s) PROVE TypeThreads'
  <2>1. CASE Capture(s)
    BY <2>1
  <2>2. CASE AddTotal(s)
    BY <2>2
  <2>3. CASE FlagLimit(s) \/ EndOfStream(s) \/ CaptureFails(s)
    BY <2>3
  <2> QED
    BY <1>2, <2>1, <2>2, <2>3 DEF CaptureThread
<1>3. CASE World
  BY <1>3 DEF World
<1>4. CASE UNCHANGED vars
  BY <1>4 DEF vars
<1> QED
  BY <1>1, <1>2, <1>3, <1>4 DEF Next, Faults, Returned

\* The environment's variables and the files are typed.
LEMMA TypeOutsideKept == IInv /\ [Next]_vars => TypeOutside'
<1> SUFFICES ASSUME IInv, [Next]_vars PROVE TypeOutside'
  OBVIOUS
<1> USE DEF IInv, TypeOK, TypeOutside
<1>1. CASE Supervise \/ SuperviseFails
  BY <1>1 DEF Supervise
<1>2. ASSUME NEW s \in Streams, CaptureThread(s) \/ CaptureFails(s) PROVE TypeOutside'
  BY <1>2 DEF CaptureThread
<1>3. CASE World
  BY <1>3 DEF World
<1>4. CASE UNCHANGED vars
  BY <1>4 DEF vars
<1> QED
  BY <1>1, <1>2, <1>3, <1>4 DEF Next, Faults, Returned

\* Nothing happens to a command that was never spawned.
LEMMA InvUnbornKept == IInv /\ [Next]_vars => InvUnborn'
<1> SUFFICES ASSUME IInv, [Next]_vars PROVE InvUnborn'
  OBVIOUS
<1> USE DEF IInv, TypeOK, InvUnborn, InvProcesses, TypeProcesses, TypeThreads
<1>1. CASE Supervise \/ SuperviseFails
  BY <1>1 DEF Supervise
<1>2. ASSUME NEW s \in Streams, CaptureThread(s) \/ CaptureFails(s) PROVE InvUnborn'
  BY <1>2 DEF CaptureThread
<1>3. CASE World
  BY <1>3 DEF World
<1>4. CASE UNCHANGED vars
  BY <1>4 DEF vars
<1> QED
  BY <1>1, <1>2, <1>3, <1>4 DEF Next, Faults, Returned

\* At each step the supervisor is right about the leader and its group.
LEMMA InvProcessesKept == IInv /\ [Next]_vars => InvProcesses'
<1> SUFFICES ASSUME IInv, [Next]_vars PROVE InvProcesses'
  OBVIOUS
<1> USE DEF IInv, TypeOK, InvProcesses, InvUnborn, TypeProcesses
<1>1. CASE Supervise \/ SuperviseFails
  BY <1>1 DEF Supervise
<1>2. ASSUME NEW s \in Streams, CaptureThread(s) \/ CaptureFails(s) PROVE InvProcesses'
  BY <1>2 DEF CaptureThread
<1>3. CASE World
  BY <1>3 DEF World
<1>4. CASE UNCHANGED vars
  BY <1>4 DEF vars
<1> QED
  BY <1>1, <1>2, <1>3, <1>4 DEF Next, Faults, Returned

\* No pipe is held by the dead or written after its end.
LEMMA InvPipesKept == IInv /\ [Next]_vars => InvPipes'
<1> SUFFICES ASSUME IInv, [Next]_vars PROVE InvPipes'
  OBVIOUS
<1> USE DEF IInv, TypeOK, InvPipes, InvUnborn, InvProcesses, TypeProcesses,
       TypeThreads
<1>1. CASE Supervise \/ SuperviseFails
  BY <1>1 DEF Supervise
<1>2. ASSUME NEW s \in Streams, CaptureThread(s) \/ CaptureFails(s) PROVE InvPipes'
  BY <1>2 DEF CaptureThread
<1>3. CASE World
  BY <1>3 DEF World
<1>4. CASE UNCHANGED vars
  BY <1>4 DEF vars
<1> QED
  BY <1>1, <1>2, <1>3, <1>4 DEF Next, Faults, Returned

\* No unit a thread read is lost or counted twice.
LEMMA InvTotalKept == IInv /\ [Next]_vars => InvTotal'
<1> SUFFICES ASSUME IInv, [Next]_vars PROVE InvTotal'
  OBVIOUS
<1> USE DEF IInv, TypeOK, InvTotal, Pending, InvUnborn, InvProcesses,
       TypeThreads
<1>1. CASE Supervise \/ SuperviseFails
  BY <1>1 DEF Supervise
<1>2. ASSUME NEW s \in Streams, CaptureThread(s) \/ CaptureFails(s) PROVE InvTotal'
  BY <1>2 DEF CaptureThread
<1>3. CASE World
  BY <1>3 DEF World
<1>4. CASE UNCHANGED vars
  BY <1>4 DEF vars
<1> QED
  BY <1>1, <1>2, <1>3, <1>4 DEF Next, Faults, Returned

\* The flag is raised only above the limit.
LEMMA InvLimitKept == IInv /\ [Next]_vars => InvLimit'
<1> SUFFICES ASSUME IInv, [Next]_vars PROVE InvLimit'
  OBVIOUS
<1> USE DEF IInv, TypeOK, InvLimit, InvUnborn, InvProcesses, TypeThreads
<1>1. CASE Supervise \/ SuperviseFails
  BY <1>1 DEF Supervise
<1>2. ASSUME NEW s \in Streams, CaptureThread(s) \/ CaptureFails(s) PROVE InvLimit'
  BY <1>2 DEF CaptureThread
<1>3. CASE World
  BY <1>3 DEF World
<1>4. CASE UNCHANGED vars
  BY <1>4 DEF vars
<1> QED
  BY <1>1, <1>2, <1>3, <1>4 DEF Next, Faults, Returned

\* The reason for a forced stop stays true.
LEMMA InvForcedKept == IInv /\ [Next]_vars => InvForced'
<1> SUFFICES ASSUME IInv, [Next]_vars PROVE InvForced'
  OBVIOUS
<1> USE DEF IInv, TypeOK, InvForced, InvUnborn, InvProcesses, TypeSupervisor,
       TypeOutside
<1>1. CASE Supervise \/ SuperviseFails
  BY <1>1 DEF Supervise
<1>2. ASSUME NEW s \in Streams, CaptureThread(s) \/ CaptureFails(s) PROVE InvForced'
  BY <1>2 DEF CaptureThread
<1>3. CASE World
  BY <1>3 DEF World
<1>4. CASE UNCHANGED vars
  BY <1>4 DEF vars
<1> QED
  BY <1>1, <1>2, <1>3, <1>4 DEF Next, Faults, Returned

\* The logs are published only when both threads have ended.
LEMMA InvJoinedKept == IInv /\ [Next]_vars => InvJoined'
<1> SUFFICES ASSUME IInv, [Next]_vars PROVE InvJoined'
  OBVIOUS
<1> USE DEF IInv, TypeOK, InvJoined, InvUnborn, InvProcesses, TypeThreads
<1>1. CASE Supervise \/ SuperviseFails
  BY <1>1 DEF Supervise
<1>2. ASSUME NEW s \in Streams, CaptureThread(s) \/ CaptureFails(s) PROVE InvJoined'
  BY <1>2 DEF CaptureThread
<1>3. CASE World
  BY <1>3 DEF World
<1>4. CASE UNCHANGED vars
  BY <1>4 DEF vars
<1> QED
  BY <1>1, <1>2, <1>3, <1>4 DEF Next, Faults, Returned

\* The capture files become blobs one by one.
LEMMA InvFilesKept == IInv /\ [Next]_vars => InvFiles'
<1> SUFFICES ASSUME IInv, [Next]_vars PROVE InvFiles'
  OBVIOUS
<1> USE DEF IInv, TypeOK, InvFiles, InvUnborn, InvProcesses, TypeOutside
<1>1. CASE Supervise \/ SuperviseFails
  BY <1>1, ZenonT(40) DEF Supervise
<1>2. ASSUME NEW s \in Streams, CaptureThread(s) \/ CaptureFails(s) PROVE InvFiles'
  BY <1>2 DEF CaptureThread
<1>3. CASE World
  BY <1>3, ZenonT(40) DEF World
<1>4. CASE UNCHANGED vars
  BY <1>4 DEF vars
<1> QED
  BY <1>1, <1>2, <1>3, <1>4 DEF Next, Faults, Returned

\* The outcome returned is the verdict, which no later step changes.
LEMMA InvOutcomeKept == IInv /\ [Next]_vars => InvOutcome'
<1> SUFFICES ASSUME IInv, [Next]_vars PROVE InvOutcome'
  OBVIOUS
<1> USE DEF IInv, TypeOK, InvOutcome, InvUnborn, InvProcesses, InvJoined,
       Verdict, TypeSupervisor, TypeThreads
<1>1. CASE Supervise \/ SuperviseFails
  BY <1>1 DEF Supervise
<1>2. ASSUME NEW s \in Streams, CaptureThread(s) \/ CaptureFails(s) PROVE InvOutcome'
  BY <1>2 DEF CaptureThread
<1>3. CASE World
  BY <1>3 DEF World
<1>4. CASE UNCHANGED vars
  BY <1>4 DEF vars
<1> QED
  BY <1>1, <1>2, <1>3, <1>4 DEF Next, Faults, Returned

\* The invariant is inductive, and so holds in every reachable state.
THEOREM Invariance == Spec => []IInv
<1>1. IInv /\ [Next]_vars => IInv'
  BY TypeSupervisorKept, TypeProcessesKept, TypeThreadsKept, TypeOutsideKept,
         InvUnbornKept, InvProcessesKept, InvPipesKept, InvTotalKept,
         InvLimitKept, InvForcedKept, InvJoinedKept, InvFilesKept,
         InvOutcomeKept
     DEF IInv, TypeOK
<1> QED
  BY <1>1, InitIInv, PTL DEF Spec

-----------------------------------------------------------------------------
(* The properties of the runs.                                             *)

\* Every variable keeps its type: the two counters stay natural numbers.
THEOREM TypeCorrect == Spec => []TypeOK
BY Invariance, PTL DEF IInv

\* With both threads joined the counter is what was written, so comparing it
\* with the limit is comparing the logs with the limit.
LEMMA TotalIsWritten ==
  ASSUME IInv, \A s \in Streams : thread[s] = "eof"
  PROVE  total = Written
BY DEF IInv, TypeOK, TypeProcesses, TypeThreads, InvTotal, Pending, InvPipes, Written

\* The recorded logs are complete and final (capture_stream, join_capture).
THEOREM LogsAreComplete == Spec => []LogsComplete
<1>1. IInv => LogsComplete
  BY DEF IInv, LogsComplete, InvJoined, InvPipes, InvFiles, InvOutcome
<1> QED
  BY <1>1, Invariance, PTL

\* A check over its log limit is recorded as such, and no other check is.
THEOREM LimitIsDecided == Spec => []LimitDecides
<1>1. IInv => LimitDecides
  <2> SUFFICES ASSUME IInv, step = "done", leader # "unborn"
               PROVE  LimitDecides
    BY DEF IInv, LimitDecides, InvOutcome
  <2>1. total = Written
    BY TotalIsWritten DEF IInv, InvJoined
  <2>2. outcome = Verdict
    BY DEF IInv, InvOutcome
  <2>3. forced = "LogLimitExceeded" => total > MaxLogBytes
    BY DEF IInv, InvForced, InvLimit
  <2>4. forced \in {"Cancelled", "LogLimitExceeded", "TimedOut", "none"}
    BY DEF IInv, TypeOK, TypeSupervisor
  <2>5. total \in Nat
    BY DEF IInv, TypeOK, TypeThreads
  <2> QED
    BY <2>1, <2>2, <2>3, <2>4, <2>5 DEF LimitDecides, Verdict
<1> QED
  BY <1>1, Invariance, PTL

\* With an outcome the leader is reaped, and who is left of its group could not
\* be killed and cannot write to a log, now or later.
THEOREM NobodySurvives == Spec => []NoSurvivor
<1>1. IInv => NoSurvivor
  BY DEF IInv, InvUnborn, InvProcesses, InvJoined, InvPipes, NoSurvivor
<1> QED
  BY <1>1, Invariance, PTL

\* No failure loses a log, and a call that ran its command to an outcome leaves
\* no capture file behind.
THEOREM FilesAreSettled == Spec => []FilesSettled
<1>1. IInv => FilesSettled
  BY DEF IInv, InvFiles, InvOutcome, InvForced, TypeOK, TypeSupervisor, Verdict,
         FilesSettled
<1> QED
  BY <1>1, Invariance, PTL

-----------------------------------------------------------------------------
(* The supervisor implements the contract its caller relies on.            *)


USE DEF Contract!vars, Contract!Next, Contract!Run, Contract!Cancel,
        Contract!Expire, Contract!Return, Contract!Fail, Contract!Justified,
        Contract!Linger, Written

\* Between the joins and the return the verdict has a cause that holds.
LEMMA VerdictIsJustified ==
  ASSUME IInv, step = "persist_stderr"
  PROVE  Verdict \in Contract!Justified
<1>1. total = Written
  BY TotalIsWritten DEF IInv, InvJoined
<1>2. total \in Nat
  BY DEF IInv, TypeOK, TypeThreads
<1>3. forced \in {"Cancelled", "LogLimitExceeded", "TimedOut", "none"}
  BY DEF IInv, TypeOK, TypeSupervisor
<1>4. /\ forced = "Cancelled" => cancelled
      /\ forced = "TimedOut" => expired
      /\ forced = "LogLimitExceeded" => total > MaxLogBytes
  BY DEF IInv, InvForced, InvLimit
<1> QED
  BY <1>1, <1>2, <1>3, <1>4 DEF Verdict

\* A step that returns an outcome is the contract's Return.
LEMMA ReturnImplements ==
  ASSUME IInv, Supervise, step' = "done"
  PROVE  Contract!Return
<1>1. CASE SpawnFails
  BY <1>1 DEF IInv, InvUnborn, InvProcesses
<1>2. CASE PersistStderr
  BY <1>2, VerdictIsJustified DEF IInv, InvProcesses
<1>3. ~(SpawnFails \/ PersistStderr) => step' # "done"
  BY DEF Supervise
<1> QED
  BY <1>1, <1>2, <1>3

\* Every behaviour of execute_check is one the contract allows: a step of the
\* supervisor that goes on is Run, its errors are Fail, a thread's step is a
\* stutter, and the world's steps are Run, or Linger after the return, Cancel,
\* Expire or stutters.
THEOREM ImplementsContract == Spec => ContractSpec
<1>1. Init => Contract!Init
  BY DEF Init, Contract!Init
<1>2. IInv /\ IInv' /\ [Next]_vars => [Contract!Next]_(Contract!vars)
  <2> SUFFICES ASSUME IInv, IInv', [Next]_vars
               PROVE  [Contract!Next]_(Contract!vars)
    OBVIOUS
  <2> USE DEF IInv, TypeOK, TypeProcesses
  <2>1. CASE Supervise \/ SuperviseFails
    <3>1. step \notin Ended
      BY <2>1 DEF Supervise
    <3>2. CASE step' = "done"
      <4>1. Supervise
        BY <2>1, <3>2
      <4> QED
        BY <4>1, <3>2, ReturnImplements
    <3>3. CASE step' = "failed"
      BY <2>1, <3>1, <3>3 DEF Supervise
    <3>4. CASE step' \notin Ended
      <4>1. UNCHANGED <<outcome, written, cancelled, expired>>
        BY <2>1, <3>4 DEF Supervise
      <4> QED
        BY <3>1, <3>4, <4>1
    <3> QED
      BY <3>2, <3>3, <3>4
  <2>2. ASSUME NEW s \in Streams, CaptureThread(s) \/ CaptureFails(s)
        PROVE  UNCHANGED Contract!vars
    BY <2>2 DEF CaptureThread
  <2>3. CASE World
    <3>1. step = "done" => \A s \in Streams : holders[s] = {}
      BY DEF InvUnborn, InvProcesses, InvJoined, InvPipes
    <3>2. CASE LeaderExits \/ Fork \/ Escape \/ ChangeUser \/ KidExits
      <4>1. UNCHANGED <<step, outcome, written, cancelled, expired>>
        BY <3>2
      <4>2. CASE step # "done"
        BY <3>2, <4>1, <4>2
      <4>3. CASE step = "done"
        <5>1. /\ leader \in {"unborn", "reaped"} /\ leader' = leader
              /\ group = {} => group' = {}
          BY <3>2, <4>3 DEF InvProcesses
        <5>2. group' \subseteq shielded' /\ shielded' \in SUBSET Procs
          BY <4>1, <4>3 DEF InvProcesses
        <5> QED
          BY <4>1, <4>3, <5>1, <5>2
      <4> QED
        BY <4>2, <4>3
    <3>3. CASE GraceEnds
      BY <3>3
    <3>4. ASSUME NEW s \in Streams, Write(s) PROVE Contract!Run
      BY <3>1, <3>4
    <3>5. CASE Cancel \/ DeadlinePasses
      BY <3>5
    <3> QED
      BY <2>3, <3>2, <3>3, <3>4, <3>5 DEF World
  <2>4. CASE UNCHANGED vars
    BY <2>4 DEF vars
  <2> QED
    BY <2>1, <2>2, <2>3, <2>4 DEF Next, Faults, Returned
<1> QED
  BY <1>1, <1>2, Invariance, PTL DEF Spec, ContractSpec, Contract!Spec
=============================================================================
