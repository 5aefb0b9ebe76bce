----------------------- MODULE TaskLifecycle_proofs -----------------------
(* What TLAPS proves of TaskLifecycle for every set of tasks, paths and    *)
(* answers, and every number of attempts and of concurrent tasks. The      *)
(* hazards a theorem does not hold with, if any, are in an assumption.     *)
EXTENDS TaskLifecycle, FiniteSetTheorems, TLAPS

(* The types of what an executor carries and of what it releases.          *)
LEMMA NoAnswerType == NoAnswer \in Answer
  BY DEF NoAnswer, Answer, AnswerKinds

LEMMA ReleaseLeasesType ==
  ASSUME NEW t \in Tasks, lease \in [Paths -> Tasks \cup {NoTask}], ReleaseLeases(t)
  PROVE  lease' \in [Paths -> Tasks \cup {NoTask}]
  BY DEF ReleaseLeases

ExecutorType ==
  /\ slots \in 0..MaxConcurrent
  /\ started \subseteq Tasks
  /\ phase \in [Tasks -> Phases]
  /\ answer \in [Tasks -> Answer]
  /\ closing \subseteq Tasks

RowType ==
  /\ status \in [Tasks -> Statuses]
  /\ attempt \in [Tasks -> 1..MaxAttempts]
  /\ failure \in [Tasks -> {"none", "spec_gap", "other"}]

LEMMA FinishType ==
  ASSUME NEW t \in Tasks, ExecutorType, Finish(t)
  PROVE  ExecutorType'
  BY NoAnswerType DEF Finish, Without, ExecutorType, Phases

LEMMA CloseType ==
  ASSUME NEW t \in Tasks, ExecutorType, Close(t)
  PROVE  ExecutorType'
  BY NoAnswerType DEF Close, ExecutorType, Phases

LEMMA ClosedType ==
  ASSUME NEW t \in Tasks, ExecutorType, Closed(t)
  PROVE  ExecutorType'
  BY DEF Closed, Without, ExecutorType

LEMMA AdvanceType ==
  ASSUME NEW t \in Tasks, NEW p \in Phases, ExecutorType, Advance(t, p)
  PROVE  ExecutorType'
  BY DEF Advance, ExecutorType

LEMMA SetStatusType ==
  ASSUME NEW t \in Tasks, NEW s \in Statuses, RowType, SetStatus(t, s)
  PROVE  RowType'
  BY DEF SetStatus, RowType

LEMMA ConsumeAttemptType ==
  ASSUME NEW t \in Tasks, NEW f \in {"none", "spec_gap", "other"}, RowType,
         ConsumeAttempt(t, f)
  PROVE  RowType'
<1>1. failure' \in [Tasks -> {"none", "spec_gap", "other"}]
  BY DEF ConsumeAttempt, RowType
<1>2. status' \in [Tasks -> Statuses]
  BY DEF ConsumeAttempt, RowType, Statuses
<1>3. attempt' \in [Tasks -> 1..MaxAttempts]
  <2>1. CASE AttemptsLeft(t)
    <3>1. attempt[t] + 1 \in 1..MaxAttempts
      BY <2>1, ConstantsAssumption DEF AttemptsLeft, RowType
    <3> QED
      BY <2>1, <3>1 DEF ConsumeAttempt, RowType
  <2>2. CASE ~AttemptsLeft(t)
    BY <2>2 DEF ConsumeAttempt, RowType
  <2> QED
    BY <2>1, <2>2
<1> QED
  BY <1>1, <1>2, <1>3 DEF RowType

(* The counts of the dispatch are natural numbers.                         *)
LEMMA InProgressCount ==
  IsFiniteSet(InProgress) /\ Cardinality(InProgress) \in Nat
<1>1. InProgress \subseteq Tasks /\ IsFiniteSet(Tasks)
  BY ConstantsAssumption DEF InProgress
<1>2. IsFiniteSet(InProgress)
  BY <1>1, FS_Subset
<1> QED
  BY <1>2, FS_CardinalityType

LEMMA StrikesType ==
  ASSUME NEW h, faults \in 0..MaxFaults, Strikes(h)
  PROVE  faults' \in 0..MaxFaults
  BY ConstantsAssumption DEF Strikes

(* In every reachable state the rows, the executor, the branches, the CI   *)
(* and the merges hold values of their types: in particular no attempt     *)
(* goes past tasks.max_attempts, which the database would refuse, leaving  *)
(* the task in_progress for ever (executor.ts, failurePatch).              *)
THEOREM TypeCorrect == Spec => []TypeOK
<1>1. Init => TypeOK
  <2> SUFFICES ASSUME Init PROVE TypeOK
    OBVIOUS
  <2>1. RowType
    BY ConstantsAssumption DEF Init, RowType, Statuses
  <2>2. ExecutorType
    BY ConstantsAssumption, NoAnswerType DEF Init, ExecutorType, Phases
  <2>3. faults \in 0..MaxFaults
    BY ConstantsAssumption DEF Init
  <2> QED
    BY <2>1, <2>2, <2>3 DEF Init, TypeOK, RowType, ExecutorType
<1>2. TypeOK /\ [Next]_vars => TypeOK'
  <2> SUFFICES ASSUME TypeOK, [Next]_vars PROVE TypeOK'
    OBVIOUS
  <2>0. RowType /\ ExecutorType
    BY DEF TypeOK, RowType, ExecutorType
  <2> USE DEF TypeOK, row, executor, git, ci
  <2>1. ASSUME NEW t \in Tasks, Propose(t) PROVE TypeOK'
    BY <2>1 DEF Propose, Statuses
  <2>2. ASSUME NEW t \in Tasks, Cancel(t) PROVE TypeOK'
    <3>1. RowType'
      BY <2>0, <2>2, SetStatusType DEF Cancel, Statuses
    <3>2. faults' \in 0..MaxFaults
      BY <2>2, StrikesType DEF Cancel
    <3> QED
      BY <2>2, <3>1, <3>2 DEF Cancel, RowType
  <2>3. ASSUME NEW t \in Tasks, Merge(t) PROVE TypeOK'
    BY <2>3 DEF Merge
  <2>4. ASSUME Escalate \/ Resume \/ Abort PROVE TypeOK'
    BY <2>4 DEF Escalate, Resume, Abort
  <2>5. ASSUME Start PROVE TypeOK'
    <3>1. status' \in [Tasks -> Statuses]
      BY <2>5 DEF Start, RequeueOrphans, Statuses
    <3>2. faults' \in 0..MaxFaults
      BY <2>5, StrikesType DEF Start
    <3> QED
      BY <2>5, <3>1, <3>2 DEF Start
  <2>6. ASSUME Crash PROVE TypeOK'
    <3>1. ExecutorType'
      BY <2>6, NoAnswerType, ConstantsAssumption DEF Crash, ExecutorType, Phases
    <3>2. faults' \in 0..MaxFaults
      BY <2>6, StrikesType DEF Crash
    <3> QED
      BY <2>6, <3>1, <3>2 DEF Crash, ExecutorType
  <2>7. ASSUME StopDispatch \/ ClaimThrows PROVE TypeOK'
    <3>1. CASE StopDispatch
      BY <3>1, ConstantsAssumption DEF StopDispatch, EndClaims
    <3>2. CASE ClaimThrows
      <4>1. RowType'
        BY <2>0, <3>2, SetStatusType DEF ClaimThrows, Statuses, RowType
      <4>2. faults' \in 0..MaxFaults
        BY <3>2, StrikesType DEF ClaimThrows
      <4> QED
        BY <3>2, <4>1, <4>2, ConstantsAssumption DEF ClaimThrows, RowType
    <3> QED
      BY <2>7, <3>1, <3>2
  <2>8. ASSUME BeginDispatch PROVE TypeOK'
    <3>1. slots' \in 0..MaxConcurrent
      BY <2>8, InProgressCount, ConstantsAssumption DEF BeginDispatch
    <3> QED
      BY <2>8, <3>1 DEF BeginDispatch
  <2>9. ASSUME NEW t \in Tasks, Claim(t) PROVE TypeOK'
    <3>1. RowType'
      BY <2>0, <2>9, SetStatusType DEF Claim, Statuses
    <3>2. slots' \in 0..MaxConcurrent
      BY <2>9, ConstantsAssumption DEF Claim, TakeSlot, EndClaims
    <3>3. phase' \in [Tasks -> Phases] /\ started' \subseteq Tasks
      BY <2>9 DEF Claim, TakeSlot, EndClaims, Phases
    <3> QED
      BY <2>9, <3>1, <3>2, <3>3 DEF Claim, RowType
  <2>10. ASSUME NEW t \in Tasks, PutBack(t) PROVE TypeOK'
    <3>1. RowType'
      BY <2>0, <2>10, SetStatusType DEF PutBack, Statuses
    <3>2. ExecutorType'
      BY <2>0, <2>10, FinishType DEF PutBack
    <3> QED
      BY <2>10, <3>1, <3>2 DEF PutBack, RowType, ExecutorType
  <2>11. ASSUME NEW t \in Tasks, NEW a \in Answers, Choose(t, a) PROVE TypeOK'
    <3>1. CASE status[t] = "cancelled"
      BY <2>0, <2>11, <3>1, FinishType DEF Choose, ExecutorType
    <3>2. CASE status[t] # "cancelled"
      <4>1. a \in Answer
        BY ConstantsAssumption
      <4> QED
        BY <2>11, <3>2, <4>1 DEF Choose, Phases
    <3> QED
      BY <3>1, <3>2
  <2>12. ASSUME NEW t \in Tasks, FailAttempt(t) PROVE TypeOK'
    <3>1. RowType'
      BY <2>0, <2>12, SetStatusType, ConsumeAttemptType DEF FailAttempt, Statuses
    <3>2. ExecutorType'
      BY <2>0, <2>12, CloseType DEF FailAttempt
    <3> QED
      BY <2>12, <3>1, <3>2 DEF FailAttempt, RowType, ExecutorType
  <2>13. ASSUME NEW t \in Tasks, Acquire(t) PROVE TypeOK'
    <3>1. CASE Conflict(t)
      <4>1. RowType'
        BY <2>0, <2>13, <3>1, SetStatusType DEF Acquire, Statuses
      <4>2. ExecutorType'
        BY <2>0, <2>13, <3>1, FinishType DEF Acquire
      <4> QED
        BY <2>13, <3>1, <4>1, <4>2 DEF Acquire, RowType, ExecutorType
    <3>2. CASE ~Conflict(t)
      <4>1. lease' \in [Paths -> Tasks \cup {NoTask}]
        BY <2>13, <3>2 DEF Acquire
      <4>2. ExecutorType'
        BY <2>0, <2>13, <3>2, AdvanceType DEF Acquire, Phases
      <4> QED
        BY <2>13, <3>2, <4>1, <4>2 DEF Acquire, ExecutorType
    <3> QED
      BY <3>1, <3>2
  <2>14. ASSUME NEW t \in Tasks, Commit(t) PROVE TypeOK'
    <3>1. ExecutorType'
      BY <2>0, <2>14, AdvanceType DEF Commit, Phases
    <3>2. head' \in [Tasks -> Nat] /\ content' \in [Tasks -> SUBSET Areas]
      <4>1. answer[t].areas \subseteq Areas
        BY DEF Answer
      <4> QED
        BY <2>14, <4>1 DEF Commit
    <3>3. jobs' \subseteq Job
      BY <2>14 DEF Commit, JudgesOf, Job, Judges
    <3>4. quiet' \subseteq Tasks
      BY <2>14 DEF Commit
    <3> QED
      BY <2>14, <3>1, <3>2, <3>3, <3>4 DEF Commit, ExecutorType
  <2>15. ASSUME NEW t \in Tasks, Release(t) PROVE TypeOK'
    BY <2>0, <2>15, ReleaseLeasesType, AdvanceType DEF Release, Phases, ExecutorType
  <2>16. ASSUME NEW t \in Tasks, ParkOnGap(t) PROVE TypeOK'
    <3>1. RowType'
      BY <2>16 DEF ParkOnGap, RowType, Statuses
    <3>2. ExecutorType'
      BY <2>0, <2>16, CloseType DEF ParkOnGap
    <3> QED
      BY <2>16, <3>1, <3>2 DEF ParkOnGap, RowType, ExecutorType
  <2>17. ASSUME NEW t \in Tasks, Record(t) PROVE TypeOK'
    <3>1. OutcomeOf(t) \in Statuses
      BY DEF OutcomeOf, Statuses
    <3>2. RowType'
      BY <2>0, <2>17, <3>1, SetStatusType DEF Record, RowType
    <3>3. ExecutorType'
      BY <2>0, <2>17, FinishType DEF Record
    <3>4. parked' \in [Tasks -> {"no", "gap", "question", "infra"}] /\ quiet' \subseteq Tasks
      BY <2>17 DEF Record
    <3> QED
      BY <2>17, <3>2, <3>3, <3>4 DEF Record, RowType, ExecutorType
  <2>18. ASSUME NEW t \in Tasks, LoseWrite(t) PROVE TypeOK'
    <3>1. ExecutorType'
      BY <2>0, <2>18, FinishType, CloseType, ClosedType, AdvanceType DEF LoseWrite, Phases
    <3>2. faults' \in 0..MaxFaults
      BY <2>18, StrikesType DEF LoseWrite
    <3> QED
      BY <2>18, <3>1, <3>2 DEF LoseWrite, ExecutorType
  <2>19. ASSUME NEW t \in Tasks, Throw(t) \/ Block(t) \/ EndFailure(t) PROVE TypeOK'
    <3>1. CASE Throw(t)
      <4>1. ExecutorType' /\ faults' \in 0..MaxFaults
        BY <2>0, <3>1, AdvanceType, StrikesType DEF Throw, Phases
      <4> QED
        BY <3>1, <4>1 DEF Throw, ExecutorType
    <3>2. CASE Block(t)
      <4>1. RowType' /\ ExecutorType'
        BY <2>0, <3>2, SetStatusType, CloseType DEF Block, Statuses
      <4> QED
        BY <3>2, <4>1 DEF Block, RowType, ExecutorType
    <3>3. CASE EndFailure(t)
      <4>1. ExecutorType' /\ lease' \in [Paths -> Tasks \cup {NoTask}]
        BY <2>0, <3>3, ClosedType, ReleaseLeasesType DEF EndFailure
      <4> QED
        BY <3>3, <4>1 DEF EndFailure, ExecutorType
    <3> QED
      BY <2>19, <3>1, <3>2, <3>3
  <2>20. ASSUME NEW t \in Tasks, Expire(t) PROVE TypeOK'
    <3>1. lease' \in [Paths -> Tasks \cup {NoTask}] /\ faults' \in 0..MaxFaults
      BY <2>20, ReleaseLeasesType, StrikesType DEF Expire
    <3> QED
      BY <2>20, <3>1 DEF Expire
  <2>21. ASSUME NEW j \in jobs, NEW v \in Verdicts, Judge(j, v) PROVE TypeOK'
    BY <2>21 DEF Judge, Job, Post
  <2>22. ASSUME NEW q \in posts, LosePost(q) PROVE TypeOK'
    <3>1. faults' \in 0..MaxFaults /\ quiet' \subseteq Tasks
      BY <2>22, StrikesType DEF LosePost, Wasted, Post
    <3> QED
      BY <2>22, <3>1 DEF LosePost
  <2>23. ASSUME NEW q \in posts, Deliver(q) PROVE TypeOK'
    <3>1. /\ q.task \in Tasks
          /\ [commit |-> q.commit, judge |-> q.judge] \in Run
      BY DEF Post, Run
    <3>2. green' \in [Tasks -> SUBSET Run] /\ posts' \subseteq Post
      BY <2>23, <3>1 DEF Deliver
    <3>3. UNCHANGED <<up, executor, git, jobs, merged, mission, parked, faults>>
      BY <2>23 DEF Deliver
    <3>4. quiet' \subseteq Tasks
      BY <2>23, <3>1 DEF Deliver, Wasted
    <3>5. CASE ~AwaitsVerdict(q.task)
      BY <2>23, <3>4, <3>2, <3>3, <3>5 DEF Deliver
    <3>6. CASE AwaitsVerdict(q.task)
      <4>1. lease' \in [Paths -> Tasks \cup {NoTask}]
        BY <2>23, <3>1, <3>6, ReleaseLeasesType DEF Deliver
      <4>2. RowType'
        <5>1. CASE q.verdict = "passed"
          BY <2>23, <3>1, <3>6, <5>1 DEF Deliver, RowType, Statuses
        <5>2. CASE q.verdict # "passed"
          BY <2>0, <2>23, <3>1, <3>6, <5>2, ConsumeAttemptType DEF Deliver
        <5> QED
          BY <5>1, <5>2
      <4> QED
        BY <3>2, <3>3, <3>4, <4>1, <4>2 DEF RowType
    <3> QED
      BY <3>5, <3>6
  <2>24. CASE UNCHANGED vars
    BY <2>24 DEF vars
  <2> QED
    BY <2>1, <2>2, <2>3, <2>4, <2>5, <2>6, <2>7, <2>8, <2>9, <2>10, <2>11, <2>12,
       <2>13, <2>14, <2>15, <2>16, <2>17, <2>18, <2>19, <2>20, <2>21, <2>22, <2>23,
       <2>24 DEF Next, Execute, Dispatch, Judgement
<1> QED
  BY <1>1, <1>2, PTL DEF Spec

-----------------------------------------------------------------------------
(* No verdict, requeue, put-back or decision of the Master moves a row     *)
(* under the feet of its executor (index.ts, executor.ts, 0009): whatever  *)
(* the interleaving, a task being executed is in_progress or was cancelled *)
(* by a person, and its worker is alive.                                   *)
LEMMA ExecutionOwnsRowStep ==
  ASSUME TypeOK, ExecutionOwnsRow, [Next]_vars
  PROVE  ExecutionOwnsRow'
<1> USE DEF TypeOK, ExecutionOwnsRow, row, executor, git, ci
<1>1. ASSUME NEW t \in Tasks, Propose(t) PROVE ExecutionOwnsRow'
  BY <1>1 DEF Propose, BetweenDispatches, Superseded
<1>2. ASSUME NEW t \in Tasks, Cancel(t) PROVE ExecutionOwnsRow'
  BY <1>2 DEF Cancel, SetStatus
<1>3. ASSUME NEW t \in Tasks, Merge(t) PROVE ExecutionOwnsRow'
  BY <1>3 DEF Merge
<1>4. ASSUME Escalate \/ Resume \/ Abort PROVE ExecutionOwnsRow'
  BY <1>4 DEF Escalate, Resume, Abort
<1>5. ASSUME Start \/ Crash PROVE ExecutionOwnsRow'
  BY <1>5 DEF Start, Crash
<1>6. ASSUME StopDispatch \/ ClaimThrows \/ BeginDispatch PROVE ExecutionOwnsRow'
  BY <1>6 DEF StopDispatch, ClaimThrows, Claimable, SetStatus, BeginDispatch
<1>7. ASSUME NEW t \in Tasks, Claim(t) PROVE ExecutionOwnsRow'
  BY <1>7 DEF Claim, SetStatus
<1>8. ASSUME NEW t \in Tasks, PutBack(t) PROVE ExecutionOwnsRow'
  BY <1>8 DEF PutBack, SetStatus, Finish
<1>9. ASSUME NEW t \in Tasks, NEW a \in Answers, Choose(t, a) PROVE ExecutionOwnsRow'
  BY <1>9 DEF Choose, Finish
<1>10. ASSUME NEW t \in Tasks, FailAttempt(t) PROVE ExecutionOwnsRow'
  BY <1>10 DEF FailAttempt, SetStatus, ConsumeAttempt, Close
<1>11. ASSUME NEW t \in Tasks, Acquire(t) PROVE ExecutionOwnsRow'
  BY <1>11 DEF Acquire, Acquires, Answered, SetStatus, Finish, Advance
<1>12. ASSUME NEW t \in Tasks, Commit(t) \/ Release(t) PROVE ExecutionOwnsRow'
  BY <1>12 DEF Commit, Release, Releases, Answered, Advance
<1>13. ASSUME NEW t \in Tasks, ParkOnGap(t) \/ Record(t) PROVE ExecutionOwnsRow'
  BY <1>13 DEF ParkOnGap, Record, SetStatus, Finish, Close
<1>14. ASSUME NEW t \in Tasks, LoseWrite(t) \/ Throw(t) \/ Block(t) \/ EndFailure(t)
       PROVE  ExecutionOwnsRow'
  <2>1. CASE LoseWrite(t)
    BY <2>1 DEF LoseWrite, Releases, Answered, Finish, Close, Advance, Closed
  <2>2. CASE Throw(t)
    BY <2>2 DEF Throw, Acquires, Answered, Advance
  <2>3. CASE Block(t) \/ EndFailure(t)
    BY <2>3 DEF Block, EndFailure, SetStatus, Close, Closed
  <2> QED
    BY <1>14, <2>1, <2>2, <2>3
<1>15. ASSUME NEW t \in Tasks, Expire(t) PROVE ExecutionOwnsRow'
  BY <1>15 DEF Expire
<1>16. ASSUME NEW j \in jobs, NEW v \in Verdicts, Judge(j, v) PROVE ExecutionOwnsRow'
  BY <1>16 DEF Judge
<1>17. ASSUME NEW q \in posts, LosePost(q) PROVE ExecutionOwnsRow'
  BY <1>17 DEF LosePost
<1>18. ASSUME NEW q \in posts, Deliver(q) PROVE ExecutionOwnsRow'
  <2>1. UNCHANGED <<up, phase>>
    BY <1>18 DEF Deliver
  <2>2. \A t \in Tasks : status'[t] = status[t] \/ status[t] = "awaiting_verification"
    BY <1>18 DEF Deliver, AwaitsVerdict, ConsumeAttempt
  <2> QED
    BY <2>1, <2>2
<1>19. CASE UNCHANGED vars
  BY <1>19 DEF vars
<1> QED
  BY <1>1, <1>2, <1>3, <1>4, <1>5, <1>6, <1>7, <1>8, <1>9, <1>10, <1>11, <1>12,
     <1>13, <1>14, <1>15, <1>16, <1>17, <1>18, <1>19
     DEF Next, Execute, Dispatch, Judgement

(* A task at work owns its row, for every set of tasks, paths and hazards. *)
THEOREM RowsAreOwned == Spec => []ExecutionOwnsRow
<1>1. Init => ExecutionOwnsRow
  BY DEF Init, ExecutionOwnsRow
<1>2. TypeOK /\ ExecutionOwnsRow /\ [Next]_vars => ExecutionOwnsRow'
  BY ExecutionOwnsRowStep
<1> QED
  BY <1>1, <1>2, TypeCorrect, PTL DEF Spec

-----------------------------------------------------------------------------
(* What the tick of the worker awaits, if no claim throws: every task that *)
(* executes or has yet to release the leases of its last failure. So a     *)
(* task that is claimed again before that release overlaps itself and is   *)
(* put back (index.ts, dispatchWorkers): the release never frees paths the *)
(* task has just taken again.                                              *)
Awaited ==
  /\ \A t \in Tasks : phase[t] # "idle" \/ t \in closing => t \in started
  /\ \A t \in closing : Footprint[t] = {} \/ phase[t] \in {"idle", "putback"}

LEMMA AwaitedStep ==
  ASSUME "lost_claim" \notin Hazards, TypeOK, Awaited, [Next]_vars
  PROVE  Awaited'
<1> USE DEF TypeOK, Awaited, row, executor, git, ci
<1>1. ASSUME UNCHANGED <<started, phase, closing>> PROVE Awaited'
  BY <1>1
(* The ways an execution ends, and goes on.                                *)
<1>2. ASSUME NEW t \in Tasks, Finish(t) PROVE Awaited'
  BY <1>2 DEF Finish, Without
<1>3. ASSUME NEW t \in Tasks, Close(t), phase[t] # "idle" PROVE Awaited'
  BY <1>3 DEF Close
<1>4. ASSUME NEW t \in Tasks, Closed(t) PROVE Awaited'
  BY <1>4 DEF Closed, Without
<1>5. ASSUME NEW t \in Tasks, NEW p, Advance(t, p), phase[t] \notin {"idle", "putback"} PROVE Awaited'
  BY <1>5 DEF Advance
<1>6. ASSUME NEW t \in Tasks, Propose(t) \/ Cancel(t) \/ Merge(t) \/ Expire(t) PROVE Awaited'
  BY <1>1, <1>6 DEF Propose, Cancel, Merge, Expire
<1>7. ASSUME Escalate \/ Resume \/ Abort \/ Start PROVE Awaited'
  BY <1>1, <1>7 DEF Escalate, Resume, Abort, Start
<1>8. ASSUME Crash \/ BeginDispatch \/ StopDispatch \/ ClaimThrows PROVE Awaited'
  <2>1. CASE Crash
    BY <2>1 DEF Crash
  <2>2. CASE BeginDispatch
    BY <2>2 DEF BeginDispatch, BetweenDispatches
  <2>3. CASE StopDispatch
    BY <2>3 DEF StopDispatch, EndClaims
  <2>4. ~ClaimThrows
    BY DEF ClaimThrows, Strikes
  <2> QED
    BY <1>8, <2>1, <2>2, <2>3, <2>4
<1>9. ASSUME NEW t \in Tasks, Claim(t) PROVE Awaited'
  <2>1. closing' = closing /\ \A u \in Tasks : u # t => phase'[u] = phase[u]
    BY <1>9 DEF Claim
  <2>2. started' \in {started \cup {t}, {u \in started \cup {t} : phase'[u] # "idle" \/ u \in closing}}
    BY <1>9 DEF Claim, TakeSlot, EndClaims
  <2>3. phase'[t] = "putback" \/ ~Overlap(t, t) \/ t \notin started
    BY <1>9 DEF Claim
  <2>4. t \in closing => Footprint[t] = {} \/ phase'[t] = "putback"
    BY <2>3 DEF Overlap
  <2> QED
    BY <2>1, <2>2, <2>4
<1>10. ASSUME NEW t \in Tasks, PutBack(t) \/ Record(t) PROVE Awaited'
  BY <1>2, <1>10 DEF PutBack, Record
<1>11. ASSUME NEW t \in Tasks, NEW a \in Answers, Choose(t, a) PROVE Awaited'
  <2>1. CASE status[t] = "cancelled"
    BY <1>2, <1>11, <2>1 DEF Choose
  <2>2. CASE status[t] # "cancelled"
    <3>1. /\ phase[t] = "answering" /\ phase' = [phase EXCEPT ![t] = "chosen"]
          /\ started' = started /\ closing' = closing
      BY <1>11, <2>2 DEF Choose
    <3> QED
      BY <3>1
  <2> QED
    BY <2>1, <2>2
<1>12. ASSUME NEW t \in Tasks, FailAttempt(t) \/ ParkOnGap(t) \/ Block(t) PROVE Awaited'
  BY <1>3, <1>12 DEF FailAttempt, Refused, ParkOnGap, Block
<1>13. ASSUME NEW t \in Tasks, Acquire(t) PROVE Awaited'
  BY <1>2, <1>5, <1>13 DEF Acquire, Acquires, Answered
<1>14. ASSUME NEW t \in Tasks, Commit(t) \/ Release(t) \/ Throw(t) PROVE Awaited'
  BY <1>5, <1>14 DEF Commit, Release, Releases, Throw, Acquires, Answered
<1>15. ASSUME NEW t \in Tasks, EndFailure(t) PROVE Awaited'
  BY <1>4, <1>15 DEF EndFailure
<1>16. ASSUME NEW t \in Tasks, LoseWrite(t) PROVE Awaited'
  BY <1>2, <1>3, <1>4, <1>5, <1>16 DEF LoseWrite, Refused, Releases, Answered
<1>17. ASSUME NEW j \in jobs, NEW v \in Verdicts, Judge(j, v) PROVE Awaited'
  BY <1>1, <1>17 DEF Judge
<1>18. ASSUME NEW q \in posts, LosePost(q) \/ Deliver(q) PROVE Awaited'
  BY <1>1, <1>18 DEF LosePost, Deliver
<1>19. CASE UNCHANGED vars
  BY <1>1, <1>19 DEF vars
<1> QED
  BY <1>6, <1>7, <1>8, <1>9, <1>10, <1>11, <1>12, <1>13, <1>14, <1>15, <1>16, <1>17, <1>18, <1>19
     DEF Next, Execute, Dispatch, Judgement

(* The dispatch awaits what executes, as long as no claim throws.          *)
LEMMA WorkIsAwaited ==
  ASSUME "lost_claim" \notin Hazards
  PROVE  Spec => []Awaited
<1>1. Init => Awaited
  BY DEF Init, Awaited
<1>2. TypeOK /\ Awaited /\ [Next]_vars => Awaited'
  BY AwaitedStep
<1> QED
  BY <1>1, <1>2, TypeCorrect, PTL DEF Spec

-----------------------------------------------------------------------------
(* A task that writes holds the lease of every path it writes until its    *)
(* commit is made: neither another task's acquire_leases, nor the late     *)
(* release of an earlier failure, nor a verdict takes one away in between  *)
(* (0004_functions.sql). What is excluded is a claim that throws, after    *)
(* which nobody awaits what runs, and a commit that outlasts the TTL.      *)
LeaseAssumption == {"lost_claim", "slow_commit"} \cap Hazards = {}

LEMMA LeaseHeldStep ==
  ASSUME LeaseAssumption, TypeOK, ExecutionOwnsRow, Awaited, LeaseHeldWhileWriting, [Next]_vars
  PROVE  LeaseHeldWhileWriting'
<1> USE DEF TypeOK, LeaseHeldWhileWriting, row, executor, git, ci
<1>0. /\ NoTask \notin Tasks
      /\ \A t \in Tasks : Footprint[t] \subseteq Paths
  BY ConstantsAssumption
<1>1. ASSUME NEW t \in Tasks, Propose(t) \/ Cancel(t) \/ Merge(t) PROVE LeaseHeldWhileWriting'
  BY <1>1 DEF Propose, Cancel, Merge
<1>2. ASSUME Escalate \/ Resume \/ Abort PROVE LeaseHeldWhileWriting'
  BY <1>2 DEF Escalate, Resume, Abort
<1>3. ASSUME Start \/ Crash PROVE LeaseHeldWhileWriting'
  BY <1>3 DEF Start, Crash
<1>4. ASSUME StopDispatch \/ ClaimThrows \/ BeginDispatch PROVE LeaseHeldWhileWriting'
  BY <1>4 DEF StopDispatch, ClaimThrows, BeginDispatch
<1>5. ASSUME NEW t \in Tasks, Claim(t) PROVE LeaseHeldWhileWriting'
  BY <1>5 DEF Claim
<1>6. ASSUME NEW t \in Tasks, PutBack(t) PROVE LeaseHeldWhileWriting'
  BY <1>6 DEF PutBack, Finish
<1>7. ASSUME NEW t \in Tasks, NEW a \in Answers, Choose(t, a) PROVE LeaseHeldWhileWriting'
  BY <1>7 DEF Choose, Finish
(* A release frees the paths of a task that is not about to write any.     *)
<1>8. ASSUME NEW t \in Tasks, ReleaseLeases(t), phase'[t] # "leased" \/ Footprint[t] = {},
             \A u \in Tasks : phase'[u] = "leased" => phase[u] = "leased"
      PROVE  LeaseHeldWhileWriting'
  BY <1>0, <1>8 DEF ReleaseLeases
<1>9. ASSUME NEW t \in Tasks, FailAttempt(t) PROVE LeaseHeldWhileWriting'
  BY <1>9 DEF FailAttempt, Close
<1>10. ASSUME NEW t \in Tasks, Acquire(t) PROVE LeaseHeldWhileWriting'
  <2>1. CASE Conflict(t)
    BY <1>10, <2>1 DEF Acquire, Finish
  <2>2. CASE \A p \in Footprint[t] : lease[p] \in {t, NoTask}
    <3>0. ~Conflict(t)
      BY <2>2 DEF Conflict
    <3>1. lease' = [p \in Paths |-> IF p \in Footprint[t] THEN t ELSE lease[p]]
      BY <1>10, <3>0 DEF Acquire
    <3>2. phase' = [phase EXCEPT ![t] = "leased"]
      BY <1>10, <3>0 DEF Acquire, Advance
    <3>3. ASSUME NEW u \in Tasks, phase'[u] = "leased", NEW p \in Footprint[u]
          PROVE  lease'[p] = u
      <4>1. CASE u = t
        BY <1>0, <3>1, <4>1
      (* A path of both would be held by u, and refused to t.              *)
      <4>2. CASE u # t
        <5>1. phase[u] = "leased" /\ lease[p] = u /\ p \in Paths
          BY <1>0, <3>2, <3>3, <4>2
        <5>2. p \notin Footprint[t]
          BY <1>0, <2>2, <4>2, <5>1
        <5> QED
          BY <3>1, <5>1, <5>2
      <4> QED
        BY <4>1, <4>2
    <3> QED
      BY <3>3
  <2> QED
    BY <2>1, <2>2 DEF Conflict
<1>11. ASSUME NEW t \in Tasks, Commit(t) PROVE LeaseHeldWhileWriting'
  BY <1>11 DEF Commit, Advance
<1>12. ASSUME NEW t \in Tasks, Release(t) PROVE LeaseHeldWhileWriting'
  BY <1>8, <1>12 DEF Release, Advance
<1>13. ASSUME NEW t \in Tasks, ParkOnGap(t) \/ Throw(t) \/ Block(t) PROVE LeaseHeldWhileWriting'
  BY <1>13 DEF ParkOnGap, Throw, Block, Close, Advance
<1>14. ASSUME NEW t \in Tasks, Record(t) \/ LoseWrite(t) PROVE LeaseHeldWhileWriting'
  <2>1. CASE Record(t)
    BY <2>1 DEF Record, Finish
  <2>2. CASE LoseWrite(t)
    BY <2>2 DEF LoseWrite, Finish, Close, Advance, Closed
  <2> QED
    BY <1>14, <2>1, <2>2
<1>15. ASSUME NEW t \in Tasks, EndFailure(t) \/ Expire(t) PROVE LeaseHeldWhileWriting'
  <2>1. CASE EndFailure(t)
    <3>1. t \in closing /\ phase' = phase /\ ReleaseLeases(t)
      BY <2>1 DEF EndFailure, Closed
    <3>2. phase'[t] # "leased" \/ Footprint[t] = {}
      BY <3>1 DEF Awaited
    <3> QED
      BY <1>8, <3>1, <3>2
  <2>2. CASE Expire(t)
    <3>1. phase[t] # "leased" /\ phase' = phase /\ ReleaseLeases(t)
      BY <2>2 DEF Expire, Strikes, LeaseAssumption
    <3> QED
      BY <1>8, <3>1
  <2> QED
    BY <1>15, <2>1, <2>2
<1>16. ASSUME NEW j \in jobs, NEW v \in Verdicts, Judge(j, v) PROVE LeaseHeldWhileWriting'
  BY <1>16 DEF Judge
<1>17. ASSUME NEW q \in posts, LosePost(q) PROVE LeaseHeldWhileWriting'
  BY <1>17 DEF LosePost
(* A verdict releases the leases of a task that awaits it: not an executing one. *)
<1>18. ASSUME NEW q \in posts, Deliver(q) PROVE LeaseHeldWhileWriting'
  <2>1. q.task \in Tasks
    BY DEF Post
  <2>2. UNCHANGED phase
    BY <1>18 DEF Deliver
  <2>3. CASE ~AwaitsVerdict(q.task)
    BY <1>18, <2>2, <2>3 DEF Deliver
  <2>4. CASE AwaitsVerdict(q.task)
    <3>1. phase[q.task] = "idle"
      BY <2>1, <2>4 DEF AwaitsVerdict, ExecutionOwnsRow
    <3> QED
      BY <1>8, <1>18, <2>1, <2>2, <2>4, <3>1 DEF Deliver
  <2> QED
    BY <2>3, <2>4
<1>19. CASE UNCHANGED vars
  BY <1>19 DEF vars
<1> QED
  BY <1>1, <1>2, <1>3, <1>4, <1>5, <1>6, <1>7, <1>9, <1>10, <1>11, <1>12, <1>13,
     <1>14, <1>15, <1>16, <1>17, <1>18, <1>19
     DEF Next, Execute, Dispatch, Judgement

(* A task that writes holds the lease of every path it writes.             *)
THEOREM LeasesAreHeld ==
  ASSUME LeaseAssumption
  PROVE  Spec => []LeaseHeldWhileWriting
<1>0. "lost_claim" \notin Hazards
  BY DEF LeaseAssumption
<1>1. Init => LeaseHeldWhileWriting
  BY DEF Init, LeaseHeldWhileWriting
<1>2. TypeOK /\ ExecutionOwnsRow /\ Awaited /\ LeaseHeldWhileWriting /\ [Next]_vars
        => LeaseHeldWhileWriting'
  BY LeaseHeldStep
<1>3. Spec => []Awaited
  BY <1>0, WorkIsAwaited
<1> QED
  BY <1>1, <1>2, <1>3, TypeCorrect, RowsAreOwned, PTL DEF Spec

(* What the leases are for (0001, before the leases table: two agents      *)
(* cannot edit the same file).                                             *)
THEOREM WritersExclude ==
  ASSUME LeaseAssumption
  PROVE  Spec => []ExclusiveCommit
<1>1. LeaseHeldWhileWriting => ExclusiveCommit
  BY DEF LeaseHeldWhileWriting, ExclusiveCommit, Overlap
<1>2. Spec => []LeaseHeldWhileWriting
  BY LeasesAreHeld
<1> QED
  BY <1>1, <1>2, PTL

-----------------------------------------------------------------------------
(* A cancelled task is never carried forward, in any step: the final       *)
(* update, the trigger and the claim all look at the status they replace   *)
(* (executor.ts, 0009_verdict_guard.sql, 0010_mission_chat.sql).           *)
THEOREM CancelledStopsThere == Spec => CancelledNeverAdvances
<1> DEFINE Stops(t) == status[t] = "cancelled" =>
             status'[t] \notin {"done", "awaiting_verification", "in_progress"}
<1>1. TypeOK /\ [Next]_vars => [\A t \in Tasks : Stops(t)]_vars
  <2> SUFFICES ASSUME TypeOK, Next, NEW t \in Tasks, status[t] = "cancelled"
               PROVE  status'[t] \notin {"done", "awaiting_verification", "in_progress"}
    OBVIOUS
  <2> USE DEF TypeOK, row
  <2>1. ASSUME NEW u \in Tasks, Propose(u) \/ Cancel(u) \/ Merge(u)
        PROVE  status'[t] = "cancelled"
    BY <2>1 DEF Propose, Superseded, Cancel, SetStatus, Merge
  <2>2. ASSUME Escalate \/ Resume \/ Abort \/ Start \/ Crash \/ StopDispatch
                 \/ ClaimThrows \/ BeginDispatch
        PROVE  status'[t] = "cancelled"
    BY <2>2 DEF Escalate, Resume, Abort, Start, RequeueOrphans, Crash, StopDispatch,
                ClaimThrows, Claimable, SetStatus, BeginDispatch
  <2>3. ASSUME NEW u \in Tasks, Claim(u) PROVE status'[t] = "cancelled"
    BY <2>3 DEF Claim, Claimable, SetStatus
  <2>4. ASSUME NEW u \in Tasks, Execute(u)
        PROVE  status'[t] \notin {"done", "awaiting_verification", "in_progress"}
    <3>1. CASE PutBack(u) \/ FailAttempt(u) \/ Acquire(u) \/ ParkOnGap(u)
      BY <3>1 DEF PutBack, FailAttempt, ConsumeAttempt, Acquire, ParkOnGap, SetStatus
    <3>2. CASE (\E a \in Answers : Choose(u, a)) \/ Commit(u) \/ Release(u) \/ Block(u) \/ EndFailure(u)
      BY <3>2 DEF Choose, Commit, Release, Block, EndFailure, SetStatus
    <3>3. CASE Record(u)
      BY <3>3 DEF Record, CancelledMeanwhile, SetStatus
    <3> QED
      BY <2>4, <3>1, <3>2, <3>3 DEF Execute
  <2>5. ASSUME NEW u \in Tasks, LoseWrite(u) \/ Throw(u) \/ Expire(u)
        PROVE  status'[t] \notin {"done", "awaiting_verification", "in_progress"}
    BY <2>5 DEF LoseWrite, Throw, Expire
  <2>6. ASSUME NEW j \in jobs, NEW v \in Verdicts, Judge(j, v) PROVE status'[t] = "cancelled"
    BY <2>6 DEF Judge
  <2>7. ASSUME NEW q \in posts, LosePost(q) \/ Deliver(q) PROVE status'[t] = "cancelled"
    BY <2>7 DEF LosePost, Deliver, AwaitsVerdict, ConsumeAttempt
  <2> QED
    BY <2>1, <2>2, <2>3, <2>4, <2>5, <2>6, <2>7 DEF Next, Dispatch, Judgement
<1> QED
  BY <1>1, TypeCorrect, PTL DEF Spec, CancelledNeverAdvances

-----------------------------------------------------------------------------
(* Unless an update of a row is lost or a claim throws, a row that says    *)
(* in_progress is being executed as long as the worker lives:              *)
(* requeueOrphans leaves none behind and every way out of executeTask      *)
(* writes another status (index.ts).                                       *)
NoOrphanAssumption == {"lost_write", "lost_claim"} \cap Hazards = {}

LEMMA NoOrphanStep ==
  ASSUME NoOrphanAssumption, TypeOK, NoOrphan, [Next]_vars
  PROVE  NoOrphan'
<1> USE DEF TypeOK, NoOrphan, row, executor, git, ci
<1>1. ASSUME NEW t \in Tasks, Propose(t) \/ Cancel(t) \/ Merge(t) PROVE NoOrphan'
  BY <1>1 DEF Propose, Superseded, Cancel, SetStatus, Merge
<1>2. ASSUME Escalate \/ Resume \/ Abort PROVE NoOrphan'
  BY <1>2 DEF Escalate, Resume, Abort
<1>3. ASSUME Start \/ Crash PROVE NoOrphan'
  <2>1. CASE Start
    BY <2>1 DEF Start, RequeueOrphans, Strikes, NoOrphanAssumption
  <2>2. CASE Crash
    BY <2>2 DEF Crash
  <2> QED
    BY <1>3, <2>1, <2>2
<1>4. ASSUME StopDispatch \/ ClaimThrows \/ BeginDispatch PROVE NoOrphan'
  BY <1>4 DEF StopDispatch, ClaimThrows, Strikes, NoOrphanAssumption, BeginDispatch
<1>5. ASSUME NEW t \in Tasks, Claim(t) PROVE NoOrphan'
  BY <1>5 DEF Claim, SetStatus
<1>6. ASSUME NEW t \in Tasks, PutBack(t) PROVE NoOrphan'
  BY <1>6 DEF PutBack, SetStatus, Finish
<1>7. ASSUME NEW t \in Tasks, NEW a \in Answers, Choose(t, a) PROVE NoOrphan'
  BY <1>7 DEF Choose, Finish
<1>8. ASSUME NEW t \in Tasks, FailAttempt(t) PROVE NoOrphan'
  BY <1>8 DEF FailAttempt, SetStatus, ConsumeAttempt, Close
<1>9. ASSUME NEW t \in Tasks, Acquire(t) PROVE NoOrphan'
  BY <1>9 DEF Acquire, SetStatus, Finish, Advance
<1>10. ASSUME NEW t \in Tasks, Commit(t) \/ Release(t) PROVE NoOrphan'
  BY <1>10 DEF Commit, Release, Advance
<1>11. ASSUME NEW t \in Tasks, ParkOnGap(t) \/ Block(t) \/ EndFailure(t) PROVE NoOrphan'
  <2>1. CASE ParkOnGap(t)
    BY <2>1 DEF ParkOnGap, Close
  <2>2. CASE Block(t)
    BY <2>2 DEF Block, SetStatus, Close
  <2>3. CASE EndFailure(t)
    BY <2>3 DEF EndFailure, Closed
  <2> QED
    BY <1>11, <2>1, <2>2, <2>3
<1>12. ASSUME NEW t \in Tasks, Record(t) PROVE NoOrphan'
  <2>1. OutcomeOf(t) # "in_progress"
    BY DEF OutcomeOf
  <2> QED
    BY <1>12, <2>1 DEF Record, CancelledMeanwhile, SetStatus, Finish
<1>13. ASSUME NEW t \in Tasks, LoseWrite(t) \/ Throw(t) \/ Expire(t) PROVE NoOrphan'
  <2>1. ~LoseWrite(t)
    BY DEF NoOrphanAssumption, LoseWrite, Strikes
  <2>2. CASE Throw(t)
    BY <2>2 DEF Throw, Advance
  <2>3. CASE Expire(t)
    BY <2>3 DEF Expire
  <2> QED
    BY <1>13, <2>1, <2>2, <2>3
<1>14. ASSUME NEW j \in jobs, NEW v \in Verdicts, Judge(j, v) PROVE NoOrphan'
  BY <1>14 DEF Judge
<1>15. ASSUME NEW q \in posts, LosePost(q) \/ Deliver(q) PROVE NoOrphan'
  <2>1. UNCHANGED <<up, phase>>
    BY <1>15 DEF LosePost, Deliver
  <2>2. \A t \in Tasks : status'[t] = status[t] \/ status'[t] # "in_progress"
    BY <1>15 DEF LosePost, Deliver, ConsumeAttempt
  <2> QED
    BY <2>1, <2>2
<1>16. CASE UNCHANGED vars
  BY <1>16 DEF vars
<1> QED
  BY <1>1, <1>2, <1>3, <1>4, <1>5, <1>6, <1>7, <1>8, <1>9, <1>10, <1>11, <1>12,
     <1>13, <1>14, <1>15, <1>16
     DEF Next, Execute, Dispatch, Judgement

(* A row in progress has an executor as long as the worker lives, no       *)
(* update is lost and no claim throws.                                     *)
THEOREM NothingIsOrphaned ==
  ASSUME NoOrphanAssumption
  PROVE  Spec => []NoOrphan
<1>1. Init => NoOrphan
  BY DEF Init, NoOrphan
<1>2. TypeOK /\ NoOrphan /\ [Next]_vars => NoOrphan'
  BY NoOrphanStep
<1> QED
  BY <1>1, <1>2, TypeCorrect, PTL DEF Spec

-----------------------------------------------------------------------------
(* However many crashes, requeues, cancellations and lost updates, the     *)
(* rows in progress and the claims still open stay within                  *)
(* config.maxConcurrentTasks (index.ts, dispatchWorkers).                  *)

(* A step that puts no row in progress and opens no claim keeps the bound. *)
LEMMA FewerInFlight ==
  ASSUME TypeOK, InFlightBound, InProgress' \subseteq InProgress,
         slots' \in Nat, slots' <= slots
  PROVE  InFlightBound'
<1>1. Cardinality(InProgress') \in Nat /\ Cardinality(InProgress') <= Cardinality(InProgress)
  BY InProgressCount, FS_Subset, FS_CardinalityType
<1> QED
  BY <1>1, InProgressCount, ConstantsAssumption DEF InFlightBound, TypeOK

LEMMA InFlightStep ==
  ASSUME TypeOK, InFlightBound, [Next]_vars
  PROVE  InFlightBound'
<1> USE DEF TypeOK, row, executor, git, ci
<1>0. slots \in Nat /\ slots <= slots
  BY ConstantsAssumption
<1>1. ASSUME NEW t \in Tasks, Propose(t) \/ Cancel(t) \/ Merge(t) PROVE InFlightBound'
  <2>1. InProgress' \subseteq InProgress /\ UNCHANGED slots
    BY <1>1 DEF InProgress, Propose, Superseded, Cancel, SetStatus, Merge
  <2> QED
    BY <1>0, <2>1, FewerInFlight
<1>2. ASSUME Escalate \/ Resume \/ Abort \/ Start PROVE InFlightBound'
  <2>1. InProgress' \subseteq InProgress /\ UNCHANGED slots
    BY <1>2 DEF InProgress, Escalate, Resume, Abort, Start, RequeueOrphans
  <2> QED
    BY <1>0, <2>1, FewerInFlight
<1>3. ASSUME Crash \/ StopDispatch PROVE InFlightBound'
  <2>1. InProgress' \subseteq InProgress /\ slots' = 0
    BY <1>3 DEF InProgress, Crash, StopDispatch, EndClaims
  <2> QED
    BY <1>0, <2>1, FewerInFlight
(* The dispatch fills what the rows in progress leave free.                *)
<1>4. ASSUME BeginDispatch PROVE InFlightBound'
  <2>1. InProgress' = InProgress /\ slots' = MaxConcurrent - Cardinality(InProgress)
    BY <1>4 DEF InProgress, BeginDispatch
  <2> QED
    BY <2>1, InProgressCount, ConstantsAssumption DEF InFlightBound
(* A claim adds one row, and takes one slot or all of them.                *)
<1>5. ASSUME NEW t \in Tasks, Claim(t) PROVE InFlightBound'
  <2>1. InProgress' = InProgress \cup {t} /\ t \notin InProgress
    BY <1>5 DEF InProgress, Claim, Claimable, SetStatus
  <2>2. Cardinality(InProgress') = Cardinality(InProgress) + 1
    BY <2>1, InProgressCount, FS_AddElement
  <2>3. slots > 0 /\ (slots' = 0 \/ slots' = slots - 1)
    BY <1>5 DEF Claim, TakeSlot, EndClaims
  <2> QED
    BY <1>0, <2>2, <2>3, InProgressCount, ConstantsAssumption DEF InFlightBound
(* So does one whose answer is lost, and it takes all the slots.           *)
<1>5a. ASSUME ClaimThrows PROVE InFlightBound'
  <2>1. slots > 0 /\ slots' = 0
    BY <1>5a DEF ClaimThrows
  <2>2. CASE UNCHANGED row
    <3>1. InProgress' \subseteq InProgress
      BY <2>2 DEF InProgress
    <3> QED
      BY <1>0, <2>1, <3>1, FewerInFlight
  <2>3. ASSUME NEW t \in Tasks, Claimable(t), SetStatus(t, "in_progress") PROVE InFlightBound'
    <3>1. InProgress' = InProgress \cup {t} /\ t \notin InProgress
      BY <2>3 DEF InProgress, Claimable, SetStatus
    <3>2. Cardinality(InProgress') = Cardinality(InProgress) + 1
      BY <3>1, InProgressCount, FS_AddElement
    <3> QED
      BY <1>0, <2>1, <3>2, InProgressCount, ConstantsAssumption DEF InFlightBound
  <2> QED
    BY <1>5a, <2>2, <2>3 DEF ClaimThrows
<1>6. ASSUME NEW t \in Tasks, Execute(t) PROVE InFlightBound'
  <2>1. CASE PutBack(t) \/ FailAttempt(t) \/ Acquire(t)
    <3>1. InProgress' \subseteq InProgress /\ UNCHANGED slots
      BY <2>1 DEF InProgress, PutBack, FailAttempt, ConsumeAttempt, Acquire, SetStatus,
                  Finish, Close, Advance
    <3> QED
      BY <1>0, <3>1, FewerInFlight
  <2>2. CASE (\E a \in Answers : Choose(t, a)) \/ Commit(t) \/ Release(t) \/ Block(t) \/ EndFailure(t)
    <3>1. InProgress' \subseteq InProgress /\ UNCHANGED slots
      BY <2>2 DEF InProgress, Choose, Commit, Release, Block, EndFailure, SetStatus, Finish, Advance, Close, Closed
    <3> QED
      BY <1>0, <3>1, FewerInFlight
  <2>3. CASE ParkOnGap(t) \/ Record(t)
    <3>0. OutcomeOf(t) # "in_progress"
      BY DEF OutcomeOf
    <3>1. InProgress' \subseteq InProgress /\ UNCHANGED slots
      BY <2>3, <3>0 DEF InProgress, ParkOnGap, Record, SetStatus, Finish, Close
    <3> QED
      BY <1>0, <3>1, FewerInFlight
  <2> QED
    BY <1>6, <2>1, <2>2, <2>3 DEF Execute
<1>7. ASSUME NEW t \in Tasks, LoseWrite(t) \/ Throw(t) \/ Expire(t) PROVE InFlightBound'
  <2>1. InProgress' \subseteq InProgress /\ UNCHANGED slots
    BY <1>7 DEF InProgress, LoseWrite, Throw, Finish, Close, Closed, Advance, Expire
  <2> QED
    BY <1>0, <2>1, FewerInFlight
<1>8. ASSUME NEW j \in jobs, NEW v \in Verdicts, Judge(j, v) PROVE InFlightBound'
  <2>1. InProgress' \subseteq InProgress /\ UNCHANGED slots
    BY <1>8 DEF InProgress, Judge
  <2> QED
    BY <1>0, <2>1, FewerInFlight
<1>9. ASSUME NEW q \in posts, LosePost(q) \/ Deliver(q) PROVE InFlightBound'
  <2>1. InProgress' \subseteq InProgress /\ UNCHANGED slots
    BY <1>9 DEF InProgress, LosePost, Deliver, AwaitsVerdict, ConsumeAttempt
  <2> QED
    BY <1>0, <2>1, FewerInFlight
<1>10. CASE UNCHANGED vars
  <2>1. InProgress' \subseteq InProgress /\ UNCHANGED slots
    BY <1>10 DEF InProgress, vars
  <2> QED
    BY <1>0, <2>1, FewerInFlight
<1> QED
  BY <1>1, <1>2, <1>3, <1>4, <1>5, <1>5a, <1>6, <1>7, <1>8, <1>9, <1>10
     DEF Next, Dispatch, Judgement

(* Rows in progress and open claims stay within the bound, for every       *)
(* bound.                                                                  *)
THEOREM InFlightIsBounded == Spec => []InFlightBound
<1>1. Init => InFlightBound
  <2> SUFFICES ASSUME Init PROVE InFlightBound
    OBVIOUS
  <2>1. InProgress = {} /\ slots = 0
    BY DEF Init, InProgress
  <2> QED
    BY <2>1, FS_EmptySet, ConstantsAssumption DEF InFlightBound
<1>2. TypeOK /\ InFlightBound /\ [Next]_vars => InFlightBound'
  BY InFlightStep
<1> QED
  BY <1>1, <1>2, TypeCorrect, PTL DEF Spec

-----------------------------------------------------------------------------
(* What a task carries once an answer is chosen is one a model may give    *)
(* (executor.ts, from the choice to the final update).                     *)
AnswersAreGiven ==
  \A t \in Tasks : phase[t] \in {"chosen", "leased", "committed", "released"} => answer[t] \in Answers

(* A task at work has an answer of the model.                              *)
LEMMA AnswersAreGivenStep ==
  ASSUME TypeOK, AnswersAreGiven, [Next]_vars
  PROVE  AnswersAreGiven'
<1> USE DEF TypeOK, AnswersAreGiven, row, executor, git, ci
<1>1. ASSUME NEW t \in Tasks, Propose(t) \/ Cancel(t) \/ Merge(t) \/ Expire(t) PROVE AnswersAreGiven'
  BY <1>1 DEF Propose, Cancel, Merge, Expire
<1>2. ASSUME Escalate \/ Resume \/ Abort \/ Start \/ StopDispatch \/ ClaimThrows \/ BeginDispatch PROVE AnswersAreGiven'
  BY <1>2 DEF Escalate, Resume, Abort, Start, StopDispatch, ClaimThrows, BeginDispatch
<1>3. ASSUME Crash PROVE AnswersAreGiven'
  BY <1>3 DEF Crash
<1>4. ASSUME NEW t \in Tasks, Claim(t) PROVE AnswersAreGiven'
  BY <1>4 DEF Claim
<1>5. ASSUME NEW t \in Tasks, Finish(t) PROVE AnswersAreGiven'
  BY <1>5 DEF Finish
<1>6. ASSUME NEW t \in Tasks, NEW p \in {"leased", "committed", "released"}, Advance(t, p),
             phase[t] \in {"chosen", "leased", "committed", "released"}
      PROVE  AnswersAreGiven'
  BY <1>6 DEF Advance
<1>7. ASSUME NEW t \in Tasks, NEW a \in Answers, Choose(t, a) PROVE AnswersAreGiven'
  <2>1. CASE status[t] = "cancelled"
    BY <1>5, <1>7, <2>1 DEF Choose
  <2>2. CASE status[t] # "cancelled"
    BY <1>7, <2>2 DEF Choose
  <2> QED
    BY <2>1, <2>2
<1>5a. ASSUME NEW t \in Tasks, Close(t) \/ Closed(t) \/ Advance(t, "thrown") PROVE AnswersAreGiven'
  BY <1>5a DEF Close, Closed, Advance
<1>8. ASSUME NEW t \in Tasks, PutBack(t) \/ FailAttempt(t) \/ ParkOnGap(t) \/ Record(t)
      PROVE  AnswersAreGiven'
  BY <1>5, <1>5a, <1>8 DEF PutBack, FailAttempt, ParkOnGap, Record
<1>8a. ASSUME NEW t \in Tasks, LoseWrite(t) \/ Throw(t) \/ Block(t) \/ EndFailure(t) PROVE AnswersAreGiven'
  BY <1>5, <1>5a, <1>6, <1>8a DEF LoseWrite, Releases, Answered, Throw, Block, EndFailure
<1>9. ASSUME NEW t \in Tasks, Acquire(t) \/ Commit(t) \/ Release(t) PROVE AnswersAreGiven'
  BY <1>5, <1>6, <1>9 DEF Acquire, Acquires, Commit, Release, Releases, Answered
<1>10. ASSUME NEW j \in jobs, NEW v \in Verdicts, Judge(j, v) PROVE AnswersAreGiven'
  BY <1>10 DEF Judge
<1>11. ASSUME NEW q \in posts, LosePost(q) \/ Deliver(q) PROVE AnswersAreGiven'
  BY <1>11 DEF LosePost, Deliver
<1>12. CASE UNCHANGED vars
  BY <1>12 DEF vars
<1> QED
  BY <1>1, <1>2, <1>3, <1>4, <1>7, <1>8, <1>8a, <1>9, <1>10, <1>11, <1>12
     DEF Next, Execute, Dispatch, Judgement

(* Every answer carried was given by a model.                              *)
THEOREM AnswersCarried == Spec => []AnswersAreGiven
<1>1. Init => AnswersAreGiven
  BY DEF Init, AnswersAreGiven
<1>2. TypeOK /\ AnswersAreGiven /\ [Next]_vars => AnswersAreGiven'
  BY AnswersAreGivenStep
<1> QED
  BY <1>1, <1>2, TypeCorrect, PTL DEF Spec

-----------------------------------------------------------------------------
(* The overlap check spares every lease conflict while no worker dies, no  *)
(* claim throws and no write is lost: what executes is known to the        *)
(* dispatch, so no two tasks that execute, or have yet to release the      *)
(* leases of a failure, have a path in common, and a lease is held only by *)
(* a task between acquire_leases and its release (index.ts,                *)
(* dispatchWorkers).                                                       *)
SpareAssumption == {"crash", "lost_claim", "lost_write"} \cap Hazards = {}

Executing == {t \in Tasks : phase[t] \notin {"idle", "putback"} \/ t \in closing}

MayHold(t) == phase[t] \in {"leased", "committed", "thrown"} \/ t \in closing

SpareIInv ==
  /\ \A t, u \in Executing : t # u => ~Overlap(t, u)
  /\ \A p \in Paths, u \in Tasks : lease[p] = u => MayHold(u) /\ p \in Footprint[u]

(* No work starts while a path it writes is another's.                     *)
LEMMA SpareStep ==
  ASSUME SpareAssumption, TypeOK, ExecutionOwnsRow, Awaited, SpareIInv, [Next]_vars
  PROVE  SpareIInv'
<1> USE DEF TypeOK, row, executor, git, ci
<1>0. NoTask \notin Tasks /\ \A t \in Tasks : Footprint[t] \subseteq Paths
  BY ConstantsAssumption
<1>1. ASSUME UNCHANGED <<closing, phase, lease>> PROVE SpareIInv'
  BY <1>1 DEF SpareIInv, Executing, MayHold
<1>2. ASSUME NEW t \in Tasks, Propose(t) \/ Cancel(t) \/ Merge(t) PROVE SpareIInv'
  BY <1>1, <1>2 DEF Propose, Cancel, Merge
<1>3. ASSUME Escalate \/ Resume \/ Abort \/ Start PROVE SpareIInv'
  BY <1>1, <1>3 DEF Escalate, Resume, Abort, Start
<1>4. ASSUME Crash \/ ClaimThrows \/ \E t \in Tasks : LoseWrite(t) PROVE FALSE
  BY <1>4 DEF Crash, ClaimThrows, LoseWrite, Strikes, SpareAssumption
<1>5. ASSUME BeginDispatch \/ StopDispatch PROVE SpareIInv'
  BY <1>1, <1>5 DEF BeginDispatch, StopDispatch
<1>7. ASSUME NEW t \in Tasks, Claim(t) PROVE SpareIInv'
  <2>1. phase[t] = "idle" /\ lease' = lease /\ closing' = closing
    BY <1>7 DEF Claim, Claimable, ExecutionOwnsRow
  <2>2. \A u \in Tasks : u # t => phase'[u] = phase[u]
    BY <1>7 DEF Claim
  <2>3. phase'[t] = "putback" \/ \A u \in started : ~Overlap(t, u)
    BY <1>7 DEF Claim
  <2>4. Executing \subseteq started
    BY DEF Executing, Awaited
  <2>5. \A u \in Executing' : u \in Executing \/ (u = t /\ phase'[t] # "putback")
    BY <2>1, <2>2 DEF Executing
  <2>6. ASSUME NEW u \in Executing', NEW w \in Executing', u # w PROVE ~Overlap(u, w)
    <3>1. CASE u \in Executing /\ w \in Executing
      BY <2>6, <3>1 DEF SpareIInv
    <3>2. CASE u \notin Executing
      <4>1. u = t /\ phase'[t] # "putback" /\ w \in Executing
        BY <2>5, <2>6, <3>2
      <4> QED
        BY <2>3, <2>4, <4>1
    <3>3. CASE w \notin Executing
      <4>1. w = t /\ phase'[t] # "putback" /\ u \in Executing
        BY <2>5, <2>6, <3>3
      <4> QED
        BY <2>3, <2>4, <4>1 DEF Overlap
    <3> QED
      BY <3>1, <3>2, <3>3
  <2>7. ASSUME NEW p \in Paths, NEW u \in Tasks, lease'[p] = u
        PROVE  MayHold(u)' /\ p \in Footprint[u]
    <3>1. MayHold(u) /\ p \in Footprint[u]
      BY <2>1, <2>7 DEF SpareIInv
    <3> QED
      BY <2>1, <2>2, <3>1 DEF MayHold
  <2> QED
    BY <2>6, <2>7 DEF SpareIInv, Overlap
(* A step of one task that starts no execution, and keeps its leases only  *)
(* as long as it may hold them.                                            *)
<1>8. ASSUME NEW t \in Tasks,
             \A u \in Tasks : u # t => phase'[u] = phase[u],
             \A u \in Tasks : u # t => (u \in closing' <=> u \in closing),
             t \in Executing' => t \in Executing,
             ReleaseLeases(t) \/ (lease' = lease /\ (MayHold(t) => MayHold(t)'))
      PROVE  SpareIInv'
  <2>1. Executing' \subseteq Executing
    BY <1>8 DEF Executing
  <2>2. \A u \in Tasks : u # t => (MayHold(u)' <=> MayHold(u))
    BY <1>8 DEF MayHold
  <2>3. ASSUME NEW p \in Paths, NEW u \in Tasks, lease'[p] = u
        PROVE  MayHold(u)' /\ p \in Footprint[u]
    <3>1. CASE ReleaseLeases(t)
      <4>1. lease[p] = u /\ u # t
        BY <2>3, <3>1, ConstantsAssumption DEF ReleaseLeases
      <4>2. MayHold(u) /\ p \in Footprint[u]
        BY <4>1 DEF SpareIInv
      <4> QED
        BY <2>2, <4>1, <4>2
    <3>2. CASE lease' = lease /\ (MayHold(t) => MayHold(t)')
      <4>1. MayHold(u) /\ p \in Footprint[u]
        BY <2>3, <3>2 DEF SpareIInv
      <4>2. MayHold(u)'
        BY <2>2, <3>2, <4>1
      <4> QED
        BY <4>1, <4>2
    <3> QED
      BY <1>8, <3>1, <3>2
  <2> QED
    BY <2>1, <2>3 DEF SpareIInv, Overlap
(* How an execution that holds no lease ends, fails, and goes on.          *)
<1>8a. ASSUME NEW t \in Tasks, Finish(t), lease' = lease, ~MayHold(t) \/ t \in closing PROVE SpareIInv'
  BY <1>8, <1>8a DEF Finish, Executing, MayHold
<1>8b. ASSUME NEW t \in Tasks, Close(t), lease' = lease, phase[t] \notin {"idle", "putback"} PROVE SpareIInv'
  <2>1. MayHold(t)' /\ t \in Executing
    BY <1>8b DEF Close, MayHold, Executing
  <2> QED
    BY <1>8, <1>8b, <2>1 DEF Close
<1>9. ASSUME NEW t \in Tasks, PutBack(t) PROVE SpareIInv'
  BY <1>8a, <1>9 DEF PutBack, MayHold
<1>10. ASSUME NEW t \in Tasks, NEW a \in Answers, Choose(t, a) PROVE SpareIInv'
  <2>1. CASE status[t] = "cancelled"
    BY <1>8a, <1>10, <2>1 DEF Choose, MayHold
  <2>2. CASE status[t] # "cancelled"
    <3>1. /\ phase[t] = "answering" /\ phase' = [phase EXCEPT ![t] = "chosen"]
          /\ lease' = lease /\ closing' = closing
      BY <1>10, <2>2 DEF Choose
    <3> QED
      BY <1>8, <3>1 DEF Executing, MayHold
  <2> QED
    BY <2>1, <2>2
<1>11. ASSUME NEW t \in Tasks, FailAttempt(t) \/ ParkOnGap(t) \/ Block(t) PROVE SpareIInv'
  BY <1>8b, <1>11 DEF FailAttempt, Refused, ParkOnGap, Block
<1>12. ASSUME NEW t \in Tasks, Record(t) PROVE SpareIInv'
  BY <1>8a, <1>12 DEF Record, MayHold
<1>13. ASSUME NEW t \in Tasks, Acquire(t) PROVE SpareIInv'
  <2>1. phase[t] = "chosen"
    BY <1>13 DEF Acquire, Acquires, Answered
  <2>2. CASE Conflict(t)
    <3>1. Finish(t) /\ lease' = lease
      BY <1>13, <2>2 DEF Acquire
    <3> QED
      BY <1>8a, <2>1, <3>1 DEF MayHold
  <2>3. CASE ~Conflict(t)
    <3>1. /\ phase' = [phase EXCEPT ![t] = "leased"] /\ closing' = closing
          /\ lease' = [p \in Paths |-> IF p \in Footprint[t] THEN t ELSE lease[p]]
      BY <1>13, <2>3 DEF Acquire, Advance
    <3>2. Executing' = Executing
      BY <2>1, <3>1 DEF Executing
    <3>3. ASSUME NEW p \in Paths, NEW u \in Tasks, lease'[p] = u
          PROVE  MayHold(u)' /\ p \in Footprint[u]
      <4>1. CASE p \in Footprint[t]
        BY <3>1, <3>3, <4>1 DEF MayHold
      <4>2. CASE p \notin Footprint[t]
        <5>1. MayHold(u) /\ p \in Footprint[u]
          BY <3>1, <3>3, <4>2 DEF SpareIInv
        <5> QED
          BY <2>1, <3>1, <5>1 DEF MayHold
      <4> QED
        BY <4>1, <4>2
    <3> QED
      BY <3>2, <3>3 DEF SpareIInv, Overlap
  <2> QED
    BY <2>2, <2>3
<1>14. ASSUME NEW t \in Tasks, Commit(t) PROVE SpareIInv'
  <2>1. phase[t] = "leased" /\ phase' = [phase EXCEPT ![t] = "committed"] /\ closing' = closing /\ lease' = lease
    BY <1>14 DEF Commit, Advance
  <2> QED
    BY <1>8, <2>1 DEF Executing, MayHold
<1>15. ASSUME NEW t \in Tasks, Release(t) PROVE SpareIInv'
  <2>1. /\ phase[t] \in {"committed", "chosen"} /\ phase' = [phase EXCEPT ![t] = "released"]
        /\ closing' = closing /\ ReleaseLeases(t)
    BY <1>15 DEF Release, Releases, Answered, Advance
  <2> QED
    BY <1>8, <2>1 DEF Executing
<1>16. ASSUME NEW t \in Tasks, Throw(t) PROVE SpareIInv'
  <2>1. /\ phase[t] \in {"answering", "leased", "chosen"} /\ phase' = [phase EXCEPT ![t] = "thrown"]
        /\ closing' = closing /\ lease' = lease
    BY <1>16 DEF Throw, Acquires, Answered, Advance
  <2> QED
    BY <1>8, <2>1 DEF Executing, MayHold
(* The late release of a failure: the task, claimed again, has been put    *)
(* back or writes nothing.                                                 *)
<1>17. ASSUME NEW t \in Tasks, EndFailure(t) PROVE SpareIInv'
  <2>1. t \in closing /\ phase' = phase /\ closing' = closing \ {t} /\ ReleaseLeases(t)
    BY <1>17 DEF EndFailure, Closed
  <2> QED
    BY <1>8, <2>1 DEF Executing
(* Leases that fall are those of a task that no longer writes.             *)
<1>18. ASSUME NEW t, ReleaseLeases(t), UNCHANGED <<closing, phase>> PROVE SpareIInv'
  BY <1>0, <1>18 DEF SpareIInv, Executing, MayHold, ReleaseLeases
<1>19. ASSUME NEW t \in Tasks, Expire(t) PROVE SpareIInv'
  BY <1>18, <1>19 DEF Expire
<1>20. ASSUME NEW j \in jobs, NEW v \in Verdicts, Judge(j, v) PROVE SpareIInv'
  BY <1>1, <1>20 DEF Judge
<1>21. ASSUME NEW q \in posts, LosePost(q) \/ Deliver(q) PROVE SpareIInv'
  BY <1>1, <1>18, <1>21 DEF LosePost, Deliver
<1>22. CASE UNCHANGED vars
  BY <1>1, <1>22 DEF vars
<1> QED
  BY <1>2, <1>3, <1>4, <1>5, <1>7, <1>9, <1>10, <1>11, <1>12, <1>13, <1>14, <1>15,
     <1>16, <1>17, <1>19, <1>20, <1>21, <1>22
     DEF Next, Execute, Dispatch, Judgement

(* An answer that was paid for finds its paths free, whatever throws or is *)
(* cancelled, as long as no worker dies, no claim throws and no write is   *)
(* lost (index.ts, dispatchWorkers).                                       *)
THEOREM NoAnswerIsWasted ==
  ASSUME SpareAssumption
  PROVE  Spec => []NoWastedAnswer
<1>0. Spec => []Awaited
  BY WorkIsAwaited DEF SpareAssumption
<1>1. Init => SpareIInv
  BY ConstantsAssumption DEF Init, SpareIInv, Executing
<1>2. TypeOK /\ ExecutionOwnsRow /\ Awaited /\ SpareIInv /\ [Next]_vars => SpareIInv'
  BY SpareStep
<1>3. TypeOK /\ SpareIInv => NoWastedAnswer
  <2> SUFFICES ASSUME TypeOK, SpareIInv, NEW t \in Tasks, Answered(t), NEW p \in Footprint[t], lease[p] # NoTask
               PROVE  lease[p] = t
    BY DEF NoWastedAnswer
  <2>1. p \in Paths
    BY ConstantsAssumption
  <2>2. /\ lease[p] \in Tasks /\ MayHold(lease[p]) /\ p \in Footprint[lease[p]]
    BY <2>1 DEF SpareIInv, TypeOK
  <2>3. t \in Executing /\ lease[p] \in Executing /\ Overlap(t, lease[p])
    BY <2>2 DEF Executing, MayHold, Answered, Overlap
  <2> QED
    BY <2>3 DEF SpareIInv
<1> QED
  BY <1>0, <1>1, <1>2, <1>3, TypeCorrect, RowsAreOwned, PTL DEF Spec

-----------------------------------------------------------------------------
(* No verdict is still on its way when its branch moves on: then every     *)
(* verdict that comes is of the last commit (verify.yml tests the head     *)
(* before it posts).                                                       *)
PromptAssumption == "slow_post" \notin Hazards

PostsAreOfHead == \A q \in posts : q.commit = head[q.task]

(* A verdict is posted on the head it judged.                              *)
LEMMA PostsAreOfHeadStep ==
  ASSUME PromptAssumption, TypeOK, PostsAreOfHead, [Next]_vars
  PROVE  PostsAreOfHead'
<1> USE DEF TypeOK, PostsAreOfHead, row, executor, git, ci
<1>1. ASSUME posts' \subseteq posts, head' = head PROVE PostsAreOfHead'
  BY <1>1
<1>2. ASSUME NEW t \in Tasks, Propose(t) \/ Cancel(t) \/ Merge(t) \/ Claim(t) \/ LoseWrite(t) \/ Throw(t) \/ Block(t) \/ EndFailure(t) \/ Expire(t)
      PROVE  PostsAreOfHead'
  BY <1>1, <1>2 DEF Propose, Cancel, Merge, Claim, LoseWrite, Throw, Block, EndFailure, Expire
<1>3. ASSUME Escalate \/ Resume \/ Abort \/ Start \/ Crash \/ StopDispatch \/ ClaimThrows \/ BeginDispatch PROVE PostsAreOfHead'
  BY <1>1, <1>3 DEF Escalate, Resume, Abort, Start, Crash, StopDispatch, ClaimThrows, BeginDispatch
<1>4. ASSUME NEW t \in Tasks, PutBack(t) \/ FailAttempt(t) \/ Acquire(t) \/ Release(t) \/ ParkOnGap(t) \/ Record(t)
      PROVE  PostsAreOfHead'
  BY <1>1, <1>4 DEF PutBack, FailAttempt, Acquire, Release, ParkOnGap, Record
<1>5. ASSUME NEW t \in Tasks, NEW a \in Answers, Choose(t, a) PROVE PostsAreOfHead'
  BY <1>1, <1>5 DEF Choose
<1>6. ASSUME NEW t \in Tasks, Commit(t) PROVE PostsAreOfHead'
  <2>1. posts' = posts /\ (head' = head \/ ((\A q \in posts : q.task # t) /\ \A u \in Tasks : u # t => head'[u] = head[u]))
    BY <1>6 DEF Commit, PromptAssumption
  <2> QED
    BY <2>1 DEF Post
<1>7. ASSUME NEW j \in jobs, NEW v \in Verdicts, Judge(j, v) PROVE PostsAreOfHead'
  <2>1. head' = head
    BY <1>7 DEF Judge
  <2>2. \A q \in posts' : q \in posts \/ (StillHead(j) /\ q.task = j.task /\ q.commit = j.commit)
    BY <1>7 DEF Judge
  <2> QED
    BY <2>1, <2>2 DEF StillHead
<1>8. ASSUME NEW q \in posts, LosePost(q) \/ Deliver(q) PROVE PostsAreOfHead'
  BY <1>1, <1>8 DEF LosePost, Deliver
<1>9. CASE UNCHANGED vars
  BY <1>1, <1>9 DEF vars
<1> QED
  BY <1>2, <1>3, <1>4, <1>5, <1>6, <1>7, <1>8, <1>9 DEF Next, Execute, Dispatch, Judgement

(* The verdicts under way are of the last commit of their branch.          *)
THEOREM PostsAreFresh ==
  ASSUME PromptAssumption
  PROVE  Spec => []PostsAreOfHead
<1>1. Init => PostsAreOfHead
  BY DEF Init, PostsAreOfHead
<1>2. TypeOK /\ PostsAreOfHead /\ [Next]_vars => PostsAreOfHead'
  BY PostsAreOfHeadStep
<1> QED
  BY <1>1, <1>2, TypeCorrect, PTL DEF Spec

(* A verdict moves a task only if it judged the last commit of its branch  *)
(* (apply_run_verdict of 0009).                                            *)
THEOREM VerdictsAreOfTheHead ==
  ASSUME PromptAssumption
  PROVE  Spec => VerdictIsOfHead
<1> DEFINE A == \A t \in Tasks :
                  status[t] = "awaiting_verification" /\ status'[t] \in {"done", "ready", "failed"} =>
                    \E q \in posts \ posts' : q.task = t /\ q.commit = head[t]
<1>1. TypeOK /\ ExecutionOwnsRow /\ PostsAreOfHead /\ [Next]_vars => [A]_vars
  <2> SUFFICES ASSUME TypeOK, ExecutionOwnsRow, PostsAreOfHead, Next,
                      NEW t \in Tasks, status[t] = "awaiting_verification", status'[t] \in {"done", "ready", "failed"}
               PROVE  \E q \in posts \ posts' : q.task = t /\ q.commit = head[t]
    OBVIOUS
  <2>0. phase[t] = "idle"
    BY DEF ExecutionOwnsRow
  <2> USE DEF TypeOK, row, executor, git, ci
  <2>1. ASSUME status' = status PROVE FALSE
    BY <2>1
  <2>2. ASSUME NEW u \in Tasks, Propose(u) \/ Cancel(u) \/ Merge(u) \/ Claim(u) \/ Expire(u) PROVE FALSE
    BY <2>2 DEF Propose, Cancel, Merge, Claim, Expire, SetStatus, Superseded
  <2>3. ASSUME Escalate \/ Resume \/ Abort \/ Start \/ Crash \/ StopDispatch \/ ClaimThrows \/ BeginDispatch PROVE FALSE
    BY <2>3 DEF Escalate, Resume, Abort, Start, RequeueOrphans, Crash, StopDispatch, ClaimThrows, Claimable, SetStatus,
                BeginDispatch
  <2>4. ASSUME NEW u \in Tasks, Execute(u) \/ LoseWrite(u) \/ Throw(u) PROVE FALSE
    <3>1. phase[u] # "idle" \/ status' = status
      BY <2>4 DEF Execute, PutBack, Choose, FailAttempt, Refused, Acquire, Acquires, Answered, Commit, Release, ParkOnGap,
                  Record, Block, EndFailure, LoseWrite, Throw
    <3>2. \A w \in Tasks : w # u => status'[w] = status[w]
      BY <2>4 DEF Execute, PutBack, Choose, FailAttempt, Acquire, Commit, Release, ParkOnGap, Record, Block, EndFailure,
                  LoseWrite, Throw, SetStatus, ConsumeAttempt
    <3> QED
      BY <2>0, <2>1, <3>1, <3>2
  <2>5. ASSUME NEW j \in jobs, NEW v \in Verdicts, Judge(j, v) PROVE FALSE
    BY <2>5 DEF Judge
  <2>6. ASSUME NEW q \in posts, LosePost(q) PROVE FALSE
    BY <2>6 DEF LosePost
  <2>7. ASSUME NEW q \in posts, Deliver(q) PROVE \E r \in posts \ posts' : r.task = t /\ r.commit = head[t]
    <3>1. q \in posts \ posts' /\ q.task \in Tasks /\ q.commit = head[q.task]
      BY <2>7 DEF Deliver, PostsAreOfHead, Post
    <3>2. q.task = t
      BY <2>7, <3>1 DEF Deliver, ConsumeAttempt
    <3> QED
      BY <3>1, <3>2
  <2> QED
    BY <2>2, <2>3, <2>4, <2>5, <2>6, <2>7 DEF Next, Dispatch, Judgement
<1> QED
  BY <1>1, TypeCorrect, RowsAreOwned, PostsAreFresh, PTL DEF Spec, VerdictIsOfHead

-----------------------------------------------------------------------------
(* What is merged is done, and stays so on the commit that was merged: no  *)
(* later verdict, requeue, cancellation or executor touches a finished     *)
(* task (0009_verdict_guard.sql, executor.ts, master.ts).                  *)
MergedIsDone == \A t \in Tasks : merged[t] # "no" => status[t] = "done"

Stays(t) == status[t] = "done" => status'[t] = "done" /\ head'[t] = head[t]

(* Every step leaves what is done where it is.                             *)
LEMMA DoneStays ==
  ASSUME TypeOK, ExecutionOwnsRow, [Next]_vars
  PROVE  \A t \in Tasks : Stays(t)
<1> USE DEF TypeOK, Stays, row, executor, git, ci
<1> SUFFICES ASSUME NEW u \in Tasks, status[u] = "done" PROVE status'[u] = "done" /\ head'[u] = head[u]
  OBVIOUS
<1>1. ASSUME NEW t \in Tasks, Propose(t) \/ Cancel(t) \/ Merge(t) \/ Claim(t) \/ Expire(t)
      PROVE  status'[u] = "done" /\ head'[u] = head[u]
  BY <1>1 DEF Propose, Cancel, Merge, Claim, Claimable, Expire, SetStatus, Superseded
<1>2. ASSUME Escalate \/ Resume \/ Abort \/ Start \/ Crash \/ StopDispatch \/ ClaimThrows \/ BeginDispatch
      PROVE  status'[u] = "done" /\ head'[u] = head[u]
  BY <1>2 DEF Escalate, Resume, Abort, Start, RequeueOrphans, Crash, StopDispatch, ClaimThrows, Claimable, SetStatus,
              BeginDispatch
<1>3. ASSUME NEW t \in Tasks, Execute(t) \/ LoseWrite(t) \/ Throw(t)
      PROVE  status'[u] = "done" /\ head'[u] = head[u]
  <2>1. phase[t] # "idle" \/ (status' = status /\ head' = head)
    BY <1>3 DEF Execute, PutBack, Choose, FailAttempt, Refused, Acquire, Acquires, Answered, Commit, Release, ParkOnGap,
                Record, Block, EndFailure, LoseWrite, Throw
  <2>2. CASE status' = status /\ head' = head
    BY <2>2
  <2>3. CASE phase[t] # "idle"
    <3>1. u # t
      BY <2>3 DEF ExecutionOwnsRow
    <3>2. status'[u] = status[u]
      BY <1>3, <3>1 DEF Execute, PutBack, Choose, FailAttempt, Acquire, Commit, Release, ParkOnGap, Record, Block,
                        EndFailure, LoseWrite, Throw, SetStatus, ConsumeAttempt
    <3>3. head'[u] = head[u]
      BY <1>3, <3>1 DEF Execute, PutBack, Choose, FailAttempt, Acquire, Commit, Release, ParkOnGap, Record, Block,
                        EndFailure, LoseWrite, Throw
    <3> QED
      BY <3>2, <3>3
  <2> QED
    BY <2>1, <2>2, <2>3
<1>4. ASSUME NEW j \in jobs, NEW v \in Verdicts, Judge(j, v) PROVE status'[u] = "done" /\ head'[u] = head[u]
  BY <1>4 DEF Judge
<1>5. ASSUME NEW q \in posts, LosePost(q) \/ Deliver(q) PROVE status'[u] = "done" /\ head'[u] = head[u]
  BY <1>5 DEF LosePost, Deliver, AwaitsVerdict, ConsumeAttempt
<1>6. CASE UNCHANGED vars
  BY <1>6 DEF vars
<1> QED
  BY <1>1, <1>2, <1>3, <1>4, <1>5, <1>6 DEF Next, Dispatch, Judgement

(* Only the merge pass marks a task merged, and it takes what is done.     *)
LEMMA MergedStep ==
  ASSUME TypeOK, ExecutionOwnsRow, MergedIsDone, [Next]_vars
  PROVE  MergedIsDone'
<1> USE DEF TypeOK, MergedIsDone, row, executor, git, ci
<1>1. \A t \in Tasks : Stays(t)
  BY DoneStays
<1>2. ASSUME merged' = merged PROVE MergedIsDone'
  BY <1>1, <1>2 DEF Stays
<1>3. ASSUME NEW t \in Tasks, Merge(t) PROVE MergedIsDone'
  BY <1>3 DEF Merge
<1>4. ASSUME NEW t \in Tasks, Propose(t) \/ Cancel(t) \/ Claim(t) \/ Expire(t) PROVE merged' = merged
  BY <1>4 DEF Propose, Cancel, Claim, Expire
<1>5. ASSUME Escalate \/ Resume \/ Abort \/ Start \/ Crash \/ StopDispatch \/ ClaimThrows \/ BeginDispatch
      PROVE  merged' = merged
  BY <1>5 DEF Escalate, Resume, Abort, Start, Crash, StopDispatch, ClaimThrows, BeginDispatch
<1>6. ASSUME NEW t \in Tasks, Execute(t) \/ LoseWrite(t) \/ Throw(t) PROVE merged' = merged
  BY <1>6 DEF Execute, PutBack, Choose, FailAttempt, Acquire, Commit, Release, ParkOnGap, Record, Block, EndFailure,
              LoseWrite, Throw
<1>7. ASSUME NEW j \in jobs, NEW v \in Verdicts, Judge(j, v) PROVE merged' = merged
  BY <1>7 DEF Judge
<1>8. ASSUME NEW q \in posts, LosePost(q) \/ Deliver(q) PROVE merged' = merged
  BY <1>8 DEF LosePost, Deliver
<1>9. CASE UNCHANGED vars
  BY <1>2, <1>9 DEF vars
<1> QED
  BY <1>2, <1>3, <1>4, <1>5, <1>6, <1>7, <1>8, <1>9 DEF Next, Dispatch, Judgement

(* A task once merged, or in conflict with the default branch, is neither  *)
(* reopened nor given another commit, for every set of hazards and of      *)
(* answers, the two workflows that judge one commit included (merge.ts).   *)
THEOREM MergedStays == Spec => MergedStands
<1> DEFINE A == \A t \in Tasks : merged[t] # "no" => status'[t] = "done" /\ head'[t] = head[t]
<1>1. Init => MergedIsDone
  BY DEF Init, MergedIsDone
<1>2. TypeOK /\ ExecutionOwnsRow /\ MergedIsDone /\ [Next]_vars => MergedIsDone'
  BY MergedStep
<1>3. TypeOK /\ ExecutionOwnsRow /\ MergedIsDone /\ [Next]_vars => [A]_vars
  BY DoneStays DEF MergedIsDone, Stays
<1> QED
  BY <1>1, <1>2, <1>3, TypeCorrect, RowsAreOwned, PTL DEF Spec, MergedStands

-----------------------------------------------------------------------------
(* Between its commit and its record, the work of a task is being judged,  *)
(* or its verdict is under way, was wasted, or will not come: the push     *)
(* starts its run before it cancels the one of the former head.            *)
CommitIsJudged ==
  \A t \in Tasks : phase[t] \in {"committed", "released"} =>
    VerdictIsComing(t) \/ t \in quiet \/ answer[t].areas \subseteq {"docs"}

(* Steps of neither the CI nor a commit, that send no task to the CI.      *)
LEMMA JudgeKept ==
  ASSUME AwaitingHasJudge, CommitIsJudged, head' = head, jobs' = jobs, posts' = posts, quiet \subseteq quiet',
         \A t \in Tasks : status'[t] = "awaiting_verification" =>
           status[t] = "awaiting_verification" \/ VerdictIsComing(t) \/ t \in quiet',
         \A t \in Tasks : phase'[t] \in {"committed", "released"} =>
           \/ answer'[t].areas \subseteq {"docs"}
           \/ phase[t] \in {"committed", "released"} /\ answer'[t] = answer[t]
  PROVE  AwaitingHasJudge' /\ CommitIsJudged'
BY DEF AwaitingHasJudge, CommitIsJudged, VerdictIsComing

(* Every step keeps a verdict coming for every task that awaits one, or    *)
(* makes it quiet.                                                         *)
LEMMA JudgeStep ==
  ASSUME TypeOK, ExecutionOwnsRow, AwaitingHasJudge, CommitIsJudged, [Next]_vars
  PROVE  AwaitingHasJudge' /\ CommitIsJudged'
<1> USE DEF TypeOK, row, executor, git, ci
<1> DEFINE Held == head' = head /\ jobs' = jobs /\ posts' = posts /\ quiet' = quiet
           Unsent == \A t \in Tasks : status'[t] = "awaiting_verification" => status[t] = "awaiting_verification"
           Carried == \A t \in Tasks : phase'[t] \in {"committed", "released"} =>
                        \/ answer'[t].areas \subseteq {"docs"}
                        \/ phase[t] \in {"committed", "released"} /\ answer'[t] = answer[t]
<1>0. ASSUME Held, Unsent, Carried PROVE AwaitingHasJudge' /\ CommitIsJudged'
  BY <1>0, JudgeKept
<1>1. ASSUME NEW t \in Tasks, Propose(t) \/ Cancel(t) \/ Merge(t) \/ Expire(t) PROVE Held /\ Unsent /\ Carried
  BY <1>1 DEF Propose, Cancel, Merge, Expire, SetStatus
<1>2. ASSUME Escalate \/ Resume \/ Abort \/ StopDispatch \/ ClaimThrows \/ BeginDispatch
      PROVE  Held /\ Unsent /\ Carried
  BY <1>2 DEF Escalate, Resume, Abort, StopDispatch, ClaimThrows, SetStatus, BeginDispatch
<1>3. ASSUME Start \/ Crash PROVE Held /\ Unsent /\ Carried
  BY <1>3 DEF Start, RequeueOrphans, Crash
<1>4. ASSUME NEW t \in Tasks, Claim(t) PROVE Held /\ Unsent /\ Carried
  BY <1>4 DEF Claim, SetStatus
<1>5. ASSUME NEW t \in Tasks,
             PutBack(t) \/ FailAttempt(t) \/ ParkOnGap(t) \/ LoseWrite(t) \/ Throw(t) \/ Block(t) \/ EndFailure(t)
      PROVE  Held /\ Unsent /\ Carried
  <2>1. Held
    BY <1>5 DEF PutBack, FailAttempt, ParkOnGap, LoseWrite, Throw, Block, EndFailure
  <2>2. Unsent
    BY <1>5 DEF PutBack, FailAttempt, ParkOnGap, LoseWrite, Throw, Block, EndFailure, SetStatus, ConsumeAttempt
  <2>3. \/ Finish(t) \/ Close(t) \/ Closed(t) \/ Advance(t, "thrown")
        \/ Releases(t) /\ Advance(t, "released")
    BY <1>5 DEF PutBack, FailAttempt, ParkOnGap, LoseWrite, Throw, Block, EndFailure
  <2>4. Carried
    BY <2>3 DEF Finish, Close, Closed, Advance, Releases
  <2> QED
    BY <2>1, <2>2, <2>4
<1>6. ASSUME NEW t \in Tasks, NEW a \in Answers, Choose(t, a) PROVE Held /\ Unsent /\ Carried
  BY <1>6 DEF Choose, Finish
<1>7. ASSUME NEW t \in Tasks, Acquire(t) PROVE Held /\ Unsent /\ Carried
  BY <1>7 DEF Acquire, SetStatus, Finish, Advance
<1>8. ASSUME NEW t \in Tasks, Release(t) PROVE Held /\ Unsent /\ Carried
  BY <1>8 DEF Release, Releases, Advance
(* A commit outside docs/ starts the run that judges it, or none will.     *)
<1>9. ASSUME NEW t \in Tasks, Commit(t) PROVE AwaitingHasJudge' /\ CommitIsJudged'
  <2>1. /\ phase[t] = "leased" /\ status' = status /\ posts' = posts /\ answer' = answer
        /\ phase' = [phase EXCEPT ![t] = "committed"]
    BY <1>9 DEF Commit, Advance
  <2>2. status[t] # "awaiting_verification"
    BY <2>1 DEF ExecutionOwnsRow
  <2>3. \A u \in Tasks : u # t => head'[u] = head[u] /\ (u \in quiet => u \in quiet')
    BY <1>9 DEF Commit
  <2>4. \A j \in jobs : j.task # t => j \in jobs'
    BY <1>9 DEF Commit
  <2>5. \A u \in Tasks : u # t /\ VerdictIsComing(u) => VerdictIsComing(u)'
    BY <2>1, <2>3, <2>4 DEF VerdictIsComing
  <2>6. VerdictIsComing(t)' \/ t \in quiet' \/ answer'[t].areas \subseteq {"docs"}
    <3>1. CASE answer[t].areas = {"docs"}
      BY <2>1, <3>1
    <3>2. CASE answer[t].areas # {"docs"} /\ JudgesOf(answer[t].areas) = {}
      BY <1>9, <3>2 DEF Commit
    <3>3. ASSUME answer[t].areas # {"docs"}, NEW k \in JudgesOf(answer[t].areas) PROVE VerdictIsComing(t)'
      <4>1. /\ head' = [head EXCEPT ![t] = head[t] + 1]
            /\ jobs' = {j \in jobs : j.task # t \/ j.judge \notin JudgesOf(answer[t].areas)}
                       \cup [task : {t}, commit : {head[t] + 1}, judge : JudgesOf(answer[t].areas)]
        BY <1>9, <3>3 DEF Commit
      <4>2. [task |-> t, commit |-> head[t] + 1, judge |-> k] \in jobs'
        BY <4>1
      <4> QED
        BY <4>1, <4>2 DEF VerdictIsComing
    <3> QED
      BY <3>1, <3>2, <3>3
  <2>7. AwaitingHasJudge'
    BY <2>1, <2>2, <2>3, <2>5 DEF AwaitingHasJudge
  <2>8. ASSUME NEW u \in Tasks, phase'[u] \in {"committed", "released"}
        PROVE  VerdictIsComing(u)' \/ u \in quiet' \/ answer'[u].areas \subseteq {"docs"}
    <3>1. CASE u = t
      BY <2>6, <3>1
    <3>2. CASE u # t
      BY <2>1, <2>3, <2>5, <2>8, <3>2 DEF CommitIsJudged
    <3> QED
      BY <3>1, <3>2
  <2> QED
    BY <2>7, <2>8 DEF CommitIsJudged
(* The record sends to the CI what is being judged, or is quiet.           *)
<1>10. ASSUME NEW t \in Tasks, Record(t) PROVE AwaitingHasJudge' /\ CommitIsJudged'
  <2>1. /\ phase[t] = "released" /\ head' = head /\ jobs' = jobs /\ posts' = posts
        /\ quiet' = IF answer[t].areas \subseteq {"docs"} THEN quiet \cup {t} ELSE quiet
    BY <1>10 DEF Record
  <2>2. Carried
    BY <1>10 DEF Record, Finish
  <2>3. VerdictIsComing(t) \/ t \in quiet'
    BY <2>1 DEF CommitIsJudged
  <2>4. \A u \in Tasks : status'[u] = "awaiting_verification" => status[u] = "awaiting_verification" \/ u = t
    BY <1>10 DEF Record, SetStatus
  <2>5. quiet \subseteq quiet'
    BY <2>1
  <2> QED
    BY <2>1, <2>2, <2>3, <2>4, <2>5, JudgeKept
<1>11. ASSUME NEW j \in jobs, NEW v \in Verdicts, Judge(j, v) PROVE AwaitingHasJudge' /\ CommitIsJudged'
  <2>1. /\ status' = status /\ head' = head /\ phase' = phase /\ answer' = answer /\ jobs' = jobs \ {j}
        /\ posts \subseteq posts' /\ quiet' = quiet
    BY <1>11 DEF Judge
  <2>2. StillHead(j) => [task |-> j.task, commit |-> j.commit, judge |-> j.judge, verdict |-> v] \in posts'
    BY <1>11 DEF Judge
  <2>3. ASSUME NEW t \in Tasks, VerdictIsComing(t) PROVE VerdictIsComing(t)'
    <3>1. PICK x \in jobs \cup posts : x.task = t /\ x.commit = head[t]
      BY <2>3 DEF VerdictIsComing
    <3>2. CASE x = j
      BY <2>1, <2>2, <3>1, <3>2 DEF StillHead, VerdictIsComing
    <3>3. CASE x # j
      BY <2>1, <3>1, <3>3 DEF VerdictIsComing
    <3> QED
      BY <3>2, <3>3
  <2> QED
    BY <2>1, <2>3 DEF AwaitingHasJudge, CommitIsJudged
(* A verdict that is lost, or comes to a task that does not wait, is the   *)
(* one its branch was waiting for only if the task is quiet from then on.  *)
<1>12. ASSUME NEW q \in posts, posts' = posts \ {q}, jobs' = jobs, head' = head, NEW t \in Tasks,
              t # q.task \/ Wasted(q), quiet \subseteq quiet', VerdictIsComing(t)
       PROVE  VerdictIsComing(t)' \/ t \in quiet'
  <2>1. PICK x \in jobs \cup posts : x.task = t /\ x.commit = head[t]
    BY <1>12 DEF VerdictIsComing
  <2>2. CASE x # q \/ t # q.task
    BY <1>12, <2>1, <2>2 DEF VerdictIsComing
  <2>3. CASE x = q /\ t = q.task
    BY <1>12, <2>1, <2>3 DEF Wasted, StillHead
  <2> QED
    BY <2>2, <2>3
<1>13. ASSUME NEW q \in posts, LosePost(q) PROVE AwaitingHasJudge' /\ CommitIsJudged'
  <2>1. /\ status' = status /\ head' = head /\ phase' = phase /\ answer' = answer /\ jobs' = jobs
        /\ posts' = posts \ {q} /\ Wasted(q)
    BY <1>13 DEF LosePost
  <2>2. quiet \subseteq quiet'
    BY <2>1 DEF Wasted
  <2>3. \A t \in Tasks : VerdictIsComing(t) \/ t \in quiet => VerdictIsComing(t)' \/ t \in quiet'
    BY <1>12, <2>1, <2>2
  <2> QED
    BY <2>1, <2>3 DEF AwaitingHasJudge, CommitIsJudged
<1>14. ASSUME NEW q \in posts, Deliver(q) PROVE AwaitingHasJudge' /\ CommitIsJudged'
  <2>1. /\ q.task \in Tasks /\ head' = head /\ phase' = phase /\ answer' = answer /\ jobs' = jobs
        /\ posts' = posts \ {q}
    BY <1>14 DEF Deliver, Post
  <2>2. quiet \subseteq quiet' /\ (Wasted(q) \/ AwaitsVerdict(q.task))
    BY <1>14 DEF Deliver, Wasted
  <2>3. \A t \in Tasks : t # q.task => status'[t] = status[t]
    BY <1>14 DEF Deliver, ConsumeAttempt
  <2>4. status'[q.task] # "awaiting_verification"
    BY <1>14, <2>1 DEF Deliver, AwaitsVerdict, ConsumeAttempt
  <2>5. ASSUME NEW t \in Tasks, VerdictIsComing(t) \/ t \in quiet, t # q.task \/ Wasted(q)
        PROVE  VerdictIsComing(t)' \/ t \in quiet'
    BY <1>12, <2>1, <2>2, <2>5
  <2>6. AwaitingHasJudge'
    BY <2>3, <2>4, <2>5 DEF AwaitingHasJudge
  <2>7. phase[q.task] \in {"committed", "released"} => Wasted(q)
    BY <2>1, <2>2 DEF AwaitsVerdict, ExecutionOwnsRow
  <2>8. CommitIsJudged'
    BY <2>1, <2>5, <2>7 DEF CommitIsJudged
  <2> QED
    BY <2>6, <2>8
<1>15. CASE UNCHANGED vars
  BY <1>0, <1>15 DEF vars
<1> QED
  BY <1>0, <1>1, <1>2, <1>3, <1>4, <1>5, <1>6, <1>7, <1>8, <1>9, <1>10, <1>11, <1>13, <1>14, <1>15
     DEF Next, Execute, Dispatch, Judgement

(* A task waits for nothing only because the verdict of its attempt came   *)
(* early or was lost, or because no workflow judges what it touched: not   *)
(* through a crash, a requeue, a cancelled run or a stale verdict          *)
(* (verify.yml, 0009_verdict_guard.sql).                                   *)
THEOREM AwaitingIsJudged == Spec => []AwaitingHasJudge
<1>1. Init => AwaitingHasJudge /\ CommitIsJudged
  BY DEF Init, AwaitingHasJudge, CommitIsJudged
<1>2. TypeOK /\ ExecutionOwnsRow /\ AwaitingHasJudge /\ CommitIsJudged /\ [Next]_vars
        => AwaitingHasJudge' /\ CommitIsJudged'
  BY JudgeStep
<1> QED
  BY <1>1, <1>2, TypeCorrect, RowsAreOwned, PTL DEF Spec
=============================================================================
