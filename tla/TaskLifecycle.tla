--------------------------- MODULE TaskLifecycle ---------------------------
(***************************************************************************)
(* The life of a task of the factory, from the Master's proposal to the    *)
(* merge of its branch: the row in the database, the worker that executes  *)
(* it, the two CI workflows that judge its commits, the trigger that       *)
(* applies their verdicts, and the pass that merges what is green.         *)
(*                                                                         *)
(* One worker process runs at a time, with any number of crashes and       *)
(* restarts; what two workers at once can do is the subject of WorkerLock. *)
(* Every await of the executor that reads or writes shared state is a step *)
(* of its own, so the CI, a person and a crash fall between any two.       *)
(***************************************************************************)
EXTENDS Naturals, FiniteSets

CONSTANTS
  Tasks,         \* the task rows of one mission
  Paths,         \* the files they may write
  Footprint,     \* the paths each task writes, all within its allowed_paths
  Writers,       \* tasks of agents whose frontmatter says can_write
  Verifiers,     \* tasks of agents whose role class is verifier
  Coders,        \* tasks of the agents whose branches are merged (WRITERS)
  Answers,       \* what the chosen model answer may be
  MaxAttempts,   \* tasks.max_attempts
  MaxConcurrent, \* config.maxConcurrentTasks
  Hazards,       \* what the environment may do in this instance
  MaxFaults,     \* bound on the number of times it does
  NoTask         \* the holder of a free path

(* Where a change lies decides which workflow judges it, and whether the   *)
(* executor thinks that one will: docs are never judged.                   *)
Areas == {"kernel", "tests", "linux", "other", "docs"}

(* no_model: nobody answered, no attempt consumed; invalid: refused by the *)
(* checks; failed: the agent says it cannot be done; ask: escalate or      *)
(* request_help; build: request_build or request_test; plain: the rest.    *)
AnswerKinds == {"no_model", "invalid", "failed", "ask", "build", "plain"}

Answer == [kind : AnswerKinds, areas : SUBSET Areas]

NoAnswer == [kind |-> "plain", areas |-> {}]

(* crash: the worker dies; infra: an awaited call throws; lost_claim:      *)
(* claim_next_task throws, whether it has claimed a row or not;            *)
(* lost_write: an update of the row or a release of the leases fails, and  *)
(* nobody looks; slow_commit: a commit outlasts the TTL of its leases;     *)
(* cancel: a person cancels a task; fast_ci: a verdict may land before the *)
(* executor has recorded its outcome; slow_post: a verdict may still be    *)
(* under way when the branch has moved; lost_verdict: a verdict is refused *)
(* or never sent.                                                          *)
HazardKinds == {"crash", "infra", "lost_claim", "lost_write", "slow_commit",
                "cancel", "fast_ci", "slow_post", "lost_verdict"}

ASSUME ConstantsAssumption ==
  /\ NoTask \notin Tasks
  /\ IsFiniteSet(Tasks)
  /\ Footprint \in [Tasks -> SUBSET Paths]
  /\ Answers \subseteq Answer
  /\ \A a \in Answers : a.kind \in {"no_model", "invalid"} => a.areas = {}
  /\ MaxAttempts \in Nat \ {0}
  /\ MaxConcurrent \in Nat \ {0}
  /\ Hazards \subseteq HazardKinds
  /\ MaxFaults \in Nat

VARIABLES
  status,   \* tasks.status; "absent" before the Master inserts the row
  attempt,  \* tasks.attempt
  failure,  \* tasks.failure: "spec_gap" or not is all the Master reads of it
  lease,    \* leases: the active holder of each path
  up,       \* the worker process is alive
  slots,    \* dispatchWorkers: claims this dispatch may still make
  started,  \* inFlight: what this dispatch started; then, what its tick awaits
  phase,    \* how far executeTask has got with each task
  answer,   \* the model answer it carries
  closing,  \* failed executions yet to release their leases (two of one
            \* task count as one)
  head,     \* the last commit of the task's branch; 0 before its birth
  content,  \* the areas the commits of the branch touched
  jobs,     \* CI workflow runs under way
  posts,    \* verdicts on their way to the runs table
  green,    \* the runs rows of each task that say "passed"
  quiet,    \* tasks whose last attempt has no verdict to come: it came
            \* early or was lost, or no workflow judges it (history)
  merged,   \* what mergeVerifiedWork did: "no", "conflict", or "main"
  mission,  \* missions.status
  parked,   \* why a task is blocked (history, not in the database)
  faults    \* how often a hazard has struck (bound)

row      == <<status, attempt, failure>>
executor == <<slots, started, phase, answer, closing>>
git      == <<head, content>>
ci       == <<jobs, posts, green, quiet>>
vars     == <<row, lease, up, executor, git, ci, merged, mission, parked, faults>>

Statuses == {"absent", "ready", "in_progress", "awaiting_verification",
             "done", "failed", "blocked", "cancelled"}
Phases   == {"idle", "putback", "answering", "chosen", "leased", "committed",
             "released", "thrown"}
Judges   == {"verify", "linux"}
Verdicts == {"passed", "red", "no_kernel"}

Job  == [task : Tasks, commit : Nat, judge : Judges]
Post == [task : Tasks, commit : Nat, judge : Judges, verdict : Verdicts]
Run  == [commit : Nat, judge : Judges]

TypeOK ==
  /\ status \in [Tasks -> Statuses]
  /\ attempt \in [Tasks -> 1..MaxAttempts]
  /\ failure \in [Tasks -> {"none", "spec_gap", "other"}]
  /\ lease \in [Paths -> Tasks \cup {NoTask}]
  /\ up \in BOOLEAN
  /\ slots \in 0..MaxConcurrent
  /\ started \subseteq Tasks
  /\ phase \in [Tasks -> Phases]
  /\ answer \in [Tasks -> Answer]
  /\ closing \subseteq Tasks
  /\ head \in [Tasks -> Nat]
  /\ content \in [Tasks -> SUBSET Areas]
  /\ jobs \subseteq Job
  /\ posts \subseteq Post
  /\ green \in [Tasks -> SUBSET Run]
  /\ quiet \subseteq Tasks
  /\ merged \in [Tasks -> {"no", "conflict", "main"}]
  /\ mission \in {"running", "blocked", "aborted"}
  /\ parked \in [Tasks -> {"no", "gap", "question", "infra"}]
  /\ faults \in 0..MaxFaults

Init ==
  /\ status = [t \in Tasks |-> "absent"]
  /\ attempt = [t \in Tasks |-> 1]
  /\ failure = [t \in Tasks |-> "none"]
  /\ lease = [p \in Paths |-> NoTask]
  /\ up = FALSE
  /\ slots = 0
  /\ started = {}
  /\ phase = [t \in Tasks |-> "idle"]
  /\ answer = [t \in Tasks |-> NoAnswer]
  /\ closing = {}
  /\ head = [t \in Tasks |-> 0]
  /\ content = [t \in Tasks |-> {}]
  /\ jobs = {}
  /\ posts = {}
  /\ green = [t \in Tasks |-> {}]
  /\ quiet = {}
  /\ merged = [t \in Tasks |-> "no"]
  /\ mission = "running"
  /\ parked = [t \in Tasks |-> "no"]
  /\ faults = 0

-----------------------------------------------------------------------------
(* Helpers.                                                                *)

(* The tick awaits what it started before it ends, so the Master, the      *)
(* merge pass and the next dispatch follow; a dispatch that throws leaves  *)
(* its executions running, and the next tick begins beside them.           *)
BetweenDispatches == up /\ slots = 0 /\ started = {}

InProgress == {t \in Tasks : status[t] = "in_progress"}

(* Mutant: the dispatch compares the paths for equality only.              *)
Overlap_Equal(t, u) == Footprint[t] = Footprint[u]

Overlap(t, u) == Footprint[t] \cap Footprint[u] # {}

(* Mutant: the release forgets its where clause.                           *)
ReleaseLeases_All(t) == lease' = [p \in Paths |-> NoTask]

ReleaseLeases(t) ==
  lease' = [p \in Paths |-> IF lease[p] = t THEN NoTask ELSE lease[p]]

(* What the tick awaits once t has ended.                                  *)
Without(t) == IF slots = 0 THEN started \ {t} ELSE started

Finish(t) ==
  /\ phase' = [phase EXCEPT ![t] = "idle"]
  /\ answer' = [answer EXCEPT ![t] = NoAnswer]
  /\ started' = IF t \in closing THEN started ELSE Without(t)
  /\ UNCHANGED <<slots, closing>>

(* The row of a failed execution is written: it may be claimed again while *)
(* the release of its leases is still to come ...                          *)
Close(t) ==
  /\ phase' = [phase EXCEPT ![t] = "idle"]
  /\ answer' = [answer EXCEPT ![t] = NoAnswer]
  /\ closing' = closing \cup {t}
  /\ UNCHANGED <<slots, started>>

(* ... and with that release the execution ends.                           *)
Closed(t) ==
  /\ t \in closing
  /\ closing' = closing \ {t}
  /\ started' = IF phase[t] = "idle" THEN Without(t) ELSE started
  /\ UNCHANGED <<slots, phase, answer>>

Advance(t, p) ==
  /\ phase' = [phase EXCEPT ![t] = p]
  /\ UNCHANGED <<slots, started, answer, closing>>

SetStatus(t, s) ==
  /\ status' = [status EXCEPT ![t] = s]
  /\ UNCHANGED <<attempt, failure>>

Strikes(h) ==
  /\ h \in Hazards
  /\ faults < MaxFaults
  /\ faults' = faults + 1

(* Mutant: one attempt too many.                                           *)
AttemptsLeft_OneMore(t) == attempt[t] <= MaxAttempts

AttemptsLeft(t) == attempt[t] < MaxAttempts

(* A failed attempt: another one follows, or the task has used them all.   *)
ConsumeAttempt(t, f) ==
  /\ failure' = [failure EXCEPT ![t] = f]
  /\ IF AttemptsLeft(t)
       THEN /\ status' = [status EXCEPT ![t] = "ready"]
            /\ attempt' = [attempt EXCEPT ![t] = @ + 1]
       ELSE /\ status' = [status EXCEPT ![t] = "failed"]
            /\ UNCHANGED attempt

-----------------------------------------------------------------------------
(* The Master and the human.                                               *)

Superseded(t) ==
  status[t] = "failed" \/ (status[t] = "blocked" /\ failure[t] = "spec_gap")

(* New work is inserted ready, and closes in the same decision every task  *)
(* that had failed or was parked on a gap; the mission runs (again).       *)
Propose(t) ==
  /\ BetweenDispatches
  /\ mission # "aborted"
  /\ status[t] = "absent"
  /\ status' = [u \in Tasks |-> IF u = t THEN "ready"
                                ELSE IF Superseded(u) THEN "cancelled"
                                ELSE status[u]]
  /\ mission' = "running"
  /\ UNCHANGED <<attempt, failure, lease, up, executor, git, ci, merged,
                 parked, faults>>

(* The Master's question to the human stops the claims, until answered.    *)
Escalate ==
  /\ BetweenDispatches
  /\ mission = "running"
  /\ mission' = "blocked"
  /\ UNCHANGED <<row, lease, up, executor, git, ci, merged, parked, faults>>

Resume ==
  /\ BetweenDispatches
  /\ mission = "blocked"
  /\ mission' = "running"
  /\ UNCHANGED <<row, lease, up, executor, git, ci, merged, parked, faults>>

Abort ==
  /\ mission # "aborted"
  /\ mission' = "aborted"
  /\ UNCHANGED <<row, lease, up, executor, git, ci, merged, parked, faults>>

(* A person cancels a task whose criteria were wrong, at any moment.       *)
Cancel(t) ==
  /\ status[t] \notin {"absent", "done", "cancelled"}
  /\ Strikes("cancel")
  /\ SetStatus(t, "cancelled")
  /\ UNCHANGED <<lease, up, executor, git, ci, merged, mission, parked>>

-----------------------------------------------------------------------------
(* The worker process.                                                     *)

(* Mutant: orphans are left where they are.                                *)
RequeueOrphans_Not == UNCHANGED status

(* The rows a dead worker left in_progress go back to the queue.           *)
RequeueOrphans ==
  status' = [t \in Tasks |-> IF status[t] = "in_progress" THEN "ready" ELSE status[t]]

(* The worker starts; a requeue that fails is only logged.                 *)
Start ==
  /\ ~up
  /\ up' = TRUE
  /\ \/ RequeueOrphans /\ UNCHANGED faults
     \/ UNCHANGED status /\ Strikes("lost_write")
  /\ UNCHANGED <<attempt, failure, lease, executor, git, ci, merged, mission, parked>>

(* Everything in memory is lost; rows, leases, commits and CI runs stay.   *)
Crash ==
  /\ up
  /\ Strikes("crash")
  /\ up' = FALSE
  /\ slots' = 0
  /\ started' = {}
  /\ phase' = [t \in Tasks |-> "idle"]
  /\ answer' = [t \in Tasks |-> NoAnswer]
  /\ closing' = {}
  /\ UNCHANGED <<row, lease, git, ci, merged, mission, parked>>

(* The free slots are counted once, when the dispatch begins.              *)
BeginDispatch ==
  /\ BetweenDispatches
  /\ Cardinality(InProgress) < MaxConcurrent
  /\ slots' = MaxConcurrent - Cardinality(InProgress)
  /\ started' = {}
  /\ UNCHANGED <<row, lease, up, phase, answer, closing, git, ci, merged, mission,
                 parked, faults>>

(* Mutant: the claim is not counted.                                       *)
TakeSlot_Not(t) == started' = started \cup {t} /\ UNCHANGED slots

(* The claims end: of what was started, the tick awaits what still runs.   *)
EndClaims(tasks) ==
  /\ slots' = 0
  /\ started' = {u \in tasks : phase'[u] # "idle" \/ u \in closing}

TakeSlot(t) ==
  IF slots = 1
    THEN EndClaims(started \cup {t})
    ELSE /\ slots' = slots - 1
         /\ started' = started \cup {t}

Claimable(t) == status[t] = "ready" /\ mission = "running"

(* claim_next_task, then the overlap check with every task this dispatch   *)
(* has started, those that have ended since included.                      *)
Claim(t) ==
  /\ up /\ slots > 0
  /\ Claimable(t)
  /\ SetStatus(t, "in_progress")
  /\ IF \E u \in started : Overlap(t, u)
       THEN /\ phase' = [phase EXCEPT ![t] = "putback"]
            /\ EndClaims(started \cup {t})
       ELSE /\ phase' = [phase EXCEPT ![t] = "answering"]
            /\ TakeSlot(t)
  /\ UNCHANGED <<answer, closing, lease, up, git, ci, merged, mission, parked,
                 faults>>

(* The queue is empty, or holds nothing a model can answer now.            *)
StopDispatch ==
  /\ up /\ slots > 0
  /\ UNCHANGED <<row, lease, up, phase, answer, closing, git, ci, merged, mission,
                 parked, faults>>
  /\ EndClaims(started)

(* claim_next_task throws: the tick is over, what it started goes on. The  *)
(* row may have been claimed all the same, and then nobody executes it.    *)
ClaimThrows ==
  /\ up /\ slots > 0
  /\ Strikes("lost_claim")
  /\ \/ UNCHANGED row
     \/ \E t \in Tasks : Claimable(t) /\ SetStatus(t, "in_progress")
  /\ slots' = 0
  /\ started' = {}
  /\ UNCHANGED <<lease, up, phase, answer, closing, git, ci, merged, mission, parked>>

(* A claimed task that overlaps another is handed back, whatever became of *)
(* its row since.                                                          *)
PutBack(t) ==
  /\ phase[t] = "putback"
  /\ SetStatus(t, "ready")
  /\ Finish(t)
  /\ UNCHANGED <<lease, up, git, ci, merged, mission, parked, faults>>

-----------------------------------------------------------------------------
(* executeTask, await by await.                                            *)

(* The models answer, one answer is chosen, and the row is read once: a    *)
(* task cancelled by then is dropped. What follows relies on that read.    *)
Choose(t, a) ==
  /\ phase[t] = "answering"
  /\ IF status[t] = "cancelled"
       THEN Finish(t)
       ELSE /\ phase' = [phase EXCEPT ![t] = "chosen"]
            /\ answer' = [answer EXCEPT ![t] = a]
            /\ UNCHANGED <<slots, started, closing>>
  /\ UNCHANGED <<row, lease, up, git, ci, merged, mission, parked, faults>>

Refused(t) == phase[t] = "chosen" /\ answer[t].kind \in {"no_model", "invalid"}

Answered(t) == phase[t] = "chosen" /\ ~Refused(t)

(* failTask: an outage writes the status alone, anything else an attempt.  *)
FailAttempt(t) ==
  /\ Refused(t)
  /\ IF answer[t].kind = "no_model"
       THEN SetStatus(t, "ready")
       ELSE \E f \in {"spec_gap", "other"} : ConsumeAttempt(t, f)
  /\ Close(t)
  /\ UNCHANGED <<lease, up, git, ci, merged, mission, parked, faults>>

(* The second write of recordFailure, and of the catch of the dispatch.    *)
EndFailure(t) ==
  /\ Closed(t)
  /\ ReleaseLeases(t)
  /\ UNCHANGED <<row, up, git, ci, merged, mission, parked, faults>>

Acquires(t) == Answered(t) /\ answer[t].areas # {}

Conflict(t) == \E p \in Footprint[t] : lease[p] \notin {t, NoTask}

(* acquire_leases: every path of the diff, or none and back to ready.      *)
Acquire(t) ==
  /\ Acquires(t)
  /\ IF Conflict(t)
       THEN /\ SetStatus(t, "ready")
            /\ Finish(t)
            /\ UNCHANGED lease
       ELSE /\ lease' = [p \in Paths |-> IF p \in Footprint[t] THEN t ELSE lease[p]]
            /\ Advance(t, "leased")
            /\ UNCHANGED row
  /\ UNCHANGED <<up, git, ci, merged, mission, parked, faults>>

(* The paths filters of the two workflows.                                 *)
JudgesOf(areas) ==
  {j \in Judges : (j = "verify" /\ "kernel" \in areas) \/ (j = "linux" /\ "linux" \in areas)}

(* Work on docs/ alone goes to the default branch; anything else is one    *)
(* commit on the task's branch, and the push starts the workflows whose    *)
(* paths it touches, each cancelling its own run on the former head.       *)
Commit(t) ==
  /\ phase[t] = "leased"
  /\ IF answer[t].areas = {"docs"}
       THEN UNCHANGED <<git, jobs, quiet>>
       ELSE LET judges == JudgesOf(answer[t].areas)
                c == head[t] + 1 IN
            /\ "slow_post" \in Hazards \/ \A q \in posts : q.task # t
            /\ head' = [head EXCEPT ![t] = c]
            /\ content' = [content EXCEPT ![t] = @ \cup answer[t].areas]
            /\ jobs' = {j \in jobs : j.task # t \/ j.judge \notin judges}
                       \cup [task : {t}, commit : {c}, judge : judges]
            /\ quiet' = IF judges = {} THEN quiet \cup {t} ELSE quiet \ {t}
  /\ Advance(t, "committed")
  /\ UNCHANGED <<row, lease, up, posts, green, merged, mission, parked, faults>>

Releases(t) == phase[t] = "committed" \/ (Answered(t) /\ answer[t].areas = {})

Release(t) ==
  /\ Releases(t)
  /\ ReleaseLeases(t)
  /\ Advance(t, "released")
  /\ UNCHANGED <<row, up, git, ci, merged, mission, parked, faults>>

(* The envelope says failed, or a writer wrote nothing and asked nothing.  *)
IsGap(t) ==
  \/ answer[t].kind = "failed"
  \/ t \in Writers /\ answer[t].areas = {} /\ answer[t].kind # "ask"

(* Mutant: a verifier that asks for the CI without a commit waits for it.  *)
WantsVerification_Always(t) ==
  answer[t].kind = "build" \/ answer[t].areas \cap {"kernel", "tests"} # {}

WantsVerification(t) ==
  /\ ~(t \in Verifiers /\ answer[t].areas = {})
  /\ answer[t].kind = "build" \/ answer[t].areas \cap {"kernel", "tests"} # {}

(* recordFailure with specGapPatch: parked for the Master to reformulate.  *)
ParkOnGap(t) ==
  /\ phase[t] = "released"
  /\ IsGap(t)
  /\ status' = [status EXCEPT ![t] = "blocked"]
  /\ failure' = [failure EXCEPT ![t] = "spec_gap"]
  /\ UNCHANGED attempt
  /\ parked' = [parked EXCEPT ![t] = "gap"]
  /\ Close(t)
  /\ UNCHANGED <<lease, up, git, ci, merged, mission, faults>>

OutcomeOf(t) ==
  IF answer[t].kind = "ask" THEN "blocked"
  ELSE IF WantsVerification(t) THEN "awaiting_verification"
  ELSE "done"

(* Mutant: the final update looks at nothing either.                       *)
CancelledMeanwhile_Unseen(t) == FALSE

CancelledMeanwhile(t) == status[t] = "cancelled"

(* The final update, the only one guarded against a cancelled row. The     *)
(* failure of an earlier attempt stays in the row.                         *)
Record(t) ==
  /\ phase[t] = "released"
  /\ ~IsGap(t)
  /\ IF CancelledMeanwhile(t)
       THEN UNCHANGED <<row, parked>>
       ELSE /\ SetStatus(t, OutcomeOf(t))
            /\ parked' = [parked EXCEPT ![t] =
                            IF OutcomeOf(t) = "blocked" THEN "question" ELSE "no"]
  /\ quiet' = IF answer[t].areas \subseteq {"docs"} THEN quiet \cup {t} ELSE quiet
  /\ Finish(t)
  /\ UNCHANGED <<lease, up, git, jobs, posts, green, merged, mission, faults>>

(* A call to a model, to GitHub or to acquire_leases throws: the catch of  *)
(* dispatchWorkers blocks the row and releases the leases.                 *)
Throw(t) ==
  /\ phase[t] \in {"answering", "leased"} \/ Acquires(t)
  /\ Strikes("infra")
  /\ Advance(t, "thrown")
  /\ UNCHANGED <<row, lease, up, git, ci, merged, mission, parked>>

Block(t) ==
  /\ phase[t] = "thrown"
  /\ SetStatus(t, "blocked")
  /\ parked' = [parked EXCEPT ![t] = "infra"]
  /\ Close(t)
  /\ UNCHANGED <<lease, up, git, ci, merged, mission, faults>>

(* The client returns an error instead of throwing it, and nobody looks:   *)
(* the row, or the leases, stay as they were, and the executor goes on.    *)
LoseWrite(t) ==
  /\ Strikes("lost_write")
  /\ \/ /\ \/ phase[t] = "putback"
           \/ Acquires(t) /\ Conflict(t)
           \/ phase[t] = "released" /\ ~IsGap(t)
        /\ Finish(t)
     \/ /\ \/ Refused(t)
           \/ phase[t] = "thrown"
           \/ phase[t] = "released" /\ IsGap(t)
        /\ Close(t)
     \/ Releases(t) /\ Advance(t, "released")
     \/ Closed(t)
  /\ UNCHANGED <<row, lease, up, git, ci, merged, mission, parked>>

(* A lease outlives its holder's commit, and is recycled after its TTL,    *)
(* whatever its holder is doing.                                           *)
Expire(t) ==
  /\ \E p \in Paths : lease[p] = t
  /\ ReleaseLeases(t)
  /\ IF phase[t] = "leased" THEN Strikes("slow_commit") ELSE UNCHANGED faults
  /\ UNCHANGED <<row, up, executor, git, ci, merged, mission, parked>>

-----------------------------------------------------------------------------
(* The CI and the trigger on its verdicts.                                 *)

(* Mutant: the test of the head is the wrong way round.                    *)
StillHead_Swapped(j) == head[j.task] # j.commit

StillHead(j) == head[j.task] = j.commit

(* A workflow ends: it posts its verdict if its commit is still the head.  *)
Judge(j, v) ==
  /\ j \in jobs
  /\ v = "no_kernel" => j.judge = "verify"
  /\ "fast_ci" \in Hazards \/ phase[j.task] \notin {"committed", "released"}
  /\ jobs' = jobs \ {j}
  /\ posts' = IF StillHead(j)
              THEN posts \cup {[task |-> j.task, commit |-> j.commit,
                                judge |-> j.judge, verdict |-> v]}
              ELSE posts
  /\ UNCHANGED <<row, lease, up, executor, git, green, quiet, merged, mission,
                 parked, faults>>

(* A verdict on the last commit of a branch that will move nothing.        *)
Wasted(q) == quiet' = IF StillHead(q) THEN quiet \cup {q.task} ELSE quiet

LosePost(q) ==
  /\ q \in posts
  /\ Strikes("lost_verdict")
  /\ posts' = posts \ {q}
  /\ Wasted(q)
  /\ UNCHANGED <<row, lease, up, executor, git, jobs, green, merged, mission,
                 parked>>

(* Mutant: the trigger as it was before 0009, applied to any live task.    *)
AwaitsVerdict_Unguarded(t) == status[t] \notin {"done", "cancelled"}

(* Mutant: a later verdict on a finished task counts.                      *)
AwaitsVerdict_OrDone(t) == status[t] \in {"awaiting_verification", "done"}

AwaitsVerdict(t) == status[t] = "awaiting_verification"

(* The insert into runs: apply_run_verdict moves the task only if it       *)
(* awaits a verdict, and its leases fall; otherwise the run is recorded.   *)
Deliver(q) ==
  /\ q \in posts
  /\ posts' = posts \ {q}
  /\ green' = IF q.verdict = "passed"
              THEN [green EXCEPT ![q.task] = @ \cup {[commit |-> q.commit, judge |-> q.judge]}]
              ELSE green
  /\ IF ~AwaitsVerdict(q.task)
       THEN /\ Wasted(q)
            /\ UNCHANGED <<row, lease>>
       ELSE /\ IF q.verdict = "passed"
                 THEN /\ status' = [status EXCEPT ![q.task] = "done"]
                      /\ failure' = [failure EXCEPT ![q.task] = "none"]
                      /\ UNCHANGED attempt
                 ELSE ConsumeAttempt(q.task, IF q.verdict = "no_kernel" THEN "spec_gap"
                                             ELSE "other")
            /\ ReleaseLeases(q.task)
            /\ UNCHANGED quiet
  /\ UNCHANGED <<up, executor, git, jobs, merged, mission, parked, faults>>

(* mergeVerifiedWork: the head of a done writer's branch, once, if any run *)
(* of the task passed.                                                     *)
Merge(t) ==
  /\ BetweenDispatches
  /\ t \in Coders
  /\ status[t] = "done"
  /\ merged[t] = "no"
  /\ green[t] # {}
  /\ \E outcome \in {"conflict", "main"} : merged' = [merged EXCEPT ![t] = outcome]
  /\ UNCHANGED <<row, lease, up, executor, git, ci, mission, parked, faults>>

-----------------------------------------------------------------------------
Execute(t) ==
  \/ PutBack(t)
  \/ \E a \in Answers : Choose(t, a)
  \/ FailAttempt(t) \/ Acquire(t) \/ Commit(t) \/ Release(t)
  \/ ParkOnGap(t) \/ Record(t) \/ Block(t) \/ EndFailure(t)

Dispatch == BeginDispatch \/ (\E t \in Tasks : Claim(t))

Judgement(j) == \E v \in Verdicts : Judge(j, v)

Next ==
  \/ \E t \in Tasks : Propose(t) \/ Cancel(t) \/ Merge(t)
  \/ Escalate \/ Resume \/ Abort
  \/ Start \/ Crash \/ StopDispatch \/ ClaimThrows \/ Dispatch
  \/ \E t \in Tasks : Execute(t) \/ LoseWrite(t) \/ Throw(t) \/ Expire(t)
  \/ \E j \in jobs : Judgement(j)
  \/ \E q \in posts : LosePost(q) \/ Deliver(q)

Spec == Init /\ [][Next]_vars

(* The executor's own steps and the trigger are fair: processes that run   *)
(* and requests that are answered. Claims are strongly fair: a dispatch    *)
(* claims what is ready until its slots are used, unless no model is       *)
(* available, and an outage ends. Nothing is assumed of the Master, of the *)
(* human, or of crashes.                                                   *)
Fairness ==
  /\ WF_vars(Start) /\ WF_vars(BeginDispatch)
  /\ SF_vars(\E t \in Tasks : Claim(t))
  /\ \A t \in Tasks : WF_vars(Execute(t)) /\ WF_vars(Expire(t))
  /\ WF_vars(\E j \in jobs : Judgement(j))
  /\ WF_vars(\E q \in posts : Deliver(q))

FairSpec == Spec /\ Fairness

-----------------------------------------------------------------------------
(* Properties.                                                             *)

(* A task is executed only by a live worker, and only while its row says   *)
(* in_progress or a person has cancelled it meanwhile: no verdict, requeue *)
(* or decision of the Master moves a row under the feet of its executor.   *)
(* Without it claim_next_task would hand the same task out twice.          *)
ExecutionOwnsRow ==
  \A t \in Tasks : phase[t] # "idle" => up /\ status[t] \in {"in_progress", "cancelled"}

(* Unless a claim throws or a write is lost, a row in_progress is being    *)
(* executed while the worker lives: no task is left holding a slot for     *)
(* ever, whatever crashed before (requeueOrphans).                         *)
NoOrphan ==
  up => \A t \in Tasks : status[t] = "in_progress" => phase[t] # "idle"

(* The rows in_progress and the claims a dispatch may still make never     *)
(* exceed the concurrency limit, across crashes and requeues.              *)
InFlightBound == Cardinality(InProgress) + slots <= MaxConcurrent

(* Unless a claim throws or a commit outlasts its TTL, a task commits only *)
(* while it holds the lease of every path it writes: nothing, its own last *)
(* failure included, releases one between acquire_leases and the commit.   *)
LeaseHeldWhileWriting ==
  \A t \in Tasks : phase[t] = "leased" => \A p \in Footprint[t] : lease[p] = t

(* On the same terms, two tasks with a path in common never write at the   *)
(* same time.                                                              *)
ExclusiveCommit ==
  \A t, u \in Tasks : t # u /\ phase[t] = "leased" /\ phase[u] = "leased" => ~Overlap(t, u)

(* While no worker crashes, no claim throws and no write is lost, the      *)
(* overlap check of the dispatch spares every lease conflict: an answer    *)
(* that was paid for finds its paths free (dispatchWorkers: avoidable      *)
(* rather than survivable).                                                *)
NoWastedAnswer ==
  \A t \in Tasks : Answered(t) => \A p \in Footprint[t] : lease[p] \in {t, NoTask}

(* What 0005_ci.sql says of done and merge.ts of the default branch, which *)
(* the code keeps only for attempts that touch what verify.yml judges, and *)
(* it alone: a branch that carries kernel work is done, and merged, only   *)
(* if verify.yml was green on its last commit.                             *)
Verified(t) == [commit |-> head[t], judge |-> "verify"] \in green[t]

DoneIsGreen ==
  \A t \in Tasks : status[t] = "done" /\ "kernel" \in content[t] => Verified(t)

MergedIsGreen ==
  \A t \in Tasks : merged[t] = "main" /\ "kernel" \in content[t] => Verified(t)

(* The default branch takes a task once: what was merged is never          *)
(* reopened, whatever verdict, requeue, cancellation or executor comes     *)
(* late, and its branch gets no commit that nobody would merge             *)
(* (0009_verdict_guard.sql, mergeVerifiedWork).                            *)
MergedStands ==
  [][\A t \in Tasks : merged[t] # "no" => status'[t] = "done" /\ head'[t] = head[t]]_vars

(* A task that awaits a verdict has one coming: a workflow is judging its  *)
(* last commit, or its verdict is under way.                               *)
VerdictIsComing(t) == \E x \in jobs \cup posts : x.task = t /\ x.commit = head[t]

NobodyWaitsInVain == \A t \in Tasks : status[t] = "awaiting_verification" => VerdictIsComing(t)

(* The only ways a task waits for nothing: a verdict of its attempt came   *)
(* before it waited, or was lost, or no workflow judges what the attempt   *)
(* touched. A new push that cancels the runs of the former head, a crash,  *)
(* a requeue or a stale verdict never leaves it so.                        *)
AwaitingHasJudge ==
  \A t \in Tasks : status[t] = "awaiting_verification" => VerdictIsComing(t) \/ t \in quiet

(* A cancelled task may be put back by a write that does not look, but it  *)
(* is never carried forward: no executor and no verdict makes it done or   *)
(* sends it to verification, and it is never claimed as it is.             *)
CancelledNeverAdvances ==
  [][\A t \in Tasks : status[t] = "cancelled" =>
       status'[t] \notin {"done", "awaiting_verification", "in_progress"}]_vars

(* The cancellation stands (executor.ts, on a task cancelled midway).      *)
CancellationStands ==
  [][\A t \in Tasks : status[t] = "cancelled" => status'[t] = "cancelled"]_vars

(* The Master discards a blocked task only if it is parked on a gap: one   *)
(* blocked on a question is resumed by its answer (master.ts).             *)
OnlyGapsDiscarded ==
  [][\A t \in Tasks : status[t] = "blocked" /\ status'[t] = "cancelled" =>
       parked[t] = "gap"]_vars

(* A verdict moves a task only if it judged the last commit of its branch  *)
(* (verify.yml: the run of the most recent commit is the one that judges). *)
VerdictIsOfHead ==
  [][\A t \in Tasks :
       status[t] = "awaiting_verification" /\ status'[t] \in {"done", "ready", "failed"} =>
         \E q \in posts \ posts' : q.task = t /\ q.commit = head[t]]_vars

(* Every task that enters the queue leaves the worker's and the CI's hands *)
(* for good, if its mission is left to run: neither crashes, stale leases  *)
(* nor put-backs keep it going round for ever.                             *)
Settled(t) == status[t] \in {"done", "failed", "blocked", "cancelled"}

EveryTaskSettles ==
  <>[](mission = "running") => \A t \in Tasks : status[t] = "ready" ~> Settled(t)

(* A task blocked on a question is resumed by its answer (master.ts).      *)
QuestionIsResumed ==
  \A t \in Tasks : status[t] = "blocked" /\ parked[t] = "question" ~>
    status[t] # "blocked" \/ mission = "aborted"
=============================================================================
