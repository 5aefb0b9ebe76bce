----------------------------- MODULE WorkerLock -----------------------------
(***************************************************************************)
(* One brain at a time: the lock that workers keep in the settings table,  *)
(* and the tasks they claim while they believe they hold it. TaskLifecycle *)
(* follows one worker; here several are started, crash, sleep and stop,    *)
(* and a task is only ready, being executed, or done.                      *)
(*                                                                         *)
(* An instance is the identifier of a process (randomUUID): processes are  *)
(* started again for ever, each under a name that neither a live process   *)
(* nor the lock bears. One tick of the clock is at most a heartbeat: a     *)
(* worker that is awake never misses one, and between the lock and its     *)
(* first, or in the hands of the watchdog, it takes no longer than one.    *)
(***************************************************************************)
EXTENDS Naturals, FiniteSets

CONSTANTS
  Instances,  \* the names of worker processes
  Tasks,      \* the task rows
  NoOne,      \* the holder of a free lock
  NoTask,     \* what claim_next_task returns when nothing is ready
  Period,     \* HEARTBEAT_EVERY_MS, in ticks
  Stale,      \* STALE_AFTER_MS, in ticks
  Hazards,    \* what the environment may do in this instance
  MaxFaults   \* bound on the number of times it does

(* crash: a process dies; pause: its machine sleeps; unreachable: a call   *)
(* about the lock or the orphans comes back as an error; lost_claim: a     *)
(* claim throws, so its dispatch does not wait for what it started; skew:  *)
(* the clocks of two machines, or of one and the database, disagree.       *)
HazardKinds == {"crash", "pause", "unreachable", "lost_claim", "skew"}

ASSUME ConstantsAssumption ==
  /\ NoOne \notin Instances
  /\ NoTask \notin Tasks
  /\ Period \in Nat \ {0}
  /\ Stale \in Nat
  /\ Hazards \subseteq HazardKinds
  /\ MaxFaults \in Nat

VARIABLES
  lock,    \* settings.worker_lock: its holder, and the age of its heartbeat
  pc,      \* how far each process has got
  asleep,  \* the processes whose machine sleeps
  beat,    \* ticks since the last heartbeat of each process
  older,   \* the tasks in progress when each process took its startedAt
  runs,    \* the tasks each process executes
  task,    \* tasks.status
  faults   \* how often a hazard has struck (bound)

vars == <<lock, pc, asleep, beat, older, runs, task, faults>>

Free == [holder |-> NoOne, age |-> 0]

(* new: no process bears the name.                                         *)
Stages == {"new", "read", "write", "requeue", "work", "stopping", "bitten", "drain"}

TypeOK ==
  /\ lock \in {Free} \cup [holder : Instances, age : 0..(Stale + 1)]
  /\ pc \in [Instances -> Stages]
  /\ asleep \subseteq Instances
  /\ beat \in [Instances -> 0..Period]
  /\ older \in [Instances -> SUBSET Tasks]
  /\ runs \in [Instances -> SUBSET Tasks]
  /\ task \in [Tasks -> {"ready", "in_progress", "done"}]
  /\ faults \in 0..MaxFaults

Init ==
  /\ lock = Free
  /\ pc = [i \in Instances |-> "new"]
  /\ asleep = {}
  /\ beat = [i \in Instances |-> 0]
  /\ older = [i \in Instances |-> {}]
  /\ runs = [i \in Instances |-> {}]
  /\ task = [t \in Tasks |-> "ready"]
  /\ faults = 0

-----------------------------------------------------------------------------
Strikes(h) ==
  /\ h \in Hazards
  /\ faults < MaxFaults
  /\ faults' = faults + 1

At(i, stage) == pc[i] = stage /\ i \notin asleep

GoTo(i, stage) == pc' = [pc EXCEPT ![i] = stage]

(* A process ends, and with it whatever it was executing and knew.         *)
Exit(i) ==
  /\ GoTo(i, "new")
  /\ runs' = [runs EXCEPT ![i] = {}]
  /\ beat' = [beat EXCEPT ![i] = 0]
  /\ older' = [older EXCEPT ![i] = {}]

InProgress == {t \in Tasks : task[t] = "in_progress"}

-----------------------------------------------------------------------------
(* Starting.                                                               *)

(* A launcher starts a process. startedAt is taken before the lock is      *)
(* read, by the clock of its machine: if it runs late, some of the rows in *)
(* progress seem to be claimed after it.                                   *)
Start(i) ==
  /\ At(i, "new")
  /\ lock.holder # i
  /\ GoTo(i, "read")
  /\ \/ older' = [older EXCEPT ![i] = InProgress] /\ UNCHANGED faults
     \/ Strikes("skew") /\ \E seen \in SUBSET InProgress : older' = [older EXCEPT ![i] = seen]
  /\ UNCHANGED <<lock, asleep, beat, runs, task>>

(* Mutant: a silent holder is never presumed dead.                         *)
Silent_Never == FALSE

(* A holder silent for longer than this is presumed dead.                  *)
Silent == lock.age > Stale

(* acquireLock reads the row and decides; a worker that is refused ends,   *)
(* and its launcher starts another. The heartbeat it reads was written by  *)
(* the clock of another machine.                                           *)
Decide(i) ==
  /\ At(i, "read")
  /\ LET granted == lock = Free \/ lock.holder = i \/ Silent IN
       \/ granted /\ GoTo(i, "write") /\ UNCHANGED <<older, beat, runs, faults>>
       \/ ~granted /\ Exit(i) /\ UNCHANGED faults
       \/ /\ lock # Free
          /\ Strikes("skew")
          /\ IF granted THEN Exit(i) ELSE GoTo(i, "write") /\ UNCHANGED <<older, beat, runs>>
  /\ UNCHANGED <<lock, asleep, task>>

(* The upsert that follows looks at nothing.                               *)
Take(i) ==
  /\ At(i, "write")
  /\ lock' = [holder |-> i, age |-> 0]
  /\ beat' = [beat EXCEPT ![i] = 0]
  /\ GoTo(i, "requeue")
  /\ UNCHANGED <<asleep, older, runs, task, faults>>

(* An error of either call ends the process; the upsert may have reached   *)
(* the row all the same.                                                   *)
AcquireFails(i) ==
  /\ At(i, "read") \/ At(i, "write")
  /\ Strikes("unreachable")
  /\ \/ UNCHANGED lock
     \/ pc[i] = "write" /\ lock' = [holder |-> i, age |-> 0]
  /\ Exit(i)
  /\ UNCHANGED <<asleep, task>>

(* Mutant: startedAt is taken when the orphans are requeued.               *)
StartedBefore_Late(i) == Tasks

StartedBefore(i) == older[i]

(* requeueOrphans: the rows in progress that were claimed before this      *)
(* worker's startedAt; an error is only logged. The heartbeat and the loop *)
(* follow.                                                                 *)
RequeueOrphans(i) ==
  /\ At(i, "requeue")
  /\ \/ /\ task' = [t \in Tasks |-> IF t \in InProgress \cap StartedBefore(i) THEN "ready"
                                   ELSE task[t]]
        /\ UNCHANGED faults
     \/ Strikes("unreachable") /\ UNCHANGED task
  /\ beat' = [beat EXCEPT ![i] = 0]
  /\ older' = [older EXCEPT ![i] = {}]
  /\ GoTo(i, "work")
  /\ UNCHANGED <<lock, asleep, runs>>

-----------------------------------------------------------------------------
(* Working.                                                                *)

(* Mutant: the null of claim_next_task is not tested.                      *)
Claimable_Null == {t \in Tasks : task[t] = "ready"} \cup {NoTask}

Claimable == {t \in Tasks : task[t] = "ready"}

(* claim_next_task, atomic in the database, which stamps the row. A row    *)
(* claimed now is not older than any process already started, unless the   *)
(* clock of that process runs early.                                       *)
Claim(i, t) ==
  /\ At(i, "work")
  /\ t \in Claimable
  /\ task' = [u \in Tasks |-> IF u = t THEN "in_progress" ELSE task[u]]
  /\ runs' = [runs EXCEPT ![i] = @ \cup {t}]
  /\ \/ older' = [j \in Instances |-> older[j] \ {t}] /\ UNCHANGED faults
     \/ /\ Strikes("skew") /\ t \in Tasks
        /\ \E early \in {j \in Instances : pc[j] \in {"read", "write", "requeue"}} :
             older' = [j \in Instances |-> IF j = early THEN older[j] \cup {t} ELSE older[j] \ {t}]
  /\ UNCHANGED <<lock, pc, asleep, beat>>

(* The executor records its outcome by the id of the row.                  *)
Finish(i, t) ==
  /\ pc[i] \in {"work", "stopping", "bitten", "drain"} /\ i \notin asleep
  /\ t \in runs[i]
  /\ \E outcome \in {"ready", "done"} : task' = [task EXCEPT ![t] = outcome]
  /\ runs' = [runs EXCEPT ![i] = @ \ {t}]
  /\ UNCHANGED <<lock, pc, asleep, beat, older, faults>>

(* Mutant: the heartbeat matches whatever instance is stored.              *)
StillMine_Any(i) == TRUE

StillMine(i) == lock.holder = i

(* The heartbeat: the row is refreshed if it is still ours, otherwise this *)
(* worker stops itself.                                                    *)
Heartbeat(i) ==
  /\ At(i, "work")
  /\ beat[i] = Period
  /\ IF StillMine(i)
       THEN /\ lock' = [holder |-> i, age |-> 0]
            /\ beat' = [beat EXCEPT ![i] = 0]
            /\ UNCHANGED <<pc, older, runs>>
       ELSE Exit(i) /\ UNCHANGED lock
  /\ UNCHANGED <<asleep, task, faults>>

(* An error is not a lost lock: the next heartbeat tries again.            *)
HeartbeatFails(i) ==
  /\ At(i, "work")
  /\ beat[i] = Period
  /\ Strikes("unreachable")
  /\ beat' = [beat EXCEPT ![i] = 0]
  /\ UNCHANGED <<lock, pc, asleep, older, runs, task>>

-----------------------------------------------------------------------------
(* Stopping.                                                               *)

(* A signal: the loop ends after its tick, which waits for what its        *)
(* dispatch started unless a claim threw.                                  *)
Stop(i) ==
  /\ At(i, "work")
  /\ \/ runs[i] = {} /\ UNCHANGED faults
     \/ runs[i] # {} /\ Strikes("lost_claim")
  /\ GoTo(i, "stopping")
  /\ UNCHANGED <<lock, asleep, beat, older, runs, task>>

(* A tick that hangs: the lock is given back, then the process ends.       *)
WatchdogBites(i) ==
  /\ At(i, "work")
  /\ runs[i] # {}
  /\ GoTo(i, "bitten")
  /\ beat' = [beat EXCEPT ![i] = 0]
  /\ UNCHANGED <<lock, asleep, older, runs, task, faults>>

(* releaseLock deletes the row if it is still ours. A process that still   *)
(* executes something outlives its loop; one that was bitten does not.     *)
Release(i) ==
  /\ At(i, "stopping") \/ At(i, "bitten")
  /\ lock' = IF StillMine(i) THEN Free ELSE lock
  /\ IF pc[i] = "stopping" /\ runs[i] # {}
       THEN GoTo(i, "drain") /\ UNCHANGED <<beat, older, runs>>
       ELSE Exit(i)
  /\ UNCHANGED <<asleep, task, faults>>

Drained(i) ==
  /\ At(i, "drain")
  /\ runs[i] = {}
  /\ Exit(i)
  /\ UNCHANGED <<lock, asleep, task, faults>>

Crash(i) ==
  /\ pc[i] # "new"
  /\ Strikes("crash")
  /\ Exit(i)
  /\ asleep' = asleep \ {i}
  /\ UNCHANGED <<lock, task>>

Sleep(i) ==
  /\ At(i, "work")
  /\ Strikes("pause")
  /\ asleep' = asleep \cup {i}
  /\ UNCHANGED <<lock, pc, beat, older, runs, task>>

Wake(i) ==
  /\ i \in asleep
  /\ asleep' = asleep \ {i}
  /\ UNCHANGED <<lock, pc, beat, older, runs, task, faults>>

Timed == {i \in Instances : pc[i] \in {"requeue", "work", "bitten"}}

(* Time passes, but not past a heartbeat that is due.                      *)
Tick ==
  /\ \A i \in Timed \ asleep : beat[i] < Period
  /\ lock' = IF lock = Free \/ lock.age > Stale THEN lock ELSE [lock EXCEPT !.age = @ + 1]
  /\ beat' = [i \in Instances |->
                IF i \in Timed /\ beat[i] < Period THEN beat[i] + 1 ELSE beat[i]]
  /\ UNCHANGED <<pc, asleep, older, runs, task, faults>>

-----------------------------------------------------------------------------
Boot(i) == Start(i) \/ Decide(i) \/ Take(i) \/ RequeueOrphans(i)

Next ==
  \/ Tick
  \/ \E i \in Instances :
       \/ Boot(i) \/ AcquireFails(i) \/ Heartbeat(i) \/ HeartbeatFails(i) \/ Stop(i) \/ WatchdogBites(i)
       \/ Release(i) \/ Drained(i) \/ Crash(i) \/ Sleep(i) \/ Wake(i)
       \/ \E t \in Claimable : Claim(i, t)
       \/ \E t \in runs[i] : Finish(i, t)

Spec == Init /\ [][Next]_vars

(* What a process does by itself, and its machine for it.                  *)
Runs(i) == Boot(i) \/ Heartbeat(i) \/ Release(i) \/ Drained(i) \/ Wake(i)

(* Launchers start their workers again, awaited calls return, timers fire, *)
(* executions end, and a machine does not sleep for ever.                  *)
FairSpec ==
  /\ Spec
  /\ WF_vars(Tick)
  /\ \A i \in Instances : WF_vars(Runs(i)) /\ WF_vars(\E t \in Tasks : Finish(i, t))

-----------------------------------------------------------------------------
(* Properties.                                                             *)

Working == {i \in Instances : pc[i] = "work"}

(* What a worker that takes the lock will hand back, nobody who holds the  *)
(* lock executes: as long as no machine sleeps, no claim throws and the    *)
(* clocks agree, a takeover is from the dead (decide), or from a worker    *)
(* that started with it and had claimed nothing before it (acquireLock,    *)
(* requeueOrphans). Whoever executes such a task all the same had lost the *)
(* lock before, and stops at its next heartbeat.                           *)
HolderKeepsItsTasks ==
  \A i, j \in Instances :
    pc[i] \in {"write", "requeue"} /\ lock.holder = j => StartedBefore(i) \cap runs[j] = {}

(* Two workers that both took the lock do not run side by side for ever    *)
(* (startHeartbeat: they cannot both keep running).                        *)
RivalsDoNotLast == \A i, j \in Instances : []<>(i = j \/ ~({i, j} \subseteq Working))

(* A lock whose holder died, or whose writing failed, is taken again: some *)
(* process always works again (decide).                                    *)
BrainComesBack == []<>(Working # {})

(* No task is executed by two processes at once.                           *)
NoDoubleExecution ==
  \A t \in Tasks, i, j \in Instances : t \in runs[i] \cap runs[j] => i = j

(* A second brain refuses to start (index.ts, main).                       *)
OneBrain == Cardinality(Working) <= 1

(* A task started before a worker took the lock runs nowhere when that     *)
(* worker hands it back (index.ts, requeueOrphans).                        *)
OrphansRunNowhere ==
  [][\A t \in Tasks, i \in Instances :
       pc[i] = "requeue" /\ pc'[i] = "work" /\ task[t] = "in_progress" /\ task'[t] = "ready" =>
         \A j \in Instances : t \notin runs[j]]_vars

(* While a worker works, a task in progress is executed by somebody: what  *)
(* a worker that ended had claimed was handed back (index.ts).             *)
NothingStranded ==
  Working # {} => \A t \in InProgress : \E i \in Instances : t \in runs[i]
=============================================================================
