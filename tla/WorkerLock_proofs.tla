-------------------------- MODULE WorkerLock_proofs --------------------------
(***************************************************************************)
(* Proofs about the worker lock: the types for every constant, and that a  *)
(* worker that takes the lock hands back nothing its holder executes, for  *)
(* any number of workers started again and again.                          *)
(***************************************************************************)
EXTENDS Integers, WorkerLock, TLAPS

(***************************************************************************)
(* Types                                                                   *)
(***************************************************************************)

(* What a lock may be, once its age has been counted up.                   *)
LEMMA LockAges ==
  ASSUME lock \in {Free} \cup [holder : Instances, age : 0..(Stale + 1)]
  PROVE  /\ lock = Free \/ lock = [holder |-> lock.holder, age |-> lock.age]
         /\ lock.age \in 0..(Stale + 1)
         /\ lock # Free /\ ~(lock.age > Stale) =>
               [lock EXCEPT !.age = @ + 1] \in [holder : Instances, age : 0..(Stale + 1)]
<1>1. Stale \in Nat /\ Free.age = 0
  BY ConstantsAssumption DEF Free
<1>2. CASE lock = Free
  BY <1>1, <1>2
<1>3. CASE lock \in [holder : Instances, age : 0..(Stale + 1)]
  <2>1. lock.holder \in Instances /\ lock.age \in 0..(Stale + 1) /\ lock = [holder |-> lock.holder, age |-> lock.age]
    BY <1>3
  <2>2. [lock EXCEPT !.age = @ + 1] = [holder |-> lock.holder, age |-> lock.age + 1]
    BY <2>1
  <2>3. ~(lock.age > Stale) => lock.age + 1 \in 0..(Stale + 1)
    BY <1>1, <2>1
  <2> QED BY <2>1, <2>2, <2>3
<1> QED BY <1>2, <1>3

(* The variables have their types, for any number of workers and tasks,    *)
(* any periods and any faults (worker-lock.ts, index.ts).                  *)
THEOREM LockTypeCorrect == Spec => []TypeOK
<1>1. Init => TypeOK
  BY ConstantsAssumption DEF Init, TypeOK, Free, Stages
<1>2. TypeOK /\ [Next]_vars => TypeOK'
  <2> SUFFICES ASSUME TypeOK, [Next]_vars PROVE TypeOK'
    OBVIOUS
  <2>1. Stale \in Nat /\ Period \in Nat /\ Period # 0 /\ MaxFaults \in Nat /\ 0 \in 0..Period /\ 0 \in 0..(Stale + 1)
    BY ConstantsAssumption
  <2>2. ASSUME NEW h, Strikes(h) PROVE faults' \in 0..MaxFaults
    BY <2>1, <2>2 DEF Strikes, TypeOK
  <2>3. CASE Tick
    <3>1. lock' \in {Free} \cup [holder : Instances, age : 0..(Stale + 1)]
      BY <2>3, LockAges DEF Tick, TypeOK
    <3>2. beat' \in [Instances -> 0..Period]
      BY <2>1, <2>3 DEF Tick, TypeOK
    <3> QED BY <2>3, <3>1, <3>2 DEF Tick, TypeOK
  <2>4. ASSUME NEW i \in Instances, Exit(i)
        PROVE  pc' \in [Instances -> Stages] /\ runs' \in [Instances -> SUBSET Tasks]
               /\ beat' \in [Instances -> 0..Period] /\ older' \in [Instances -> SUBSET Tasks]
    BY <2>1, <2>4 DEF Exit, GoTo, TypeOK, Stages
  <2>5. ASSUME NEW i \in Instances, Boot(i) PROVE TypeOK'
    <3>1. CASE Start(i)
      <4>1. faults' \in 0..MaxFaults
        BY <2>2, <3>1 DEF Start, TypeOK
      <4>2. older' \in [Instances -> SUBSET Tasks]
        BY <3>1 DEF Start, TypeOK, InProgress
      <4> QED BY <3>1, <4>1, <4>2 DEF Start, GoTo, At, TypeOK, Stages
    <3>2. CASE Decide(i)
      <4>1. faults' \in 0..MaxFaults /\ UNCHANGED <<lock, asleep, task>>
        BY <2>2, <3>2 DEF Decide, TypeOK
      <4>2. CASE Exit(i)
        BY <2>4, <4>1, <4>2 DEF TypeOK
      <4>3. CASE ~Exit(i)
        BY <3>2, <4>1, <4>3 DEF Decide, GoTo, TypeOK, Stages
      <4> QED BY <4>2, <4>3
    <3>3. CASE Take(i)
      <4>1. lock' \in [holder : Instances, age : 0..(Stale + 1)]
        BY <2>1, <3>3 DEF Take
      <4> QED BY <2>1, <3>3, <4>1 DEF Take, GoTo, At, TypeOK, Stages
    <3>4. CASE RequeueOrphans(i)
      <4>1. faults' \in 0..MaxFaults
        BY <2>2, <3>4 DEF RequeueOrphans, TypeOK
      <4>2. task' \in [Tasks -> {"ready", "in_progress", "done"}]
        BY <3>4 DEF RequeueOrphans, TypeOK
      <4> QED BY <2>1, <3>4, <4>1, <4>2 DEF RequeueOrphans, GoTo, At, TypeOK, Stages
    <3> QED BY <2>5, <3>1, <3>2, <3>3, <3>4 DEF Boot
  <2>6. ASSUME NEW i \in Instances, AcquireFails(i) PROVE TypeOK'
    <3>1. lock' \in {Free} \cup [holder : Instances, age : 0..(Stale + 1)]
      BY <2>1, <2>6 DEF AcquireFails, TypeOK
    <3> QED BY <2>2, <2>4, <2>6, <3>1 DEF AcquireFails, TypeOK
  <2>7. ASSUME NEW i \in Instances, Heartbeat(i) \/ HeartbeatFails(i) PROVE TypeOK'
    <3>1. CASE Heartbeat(i) /\ StillMine(i)
      <4>1. lock' \in [holder : Instances, age : 0..(Stale + 1)]
        BY <2>1, <3>1 DEF Heartbeat
      <4> QED BY <2>1, <3>1, <4>1 DEF Heartbeat, TypeOK
    <3>2. CASE Heartbeat(i) /\ ~StillMine(i)
      BY <2>4, <3>2 DEF Heartbeat, TypeOK
    <3>3. CASE HeartbeatFails(i)
      BY <2>1, <2>2, <3>3 DEF HeartbeatFails, TypeOK
    <3> QED BY <2>7, <3>1, <3>2, <3>3
  <2>8. ASSUME NEW i \in Instances, Stop(i) \/ WatchdogBites(i) PROVE TypeOK'
    BY <2>1, <2>2, <2>8 DEF Stop, WatchdogBites, GoTo, At, TypeOK, Stages
  <2>9. ASSUME NEW i \in Instances, Release(i) \/ Drained(i) \/ Crash(i) PROVE TypeOK'
    <3>1. lock' \in {Free} \cup [holder : Instances, age : 0..(Stale + 1)] /\ faults' \in 0..MaxFaults
          /\ asleep' \subseteq Instances /\ task' = task
      BY <2>2, <2>9 DEF Release, Drained, Crash, TypeOK
    <3>2. CASE Exit(i)
      BY <2>4, <3>1, <3>2 DEF TypeOK
    <3>3. CASE ~Exit(i)
      BY <2>9, <3>1, <3>3 DEF Release, Drained, Crash, GoTo, TypeOK, Stages
    <3> QED BY <3>2, <3>3
  <2>10. ASSUME NEW i \in Instances, Sleep(i) \/ Wake(i) PROVE TypeOK'
    BY <2>2, <2>10 DEF Sleep, Wake, TypeOK
  <2>11. ASSUME NEW i \in Instances, NEW t \in Claimable, Claim(i, t) PROVE TypeOK'
    <3>1. t \in Tasks
      BY DEF Claimable
    <3>2. faults' \in 0..MaxFaults /\ older' \in [Instances -> SUBSET Tasks]
      BY <2>2, <2>11, <3>1 DEF Claim, TypeOK
    <3> QED BY <2>11, <3>1, <3>2 DEF Claim, At, TypeOK
  <2>12. ASSUME NEW i \in Instances, NEW t \in runs[i], Finish(i, t) PROVE TypeOK'
    BY <2>12 DEF Finish, TypeOK
  <2>13. CASE UNCHANGED vars
    BY <2>13 DEF vars, TypeOK
  <2> QED BY <2>3, <2>4, <2>5, <2>6, <2>7, <2>8, <2>9, <2>10, <2>11, <2>12, <2>13 DEF Next
<1> QED
  BY <1>1, <1>2, PTL DEF Spec

(***************************************************************************)
(* Takeovers                                                               *)
(***************************************************************************)

(* No machine sleeps, no claim throws and the clocks agree; processes may  *)
(* die, and the database may not be reached.                               *)
AwakeAndWaited == Hazards \subseteq {"crash", "unreachable"}

(* The presumption of death leaves room for the heartbeats that may fail,  *)
(* and for the first one, the one due and the watchdog's.                  *)
InTime == (MaxFaults + 3) * Period <= Stale

Lively == {"requeue", "work", "bitten"}
Taking == {"write", "requeue"}

(* Only a worker at work executes anything.                                *)
WorksToExecute == \A i \in Instances : runs[i] # {} => pc[i] \in {"work", "bitten"}

(* How long ago a live worker may have refreshed the lock.                 *)
Slack(i) == CASE pc[i] = "requeue" -> 0
              [] pc[i] = "work" -> Period
              [] OTHER -> 2 * Period

(* A live worker that holds the lock has not been silent for long.         *)
HolderIsHeard ==
  \A i \in Instances :
    pc[i] \in Lively /\ lock.holder = i => lock.age <= beat[i] + Slack(i) + Period * faults

LockIInv == TypeOK /\ asleep = {} /\ WorksToExecute /\ HolderIsHeard /\ HolderKeepsItsTasks

(* Products, for the provers.                                              *)
LEMMA Times ==
  ASSUME NEW p \in Nat, NEW f \in Nat, NEW m \in Nat, f <= m
  PROVE  /\ p * f \in Nat /\ p * (f + 1) = p * f + p /\ p * f <= p * m
         /\ (m + 3) * p = p * m + p + p + p /\ 2 * p = p + p
<1>1. PICK d \in Nat : m = f + d
  <2>1. m - f \in Nat /\ m = f + (m - f)
    OBVIOUS
  <2> QED BY <2>1
<1>2. p * m = p * f + p * d /\ p * d \in Nat /\ p * f \in Nat
  BY <1>1
<1>3. p * f <= p * m
  BY <1>2
<1> QED
  BY <1>2, <1>3

(* The numbers of a step.                                                  *)
LEMMA Numbers ==
  ASSUME TypeOK
  PROVE  /\ Period \in Nat /\ Stale \in Nat /\ MaxFaults \in Nat /\ faults \in Nat /\ faults <= MaxFaults
         /\ Period * faults \in Nat /\ Period * (faults + 1) = Period * faults + Period
         /\ 2 * Period = Period + Period
         /\ lock.age \in Nat
         /\ \A i \in Instances : beat[i] \in Nat /\ beat[i] <= Period /\ Slack(i) \in Nat /\ Slack(i) <= Period + Period
<1>1. Period \in Nat /\ Stale \in Nat /\ MaxFaults \in Nat /\ faults \in Nat /\ faults <= MaxFaults
  BY ConstantsAssumption DEF TypeOK
<1>2. lock.age \in Nat
  BY <1>1, LockAges DEF TypeOK
<1>3. \A i \in Instances : beat[i] \in Nat /\ beat[i] <= Period
  BY <1>1 DEF TypeOK
<1>4. \A i \in Instances : Slack(i) \in Nat /\ Slack(i) <= Period + Period
  BY <1>1 DEF Slack
<1> QED BY <1>1, <1>2, <1>3, <1>4, Times

(* A live worker is not presumed dead while it holds the lock.             *)
LEMMA NotPresumedDead ==
  ASSUME LockIInv, InTime, NEW i \in Instances, pc[i] \in Lively, lock.holder = i
  PROVE  ~Silent
<1>1. lock.age <= beat[i] + Slack(i) + Period * faults
  BY DEF LockIInv, HolderIsHeard
<1>2. TypeOK
  BY DEF LockIInv
<1>3. Period * MaxFaults \in Nat /\ Period * faults <= Period * MaxFaults
      /\ (MaxFaults + 3) * Period = Period * MaxFaults + Period + Period + Period
  BY <1>2, Numbers, Times
<1>4. lock.age <= Stale
  BY <1>1, <1>2, <1>3, Numbers DEF InTime
<1> QED
  BY <1>2, <1>4, Numbers DEF Silent

(* What keeps the holder's tasks from those who are taking the lock: they  *)
(* threaten no more than before, nobody executes more, and who comes to    *)
(* hold the lock executes nothing.                                         *)
LEMMA NoNewThreat ==
  ASSUME HolderKeepsItsTasks,
         \A i \in Instances : pc'[i] \in Taking => pc[i] \in Taking /\ older'[i] \subseteq older[i],
         \A j \in Instances : runs'[j] \subseteq runs[j],
         \A j \in Instances : lock'.holder = j => lock.holder = j \/ runs'[j] = {}
  PROVE  HolderKeepsItsTasks'
BY DEF HolderKeepsItsTasks, StartedBefore, Taking

(* A worker that ends, in whatever way, takes its executions with it; the  *)
(* lock stays, is given back, or is left in its name.                      *)
LEMMA ExitKeeps ==
  ASSUME LockIInv, TypeOK', NEW k \in Instances, Exit(k), asleep' = {},
         lock' = lock \/ lock' = Free \/ lock' = [holder |-> k, age |-> 0],
         faults' = faults \/ faults' = faults + 1
  PROVE  LockIInv'
<1> USE DEF LockIInv
<1>1. \A i \in Instances :
         /\ pc'[i] = IF i = k THEN "new" ELSE pc[i]
         /\ runs'[i] = IF i = k THEN {} ELSE runs[i]
         /\ beat'[i] = IF i = k THEN 0 ELSE beat[i]
         /\ older'[i] = IF i = k THEN {} ELSE older[i]
  BY DEF Exit, GoTo, TypeOK
<1>2. \A i \in Instances : lock'.holder = i => lock' = lock \/ i = k
  BY ConstantsAssumption DEF Free
<1>3. WorksToExecute'
  BY <1>1 DEF WorksToExecute
<1>4. HolderKeepsItsTasks'
  BY <1>1, <1>2, NoNewThreat DEF Taking
<1>5. HolderIsHeard'
  <2>1. SUFFICES ASSUME NEW i \in Instances, pc'[i] \in Lively, lock'.holder = i
                 PROVE  lock'.age <= beat'[i] + Slack(i)' + Period * faults'
    BY DEF HolderIsHeard
  <2>2. i # k /\ lock' = lock /\ pc'[i] = pc[i] /\ beat'[i] = beat[i]
    BY <1>1, <1>2, <2>1 DEF Lively
  <2>3. lock.age <= beat[i] + Slack(i) + Period * faults
    BY <2>1, <2>2 DEF HolderIsHeard
  <2>4. Slack(i)' = Slack(i)
    BY <2>2 DEF Slack
  <2> QED BY <2>2, <2>3, <2>4, Numbers
<1> QED BY <1>3, <1>4, <1>5

(* A step that leaves the lock alone, or the lock to a worker just heard,  *)
(* and the clock of the others.                                            *)
LEMMA StillHeard ==
  ASSUME LockIInv, NEW k \in Instances,
         \A i \in Instances : i # k => pc'[i] = pc[i] /\ beat'[i] = beat[i],
         lock' = lock \/ lock'.holder = k,
         faults' = faults \/ faults' = faults + 1,
         pc'[k] \in Lively /\ lock'.holder = k => lock'.age <= beat'[k] + Slack(k)' + Period * faults'
  PROVE  HolderIsHeard'
<1>1. SUFFICES ASSUME NEW i \in Instances, i # k, pc'[i] \in Lively, lock'.holder = i
               PROVE  lock'.age <= beat'[i] + Slack(i)' + Period * faults'
  BY DEF HolderIsHeard
<1>2. lock' = lock /\ pc'[i] = pc[i] /\ beat'[i] = beat[i]
  BY <1>1
<1>3. lock.age <= beat[i] + Slack(i) + Period * faults
  BY <1>1, <1>2 DEF LockIInv, HolderIsHeard
<1>4. Slack(i)' = Slack(i)
  BY <1>2 DEF Slack
<1>5. TypeOK
  BY DEF LockIInv
<1> QED BY <1>2, <1>3, <1>4, <1>5, Numbers

(* Starting, deciding, taking the lock and handing back.                   *)
LEMMA BootKeeps ==
  ASSUME LockIInv, TypeOK', AwakeAndWaited, InTime, NEW k \in Instances, Boot(k)
  PROVE  LockIInv'
<1> USE DEF LockIInv
<1>1. asleep' = {} /\ (faults' = faults \/ faults' = faults + 1)
  BY DEF Boot, Start, Decide, Take, RequeueOrphans, Strikes
<1>2. ASSUME NEW h, Strikes(h) PROVE h # "skew"
  BY <1>2 DEF Strikes, AwakeAndWaited
<1>3. CASE Start(k)
  <2>1. pc[k] = "new" /\ UNCHANGED <<lock, beat, runs>> /\ pc' = [pc EXCEPT ![k] = "read"]
    BY <1>3 DEF Start, GoTo, At
  <2>2. \A i \in Instances : pc'[i] = IF i = k THEN "read" ELSE pc[i]
    BY <2>1 DEF TypeOK
  <2>3. \A i \in Instances : i # k => older'[i] = older[i]
    BY <1>3 DEF Start, TypeOK
  <2>4. WorksToExecute'
    BY <2>1, <2>2 DEF WorksToExecute
  <2>5. HolderIsHeard'
    BY <1>1, <2>1, <2>2, StillHeard DEF Lively
  <2>6. HolderKeepsItsTasks'
    BY <2>1, <2>2, <2>3, NoNewThreat DEF Taking
  <2> QED BY <1>1, <2>4, <2>5, <2>6
<1>4. CASE Decide(k)
  <2>1. lock' = lock /\ pc[k] = "read"
    BY <1>4 DEF Decide, At
  <2>2. CASE Exit(k)
    BY <1>1, <2>1, <2>2, ExitKeeps
  <2>3. CASE ~Exit(k)
    <3>1. /\ lock = Free \/ lock.holder = k \/ Silent
          /\ pc' = [pc EXCEPT ![k] = "write"] /\ UNCHANGED <<older, beat, runs>>
      BY <1>2, <1>4, <2>3 DEF Decide, GoTo
    <3>2. \A i \in Instances : pc'[i] = IF i = k THEN "write" ELSE pc[i]
      BY <3>1 DEF TypeOK
    <3>3. runs[k] = {}
      BY <2>1 DEF WorksToExecute
    <3>4. WorksToExecute'
      BY <3>1, <3>2, <3>3 DEF WorksToExecute
    <3>5. HolderIsHeard'
      BY <1>1, <2>1, <3>1, <3>2, StillHeard DEF Lively
    <3>6. ASSUME NEW j \in Instances, lock.holder = j PROVE runs[j] = {}
      <4>1. CASE pc[j] \in Lively
        <5>1. ~Silent
          BY <3>6, <4>1, NotPresumedDead
        <5>2. lock # Free
          BY <3>6, ConstantsAssumption DEF Free
        <5> QED BY <3>1, <3>3, <3>6, <5>1, <5>2
      <4>2. CASE pc[j] \notin Lively
        BY <4>2 DEF WorksToExecute, Lively
      <4> QED BY <4>1, <4>2
    <3>7. HolderKeepsItsTasks'
      BY <2>1, <3>1, <3>6 DEF HolderKeepsItsTasks, StartedBefore
    <3> QED BY <1>1, <3>4, <3>5, <3>7
  <2> QED BY <2>2, <2>3
<1>5. CASE Take(k)
  <2>1. /\ pc[k] = "write" /\ lock' = [holder |-> k, age |-> 0] /\ beat' = [beat EXCEPT ![k] = 0]
        /\ pc' = [pc EXCEPT ![k] = "requeue"] /\ UNCHANGED <<older, runs, faults>>
    BY <1>5 DEF Take, GoTo, At
  <2>2. \A i \in Instances : /\ pc'[i] = IF i = k THEN "requeue" ELSE pc[i]
                             /\ beat'[i] = IF i = k THEN 0 ELSE beat[i]
    BY <2>1 DEF TypeOK
  <2>3. runs[k] = {}
    BY <2>1 DEF WorksToExecute
  <2>4. WorksToExecute'
    BY <2>1, <2>2, <2>3 DEF WorksToExecute
  <2>5. HolderIsHeard'
    <3>1. Slack(k)' = 0 /\ lock'.age = 0 /\ beat'[k] = 0
      BY <2>1, <2>2 DEF Slack
    <3>2. lock'.age <= beat'[k] + Slack(k)' + Period * faults'
      BY <2>1, <3>1, Numbers
    <3> QED BY <1>1, <2>1, <2>2, <3>2, StillHeard
  <2>6. HolderKeepsItsTasks'
    <3>1. \A j \in Instances : lock'.holder = j => runs'[j] = {}
      BY <2>1, <2>3
    <3>2. \A i \in Instances : pc'[i] \in Taking => pc[i] \in Taking /\ older'[i] \subseteq older[i]
      BY <2>1, <2>2 DEF Taking
    <3> QED BY <2>1, <3>1, <3>2, NoNewThreat
  <2> QED BY <1>1, <2>4, <2>5, <2>6
<1>6. CASE RequeueOrphans(k)
  <2>1. /\ pc[k] = "requeue" /\ pc' = [pc EXCEPT ![k] = "work"] /\ beat' = [beat EXCEPT ![k] = 0]
        /\ older' = [older EXCEPT ![k] = {}] /\ UNCHANGED <<lock, runs>>
    BY <1>6 DEF RequeueOrphans, GoTo, At
  <2>2. \A i \in Instances : /\ pc'[i] = IF i = k THEN "work" ELSE pc[i]
                             /\ beat'[i] = IF i = k THEN 0 ELSE beat[i]
                             /\ older'[i] = IF i = k THEN {} ELSE older[i]
    BY <2>1 DEF TypeOK
  <2>3. WorksToExecute'
    BY <2>1, <2>2 DEF WorksToExecute
  <2>4. HolderIsHeard'
    <3>1. Slack(k)' = Period /\ Slack(k) = 0 /\ beat'[k] = 0
      BY <2>1, <2>2 DEF Slack
    <3>2. lock.holder = k => lock.age <= beat[k] + 0 + Period * faults
      BY <2>1, <3>1 DEF HolderIsHeard, Lively
    <3>3. lock.holder = k => lock.age <= beat'[k] + Slack(k)' + Period * faults'
      BY <1>1, <3>1, <3>2, Numbers
    <3> QED BY <1>1, <2>1, <2>2, <3>3, StillHeard
  <2>5. HolderKeepsItsTasks'
    BY <2>1, <2>2, NoNewThreat DEF Taking
  <2> QED BY <1>1, <2>3, <2>4, <2>5
<1> QED BY <1>3, <1>4, <1>5, <1>6 DEF Boot

(* Claiming and finishing: a row claimed now was not in progress when any  *)
(* other worker started.                                                   *)
LEMMA TaskKeeps ==
  ASSUME LockIInv, TypeOK', AwakeAndWaited, NEW k \in Instances, NEW t,
         (t \in Claimable /\ Claim(k, t)) \/ (t \in runs[k] /\ Finish(k, t))
  PROVE  LockIInv'
<1> USE DEF LockIInv
<1>1. UNCHANGED <<lock, pc, asleep, beat, faults>>
  BY DEF Claim, Finish, Strikes, AwakeAndWaited
<1>2. HolderIsHeard'
  BY <1>1 DEF HolderIsHeard, Slack
<1>3. CASE t \in Claimable /\ Claim(k, t)
  <2>1. pc[k] = "work" /\ runs' = [runs EXCEPT ![k] = @ \cup {t}] /\ older' = [j \in Instances |-> older[j] \ {t}]
    BY <1>3 DEF Claim, At, Strikes, AwakeAndWaited
  <2>2. \A i \in Instances : runs'[i] = (IF i = k THEN runs[i] \cup {t} ELSE runs[i]) /\ older'[i] = older[i] \ {t}
    BY <2>1 DEF TypeOK
  <2>3. WorksToExecute'
    BY <1>1, <2>1, <2>2 DEF WorksToExecute
  <2>4. HolderKeepsItsTasks'
    BY <1>1, <2>2 DEF HolderKeepsItsTasks, StartedBefore
  <2> QED BY <1>1, <1>2, <2>3, <2>4
<1>4. CASE t \in runs[k] /\ Finish(k, t)
  <2>1. runs' = [runs EXCEPT ![k] = @ \ {t}] /\ older' = older
    BY <1>4 DEF Finish
  <2>2. \A i \in Instances : runs'[i] \subseteq runs[i]
    BY <2>1 DEF TypeOK
  <2>3. WorksToExecute'
    BY <1>1, <2>2 DEF WorksToExecute
  <2>4. HolderKeepsItsTasks'
    BY <1>1, <2>1, <2>2, NoNewThreat
  <2> QED BY <1>1, <1>2, <2>3, <2>4
<1> QED BY <1>3, <1>4

(* A heartbeat that finds the lock, one that fails, the watchdog, and a    *)
(* worker with nothing left to run that stops.                             *)
LEMMA WorkKeeps ==
  ASSUME LockIInv, TypeOK', AwakeAndWaited, NEW k \in Instances,
         (Heartbeat(k) /\ StillMine(k)) \/ HeartbeatFails(k) \/ WatchdogBites(k) \/ Stop(k)
  PROVE  LockIInv'
<1> USE DEF LockIInv
<1>1. /\ pc[k] = "work" /\ asleep' = {} /\ UNCHANGED <<older, runs, task>>
      /\ faults' = faults \/ faults' = faults + 1
  BY DEF Heartbeat, HeartbeatFails, WatchdogBites, Stop, At, Strikes
<1>2. \A i \in Instances : pc'[i] # pc[i] => i = k /\ pc'[i] \in {"bitten", "stopping"} /\ (pc'[i] = "stopping" => runs[i] = {})
  BY DEF Heartbeat, HeartbeatFails, WatchdogBites, Stop, GoTo, Strikes, AwakeAndWaited, TypeOK
<1>3. \A i \in Instances : i # k => beat'[i] = beat[i]
  BY DEF Heartbeat, HeartbeatFails, WatchdogBites, Stop, TypeOK
<1>4. lock' = lock \/ (lock' = [holder |-> k, age |-> 0] /\ lock.holder = k)
  BY DEF Heartbeat, HeartbeatFails, WatchdogBites, Stop, StillMine
<1>5. WorksToExecute'
  BY <1>1, <1>2 DEF WorksToExecute
<1>6. HolderKeepsItsTasks'
  <2>1. \A i \in Instances : pc'[i] \in Taking => pc[i] \in Taking
    BY <1>2 DEF Taking
  <2> QED BY <1>1, <1>4, <2>1, NoNewThreat
<1>7. lock.holder = k => lock.age <= beat[k] + Period + Period * faults
  <2>1. Slack(k) = Period
    BY <1>1 DEF Slack
  <2> QED BY <1>1, <2>1 DEF HolderIsHeard, Lively
<1>8. pc'[k] \in Lively /\ lock'.holder = k => lock'.age <= beat'[k] + Slack(k)' + Period * faults'
  <2>1. CASE Heartbeat(k) /\ StillMine(k)
    <3>1. lock'.age = 0 /\ beat'[k] = 0 /\ Slack(k)' = Period /\ faults' = faults
      BY <1>1, <2>1 DEF Heartbeat, Slack, TypeOK
    <3> QED BY <3>1, Numbers
  <2>2. CASE HeartbeatFails(k)
    <3>1. lock' = lock /\ beat[k] = Period /\ beat'[k] = 0 /\ Slack(k)' = Period /\ faults' = faults + 1
      BY <1>1, <2>2 DEF HeartbeatFails, Strikes, Slack, TypeOK
    <3> QED BY <1>7, <3>1, Numbers
  <2>3. CASE WatchdogBites(k)
    <3>1. lock' = lock /\ beat'[k] = 0 /\ Slack(k)' = 2 * Period /\ faults' = faults
      BY <1>1, <2>3 DEF WatchdogBites, GoTo, Slack, TypeOK
    <3> QED BY <1>7, <3>1, Numbers
  <2>4. CASE Stop(k)
    BY <1>1, <2>4 DEF Stop, GoTo, Lively, TypeOK
  <2> QED BY <2>1, <2>2, <2>3, <2>4
<1>9. HolderIsHeard'
  BY <1>1, <1>2, <1>3, <1>4, <1>8, StillHeard
<1> QED BY <1>1, <1>5, <1>6, <1>9

(* Time passing.                                                           *)
LEMMA TickKeeps == ASSUME LockIInv, TypeOK', Tick PROVE LockIInv'
<1> USE DEF LockIInv
<1>1. UNCHANGED <<pc, asleep, older, runs, task, faults>>
  BY DEF Tick
<1>2. \A i \in Instances : lock'.holder = i => lock.holder = i
  BY LockAges DEF Tick, TypeOK
<1>3. WorksToExecute'
  BY <1>1 DEF WorksToExecute
<1>4. HolderKeepsItsTasks'
  BY <1>1, <1>2, NoNewThreat
<1>5. HolderIsHeard'
  <2>1. SUFFICES ASSUME NEW i \in Instances, pc[i] \in Lively, lock.holder = i
                 PROVE  lock'.age <= beat'[i] + Slack(i)' + Period * faults
    BY <1>1, <1>2 DEF HolderIsHeard
  <2>2. lock.age <= beat[i] + Slack(i) + Period * faults
    BY <2>1 DEF HolderIsHeard
  <2>3. beat[i] < Period
    BY <2>1 DEF Tick, Timed, Lively
  <2>4. beat'[i] = beat[i] + 1 /\ Slack(i)' = Slack(i)
    BY <1>1, <2>1, <2>3 DEF Tick, Timed, Lively, Slack
  <2>5. lock # Free
    BY <2>1, ConstantsAssumption DEF Free
  <2>6. lock'.age = lock.age \/ lock'.age = lock.age + 1
    BY <2>5, LockAges DEF Tick, TypeOK
  <2> QED BY <2>2, <2>4, <2>6, Numbers
<1> QED BY <1>1, <1>3, <1>4, <1>5

(* What workers can do to each other.                                      *)
THEOREM LockInvariant ==
  ASSUME AwakeAndWaited, InTime
  PROVE  Spec => []LockIInv
<1>1. TypeOK /\ Init => LockIInv
  BY DEF Init, LockIInv, WorksToExecute, HolderIsHeard, HolderKeepsItsTasks, Lively
<1>2. TypeOK' /\ LockIInv /\ [Next]_vars => LockIInv'
  <2> SUFFICES ASSUME TypeOK', LockIInv, [Next]_vars PROVE LockIInv'
    OBVIOUS
  <2>1. ASSUME NEW k \in Instances, AcquireFails(k) PROVE LockIInv'
    BY <2>1, ExitKeeps DEF AcquireFails, Strikes, LockIInv
  <2>2. ASSUME NEW k \in Instances, Heartbeat(k), ~StillMine(k) PROVE LockIInv'
    BY <2>2, ExitKeeps DEF Heartbeat, LockIInv
  <2>3. ASSUME NEW k \in Instances, Release(k) \/ Drained(k) \/ Crash(k) PROVE LockIInv'
    <3>1. asleep' = {} /\ (lock' = lock \/ lock' = Free) /\ (faults' = faults \/ faults' = faults + 1)
      BY <2>3 DEF Release, Drained, Crash, Strikes, LockIInv
    <3>2. pc[k] = "stopping" => runs[k] = {}
      BY DEF LockIInv, WorksToExecute
    <3>3. Exit(k)
      BY <2>3, <3>2 DEF Release, Drained, Crash
    <3> QED BY <3>1, <3>3, ExitKeeps
  <2>4. ASSUME NEW k \in Instances, Sleep(k) \/ Wake(k) PROVE FALSE
    BY <2>4 DEF Sleep, Wake, Strikes, AwakeAndWaited, LockIInv
  <2>5. CASE UNCHANGED vars
    BY <2>5 DEF vars, LockIInv, WorksToExecute, HolderIsHeard, HolderKeepsItsTasks, StartedBefore, Slack
  <2> QED BY <2>1, <2>2, <2>3, <2>4, <2>5, BootKeeps, WorkKeeps, TickKeeps, TaskKeeps DEF Next
<1>3. Spec => []TypeOK
  BY LockTypeCorrect
<1> QED
  BY <1>1, <1>2, <1>3, PTL DEF Spec

(* A worker that takes the lock hands back nothing that the holder of the  *)
(* lock executes, however many workers are started, race for the lock,     *)
(* end, die and start again: neither the unconditional upsert of           *)
(* acquireLock nor requeueOrphans takes a task from a live holder, as long *)
(* as no machine sleeps, every claim is waited for, the clocks agree and   *)
(* the presumption of death outlasts the heartbeats that may fail          *)
(* (lock.ts, index.ts).                                                    *)
THEOREM TakeoverSparesTheHolder ==
  ASSUME AwakeAndWaited, InTime
  PROVE  Spec => []HolderKeepsItsTasks
<1>1. LockIInv => HolderKeepsItsTasks
  BY DEF LockIInv
<1> QED
  BY <1>1, LockInvariant, PTL
=============================================================================
