--------------------------- MODULE ScheduleProofs ---------------------------
(***************************************************************************)
(* Theorems of ScheduleManager, for any number of jobs, tasks, requests    *)
(* and crashes: first about its types, its registry and the file, then     *)
(* about the tasks: one per job, running what is registered, and a         *)
(* one-time job once; then that a registered job has its task, and that    *)
(* the whole implements JobTable; whatever the time zones and however      *)
(* often another is set.                                                   *)
(***************************************************************************)
EXTENDS ScheduleManager, TLAPS

-----------------------------------------------------------------------------
(***************************************************************************)
(* The inductive invariant, in named parts.                                *)
(***************************************************************************)
\* A task has a run only inside its callback.
Linked == \A l \in Loop : run[l].phase # "none" => loops[l].at = "run"

\* Registrations are filed under their names, and each has a number of its
\* own: no copy of one, in a task, a run or a history, has a number that is
\* still to be given out.
Named ==
    /\ \A i \in JobId : jobs[i] # NoJob =>
           jobs[i].id = i /\ jobs[i].gen < gens
    /\ file # Torn => \A i \in JobId : file[i] # NoJob =>
           file[i].id = i /\ file[i].gen < gens
    /\ \A l \in Loop : loops[l].at \in Holding =>
           loops[l].job.id = loops[l].id /\ loops[l].job.gen < gens
    /\ \A a \in Actor : run[a].phase # "none" => run[a].job.gen < gens
    /\ \A j \in fired \cup done : j.gen < gens

\* The file follows the registry, and nothing is alive while the process is
\* down.
Stored ==
    /\ boot # "down" /\ ~writing =>
           jobs = IF file = Torn THEN NoJobs ELSE file
    /\ boot = "down" => /\ ~writing
                        /\ \A c \in Caller : pc[c] = "idle"
                        /\ \A l \in Loop : loops[l].at = "off"
                        /\ \A a \in Actor : run[a].phase = "none"

\* A one-shot registration that has succeeded is in neither.
Retired == /\ \A i \in JobId : jobs[i] \notin done
           /\ file # Torn => \A i \in JobId : file[i] \notin done

RegistryInv == Named /\ Stored /\ Retired

-----------------------------------------------------------------------------
(***************************************************************************)
(* Type correctness.                                                       *)
(***************************************************************************)
LEMMA IdleType == Idle \in Task
<1>1. (CHOOSE i \in JobId : TRUE) \in JobId BY AdapterAssumption
<1> QED BY <1>1 DEF Idle, LoopAt, Task

LEMMA AbortedType ==
    ASSUME AdapterTypeOK, NEW id \in JobId,
           NEW ls \in [Loop -> Task]
    PROVE  /\ Aborted(id, ls) \in [Loop -> Task]
           /\ \A l \in Loop : Aborted(id, ls)[l].at \in Holding =>
                  /\ ls[l].at \in Holding
                  /\ Aborted(id, ls)[l].job = ls[l].job
                  /\ Aborted(id, ls)[l].id = ls[l].id
BY IdleType DEF Aborted, Task, Idle, Holding

\* The times a job means are numbers, in whatever zone they are read.
LEMMA ReadingType ==
    ASSUME timezone \in Zone, now \in Nat, NEW o \in Options
    PROVE  /\ ZoneOf(o) \in Zone /\ Pinned(o) \in Options
           /\ Due(o) \in Nat /\ EndsAt(o) \in Nat /\ NextFire(o) \in Nat
           /\ \A z \in Zone : Instant(o.at, z) \in Nat /\ Instant(o.endAt, z) \in Nat
<1>1. /\ o.at \in Nat /\ o.endAt \in Nat /\ o.mode \in {"cron", "once", "delay"}
      /\ Pinned(o) \in Options
  BY DEF Options, Pinned
<1>2. ZoneOf(o) \in Zone BY DEF ZoneOf
<1>3. \A z \in Zone : Late[z] \in Nat BY AdapterAssumption
<1>4. \A z \in Zone : Instant(o.at, z) \in Nat /\ Instant(o.endAt, z) \in Nat
  BY <1>1, <1>3 DEF Instant
<1>5. Due(o) \in Nat /\ EndsAt(o) \in Nat BY <1>2, <1>4 DEF Due, EndsAt
<1> QED BY <1>1, <1>2, <1>4, <1>5 DEF NextFire

\* The operations of the adapter keep its types.
LEMMA AdapterTypes ==
    ASSUME AdapterTypeOK
    PROVE  /\ EndFlush => AdapterTypeOK'
           /\ \A id \in JobId : AbortOld(id) => AdapterTypeOK'
           /\ \A id \in JobId, o \in Options : insert(id, o) => AdapterTypeOK'
           /\ \A id \in JobId : spawn_task(id) => AdapterTypeOK'
           /\ \A l \in Loop : Arm(l) \/ Fire(l) \/ Return(l) => AdapterTypeOK'
           /\ CrashAdapter \/ Load \/ RestoreFilter \/ RestoreRemove
                \/ RestoreSpawn \/ Tick => AdapterTypeOK'
           /\ \A z \in Zone : SetZone(z) => AdapterTypeOK'
<1> USE DEF AdapterTypeOK
<1>1. ASSUME EndFlush PROVE AdapterTypeOK' BY <1>1 DEF EndFlush
<1>2. ASSUME NEW id \in JobId, AbortOld(id) PROVE AdapterTypeOK'
  BY <1>2, AbortedType DEF AbortOld
<1>3. ASSUME NEW id \in JobId, NEW o \in Options, insert(id, o)
      PROVE AdapterTypeOK'
  BY <1>3 DEF insert, flush_jobs, Registry, Job
<1>4. ASSUME NEW id \in JobId, spawn_task(id) PROVE AdapterTypeOK'
  <2>1. PICK l \in Loop :
           /\ loops' = [loops EXCEPT ![l] = [Idle EXCEPT !.at = "top",
                                                         !.id = id]]
           /\ tasks' = [tasks EXCEPT ![id] = l]
    BY <1>4 DEF spawn_task
  <2>2. [Idle EXCEPT !.at = "top", !.id = id] \in Task
    BY IdleType DEF LoopAt, Task
  <2> QED BY <1>4, <2>1, <2>2, IdleType DEF spawn_task, Holding, Idle, Task
<1>5. ASSUME NEW l \in Loop, Arm(l) PROVE AdapterTypeOK'
  <2> DEFINE j == jobs[loops[l].id]
  <2>1. tasks' \in [JobId -> Loop \cup {NoLoop}] BY <1>5 DEF Arm, Detached
  <2>2. /\ loops' \in [Loop -> Task]
        /\ \A m \in Loop : loops'[m].at \in Holding => loops'[m].job # NoJob
    <3>1. CASE loops' = [loops EXCEPT ![l] = Idle]
      BY <3>1, IdleType DEF Idle, Holding
    <3>2. CASE /\ j # NoJob
               /\ loops' = [loops EXCEPT ![l] =
                              [@ EXCEPT !.at = "sleep", !.job = j,
                                        !.due = NextFire(j.opts)]]
      <4>1. j \in Job BY <1>5, <3>2 DEF Registry, Task
      <4>2. j.opts \in Options BY <4>1 DEF Job
      <4>3. NextFire(j.opts) \in Nat BY <4>2, ReadingType
      <4> DEFINE t == [loops[l] EXCEPT !.at = "sleep", !.job = j,
                                      !.due = NextFire(j.opts)]
      <4>4. t \in Task /\ t.job # NoJob
        BY <3>2, <4>1, <4>3 DEF LoopAt, Task
      <4>5. loops' = [loops EXCEPT ![l] = t] BY <3>2
      <4> HIDE DEF t
      <4> QED BY <4>4, <4>5
    <3> QED BY <1>5, <3>1, <3>2 DEF Arm
  <2> QED BY <1>5, <2>1, <2>2 DEF Arm
<1>6. ASSUME NEW l \in Loop, Fire(l) PROVE AdapterTypeOK'
  BY <1>6 DEF Fire, LoopAt, Task, Holding
<1>7. ASSUME NEW l \in Loop, Return(l) PROVE AdapterTypeOK'
  <2>1. tasks' \in [JobId -> Loop \cup {NoLoop}]
    BY <1>7 DEF Return, Detached
  <2>2. /\ loops' \in [Loop -> Task]
        /\ \A m \in Loop : loops'[m].at \in Holding => loops'[m].job # NoJob
    <3>1. CASE loops' = [loops EXCEPT ![l] = Idle]
      BY <3>1, IdleType DEF Idle, Holding
    <3>2. CASE loops' = [loops EXCEPT ![l].at = "top"]
      BY <3>2 DEF LoopAt, Task, Holding
    <3> QED BY <1>7, <3>1, <3>2 DEF Return
  <2>3. /\ jobs' \in Registry /\ file' \in Registry \cup {Torn}
        /\ writing' \in BOOLEAN
    BY <1>7 DEF Return, flush_jobs, Registry
  <2> QED BY <1>7, <2>1, <2>2, <2>3 DEF Return
<1>8. ASSUME CrashAdapter PROVE AdapterTypeOK'
  BY <1>8, IdleType DEF CrashAdapter, NoJobs, Registry, Boot, Idle, Holding
<1>9. ASSUME Load PROVE AdapterTypeOK'
  BY <1>9 DEF Load, NoJobs, Registry, Boot
<1>10. ASSUME RestoreFilter PROVE AdapterTypeOK'
  BY <1>10 DEF RestoreFilter, Boot
<1>11. ASSUME RestoreRemove PROVE AdapterTypeOK'
  BY <1>11 DEF RestoreRemove, flush_jobs, Registry, Boot
<1>12. ASSUME RestoreSpawn PROVE AdapterTypeOK'
  <2>1. PICK t \in [revive -> {l \in Loop : loops[l].at = "off"}] :
           /\ loops' = [l \in Loop |->
                  IF \E i \in revive : t[i] = l
                  THEN [Idle EXCEPT !.at = "top",
                        !.id = CHOOSE i \in revive : t[i] = l]
                  ELSE loops[l]]
           /\ tasks' = [i \in JobId |-> IF i \in revive THEN t[i]
                                        ELSE tasks[i]]
    BY <1>12 DEF RestoreSpawn
  <2>2. ASSUME NEW l \in Loop, \E i \in revive : t[i] = l
        PROVE (CHOOSE i \in revive : t[i] = l) \in JobId
    BY <2>2
  <2>3. \A i \in JobId : [Idle EXCEPT !.at = "top", !.id = i] \in Task
    BY IdleType DEF LoopAt, Task
  <2>4. /\ loops' \in [Loop -> Task]
        /\ \A m \in Loop : loops'[m].at \in Holding => loops'[m].job # NoJob
    BY <2>1, <2>2, <2>3 DEF Idle, Holding
  <2>5. tasks' \in [JobId -> Loop \cup {NoLoop}] BY <2>1
  <2> QED BY <1>12, <2>4, <2>5 DEF RestoreSpawn, Boot
<1>13. ASSUME Tick PROVE AdapterTypeOK' BY <1>13 DEF Tick
<1>14. ASSUME NEW z \in Zone, SetZone(z) PROVE AdapterTypeOK' BY <1>14 DEF SetZone
<1> QED BY <1>1, <1>2, <1>3, <1>4, <1>5, <1>6, <1>7, <1>8, <1>9, <1>10,
           <1>11, <1>12, <1>13, <1>14

LEMMA CancelTypes ==
    ASSUME AdapterTypeOK, NEW id \in JobId, NEW ls \in [Loop -> Task],
           \A l \in Loop : ls[l].at \in Holding => ls[l].job # NoJob,
           cancel(id, ls)
    PROVE  AdapterTypeOK'
<1>1. /\ loops' \in [Loop -> Task]
      /\ \A l \in Loop : loops'[l].at \in Holding => loops'[l].job # NoJob
  BY AbortedType DEF cancel
<1>2. /\ jobs' \in Registry /\ file' \in Registry \cup {Torn}
      /\ writing' \in BOOLEAN
  BY DEF cancel, flush_jobs, Registry, AdapterTypeOK
<1> QED BY <1>1, <1>2 DEF cancel, AdapterTypeOK

LEMMA BackType ==
    ASSUME AdapterTypeOK, NEW a \in Actor,
           a \in Loop => loops[a].at = "run"
    PROVE  /\ Back(a) \in [Loop -> Task]
           /\ \A l \in Loop : Back(a)[l].at \in Holding =>
                  /\ loops[l].at \in Holding
                  /\ Back(a)[l].job = loops[l].job /\ Back(a)[l].job # NoJob
                  /\ Back(a)[l].id = loops[l].id
BY DEF Back, AdapterTypeOK, Task, LoopAt, Holding

LEMMA BeginType ==
    ASSUME TypeOK, NEW a \in Actor, NEW j \in Job, Begin(a, j)
    PROVE  /\ run' \in [Actor -> Run]
           /\ \A b \in Actor : run'[b].phase # "none" => run'[b].job # NoJob
<1>1. j.opts.retry \in Nat BY DEF Job, Options
<1> QED BY <1>1, NoJobAssumption DEF Begin, TypeOK, Run

LEMMA NoRunType == NoRun \in Run /\ NoRun.phase = "none"
BY DEF NoRun, Run

\* An abort takes the run of the task it stops with it.
LEMMA KillTypes ==
    ASSUME TypeOK, Linked, NEW id \in JobId,
           loops' = Aborted(id, loops), Die(Killed(id))
    PROVE  /\ run' \in [Actor -> Run]
           /\ \A a \in Actor : run'[a].phase # "none" => run'[a].job # NoJob
           /\ Linked'
<1>1. /\ run' \in [Actor -> Run]
      /\ \A a \in Actor : run'[a].phase # "none" => run'[a].job # NoJob
  BY NoRunType DEF Die, TypeOK
<1>2. ASSUME NEW l \in Loop, run'[l].phase # "none" PROVE loops'[l].at = "run"
  <2>1. l \in Actor BY DEF Actor
  <2>2. l \notin Killed(id) /\ run'[l] = run[l] BY <1>2, <2>1, NoRunType DEF Die
  <2>3. loops[l].at = "run" BY <1>2, <2>2 DEF Linked
  <2>4. l # tasks[id] BY <2>2, <2>3 DEF Killed
  <2> QED BY <2>3, <2>4 DEF Aborted
<1> QED BY <1>1, <1>2 DEF Linked

LEMMA InitTypes == Init => TypeOK /\ Linked
<1> SUFFICES ASSUME Init PROVE TypeOK /\ Linked OBVIOUS
<1>1. jobs \in Registry
  <2>1. \A i \in JobId, o \in Founding :
            [id |-> i, gen |-> 0, opts |-> o] \in Job
    BY ManagerAssumption DEF Job
  <2> QED BY <2>1 DEF Init, Registry
<1>2. AdapterTypeOK
  BY <1>1, IdleType, ManagerAssumption DEF Init, AdapterTypeOK, Boot, Idle, Holding
<1>3. req \in [Caller -> Request]
  BY ManagerAssumption DEF Init, Requests, Request
<1>4. \A a \in Actor : run[a].phase = "none" BY NoRunType DEF Init
<1>5. run \in [Actor -> Run] BY NoRunType DEF Init
<1>6. Linked BY <1>4 DEF Linked, Actor
<1> QED BY <1>2, <1>3, <1>4, <1>5, <1>6 DEF Init, TypeOK, PC

\* The duplicate check fills in the zone of a request, and nothing else of it.
LEMMA CheckRequest ==
    ASSUME TypeOK, NEW c \in Caller, Check(c)
    PROVE  /\ req' \in [Caller -> Request]
           /\ \A d \in Caller : req'[d].id = req[d].id
<1>1. Pinned(req[c].opts) \in Options
  BY ReadingType DEF TypeOK, AdapterTypeOK, Request
<1>2. req' \in {req, [req EXCEPT ![c].opts = Pinned(req[c].opts)]} BY DEF Check
<1> QED BY <1>1, <1>2 DEF TypeOK, Request

\* Setting the time zone touches nothing else.
LEMMA MoveEffect ==
    ASSUME NEW z \in Zone, Move(z)
    PROVE  /\ boot = "up" /\ timezone' = z
           /\ UNCHANGED <<jobs, file, writing, tasks, loops, boot, drop, revive, now,
                          gens, pc, req, run, calls, crashes, fired, again, done,
                          raced, stranded>>
BY DEF Move, SetZone

\* The jobs restore() judges in another zone are jobs.
LEMMA MisreadType ==
    ASSUME AdapterTypeOK
    PROVE  Misread \subseteq Job
BY DEF Misread, AdapterTypeOK, Registry

\* A step of start-up is one of four, and each leaves the requests, the runs and
\* the clock alone.
LEMMA BootEffect ==
    ASSUME BootStep
    PROVE  /\ Load \/ RestoreFilter \/ RestoreRemove \/ RestoreSpawn
           /\ UNCHANGED <<pc, req, run, calls, crashes, moves, fired, again, done,
                          raced, stranded, now, gens, timezone>>
           /\ boot # "up"
           /\ RestoreFilter => retimed' = retimed \cup Misread
           /\ ~RestoreFilter => retimed' = retimed
<1>1. CASE Filter BY <1>1 DEF Filter, RestoreFilter
<1>2. CASE (Load \/ RestoreRemove \/ RestoreSpawn) /\ UNCHANGED <<pc, req, run, history>>
  BY <1>2 DEF history, Load, RestoreFilter, RestoreRemove, RestoreSpawn
<1> QED BY <1>1, <1>2 DEF BootStep

LEMMA CallerTypes ==
    ASSUME TypeOK, Linked, NEW c \in Caller, CallerStep(c)
    PROVE  TypeOK' /\ Linked'
<1> USE DEF TypeOK
<1>0. c \in Actor /\ c \notin Loop /\ req[c].id \in JobId /\ req[c].opts \in Options
  BY ManagerAssumption DEF Actor, Request
<1>1. CASE CheckOwned(c)
  <2>1. pc' \in [Caller -> PC] BY <1>1 DEF CheckOwned, Goto, PC
  <2> QED BY <1>1, <2>1
      DEF CheckOwned, history, adapterVars, AdapterTypeOK, Linked
<1>2. CASE CancelGuard(c)
  BY <1>2 DEF CancelGuard, Goto, PC, history, adapterVars, AdapterTypeOK, Linked
<1>3. CASE ReadForUpdate(c)
  <2>1. Kept(req[c].opts, jobs[req[c].id]) \in Options
    <3>1. CASE jobs[req[c].id] = NoJob BY <1>0, <3>1 DEF Kept
    <3>2. CASE jobs[req[c].id] # NoJob
      <4>1. jobs[req[c].id].opts \in Options
        BY <1>0, <3>2 DEF AdapterTypeOK, Registry, Job
      <4> QED BY <1>0, <3>2, <4>1 DEF Kept, Options
    <3> QED BY <3>1, <3>2
  <2>2. req' \in [Caller -> Request]
    BY <1>3, <2>1 DEF ReadForUpdate, Request
  <2> QED BY <1>3, <2>2
      DEF ReadForUpdate, Goto, PC, history, adapterVars, AdapterTypeOK, Linked
<1>4. CASE DoCancel(c)
  <2>1. AdapterTypeOK' BY <1>4, <1>0, CancelTypes DEF DoCancel, AdapterTypeOK
  <2> QED BY <1>4, <1>0, <2>1, KillTypes DEF DoCancel, Goto, PC, cancel
<1>5. CASE Check(c)
  <2>1. req' \in [Caller -> Request] BY <1>5, CheckRequest
  <2> QED BY <1>5, <1>0, <2>1 DEF Check, Goto, PC, adapterVars, AdapterTypeOK, Linked
<1>6. CASE Abort(c)
  <2>1. AdapterTypeOK' BY <1>6, <1>0, AdapterTypes DEF Abort
  <2> QED BY <1>6, <1>0, <2>1, KillTypes DEF Abort, Goto, PC, AbortOld
<1>7. CASE Insert(c)
  <2>1. AdapterTypeOK' BY <1>7, <1>0, AdapterTypes DEF Insert
  <2> QED BY <1>7, <2>1 DEF Insert, insert, Goto, PC, history, Linked
<1>8. CASE Spawn(c)
  <2>1. AdapterTypeOK' BY <1>8, <1>0, AdapterTypes DEF Spawn
  <2>2. \A l \in Loop : loops[l].at = "run" => loops'[l] = loops[l]
    BY <1>8 DEF Spawn, spawn_task, AdapterTypeOK
  <2> QED BY <1>8, <2>1, <2>2 DEF Spawn, Goto, PC, history, Linked
<1>9. CASE TriggerNow(c)
  <2> DEFINE j == jobs[req[c].id]
  <2>1. CASE j = NoJob
    BY <1>9, <2>1
    DEF TriggerNow, Goto, PC, history, adapterVars, AdapterTypeOK, Linked
  <2>2. CASE j # NoJob
    <3>1. j \in Job BY <1>0, <2>2 DEF AdapterTypeOK, Registry
    <3>2. Begin(c, j) BY <1>9, <2>2 DEF TriggerNow
    <3>3. /\ run' \in [Actor -> Run]
          /\ \A b \in Actor : run'[b].phase # "none" => run'[b].job # NoJob
      BY <1>0, <3>1, <3>2, BeginType
    <3>4. \A l \in Loop : run'[l] = run[l] BY <1>0, <3>2 DEF Begin, Actor
    <3> QED BY <1>9, <2>2, <3>3, <3>4
        DEF TriggerNow, Goto, PC, history, adapterVars, AdapterTypeOK, Linked
  <2> QED BY <2>1, <2>2
<1> QED BY <1>1, <1>2, <1>3, <1>4, <1>5, <1>6, <1>7, <1>8, <1>9
    DEF CallerStep

LEMMA RetryType ==
    ASSUME run \in [Actor -> Run], NEW a \in Actor, run[a].tries > 0,
           run' = [run EXCEPT ![a].tries = @ - 1]
    PROVE  /\ run' \in [Actor -> Run]
           /\ \A b \in Actor : /\ run'[b].phase = run[b].phase
                               /\ run'[b].job = run[b].job
<1> DEFINE t == [run[a] EXCEPT !.tries = @ - 1]
<1>1. t \in Run /\ t.phase = run[a].phase /\ t.job = run[a].job BY DEF Run
<1>2. run' = [run EXCEPT ![a] = t] OBVIOUS
<1> HIDE DEF t
<1> QED BY <1>1, <1>2

LEMMA RunTypes ==
    ASSUME TypeOK, Linked, NEW a \in Actor, RunStep(a)
    PROVE  TypeOK' /\ Linked'
<1> USE DEF TypeOK
<1>0. /\ run[a].phase # "none"
      /\ a \in Loop => loops[a].at = "run"
  BY DEF RunStep, GateMet, GateSkip, Retry, GiveUp, Succeed, Retire, Linked
<1>1. CASE GateMet(a)
  BY <1>1 DEF GateMet, Run, history, adapterVars, AdapterTypeOK, Linked, Actor
<1>2. CASE Retry(a)
  <2>1. run' = [run EXCEPT ![a].tries = @ - 1] /\ run[a].tries > 0
    BY <1>2 DEF Retry
  <2>2. /\ run' \in [Actor -> Run]
        /\ \A b \in Actor : /\ run'[b].phase = run[b].phase
                            /\ run'[b].job = run[b].job
    BY <2>1, RetryType
  <2>3. AdapterTypeOK' BY <1>2 DEF Retry, adapterVars, AdapterTypeOK
  <2>4. Linked' BY <1>2, <2>2 DEF Retry, adapterVars, Linked, Actor
  <2> QED BY <1>2, <2>2, <2>3, <2>4 DEF Retry, history
<1>3. CASE GateSkip(a) \/ GiveUp(a) \/ Succeed(a)
  <2>1. EndRun(a) /\ KeepRegistry
    BY <1>3 DEF GateSkip, GiveUp, Succeed
  <2>2. AdapterTypeOK'
    BY <1>0, <2>1, BackType DEF EndRun, KeepRegistry, AdapterTypeOK
  <2>3. /\ pc' \in [Caller -> PC] /\ run' \in [Actor -> Run]
        /\ \A b \in Actor : run'[b].phase # "none" =>
               b # a /\ run'[b] = run[b]
    BY <2>1, NoRunType DEF EndRun, PC
  <2>4. Linked'
    BY <2>1, <2>3 DEF EndRun, Linked, Back, Actor, AdapterTypeOK
  <2> QED BY <1>3, <2>2, <2>3, <2>4 DEF GateSkip, GiveUp, Succeed, history
<1>4. CASE Retire(a)
  <2>1. run[a].job \in Job BY <1>0 DEF Run
  <2>2. cancel(run[a].job.id, Back(a)) BY <1>4 DEF Retire
  <2>3. AdapterTypeOK' BY <1>0, <2>1, <2>2, BackType, CancelTypes DEF Job
  <2>4. /\ pc' \in [Caller -> PC] /\ run' \in [Actor -> Run]
        /\ \A b \in Actor : run'[b].phase # "none" =>
               /\ b # a /\ b \notin Killed(run[a].job.id)
               /\ run'[b] = run[b]
    BY <1>4, NoRunType DEF Retire, PC
  <2>5. ASSUME NEW l \in Loop, run'[l].phase # "none"
        PROVE loops'[l].at = "run"
    <3>1. l # a /\ l \notin Killed(run[a].job.id) /\ run'[l] = run[l]
      BY <2>4, <2>5 DEF Actor
    <3>2. loops[l].at = "run" BY <2>5, <3>1 DEF Linked
    <3>3. l # tasks[run[a].job.id] BY <3>1, <3>2 DEF Killed
    <3>4. Back(a)[l] = loops[l] BY <3>1 DEF Back, AdapterTypeOK
    <3> QED BY <2>2, <3>2, <3>3, <3>4 DEF cancel, Aborted
  <2> QED BY <1>4, <2>1, <2>3, <2>4, <2>5 DEF Retire, Linked
<1> QED BY <1>1, <1>2, <1>3, <1>4 DEF RunStep

LEMMA NextTypes ==
    ASSUME TypeOK, Linked, [Next]_vars
    PROVE  TypeOK' /\ Linked'
<1> USE DEF TypeOK
<1>1. ASSUME NEW c \in Caller, NEW r \in Requests, Call(c, r)
      PROVE  TypeOK' /\ Linked'
  <2>1. r \in Request BY <1>1, ManagerAssumption DEF Requests, Request
  <2>2. Entry(r.op, r.scope) \in PC BY DEF Entry, PC
  <2> QED BY <1>1, <2>1, <2>2
      DEF Call, Goto, adapterVars, AdapterTypeOK, Linked
<1>2. ASSUME NEW c \in Caller, Disconnect(c) PROVE TypeOK' /\ Linked'
  <2>1. c \notin Loop BY <1>2, ManagerAssumption
  <2>2. \A l \in Loop : run'[l] = run[l]
    BY <1>2, <2>1 DEF Disconnect, Actor
  <2>3. stranded' \subseteq Job
    BY <1>2 DEF Disconnect, AdapterTypeOK, Registry, Request
  <2>4. pc' \in [Caller -> PC] /\ run' \in [Actor -> Run]
    BY <1>2, NoRunType DEF Disconnect, Goto, PC
  <2>5. \A a \in Actor : run'[a].phase # "none" => run'[a].job # NoJob
    BY <1>2, NoRunType DEF Disconnect
  <2> QED BY <1>2, <2>2, <2>3, <2>4, <2>5
      DEF Disconnect, adapterVars, AdapterTypeOK, Linked
<1>3. ASSUME NEW l \in Loop, ArmJob(l) PROVE TypeOK' /\ Linked'
  <2>1. Arm(l) BY <1>3 DEF ArmJob
  <2>2. AdapterTypeOK' BY <1>3, <2>1, AdapterTypes
  <2>3. \A m \in Loop : loops[m].at = "run" => loops'[m] = loops[m]
    BY <2>1 DEF Arm, AdapterTypeOK
  <2> QED BY <1>3, <2>2, <2>3 DEF ArmJob, history, Linked
<1>4. ASSUME NEW l \in Loop, FireJob(l) PROVE TypeOK' /\ Linked'
  <2>1. Fire(l) /\ Begin(l, loops[l].job) BY <1>4 DEF FireJob
  <2>2. AdapterTypeOK' BY <1>4, <2>1, AdapterTypes
  <2>3. loops[l].job \in Job
    BY <1>4, <2>1 DEF Fire, AdapterTypeOK, Holding, Task
  <2>4. /\ run' \in [Actor -> Run]
        /\ \A b \in Actor : run'[b].phase # "none" => run'[b].job # NoJob
    BY <1>4, <2>1, <2>3, BeginType DEF Actor
  <2>5. Linked'
    BY <1>4, <2>1 DEF Fire, Begin, Linked, AdapterTypeOK, Actor
  <2> QED BY <1>4, <2>2, <2>3, <2>4, <2>5 DEF FireJob
<1>5. ASSUME NEW l \in Loop, ReturnJob(l) PROVE TypeOK' /\ Linked'
  <2>1. Return(l) BY <1>5 DEF ReturnJob
  <2>2. AdapterTypeOK' BY <1>5, <2>1, AdapterTypes
  <2>3. \A m \in Loop : loops[m].at = "run" => loops'[m] = loops[m]
    BY <2>1 DEF Return, AdapterTypeOK
  <2>4. loops[l].id \in JobId BY <1>5 DEF AdapterTypeOK, Task
  <2> QED BY <1>5, <2>2, <2>3, <2>4 DEF ReturnJob, Linked
<1>6. ASSUME BootStep PROVE TypeOK' /\ Linked'
  <2>1. AdapterTypeOK' BY <1>6, BootEffect, AdapterTypes
  <2>2. \A m \in Loop : loops[m].at = "run" => loops'[m] = loops[m]
    <3>1. CASE RestoreSpawn
      <4>1. PICK t \in [revive -> {l \in Loop : loops[l].at = "off"}] :
               loops' = [l \in Loop |->
                  IF \E i \in revive : t[i] = l
                  THEN [Idle EXCEPT !.at = "top",
                        !.id = CHOOSE i \in revive : t[i] = l]
                  ELSE loops[l]]
        BY <3>1 DEF RestoreSpawn
      <4>2. \A i \in revive : loops[t[i]].at = "off" BY <4>1
      <4>3. ASSUME NEW m \in Loop, loops[m].at = "run" PROVE loops'[m] = loops[m]
        <5>1. ~ \E i \in revive : t[i] = m BY <4>2, <4>3
        <5> QED BY <4>1, <5>1
      <4> QED BY <4>3
    <3> QED BY <1>6, <3>1, BootEffect DEF Load, RestoreFilter, RestoreRemove
  <2>3. retimed' \subseteq Job BY <1>6, BootEffect, MisreadType
  <2> QED BY <1>6, <2>1, <2>2, <2>3, BootEffect DEF Linked
<1>7. CASE FinishFlush \/ Time
  <2>1. AdapterTypeOK' BY <1>7, AdapterTypes DEF FinishFlush, Time
  <2>2. loops' = loops BY <1>7 DEF FinishFlush, EndFlush, Time, Tick
  <2> QED BY <1>7, <2>1, <2>2 DEF FinishFlush, Time, history, Linked
<1>8. CASE Crash
  <2>1. AdapterTypeOK' BY <1>8, AdapterTypes DEF Crash
  <2> QED BY <1>8, <2>1, NoRunType DEF Crash, PC, Linked, Actor
<1>9. CASE UNCHANGED vars
  BY <1>9 DEF vars, history, adapterVars, AdapterTypeOK, Linked
<1>10. ASSUME NEW z \in Zone, Move(z) PROVE TypeOK' /\ Linked'
  <2>1. AdapterTypeOK' BY <1>10, AdapterTypes DEF Move
  <2>2. moves' \in Nat /\ retimed' \subseteq Job
    BY <1>10 DEF Move, AdapterTypeOK, Registry
  <2> QED BY <1>10, <2>1, <2>2, MoveEffect DEF Linked
<1> QED BY <1>1, <1>2, <1>3, <1>4, <1>5, <1>6, <1>7, <1>8, <1>9, <1>10, CallerTypes,
        RunTypes DEF Next

\* The type invariant of the scheduler holds for any number of jobs, tasks,
\* requests and crashes; a task has a run only inside its callback.
THEOREM SchedulerTypes == Spec => [](TypeOK /\ Linked)
<1>1. Init => TypeOK /\ Linked BY InitTypes
<1>2. (TypeOK /\ Linked) /\ [Next]_vars => (TypeOK /\ Linked)' BY NextTypes
<1> QED BY <1>1, <1>2, PTL DEF Spec

-----------------------------------------------------------------------------
(***************************************************************************)
(* The registry and its file.                                              *)
(***************************************************************************)
LEMMA InitRegistry == Init => RegistryInv
<1> SUFFICES ASSUME Init PROVE RegistryInv OBVIOUS
<1>1. \A i \in JobId : jobs[i] # NoJob => jobs[i].id = i /\ jobs[i].gen < gens
  BY DEF Init
<1>2. /\ \A l \in Loop : loops[l].at = "off"
      /\ \A a \in Actor : run[a].phase = "none"
  BY DEF Init, Idle, NoRun
<1>3. Named BY <1>1, <1>2 DEF Init, Named, Holding
<1>4. jobs # Torn BY InitTypes, NoJobAssumption DEF TypeOK, AdapterTypeOK
<1>5. Stored BY <1>2, <1>4 DEF Init, Stored
<1>6. Retired BY DEF Init, Retired
<1> QED BY <1>3, <1>5, <1>6 DEF RegistryInv

\* Taking a name out of the registry, whatever happens to the tasks.
LEMMA CancelRegistry ==
    ASSUME TypeOK, RegistryInv, NEW id \in JobId, NEW ls, cancel(id, ls),
           boot # "down"
    PROVE  /\ \A i \in JobId : jobs'[i] = IF i = id THEN NoJob ELSE jobs[i]
           /\ file' = Torn \/ file' = file
           /\ gens' = gens /\ boot' = boot
           /\ ~writing' => jobs' = IF file' = Torn THEN NoJobs ELSE file'
           /\ file' # Torn => \A i \in JobId : file'[i] = jobs'[i]
<1> USE DEF RegistryInv, Stored, TypeOK, AdapterTypeOK
<1>1. ~writing /\ jobs = IF file = Torn THEN NoJobs ELSE file BY DEF cancel
<1>2. CASE jobs[id] = NoJob
  <2>1. jobs' = jobs /\ file' = file /\ writing' = writing
    BY <1>2 DEF cancel
  <2> QED BY <1>1, <1>2, <2>1 DEF cancel
<1>3. CASE jobs[id] # NoJob
  <2>1. jobs' = [jobs EXCEPT ![id] = NoJob] /\ file' = Torn /\ writing'
    BY <1>3 DEF cancel, flush_jobs
  <2> QED BY <2>1 DEF cancel, Registry
<1> QED BY <1>2, <1>3

LEMMA CallerRegistry ==
    ASSUME TypeOK, Linked, RegistryInv, NEW c \in Caller, CallerStep(c)
    PROVE  RegistryInv'
<1> USE DEF RegistryInv
<1>0. /\ c \in Actor /\ c \notin Loop
      /\ req[c].id \in JobId /\ req[c].opts \in Options
      /\ boot # "down"
  BY ManagerAssumption DEF Actor, Request, CallerStep, CheckOwned, CancelGuard,
     ReadForUpdate, DoCancel, Check, Abort, Insert, Spawn, TriggerNow, Stored,
     TypeOK
<1>1. CASE CheckOwned(c) \/ CancelGuard(c) \/ ReadForUpdate(c) \/ Check(c)
  <2>1. UNCHANGED <<adapterVars, run, fired, done>>
    BY <1>1 DEF CheckOwned, CancelGuard, ReadForUpdate, Check, history
  <2> QED BY <1>0, <2>1 DEF adapterVars, Named, Stored, Retired
<1>2. CASE DoCancel(c)
  <2>1. /\ cancel(req[c].id, loops) /\ Die(Killed(req[c].id))
        /\ UNCHANGED <<fired, done>>
    BY <1>2 DEF DoCancel
  <2>2. /\ \A i \in JobId :
               jobs'[i] = IF i = req[c].id THEN NoJob ELSE jobs[i]
        /\ file' = Torn \/ file' = file
        /\ gens' = gens /\ boot' = boot
        /\ ~writing' => jobs' = IF file' = Torn THEN NoJobs ELSE file'
        /\ file' # Torn => \A i \in JobId : file'[i] = jobs'[i]
    BY <1>0, <2>1, CancelRegistry
  <2>3. \A l \in Loop : loops'[l].at \in Holding =>
            /\ loops[l].at \in Holding
            /\ loops'[l].job = loops[l].job /\ loops'[l].id = loops[l].id
    BY <1>0, <2>1, AbortedType DEF cancel, TypeOK, AdapterTypeOK
  <2>4. \A a \in Actor : run'[a].phase # "none" => run'[a] = run[a]
    BY <2>1, NoRunType DEF Die
  <2>5. Named' BY <2>1, <2>2, <2>3, <2>4 DEF Named
  <2>6. Stored' BY <1>0, <2>2 DEF Stored
  <2>7. Retired'
    BY <2>1, <2>2, NoJobAssumption DEF Retired, TypeOK
  <2> QED BY <2>5, <2>6, <2>7
<1>3. CASE Abort(c)
  <2>1. /\ AbortOld(req[c].id) /\ Die(Killed(req[c].id))
        /\ UNCHANGED <<fired, done>>
    BY <1>3 DEF Abort
  <2>2. \A l \in Loop : loops'[l].at \in Holding =>
            /\ loops[l].at \in Holding
            /\ loops'[l].job = loops[l].job /\ loops'[l].id = loops[l].id
    BY <1>0, <2>1, AbortedType DEF AbortOld, TypeOK, AdapterTypeOK
  <2>3. \A a \in Actor : run'[a].phase # "none" => run'[a] = run[a]
    BY <2>1, NoRunType DEF Die
  <2>4. UNCHANGED <<jobs, file, writing, boot, gens>> BY <2>1 DEF AbortOld
  <2> QED BY <1>0, <2>1, <2>2, <2>3, <2>4 DEF Named, Stored, Retired
<1>4. CASE Insert(c)
  <2> DEFINE new == [id |-> req[c].id, gen |-> gens, opts |-> req[c].opts]
  <2>1. /\ jobs' = [jobs EXCEPT ![req[c].id] = new]
        /\ gens' = gens + 1 /\ file' = Torn /\ writing' /\ boot' = boot
        /\ UNCHANGED <<loops, run, fired, done>>
    BY <1>4 DEF Insert, insert, flush_jobs, history
  <2>2. \A i \in JobId : jobs'[i] = IF i = req[c].id THEN new ELSE jobs[i]
    BY <2>1 DEF TypeOK, AdapterTypeOK, Registry
  <2>3. gens \in Nat BY DEF TypeOK, AdapterTypeOK
  <2>4. ASSUME NEW j \in Job, j.gen < gens PROVE j.gen < gens'
    BY <2>1, <2>3, <2>4 DEF Job
  <2>5. \A i \in JobId : jobs'[i] # NoJob =>
            jobs'[i].id = i /\ jobs'[i].gen < gens'
    BY <2>1, <2>2, <2>3, <2>4 DEF Named, TypeOK, AdapterTypeOK, Registry
  <2>6. \A l \in Loop : loops[l].at \in Holding => loops[l].job \in Job
    BY DEF TypeOK, AdapterTypeOK, Task
  <2>7. \A a \in Actor : run[a].phase # "none" => run[a].job \in Job
    BY DEF TypeOK, Run
  <2>8. Named'
    BY <2>1, <2>4, <2>5, <2>6, <2>7 DEF Named, TypeOK
  <2>9. new \notin done BY <2>3 DEF Named
  <2>10. Retired' BY <2>1, <2>2, <2>9 DEF Retired
  <2> QED BY <1>0, <2>1, <2>8, <2>10 DEF Stored
<1>5. CASE Spawn(c)
  <2>1. PICK l \in Loop :
           loops' = [loops EXCEPT ![l] = [Idle EXCEPT !.at = "top",
                                                      !.id = req[c].id]]
    BY <1>5 DEF Spawn, spawn_task
  <2>2. \A m \in Loop : loops'[m].at \in Holding => loops'[m] = loops[m]
    BY <2>1 DEF TypeOK, AdapterTypeOK, Holding, Idle
  <2>3. UNCHANGED <<jobs, file, writing, boot, gens, run, fired, done>>
    BY <1>5 DEF Spawn, spawn_task, history
  <2> QED BY <1>0, <2>2, <2>3 DEF Named, Stored, Retired
<1>6. CASE TriggerNow(c)
  <2>1. UNCHANGED <<adapterVars, fired, done>>
    BY <1>6 DEF TriggerNow, history
  <2>2. \A a \in Actor : run'[a].phase # "none" =>
            \/ run'[a] = run[a]
            \/ \E i \in JobId : jobs[i] # NoJob /\ run'[a].job = jobs[i]
    BY <1>0, <1>6 DEF TriggerNow, Begin, TypeOK
  <2> QED BY <1>0, <2>1, <2>2 DEF adapterVars, Named, Stored, Retired
<1> QED BY <1>1, <1>2, <1>3, <1>4, <1>5, <1>6 DEF CallerStep

LEMMA RunRegistry ==
    ASSUME TypeOK, Linked, RegistryInv, NEW a \in Actor, RunStep(a)
    PROVE  RegistryInv'
<1> USE DEF RegistryInv
<1>0. /\ run[a].phase # "none" /\ boot # "down"
      /\ a \in Loop => loops[a].at = "run"
      /\ run[a].job \in Job /\ run[a].job.gen < gens
      /\ Back(a) \in [Loop -> Task]
      /\ \A l \in Loop : Back(a)[l].at \in Holding =>
             /\ loops[l].at \in Holding
             /\ Back(a)[l].job = loops[l].job /\ Back(a)[l].id = loops[l].id
  <2>1. run[a].phase # "none"
    BY DEF RunStep, GateMet, GateSkip, Retry, GiveUp, Succeed, Retire
  <2>2. /\ boot # "down"
        /\ a \in Loop => loops[a].at = "run"
        /\ run[a].job \in Job /\ run[a].job.gen < gens
    BY <2>1 DEF Stored, Linked, Named, TypeOK, Run
  <2> QED BY <2>1, <2>2, BackType DEF TypeOK
<1>1. CASE GateMet(a) \/ Retry(a)
  <2>1. UNCHANGED <<adapterVars, pc, fired, done>>
    BY <1>1 DEF GateMet, Retry, history
  <2>2. \A b \in Actor : run'[b].phase # "none" =>
            run[b].phase # "none" /\ run'[b].job = run[b].job
    BY <1>0, <1>1 DEF GateMet, Retry, TypeOK, Run
  <2> QED BY <1>0, <2>1, <2>2 DEF adapterVars, Named, Stored, Retired
<1>2. CASE GateSkip(a) \/ GiveUp(a) \/ Succeed(a)
  <2>1. /\ EndRun(a) /\ KeepRegistry /\ UNCHANGED <<fired, done>>
    BY <1>2 DEF GateSkip, GiveUp, Succeed, history
  <2>2. \A b \in Actor : run'[b].phase # "none" => run'[b] = run[b]
    BY <2>1, NoRunType DEF EndRun, TypeOK
  <2>3. loops' = Back(a) BY <2>1 DEF EndRun
  <2> QED BY <1>0, <2>1, <2>2, <2>3 DEF KeepRegistry, Named, Stored, Retired
<1>3. CASE Retire(a)
  <2> DEFINE id == run[a].job.id
  <2>0. id \in JobId BY <1>0 DEF Job
  <2>1. /\ cancel(id, Back(a)) /\ fired' = fired
        /\ done' = done \cup {run[a].job}
    BY <1>3 DEF Retire
  <2>2. /\ \A i \in JobId : jobs'[i] = IF i = id THEN NoJob ELSE jobs[i]
        /\ file' = Torn \/ file' = file
        /\ gens' = gens /\ boot' = boot
        /\ ~writing' => jobs' = IF file' = Torn THEN NoJobs ELSE file'
        /\ file' # Torn => \A i \in JobId : file'[i] = jobs'[i]
    BY <1>0, <2>0, <2>1, CancelRegistry
  <2>3. \A l \in Loop : loops'[l].at \in Holding =>
            /\ loops[l].at \in Holding
            /\ loops'[l].job = loops[l].job /\ loops'[l].id = loops[l].id
    BY <1>0, <2>0, <2>1, AbortedType DEF cancel, TypeOK
  <2>4. \A b \in Actor : run'[b].phase # "none" => run'[b] = run[b]
    BY <1>3, NoRunType DEF Retire
  <2>5. Named' BY <1>0, <2>1, <2>2, <2>3, <2>4 DEF Named
  <2>6. Stored' BY <1>0, <2>2 DEF Stored
  <2>7. \A i \in JobId : jobs'[i] \notin done'
    BY <1>0, <2>1, <2>2, NoJobAssumption DEF Named, Retired, TypeOK
  <2>8. Retired' BY <2>2, <2>7 DEF Retired
  <2> QED BY <2>5, <2>6, <2>8
<1> QED BY <1>1, <1>2, <1>3 DEF RunStep

LEMMA NextRegistry ==
    ASSUME TypeOK, Linked, RegistryInv, [Next]_vars
    PROVE  RegistryInv'
<1> USE DEF RegistryInv
<1>1. ASSUME NEW c \in Caller, NEW r \in Requests, Call(c, r)
      PROVE  RegistryInv'
  BY <1>1 DEF Call, adapterVars, Named, Stored, Retired
<1>2. ASSUME NEW c \in Caller, Disconnect(c) PROVE RegistryInv'
  <2>1. \A a \in Actor : run'[a].phase # "none" => run'[a] = run[a]
    BY <1>2, NoRunType DEF Disconnect, TypeOK
  <2>2. boot # "down" BY <1>2 DEF Disconnect, Stored
  <2> QED BY <1>2, <2>1, <2>2
      DEF Disconnect, history, adapterVars, Named, Stored, Retired
<1>3. ASSUME NEW l \in Loop, ArmJob(l) PROVE RegistryInv'
  <2>1. /\ Arm(l) /\ boot # "down"
        /\ UNCHANGED <<jobs, file, writing, boot, gens, run, fired, done>>
    BY <1>3 DEF ArmJob, Arm, history, Stored
  <2>2. \A m \in Loop : loops'[m].at \in Holding =>
            \/ loops'[m] = loops[m]
            \/ /\ loops'[m].id \in JobId /\ jobs[loops'[m].id] # NoJob
               /\ loops'[m].job = jobs[loops'[m].id]
    <3>1. loops[l].id \in JobId BY <1>3 DEF TypeOK, AdapterTypeOK, Task
    <3>2. CASE loops' = [loops EXCEPT ![l] = Idle]
      BY <3>2 DEF TypeOK, AdapterTypeOK, Idle, Holding
    <3>3. CASE /\ jobs[loops[l].id] # NoJob
               /\ loops' = [loops EXCEPT ![l] =
                      [@ EXCEPT !.at = "sleep", !.job = jobs[loops[l].id],
                                !.due = NextFire(jobs[loops[l].id].opts)]]
      BY <3>1, <3>3 DEF TypeOK, AdapterTypeOK, Task
    <3> QED BY <2>1, <3>2, <3>3 DEF Arm
  <2> QED BY <2>1, <2>2 DEF Named, Stored, Retired
<1>4. ASSUME NEW l \in Loop, FireJob(l) PROVE RegistryInv'
  <2>1. /\ loops[l].at = "sleep" /\ boot # "down"
        /\ loops' = [loops EXCEPT ![l].at = "run"]
        /\ UNCHANGED <<jobs, file, writing, boot, gens, done>>
    BY <1>4 DEF FireJob, Fire, Stored
  <2>2. loops[l].job.gen < gens BY <1>4, <2>1 DEF Named, Holding
  <2>3. \A a \in Actor : run'[a] # run[a] => run'[a].job = loops[l].job
    BY <1>4 DEF FireJob, Begin, TypeOK
  <2>4. \A j \in fired' : j \in fired \/ j = loops[l].job
    BY <1>4 DEF FireJob
  <2>5. \A m \in Loop : loops'[m].at \in Holding =>
            /\ loops[m].at \in Holding
            /\ loops'[m].job = loops[m].job /\ loops'[m].id = loops[m].id
    BY <1>4, <2>1 DEF TypeOK, AdapterTypeOK, Task, Holding
  <2> QED BY <2>1, <2>2, <2>3, <2>4, <2>5 DEF Named, Stored, Retired
<1>5. ASSUME NEW l \in Loop, ReturnJob(l) PROVE RegistryInv'
  <2> DEFINE id == loops[l].id
  <2>0. id \in JobId BY <1>5 DEF TypeOK, AdapterTypeOK, Task
  <2>1. /\ Return(l) /\ ~writing /\ boot # "down"
        /\ UNCHANGED <<boot, gens, run, fired, done>>
    BY <1>5 DEF ReturnJob, Return, Stored
  <2>2. \/ UNCHANGED <<jobs, file, writing>>
        \/ /\ jobs' = [jobs EXCEPT ![id] = NoJob]
           /\ file' = Torn /\ writing'
    BY <2>1 DEF Return, flush_jobs
  <2>3. \A i \in JobId : jobs'[i] = jobs[i] \/ jobs'[i] = NoJob
    BY <2>0, <2>2 DEF TypeOK, AdapterTypeOK, Registry
  <2>4. \A m \in Loop : loops'[m].at \in Holding => loops'[m] = loops[m]
    BY <2>1 DEF Return, TypeOK, AdapterTypeOK, Task, Idle, Holding
  <2>5. Named' BY <2>1, <2>2, <2>3, <2>4 DEF Named
  <2>6. Stored' /\ Retired'
    BY <2>1, <2>2, <2>3, NoJobAssumption DEF Stored, Retired, TypeOK
  <2> QED BY <2>5, <2>6
<1>6. CASE BootStep
  <2>1. UNCHANGED <<pc, run, fired, done, gens>> BY <1>6, BootEffect
  <2>2. CASE Load
    <3>1. \A i \in JobId : jobs'[i] # NoJob => file # Torn /\ jobs'[i] = file[i]
      BY <2>2 DEF Load, NoJobs
    <3>2. /\ jobs' = (IF file = Torn THEN NoJobs ELSE file)
          /\ boot' = "filter" /\ UNCHANGED <<file, writing, loops>>
      BY <2>2 DEF Load
    <3>3. Named' BY <2>1, <3>1, <3>2 DEF Named
    <3>4. NoJob \notin done BY NoJobAssumption DEF TypeOK
    <3>5. \A i \in JobId : jobs'[i] \notin done'
      BY <2>1, <3>1, <3>4 DEF Retired
    <3> QED BY <2>1, <3>2, <3>3, <3>5 DEF Stored, Retired
  <2>3. CASE RestoreFilter
    BY <2>1, <2>3 DEF RestoreFilter, Named, Stored, Retired
  <2>4. CASE RestoreRemove
    <3>1. /\ \A i \in JobId : jobs'[i] = IF i \in drop THEN NoJob ELSE jobs[i]
          /\ boot' = "spawn" /\ ~writing /\ boot # "down"
          /\ UNCHANGED loops
          /\ IF drop = {} THEN UNCHANGED <<file, writing>>
             ELSE file' = Torn /\ writing'
      BY <2>4 DEF RestoreRemove, flush_jobs
    <3>2. drop = {} => jobs' = jobs
      BY <2>4 DEF RestoreRemove, TypeOK, AdapterTypeOK, Registry
    <3>3. Named' BY <2>1, <3>1 DEF Named
    <3>4. NoJob \notin done BY NoJobAssumption DEF TypeOK
    <3> QED BY <2>1, <3>1, <3>2, <3>3, <3>4 DEF Stored, Retired
  <2>5. CASE RestoreSpawn
    <3>1. /\ UNCHANGED <<jobs, file, writing>> /\ boot = "spawn" /\ boot' = "up"
      BY <2>5 DEF RestoreSpawn
    <3>2. \A m \in Loop : loops'[m].at \in Holding => loops'[m] = loops[m]
      <4>1. PICK t \in [revive -> {l \in Loop : loops[l].at = "off"}] :
               loops' = [l \in Loop |->
                  IF \E i \in revive : t[i] = l
                  THEN [Idle EXCEPT !.at = "top",
                        !.id = CHOOSE i \in revive : t[i] = l]
                  ELSE loops[l]]
        BY <2>5 DEF RestoreSpawn
      <4> QED BY <4>1 DEF Idle, Holding
    <3> QED BY <2>1, <3>1, <3>2 DEF Named, Stored, Retired
  <2> QED BY <1>6, <2>2, <2>3, <2>4, <2>5, BootEffect
<1>7. CASE FinishFlush
  <2>1. /\ writing /\ file' = jobs /\ jobs # Torn /\ jobs \in Registry
        /\ UNCHANGED <<jobs, loops, boot, gens, pc, run, fired, done>>
    BY <1>7, NoJobAssumption
    DEF FinishFlush, EndFlush, history, TypeOK, AdapterTypeOK
  <2>2. boot # "down" BY <2>1 DEF Stored
  <2> QED BY <2>1, <2>2 DEF Named, Stored, Retired
<1>8. CASE Time
  BY <1>8 DEF Time, Tick, history, Named, Stored, Retired
<1>9. CASE Crash
  <2>1. /\ \A i \in JobId : jobs'[i] = NoJob
        /\ \A l \in Loop : loops'[l].at = "off"
        /\ \A a \in Actor : run'[a].phase = "none"
        /\ \A c \in Caller : pc'[c] = "idle"
        /\ boot' = "down" /\ jobs' = NoJobs /\ ~writing'
        /\ UNCHANGED <<file, gens, fired, done>>
    BY <1>9 DEF Crash, CrashAdapter, NoJobs, Idle, NoRun
  <2>2. Named' BY <2>1 DEF Named, Holding
  <2>3. NoJob \notin done BY NoJobAssumption DEF TypeOK
  <2> QED BY <2>1, <2>2, <2>3 DEF Stored, Retired
<1>10. CASE UNCHANGED vars
  BY <1>10 DEF vars, history, adapterVars, Named, Stored, Retired
<1>11. ASSUME NEW z \in Zone, Move(z) PROVE RegistryInv'
  BY <1>11, MoveEffect DEF Named, Stored, Retired
<1> QED BY <1>1, <1>2, <1>3, <1>4, <1>5, <1>6, <1>7, <1>8, <1>9, <1>10, <1>11,
        CallerRegistry, RunRegistry DEF Next

\* The inductive invariant of the registry and its file: what is stored under
\* a name carries that name, no registration number is from the future, and
\* what has been retired is in neither.
THEOREM RegistryInvariant == Spec => [](TypeOK /\ Linked /\ RegistryInv)
<1>1. Init => TypeOK /\ Linked /\ RegistryInv BY InitTypes, InitRegistry
<1>2. (TypeOK /\ Linked /\ RegistryInv) /\ [Next]_vars
        => (TypeOK /\ Linked /\ RegistryInv)'
  BY NextTypes, NextRegistry
<1> QED BY <1>1, <1>2, PTL DEF Spec

\* With the registry's mutex free, what a restart would load is what is
\* registered.
THEOREM JobsOnDiskAlways == Spec => []JobsOnDisk
<1>1. RegistryInv => JobsOnDisk BY DEF RegistryInv, Stored, JobsOnDisk
<1> QED BY <1>1, RegistryInvariant, PTL

\* A one-shot registration that succeeded once is never registered again, by
\* a restart, an edit or a run that was already under way.
THEOREM OneShotRetiredAlways == Spec => []OneShotRetired
<1>1. RegistryInv => OneShotRetired BY DEF RegistryInv, Retired, OneShotRetired
<1> QED BY <1>1, RegistryInvariant, PTL

-----------------------------------------------------------------------------
(***************************************************************************)
(* The tasks: the inductive invariant, in named parts.                     *)
(***************************************************************************)
\* The handle of a name is the handle of a task of that name, only a task past
\* its callback can be doomed, and a task inside it runs what it holds.
Handles ==
    /\ \A i \in JobId : tasks[i] # NoLoop =>
           loops[tasks[i]].id = i /\ loops[tasks[i]].at # "off"
    /\ \A l \in Loop : loops[l].doomed => loops[l].at = "return"
    /\ \A l \in Loop : loops[l].at = "run" => run[l].job = loops[l].job

\* Inside a registration that no other has entered.
Window == {"abort", "insert", "spawn"}

Windows ==
    \A c \in Caller : pc[c] \in Window /\ req[c].id \notin raced =>
        /\ boot = "up"
        /\ \A d \in Caller : pc[d] \in Window /\ req[d].id = req[c].id => d = c
        /\ pc[c] # "spawn" => jobs[req[c].id] = NoJob
        /\ pc[c] # "abort" => tasks[req[c].id] = NoLoop

\* A task that is not doomed is the one under its name's handle, and what it
\* holds is what is registered; what a doomed one holds is not.
Tasks ==
    \A l \in Loop : loops[l].at # "off" /\ loops[l].id \notin raced =>
        /\ ~loops[l].doomed => boot = "up" /\ tasks[loops[l].id] = l
        /\ loops[l].at \in Holding =>
               (jobs[loops[l].id] = loops[l].job <=> ~loops[l].doomed)

TaskInv == Handles /\ Windows /\ Tasks

\* A one-time job that has been run is not run again: nothing sleeps on it,
\* and if it is still registered then its run is not over, or restore() has
\* not got to it.  A once job sleeps until the time it means and is run no
\* earlier, unless it has shifted.
Running(j) == \E l \in Loop : /\ loops[l].at \in {"run", "return"}
                              /\ ~loops[l].doomed /\ loops[l].job = j

\* A job that follows the zone that is set, and whose time shifted with it.
Shifted(j) == j.opts.zone \notin Zone /\ (j.id \in raced \/ j \in retimed)

FiredInv ==
    /\ \A l \in Loop :
           loops[l].at = "sleep" /\ loops[l].job.opts.mode = "once" =>
               /\ loops[l].job.opts.valid
               /\ Shifted(loops[l].job) \/ loops[l].due = Due(loops[l].job.opts)
    /\ \A j \in fired :
           /\ OneTime(j.opts)
           /\ j.opts.mode = "once" =>
                  j.opts.valid /\ (Shifted(j) \/ Due(j.opts) <= now)
    /\ \A j \in fired : j.id \notin raced /\ j \notin retimed =>
           /\ \A l \in Loop : loops[l].at = "sleep" => loops[l].job # j
           /\ jobs[j.id] = j => \/ boot = "filter"
                                \/ boot = "remove" /\ j.id \in drop
                                \/ Running(j)

-----------------------------------------------------------------------------
(***************************************************************************)
(* Tasks and handles.                                                      *)
(***************************************************************************)
LEMMA InitTasks == Init => TaskInv
<1> SUFFICES ASSUME Init PROVE TaskInv OBVIOUS
<1>1. /\ \A l \in Loop : loops[l].at = "off" /\ ~loops[l].doomed
      /\ \A i \in JobId : tasks[i] = NoLoop
      /\ \A c \in Caller : pc[c] = "idle"
  BY DEF Init, Idle
<1> QED BY <1>1 DEF TaskInv, Handles, Windows, Tasks, Window

\* What an abort through the handle of id does to each task.
LEMMA AbortEffect ==
    ASSUME TypeOK, NEW id \in JobId, NEW ls \in [Loop -> Task], NEW l \in Loop
    PROVE  /\ l # tasks[id] => Aborted(id, ls)[l] = ls[l]
           /\ l = tasks[id] /\ ls[l].at # "return" =>
                  Aborted(id, ls)[l] = Idle
           /\ l = tasks[id] /\ ls[l].at = "return" =>
                  /\ Aborted(id, ls)[l].at = "return"
                  /\ Aborted(id, ls)[l].id = ls[l].id
                  /\ Aborted(id, ls)[l].job = ls[l].job
                  /\ Aborted(id, ls)[l].doomed
BY DEF Aborted, Task

LEMMA IdleOff == Idle.at = "off" /\ ~Idle.doomed
BY DEF Idle

\* Cancelling, and clearing the way for a new registration, in the world where
\* the tasks are ls: the same but for the run of a task that just ended.
LEMMA ClearTasks ==
    ASSUME TypeOK, TaskInv, NEW id \in JobId, NEW ls \in [Loop -> Task],
           \A l \in Loop :
               /\ ls[l].id = loops[l].id /\ ls[l].job = loops[l].job
               /\ ls[l].doomed = loops[l].doomed
               /\ \/ ls[l].at = loops[l].at
                  \/ loops[l].at = "run" /\ ls[l].at = "return",
           loops' = Aborted(id, ls),
           tasks' = [tasks EXCEPT ![id] = NoLoop],
           \A i \in JobId : i # id => jobs'[i] = jobs[i],
           jobs'[id] = NoJob \/ id \in raced,
           boot' = boot, raced' = raced,
           \A l \in Loop : loops'[l].at = "run" => run'[l] = run[l]
    PROVE  Handles' /\ Tasks'
<1> USE DEF TaskInv
<1>0. /\ \A l \in Loop : loops[l].id \in JobId
      /\ \A i \in JobId : tasks'[i] = IF i = id THEN NoLoop ELSE tasks[i]
  BY DEF TypeOK, AdapterTypeOK, Task
<1>1. ASSUME NEW l \in Loop, loops'[l].at # "off"
      PROVE  /\ loops[l].at # "off" /\ loops'[l].id = loops[l].id
             /\ loops'[l].job = loops[l].job
             /\ loops'[l].at \in Holding => loops[l].at \in Holding
             /\ l = tasks[id] => loops'[l].doomed /\ loops'[l].at = "return"
             /\ l # tasks[id] => /\ loops'[l].doomed = loops[l].doomed
                                 /\ loops'[l].at = ls[l].at
  BY <1>1, AbortEffect, IdleOff DEF Holding
<1>2. \A l \in Loop : l # tasks[id] => loops'[l] = ls[l] BY AbortEffect
<1>3. ASSUME NEW i \in JobId, tasks'[i] # NoLoop
      PROVE  loops'[tasks'[i]].id = i /\ loops'[tasks'[i]].at # "off"
  <2>1. i # id /\ tasks'[i] = tasks[i] /\ tasks[i] # NoLoop
    BY <1>0, <1>3
  <2>2. tasks[i] \in Loop BY <2>1 DEF TypeOK, AdapterTypeOK
  <2>3. loops[tasks[i]].id = i /\ loops[tasks[i]].at # "off"
    BY <2>1 DEF Handles
  <2>4. tasks[i] # tasks[id] BY <2>1, <2>3 DEF Handles
  <2> QED BY <1>2, <2>1, <2>2, <2>3, <2>4
<1>4. ASSUME NEW l \in Loop, loops'[l].doomed PROVE loops'[l].at = "return"
  <2>1. CASE l = tasks[id] BY <1>4, <2>1, AbortEffect, IdleOff
  <2>2. CASE l # tasks[id]
    <3>1. loops[l].doomed /\ loops'[l] = ls[l] BY <1>2, <1>4, <2>2
    <3> QED BY <3>1 DEF Handles
  <2> QED BY <2>1, <2>2
<1>5. ASSUME NEW l \in Loop, loops'[l].at = "run"
      PROVE  run'[l].job = loops'[l].job
  <2>1. l # tasks[id] /\ ls[l].at = "run" BY <1>1, <1>5
  <2> QED BY <1>1, <1>5, <2>1 DEF Handles
<1>6. Handles' BY <1>3, <1>4, <1>5 DEF Handles
<1>7. ASSUME NEW l \in Loop, loops'[l].at # "off", loops'[l].id \notin raced'
      PROVE  /\ ~loops'[l].doomed => boot' = "up" /\ tasks'[loops'[l].id] = l
             /\ loops'[l].at \in Holding =>
                   (jobs'[loops'[l].id] = loops'[l].job <=> ~loops'[l].doomed)
  <2>1. /\ loops[l].at # "off" /\ loops[l].id \notin raced
        /\ loops'[l].id = loops[l].id /\ loops'[l].job = loops[l].job
    BY <1>1, <1>7
  <2>2. CASE loops[l].id = id
    <3>1. loops'[l].doomed
      <4>1. CASE l = tasks[id] BY <1>1, <1>7, <4>1
      <4>2. CASE l # tasks[id]
        BY <1>1, <1>7, <2>1, <2>2, <4>2 DEF Tasks
      <4> QED BY <4>1, <4>2
    <3>2. loops'[l].at \in Holding => loops[l].job # NoJob
      BY <1>1, <1>7 DEF TypeOK, AdapterTypeOK
    <3> QED BY <2>1, <2>2, <3>1, <3>2
  <2>3. CASE loops[l].id # id
    <3>1. l # tasks[id] BY <2>3, AdapterAssumption DEF Handles
    <3>2. loops'[l].doomed = loops[l].doomed BY <1>1, <1>7, <3>1
    <3>3. jobs'[loops[l].id] = jobs[loops[l].id]
          /\ tasks'[loops[l].id] = tasks[loops[l].id]
      BY <1>0, <2>3
    <3> QED BY <1>1, <1>7, <2>1, <3>2, <3>3 DEF Tasks
  <2> QED BY <2>2, <2>3
<1>8. Tasks' BY <1>7 DEF Tasks
<1> QED BY <1>6, <1>8

\* Registrations under way are not disturbed by a step that registers nothing.
LEMMA WindowsKept ==
    ASSUME TypeOK, Windows,
           \A d \in Caller : pc'[d] \in Window =>
               pc'[d] = pc[d] /\ req'[d].id = req[d].id,
           raced \subseteq raced',
           boot = "up" =>
               /\ boot' = "up"
               /\ \A i \in JobId : i \notin raced' =>
                      /\ jobs'[i] \in {jobs[i], NoJob}
                      /\ tasks'[i] \in {tasks[i], NoLoop}
    PROVE  Windows'
<1>1. \A d \in Caller : req[d].id \in JobId BY DEF TypeOK, Request
<1> QED BY <1>1 DEF Windows

LEMMA CallerTasks ==
    ASSUME TypeOK, Linked, RegistryInv, TaskInv, NEW c \in Caller, CallerStep(c)
    PROVE  TaskInv'
<1> USE DEF TaskInv
<1> DEFINE id == req[c].id
<1>0. /\ c \in Actor /\ c \notin Loop /\ id \in JobId
      /\ loops \in [Loop -> Task]
      /\ tasks \in [JobId -> Loop \cup {NoLoop}]
      /\ pc \in [Caller -> PC]
      /\ \A l \in Loop : loops[l].id \in JobId
  BY ManagerAssumption DEF Actor, Request, TypeOK, AdapterTypeOK, Task
<1>1. CASE CheckOwned(c) \/ CancelGuard(c) \/ ReadForUpdate(c) \/ TriggerNow(c)
  <2>1. /\ UNCHANGED <<jobs, tasks, loops, boot, raced>>
        /\ \A l \in Loop : run'[l] = run[l]
    BY <1>0, <1>1 DEF CheckOwned, CancelGuard, ReadForUpdate, TriggerNow, Begin,
       adapterVars, history, Actor, TypeOK
  <2>2. \A d \in Caller : pc'[d] \in Window =>
            pc'[d] = pc[d] /\ req'[d].id = req[d].id
    <3>1. \A d \in Caller : req'[d].id = req[d].id
      BY <1>1 DEF CheckOwned, CancelGuard, ReadForUpdate, TriggerNow, TypeOK,
         Request
    <3>2. /\ pc'[c] \notin Window
          /\ \A d \in Caller : d # c => pc'[d] = pc[d]
      BY <1>0, <1>1 DEF CheckOwned, CancelGuard, ReadForUpdate, TriggerNow, Goto,
         Window
    <3> QED BY <3>1, <3>2
  <2>3. Windows' BY <2>1, <2>2, WindowsKept
  <2> QED BY <2>1, <2>3 DEF Handles, Tasks
<1>2. CASE DoCancel(c)
  <2>1. /\ cancel(id, loops) /\ Die(Killed(id))
        /\ UNCHANGED <<req, boot, raced>>
    BY <1>2 DEF DoCancel, cancel
  <2>2. /\ loops' = Aborted(id, loops)
        /\ tasks' = [tasks EXCEPT ![id] = NoLoop]
        /\ \A i \in JobId : jobs'[i] = IF i = id THEN NoJob ELSE jobs[i]
    BY <1>0, <2>1 DEF cancel, TypeOK, AdapterTypeOK, Registry
  <2>3. \A l \in Loop : loops'[l].at = "run" => run'[l] = run[l]
    BY <1>0, <2>1, <2>2, AbortEffect, IdleOff DEF Die, Killed, Actor
  <2>4. Handles' /\ Tasks' BY <1>0, <2>1, <2>2, <2>3, ClearTasks
  <2>5. \A d \in Caller : pc'[d] \in Window => pc'[d] = pc[d]
    BY <1>0, <1>2 DEF DoCancel, Goto, Window
  <2>6. Windows' BY <1>0, <2>1, <2>2, <2>5, WindowsKept
  <2> QED BY <2>4, <2>6
<1>3. CASE Check(c)
  <2>1. /\ UNCHANGED <<adapterVars, run>> /\ raced \subseteq raced'
        /\ \A d \in Caller : req'[d].id = req[d].id
    BY <1>3, CheckRequest DEF Check
  <2>2. CASE pc'[c] # "abort"
    <3>1. \A d \in Caller : pc'[d] \in Window => pc'[d] = pc[d]
      BY <1>0, <1>3, <2>2 DEF Check, Goto, Window
    <3>2. Windows' BY <2>1, <3>1, WindowsKept DEF adapterVars
    <3> QED BY <2>1, <3>2 DEF Handles, Tasks, adapterVars
  <2>3. CASE pc'[c] = "abort"
    <3>1. /\ jobs[id] = NoJob /\ \A d \in Caller : d # c => pc'[d] = pc[d]
      BY <1>0, <1>3, <2>3 DEF Check, Goto
    <3>2. id \notin raced' => /\ boot = "up" /\ Registering(id) = {}
      BY <1>3, <3>1, <2>3, <1>0 DEF Check, Goto
    <3>3. ASSUME NEW d \in Caller, pc'[d] \in Window, req'[d].id \notin raced'
          PROVE  /\ boot' = "up"
                 /\ \A e \in Caller :
                        pc'[e] \in Window /\ req'[e].id = req'[d].id => e = d
                 /\ pc'[d] # "spawn" => jobs'[req'[d].id] = NoJob
                 /\ pc'[d] # "abort" => tasks'[req'[d].id] = NoLoop
      <4>1. CASE d = c
        BY <2>1, <2>3, <3>1, <3>2, <3>3, <4>1
        DEF Registering, Window, adapterVars
      <4>2. CASE d # c
        <5>1. pc[d] \in Window /\ pc'[d] = pc[d] /\ req[d].id \notin raced
          BY <2>1, <3>1, <3>3, <4>2
        <5>2. req[d].id # id
          BY <2>1, <3>2, <3>3, <5>1 DEF Registering, Window
        <5> QED BY <2>1, <3>1, <3>3, <5>1, <5>2 DEF Windows, adapterVars
      <4> QED BY <4>1, <4>2
    <3>4. Windows' BY <3>3 DEF Windows
    <3> QED BY <2>1, <3>4 DEF Handles, Tasks, adapterVars
  <2> QED BY <2>2, <2>3
<1>4. CASE Abort(c)
  <2>1. /\ AbortOld(id) /\ Die(Killed(id)) /\ UNCHANGED <<req, raced>>
        /\ pc[c] = "abort" /\ pc'[c] = "insert"
        /\ \A d \in Caller : d # c => pc'[d] = pc[d]
    BY <1>0, <1>4 DEF Abort, Goto
  <2>2. /\ loops' = Aborted(id, loops)
        /\ tasks' = [tasks EXCEPT ![id] = NoLoop]
        /\ UNCHANGED <<jobs, boot>>
    BY <2>1 DEF AbortOld
  <2>3. jobs[id] = NoJob \/ id \in raced
    BY <2>1 DEF Windows, Window
  <2>4. \A l \in Loop : loops'[l].at = "run" => run'[l] = run[l]
    BY <1>0, <2>1, <2>2, AbortEffect, IdleOff DEF Die, Killed, Actor
  <2>5. Handles' /\ Tasks'
    BY <1>0, <2>1, <2>2, <2>3, <2>4, ClearTasks
  <2>6. Windows'
    BY <1>0, <2>1, <2>2 DEF Windows, Window, TypeOK, Request
  <2> QED BY <2>5, <2>6
<1>5. CASE Insert(c)
  <2> DEFINE new == [id |-> id, gen |-> gens, opts |-> req[c].opts]
  <2>1. /\ UNCHANGED <<tasks, loops, boot, req, run, raced>>
        /\ \A i \in JobId : jobs'[i] = IF i = id THEN new ELSE jobs[i]
        /\ pc[c] = "insert" /\ pc'[c] = "spawn"
        /\ \A d \in Caller : d # c => pc'[d] = pc[d]
    BY <1>0, <1>5
    DEF Insert, insert, Goto, history, TypeOK, AdapterTypeOK, Registry
  <2>2. id \notin raced => tasks[id] = NoLoop
    BY <2>1 DEF Windows, Window
  <2>3. \A l \in Loop : loops[l].at \in Holding => loops[l].job # new
    <3>1. gens \in Nat BY DEF TypeOK, AdapterTypeOK
    <3> QED BY <3>1 DEF RegistryInv, Named
  <2>4. \A l \in Loop : loops[l].at # "off" /\ loops[l].id = id /\ id \notin raced
            => loops[l].doomed
    BY <2>2, AdapterAssumption DEF Tasks
  <2>5. Tasks' BY <1>0, <2>1, <2>3, <2>4 DEF Tasks
  <2>6. Windows' BY <1>0, <2>1 DEF Windows, Window, TypeOK, Request
  <2>7. Handles' BY <2>1 DEF Handles
  <2> QED BY <2>5, <2>6, <2>7
<1>6. CASE Spawn(c)
  <2>1. PICK m \in Loop :
           /\ loops[m].at = "off"
           /\ loops' = [loops EXCEPT ![m] = [Idle EXCEPT !.at = "top",
                                                         !.id = id]]
           /\ tasks' = [tasks EXCEPT ![id] = m]
    BY <1>6 DEF Spawn, spawn_task
  <2>2. /\ loops'[m].at = "top" /\ loops'[m].id = id /\ ~loops'[m].doomed
        /\ \A l \in Loop : l # m => loops'[l] = loops[l]
        /\ \A i \in JobId : tasks'[i] = IF i = id THEN m ELSE tasks[i]
    BY <1>0, <2>1 DEF Idle
  <2>3. /\ UNCHANGED <<jobs, boot, req, run, raced>>
        /\ pc[c] = "spawn" /\ pc'[c] = "idle"
        /\ \A d \in Caller : d # c => pc'[d] = pc[d]
    BY <1>0, <1>6 DEF Spawn, spawn_task, Goto, history
  <2>4. id \notin raced => /\ boot = "up" /\ tasks[id] = NoLoop
                           /\ Registering(id) = {c}
    BY <2>3 DEF Windows, Window, Registering
  <2>5. Handles' BY <1>0, <2>1, <2>2, <2>3 DEF Handles
  <2>6. Windows'
    BY <1>0, <2>2, <2>3, <2>4 DEF Windows, Window, TypeOK, Request
  <2>7. ASSUME NEW l \in Loop, l # m, loops[l].at # "off",
               loops[l].id \notin raced
        PROVE  ~loops[l].doomed => loops[l].id # id
    BY <2>4, <2>7, AdapterAssumption DEF Tasks
  <2>8. Tasks' BY <1>0, <2>2, <2>3, <2>4, <2>7 DEF Tasks, Holding
  <2> QED BY <2>5, <2>6, <2>8
<1> QED BY <1>1, <1>2, <1>3, <1>4, <1>5, <1>6 DEF CallerStep

LEMMA RunTasks ==
    ASSUME TypeOK, Linked, RegistryInv, TaskInv, NEW a \in Actor, RunStep(a)
    PROVE  TaskInv'
<1> USE DEF TaskInv
<1>0. /\ run[a].phase # "none" /\ run[a].job \in Job
      /\ a \in Loop => loops[a].at = "run"
      /\ loops \in [Loop -> Task] /\ pc \in [Caller -> PC]
      /\ Back(a) \in [Loop -> Task]
      /\ \A l \in Loop : loops[l].id \in JobId
  <2>1. run[a].phase # "none"
    BY DEF RunStep, GateMet, GateSkip, Retry, GiveUp, Succeed, Retire
  <2>2. a \in Loop => loops[a].at = "run" BY <2>1 DEF Linked
  <2> QED BY <2>1, <2>2, BackType DEF TypeOK, Run, AdapterTypeOK, Task
<1>00. \A l \in Loop :
           /\ Back(a)[l].id = loops[l].id /\ Back(a)[l].job = loops[l].job
           /\ Back(a)[l].doomed = loops[l].doomed
           /\ l # a => Back(a)[l] = loops[l]
           /\ l = a => loops[l].at = "run" /\ Back(a)[l].at = "return"
  BY <1>0 DEF Back, Task
<1>1. CASE GateMet(a) \/ Retry(a)
  <2>1. UNCHANGED <<adapterVars, pc, req, raced>>
    BY <1>1 DEF GateMet, Retry, history
  <2>2. \A l \in Loop : run'[l].job = run[l].job
    BY <1>1 DEF GateMet, Retry, TypeOK, Run, Actor
  <2> QED BY <2>1, <2>2 DEF adapterVars, Handles, Windows, Tasks
<1>2. CASE GateSkip(a) \/ GiveUp(a) \/ Succeed(a)
  <2>1. /\ EndRun(a) /\ KeepRegistry /\ UNCHANGED <<req, raced>>
    BY <1>2 DEF GateSkip, GiveUp, Succeed, history
  <2>2. /\ loops' = Back(a)
        /\ \A b \in Actor : b # a => run'[b] = run[b]
        /\ \A d \in Caller : pc'[d] \in Window => pc'[d] = pc[d]
    BY <1>0, <2>1 DEF EndRun, TypeOK, Window
  <2>3. Windows' BY <2>1, <2>2, WindowsKept DEF KeepRegistry
  <2>4. ASSUME NEW i \in JobId, tasks'[i] # NoLoop
        PROVE  loops'[tasks'[i]].id = i /\ loops'[tasks'[i]].at # "off"
    <3>1. tasks[i] \in Loop /\ tasks'[i] = tasks[i]
      BY <2>1, <2>4 DEF KeepRegistry, TypeOK, AdapterTypeOK
    <3> QED BY <1>00, <2>2, <2>4, <3>1 DEF Handles
  <2>5. ASSUME NEW l \in Loop
        PROVE  /\ loops'[l].doomed => loops'[l].at = "return"
               /\ loops'[l].at = "run" => run'[l].job = loops'[l].job
    BY <1>00, <2>2 DEF Handles, Actor
  <2>6. Handles' BY <2>4, <2>5 DEF Handles
  <2>7. ASSUME NEW l \in Loop
        PROVE  /\ loops'[l].at # "off" => loops[l].at # "off"
               /\ loops'[l].at \in Holding => loops[l].at \in Holding
    BY <1>00, <2>2 DEF Holding
  <2>8. Tasks' BY <1>00, <2>1, <2>2, <2>7 DEF KeepRegistry, Tasks
  <2> QED BY <2>3, <2>6, <2>8
<1>3. CASE Retire(a)
  <2> DEFINE id == run[a].job.id
  <2>1. /\ id \in JobId /\ cancel(id, Back(a)) /\ UNCHANGED <<req, boot, raced>>
    BY <1>0, <1>3 DEF Retire, cancel, Job
  <2>2. /\ loops' = Aborted(id, Back(a))
        /\ tasks' = [tasks EXCEPT ![id] = NoLoop]
        /\ \A i \in JobId : jobs'[i] = IF i = id THEN NoJob ELSE jobs[i]
    BY <2>1 DEF cancel, TypeOK, AdapterTypeOK, Registry
  <2>3. ASSUME NEW l \in Loop, loops'[l].at = "run" PROVE run'[l] = run[l]
    <3>1. l # tasks[id] /\ loops'[l] = Back(a)[l]
      BY <1>0, <2>1, <2>2, <2>3, AbortEffect, IdleOff
    <3>2. l # a /\ l \notin Killed(id)
      BY <1>00, <2>3, <3>1 DEF Killed
    <3> QED BY <1>3, <3>2 DEF Retire, Actor
  <2>4. Handles' /\ Tasks'
    BY <1>0, <1>00, <2>1, <2>2, <2>3, ClearTasks
  <2>5. \A d \in Caller : pc'[d] \in Window => pc'[d] = pc[d]
    BY <1>0, <1>3 DEF Retire, Window
  <2>6. Windows'
    BY <2>1, <2>2, <2>5, WindowsKept DEF TypeOK, AdapterTypeOK
  <2> QED BY <2>4, <2>6
<1> QED BY <1>1, <1>2, <1>3 DEF RunStep

LEMMA ReturnTasks ==
    ASSUME TypeOK, Linked, RegistryInv, TaskInv, NEW l \in Loop, ReturnJob(l)
    PROVE  TaskInv'
<1> USE DEF TaskInv
<1> DEFINE id == loops[l].id
<1>0. /\ loops[l].at = "return" /\ id \in JobId /\ l # NoLoop
      /\ loops \in [Loop -> Task]
      /\ tasks \in [JobId -> Loop \cup {NoLoop}]
      /\ Return(l) /\ UNCHANGED <<boot, run, pc, req>>
      /\ raced \subseteq raced'
  BY AdapterAssumption DEF ReturnJob, Return, TypeOK, AdapterTypeOK, Task
<1>1. \A m \in Loop : m # l => loops'[m] = loops[m]
  BY <1>0 DEF Return
<1>2. \/ /\ loops'[l].at = "off" /\ ~loops'[l].doomed
         /\ \A i \in JobId : tasks'[i] = IF tasks[i] = l THEN NoLoop ELSE tasks[i]
      \/ /\ loops'[l].at = "top" /\ loops'[l].id = id /\ ~loops[l].doomed
         /\ ~loops'[l].doomed /\ UNCHANGED <<tasks, jobs>>
  BY <1>0, IdleOff DEF Return, Detached, Task
<1>3. \A i \in JobId : i # id => jobs'[i] = jobs[i]
  BY <1>0 DEF Return, TypeOK, AdapterTypeOK, Registry
<1>4. \/ jobs' = jobs
      \/ /\ jobs'[id] = NoJob /\ loops'[l].at = "off"
         /\ id \in raced' \/ jobs[id] = loops[l].job
  BY <1>0, IdleOff DEF Return, ReturnJob, TypeOK, AdapterTypeOK, Registry
<1>5. \A i \in JobId : tasks[i] = l => i = id BY <1>0 DEF Handles
<1>6. Windows'
  <2>1. \A i \in JobId : /\ jobs'[i] \in {jobs[i], NoJob}
                         /\ tasks'[i] \in {tasks[i], NoLoop}
    BY <1>2, <1>3, <1>4
  <2> QED BY <1>0, <2>1, WindowsKept
<1>7. ASSUME NEW i \in JobId, tasks'[i] # NoLoop
      PROVE  loops'[tasks'[i]].id = i /\ loops'[tasks'[i]].at # "off"
  <2>1. tasks'[i] = tasks[i] /\ tasks[i] \in Loop BY <1>0, <1>2, <1>7
  <2>2. loops[tasks[i]].id = i /\ loops[tasks[i]].at # "off"
    BY <2>1, <1>7 DEF Handles
  <2>3. CASE tasks[i] = l BY <1>0, <1>2, <1>5, <1>7, <2>1, <2>3
  <2>4. CASE tasks[i] # l BY <1>1, <2>1, <2>2, <2>4
  <2> QED BY <2>3, <2>4
<1>8. ASSUME NEW m \in Loop
      PROVE  /\ loops'[m].doomed => loops'[m].at = "return"
             /\ loops'[m].at = "run" => run'[m].job = loops'[m].job
  BY <1>0, <1>1, <1>2 DEF Handles
<1>9. Handles' BY <1>7, <1>8 DEF Handles
<1>10. ASSUME NEW m \in Loop, loops'[m].at # "off", loops'[m].id \notin raced'
       PROVE  /\ ~loops'[m].doomed =>
                     boot' = "up" /\ tasks'[loops'[m].id] = m
              /\ loops'[m].at \in Holding =>
                  (jobs'[loops'[m].id] = loops'[m].job <=> ~loops'[m].doomed)
  <2>1. CASE m = l
    BY <1>0, <1>2, <1>10, <2>1 DEF Tasks, Holding
  <2>2. CASE m # l
    <3>1. /\ loops'[m] = loops[m] /\ loops[m].id \in JobId
          /\ loops[m].id \notin raced
      BY <1>0, <1>1, <1>10, <2>2 DEF Task
    <3>2. tasks[loops[m].id] = m => tasks'[loops[m].id] = m
      BY <1>2, <2>2, <3>1
    <3>3. CASE jobs' = jobs BY <1>0, <1>10, <3>1, <3>2, <3>3 DEF Tasks
    <3>4. CASE loops[m].id # id
      BY <1>0, <1>3, <1>10, <3>1, <3>2, <3>4 DEF Tasks
    <3>5. CASE loops[m].id = id /\ jobs' # jobs
      <4>1. jobs[id] = loops[l].job /\ jobs'[id] = NoJob /\ id \notin raced
        BY <1>4, <1>10, <3>1, <3>5
      <4>2. tasks[id] = l BY <1>0, <4>1 DEF Tasks, Holding
      <4>3. loops[m].doomed BY <1>10, <2>2, <3>1, <3>5, <4>1, <4>2 DEF Tasks
      <4>4. loops[m].at \in Holding => loops[m].job # NoJob
        BY DEF TypeOK, AdapterTypeOK
      <4> QED BY <3>1, <3>5, <4>1, <4>3, <4>4
    <3> QED BY <3>3, <3>4, <3>5
  <2> QED BY <2>1, <2>2
<1>11. Tasks' BY <1>10 DEF Tasks
<1> QED BY <1>6, <1>9, <1>11

\* What restore() spawns.
LEMMA RestoreSpawnEffect ==
    ASSUME TypeOK, RestoreSpawn
    PROVE  /\ \A l \in Loop : \/ loops'[l] = loops[l]
                              \/ /\ loops[l].at = "off" /\ loops'[l].at = "top"
                                 /\ ~loops'[l].doomed
                                 /\ loops'[l].id \in JobId
                                 /\ tasks'[loops'[l].id] = l
           /\ \A i \in JobId : \/ tasks'[i] = tasks[i]
                               \/ /\ tasks'[i] \in Loop
                                  /\ loops'[tasks'[i]].id = i
                                  /\ loops'[tasks'[i]].at = "top"
<1>1. PICK t \in [revive -> {l \in Loop : loops[l].at = "off"}] :
           /\ \A i, k \in revive : t[i] = t[k] => i = k
           /\ loops' = [l \in Loop |->
                  IF \E i \in revive : t[i] = l
                  THEN [Idle EXCEPT !.at = "top",
                        !.id = CHOOSE i \in revive : t[i] = l]
                  ELSE loops[l]]
           /\ tasks' = [i \in JobId |-> IF i \in revive THEN t[i]
                                        ELSE tasks[i]]
  BY DEF RestoreSpawn
<1>2. revive \subseteq JobId /\ \A i \in revive : t[i] \in Loop
  BY <1>1 DEF TypeOK, AdapterTypeOK
<1>3. ASSUME NEW i \in revive
      PROVE  /\ loops[t[i]].at = "off"
             /\ loops'[t[i]].at = "top" /\ loops'[t[i]].id = i
             /\ ~loops'[t[i]].doomed
  <2>1. (CHOOSE k \in revive : t[k] = t[i]) = i BY <1>1
  <2> QED BY <1>1, <1>2, <2>1 DEF Idle
<1>4. ASSUME NEW l \in Loop, ~\E i \in revive : t[i] = l
      PROVE  loops'[l] = loops[l]
  BY <1>1, <1>4
<1>5. \A i \in JobId : tasks'[i] = IF i \in revive THEN t[i] ELSE tasks[i]
  BY <1>1
<1> QED BY <1>2, <1>3, <1>4, <1>5

LEMMA BootTasks ==
    ASSUME TypeOK, Linked, RegistryInv, TaskInv, BootStep
    PROVE  TaskInv'
<1> USE DEF TaskInv
<1>0. UNCHANGED <<pc, req, run, raced>> /\ boot # "up" BY BootEffect
<1>1. Windows' BY <1>0, WindowsKept
<1>2. CASE Load
  <2>1. UNCHANGED <<tasks, loops>> /\ \A l \in Loop : loops[l].at = "off"
    BY <1>2 DEF Load, RegistryInv, Stored
  <2> QED BY <1>0, <1>1, <2>1 DEF Handles, Tasks
<1>3. CASE RestoreFilter
  BY <1>0, <1>1, <1>3 DEF RestoreFilter, Handles, Tasks
<1>4. CASE RestoreRemove
  <2>1. /\ UNCHANGED <<tasks, loops>>
        /\ \A i \in JobId : jobs'[i] \in {jobs[i], NoJob}
    BY <1>4 DEF RestoreRemove
  <2>2. \A l \in Loop : /\ loops[l].id \in JobId
                        /\ loops[l].at \in Holding => loops[l].job # NoJob
    BY DEF TypeOK, AdapterTypeOK, Task
  <2> QED BY <1>0, <1>1, <2>1, <2>2 DEF Handles, Tasks
<1>5. CASE RestoreSpawn
  <2>1. boot' = "up" /\ jobs' = jobs BY <1>5 DEF RestoreSpawn
  <2>2. /\ \A l \in Loop : \/ loops'[l] = loops[l]
                           \/ /\ loops[l].at = "off" /\ loops'[l].at = "top"
                              /\ ~loops'[l].doomed
                              /\ loops'[l].id \in JobId
                              /\ tasks'[loops'[l].id] = l
        /\ \A i \in JobId : \/ tasks'[i] = tasks[i]
                            \/ /\ tasks'[i] \in Loop
                               /\ loops'[tasks'[i]].id = i
                               /\ loops'[tasks'[i]].at = "top"
    BY <1>5, RestoreSpawnEffect
  <2>3. ASSUME NEW i \in JobId, tasks'[i] # NoLoop
        PROVE  loops'[tasks'[i]].id = i /\ loops'[tasks'[i]].at # "off"
    <3>1. CASE tasks'[i] = tasks[i]
      <4>1. /\ tasks[i] \in Loop /\ loops[tasks[i]].id = i
            /\ loops[tasks[i]].at # "off"
        BY <2>3, <3>1 DEF Handles, TypeOK, AdapterTypeOK
      <4> QED BY <2>2, <3>1, <4>1
    <3> QED BY <2>2, <3>1
  <2>4. Handles' BY <1>0, <2>2, <2>3 DEF Handles
  <2>5. Tasks' BY <1>0, <2>1, <2>2 DEF Tasks, Holding
  <2> QED BY <1>1, <2>4, <2>5
<1> QED BY <1>2, <1>3, <1>4, <1>5, BootEffect

LEMMA NextTasks ==
    ASSUME TypeOK, Linked, RegistryInv, TaskInv, [Next]_vars
    PROVE  TaskInv'
<1> USE DEF TaskInv
<1>1. ASSUME NEW c \in Caller, NEW r \in Requests, Call(c, r) PROVE TaskInv'
  <2>1. /\ UNCHANGED <<adapterVars, run, raced>>
        /\ pc[c] = "idle" /\ pc'[c] \notin Window
        /\ \A d \in Caller : d # c => pc'[d] = pc[d] /\ req'[d] = req[d]
    BY <1>1 DEF Call, Goto, Entry, Window, TypeOK
  <2>2. Windows' BY <2>1, WindowsKept DEF adapterVars
  <2> QED BY <2>1, <2>2 DEF adapterVars, Handles, Tasks
<1>2. ASSUME NEW c \in Caller, Disconnect(c) PROVE TaskInv'
  <2>1. /\ UNCHANGED <<adapterVars, req, raced>>
        /\ pc'[c] = "idle" /\ \A d \in Caller : d # c => pc'[d] = pc[d]
        /\ \A l \in Loop : run'[l] = run[l]
    BY <1>2, ManagerAssumption DEF Disconnect, history, Goto, TypeOK, Actor
  <2>2. Windows' BY <2>1, WindowsKept DEF adapterVars, Window
  <2> QED BY <2>1, <2>2 DEF adapterVars, Handles, Tasks
<1>3. ASSUME NEW l \in Loop, ArmJob(l) PROVE TaskInv'
  <2> DEFINE id == loops[l].id
  <2>1. /\ loops[l].at = "top" /\ id \in JobId /\ l # NoLoop
        /\ loops \in [Loop -> Task]
        /\ tasks \in [JobId -> Loop \cup {NoLoop}]
        /\ UNCHANGED <<jobs, boot, pc, req, run, raced>>
        /\ ~loops[l].doomed
    BY <1>3, AdapterAssumption
    DEF ArmJob, Arm, history, TypeOK, AdapterTypeOK, Task, Handles
  <2>2. \/ /\ loops' = [loops EXCEPT ![l] = Idle]
           /\ \A i \in JobId : tasks'[i] = IF tasks[i] = l THEN NoLoop
                                           ELSE tasks[i]
        \/ /\ loops' = [loops EXCEPT ![l] =
                           [@ EXCEPT !.at = "sleep", !.job = jobs[id],
                                     !.due = NextFire(jobs[id].opts)]]
           /\ tasks' = tasks
    BY <1>3 DEF ArmJob, Arm, Detached
  <2>3. /\ \A m \in Loop : m # l => loops'[m] = loops[m]
        /\ \/ /\ loops'[l].at = "off" /\ ~loops'[l].doomed
              /\ \A i \in JobId : tasks'[i] = IF tasks[i] = l THEN NoLoop
                                              ELSE tasks[i]
           \/ /\ loops'[l].at = "sleep" /\ loops'[l].id = id
              /\ loops'[l].job = jobs[id] /\ ~loops'[l].doomed
              /\ tasks' = tasks
    <3>1. CASE /\ loops' = [loops EXCEPT ![l] = Idle]
               /\ \A i \in JobId : tasks'[i] = IF tasks[i] = l THEN NoLoop
                                               ELSE tasks[i]
      BY <1>3, <2>1, <3>1, IdleOff
    <3>2. CASE /\ loops' = [loops EXCEPT ![l] =
                     [@ EXCEPT !.at = "sleep", !.job = jobs[id],
                               !.due = NextFire(jobs[id].opts)]]
               /\ tasks' = tasks
      <4>1. /\ loops'[l] = [loops[l] EXCEPT !.at = "sleep", !.job = jobs[id],
                                 !.due = NextFire(jobs[id].opts)]
            /\ \A m \in Loop : m # l => loops'[m] = loops[m]
        BY <1>3, <2>1, <3>2
      <4>2. loops[l] \in Task BY <1>3, <2>1
      <4> QED BY <2>1, <3>2, <4>1, <4>2 DEF Task
    <3> QED BY <2>2, <3>1, <3>2
  <2>4. \A i \in JobId : tasks[i] = l => i = id BY <2>1 DEF Handles
  <2>5. Windows'
    <3>1. \A i \in JobId : tasks'[i] \in {tasks[i], NoLoop} BY <2>3
    <3> QED BY <2>1, <3>1, WindowsKept
  <2>6. Handles' BY <2>1, <2>3, <2>4 DEF Handles
  <2>7. ASSUME NEW m \in Loop, loops'[m].at # "off", loops'[m].id \notin raced'
        PROVE  /\ ~loops'[m].doomed =>
                      boot' = "up" /\ tasks'[loops'[m].id] = m
               /\ loops'[m].at \in Holding =>
                   (jobs'[loops'[m].id] = loops'[m].job <=> ~loops'[m].doomed)
    <3>1. CASE m = l BY <2>1, <2>3, <2>7, <3>1 DEF Tasks
    <3>2. CASE m # l
      <4>1. loops'[m] = loops[m] /\ loops[m].id \in JobId
        BY <2>1, <2>3, <3>2 DEF Task
      <4>2. tasks[loops[m].id] = m => tasks'[loops[m].id] = m
        BY <2>3, <3>2, <4>1
      <4> QED BY <2>1, <2>7, <4>1, <4>2 DEF Tasks
    <3> QED BY <3>1, <3>2
  <2>8. Tasks' BY <2>7 DEF Tasks
  <2> QED BY <2>5, <2>6, <2>8
<1>4. ASSUME NEW l \in Loop, FireJob(l) PROVE TaskInv'
  <2>1. /\ loops[l].at = "sleep" /\ loops \in [Loop -> Task]
        /\ UNCHANGED <<jobs, tasks, boot, pc, req, raced>>
    BY <1>4 DEF FireJob, Fire, TypeOK, AdapterTypeOK
  <2>2. /\ \A m \in Loop : m # l => loops'[m] = loops[m]
        /\ loops'[l].at = "run" /\ loops'[l].id = loops[l].id
        /\ loops'[l].job = loops[l].job /\ loops'[l].doomed = loops[l].doomed
    <3>1. loops' = [loops EXCEPT ![l].at = "run"] BY <1>4 DEF FireJob, Fire
    <3> QED BY <1>4, <2>1, <3>1 DEF Task
  <2>3. /\ run'[l].job = loops[l].job
        /\ \A m \in Loop : m # l => run'[m] = run[m]
    <3>1. Begin(l, loops[l].job) /\ l \in Actor BY <1>4 DEF FireJob, Actor
    <3>2. DOMAIN run = Actor BY DEF TypeOK
    <3> QED BY <3>1, <3>2 DEF Begin, TypeOK, Actor
  <2>4. Windows' BY <2>1, WindowsKept
  <2>5. tasks \in [JobId -> Loop \cup {NoLoop}] BY DEF TypeOK, AdapterTypeOK
  <2>6. Handles' BY <2>1, <2>2, <2>3, <2>5 DEF Handles
  <2>7. Tasks' BY <2>1, <2>2 DEF Tasks, Holding
  <2> QED BY <2>4, <2>6, <2>7
<1>5. ASSUME NEW l \in Loop, ReturnJob(l) PROVE TaskInv'
  BY <1>5, ReturnTasks
<1>6. CASE BootStep BY <1>6, BootTasks
<1>7. CASE FinishFlush \/ Time
  BY <1>7 DEF FinishFlush, EndFlush, Time, Tick, history, Handles, Windows, Tasks
<1>8. CASE Crash
  <2>1. /\ \A l \in Loop : loops'[l].at = "off" /\ ~loops'[l].doomed
        /\ \A i \in JobId : tasks'[i] = NoLoop
        /\ \A c \in Caller : pc'[c] = "idle"
    BY <1>8 DEF Crash, CrashAdapter, Idle
  <2> QED BY <2>1 DEF Handles, Windows, Tasks, Window
<1>9. CASE UNCHANGED vars
  BY <1>9 DEF vars, history, adapterVars, Handles, Windows, Tasks
<1>10. ASSUME NEW z \in Zone, Move(z) PROVE TaskInv'
  BY <1>10, MoveEffect DEF Handles, Windows, Tasks
<1> QED BY <1>1, <1>2, <1>3, <1>4, <1>5, <1>6, <1>7, <1>8, <1>9, <1>10, CallerTasks,
        RunTasks DEF Next

\* The inductive invariant of the tasks: a live task is the one under its
\* name's handle unless a registration of that name is between its steps or
\* two registrations of it have overlapped.
THEOREM TaskInvariant == Spec => [](TypeOK /\ Linked /\ RegistryInv /\ TaskInv)
<1>1. Init => TypeOK /\ Linked /\ RegistryInv /\ TaskInv
  BY InitTypes, InitRegistry, InitTasks
<1>2. (TypeOK /\ Linked /\ RegistryInv /\ TaskInv) /\ [Next]_vars
        => (TypeOK /\ Linked /\ RegistryInv /\ TaskInv)'
  BY NextTypes, NextRegistry, NextTasks
<1> QED BY <1>1, <1>2, PTL DEF Spec

\* A name whose registrations never overlapped has at most one live task.
THEOREM OneTaskPerJobAlways == Spec => []OneTaskPerJob
<1>1. TaskInv => OneTaskPerJob BY DEF TaskInv, Tasks, OneTaskPerJob, Live
<1> QED BY <1>1, TaskInvariant, PTL

\* What a task goes on to run is registered at that moment.
THEOREM FiresRegisteredAlways == Spec => FiresRegistered
<1>1. ASSUME TypeOK, Linked, RegistryInv, TaskInv, [Next]_vars,
             NEW l \in Loop, loops[l].at = "sleep", loops'[l].at = "run",
             loops[l].id \notin raced
      PROVE  jobs[loops[l].id] = loops[l].job
  <2>1. ~loops[l].doomed BY <1>1 DEF TaskInv, Handles
  <2> QED BY <1>1, <2>1 DEF TaskInv, Tasks, Holding
<1>2. (TypeOK /\ Linked /\ RegistryInv /\ TaskInv) /\ [Next]_vars
        => [\A l \in Loop : loops[l].at = "sleep" /\ loops'[l].at = "run"
               /\ loops[l].id \notin raced => jobs[loops[l].id] = loops[l].job]_vars
  BY <1>1
<1> QED BY <1>2, TaskInvariant, PTL DEF Spec, FiresRegistered

-----------------------------------------------------------------------------
(***************************************************************************)
(* A one-time job is run once.                                             *)
(***************************************************************************)
LEMMA InitFired == Init => FiredInv /\ OnceFiresOnce
BY DEF Init, FiredInv, OnceFiresOnce, Idle

\* Only setting the zone, and restore() in another, read a time anew.
LEMMA ZoneKept ==
    /\ \A c \in Caller : CallerStep(c) \/ Disconnect(c) => UNCHANGED <<timezone, retimed>>
    /\ \A c \in Caller, r \in Requests : Call(c, r) => UNCHANGED <<timezone, retimed>>
    /\ \A a \in Actor : RunStep(a) => UNCHANGED <<timezone, retimed>>
    /\ \A l \in Loop : ArmJob(l) \/ FireJob(l) \/ ReturnJob(l)
                           => UNCHANGED <<timezone, retimed>>
    /\ FinishFlush \/ Time \/ Crash => UNCHANGED <<timezone, retimed>>
<1> USE DEF adapterVars, history
<1>1. ASSUME NEW c \in Caller, CallerStep(c) PROVE UNCHANGED <<timezone, retimed>>
  BY <1>1 DEF CallerStep, CheckOwned, CancelGuard, ReadForUpdate, DoCancel, cancel,
     Check, Abort, AbortOld, Insert, insert, Spawn, spawn_task, TriggerNow
<1>2. ASSUME NEW c \in Caller, Disconnect(c) \/ \E r \in Requests : Call(c, r)
      PROVE  UNCHANGED <<timezone, retimed>>
  BY <1>2 DEF Disconnect, Call
<1>3. ASSUME NEW a \in Actor, RunStep(a) PROVE UNCHANGED <<timezone, retimed>>
  BY <1>3 DEF RunStep, GateMet, GateSkip, Retry, GiveUp, Succeed, Retire, cancel,
     KeepRegistry
<1>4. ASSUME NEW l \in Loop, ArmJob(l) \/ FireJob(l) \/ ReturnJob(l)
      PROVE  UNCHANGED <<timezone, retimed>>
  BY <1>4 DEF ArmJob, Arm, FireJob, Fire, ReturnJob, Return
<1>5. ASSUME FinishFlush \/ Time \/ Crash PROVE UNCHANGED <<timezone, retimed>>
  BY <1>5 DEF FinishFlush, EndFlush, Time, Tick, Crash, CrashAdapter
<1> QED BY <1>1, <1>2, <1>3, <1>4, <1>5

\* A step that runs nothing and puts nothing to sleep, and lets a run of a
\* registered job go on.
LEMMA FiredKept ==
    ASSUME TypeOK, FiredInv, UNCHANGED <<fired, boot, drop, timezone>>,
           now' \in Nat, now' >= now, raced \subseteq raced', retimed \subseteq retimed',
           \A l \in Loop : loops'[l].at = "sleep" => loops'[l] = loops[l],
           \A j \in fired : j.id \notin raced' /\ jobs'[j.id] = j =>
               /\ jobs[j.id] = j
               /\ \A l \in Loop :
                      /\ loops[l].at \in {"run", "return"} /\ loops[l].job = j
                      /\ ~loops[l].doomed
                      => /\ loops'[l].at \in {"run", "return"}
                         /\ loops'[l].job = j /\ ~loops'[l].doomed
    PROVE  FiredInv'
<1>1. /\ now \in Nat /\ fired \subseteq Job /\ timezone \in Zone
      /\ \A j \in Job : j.opts \in Options
  BY DEF TypeOK, AdapterTypeOK, Job
<1>2. ASSUME NEW j \in fired, j.opts.mode = "once"
      PROVE  j.opts.valid /\ (Shifted(j)' \/ Due(j.opts)' <= now')
  <2>1. Due(j.opts) \in Nat /\ Due(j.opts)' = Due(j.opts)
    BY <1>1, ReadingType DEF Due, ZoneOf
  <2>2. Shifted(j) => Shifted(j)' BY DEF Shifted
  <2> QED BY <1>1, <1>2, <2>1, <2>2 DEF FiredInv
<1>3. ASSUME NEW j \in fired, j.id \notin raced', j \notin retimed', jobs'[j.id] = j
      PROVE  \/ boot' = "filter"
             \/ boot' = "remove" /\ j.id \in drop'
             \/ Running(j)'
  BY <1>3 DEF FiredInv, Running
<1>4. ASSUME NEW l \in Loop, loops'[l].at = "sleep", loops'[l].job.opts.mode = "once"
      PROVE  /\ loops'[l].job.opts.valid
             /\ Shifted(loops[l].job)' \/ loops'[l].due = Due(loops[l].job.opts)'
  BY <1>4 DEF FiredInv, Shifted, Due, ZoneOf
<1> QED BY <1>2, <1>3, <1>4 DEF FiredInv

LEMMA CallerFired ==
    ASSUME TypeOK, Linked, RegistryInv, TaskInv, FiredInv,
           NEW c \in Caller, CallerStep(c)
    PROVE  FiredInv' /\ UNCHANGED <<fired, again, retimed>> /\ raced \subseteq raced'
<1> USE DEF TaskInv
<1> DEFINE id == req[c].id
<1>0. /\ id \in JobId /\ loops \in [Loop -> Task] /\ now \in Nat
      /\ tasks \in [JobId -> Loop \cup {NoLoop}]
      /\ \A l \in Loop : loops[l].at \in {"run", "return"} =>
             loops[l].job.id = loops[l].id
      /\ fired \subseteq Job /\ NoJob \notin fired
      /\ \A j \in fired : j.id \in JobId
      /\ UNCHANGED <<timezone, retimed>>
  BY NoJobAssumption, ZoneKept
  DEF Request, TypeOK, AdapterTypeOK, Job, RegistryInv, Named, Holding
<1>1. CASE CheckOwned(c) \/ CancelGuard(c) \/ ReadForUpdate(c) \/ TriggerNow(c)
           \/ Check(c)
  <2>1. UNCHANGED <<adapterVars, fired, again>> /\ raced \subseteq raced'
    BY <1>1 DEF CheckOwned, CancelGuard, ReadForUpdate, TriggerNow, Check, history
  <2>2. FiredInv' BY <1>0, <2>1, FiredKept DEF adapterVars
  <2> QED BY <1>0, <2>1, <2>2
<1>2. CASE DoCancel(c) \/ Abort(c)
  <2>1. /\ UNCHANGED <<fired, again, raced, boot, drop, now>>
        /\ loops' = Aborted(id, loops)
    BY <1>2 DEF DoCancel, cancel, Abort, AbortOld
  <2>2. ASSUME NEW j \in fired, j.id \notin raced', jobs'[j.id] = j
        PROVE  j.id # id /\ jobs[j.id] = j
    <3>1. CASE DoCancel(c)
      <4>1. \A i \in JobId : jobs'[i] = IF i = id THEN NoJob ELSE jobs[i]
        BY <1>0, <3>1 DEF DoCancel, cancel, TypeOK, AdapterTypeOK, Registry
      <4> QED BY <1>0, <2>2, <4>1
    <3>2. CASE Abort(c)
      <4>1. jobs' = jobs /\ (id \notin raced => jobs[id] = NoJob)
        BY <3>2 DEF Abort, AbortOld, Windows, Window
      <4> QED BY <1>0, <2>1, <2>2, <4>1
    <3> QED BY <1>2, <3>1, <3>2
  <2>3. ASSUME NEW l \in Loop
        PROVE  /\ loops'[l].at = "sleep" => loops'[l] = loops[l]
               /\ l # tasks[id] => loops'[l] = loops[l]
    BY <1>0, <2>1, AbortEffect, IdleOff
  <2>4. ASSUME NEW l \in Loop, loops[l].id # id PROVE l # tasks[id]
    BY <1>0, <2>4, AdapterAssumption DEF Handles
  <2>5. FiredInv' BY <1>0, <2>1, <2>2, <2>3, <2>4, FiredKept
  <2> QED BY <1>0, <2>1, <2>5
<1>3. CASE Insert(c)
  <2>1. /\ UNCHANGED <<loops, fired, again, raced, boot, drop, now>>
        /\ \A i \in JobId : i # id => jobs'[i] = jobs[i]
        /\ jobs'[id].gen = gens
    BY <1>0, <1>3
    DEF Insert, insert, history, TypeOK, AdapterTypeOK, Registry
  <2>2. gens \in Nat /\ \A j \in fired : j.gen < gens
    BY DEF TypeOK, AdapterTypeOK, RegistryInv, Named
  <2>3. \A j \in fired : jobs'[j.id] = j => j.id # id /\ jobs[j.id] = j
    BY <1>0, <2>1, <2>2
  <2>4. FiredInv' BY <1>0, <2>1, <2>3, FiredKept
  <2> QED BY <1>0, <2>1, <2>4
<1>4. CASE Spawn(c)
  <2>1. UNCHANGED <<jobs, fired, again, raced, boot, drop, now>>
    BY <1>4 DEF Spawn, spawn_task, history
  <2>2. \A l \in Loop : /\ loops'[l].at = "sleep" => loops'[l] = loops[l]
                        /\ loops[l].at # "off" => loops'[l] = loops[l]
    BY <1>0, <1>4 DEF Spawn, spawn_task, Idle
  <2>3. FiredInv' BY <1>0, <2>1, <2>2, FiredKept
  <2> QED BY <1>0, <2>1, <2>3
<1> QED BY <1>1, <1>2, <1>3, <1>4 DEF CallerStep

LEMMA RunFired ==
    ASSUME TypeOK, Linked, RegistryInv, TaskInv, FiredInv,
           NEW a \in Actor, RunStep(a)
    PROVE  FiredInv' /\ UNCHANGED <<fired, again, raced, retimed>>
<1> USE DEF TaskInv
<1>0. /\ run[a].phase # "none" /\ run[a].job \in Job
      /\ a \in Loop => loops[a].at = "run"
      /\ loops \in [Loop -> Task] /\ Back(a) \in [Loop -> Task]
      /\ now \in Nat /\ NoJob \notin fired /\ \A j \in fired : j.id \in JobId
      /\ \A l \in Loop : loops[l].at \in {"run", "return"} =>
             loops[l].job.id = loops[l].id
  <2>1. run[a].phase # "none"
    BY DEF RunStep, GateMet, GateSkip, Retry, GiveUp, Succeed, Retire
  <2>2. a \in Loop => loops[a].at = "run" BY <2>1 DEF Linked
  <2>3. Back(a) \in [Loop -> Task] BY <2>2, BackType DEF TypeOK
  <2> QED BY <2>1, <2>2, <2>3, NoJobAssumption
      DEF TypeOK, Run, AdapterTypeOK, Job, RegistryInv, Named, Holding
<1>1. /\ UNCHANGED <<fired, again, raced, boot, drop, now, timezone, retimed>>
  BY ZoneKept DEF RunStep, GateMet, GateSkip, Retry, GiveUp, Succeed, Retire, history,
     adapterVars, KeepRegistry, cancel
<1>2. \A l \in Loop :
          /\ Back(a)[l].job = loops[l].job
          /\ Back(a)[l].doomed = loops[l].doomed
          /\ Back(a)[l].at = "sleep" => Back(a)[l] = loops[l]
          /\ loops[l].at \in {"run", "return"} =>
                 Back(a)[l].at \in {"run", "return"}
  BY <1>0 DEF Back, Task
<1>3. CASE GateMet(a) \/ Retry(a)
  <2>1. UNCHANGED <<jobs, loops>> BY <1>3 DEF GateMet, Retry, adapterVars
  <2>2. FiredInv' BY <1>0, <1>1, <2>1, FiredKept
  <2> QED BY <1>1, <2>2
<1>4. CASE GateSkip(a) \/ GiveUp(a) \/ Succeed(a)
  <2>1. jobs' = jobs /\ loops' = Back(a)
    BY <1>4 DEF GateSkip, GiveUp, Succeed, EndRun, KeepRegistry
  <2>2. FiredInv' BY <1>0, <1>1, <1>2, <2>1, FiredKept
  <2> QED BY <1>1, <2>2
<1>5. CASE Retire(a)
  <2> DEFINE id == run[a].job.id
  <2>1. id \in JobId /\ loops' = Aborted(id, Back(a))
    BY <1>0, <1>5 DEF Retire, cancel, Job
  <2>2. \A i \in JobId : jobs'[i] = IF i = id THEN NoJob ELSE jobs[i]
    BY <1>5, <2>1 DEF Retire, cancel, TypeOK, AdapterTypeOK, Registry
  <2>3. \A j \in fired : jobs'[j.id] = j => j.id # id /\ jobs[j.id] = j
    BY <1>0, <2>2
  <2>4. ASSUME NEW l \in Loop
        PROVE  /\ loops'[l].at = "sleep" => loops'[l] = Back(a)[l]
               /\ l # tasks[id] => loops'[l] = Back(a)[l]
    BY <1>0, <2>1, AbortEffect, IdleOff
  <2>5. ASSUME NEW l \in Loop, loops[l].id # id PROVE l # tasks[id]
    BY <2>1, <2>5, AdapterAssumption DEF Handles, TypeOK, AdapterTypeOK
  <2>6. FiredInv' BY <1>0, <1>1, <1>2, <2>3, <2>4, <2>5, FiredKept
  <2> QED BY <1>1, <2>6
<1> QED BY <1>3, <1>4, <1>5 DEF RunStep

\* A task never goes to sleep on a one-time job that has been run.
LEMMA ArmFired ==
    ASSUME TypeOK, Linked, RegistryInv, TaskInv, FiredInv,
           NEW l \in Loop, ArmJob(l)
    PROVE  FiredInv'
<1> USE DEF TaskInv
<1> DEFINE j == jobs[loops[l].id]
           slept == [loops[l] EXCEPT !.at = "sleep", !.job = j,
                                     !.due = NextFire(j.opts)]
<1>1. /\ loops[l].at = "top" /\ ~loops[l].doomed /\ loops[l].id \in JobId
      /\ loops[l] \in Task /\ loops \in [Loop -> Task] /\ now \in Nat
      /\ UNCHANGED <<jobs, fired, raced, boot, drop, now, timezone, retimed>>
      /\ NoJob \notin fired /\ \A k \in fired : k.id \in JobId
  BY NoJobAssumption, ZoneKept
  DEF ArmJob, Arm, history, TypeOK, AdapterTypeOK, Task, Handles, Job
<1>2. CASE loops' = [loops EXCEPT ![l] = Idle]
  <2>1. \A m \in Loop : /\ loops'[m].at = "sleep" => loops'[m] = loops[m]
                        /\ loops[m].at \in {"run", "return"} =>
                               loops'[m] = loops[m]
    BY <1>1, <1>2, IdleOff
  <2> QED BY <1>1, <2>1, FiredKept
<1>3. CASE /\ j # NoJob /\ ~Ended(j.opts)
           /\ loops' = [loops EXCEPT ![l] = slept]
  <2>1. j \in Job /\ j.id = loops[l].id
    BY <1>1, <1>3
    DEF TypeOK, AdapterTypeOK, Registry, RegistryInv, Named
  <2>2. /\ loops'[l] = slept
        /\ \A m \in Loop : m # l => loops'[m] = loops[m]
    BY <1>1, <1>3
  <2>3. /\ loops'[l].at = "sleep" /\ loops'[l].job = j
        /\ j.opts.mode = "once" => loops'[l].due = Due(j.opts) /\ j.opts.valid
    BY <1>1, <1>3, <2>2 DEF Task, NextFire, Ended
  <2>4. ASSUME j \in fired, j.id \notin raced, j \notin retimed PROVE FALSE
    <3>1. boot = "up" /\ tasks[loops[l].id] = l
      BY <1>1, <2>1, <2>4 DEF Tasks
    <3>2. Running(j) BY <2>1, <2>4, <3>1 DEF FiredInv
    <3>3. PICK m \in Loop : /\ loops[m].at \in {"run", "return"}
                            /\ ~loops[m].doomed /\ loops[m].job = j
      BY <3>2 DEF Running
    <3>4. loops[m].id = j.id
      BY <3>3 DEF RegistryInv, Named, Holding
    <3>5. tasks[j.id] = m BY <2>4, <3>3, <3>4 DEF Tasks
    <3> QED BY <1>1, <2>1, <3>1, <3>3, <3>5
  <2>5. ASSUME NEW m \in Loop, loops'[m].at = "sleep"
        PROVE  /\ loops'[m].job.opts.mode = "once" =>
                      /\ loops'[m].job.opts.valid
                      /\ \/ Shifted(loops[m].job)'
                         \/ loops'[m].due = Due(loops[m].job.opts)'
               /\ \A k \in fired : k.id \notin raced /\ k \notin retimed =>
                      loops'[m].job # k
    <3>1. CASE m = l BY <1>1, <2>1, <2>3, <2>4, <3>1 DEF Due, ZoneOf
    <3>2. CASE m # l
      <4>1. loops'[m] = loops[m] BY <2>2, <3>2
      <4> QED BY <1>1, <2>5, <4>1 DEF FiredInv, Shifted, Due, ZoneOf
    <3> QED BY <3>1, <3>2
  <2>6. \A k \in fired : Running(k) => Running(k)'
    BY <1>1, <2>2 DEF Running
  <2>7. ASSUME NEW k \in fired
        PROVE  Due(k.opts)' = Due(k.opts) /\ Shifted(k)' = Shifted(k)
    BY <1>1 DEF Shifted, Due, ZoneOf
  <2> QED BY <1>1, <2>5, <2>6, <2>7 DEF FiredInv
<1>4. \/ loops' = [loops EXCEPT ![l] = Idle]
      \/ /\ j # NoJob /\ ~Ended(j.opts)
         /\ loops' = [loops EXCEPT ![l] = slept]
  BY DEF ArmJob, Arm
<1> QED BY <1>2, <1>3, <1>4

\* The first run of a one-time job is the last.
LEMMA FireFired ==
    ASSUME TypeOK, Linked, RegistryInv, TaskInv, FiredInv, OnceFiresOnce,
           NEW l \in Loop, FireJob(l)
    PROVE  FiredInv' /\ OnceFiresOnce'
<1> USE DEF TaskInv
<1> DEFINE j == loops[l].job
<1>1. /\ loops[l].at = "sleep" /\ ~loops[l].doomed /\ now >= loops[l].due
      /\ loops[l] \in Task /\ loops \in [Loop -> Task] /\ now \in Nat
      /\ j \in Job /\ j.id = loops[l].id
      /\ UNCHANGED <<jobs, raced, boot, drop, now, timezone, retimed>>
      /\ fired' = fired \cup {k \in {j} : OneTime(k.opts)}
      /\ again' = again \cup (fired \cap {k \in {j} : OneTime(k.opts)})
  BY NoJobAssumption, ZoneKept
  DEF FireJob, Fire, TypeOK, AdapterTypeOK, Task, Handles, RegistryInv, Named,
      Holding
<1>2. /\ loops'[l].at = "run" /\ loops'[l].job = j /\ ~loops'[l].doomed
      /\ \A m \in Loop : m # l => loops'[m] = loops[m]
  <2>1. loops' = [loops EXCEPT ![l].at = "run"] BY DEF FireJob, Fire
  <2> QED BY <1>1, <2>1 DEF Task
<1>3. j \in fired => j.id \in raced \/ j \in retimed BY <1>1 DEF FiredInv
<1>4. OnceFiresOnce' BY <1>1, <1>3 DEF OnceFiresOnce
<1>5. Running(j)' BY <1>2 DEF Running
<1>6. \A k \in fired : Running(k) => Running(k)'
  BY <1>1, <1>2 DEF Running
<1>7. ASSUME NEW m \in Loop, loops'[m].at = "sleep", j.id \notin raced
      PROVE  loops'[m].job # j
  <2>1. m # l /\ loops'[m] = loops[m] BY <1>2, <1>7
  <2>2. ASSUME loops[m].job = j PROVE FALSE
    <3>1. loops[m].id = j.id /\ ~loops[m].doomed
      BY <1>7, <2>1, <2>2 DEF RegistryInv, Named, Holding, Handles
    <3> QED BY <1>1, <1>7, <2>1, <3>1 DEF Tasks
  <2> QED BY <2>1, <2>2
<1>8. j.opts.mode = "once" => j.opts.valid /\ (Shifted(j) \/ Due(j.opts) <= now)
  BY <1>1 DEF FiredInv
<1>80. \A k \in Job : Due(k.opts)' = Due(k.opts) /\ Shifted(k)' = Shifted(k)
  BY <1>1 DEF Shifted, Due, ZoneOf
<1>9. ASSUME NEW k \in fired'
      PROVE  /\ OneTime(k.opts)
             /\ k.opts.mode = "once" =>
                    k.opts.valid /\ (Shifted(k)' \/ Due(k.opts)' <= now')
             /\ k.id \notin raced' /\ k \notin retimed' =>
                  /\ \A m \in Loop : loops'[m].at = "sleep" => loops'[m].job # k
                  /\ jobs'[k.id] = k => \/ boot' = "filter"
                                        \/ boot' = "remove" /\ k.id \in drop'
                                        \/ Running(k)'
  <2>1. CASE k = j /\ OneTime(j.opts)
    <3>1. Running(k)' BY <1>2, <2>1 DEF Running
    <3> QED BY <1>1, <1>7, <1>8, <1>80, <2>1, <3>1
  <2>2. CASE k \in fired
    <3>1. \A m \in Loop : loops'[m].at = "sleep" => loops'[m] = loops[m]
      BY <1>2
    <3>2. k \in Job BY <2>2 DEF TypeOK
    <3> QED BY <1>1, <1>6, <1>80, <2>2, <3>1, <3>2 DEF FiredInv
  <2> QED BY <1>1, <1>9, <2>1, <2>2
<1>10. ASSUME NEW m \in Loop, loops'[m].at = "sleep", loops'[m].job.opts.mode = "once"
       PROVE  /\ loops'[m].job.opts.valid
              /\ Shifted(loops[m].job)' \/ loops'[m].due = Due(loops[m].job.opts)'
  <2>1. loops'[m] = loops[m] BY <1>2, <1>10
  <2> QED BY <1>1, <1>10, <2>1 DEF FiredInv, Shifted, Due, ZoneOf
<1>11. FiredInv' BY <1>9, <1>10 DEF FiredInv
<1> QED BY <1>4, <1>11

\* restore() drops a one-time job that was run before the crash.
LEMMA BootFired ==
    ASSUME TypeOK, Linked, RegistryInv, TaskInv, FiredInv, BootStep
    PROVE  FiredInv'
<1>0. /\ UNCHANGED <<fired, raced, now, timezone>> /\ boot \in Boot
      /\ retimed \subseteq retimed' /\ timezone \in Zone
      /\ NoJob \notin fired /\ \A j \in fired : j.id \in JobId
  BY NoJobAssumption, BootEffect DEF TypeOK, AdapterTypeOK, Job
<1>00. ASSUME NEW l \in Loop, loops'[l] = loops[l], loops'[l].at = "sleep",
              loops'[l].job.opts.mode = "once"
       PROVE  /\ loops'[l].job.opts.valid
              /\ Shifted(loops[l].job)' \/ loops'[l].due = Due(loops[l].job.opts)'
  BY <1>0, <1>00 DEF FiredInv, Shifted, Due, ZoneOf
<1>01. ASSUME NEW j \in fired, j.opts.mode = "once"
       PROVE  j.opts.valid /\ (Shifted(j)' \/ Due(j.opts)' <= now')
  BY <1>0, <1>01 DEF FiredInv, Shifted, Due, ZoneOf
<1>1. CASE Load
  BY <1>0, <1>00, <1>01, <1>1 DEF Load, FiredInv
<1>2. CASE RestoreFilter
  <2>1. /\ UNCHANGED <<jobs, loops>> /\ boot' = "remove"
        /\ drop' = {i \in JobId : jobs[i] # NoJob /\ NotRestored(jobs[i].opts)}
    BY <1>2 DEF RestoreFilter
  <2>2. ASSUME NEW j \in fired, jobs[j.id] = j, j.id \notin raced', j \notin retimed'
        PROVE j.id \in drop'
    <3>1. j \in {jobs[i] : i \in JobId} \ {NoJob} BY <1>0, <2>2
    <3>2. ZoneOf(j.opts) = timezone
      BY <1>0, <1>2, <2>2, <3>1, BootEffect DEF Misread, ZoneOf
    <3>3. j.opts.mode = "once" => j.opts.valid /\ Instant(j.opts.at, timezone) <= now
      BY <1>0, <2>2, <3>2 DEF FiredInv, Shifted, Due
    <3>4. NotRestored(j.opts) BY <3>3 DEF FiredInv, OneTime, NotRestored
    <3> QED BY <1>0, <2>1, <2>2, <3>4
  <2> QED BY <1>0, <1>00, <1>01, <2>1, <2>2 DEF FiredInv
<1>3. CASE RestoreRemove
  <2>1. /\ loops' = loops /\ boot = "remove"
        /\ \A i \in JobId : jobs'[i] = IF i \in drop THEN NoJob ELSE jobs[i]
    BY <1>3 DEF RestoreRemove
  <2>2. \A j \in fired : Running(j) => Running(j)' BY <2>1 DEF Running
  <2> QED BY <1>0, <1>00, <1>01, <2>1, <2>2 DEF FiredInv
<1>4. CASE RestoreSpawn
  <2>1. jobs' = jobs /\ boot = "spawn" BY <1>4 DEF RestoreSpawn
  <2>2. \A l \in Loop : \/ loops'[l] = loops[l]
                        \/ loops[l].at = "off" /\ loops'[l].at = "top"
    BY <1>4, RestoreSpawnEffect
  <2>3. \A j \in fired : Running(j) => Running(j)' BY <2>2 DEF Running
  <2>4. \A l \in Loop : loops'[l].at = "sleep" => loops'[l] = loops[l]
    BY <2>2
  <2> QED BY <1>0, <1>00, <1>01, <2>1, <2>3, <2>4 DEF FiredInv
<1> QED BY <1>1, <1>2, <1>3, <1>4, BootEffect

LEMMA NextFired ==
    ASSUME TypeOK, Linked, RegistryInv, TaskInv, FiredInv, OnceFiresOnce,
           [Next]_vars
    PROVE  FiredInv' /\ OnceFiresOnce'
<1>0. /\ now \in Nat /\ loops \in [Loop -> Task]
      /\ NoJob \notin fired /\ \A j \in fired : j.id \in JobId
  BY NoJobAssumption DEF TypeOK, AdapterTypeOK, Job
<1>1. ASSUME NEW c \in Caller, CallerStep(c) PROVE FiredInv' /\ OnceFiresOnce'
  BY <1>1, CallerFired DEF OnceFiresOnce
<1>2. ASSUME NEW a \in Actor, RunStep(a) PROVE FiredInv' /\ OnceFiresOnce'
  BY <1>2, RunFired DEF OnceFiresOnce
<1>3. ASSUME NEW c \in Caller, \/ Disconnect(c)
                               \/ \E r \in Requests : Call(c, r)
      PROVE  FiredInv' /\ OnceFiresOnce'
  <2>1. UNCHANGED <<adapterVars, fired, again, raced, retimed>>
    BY <1>3 DEF Disconnect, history, Call
  <2> QED BY <1>0, <2>1, FiredKept DEF adapterVars, OnceFiresOnce
<1>4. ASSUME NEW l \in Loop, ArmJob(l) PROVE FiredInv' /\ OnceFiresOnce'
  BY <1>4, ArmFired DEF ArmJob, history, OnceFiresOnce
<1>5. ASSUME NEW l \in Loop, FireJob(l) PROVE FiredInv' /\ OnceFiresOnce'
  BY <1>5, FireFired
<1>6. ASSUME NEW l \in Loop, ReturnJob(l) PROVE FiredInv' /\ OnceFiresOnce'
  <2>1. /\ Return(l) /\ loops[l].at = "return" /\ loops[l].id \in JobId
        /\ UNCHANGED <<fired, again, boot, drop, now, timezone, retimed>>
        /\ raced \subseteq raced'
    BY <1>6, ZoneKept DEF ReturnJob, Return, TypeOK, AdapterTypeOK, Task
  <2>2. \/ loops' = [loops EXCEPT ![l] = Idle]
        \/ loops' = [loops EXCEPT ![l].at = "top"]
    BY <2>1 DEF Return
  <2>3. /\ \A m \in Loop : m # l => loops'[m] = loops[m]
        /\ loops'[l].at # "sleep"
    <3>1. CASE loops' = [loops EXCEPT ![l] = Idle]
      BY <1>0, <1>6, <3>1, IdleOff
    <3>2. CASE loops' = [loops EXCEPT ![l].at = "top"]
      BY <1>0, <1>6, <3>2 DEF Task
    <3> QED BY <2>2, <3>1, <3>2
  <2>4. ASSUME NEW j \in fired, jobs'[j.id] = j
        PROVE  jobs[j.id] = j /\ loops[l].job # j
    <3>1. \A i \in JobId : jobs'[i] = jobs[i] \/ jobs'[i] = NoJob
      BY <2>1 DEF Return, TypeOK, AdapterTypeOK, Registry
    <3>2. jobs[j.id] = j BY <1>0, <2>4, <3>1
    <3>3. ASSUME loops[l].job = j PROVE FALSE
      <4>1. OneTime(loops[l].job.opts) /\ loops[l].id = j.id
        BY <2>1, <3>3 DEF FiredInv, RegistryInv, Named, Holding
      <4>2. jobs'[j.id] = NoJob
        BY <2>1, <4>1 DEF Return, TypeOK, AdapterTypeOK, Registry
      <4> QED BY <1>0, <2>4, <4>2
    <3> QED BY <3>2, <3>3
  <2>5. FiredInv'
    BY <1>0, <2>1, <2>3, <2>4, FiredKept
  <2> QED BY <2>1, <2>5 DEF OnceFiresOnce
<1>7. CASE BootStep BY <1>7, BootFired, BootEffect DEF OnceFiresOnce
<1>8. CASE FinishFlush \/ Time
  <2>1. /\ UNCHANGED <<jobs, loops, boot, drop, fired, again, raced, timezone, retimed>>
        /\ now' \in Nat /\ now' >= now
    BY <1>0, <1>8, ZoneKept DEF FinishFlush, EndFlush, Time, Tick, history
  <2>2. FiredInv' BY <1>0, <2>1, FiredKept
  <2> QED BY <2>1, <2>2 DEF OnceFiresOnce
<1>9. CASE Crash
  <2>1. /\ \A l \in Loop : loops'[l].at = "off"
        /\ \A i \in JobId : jobs'[i] = NoJob
        /\ UNCHANGED <<fired, again, raced, now, timezone, retimed>>
    BY <1>9, ZoneKept DEF Crash, CrashAdapter, Idle, NoJobs
  <2>2. \A j \in Job : Due(j.opts)' = Due(j.opts) /\ Shifted(j)' = Shifted(j)
    BY <2>1 DEF Shifted, Due, ZoneOf
  <2>3. fired \subseteq Job BY DEF TypeOK
  <2> QED BY <1>0, <2>1, <2>2, <2>3 DEF FiredInv, OnceFiresOnce
<1>10. CASE UNCHANGED vars
  <2>1. UNCHANGED <<adapterVars, fired, again, raced, retimed>>
    BY <1>10 DEF vars, history
  <2> QED BY <1>0, <2>1, FiredKept DEF adapterVars, OnceFiresOnce
<1>11. ASSUME NEW z \in Zone, Move(z) PROVE FiredInv' /\ OnceFiresOnce'
  <2>1. /\ UNCHANGED <<jobs, loops, boot, drop, fired, again, raced, now>>
        /\ retimed \subseteq retimed'
    BY <1>11, MoveEffect DEF Move
  <2>2. \A j \in Job : j.opts.zone \in Zone => Due(j.opts)' = Due(j.opts)
    BY DEF Due, ZoneOf
  <2>3. \A j \in fired : j.opts.zone \notin Zone => j \in retimed'
    BY <1>11 DEF Move
  <2>4. ASSUME NEW l \in Loop, loops[l].at = "sleep", loops[l].job.opts.zone \notin Zone,
               loops[l].job.id \notin raced
        PROVE  loops[l].job \in retimed'
    <3>1. /\ loops[l].job.id = loops[l].id /\ loops[l].id \in JobId
          /\ loops[l].job # NoJob /\ ~loops[l].doomed
      BY <2>4 DEF RegistryInv, Named, Holding, TypeOK, AdapterTypeOK, Task, TaskInv, Handles
    <3>2. jobs[loops[l].id] = loops[l].job
      BY <2>4, <3>1 DEF TaskInv, Tasks, Holding
    <3> QED BY <1>11, <2>4, <3>1, <3>2 DEF Move
  <2>5. ASSUME NEW l \in Loop, loops[l].at = "sleep", loops[l].job.opts.mode = "once"
        PROVE  /\ loops[l].job.opts.valid
               /\ Shifted(loops[l].job)' \/ loops[l].due = Due(loops[l].job.opts)'
    <3>1. loops[l].job \in Job
      BY <2>5 DEF TypeOK, AdapterTypeOK, Task, Holding
    <3> QED BY <2>1, <2>2, <2>4, <2>5, <3>1 DEF FiredInv, Shifted
  <2>6. ASSUME NEW j \in fired, j.opts.mode = "once"
        PROVE  j.opts.valid /\ (Shifted(j)' \/ Due(j.opts)' <= now)
    <3>1. j \in Job BY DEF TypeOK
    <3> QED BY <2>1, <2>2, <2>3, <2>6, <3>1 DEF FiredInv, Shifted
  <2>7. \A j \in fired : Running(j) => Running(j)' BY <2>1 DEF Running
  <2>8. FiredInv' BY <2>1, <2>5, <2>6, <2>7 DEF FiredInv
  <2>9. OnceFiresOnce' BY <2>1 DEF OnceFiresOnce
  <2> QED BY <2>8, <2>9
<1> QED BY <1>1, <1>2, <1>3, <1>4, <1>5, <1>6, <1>7, <1>8, <1>9, <1>10, <1>11
    DEF Next

\* A task runs a once or delay job at most once, through any number of edits,
\* cancels, crashes, restarts and changes of the time zone, but for a name two
\* operations registered at once and a job whose time was read in two zones.
THEOREM OnceFiresOnceAlways == Spec => []OnceFiresOnce
<1> DEFINE Inv == TypeOK /\ Linked /\ RegistryInv /\ TaskInv /\ FiredInv
                  /\ OnceFiresOnce
<1>1. Init => Inv BY InitTypes, InitRegistry, InitTasks, InitFired
<1>2. Inv /\ [Next]_vars => Inv'
  BY NextTypes, NextRegistry, NextTasks, NextFired
<1> QED BY <1>1, <1>2, PTL DEF Spec

-----------------------------------------------------------------------------
(***************************************************************************)
(* The scheduler implements JobTable: what that needs besides.             *)
(***************************************************************************)
\* A request has a run only while it waits for it.
HandIdle == \A c \in Caller : run[c].phase # "none" => pc[c] = "run"

\* A task inside its callback or back from it has had its job counted.
RunsCounted ==
    \A l \in Loop : loops[l].at \in {"run", "return"} /\ OneTime(loops[l].job.opts)
        => loops[l].job \in fired

\* What restore() is about to take out is over, by the zone the job means, as
\* it was when it decided; or it was judged in another.
Dropped ==
    boot = "remove" => \A i \in drop \ raced :
        jobs[i] # NoJob => jobs[i] \in retimed \/ Promise!Over(jobs[i])

\* A flush begins with nothing in the file.
HalfWritten == writing => file = Torn

RefInv == HandIdle /\ RunsCounted /\ Dropped /\ HalfWritten

SchedulerInv == TypeOK /\ Linked /\ RegistryInv /\ TaskInv /\ FiredInv /\ OnceFiresOnce
                /\ RefInv

LEMMA InitRef == Init => RefInv
<1> SUFFICES ASSUME Init PROVE RefInv OBVIOUS
<1>1. \A c \in Caller : run[c].phase = "none" BY DEF Init, Actor, NoRun
<1>2. \A l \in Loop : loops[l].at = "off" BY IdleOff DEF Init
<1>3. boot = "filter" /\ ~writing BY DEF Init
<1> QED BY <1>1, <1>2, <1>3 DEF RefInv, HandIdle, RunsCounted, Dropped, HalfWritten

\* No step takes a run from a task, or its job, without stopping it.
LEMMA CallbacksKept ==
    ASSUME TypeOK, RunsCounted, fired \subseteq fired',
           \A l \in Loop : loops'[l].at \in {"run", "return"} =>
               loops[l].at \in {"run", "return"} /\ loops'[l].job = loops[l].job
    PROVE  RunsCounted'
BY DEF RunsCounted

LEMMA AbortKeepsCallbacks ==
    ASSUME TypeOK, NEW id \in JobId, NEW ls \in [Loop -> Task], NEW l \in Loop,
           Aborted(id, ls)[l].at \in {"run", "return"}
    PROVE  /\ ls[l].at \in {"run", "return"}
           /\ Aborted(id, ls)[l].job = ls[l].job
BY AbortEffect, IdleOff

LEMMA BackKeepsCallbacks ==
    ASSUME TypeOK, Linked, NEW a \in Actor, run[a].phase # "none"
    PROVE  /\ Back(a) \in [Loop -> Task]
           /\ \A l \in Loop : Back(a)[l].at \in {"run", "return"} =>
                  loops[l].at \in {"run", "return"} /\ Back(a)[l].job = loops[l].job
BY DEF Back, TypeOK, AdapterTypeOK, Linked, Task, LoopAt

LEMMA NextCounted ==
    ASSUME SchedulerInv, [Next]_vars
    PROVE  RunsCounted'
<1> USE DEF SchedulerInv, RefInv
<1>0. loops \in [Loop -> Task] /\ \A c \in Caller : req[c].id \in JobId
  BY DEF TypeOK, AdapterTypeOK, Request
<1>1. CASE UNCHANGED <<loops, fired>> BY <1>1, CallbacksKept
<1>2. ASSUME NEW c \in Caller, DoCancel(c) \/ Abort(c) PROVE RunsCounted'
  <2>1. loops' = Aborted(req[c].id, loops) /\ fired' = fired
    BY <1>2 DEF DoCancel, Abort, cancel, AbortOld
  <2> QED BY <1>0, <2>1, AbortKeepsCallbacks, CallbacksKept
<1>3. ASSUME NEW c \in Caller, Spawn(c) PROVE RunsCounted'
  <2>1. PICK l \in Loop : loops' = [loops EXCEPT ![l] = [Idle EXCEPT !.at = "top",
                                                                    !.id = req[c].id]]
    BY <1>3 DEF Spawn, spawn_task
  <2>2. [Idle EXCEPT !.at = "top", !.id = req[c].id].at = "top" BY DEF Idle
  <2>3. fired' = fired BY <1>3 DEF Spawn, history
  <2> QED BY <1>0, <2>1, <2>2, <2>3, CallbacksKept
<1>4. ASSUME NEW a \in Actor, GateSkip(a) \/ GiveUp(a) \/ Succeed(a)
      PROVE  RunsCounted'
  <2>1. loops' = Back(a) /\ fired' = fired /\ run[a].phase # "none"
    BY <1>4 DEF GateSkip, GiveUp, Succeed, EndRun, history
  <2> QED BY <2>1, BackKeepsCallbacks, CallbacksKept
<1>5. ASSUME NEW a \in Actor, Retire(a) PROVE RunsCounted'
  <2>1. /\ loops' = Aborted(run[a].job.id, Back(a)) /\ fired' = fired
        /\ run[a].phase # "none" /\ run[a].job \in Job
    BY <1>5 DEF Retire, cancel, TypeOK, Run
  <2>2. run[a].job.id \in JobId BY <2>1 DEF Job
  <2> QED BY <2>1, <2>2, BackKeepsCallbacks, AbortKeepsCallbacks, CallbacksKept
<1>6. ASSUME NEW l \in Loop, FireJob(l) PROVE RunsCounted'
  <2>1. /\ \A m \in Loop : m # l => loops'[m] = loops[m]
        /\ loops'[l].job = loops[l].job
    BY <1>0, <1>6 DEF FireJob, Fire, Task
  <2>2. /\ fired \subseteq fired'
        /\ OneTime(loops[l].job.opts) => loops[l].job \in fired'
    BY <1>6 DEF FireJob
  <2> QED BY <2>1, <2>2 DEF RunsCounted
<1>7. ASSUME NEW l \in Loop, ArmJob(l) \/ ReturnJob(l) PROVE RunsCounted'
  <2>1. /\ \A m \in Loop : m # l => loops'[m] = loops[m]
        /\ loops'[l].at \notin {"run", "return"}
    <3>1. CASE ArmJob(l)
      BY <1>0, <3>1, IdleOff DEF ArmJob, Arm, Task
    <3>2. CASE ReturnJob(l)
      BY <1>0, <3>2, IdleOff DEF ReturnJob, Return, Task
    <3> QED BY <1>7, <3>1, <3>2
  <2>2. fired' = fired BY <1>7 DEF ArmJob, ReturnJob, history
  <2> QED BY <2>1, <2>2, CallbacksKept
<1>8. CASE RestoreSpawn /\ BootStep
  <2>1. \A l \in Loop : loops'[l] = loops[l] \/ loops'[l].at = "top"
    BY <1>8, RestoreSpawnEffect
  <2> QED BY <1>8, <2>1, CallbacksKept, BootEffect
<1>9. CASE Crash
  BY <1>9, IdleOff DEF Crash, CrashAdapter, RunsCounted
<1>10. CASE UNCHANGED vars BY <1>1, <1>10 DEF vars, adapterVars, history
<1>11. ASSUME NEW c \in Caller,
              \/ \E r \in Requests : Call(c, r)
              \/ Disconnect(c) \/ CheckOwned(c) \/ CancelGuard(c) \/ ReadForUpdate(c)
              \/ Check(c) \/ Insert(c) \/ TriggerNow(c)
       PROVE  RunsCounted'
  BY <1>1, <1>11 DEF Call, Disconnect, CheckOwned, CancelGuard, ReadForUpdate, Check,
     Insert, insert, TriggerNow, adapterVars, history
<1>12. ASSUME NEW a \in Actor, GateMet(a) \/ Retry(a) PROVE RunsCounted'
  BY <1>1, <1>12 DEF GateMet, Retry, adapterVars, history
<1>13. CASE FinishFlush \/ Time
  BY <1>1, <1>13 DEF FinishFlush, EndFlush, Time, Tick, history
<1>14. CASE BootStep
  <2>1. CASE Load \/ RestoreFilter \/ RestoreRemove
    BY <1>1, <1>14, <2>1, BootEffect DEF Load, RestoreFilter, RestoreRemove
  <2> QED BY <1>8, <1>14, <2>1, BootEffect
<1>15. ASSUME NEW z \in Zone, Move(z) PROVE RunsCounted'
  BY <1>1, <1>15, MoveEffect
<1> QED
  BY <1>2, <1>3, <1>4, <1>5, <1>6, <1>7, <1>9, <1>10, <1>11, <1>12, <1>13, <1>14,
     <1>15
  DEF Next, CallerStep, RunStep

\* A step that begins no run of a request leaves each where it waits.
LEMMA HandsKept ==
    ASSUME TypeOK, HandIdle,
           \A c \in Caller : run'[c].phase # "none" =>
               /\ run[c].phase # "none"
               /\ pc[c] = "run" => pc'[c] = "run"
    PROVE  HandIdle'
BY DEF HandIdle

LEMMA NextHands ==
    ASSUME SchedulerInv, [Next]_vars
    PROVE  HandIdle'
<1> USE DEF SchedulerInv, RefInv
<1>0. /\ pc \in [Caller -> PC] /\ run \in [Actor -> Run]
      /\ Caller \subseteq Actor /\ Loop \subseteq Actor
      /\ \A c \in Caller : c \notin Loop
      /\ NoRun.phase = "none"
  BY ManagerAssumption DEF TypeOK, Actor, NoRun
<1>1. CASE UNCHANGED <<pc, run>> BY <1>1, HandsKept
<1>2. ASSUME NEW c \in Caller, \E r \in Requests : Call(c, r) PROVE HandIdle'
  BY <1>0, <1>2, HandsKept DEF Call, Goto
<1>3. ASSUME NEW c \in Caller,
             \/ CheckOwned(c) \/ CancelGuard(c) \/ ReadForUpdate(c)
             \/ Check(c) \/ Insert(c) \/ Spawn(c)
      PROVE  HandIdle'
  BY <1>0, <1>3, HandsKept DEF CheckOwned, CancelGuard, ReadForUpdate, Check, Insert,
     Spawn, Goto
<1>4. ASSUME NEW c \in Caller, DoCancel(c) \/ Abort(c) PROVE HandIdle'
  BY <1>0, <1>4, HandsKept DEF DoCancel, Abort, Die, Goto
<1>5. ASSUME NEW c \in Caller, TriggerNow(c) PROVE HandIdle'
  BY <1>0, <1>5 DEF TriggerNow, Goto, Begin, HandIdle
<1>6. ASSUME NEW c \in Caller, Disconnect(c) PROVE HandIdle'
  BY <1>0, <1>6, HandsKept DEF Disconnect, Goto
<1>7. ASSUME NEW l \in Loop, FireJob(l) PROVE HandIdle'
  BY <1>0, <1>7, HandsKept DEF FireJob, Begin
<1>8. ASSUME NEW a \in Actor, GateMet(a) \/ Retry(a) PROVE HandIdle'
  BY <1>0, <1>8, HandsKept DEF GateMet, Retry, Run
<1>9. ASSUME NEW a \in Actor, GateSkip(a) \/ GiveUp(a) \/ Succeed(a) PROVE HandIdle'
  BY <1>0, <1>9, HandsKept DEF GateSkip, GiveUp, Succeed, EndRun
<1>10. ASSUME NEW a \in Actor, Retire(a) PROVE HandIdle'
  BY <1>0, <1>10, HandsKept DEF Retire
<1>11. CASE Crash BY <1>0, <1>11 DEF Crash, HandIdle
<1>12. ASSUME NEW l \in Loop, ArmJob(l) \/ ReturnJob(l) PROVE HandIdle'
  BY <1>1, <1>12 DEF ArmJob, ReturnJob
<1>13. CASE BootStep \/ FinishFlush \/ Time
  BY <1>1, <1>13, BootEffect DEF FinishFlush, Time
<1>14. CASE UNCHANGED vars BY <1>1, <1>14 DEF vars
<1>15. ASSUME NEW z \in Zone, Move(z) PROVE HandIdle'
  BY <1>1, <1>15, MoveEffect
<1> QED
  BY <1>2, <1>3, <1>4, <1>5, <1>6, <1>7, <1>8, <1>9, <1>10, <1>11, <1>12, <1>13, <1>14,
     <1>15
  DEF Next, CallerStep, RunStep

\* A registration that was over stays so, and one that is made while restore()
\* is at work is disputed.
LEMMA NextDropped ==
    ASSUME SchedulerInv, [Next]_vars
    PROVE  Dropped'
<1> USE DEF SchedulerInv, RefInv
<1>0. /\ now \in Nat /\ jobs \in Registry /\ drop \subseteq JobId /\ timezone \in Zone
      /\ \A c \in Caller : req[c].id \in JobId
      /\ \A i \in JobId : jobs[i] # NoJob => jobs[i] \in Job /\ jobs[i].opts \in Options
  BY DEF TypeOK, AdapterTypeOK, Request, Registry, Job
<1>1. ASSUME now' \in Nat, now' >= now, boot' = boot, drop' = drop, raced \subseteq raced',
             timezone' = timezone, retimed \subseteq retimed',
             \A i \in JobId \ raced' : boot = "remove" => jobs'[i] \in {jobs[i], NoJob}
      PROVE  Dropped'
  <2>1. ASSUME boot' = "remove", NEW i \in drop' \ raced', jobs'[i] # NoJob
        PROVE  jobs'[i] \in retimed' \/ Promise!Over(jobs[i])'
    <3>1. jobs'[i] = jobs[i] /\ i \in JobId BY <1>0, <1>1, <2>1
    <3>2. jobs[i] \in retimed \/ Promise!Over(jobs[i])
      BY <1>0, <1>1, <2>1, <3>1 DEF Dropped
    <3>3. Promise!Over(jobs[i]) => Promise!Over(jobs[i])'
      <4>1. /\ jobs[i].opts.at \in Nat /\ jobs[i].opts.endAt \in Nat
            /\ Promise!Shift(jobs[i]) \in Nat
        BY <1>0, <2>1, <3>1, AdapterAssumption DEF Options, Promise!Shift
      <4>2. Promise!Shift(jobs[i])' = Promise!Shift(jobs[i])
        BY <1>1, <3>1 DEF Promise!Shift
      <4> QED BY <1>0, <1>1, <3>1, <4>1, <4>2 DEF Promise!Over
    <3> QED BY <1>1, <3>1, <3>2, <3>3
  <2> QED BY <2>1 DEF Dropped
<1>2. ASSUME NEW c \in Caller, Insert(c) PROVE Dropped'
  <2>1. /\ pc[c] \in Window /\ UNCHANGED <<now, boot, drop, raced>>
        /\ \A i \in JobId : i # req[c].id => jobs'[i] = jobs[i]
    BY <1>0, <1>2 DEF Insert, insert, Window, history, Registry
  <2>2. boot = "remove" => req[c].id \in raced
    BY <2>1 DEF TaskInv, Windows
  <2> QED BY <1>0, <1>1, <1>2, <2>1, <2>2, ZoneKept DEF CallerStep
<1>3. ASSUME NEW c \in Caller, CallerStep(c), ~Insert(c) PROVE Dropped'
  <2>1. /\ UNCHANGED <<now, boot, drop>> /\ raced \subseteq raced'
        /\ \A i \in JobId : jobs'[i] \in {jobs[i], NoJob}
    BY <1>0, <1>3 DEF CallerStep, CheckOwned, CancelGuard, ReadForUpdate, DoCancel,
       cancel, Check, Abort, AbortOld, Spawn, spawn_task, TriggerNow, adapterVars,
       history, Registry
  <2> QED BY <1>0, <1>1, <1>3, <2>1, ZoneKept
<1>4. ASSUME NEW c \in Caller, \/ Disconnect(c) \/ \E r \in Requests : Call(c, r)
      PROVE  Dropped'
  BY <1>0, <1>1, <1>4, ZoneKept DEF Disconnect, Call, adapterVars, history
<1>5. ASSUME NEW l \in Loop, ArmJob(l) \/ FireJob(l) \/ ReturnJob(l) PROVE Dropped'
  <2>1. /\ UNCHANGED <<now, boot, drop>> /\ raced \subseteq raced'
        /\ \A i \in JobId : jobs'[i] \in {jobs[i], NoJob}
    BY <1>0, <1>5 DEF ArmJob, Arm, FireJob, Fire, ReturnJob, Return, history, Registry
  <2> QED BY <1>0, <1>1, <1>5, <2>1, ZoneKept
<1>6. ASSUME NEW a \in Actor, RunStep(a) PROVE Dropped'
  <2>1. /\ UNCHANGED <<now, boot, drop>> /\ raced \subseteq raced'
        /\ \A i \in JobId : jobs'[i] \in {jobs[i], NoJob}
    BY <1>0, <1>6 DEF RunStep, GateMet, GateSkip, Retry, GiveUp, Succeed, Retire, cancel,
       KeepRegistry, adapterVars, history, Registry
  <2> QED BY <1>0, <1>1, <1>6, <2>1, ZoneKept
<1>7. CASE BootStep
  <2>1. CASE RestoreFilter
    <3>1. /\ drop' = {i \in JobId : jobs[i] # NoJob /\ NotRestored(jobs[i].opts)}
          /\ UNCHANGED <<jobs, now, timezone>> /\ retimed' = retimed \cup Misread
      BY <1>7, <2>1, BootEffect DEF RestoreFilter
    <3>2. ASSUME NEW i \in drop', jobs[i] \notin retimed'
          PROVE  Promise!Over(jobs[i])
      <4>1. jobs[i].opts.zone \notin Zone \/ jobs[i].opts.zone = timezone
        BY <3>1, <3>2 DEF Misread
      <4>2. Promise!Shift(jobs[i]) = Late[timezone] BY <4>1 DEF Promise!Shift
      <4> QED BY <3>1, <3>2, <4>2 DEF NotRestored, Instant, Promise!Over
    <3>3. \A i \in drop' : Promise!Over(jobs[i])' = Promise!Over(jobs[i])
      BY <3>1 DEF Promise!Over, Promise!Shift
    <3> QED BY <3>1, <3>2, <3>3 DEF Dropped
  <2>2. CASE Load \/ RestoreRemove \/ RestoreSpawn
    <3>1. boot' # "remove" BY <2>2 DEF Load, RestoreRemove, RestoreSpawn
    <3> QED BY <3>1 DEF Dropped
  <2> QED BY <1>7, <2>1, <2>2, BootEffect
<1>8. CASE FinishFlush \/ Time \/ UNCHANGED vars
  BY <1>0, <1>1, <1>8 DEF FinishFlush, EndFlush, Time, Tick, vars, adapterVars, history
<1>9. CASE Crash BY <1>9 DEF Crash, CrashAdapter, Dropped
<1>10. ASSUME NEW z \in Zone, Move(z) PROVE Dropped'
  BY <1>10, MoveEffect DEF Dropped
<1> QED BY <1>2, <1>3, <1>4, <1>5, <1>6, <1>7, <1>8, <1>9, <1>10 DEF Next

LEMMA SpawnKeeps ==
    ASSUME RestoreSpawn
    PROVE  boot = "spawn" /\ boot' = "up" /\ UNCHANGED <<jobs, file, writing, gens, now>>
<1>1. boot = "spawn" BY ZenonT(30) DEF RestoreSpawn
<1>2. boot' = "up" BY ZenonT(30) DEF RestoreSpawn
<1>3. UNCHANGED <<jobs, file, writing, drop, now, gens, timezone>>
  BY ZenonT(20) DEF RestoreSpawn
<1> QED BY <1>1, <1>2, <1>3

LEMMA NextHalfWritten ==
    ASSUME HalfWritten, [Next]_vars
    PROVE  HalfWritten'
<1> USE DEF HalfWritten
<1>1. CASE UNCHANGED <<file, writing>> BY <1>1
<1>2. ASSUME NEW c \in Caller, CallerStep(c) PROVE HalfWritten'
  BY <1>2 DEF CallerStep, CheckOwned, CancelGuard, ReadForUpdate, DoCancel, cancel, Check,
     Abort, AbortOld, Insert, insert, flush_jobs, Spawn, spawn_task, TriggerNow,
     adapterVars
<1>3. ASSUME NEW c \in Caller, \/ Disconnect(c) \/ \E r \in Requests : Call(c, r)
      PROVE  HalfWritten'
  BY <1>3 DEF Disconnect, Call, adapterVars
<1>4. ASSUME NEW l \in Loop, ArmJob(l) \/ FireJob(l) \/ ReturnJob(l)
      PROVE  HalfWritten'
  BY <1>4 DEF ArmJob, Arm, FireJob, Fire, ReturnJob, Return, flush_jobs
<1>5. ASSUME NEW a \in Actor, RunStep(a) PROVE HalfWritten'
  BY <1>5 DEF RunStep, GateMet, GateSkip, Retry, GiveUp, Succeed, Retire, cancel,
     flush_jobs, KeepRegistry, adapterVars
<1>6. CASE BootStep \/ FinishFlush \/ Time \/ Crash
  <2>1. CASE Load \/ RestoreFilter \/ RestoreSpawn
    BY <1>1, <2>1, SpawnKeeps DEF Load, RestoreFilter
  <2>2. CASE RestoreRemove BY <2>2 DEF RestoreRemove, flush_jobs
  <2>3. CASE FinishFlush \/ Time \/ Crash
    BY <2>3 DEF FinishFlush, EndFlush, Time, Tick, Crash, CrashAdapter
  <2> QED BY <1>6, <2>1, <2>2, <2>3, BootEffect
<1>7. CASE UNCHANGED vars BY <1>1, <1>7 DEF vars, adapterVars
<1>8. ASSUME NEW z \in Zone, Move(z) PROVE HalfWritten' BY <1>1, <1>8, MoveEffect
<1> QED BY <1>2, <1>3, <1>4, <1>5, <1>6, <1>7, <1>8 DEF Next

\* Registry, file, tasks, runs and what restore is about to drop hang together
\* through every interleaving and crash: what the mapping to a table needs.
THEOREM SchedulerInvariant == Spec => []SchedulerInv
<1>1. Init => SchedulerInv
  BY InitTypes, InitRegistry, InitTasks, InitFired, InitRef DEF SchedulerInv
<1>2. SchedulerInv /\ [Next]_vars => SchedulerInv'
  BY NextTypes, NextRegistry, NextTasks, NextFired, NextHands, NextCounted, NextDropped,
     NextHalfWritten
  DEF SchedulerInv, RefInv
<1> QED BY <1>1, <1>2, PTL DEF Spec

-----------------------------------------------------------------------------
(***************************************************************************)
(* A registered job has its task: the inductive invariant.                 *)
(***************************************************************************)
\* What keeps the job under a name running: the task whose handle it is, or a
\* registration that is about to spawn one.
HasTask(i) == tasks[i] # NoLoop /\ ~loops[tasks[i]].doomed

Tend(i) == jobs[i] \notin stranded \cup retimed \cup {NoJob} =>
               \/ HasTask(i)
               \/ \E c \in Caller : pc[c] = "spawn" /\ req[c].id = i
               \/ Ended(jobs[i].opts)

Tended == boot = "up" => \A i \in JobId \ raced : Tend(i)

\* Between its steps restore() has every job in hand: it is to be dropped, or
\* it gets a task.
Restoring ==
    /\ boot = "remove" => \A i \in JobId \ raced :
           jobs[i] # NoJob /\ jobs[i].opts.mode = "delay" => i \in drop
    /\ boot = "spawn" => \A i \in JobId \ raced : jobs[i] # NoJob => i \in revive

\* A task that has its handle keeps it, or its job is over or gone.
LEMMA TendKept ==
    ASSUME TypeOK, TypeOK', NEW i \in JobId, Tend(i),
           jobs'[i] \in {jobs[i], NoJob}, stranded \subseteq stranded',
           now <= now', retimed \subseteq retimed',
           \/ timezone' = timezone \/ jobs[i].opts.zone \in Zone
           \/ jobs[i] \in retimed' \cup {NoJob},
           HasTask(i) => \/ HasTask(i)'
                         \/ jobs'[i] = NoJob \/ Ended(jobs[i].opts),
           \A c \in Caller : pc[c] = "spawn" /\ req[c].id = i =>
               \/ pc'[c] = "spawn" /\ req'[c].id = i
               \/ jobs'[i] \in stranded' \cup {NoJob}
               \/ HasTask(i)'
    PROVE  Tend(i)'
<1> SUFFICES ASSUME jobs'[i] \notin stranded' \cup retimed' \cup {NoJob}
             PROVE  \/ HasTask(i)'
                    \/ \E c \in Caller : pc'[c] = "spawn" /\ req'[c].id = i
                    \/ Ended(jobs[i].opts)'
  BY DEF Tend
<1>1. jobs'[i] = jobs[i] /\ jobs[i] \notin stranded \cup retimed \cup {NoJob} OBVIOUS
<1>2. Ended(jobs[i].opts) => Ended(jobs[i].opts)'
  <2>1. jobs[i] \in Job BY <1>1 DEF TypeOK, AdapterTypeOK, Registry
  <2>2. /\ jobs[i].opts \in Options /\ timezone \in Zone /\ now \in Nat /\ now' \in Nat
    BY <2>1 DEF TypeOK, AdapterTypeOK, Job
  <2>3. EndsAt(jobs[i].opts) \in Nat BY <2>2, ReadingType
  <2>4. EndsAt(jobs[i].opts)' = EndsAt(jobs[i].opts) BY <1>1 DEF EndsAt, ZoneOf
  <2> QED BY <1>1, <2>2, <2>3, <2>4 DEF Ended
<1> QED BY <1>1, <1>2 DEF Tend

\* An abort through one name's handle leaves the tasks of the others alone.
LEMMA AbortSpares ==
    ASSUME TypeOK, Handles, NEW id \in JobId, NEW i \in JobId, i # id,
           NEW ls \in [Loop -> Task],
           \A l \in Loop : ls[l].doomed = loops[l].doomed,
           loops' = Aborted(id, ls), tasks' = [tasks EXCEPT ![id] = NoLoop],
           HasTask(i)
    PROVE  HasTask(i)'
<1>1. tasks'[i] = tasks[i] /\ tasks[i] \in Loop
  BY DEF HasTask, TypeOK, AdapterTypeOK
<1>2. tasks[i] # tasks[id] BY <1>1 DEF HasTask, Handles
<1>3. loops'[tasks[i]] = ls[tasks[i]] BY <1>1, <1>2, AbortEffect
<1> QED BY <1>1, <1>3 DEF HasTask

LEMMA CallerTended ==
    ASSUME TypeOK, TypeOK', TaskInv, Tended, NEW c \in Caller, CallerStep(c)
    PROVE  Tended'
<1> USE DEF TaskInv
<1> DEFINE id == req[c].id
<1>0. /\ id \in JobId /\ loops \in [Loop -> Task] /\ now \in Nat
      /\ tasks \in [JobId -> Loop \cup {NoLoop}] /\ pc \in [Caller -> PC]
      /\ \A l \in Loop : loops[l].id \in JobId
  BY DEF Request, TypeOK, AdapterTypeOK, Task
<1>1. /\ boot' = boot /\ now' = now /\ stranded' = stranded /\ raced \subseteq raced'
      /\ UNCHANGED <<timezone, retimed>>
  BY ZoneKept DEF CallerStep, CheckOwned, CancelGuard, ReadForUpdate, DoCancel, cancel,
     Check, Abort, AbortOld, Insert, insert, Spawn, spawn_task, TriggerNow,
     adapterVars, history
<1> SUFFICES ASSUME boot = "up", NEW i \in JobId, i \notin raced, i \notin raced'
             PROVE  Tend(i)'
  BY <1>1 DEF Tended
<1>2. Tend(i) BY DEF Tended
<1>3. \A d \in Caller : d # c => pc'[d] = pc[d] /\ req'[d].id = req[d].id
  BY <1>0 DEF CallerStep, CheckOwned, CancelGuard, ReadForUpdate, DoCancel,
     Check, Abort, Insert, Spawn, TriggerNow, Goto, TypeOK, history
<1>4. CASE CheckOwned(c) \/ CancelGuard(c) \/ ReadForUpdate(c) \/ TriggerNow(c)
           \/ Check(c)
  <2>1. UNCHANGED <<jobs, tasks, loops>> /\ pc[c] # "spawn"
    BY <1>4 DEF CheckOwned, CancelGuard, ReadForUpdate, TriggerNow, Check,
       adapterVars
  <2> QED BY <1>0, <1>1, <1>2, <1>3, <2>1, TendKept DEF HasTask
<1>5. CASE DoCancel(c)
  <2>1. /\ loops' = Aborted(id, loops)
        /\ tasks' = [tasks EXCEPT ![id] = NoLoop] /\ pc[c] # "spawn"
        /\ \A k \in JobId : jobs'[k] = IF k = id THEN NoJob ELSE jobs[k]
    BY <1>0, <1>5 DEF DoCancel, cancel, TypeOK, AdapterTypeOK, Registry
  <2>2. i # id /\ HasTask(i) => HasTask(i)' BY <1>0, <2>1, AbortSpares
  <2> QED BY <1>0, <1>1, <1>2, <1>3, <2>1, <2>2, TendKept
<1>6. CASE Abort(c)
  <2>1. /\ loops' = Aborted(id, loops) /\ jobs' = jobs
        /\ tasks' = [tasks EXCEPT ![id] = NoLoop] /\ pc[c] = "abort"
    BY <1>6 DEF Abort, AbortOld
  <2>2. i = id => jobs[i] = NoJob BY <2>1 DEF Windows, Window
  <2>3. i # id /\ HasTask(i) => HasTask(i)' BY <1>0, <2>1, AbortSpares
  <2> QED BY <1>0, <1>1, <1>2, <1>3, <2>1, <2>2, <2>3, TendKept
<1>7. CASE Insert(c)
  <2>1. /\ UNCHANGED <<tasks, loops, req>> /\ pc[c] = "insert"
        /\ pc'[c] = "spawn" /\ \A k \in JobId : k # id => jobs'[k] = jobs[k]
    BY <1>0, <1>7
    DEF Insert, insert, Goto, history, TypeOK, AdapterTypeOK, Registry
  <2>2. CASE i = id BY <2>1, <2>2 DEF Tend
  <2>3. CASE i # id
    BY <1>0, <1>1, <1>2, <1>3, <2>1, <2>3, TendKept DEF HasTask
  <2> QED BY <2>2, <2>3
<1>8. CASE Spawn(c)
  <2>1. PICK m \in Loop :
           /\ loops[m].at = "off"
           /\ loops' = [loops EXCEPT ![m] = [Idle EXCEPT !.at = "top",
                                                         !.id = id]]
           /\ tasks' = [tasks EXCEPT ![id] = m]
    BY <1>8 DEF Spawn, spawn_task
  <2>2. /\ ~loops'[m].doomed /\ m # NoLoop
        /\ \A l \in Loop : l # m => loops'[l] = loops[l]
        /\ \A k \in JobId : tasks'[k] = IF k = id THEN m ELSE tasks[k]
        /\ jobs' = jobs
    BY <1>0, <1>8, <2>1, AdapterAssumption DEF Idle, Spawn, spawn_task
  <2>3. CASE i = id BY <1>0, <2>2, <2>3 DEF Tend, HasTask
  <2>4. CASE i # id
    <3>1. HasTask(i) => tasks[i] # m BY <2>1 DEF HasTask, Handles
    <3>2. HasTask(i) => HasTask(i)'
      BY <1>0, <2>2, <2>4, <3>1 DEF HasTask
    <3> QED BY <1>0, <1>1, <1>2, <1>3, <2>2, <2>4, <3>2, TendKept
  <2> QED BY <2>3, <2>4
<1> QED BY <1>4, <1>5, <1>6, <1>7, <1>8 DEF CallerStep

LEMMA RunTended ==
    ASSUME SchedulerInv, TypeOK', Tended, NEW a \in Actor, RunStep(a)
    PROVE  Tended'
<1> USE DEF SchedulerInv, RefInv, TaskInv
<1>0. /\ run[a].phase # "none" /\ run[a].job \in Job /\ now \in Nat
      /\ a \in Loop => loops[a].at = "run"
      /\ loops \in [Loop -> Task] /\ pc \in [Caller -> PC]
      /\ tasks \in [JobId -> Loop \cup {NoLoop}]
      /\ Back(a) \in [Loop -> Task]
  <2>1. run[a].phase # "none"
    BY DEF RunStep, GateMet, GateSkip, Retry, GiveUp, Succeed, Retire
  <2>2. a \in Loop => loops[a].at = "run" BY <2>1 DEF Linked
  <2> QED BY <2>1, <2>2, BackType DEF TypeOK, Run, AdapterTypeOK
<1>1. \A l \in Loop : Back(a)[l].doomed = loops[l].doomed
  BY <1>0 DEF Back, Task
<1>2. UNCHANGED <<boot, now, stranded, raced, req, timezone, retimed>>
  BY ZoneKept DEF RunStep, GateMet, GateSkip, Retry, GiveUp, Succeed, Retire,
     KeepRegistry, cancel, adapterVars, history
<1> SUFFICES ASSUME boot = "up", NEW i \in JobId, i \notin raced
             PROVE  Tend(i)'
  BY <1>2 DEF Tended
<1>3. Tend(i) BY DEF Tended
<1>4. ASSUME NEW c \in Caller, pc[c] = "spawn" PROVE pc'[c] = "spawn"
  BY <1>0, <1>4 DEF HandIdle, RunStep, GateMet, GateSkip, Retry, GiveUp, Succeed, Retire,
     EndRun
<1>5. CASE ~Retire(a)
  <2>1. UNCHANGED <<jobs, tasks>> /\ (loops' = loops \/ loops' = Back(a))
    BY <1>5 DEF RunStep, GateMet, GateSkip, Retry, GiveUp, Succeed, EndRun,
       KeepRegistry, adapterVars
  <2>2. HasTask(i) => HasTask(i)' BY <1>0, <1>1, <2>1 DEF HasTask
  <2> QED BY <1>0, <1>2, <1>3, <1>4, <2>1, <2>2, TendKept
<1>6. CASE Retire(a)
  <2> DEFINE id == run[a].job.id
  <2>1. /\ id \in JobId /\ loops' = Aborted(id, Back(a))
        /\ tasks' = [tasks EXCEPT ![id] = NoLoop]
        /\ \A k \in JobId : jobs'[k] = IF k = id THEN NoJob ELSE jobs[k]
    BY <1>0, <1>6 DEF Retire, cancel, Job, TypeOK, AdapterTypeOK, Registry
  <2>2. i # id /\ HasTask(i) => HasTask(i)' BY <1>0, <1>1, <2>1, AbortSpares
  <2> QED BY <1>0, <1>2, <1>3, <1>4, <2>1, <2>2, TendKept
<1> QED BY <1>5, <1>6

LEMMA LoopTended ==
    ASSUME SchedulerInv, TypeOK', Tended, NEW l \in Loop,
           ArmJob(l) \/ FireJob(l) \/ ReturnJob(l)
    PROVE  Tended'
<1> USE DEF SchedulerInv, TaskInv
<1>0. /\ loops \in [Loop -> Task] /\ l # NoLoop /\ now \in Nat
      /\ tasks \in [JobId -> Loop \cup {NoLoop}]
      /\ \A i \in JobId : tasks[i] = l => loops[l].id = i
  BY AdapterAssumption DEF TypeOK, AdapterTypeOK, Handles
<1>1. /\ UNCHANGED <<boot, now, stranded, pc, req, timezone, retimed>>
      /\ raced \subseteq raced'
      /\ \A m \in Loop : m # l => loops'[m] = loops[m]
  <2>0. UNCHANGED <<timezone, retimed>> BY ZoneKept
  <2>1. CASE ArmJob(l) BY <1>0, <2>1 DEF ArmJob, Arm, history
  <2>2. CASE FireJob(l) BY <1>0, <2>2 DEF FireJob, Fire
  <2>3. CASE ReturnJob(l) BY <1>0, <2>3 DEF ReturnJob, Return
  <2> QED BY <2>0, <2>1, <2>2, <2>3
<1> SUFFICES ASSUME boot = "up", NEW i \in JobId, i \notin raced, i \notin raced'
             PROVE  Tend(i)'
  BY <1>1 DEF Tended
<1>2. Tend(i) BY DEF Tended
<1>3. jobs'[i] \in {jobs[i], NoJob}
  BY DEF ArmJob, Arm, FireJob, Fire, ReturnJob, Return, TypeOK, AdapterTypeOK,
     Registry
<1>4. tasks'[i] = tasks[i] \/ tasks[i] = l
  BY DEF ArmJob, Arm, FireJob, Fire, ReturnJob, Return, Detached
<1>5. CASE tasks[i] # l
  BY <1>0, <1>1, <1>2, <1>3, <1>4, <1>5, TendKept DEF HasTask
<1>6. CASE tasks[i] = l /\ loops'[l].doomed = loops[l].doomed /\ tasks' = tasks
  BY <1>0, <1>1, <1>2, <1>3, <1>6, TendKept DEF HasTask
<1>7. CASE tasks[i] = l /\ (jobs'[i] = NoJob \/ Ended(jobs[i].opts))
  BY <1>0, <1>1, <1>2, <1>3, <1>7, TendKept DEF HasTask
<1>8. CASE tasks[i] = l /\ loops[l].doomed
  BY <1>0, <1>1, <1>2, <1>3, <1>8, TendKept DEF HasTask
<1>9. ASSUME tasks[i] = l
      PROVE  \/ loops'[l].doomed = loops[l].doomed /\ tasks' = tasks
             \/ jobs'[i] = NoJob \/ Ended(jobs[i].opts) \/ loops[l].doomed
  <2>1. loops[l].id = i BY <1>0, <1>9
  <2>2. CASE ArmJob(l)
    <3>1. CASE jobs[i] = NoJob \/ Ended(jobs[i].opts) BY <1>3, <3>1
    <3>2. CASE /\ tasks' = tasks
               /\ loops' = [loops EXCEPT ![l] =
                     [@ EXCEPT !.at = "sleep", !.job = jobs[i],
                               !.due = NextFire(jobs[i].opts)]]
      BY <1>0, <3>2 DEF Task
    <3> QED BY <2>1, <2>2, <3>1, <3>2 DEF ArmJob, Arm
  <2>3. CASE FireJob(l) BY <1>0, <2>3 DEF FireJob, Fire, Task
  <2>4. CASE ReturnJob(l)
    BY <1>0, <1>3, <2>1, <2>4
    DEF ReturnJob, Return, Task, TypeOK, AdapterTypeOK, Registry
  <2> QED BY <2>2, <2>3, <2>4
<1> QED BY <1>5, <1>6, <1>7, <1>8, <1>9

\* restore() gives each job it has in hand a task.
LEMMA BootTended ==
    ASSUME SchedulerInv, TypeOK', Tended, Restoring, BootStep
    PROVE  Tended' /\ Restoring'
<1> USE DEF SchedulerInv
<1>0. UNCHANGED <<pc, req, raced, stranded>> BY BootEffect
<1>1. CASE Load BY <1>1 DEF Load, Tended, Restoring
<1>2. CASE RestoreFilter
  <2>1. \A i \in JobId : jobs[i] # NoJob /\ jobs[i].opts.mode = "delay"
                            => i \in drop'
    BY <1>2 DEF RestoreFilter, NotRestored
  <2> QED BY <1>2, <2>1 DEF RestoreFilter, Tended, Restoring
<1>3. CASE RestoreRemove
  <2>1. ASSUME NEW i \in JobId \ raced', jobs'[i] # NoJob PROVE i \in revive'
    <3>1. i \notin drop /\ jobs[i] # NoJob BY <1>3, <2>1 DEF RestoreRemove
    <3>2. jobs[i].opts.mode # "delay"
      BY <1>0, <1>3, <2>1, <3>1 DEF RestoreRemove, Restoring
    <3> QED BY <1>3, <2>1, <3>1, <3>2 DEF RestoreRemove
  <2> QED BY <1>3, <2>1 DEF RestoreRemove, Tended, Restoring
<1>4. CASE RestoreSpawn
  <2>1. PICK t \in [revive -> {l \in Loop : loops[l].at = "off"}] :
           /\ loops' = [l \in Loop |->
                  IF \E i \in revive : t[i] = l
                  THEN [Idle EXCEPT !.at = "top",
                        !.id = CHOOSE i \in revive : t[i] = l]
                  ELSE loops[l]]
           /\ tasks' = [i \in JobId |-> IF i \in revive THEN t[i]
                                        ELSE tasks[i]]
    BY <1>4 DEF RestoreSpawn
  <2>2. boot = "spawn" /\ boot' = "up" /\ jobs' = jobs BY <1>4, SpawnKeeps
  <2>3. ASSUME NEW i \in JobId \ raced', jobs'[i] # NoJob PROVE HasTask(i)'
    <3>1. i \in revive BY <1>0, <2>2, <2>3 DEF Restoring
    <3>2. tasks'[i] = t[i] /\ t[i] \in Loop BY <2>1, <3>1
    <3>3. ~loops'[t[i]].doomed BY <2>1, <3>1, <3>2 DEF Idle
    <3> QED BY <3>2, <3>3, AdapterAssumption DEF HasTask
  <2> QED BY <2>2, <2>3 DEF Tended, Tend, Restoring
<1> QED BY <1>1, <1>2, <1>3, <1>4, BootEffect

\* What restore() has in hand only ever goes, but for a name in dispute.
LEMMA RestoringKept ==
    ASSUME Restoring, boot' = boot, drop' = drop, revive' = revive,
           raced \subseteq raced',
           \A i \in JobId \ raced' :
               boot # "up" => jobs'[i] \in {jobs[i], NoJob}
    PROVE  Restoring'
BY DEF Restoring

LEMMA NextTended ==
    ASSUME SchedulerInv, TypeOK', Tended, Restoring, [Next]_vars
    PROVE  Tended' /\ Restoring'
<1> USE DEF SchedulerInv
<1>0. /\ now \in Nat /\ jobs \in Registry
      /\ \A c \in Caller : req[c].id \in JobId
  BY DEF TypeOK, AdapterTypeOK, Request
<1>1. ASSUME UNCHANGED <<jobs, tasks, loops, boot, drop, revive, raced>>,
             now' \in Nat, now' >= now, stranded \subseteq stranded',
             retimed \subseteq retimed',
             \A i \in JobId : \/ timezone' = timezone \/ jobs[i].opts.zone \in Zone
                              \/ jobs[i] \in retimed' \cup {NoJob},
             \A c \in Caller : pc[c] = "spawn" =>
                 \/ pc'[c] = "spawn" /\ req'[c].id = req[c].id
                 \/ jobs[req[c].id] \in stranded' \cup {NoJob}
      PROVE  Tended' /\ Restoring'
  <2>1. ASSUME boot = "up", NEW i \in JobId \ raced PROVE Tend(i)'
    BY <1>0, <1>1, <2>1, TendKept DEF Tended, HasTask
  <2> QED BY <1>1, <2>1, RestoringKept DEF Tended
<1>2. ASSUME NEW c \in Caller, NEW r \in Requests, Call(c, r)
      PROVE  Tended' /\ Restoring'
  <2>1. \A d \in Caller : pc[d] = "spawn" =>
            pc'[d] = "spawn" /\ req'[d].id = req[d].id
    BY <1>2 DEF Call, Goto, TypeOK
  <2> QED BY <1>0, <1>1, <1>2, <2>1, ZoneKept DEF Call, adapterVars
<1>3. ASSUME NEW c \in Caller, Disconnect(c) PROVE Tended' /\ Restoring'
  <2>1. \A d \in Caller : pc[d] = "spawn" =>
            \/ pc'[d] = "spawn" /\ req'[d].id = req[d].id
            \/ jobs[req[d].id] \in stranded' \cup {NoJob}
    BY <1>3 DEF Disconnect, Goto, TypeOK
  <2> QED BY <1>0, <1>1, <1>3, <2>1, ZoneKept DEF Disconnect, adapterVars
<1>4. ASSUME NEW c \in Caller, Insert(c) PROVE Tended' /\ Restoring'
  <2>1. /\ pc[c] \in Window /\ UNCHANGED <<boot, drop, revive, raced>>
        /\ \A i \in JobId : i # req[c].id => jobs'[i] = jobs[i]
    BY <1>0, <1>4 DEF Insert, insert, Window, history, Registry
  <2>2. boot # "up" => req[c].id \in raced
    BY <2>1 DEF TaskInv, Windows
  <2>3. Restoring' BY <1>0, <2>1, <2>2, RestoringKept
  <2> QED BY <1>4, <2>3, CallerTended DEF CallerStep
<1>5. ASSUME NEW c \in Caller, CallerStep(c), ~Insert(c)
      PROVE  Tended' /\ Restoring'
  <2>1. /\ UNCHANGED <<boot, drop, revive>> /\ raced \subseteq raced'
        /\ \A i \in JobId : jobs'[i] \in {jobs[i], NoJob}
    BY <1>0, <1>5 DEF CallerStep, CheckOwned, CancelGuard, ReadForUpdate, DoCancel,
       cancel, Check, Abort, AbortOld, Spawn, spawn_task, TriggerNow, adapterVars,
       history, Registry
  <2> QED BY <1>5, <2>1, RestoringKept, CallerTended
<1>6. ASSUME NEW l \in Loop, ArmJob(l) \/ FireJob(l) \/ ReturnJob(l)
      PROVE  Tended' /\ Restoring'
  <2>1. /\ UNCHANGED <<boot, drop, revive>> /\ raced \subseteq raced'
        /\ \A i \in JobId : jobs'[i] \in {jobs[i], NoJob}
    BY <1>0, <1>6 DEF ArmJob, Arm, FireJob, Fire, ReturnJob, Return, history, Registry
  <2> QED BY <1>6, <2>1, RestoringKept, LoopTended
<1>7. ASSUME NEW a \in Actor, RunStep(a) PROVE Tended' /\ Restoring'
  <2>1. /\ UNCHANGED <<boot, drop, revive, raced>>
        /\ \A i \in JobId : jobs'[i] \in {jobs[i], NoJob}
    BY <1>0, <1>7 DEF RunStep, GateMet, GateSkip, Retry, GiveUp, Succeed, Retire, cancel,
       KeepRegistry, adapterVars, history, Registry
  <2> QED BY <1>7, <2>1, RestoringKept, RunTended
<1>8. CASE BootStep BY <1>8, BootTended
<1>9. CASE FinishFlush \/ Time \/ UNCHANGED vars
  BY <1>0, <1>1, <1>9 DEF FinishFlush, EndFlush, Time, Tick, vars, adapterVars, history
<1>10. CASE Crash BY <1>10 DEF Crash, CrashAdapter, Tended, Restoring
<1>11. ASSUME NEW z \in Zone, Move(z) PROVE Tended' /\ Restoring'
  <2>1. \A i \in JobId : jobs[i].opts.zone \in Zone \/ jobs[i] \in retimed' \cup {NoJob}
    BY <1>11 DEF Move
  <2>2. retimed \subseteq retimed' BY <1>11 DEF Move
  <2> QED BY <1>0, <1>1, <1>11, <2>1, <2>2, MoveEffect
<1> QED BY <1>2, <1>3, <1>4, <1>5, <1>6, <1>7, <1>8, <1>9, <1>10, <1>11 DEF Next

\* Whatever is cancelled, edited, run by hand, retired or restarted, a job that
\* is registered has a task that has not been stopped, is being given one, or
\* is over: but for a name two operations registered at once, a request dropped
\* between the two steps, and an end that was moved with the time zone.
THEOREM JobsHaveTasksAlways == Spec => []JobsHaveTasks
<1> DEFINE Inv == SchedulerInv /\ Tended /\ Restoring
<1>1. Init => Tended /\ Restoring
  BY DEF Init, Tended, Restoring
<1>2. SchedulerInv /\ SchedulerInv' /\ Tended /\ Restoring /\ [Next]_vars
        => (Tended /\ Restoring)'
  BY NextTended DEF SchedulerInv
<1>3. SchedulerInv /\ Tended => JobsHaveTasks
  <2> SUFFICES ASSUME SchedulerInv, Tended, boot = "up", NEW i \in JobId \ raced,
                      HasTask(i)
               PROVE  \E l \in Loop : Live(l) /\ loops[l].id = i
    BY DEF JobsHaveTasks, Tended, Tend
  <2>1. tasks[i] \in Loop
    BY DEF HasTask, SchedulerInv, TypeOK, AdapterTypeOK
  <2>2. Live(tasks[i]) /\ loops[tasks[i]].id = i
    BY DEF HasTask, Live, SchedulerInv, TaskInv, Handles
  <2> QED BY <2>1, <2>2
<1> QED BY <1>1, <1>2, <1>3, SchedulerInvariant, PTL DEF Spec

-----------------------------------------------------------------------------
(***************************************************************************)
(* Every step is a step of JobTable, or shows nothing.                     *)
(***************************************************************************)
\* One, when the process is up before and after: its own case of Next.
Shows == [Promise!Next]_(Promise!vars)

Awake == boot # "down" /\ boot' # "down"

LEMMA Silent ==
    ASSUME UNCHANGED <<Table, Runs, fired, done, raced, gens, now, timezone, retimed>>
    PROVE  Shows
BY DEF Shows, Promise!vars

LEMMA RunsAre ==
    ASSUME TypeOK, NEW a \in Actor
    PROVE  /\ Runs[a] = IF run[a].phase = "none" THEN NoJob ELSE run[a].job
           /\ Runs[a] # NoJob <=> run[a].phase # "none"
           /\ Runs[a] # NoJob => Runs[a] = run[a].job
BY DEF TypeOK, Runs

LEMMA RunnersAre == Promise!Runner = Actor
BY DEF Promise!Runner, Actor

\* Who is stopped was running.
LEMMA Stopping ==
    ASSUME TypeOK, NEW A \in SUBSET Actor,
           run' = [b \in Actor |-> IF b \in A THEN NoRun ELSE run[b]]
    PROVE  Promise!Stop({a \in A : Runs[a] # NoJob})
<1>1. \A b \in Actor : Runs'[b] = IF b \in A THEN NoJob ELSE Runs[b]
  BY DEF Runs, NoRun
<1>2. \A b \in Actor : Runs'[b] =
          IF b \in {a \in A : Runs[a] # NoJob} THEN NoJob ELSE Runs[b]
  BY <1>1
<1> QED BY <1>2, RunnersAre DEF Promise!Stop, Runs

\* An abort stops runs of the name's job only.
LEMMA AbortStops ==
    ASSUME SchedulerInv, NEW id \in JobId
    PROVE  {a \in Killed(id) : Runs[a] # NoJob} \subseteq Promise!RunsOf(id)
<1> SUFFICES ASSUME NEW l \in Killed(id), Runs[l] # NoJob
             PROVE  l \in Promise!RunsOf(id)
  BY DEF Promise!RunsOf
<1>1. l \in Loop /\ l \in Actor /\ l = tasks[id] /\ loops[l].at = "run"
  BY DEF Killed, Actor
<1>2. loops[l].id = id
  BY <1>1, AdapterAssumption DEF SchedulerInv, TaskInv, Handles
<1>3. Runs[l] = loops[l].job
  BY <1>1, RunsAre DEF SchedulerInv, TaskInv, Handles
<1>4. loops[l].job.id = id
  BY <1>1, <1>2 DEF SchedulerInv, RegistryInv, Named, Holding
<1> QED BY <1>1, <1>3, <1>4, RunnersAre DEF Promise!RunsOf

LEMMA TakingOut ==
    ASSUME TypeOK, Awake, NEW id \in JobId,
           IF jobs[id] = NoJob THEN jobs' = jobs
           ELSE jobs' = [jobs EXCEPT ![id] = NoJob]
    PROVE  Promise!TakeOut(id)
<1>1. jobs' = [jobs EXCEPT ![id] = NoJob]
  BY DEF TypeOK, AdapterTypeOK, Registry
<1> QED BY <1>1 DEF Promise!TakeOut, Table, Awake

LEMMA CancelShows ==
    ASSUME SchedulerInv, NEW c \in Caller, DoCancel(c), Awake
    PROVE  Shows
<1> DEFINE id == req[c].id
           A == {a \in Killed(id) : Runs[a] # NoJob}
<1>1. id \in JobId /\ TypeOK BY DEF SchedulerInv, TypeOK, Request
<1>2. Promise!TakeOut(id)
  BY <1>1, TakingOut DEF DoCancel, cancel
<1>3. Killed(id) \in SUBSET Actor BY DEF Killed, Actor
<1>4. Promise!Stop(A)
  <2>1. run' = [b \in Actor |-> IF b \in Killed(id) THEN NoRun ELSE run[b]]
    BY DEF DoCancel, Die
  <2> HIDE DEF id
  <2> QED BY <1>1, <1>3, <2>1, Stopping
<1>5. A \subseteq Promise!RunsOf(id) BY <1>1, AbortStops
<1>6. UNCHANGED <<fired, done, raced, gens, now, timezone, retimed>> BY DEF DoCancel, cancel
<1>7. A \in SUBSET Promise!Runner BY <1>3, RunnersAre
<1> HIDE DEF id, A
<1>8. Promise!Cancel(id, A) BY <1>2, <1>4, <1>5, <1>6 DEF Promise!Cancel
<1> QED BY <1>1, <1>7, <1>8 DEF Shows, Promise!Next

LEMMA EndShows ==
    ASSUME TypeOK, NEW A \in SUBSET Actor,
           run' = [b \in Actor |-> IF b \in A THEN NoRun ELSE run[b]],
           UNCHANGED <<Table, fired, done, raced, gens, now, timezone, retimed>>
    PROVE  Shows
<1>1. {a \in A : Runs[a] # NoJob} \in SUBSET Promise!Runner BY RunnersAre
<1>2. Promise!End({a \in A : Runs[a] # NoJob}) BY Stopping DEF Promise!End
<1> QED BY <1>1, <1>2 DEF Shows, Promise!Next

LEMMA InsertShows ==
    ASSUME SchedulerInv, NEW c \in Caller, Insert(c), Awake
    PROVE  Shows
<1> DEFINE id == req[c].id
           j == [id |-> id, gen |-> gens, opts |-> req[c].opts]
<1>1. /\ id \in JobId /\ req[c].opts \in Options /\ gens \in Nat
      /\ jobs \in [JobId -> Job \cup {NoJob}]
  BY DEF SchedulerInv, TypeOK, Request, AdapterTypeOK, Registry
<1>2. /\ jobs' = [jobs EXCEPT ![id] = j] /\ gens' = gens + 1
      /\ UNCHANGED <<run, fired, done, raced, now, timezone, retimed>>
  BY DEF Insert, insert, history
<1>3. jobs[id] = NoJob \/ id \in raced
  BY DEF Insert, SchedulerInv, TaskInv, Windows, Window
<1>4. j \in Job /\ j.id = id /\ j.gen = gens BY <1>1 DEF Job
<1>5. Table = jobs /\ Table' = jobs' BY DEF Awake, Table
<1>6. Runs' = Runs BY <1>2 DEF Runs
<1> HIDE DEF id, j
<1>7. Table'[id] = j BY <1>1, <1>2, <1>5
<1>8. Promise!Register(id)
  BY <1>2, <1>3, <1>4, <1>5, <1>6, <1>7 DEF Promise!Register
<1> QED BY <1>1, <1>8 DEF Shows, Promise!Next

LEMMA TriggerShows ==
    ASSUME SchedulerInv, NEW c \in Caller, TriggerNow(c), Awake
    PROVE  Shows
<1> DEFINE id == req[c].id
           j == jobs[id]
<1>1. /\ id \in JobId /\ run \in [Actor -> Run] /\ c \in Actor
      /\ UNCHANGED <<adapterVars, history>> /\ TypeOK
  BY DEF TriggerNow, SchedulerInv, TypeOK, Request, Actor
<1>2. Table = jobs /\ Table' = jobs BY <1>1 DEF Awake, Table, adapterVars
<1>3. CASE j = NoJob
  <2>1. Runs' = Runs BY <1>3 DEF TriggerNow, Runs
  <2> QED BY <1>1, <1>2, <2>1, Silent DEF adapterVars, history
<1>4. CASE j # NoJob
  <2>1. run[c].phase = "none"
    BY DEF TriggerNow, SchedulerInv, RefInv, HandIdle
  <2>2. /\ \A a \in Actor : a # c => run'[a] = run[a]
        /\ run'[c].phase # "none" /\ run'[c].job = j
    BY <1>1, <1>4 DEF TriggerNow, Begin
  <2>3. Runs[c] = NoJob /\ Runs' = [Runs EXCEPT ![c] = j]
    BY <1>1, <2>1, <2>2 DEF Runs
  <2>4. Promise!StartNow(c, id)
    BY <1>1, <1>2, <1>4, <2>3 DEF Promise!StartNow, adapterVars, history
  <2> QED BY <1>1, <2>4 DEF Shows, Promise!Next
<1> QED BY <1>3, <1>4

LEMMA FireShows ==
    ASSUME SchedulerInv, NEW l \in Loop, FireJob(l), Awake
    PROVE  Shows
<1> DEFINE j == loops[l].job
<1>1. /\ loops[l].at = "sleep" /\ now >= loops[l].due /\ TypeOK /\ l \in Actor
      /\ run \in [Actor -> Run] /\ loops \in [Loop -> Task]
      /\ UNCHANGED <<jobs, done, raced, gens, now, timezone, retimed>>
  BY DEF FireJob, Fire, SchedulerInv, TypeOK, AdapterTypeOK, Actor
<1>2. /\ j \in Job /\ j.id \in JobId /\ j.id = loops[l].id
  BY <1>1 DEF SchedulerInv, TypeOK, AdapterTypeOK, RegistryInv, Named, Holding, Task, Job
<1>3. Runs[l] = NoJob
  BY <1>1 DEF Runs, SchedulerInv, Linked
<1>4. Runs' = [Runs EXCEPT ![l] = j]
  <2>1. \A a \in Actor : a # l => run'[a] = run[a]
    BY <1>1 DEF FireJob, Begin
  <2>2. run'[l].phase # "none" /\ run'[l].job = j
    BY <1>1 DEF FireJob, Begin
  <2> HIDE DEF j
  <2> QED BY <1>1, <2>1, <2>2 DEF Runs
<1>5. Table = jobs /\ Table' = jobs BY <1>1 DEF Awake, Table
<1>6. j.opts.mode = "once" =>
          \/ j.opts.at + Promise!Shift(j) <= now
          \/ j.opts.zone \notin Zone /\ (j.id \in raced \/ j \in retimed)
  BY <1>1 DEF SchedulerInv, FiredInv, Shifted, Due, Instant, ZoneOf, Promise!Shift
<1>7. j.id \in raced \/ (j = jobs[j.id]
                         /\ (OneTime(j.opts) => j \in retimed \/ j \notin fired))
  <2> SUFFICES ASSUME j.id \notin raced
               PROVE  j = jobs[j.id] /\ (j \in retimed \/ j \notin fired)
    OBVIOUS
  <2>1. ~loops[l].doomed BY <1>1 DEF SchedulerInv, TaskInv, Handles
  <2>2. j = jobs[j.id]
    BY <1>1, <1>2, <2>1 DEF SchedulerInv, TaskInv, Tasks, Holding
  <2>3. j \in retimed \/ j \notin fired BY <1>1 DEF SchedulerInv, FiredInv
  <2> QED BY <2>2, <2>3
<1>8. fired' = IF OneTime(j.opts) THEN fired \cup {j} ELSE fired
  BY DEF FireJob
<1> HIDE DEF j
<1>9. Runs'[l] = j BY <1>1, <1>4 DEF Runs
<1>90. /\ Runs'[l].opts.mode = "once" =>
              \/ Runs'[l].opts.at + Promise!Shift(Runs'[l]) <= now
              \/ Runs'[l].opts.zone \notin Zone /\ (j.id \in raced \/ Runs'[l] \in retimed)
  BY <1>6, <1>9
<1>10. Promise!StartDue(l, j.id)
  BY <1>1, <1>2, <1>3, <1>4, <1>5, <1>7, <1>8, <1>9, <1>90
  DEF Promise!StartDue, Promise!OneTime, OneTime
<1> QED BY <1>1, <1>2, <1>10 DEF Shows, Promise!Next

LEMMA RetireShows ==
    ASSUME SchedulerInv, NEW a \in Actor, Retire(a), Awake
    PROVE  Shows
<1> DEFINE id == run[a].job.id
           K == (Killed(id) \ {a}) \cup {a}
           A == {b \in K : Runs[b] # NoJob}
<1>1. TypeOK /\ run[a].phase # "none" /\ run[a].job \in Job /\ id \in JobId
  BY DEF Retire, SchedulerInv, TypeOK, Run, Job
<1>2. Promise!TakeOut(id)
  BY <1>1, TakingOut DEF Retire, cancel
<1>3. K \in SUBSET Actor BY DEF Killed, Actor
<1>4. Promise!Stop(A)
  <2>1. run' = [b \in Actor |-> IF b \in K THEN NoRun ELSE run[b]]
    BY DEF Retire
  <2> HIDE DEF K
  <2> QED BY <1>1, <1>3, <2>1, Stopping
<1>5. Runs[a] = run[a].job /\ Runs[a] # NoJob BY <1>1, RunsAre
<1>6. A \subseteq Promise!RunsOf(id)
  <2>1. {b \in Killed(id) : Runs[b] # NoJob} \subseteq Promise!RunsOf(id)
    BY <1>1, AbortStops
  <2>2. a \in Promise!RunsOf(id) BY <1>5, RunnersAre DEF Promise!RunsOf
  <2> QED BY <2>1, <2>2
<1>7. /\ UNCHANGED <<fired, raced, gens, now, timezone, retimed>>
      /\ done' = done \cup {Runs[a]} /\ Runs[a].opts.oneShot
  BY <1>5 DEF Retire, cancel
<1>8. A \in SUBSET Promise!Runner /\ a \in A BY <1>3, <1>5, RunnersAre
<1> HIDE DEF id, A
<1>9. Promise!Retire(id, A)
  BY <1>2, <1>4, <1>6, <1>7, <1>8 DEF Promise!Retire
<1> QED BY <1>1, <1>8, <1>9 DEF Shows, Promise!Next

LEMMA ReturnShows ==
    ASSUME SchedulerInv, NEW l \in Loop, ReturnJob(l), Awake
    PROVE  Shows
<1> DEFINE id == loops[l].id
           j == loops[l].job
<1>1. /\ loops[l].at = "return" /\ id \in JobId /\ TypeOK
      /\ UNCHANGED <<run, fired, done, gens, now, timezone, retimed>>
  BY DEF ReturnJob, Return, SchedulerInv, TypeOK, AdapterTypeOK, Task
<1>2. Runs' = Runs BY <1>1 DEF Runs
<1>3. Table = jobs /\ Table' = jobs' BY DEF Awake, Table
<1>4. CASE ~OneTime(j.opts)
  <2>1. jobs' = jobs /\ raced' = raced BY <1>4 DEF ReturnJob, Return
  <2> QED BY <1>1, <1>2, <1>3, <2>1, Silent
<1>5. CASE OneTime(j.opts)
  <2>1. Promise!TakeOut(id)
    BY <1>1, <1>5, TakingOut DEF ReturnJob, Return
  <2>2. j \in fired /\ j.id = id
    BY <1>1, <1>5
    DEF SchedulerInv, RefInv, RunsCounted, RegistryInv, Named, Holding
  <2>3. raced' = IF jobs[id] \notin {NoJob, j} THEN raced \cup {id} ELSE raced
    BY <1>5 DEF ReturnJob
  <2> HIDE DEF id, j
  <2>4. /\ raced' \in {raced, raced \cup {id}}
        /\ jobs[id] \in fired \cup {NoJob} \/ id \in raced'
    BY <2>2, <2>3
  <2>5. Promise!Finish(id)
    BY <1>1, <1>2, <1>3, <2>1, <2>2, <2>4 DEF Promise!Finish
  <2> QED BY <1>1, <2>5 DEF Shows, Promise!Next
<1> QED BY <1>4, <1>5

LEMMA RemoveShows ==
    ASSUME SchedulerInv, RestoreRemove, BootStep
    PROVE  Shows
<1> DEFINE S == {i \in drop : jobs[i] # NoJob}
<1>1. /\ boot = "remove" /\ boot' = "spawn" /\ drop \subseteq JobId
      /\ jobs' = [i \in JobId |-> IF i \in drop THEN NoJob ELSE jobs[i]]
      /\ UNCHANGED <<run, fired, done, raced, gens, now, timezone, retimed>>
  BY BootEffect DEF RestoreRemove, RestoreFilter, SchedulerInv, TypeOK, AdapterTypeOK
<1>2. Runs' = Runs BY <1>1 DEF Runs
<1>3. Table = jobs /\ Table' = jobs' BY <1>1 DEF Table
<1>4. \A i \in S : jobs[i] # NoJob
                   /\ (i \in raced \/ jobs[i] \in retimed \/ Promise!Over(jobs[i]))
  BY <1>1 DEF SchedulerInv, RefInv, Dropped
<1>5. jobs' = [i \in JobId |-> IF i \in S THEN NoJob ELSE jobs[i]]
  BY <1>1
<1>6. S \in SUBSET JobId BY <1>1
<1> HIDE DEF S
<1>7. Promise!Expire(S)
  BY <1>1, <1>2, <1>3, <1>4, <1>5 DEF Promise!Expire
<1> QED BY <1>6, <1>7 DEF Shows, Promise!Next

\* What restore() reads in the wrong zone is what the table judges.
LEMMA FilterShows ==
    ASSUME SchedulerInv, RestoreFilter, BootStep
    PROVE  Shows
<1>1. /\ boot # "down" /\ boot' # "down" /\ retimed' = retimed \cup Misread
      /\ UNCHANGED <<jobs, run, fired, done, raced, gens, now, timezone>>
  BY BootEffect DEF RestoreFilter
<1>2. Runs' = Runs /\ Table = jobs /\ Table' = jobs BY <1>1 DEF Runs, Table
<1>3. Promise!Judge BY <1>1, <1>2 DEF Promise!Judge, Misread
<1> QED BY <1>3 DEF Shows, Promise!Next

\* A change of the time zone shifts the jobs that follow it.
LEMMA MoveShows ==
    ASSUME SchedulerInv, NEW z \in Zone, Move(z)
    PROVE  Shows
<1>1. /\ Runs' = Runs /\ Table = jobs /\ Table' = jobs
  BY MoveEffect DEF Runs, Table
<1>2. Promise!Move(z) BY <1>1, MoveEffect DEF Move, Promise!Move
<1> QED BY <1>2 DEF Shows, Promise!Next

LEMMA CrashShows ==
    ASSUME SchedulerInv, Crash
    PROVE  Shows
<1>1. /\ boot # "down" /\ boot' = "down" /\ file' = file /\ TypeOK
      /\ run' = [a \in Actor |-> NoRun]
      /\ UNCHANGED <<fired, done, raced, gens, now, timezone, retimed>>
  BY DEF Crash, CrashAdapter, SchedulerInv
<1>2. Table = jobs /\ Table' = IF file = Torn THEN NoJobs ELSE file
  BY <1>1 DEF Table
<1>3. CASE Table' = Table
  <2>1. Actor \in SUBSET Actor
        /\ run' = [b \in Actor |-> IF b \in Actor THEN NoRun ELSE run[b]]
    BY <1>1
  <2> QED BY <1>1, <1>3, <2>1, EndShows
<1>4. CASE Table' = NoJobs
  <2>1. Runs' = [a \in Actor |-> NoJob] BY <1>1 DEF Runs, NoRun
  <2>2. Promise!Stop(Promise!Runner) BY <2>1, RunnersAre DEF Promise!Stop
  <2>3. Promise!Lose BY <1>1, <1>4, <2>2 DEF Promise!Lose, NoJobs
  <2> QED BY <2>3 DEF Shows, Promise!Next
<1>5. CASE writing
  BY <1>2, <1>4, <1>5 DEF SchedulerInv, RefInv, HalfWritten
<1> QED BY <1>1, <1>2, <1>3, <1>5 DEF SchedulerInv, RegistryInv, Stored

\* Requests, tasks and runs go on while the process is up.
LEMMA StepsAwake ==
    ASSUME SchedulerInv
    PROVE  /\ \A c \in Caller :
                  /\ CallerStep(c) \/ Disconnect(c) => Awake
                  /\ \A r \in Requests : Call(c, r) => Awake
           /\ \A l \in Loop : ArmJob(l) \/ FireJob(l) \/ ReturnJob(l) => Awake
           /\ \A a \in Actor : RunStep(a) => Awake
<1> USE DEF SchedulerInv, RegistryInv, Stored
<1>1. ASSUME NEW c \in Caller, CallerStep(c) PROVE Awake
  <2>1. pc[c] # "idle" /\ boot' = boot
    BY <1>1 DEF CallerStep, CheckOwned, CancelGuard, ReadForUpdate, DoCancel, cancel,
       Check, Abort, AbortOld, Insert, insert, Spawn, spawn_task, TriggerNow, adapterVars
  <2> QED BY <2>1 DEF Awake
<1>2. ASSUME NEW c \in Caller, Disconnect(c) PROVE Awake
  BY <1>2 DEF Disconnect, adapterVars, Awake
<1>3. ASSUME NEW c \in Caller, NEW r \in Requests, Call(c, r) PROVE Awake
  BY <1>3 DEF Call, adapterVars, Awake
<1>4. ASSUME NEW l \in Loop, ArmJob(l) \/ FireJob(l) \/ ReturnJob(l) PROVE Awake
  <2>1. loops[l].at # "off" /\ boot' = boot
    BY <1>4 DEF ArmJob, Arm, FireJob, Fire, ReturnJob, Return
  <2> QED BY <2>1 DEF Awake
<1>5. ASSUME NEW a \in Actor, RunStep(a) PROVE Awake
  <2>1. run[a].phase # "none" /\ boot' = boot
    BY <1>5 DEF RunStep, GateMet, GateSkip, Retry, GiveUp, Succeed, Retire, cancel,
       KeepRegistry, adapterVars
  <2> QED BY <2>1 DEF Awake
<1> QED BY <1>1, <1>2, <1>3, <1>4, <1>5

LEMMA AwakeTable ==
    ASSUME Awake
    PROVE  Table = jobs /\ Table' = jobs'
BY DEF Awake, Table

LEMMA CallerShows ==
    ASSUME SchedulerInv, NEW c \in Caller, CallerStep(c)
    PROVE  Shows
<1>0. Awake /\ TypeOK BY StepsAwake DEF SchedulerInv
<1>1. CASE CheckOwned(c) \/ CancelGuard(c) \/ ReadForUpdate(c)
  BY <1>0, <1>1, AwakeTable, Silent
  DEF CheckOwned, CancelGuard, ReadForUpdate, adapterVars, history, Runs
<1>2. CASE DoCancel(c) BY <1>0, <1>2, CancelShows
<1>3. CASE Check(c)
  <2>1. UNCHANGED <<Table, Runs, fired, done, gens, now, timezone, retimed>>
    BY <1>0, <1>3, AwakeTable DEF Check, adapterVars, Runs
  <2>2. CASE raced' = raced BY <2>1, <2>2, Silent
  <2>3. CASE raced' = raced \cup {req[c].id}
    <3>1. req[c].id \in JobId BY <1>0 DEF TypeOK, Request
    <3>2. Promise!Dispute(req[c].id) BY <2>1, <2>3 DEF Promise!Dispute
    <3> QED BY <3>1, <3>2 DEF Shows, Promise!Next
  <2> QED BY <1>3, <2>2, <2>3 DEF Check
<1>4. CASE Abort(c)
  <2>1. /\ run' = [b \in Actor |-> IF b \in Killed(req[c].id) THEN NoRun ELSE run[b]]
        /\ UNCHANGED <<jobs, fired, done, raced, gens, now, timezone, retimed>>
    BY <1>4 DEF Abort, AbortOld, Die
  <2>2. Killed(req[c].id) \in SUBSET Actor BY DEF Killed, Actor
  <2> QED BY <1>0, <2>1, <2>2, AwakeTable, EndShows
<1>5. CASE Insert(c) BY <1>0, <1>5, InsertShows
<1>6. CASE Spawn(c)
  BY <1>0, <1>6, AwakeTable, Silent DEF Spawn, spawn_task, history, Runs
<1>7. CASE TriggerNow(c) BY <1>0, <1>7, TriggerShows
<1> QED BY <1>1, <1>2, <1>3, <1>4, <1>5, <1>6, <1>7 DEF CallerStep

LEMMA RunShows ==
    ASSUME SchedulerInv, NEW a \in Actor, RunStep(a)
    PROVE  Shows
<1>0. Awake /\ TypeOK /\ run \in [Actor -> Run] BY StepsAwake DEF SchedulerInv, TypeOK
<1>1. CASE GateMet(a) \/ Retry(a)
  <2>1. \A b \in Actor : /\ run'[b].phase = "none" <=> run[b].phase = "none"
                         /\ run'[b].job = run[b].job
    BY <1>0, <1>1 DEF GateMet, Retry, Run
  <2>2. Runs' = Runs BY <2>1 DEF Runs
  <2> QED BY <1>0, <1>1, <2>2, AwakeTable, Silent DEF GateMet, Retry, adapterVars, history
<1>2. CASE GateSkip(a) \/ GiveUp(a) \/ Succeed(a)
  <2>1. /\ run' = [run EXCEPT ![a] = NoRun]
        /\ UNCHANGED <<jobs, fired, done, raced, gens, now, timezone, retimed>>
    BY <1>2 DEF GateSkip, GiveUp, Succeed, EndRun, KeepRegistry, history
  <2>2. run' = [b \in Actor |-> IF b \in {a} THEN NoRun ELSE run[b]]
    BY <1>0, <2>1
  <2> QED BY <1>0, <2>1, <2>2, AwakeTable, EndShows
<1>3. CASE Retire(a) BY <1>0, <1>3, RetireShows
<1> QED BY <1>1, <1>2, <1>3 DEF RunStep

LEMMA StepShows ==
    ASSUME SchedulerInv, [Next]_vars
    PROVE  Shows
<1>0. TypeOK BY DEF SchedulerInv
<1>1. ASSUME NEW c \in Caller, NEW r \in Requests, Call(c, r) PROVE Shows
  BY <1>1, StepsAwake, AwakeTable, Silent DEF Call, adapterVars, Runs
<1>2. ASSUME NEW c \in Caller, CallerStep(c) PROVE Shows BY <1>2, CallerShows
<1>3. ASSUME NEW c \in Caller, Disconnect(c) PROVE Shows
  <2>1. run' = [b \in Actor |-> IF b \in {c} THEN NoRun ELSE run[b]]
    BY <1>0, <1>3 DEF Disconnect, TypeOK
  <2>2. UNCHANGED <<jobs, fired, done, raced, gens, now, timezone, retimed>> /\ Awake
    BY <1>3, StepsAwake DEF Disconnect, adapterVars, history
  <2>3. {c} \in SUBSET Actor BY DEF Actor
  <2> QED BY <1>0, <2>1, <2>2, <2>3, AwakeTable, EndShows
<1>4. ASSUME NEW l \in Loop, ArmJob(l) PROVE Shows
  <2>1. Awake BY <1>4, StepsAwake
  <2>2. UNCHANGED <<jobs, run, fired, done, raced, gens, now, timezone, retimed>>
    BY <1>4 DEF ArmJob, Arm, history
  <2> QED BY <2>1, <2>2, AwakeTable, Silent DEF Runs
<1>5. ASSUME NEW l \in Loop, FireJob(l) PROVE Shows BY <1>5, StepsAwake, FireShows
<1>6. ASSUME NEW l \in Loop, ReturnJob(l) PROVE Shows BY <1>6, StepsAwake, ReturnShows
<1>7. ASSUME NEW a \in Actor, RunStep(a) PROVE Shows BY <1>7, RunShows
<1>8. CASE BootStep
  <2>1. CASE RestoreRemove BY <1>8, <2>1, RemoveShows
  <2>2. CASE RestoreFilter BY <1>8, <2>2, FilterShows
  <2>3. CASE Load \/ RestoreSpawn
    <3>1. Table' = Table /\ ~RestoreFilter
      BY <2>3, SpawnKeeps DEF Load, RestoreFilter, Table
    <3> QED BY <1>8, <3>1, BootEffect, Silent DEF Runs
  <2> QED BY <1>8, <2>1, <2>2, <2>3, BootEffect
<1>9. CASE FinishFlush
  <2>1. Table' = Table
    BY <1>9 DEF FinishFlush, EndFlush, Table, SchedulerInv, RegistryInv, Stored
  <2> QED BY <1>9, <2>1, Silent DEF FinishFlush, EndFlush, history, Runs
<1>10. CASE Time
  <2>1. UNCHANGED <<Table, Runs>> BY <1>10 DEF Time, Tick, Table, Runs
  <2>2. Promise!Tick BY <1>10, <2>1 DEF Time, Tick, history, Promise!Tick
  <2> QED BY <2>2 DEF Shows, Promise!Next
<1>11. CASE Crash BY <1>11, CrashShows
<1>12. CASE UNCHANGED vars
  BY <1>12, Silent DEF vars, adapterVars, history, Table, Runs
<1>13. ASSUME NEW z \in Zone, Move(z) PROVE Shows BY <1>13, MoveShows
<1> QED BY <1>1, <1>2, <1>3, <1>4, <1>5, <1>6, <1>7, <1>8, <1>9, <1>10, <1>11, <1>12,
        <1>13
    DEF Next

LEMMA InitShows == Init => Promise!Init
<1> SUFFICES ASSUME Init PROVE Promise!Init OBVIOUS
<1>1. TypeOK BY InitTypes
<1>2. Table = jobs BY DEF Init, Table
<1>3. Runs = [a \in Promise!Runner |-> NoJob] BY RunnersAre DEF Init, Runs, NoRun
<1>4. \A i \in JobId : jobs[i] # NoJob => jobs[i].id = i /\ jobs[i].gen < gens
  BY InitRegistry DEF RegistryInv, Named
<1> QED BY <1>1, <1>2, <1>3, <1>4
    DEF Init, Promise!Init, TypeOK, AdapterTypeOK, Registry

\* The registry with its file, tasks and handles, through edits, one-shot
\* retirements, runs by hand, crashes, restarts and changes of the time zone,
\* implements the table, which promises less of disputed names and retimed jobs.
THEOREM SchedulerImplementsTable == Spec => JobTableSpec
<1>1. Init => Promise!Init BY InitShows
<1>2. SchedulerInv /\ [Next]_vars => [Promise!Next]_(Promise!vars)
  BY StepShows DEF Shows
<1> QED BY <1>1, <1>2, SchedulerInvariant, PTL DEF Spec, JobTableSpec, Promise!Spec
=============================================================================
