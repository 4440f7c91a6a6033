----------------------------- MODULE CronAdapter -----------------------------
(***************************************************************************)
(* TokioCronAdapter (infra/src/adapters/cron.rs): the registry of jobs,    *)
(* its file, and one tokio task per job that sleeps until the job is due.  *)
(*                                                                         *)
(* The registry is behind one mutex and the table of task handles behind   *)
(* another; an operation takes them one after the other, so what it read   *)
(* under the first may be stale under the second.  A Loop is a tokio task  *)
(* running spawn_task: what it does between two awaits is one step, and an *)
(* abort takes effect at its next await only.                              *)
(*                                                                         *)
(* A Bug_ definition is a seeded fault: no specification uses it.          *)
(***************************************************************************)
EXTENDS Integers, FiniteSets

CONSTANTS
    JobId,    \* names of jobs
    Loop,     \* tokio tasks (a pool: a finished one may be spawned again)
    Admin,    \* the owner of what no hub visitor made
    Owner,    \* hub visitors
    NoJob,    \* a model value: not registered
    NoLoop,   \* a model value: no live task under this handle
    Torn,     \* a model value: a jobs file that does not parse
    Zone,     \* time zones
    Late,     \* how much later a time without an offset comes in each zone
    Follows,  \* a model value: the zone of a job that follows the setting
    Unset,    \* a model value: no zone was asked for
    MaxTime   \* bound: the clock stops here

ASSUME AdapterAssumption ==
    /\ MaxTime \in Nat
    /\ NoLoop \notin Loop
    /\ JobId # {}
    /\ Late \in [Zone -> Nat]
    /\ {Follows, Unset} \cap Zone = {}

(***************************************************************************)
(* CronScheduleOptions.  "at" is runAt of a once job, delaySec of a delay  *)
(* job; "endAt" is later than any time there is where none is set.  "zone" *)
(* is the one runAt and endAt are written in, both without an offset.      *)
(* "valid" is false for a cron expression, or a runAt, that does not       *)
(* parse.  "gate" says runWhen is set.                                     *)
(***************************************************************************)
Options == [mode : {"cron", "once", "delay"}, at : Nat, endAt : Nat,
            zone : Zone \cup {Follows, Unset}, valid : BOOLEAN,
            oneShot : BOOLEAN, gate : BOOLEAN, retry : Nat,
            system : BOOLEAN, owner : Owner \cup {Admin}]

\* CronJobInfo; gen stands for createdAt, it tells registrations apart.
Job == [id : JobId, gen : Nat, opts : Options]

Registry == [JobId -> Job \cup {NoJob}]

ASSUME NoJobAssumption == NoJob \notin Job /\ Torn \notin Registry

VARIABLES
    jobs,     \* the registry in memory
    file,     \* data/cron-jobs.json
    writing,  \* the registry's mutex is held across a flush
    tasks,    \* the live task under each handle
    loops,    \* the tasks
    boot,     \* where start-up is
    drop,     \* ids restore() decided not to bring back
    revive,   \* ids restore() is about to spawn
    now,      \* the wall clock
    gens,     \* registrations so far
    timezone  \* the zone that is set, in the process and in the vault

adapterVars ==
    <<jobs, file, writing, tasks, loops, boot, drop, revive, now, gens,
      timezone>>

Boot == {"down", "filter", "remove", "spawn", "up"}

\* Where a task is: not running, before its next look at the registry,
\* asleep, inside the callback, or back from it.
LoopAt == {"off", "top", "sleep", "run", "return"}
Holding == {"sleep", "run", "return"}

Task == [at : LoopAt, id : JobId, job : Job \cup {NoJob}, due : Nat,
         doomed : BOOLEAN]

Idle == [at |-> "off", id |-> CHOOSE i \in JobId : TRUE, job |-> NoJob,
         due |-> 0, doomed |-> FALSE]

OneTime(o) == o.mode \in {"once", "delay"}

NoJobs == [i \in JobId |-> NoJob]

-----------------------------------------------------------------------------
(***************************************************************************)
(* flush_jobs is fs::write under the registry's mutex: the file is         *)
(* truncated, then written.  A restart in between finds a file that does   *)
(* not parse, which new() takes for no jobs.                               *)
(***************************************************************************)
flush_jobs == writing' = TRUE /\ file' = Torn

EndFlush ==
    /\ writing /\ writing' = FALSE /\ file' = jobs
    /\ UNCHANGED <<jobs, tasks, loops, boot, drop, revive, now,
                   gens, timezone>>

\* parse_in_timezone: when a time without an offset comes, read in zone z.
Instant(t, z) == t + Late[z]

\* The zone a job is scheduled and fired in: the one it is pinned to, or the
\* one that is set at that moment.
ZoneOf(o) == IF o.zone \in Zone THEN o.zone ELSE timezone

Due(o) == Instant(o.at, ZoneOf(o))
EndsAt(o) == Instant(o.endAt, ZoneOf(o))

\* schedule pins a job that asks for no zone to the one that is set.
Pinned(o) == IF o.zone = Unset THEN [o EXCEPT !.zone = timezone] ELSE o

\* determine_mode: the cron expression parses, runAt is in the future unless
\* it does not parse, the delay is within range.
determine_mode(o) ==
    /\ o.mode = "cron" => o.valid
    /\ o.mode = "once" /\ o.valid => Due(o) > now
    /\ o.mode = "delay" => o.at >= 1

\* When a task that looks at the job now will wake.
NextFire(o) == CASE o.mode = "once"  -> Due(o)
                 [] o.mode = "delay" -> now + o.at
                 [] o.mode = "cron"  -> now + 1

\* A once job is run whatever its endAt says.
Ended(o) == \/ o.mode = "cron" /\ now + 1 > EndsAt(o)
            \/ o.mode = "once" /\ ~o.valid

\* The handle of a task that has ended aborts nothing: as good as none.
Detached(l) == [i \in JobId |-> IF tasks[i] = l THEN NoLoop ELSE tasks[i]]

Bug_AbortOnlyAsleep(id, ls) ==
    [l \in Loop |-> IF l = tasks[id] /\ ls[l].at = "sleep" THEN Idle ELSE ls[l]]

\* JoinHandle::abort on id's task.  One that is past its callback has no
\* await left before the registry is cleaned up: it finishes that, then dies.
Aborted(id, ls) ==
    [l \in Loop |->
        IF l # tasks[id] THEN ls[l]
        ELSE IF ls[l].at = "return" THEN [ls[l] EXCEPT !.doomed = TRUE]
        ELSE Idle]

\* The tasks whose run an abort of id's handle cuts short.
Killed(id) == {l \in Loop : l = tasks[id] /\ loops[l].at = "run"}

-----------------------------------------------------------------------------
(***************************************************************************)
(* schedule, after its duplicate check, and schedule_with_spawn.           *)
(***************************************************************************)
AbortOld(id) ==
    /\ loops' = Aborted(id, loops)
    /\ tasks' = [tasks EXCEPT ![id] = NoLoop]
    /\ UNCHANGED <<jobs, file, writing, boot, drop, revive, now,
                   gens, timezone>>

insert(id, o) ==
    /\ ~writing
    /\ jobs' = [jobs EXCEPT ![id] = [id |-> id, gen |-> gens, opts |-> o]]
    /\ gens' = gens + 1
    /\ flush_jobs
    /\ UNCHANGED <<tasks, loops, boot, drop, revive, now, timezone>>

\* tasks.insert: a handle already there is dropped, and its task lives on.
spawn_task(id) ==
    /\ ~writing
    /\ \E l \in Loop :
           /\ loops[l].at = "off"
           /\ loops' = [loops EXCEPT ![l] = [Idle EXCEPT !.at = "top",
                                                         !.id = id]]
           /\ tasks' = [tasks EXCEPT ![id] = l]
    /\ UNCHANGED <<jobs, file, writing, boot, drop, revive, now,
                   gens, timezone>>

Bug_CancelLeavesTask(id, ls) ==
    /\ ~writing
    /\ loops' = ls
    /\ tasks' = [tasks EXCEPT ![id] = NoLoop]
    /\ IF jobs[id] = NoJob THEN UNCHANGED <<jobs, file, writing>>
       ELSE jobs' = [jobs EXCEPT ![id] = NoJob] /\ flush_jobs
    /\ UNCHANGED <<boot, drop, revive, now, gens, timezone>>

Bug_CancelForgetsFlush(id, ls) ==
    /\ ~writing
    /\ loops' = Aborted(id, ls)
    /\ tasks' = [tasks EXCEPT ![id] = NoLoop]
    /\ jobs' = [jobs EXCEPT ![id] = NoJob]
    /\ UNCHANGED <<file, writing, boot, drop, revive, now, gens, timezone>>

\* cancel holds the table of handles while it takes the registry.
cancel(id, ls) ==
    /\ ~writing
    /\ loops' = Aborted(id, ls)
    /\ tasks' = [tasks EXCEPT ![id] = NoLoop]
    /\ IF jobs[id] = NoJob THEN UNCHANGED <<jobs, file, writing>>
       ELSE jobs' = [jobs EXCEPT ![id] = NoJob] /\ flush_jobs
    /\ UNCHANGED <<boot, drop, revive, now, gens, timezone>>

-----------------------------------------------------------------------------
(***************************************************************************)
(* The loop of spawn_task.                                                 *)
(***************************************************************************)
\* Take a copy of the job and sleep until it is due; end if it is gone, its
\* endAt has passed or its runAt does not parse (it stays registered then).
Arm(l) ==
    LET j == jobs[loops[l].id]
    IN  /\ loops[l].at = "top" /\ ~writing
        /\ IF j = NoJob \/ (j # NoJob /\ Ended(j.opts))
           THEN loops' = [loops EXCEPT ![l] = Idle] /\ tasks' = Detached(l)
           ELSE /\ loops' = [loops EXCEPT ![l] =
                               [@ EXCEPT !.at = "sleep", !.job = j,
                                         !.due = NextFire(j.opts)]]
                /\ UNCHANGED tasks
        /\ UNCHANGED <<jobs, file, writing, boot, drop, revive, now,
                       gens, timezone>>

\* Wake and call back with the copy.
Fire(l) ==
    /\ loops[l].at = "sleep" /\ now >= loops[l].due
    /\ loops' = [loops EXCEPT ![l].at = "run"]
    /\ UNCHANGED <<jobs, file, writing, tasks, boot, drop, revive, now,
                   gens, timezone>>

Bug_ReturnEndsTheTask(l) ==
    LET id == loops[l].id
    IN  /\ loops[l].at = "return" /\ ~writing
        /\ loops' = [loops EXCEPT ![l] = Idle]
        /\ tasks' = Detached(l)
        /\ IF OneTime(loops[l].job.opts) /\ jobs[id] # NoJob
           THEN jobs' = [jobs EXCEPT ![id] = NoJob] /\ flush_jobs
           ELSE UNCHANGED <<jobs, file, writing>>
        /\ UNCHANGED <<boot, drop, revive, now, gens, timezone>>

\* Back from the callback.  A one-time job is taken out of the registry by
\* its name, whatever is registered under the name by then.
Return(l) ==
    LET id == loops[l].id
    IN  /\ loops[l].at = "return" /\ ~writing
        /\ IF OneTime(loops[l].job.opts)
           THEN /\ loops' = [loops EXCEPT ![l] = Idle]
                /\ tasks' = Detached(l)
                /\ IF jobs[id] = NoJob THEN UNCHANGED <<jobs, file, writing>>
                   ELSE jobs' = [jobs EXCEPT ![id] = NoJob] /\ flush_jobs
           ELSE /\ IF loops[l].doomed
                   THEN loops' = [loops EXCEPT ![l] = Idle]
                        /\ tasks' = Detached(l)
                   ELSE loops' = [loops EXCEPT ![l].at = "top"]
                        /\ UNCHANGED tasks
                /\ UNCHANGED <<jobs, file, writing>>
        /\ UNCHANGED <<boot, drop, revive, now, gens, timezone>>

-----------------------------------------------------------------------------
(***************************************************************************)
(* A crash, new() at start-up, and the three steps of restore().           *)
(***************************************************************************)
CrashAdapter ==
    /\ jobs' = NoJobs /\ writing' = FALSE
    /\ tasks' = [i \in JobId |-> NoLoop]
    /\ loops' = [l \in Loop |-> Idle]
    /\ boot' = "down" /\ drop' = {} /\ revive' = {}
    /\ UNCHANGED <<file, now, gens, timezone>>

\* new
Load ==
    /\ boot = "down" /\ boot' = "filter"
    /\ jobs' = IF file = Torn THEN NoJobs ELSE file
    /\ UNCHANGED <<file, writing, tasks, loops, drop, revive, now,
                   gens, timezone>>

Bug_RestoreKeepsPastOnce(o) ==
    o.mode = "delay" \/ Instant(o.endAt, timezone) <= now

\* Not brought back: delay jobs, jobs whose endAt has passed, once jobs whose
\* time has.  Both times are read in the zone that is set, whatever zone the
\* job is pinned to.
NotRestored(o) ==
    \/ o.mode = "delay"
    \/ Instant(o.endAt, timezone) <= now
    \/ o.mode = "once" /\ o.valid /\ Instant(o.at, timezone) <= now

RestoreFilter ==
    /\ boot = "filter" /\ ~writing /\ boot' = "remove"
    /\ drop' = {i \in JobId : jobs[i] # NoJob /\ NotRestored(jobs[i].opts)}
    /\ UNCHANGED <<jobs, file, writing, tasks, loops, revive, now,
                   gens, timezone>>

RestoreRemove ==
    /\ boot = "remove" /\ ~writing /\ boot' = "spawn"
    /\ jobs' = [i \in JobId |-> IF i \in drop THEN NoJob ELSE jobs[i]]
    /\ IF drop = {} THEN UNCHANGED <<file, writing>> ELSE flush_jobs
    /\ revive' = {i \in JobId \ drop : jobs[i] # NoJob
                                       /\ jobs[i].opts.mode # "delay"}
    /\ UNCHANGED <<tasks, loops, drop, now, gens, timezone>>

Bug_RestoreSpawnsNothing ==
    /\ boot = "spawn" /\ ~writing /\ boot' = "up" /\ revive' = {}
    /\ UNCHANGED <<jobs, file, writing, tasks, loops, drop, now,
                   gens, timezone>>

\* One task for each, under the lock of the table of handles.
RestoreSpawn ==
    /\ boot = "spawn" /\ ~writing /\ boot' = "up" /\ revive' = {}
    /\ \E t \in [revive -> {l \in Loop : loops[l].at = "off"}] :
           /\ \A i, k \in revive : t[i] = t[k] => i = k
           /\ loops' = [l \in Loop |->
                  IF \E i \in revive : t[i] = l
                  THEN [Idle EXCEPT !.at = "top",
                        !.id = CHOOSE i \in revive : t[i] = l]
                  ELSE loops[l]]
           /\ tasks' = [i \in JobId |-> IF i \in revive THEN t[i]
                                        ELSE tasks[i]]
    /\ UNCHANGED <<jobs, file, writing, drop, now, gens, timezone>>

Tick == now < MaxTime /\ now' = now + 1
        /\ UNCHANGED <<jobs, file, writing, tasks, loops, boot, drop, revive,
                       gens, timezone>>

\* set_timezone: the vault first, so a restart finds it too.
SetZone(z) ==
    /\ timezone' = z
    /\ UNCHANGED <<jobs, file, writing, tasks, loops, boot, drop, revive, now,
                   gens>>

\* The adapter's part of the type invariant.
AdapterTypeOK ==
    /\ jobs \in Registry /\ file \in Registry \cup {Torn}
    /\ writing \in BOOLEAN
    /\ tasks \in [JobId -> Loop \cup {NoLoop}]
    /\ loops \in [Loop -> Task]
    /\ \A l \in Loop : loops[l].at \in Holding => loops[l].job # NoJob
    /\ boot \in Boot
    /\ drop \subseteq JobId /\ revive \subseteq JobId
    /\ now \in Nat /\ gens \in Nat /\ timezone \in Zone
=============================================================================
