--------------------------- MODULE ScheduleManager ---------------------------
(***************************************************************************)
(* ScheduleManager (core/src/managers/schedule.rs) over the cron adapter:  *)
(* the requests that register, cancel, edit and run jobs, and              *)
(* handle_trigger, the callback a due job runs.                            *)
(*                                                                         *)
(* A Caller is a request in flight (an RPC, a tool call, the module        *)
(* reconciliation spawned at boot).  A run belongs to the Actor whose      *)
(* future it is: a task of the adapter, or a request for an immediate run. *)
(*                                                                         *)
(* A Bug_ definition is a seeded fault: no specification uses it.          *)
(***************************************************************************)
EXTENDS CronAdapter

CONSTANTS
    Caller,
    Offer,       \* the options requests ask for
    Founding,    \* the options of jobs registered before the first step
    FirstZone,   \* the time zone set before the first step
    MaxCalls,    \* bound: requests made
    MaxCrashes,  \* bound: crashes of the process
    MaxMoves     \* bound: changes of the time zone

ASSUME ManagerAssumption ==
    /\ Offer \cup Founding \subseteq Options /\ FirstZone \in Zone
    /\ MaxCalls \in Nat /\ MaxCrashes \in Nat /\ MaxMoves \in Nat
    /\ Caller \cap Loop = {}

Actor == Loop \cup Caller

VARIABLES
    pc,       \* where each request is
    req,      \* what it asks for
    run,      \* the run of each actor
    calls,    \* requests so far
    crashes,  \* crashes so far
    moves,    \* changes of the time zone so far
    fired,    \* one-time registrations a task has run
    again,    \* one-time registrations a task has run more than once
    done,     \* one-shot registrations that have succeeded
    raced,    \* ids whose registration two operations have been inside at once
    stranded, \* registrations whose request ended before it had spawned the task
    retimed   \* registrations whose time was read in two zones

history == <<calls, crashes, moves, fired, again, done, raced, stranded, retimed>>
vars == <<adapterVars, pc, req, run, history>>

Op == {"schedule", "cancel", "update", "trigger"}

PC == {"idle", "owned", "read", "cancel", "check", "abort", "insert", "spawn",
       "fetch", "run"}

Request == [op : Op, id : JobId, opts : Options, scope : Owner \cup {Admin}]

NoRun == [job |-> NoJob, phase |-> "none", tries |-> 0]

Run == [job : Job \cup {NoJob}, phase : {"none", "gate", "attempt"},
        tries : Nat]

OwnedBy(id, w) == jobs[id] # NoJob /\ jobs[id].opts.owner = w

\* The requests that are past the duplicate check of schedule.
Registering(id) ==
    {c \in Caller : pc[c] \in {"abort", "insert", "spawn"} /\ req[c].id = id}

Goto(c, where) == pc' = [pc EXCEPT ![c] = where]

\* The first step of a request that asks for op in the name of w.
Entry(op, w) == CASE op = "schedule" -> "check"
                  [] w # Admin -> "owned"
                  [] op = "trigger" -> "fetch"
                  [] OTHER -> "read"

-----------------------------------------------------------------------------
(***************************************************************************)
(* Requests.  They are served once restore() is over, except those of the  *)
(* module reconciliation (op "schedule" and "cancel" here), a task of its  *)
(* own that start-up does not wait for.                                    *)
(***************************************************************************)
Call(c, r) ==
    /\ pc[c] = "idle" /\ calls < MaxCalls
    /\ boot = "up" \/ (/\ boot # "down" /\ r.scope = Admin
                       /\ r.op \in {"schedule", "cancel"})
    /\ Goto(c, Entry(r.op, r.scope))
    /\ req' = [req EXCEPT ![c] = r]
    /\ calls' = calls + 1
    /\ UNCHANGED <<adapterVars, run, crashes, moves, fired, again, done,
                   raced, stranded, retimed>>

\* cancel_owned, update_owned, trigger_now_owned
CheckOwned(c) ==
    /\ pc[c] = "owned" /\ ~writing
    /\ Goto(c, IF ~OwnedBy(req[c].id, req[c].scope) THEN "idle"
               ELSE CASE req[c].op = "cancel" -> "cancel"
                      [] req[c].op = "trigger" -> "fetch"
                      [] OTHER -> "read")
    /\ UNCHANGED <<adapterVars, req, run, history>>

\* cancel: a system job cannot be deleted.
CancelGuard(c) ==
    /\ pc[c] = "read" /\ req[c].op = "cancel" /\ ~writing
    /\ Goto(c, IF jobs[req[c].id] # NoJob /\ jobs[req[c].id].opts.system
               THEN "idle" ELSE "cancel")
    /\ UNCHANGED <<adapterVars, req, run, history>>

\* update: what an edit keeps of the job it finds.
Kept(o, old) == IF old = NoJob THEN o
                ELSE [o EXCEPT !.owner = old.opts.owner,
                               !.system = @ \/ old.opts.system]

ReadForUpdate(c) ==
    /\ pc[c] = "read" /\ req[c].op = "update" /\ ~writing
    /\ req' = [req EXCEPT ![c].opts = Kept(@, jobs[req[c].id])]
    /\ Goto(c, "cancel")
    /\ UNCHANGED <<adapterVars, run, history>>

\* A run dies with the task it is in.
Die(as) == run' = [a \in Actor |-> IF a \in as THEN NoRun ELSE run[a]]

DoCancel(c) ==
    /\ pc[c] = "cancel"
    /\ cancel(req[c].id, loops)
    /\ Die(Killed(req[c].id))
    /\ Goto(c, IF req[c].op = "update" THEN "check" ELSE "idle")
    /\ UNCHANGED <<req, calls, crashes, moves, fired, again, done, raced, stranded,
                   retimed>>

\* schedule: the duplicate check, the zone it pins, and determine_mode.
Check(c) ==
    LET id == req[c].id
        ok == jobs[id] = NoJob /\ determine_mode(req[c].opts)
    IN  /\ pc[c] = "check" /\ ~writing
        /\ Goto(c, IF ok THEN "abort" ELSE "idle")
        /\ raced' = IF ok /\ (boot # "up" \/ Registering(id) # {})
                    THEN raced \cup {id} ELSE raced
        /\ req' = IF ok THEN [req EXCEPT ![c].opts = Pinned(@)] ELSE req
        /\ UNCHANGED <<adapterVars, run, calls, crashes, moves, fired, again, done,
                       stranded, retimed>>

Abort(c) ==
    /\ pc[c] = "abort" /\ AbortOld(req[c].id) /\ Die(Killed(req[c].id))
    /\ Goto(c, "insert")
    /\ UNCHANGED <<req, calls, crashes, moves, fired, again, done, raced, stranded,
                   retimed>>

Insert(c) ==
    /\ pc[c] = "insert" /\ insert(req[c].id, req[c].opts)
    /\ Goto(c, "spawn")
    /\ UNCHANGED <<req, run, history>>

Spawn(c) ==
    /\ pc[c] = "spawn" /\ spawn_task(req[c].id)
    /\ Goto(c, "idle")
    /\ UNCHANGED <<req, run, history>>

-----------------------------------------------------------------------------
(***************************************************************************)
(* handle_trigger.  Its runWhen gate, its attempts and its end.            *)
(***************************************************************************)
Begin(a, j) ==
    run' = [run EXCEPT ![a] =
               [job |-> j, phase |-> IF j.opts.gate THEN "gate" ELSE "attempt",
                tries |-> j.opts.retry]]

\* trigger_now runs the job it finds in the request's own future, beside any
\* other run of the same job.
TriggerNow(c) ==
    LET j == jobs[req[c].id]
    IN  /\ pc[c] = "fetch" /\ ~writing
        /\ IF j = NoJob THEN Goto(c, "idle") /\ UNCHANGED run
           ELSE Goto(c, "run") /\ Begin(c, j)
        /\ UNCHANGED <<adapterVars, req, history>>

FireJob(l) ==
    /\ Fire(l) /\ Begin(l, loops[l].job)
    /\ LET j == {k \in {loops[l].job} : OneTime(k.opts)}
       IN  fired' = fired \cup j /\ again' = again \cup (fired \cap j)
    /\ UNCHANGED <<pc, req, calls, crashes, moves, done, raced, stranded, retimed>>

\* The callback returns to whoever awaits it.
Back(a) == IF a \in Loop THEN [loops EXCEPT ![a].at = "return"] ELSE loops

EndRun(a) ==
    /\ loops' = Back(a)
    /\ pc' = IF a \in Caller THEN [pc EXCEPT ![a] = "idle"] ELSE pc
    /\ run' = [run EXCEPT ![a] = NoRun]

KeepRegistry == UNCHANGED <<jobs, file, writing, tasks, boot, drop, revive,
                            now, gens, timezone>>

GateMet(a) ==
    /\ run[a].phase = "gate"
    /\ run' = [run EXCEPT ![a].phase = "attempt"]
    /\ UNCHANGED <<adapterVars, pc, req, history>>

\* runWhen not met: reported as a success, and nothing else is done.
GateSkip(a) ==
    /\ run[a].phase = "gate"
    /\ EndRun(a) /\ KeepRegistry
    /\ UNCHANGED <<req, history>>

Retry(a) ==
    /\ run[a].phase = "attempt" /\ run[a].tries > 0
    /\ run' = [run EXCEPT ![a].tries = @ - 1]
    /\ UNCHANGED <<adapterVars, pc, req, history>>

GiveUp(a) ==
    /\ run[a].phase = "attempt" /\ run[a].tries = 0
    /\ EndRun(a) /\ KeepRegistry
    /\ UNCHANGED <<req, history>>

\* A success that leaves the job registered: it is not one-shot, or its
\* pipeline ended in a condition that was not met.
Succeed(a) ==
    /\ run[a].phase = "attempt"
    /\ EndRun(a) /\ KeepRegistry
    /\ UNCHANGED <<req, history>>

Bug_RetireOnlyScheduled(a) ==
    /\ run[a].phase = "attempt" /\ run[a].job.opts.oneShot
    /\ done' = done \cup {run[a].job}
    /\ IF a \in Loop THEN cancel(run[a].job.id, Back(a))
       ELSE KeepRegistry /\ UNCHANGED loops
    /\ pc' = IF a \in Caller THEN [pc EXCEPT ![a] = "idle"] ELSE pc
    /\ run' = [run EXCEPT ![a] = NoRun]
    /\ UNCHANGED <<req, calls, crashes, moves, fired, again, raced, stranded, retimed>>

\* A one-shot job that succeeded is cancelled by name, then the run returns;
\* the handle it aborts may be that of its own task, or of another run.
Retire(a) ==
    LET id == run[a].job.id
        hit == Killed(id) \ {a}
    IN  /\ run[a].phase = "attempt" /\ run[a].job.opts.oneShot
        /\ cancel(id, Back(a))
        /\ pc' = IF a \in Caller THEN [pc EXCEPT ![a] = "idle"] ELSE pc
        /\ run' = [b \in Actor |-> IF b \in hit \cup {a} THEN NoRun ELSE run[b]]
        /\ done' = done \cup {run[a].job}
        /\ UNCHANGED <<req, calls, crashes, moves, fired, again, raced, stranded, retimed>>

ReturnJob(l) ==
    LET id == loops[l].id
    IN  /\ Return(l)
        /\ raced' = IF OneTime(loops[l].job.opts)
                       /\ jobs[id] \notin {NoJob, loops[l].job}
                    THEN raced \cup {id} ELSE raced
        /\ UNCHANGED <<pc, req, run, calls, crashes, moves, fired, again, done, stranded,
                       retimed>>

\* The client goes away while its request waits, for the table of handles or for
\* an immediate run: the future is dropped at that await.
Disconnect(c) ==
    /\ pc[c] \in {"cancel", "abort", "spawn", "run"} /\ boot = "up"
    /\ Goto(c, "idle")
    /\ run' = [run EXCEPT ![c] = NoRun]
    /\ stranded' = IF pc[c] = "spawn"
                   THEN stranded \cup ({jobs[req[c].id]} \ {NoJob}) ELSE stranded
    /\ UNCHANGED <<adapterVars, req, calls, crashes, moves, fired, again, done, raced,
                   retimed>>

Crash ==
    /\ boot # "down" /\ crashes < MaxCrashes /\ crashes' = crashes + 1
    /\ CrashAdapter
    /\ pc' = [c \in Caller |-> "idle"]
    /\ run' = [a \in Actor |-> NoRun]
    /\ stranded' = {}
    /\ UNCHANGED <<req, calls, moves, fired, again, done, raced, retimed>>

-----------------------------------------------------------------------------
RunStep(a) == GateMet(a) \/ GateSkip(a) \/ Retry(a) \/ GiveUp(a) \/ Succeed(a)
              \/ Retire(a)

CallerStep(c) == CheckOwned(c) \/ CancelGuard(c) \/ ReadForUpdate(c)
                 \/ DoCancel(c) \/ Check(c) \/ Abort(c) \/ Insert(c)
                 \/ Spawn(c) \/ TriggerNow(c)

\* The jobs restore() judges in a zone that is not theirs.
Misread == {j \in {jobs[i] : i \in JobId} \ {NoJob} :
                j.opts.zone \in Zone \ {timezone}}

Filter ==
    /\ RestoreFilter /\ retimed' = retimed \cup Misread
    /\ UNCHANGED <<pc, req, run, calls, crashes, moves, fired, again, done, raced,
                   stranded>>

BootStep ==
    \/ (Load \/ RestoreRemove \/ RestoreSpawn) /\ UNCHANGED <<pc, req, run, history>>
    \/ Filter

ArmJob(l) == Arm(l) /\ UNCHANGED <<pc, req, run, history>>

FinishFlush == EndFlush /\ UNCHANGED <<pc, req, run, history>>

Time == Tick /\ UNCHANGED <<pc, req, run, history>>

\* The time zone is set.  Nothing wakes for it: a task that sleeps keeps the
\* time it read, also that of a job that follows the setting.
Move(z) ==
    /\ boot = "up" /\ z # timezone /\ moves < MaxMoves
    /\ SetZone(z)
    /\ moves' = moves + 1
    /\ retimed' = retimed \cup
           {j \in ({jobs[i] : i \in JobId} \ {NoJob}) \cup fired :
                j.opts.zone \notin Zone}
    /\ UNCHANGED <<pc, req, run, calls, crashes, fired, again, done, raced, stranded>>

\* Options a request may ask for.  A repeated registration is no news, so
\* only the requests that register carry any.
Requests ==
    {r \in [op : Op, id : JobId, opts : Offer, scope : Owner \cup {Admin}] :
        /\ r.op \in {"cancel", "trigger"} => r.opts = CHOOSE o \in Offer : TRUE
        /\ r.op = "schedule" => r.scope = r.opts.owner
        /\ r.op = "update" => r.opts.owner = Admin}

Init ==
    /\ jobs \in {f \in [JobId -> {NoJob} \cup
                        {[id |-> i, gen |-> 0, opts |-> o] :
                             i \in JobId, o \in Founding}] :
                     \A i \in JobId : f[i] # NoJob => f[i].id = i}
    /\ file = jobs /\ writing = FALSE
    /\ tasks = [i \in JobId |-> NoLoop]
    /\ loops = [l \in Loop |-> Idle]
    /\ boot = "filter" /\ drop = {} /\ revive = {}
    /\ now = 0 /\ gens = 1 /\ timezone = FirstZone
    /\ pc = [c \in Caller |-> "idle"]
    /\ \E r \in Requests : req = [c \in Caller |-> r]
    /\ run = [a \in Actor |-> NoRun]
    /\ calls = 0 /\ crashes = 0 /\ moves = 0
    /\ fired = {} /\ again = {} /\ done = {} /\ raced = {}
    /\ stranded = {} /\ retimed = {}

Next ==
    \/ \E c \in Caller, r \in Requests : Call(c, r)
    \/ \E c \in Caller : CallerStep(c) \/ Disconnect(c)
    \/ \E l \in Loop : ArmJob(l) \/ FireJob(l) \/ ReturnJob(l)
    \/ \E a \in Actor : RunStep(a)
    \/ \E z \in Zone : Move(z)
    \/ BootStep \/ FinishFlush \/ Time \/ Crash

Spec == Init /\ [][Next]_vars

(***************************************************************************)
(* The scheduler keeps its steps going: tokio runs every task that can     *)
(* run, a started flush ends, a callback ends (its modules, LLM calls and  *)
(* retries all have time limits), start-up finishes, and the clock runs.   *)
(* No request is promised, and no crash.                                   *)
(***************************************************************************)
Fairness ==
    /\ WF_vars(BootStep) /\ WF_vars(FinishFlush) /\ WF_vars(Time)
    /\ \A c \in Caller : WF_vars(CallerStep(c))
    /\ \A l \in Loop : WF_vars(ArmJob(l)) /\ WF_vars(FireJob(l))
                       /\ WF_vars(ReturnJob(l))
    /\ \A a \in Actor : WF_vars(RunStep(a))

LiveSpec == Spec /\ Fairness

-----------------------------------------------------------------------------
\* Well-formedness of the registry, its file, the tasks and the runs: a task
\* that sleeps or runs, and a run under way, always have a job in hand.
TypeOK ==
    /\ AdapterTypeOK
    /\ pc \in [Caller -> PC]
    /\ req \in [Caller -> Request]
    /\ run \in [Actor -> Run]
    /\ \A a \in Actor : run[a].phase # "none" => run[a].job # NoJob
    /\ calls \in Nat /\ crashes \in Nat /\ moves \in Nat
    /\ fired \subseteq Job /\ again \subseteq Job /\ done \subseteq Job
    /\ raced \subseteq JobId /\ stranded \subseteq Job /\ retimed \subseteq Job

\* A task that an abort can still stop.
Live(l) == loops[l].at # "off" /\ ~loops[l].doomed

\* One task per job: cancels, edits, one-shot retirements and restarts in any
\* order never leave two tasks running the same job.  Excepted are names in
\* "raced": two operations were inside their registration at once, or a
\* one-time job that had its run took another registration of the name out
\* with it (ReturnJob removes by name).
OneTaskPerJob ==
    \A l, m \in Loop : Live(l) /\ Live(m) /\ loops[l].id = loops[m].id
        /\ loops[l].id \notin raced => l = m

\* A task only ever runs the registration that is in the registry at that
\* moment, never the copy of a job cancelled or edited while it slept.  The
\* names in "raced" are excepted, as above.
FiresRegistered ==
    [][\A l \in Loop : loops[l].at = "sleep" /\ loops'[l].at = "run"
           /\ loops[l].id \notin raced => jobs[loops[l].id] = loops[l].job]_vars

\* A once or delay job is run by its task at most once, restarts included: a
\* crash during the run does not bring it back.  Two exceptions: names in
\* "raced", as above; and registrations in "retimed", whose time was read in
\* two zones, by a restore() in another zone than the one the job is pinned
\* to, or because the zone was changed under a job that follows it.  Those
\* are run again when the second zone has the time still to come.
OnceFiresOnce ==
    \A j \in again : j.id \in raced \/ j \in retimed

\* With the mutex free the file is the registry, so that a restart then
\* finds every job that was registered and none that was cancelled.
JobsOnDisk == boot # "down" /\ ~writing =>
                  jobs = IF file = Torn THEN NoJobs ELSE file

\* After the first success of a one-shot job, scheduled or run by hand, that
\* registration is gone from the registry for good.
OneShotRetired == \A i \in JobId : jobs[i] \notin done

\* A job that is registered has its task, or is about to get it, unless it is
\* over: none is listed that the clock has forgotten, whatever is cancelled,
\* edited, run by hand, retired or restarted meanwhile.  Excepted are names in
\* "raced", registrations in "stranded" (their request was dropped before the
\* spawn) and, in "retimed", those whose end the change of the zone moved.
JobsHaveTasks ==
    boot = "up" => \A i \in JobId \ raced :
        jobs[i] \notin stranded \cup retimed \cup {NoJob} =>
        \/ \E l \in Loop : Live(l) /\ loops[l].id = i
        \/ \E c \in Caller : pc[c] = "spawn" /\ req[c].id = i
        \/ Ended(jobs[i].opts)

\* A registered once job whose runAt parses, and whose request was not dropped.
Awaited(i) == /\ boot = "up" /\ jobs[i] \notin stranded \cup {NoJob}
              /\ jobs[i].opts.mode = "once" /\ jobs[i].opts.valid

\* A job of the future is not forgotten: a registered once job is run, or
\* taken out of the registry, or its process dies; the same after a restart.
OnceJobRuns == \A i \in JobId : Awaited(i) ~> ~Awaited(i)

-----------------------------------------------------------------------------
(***************************************************************************)
(* The abstract scheduler this implements.  Its table is the registry, or  *)
(* what a start-up would load while the process is down.                   *)
(***************************************************************************)
Table == IF boot # "down" THEN jobs ELSE IF file = Torn THEN NoJobs ELSE file

Runs == [a \in Actor |-> IF run[a].phase = "none" THEN NoJob ELSE run[a].job]

Promise == INSTANCE JobTable WITH
    Timer <- Loop, Hand <- Caller, table <- Table, running <- Runs, ran <- fired,
    retired <- done, disputed <- raced, next <- gens, setting <- timezone

\* Handles, tasks, flushes, start-up and crashes show nothing but a table that
\* outlives the process: what runs is what is registered, a one-time job runs
\* once and not early, and what left the table stays away.  Less is promised of
\* names that are "raced" and registrations that are "retimed".
JobTableSpec == Promise!Spec
=============================================================================
