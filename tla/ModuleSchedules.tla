-------------------------- MODULE ModuleSchedules --------------------------
(***************************************************************************)
(* The reconciliation of one module's declared schedules with the clock    *)
(* (core/src/core_facade.rs sync_module_schedules, the record it keeps in  *)
(* the module's settings, and who calls it: the enable toggle, a save of   *)
(* the settings screen, and start-up).                                     *)
(*                                                                         *)
(* A reconciliation reads the declarations, the settings and the clock,    *)
(* then acts on what it read while others may act too; the settings are    *)
(* one object that everybody writes as a whole.  The scheduler is here     *)
(* what CronAdapter promises of it: a table of jobs that refuses a         *)
(* duplicate or an unusable trigger, and that survives a restart.          *)
(*                                                                         *)
(* A Bug_ definition is a seeded fault: no specification uses it.          *)
(***************************************************************************)
EXTENDS Naturals, FiniteSets

CONSTANTS
    File,         \* schedule files a module may declare
    Static,       \* those its config lists; the others are named by rows
    Content,      \* what such a file, or a registered job, may say: the set
                  \* of the options it sets, each with its value
    Sound,        \* the contents the scheduler accepts
    NoJob,        \* a model value: no such file, no such job
    NoScreen,     \* a model value: no settings screen is open
    Request,      \* requests to the module service
    Boot,         \* the reconciliation that start-up spawns
    Founding,     \* the clocks the system may find when it is first started
    MaxRequests,  \* bound: toggles and saves
    MaxChanges,   \* bound: changes of files, edits of jobs
    MaxFailures    \* bound: crashes of the core, requests dropped half-way

ASSUME ScheduleAssumption ==
    /\ Static \subseteq File /\ Sound \subseteq Content
    /\ NoJob \notin Content /\ Boot \notin Request
    /\ Founding \subseteq [File -> Sound \cup {NoJob}]
    /\ MaxRequests \in Nat /\ MaxChanges \in Nat /\ MaxFailures \in Nat

Task == Request \cup {Boot}

\* The module's settings in the vault.  "on" are the files named by the rows
\* that are switched on, "record" is _registeredSchedules.
Settings == [enabled : BOOLEAN, on : SUBSET File, record : SUBSET File]

ASSUME ScreenAssumption == NoScreen \notin Settings

Jobs == [File -> Content \cup {NoJob}]

VARIABLES
    settings,  \* the vault's copy
    screen,    \* the copy in the settings screen of the browser
    disk,      \* the files of the module's folder
    live,      \* the jobs on the clock under this module's names
    at,        \* where each reconciliation, or the request around it, is
    work,      \* what it holds
    gone,      \* history: jobs that left the clock by themselves or by the owner
    lost,      \* history: files whose job was on the clock when the record
               \* lost it or failed to get it
    calm,      \* history: nothing has disturbed the last reconciliation
    requests, changes, failures

counters == <<requests, changes, failures>>
history == <<gone, calm, lost>>
vars == <<settings, screen, disk, live, at, work, history, counters>>

\* jobs and seen are the declarations and the clock as they were read, todo
\* the files still to be dealt with, copy the settings about to be written.
Work == [jobs : Jobs, seen : Jobs, already : SUBSET File, todo : SUBSET File,
         changed : BOOLEAN, copy : Settings]

At == {"idle", "enable", "declare", "branch", "withdraw", "look", "register",
       "orphans", "record", "save"}

Quiet == \A t \in Task : at[t] = "idle"

Goto(t, where) == at' = [at EXCEPT ![t] = where]

\* declared_schedule_jobs: the files that are named, present and readable.
declared_schedule_jobs ==
    [f \in File |-> IF f \in Static \cup settings.on THEN disk[f] ELSE NoJob]

Named(jobs) == {f \in File : jobs[f] # NoJob}

\* The order of the declarations: any one will do.
First(fs) == CHOOSE f \in fs : TRUE

\* What a write of the settings is remembered by.  A deletion made while no
\* reconciliation was under way is "kept" as long as the record has the file,
\* "unkept" otherwise; turning the module off, and a declaration that leaves,
\* are meant to forget it.  A write from an old copy may lose a live job.
Remember(s) ==
    /\ gone' = [f \in File |->
                  CASE ~s.enabled \/ f \notin Static \cup s.on -> "no"
                    [] gone[f] = "kept" /\ f \notin s.record -> "unkept"
                    [] OTHER -> gone[f]]
    /\ lost' = lost \cup (Named(live) \cap (settings.record \ s.record))

-----------------------------------------------------------------------------
(***************************************************************************)
(* Who reconciles.                                                         *)
(***************************************************************************)
Idle == [jobs |-> [f \in File |-> NoJob], seen |-> [f \in File |-> NoJob],
         already |-> {}, todo |-> {}, changed |-> FALSE,
         copy |-> [enabled |-> TRUE, on |-> {}, record |-> {}]]

Begin(r) ==
    /\ at[r] = "idle" /\ requests < MaxRequests
    /\ requests' = requests + 1 /\ calm' = Quiet
    /\ UNCHANGED <<disk, live, changes, failures>>

\* set_enabled reads the settings, and writes all of them back.
Toggle(r, b) ==
    /\ Begin(r) /\ Goto(r, "enable")
    /\ work' = [work EXCEPT ![r].copy = [settings EXCEPT !.enabled = b]]
    /\ UNCHANGED <<settings, screen, gone, lost>>

Enable(r) ==
    /\ at[r] = "enable" /\ Goto(r, "declare")
    /\ settings' = work[r].copy /\ Remember(settings')
    /\ UNCHANGED <<screen, disk, live, work, calm, counters>>

Open ==
    /\ screen = NoScreen /\ screen' = settings
    /\ UNCHANGED <<settings, disk, live, at, work, history, counters>>

\* The screen sends all it was opened with, rows edited, and keeps it.
Save(r, rows) ==
    /\ screen # NoScreen
    /\ Begin(r) /\ Goto(r, "declare")
    /\ screen' = [screen EXCEPT !.on = rows]
    /\ settings' = screen' /\ Remember(settings')
    /\ UNCHANGED work

-----------------------------------------------------------------------------
(***************************************************************************)
(* sync_module_schedules.  Every await ends a step.                        *)
(***************************************************************************)
End(t) == at' = [at EXCEPT ![t] = "idle"] /\ work' = [work EXCEPT ![t] = Idle]

Declare(t) ==
    /\ at[t] = "declare" /\ Goto(t, "branch")
    /\ work' = [work EXCEPT ![t].jobs = declared_schedule_jobs]
    /\ UNCHANGED <<settings, screen, disk, live, history, counters>>

Bug_BranchOffByRecord(t) ==
    LET names == Named(work[t].jobs) \cup settings.record
    IN  /\ at[t] = "branch"
        /\ \/ /\ names = {} /\ End(t)
           \/ /\ names # {} /\ ~settings.enabled /\ Goto(t, "withdraw")
              /\ work' = [work EXCEPT ![t].todo = settings.record]
           \/ /\ names # {} /\ settings.enabled /\ Goto(t, "look")
              /\ work' = [work EXCEPT ![t].already = settings.record]
        /\ UNCHANGED <<settings, screen, disk, live, history, counters>>

\* Reads of the settings that no await separates are one step.
Branch(t) ==
    LET names == Named(work[t].jobs) \cup settings.record
    IN  /\ at[t] = "branch"
        /\ \/ /\ names = {} /\ End(t)
           \/ /\ names # {} /\ ~settings.enabled /\ Goto(t, "withdraw")
              /\ work' = [work EXCEPT ![t].todo = names]
           \/ /\ names # {} /\ settings.enabled /\ Goto(t, "look")
              /\ work' = [work EXCEPT ![t].already = settings.record]
        /\ UNCHANGED <<settings, screen, disk, live, history, counters>>

\* Every option the declaration sets is set so on the job.  What the job says
\* beyond that is not looked at, be it the scheduler's, the owner's, or left
\* from a version of the file that said more.
declaration_is_live(declared, registered) == declared \subseteq registered

Stale(w, f) ==
    /\ w.jobs[f] # NoJob /\ w.seen[f] # NoJob
    /\ ~declaration_is_live(w.jobs[f], w.seen[f])

Bug_FreshOnlyTheFirstTime(w, f) ==
    w.jobs[f] # NoJob /\ w.seen[f] = NoJob /\ w.already = {}

Bug_FreshWithoutRecord(w, f) == w.jobs[f] # NoJob /\ w.seen[f] = NoJob

\* Not registered before, and not on the clock.
Fresh(w, f) ==
    w.jobs[f] # NoJob /\ w.seen[f] = NoJob /\ f \notin w.already

Look(t) ==
    LET w == [work[t] EXCEPT !.seen = live]
    IN  /\ at[t] = "look" /\ Goto(t, "register")
        /\ work' = [work EXCEPT ![t] =
                      [w EXCEPT !.todo = {f \in File : Stale(w, f) \/ Fresh(w, f)}]]
        /\ UNCHANGED <<settings, screen, disk, live, history, counters>>

\* A stale job is withdrawn first, for the scheduler refuses a duplicate.
Repair(t) ==
    LET f == First(work[t].todo)
    IN  /\ at[t] = "register" /\ work[t].todo # {} /\ work[t].seen[f] # NoJob
        /\ live' = [live EXCEPT ![f] = NoJob]
        /\ work' = [work EXCEPT ![t].seen[f] = NoJob]
        /\ UNCHANGED <<settings, screen, disk, at, history, counters>>

Accepts(f, c) == live[f] = NoJob /\ c \in Sound

Register(t) ==
    LET w == work[t]
        f == First(w.todo)
        rest == [w EXCEPT !.todo = @ \ {f}]
    IN  /\ at[t] = "register" /\ w.todo # {} /\ w.seen[f] = NoJob
        /\ IF Accepts(f, w.jobs[f])
           THEN /\ live' = [live EXCEPT ![f] = w.jobs[f]]
                /\ work' = [work EXCEPT ![t] =
                              [rest EXCEPT !.already = @ \cup {f},
                                           !.changed = TRUE]]
           ELSE UNCHANGED live /\ work' = [work EXCEPT ![t] = rest]
        /\ UNCHANGED <<settings, screen, disk, at, history, counters>>

Bug_RegisteredTrustsRecord(t) ==
    LET w == work[t]
    IN  /\ at[t] = "register" /\ w.todo = {} /\ Goto(t, "orphans")
        /\ work' = [work EXCEPT ![t].todo =
                      {f \in File : w.jobs[f] = NoJob /\ f \in w.already}]
        /\ UNCHANGED <<settings, screen, disk, live, history, counters>>

\* The other half: what the record or the clock has, and nothing declares.
Registered(t) ==
    LET w == work[t]
    IN  /\ at[t] = "register" /\ w.todo = {} /\ Goto(t, "orphans")
        /\ work' = [work EXCEPT ![t].todo =
                      {f \in File : w.jobs[f] = NoJob
                                    /\ (f \in w.already \/ w.seen[f] # NoJob)}]
        /\ UNCHANGED <<settings, screen, disk, live, history, counters>>

\* schedule.cancel of an orphan, or of any job of a module that is off.
Withdraw(t) ==
    LET f == First(work[t].todo)
    IN  /\ at[t] \in {"withdraw", "orphans"} /\ work[t].todo # {}
        /\ live' = [live EXCEPT ![f] = NoJob]
        /\ work' = [work EXCEPT ![t].todo = @ \ {f},
                                ![t].changed = @ \/ (at[t] = "withdraw"
                                                     /\ live[f] # NoJob)]
        /\ UNCHANGED <<settings, screen, disk, at, history, counters>>

\* Off: the record is cleared if a job was withdrawn.  On: it is written if a
\* job was added, or if it names what is not declared any more.
Withdrawn(t) ==
    LET w == work[t]
        stay == IF at[t] = "withdraw" THEN {} ELSE w.already \cap Named(w.jobs)
    IN  /\ at[t] \in {"withdraw", "orphans"} /\ w.todo = {}
        /\ IF w.changed \/ (at[t] = "orphans" /\ stay # w.already)
           THEN /\ Goto(t, "record")
                /\ work' = [work EXCEPT ![t].already = stay]
           ELSE End(t)
        /\ UNCHANGED <<settings, screen, disk, live, history, counters>>

\* set_registered_schedules reads the settings, and writes all of them back.
Fetch(t) ==
    /\ at[t] = "record" /\ Goto(t, "save")
    /\ work' = [work EXCEPT ![t].copy =
                  [settings EXCEPT !.record = work[t].already]]
    /\ UNCHANGED <<settings, screen, disk, live, history, counters>>

Record(t) ==
    /\ at[t] = "save" /\ End(t)
    /\ settings' = work[t].copy /\ Remember(settings')
    /\ UNCHANGED <<screen, disk, live, calm, counters>>

Sync(t) ==
    \/ Declare(t) \/ Branch(t) \/ Look(t) \/ Repair(t) \/ Register(t)
    \/ Registered(t) \/ Withdraw(t) \/ Withdrawn(t) \/ Fetch(t) \/ Record(t)

-----------------------------------------------------------------------------
(***************************************************************************)
(* What happens meanwhile.                                                 *)
(***************************************************************************)
\* The client of a request goes away: its future is dropped at an await, and
\* what it registered may not be in the record yet.
Drop(r) ==
    /\ at[r] \notin {"idle", "enable", "save"} /\ End(r) /\ calm' = FALSE
    /\ lost' = lost \cup (Named(live) \cap (work[r].already \ settings.record))
    /\ failures < MaxFailures /\ failures' = failures + 1
    /\ UNCHANGED <<settings, screen, disk, live, gone, requests, changes>>

\* The owner deletes a job, or a job that runs once has run.
Leave(f) ==
    /\ live[f] # NoJob /\ live' = [live EXCEPT ![f] = NoJob]
    /\ gone' = [gone EXCEPT ![f] =
                  CASE ~Quiet -> "raced"
                    [] Quiet /\ f \in settings.record -> "kept"
                    [] OTHER -> "unkept"]
    /\ UNCHANGED <<settings, screen, disk, at, work, calm, lost, counters>>

\* The owner edits a job.
Edit(f, c) ==
    /\ changes < MaxChanges /\ changes' = changes + 1
    /\ live[f] \notin {NoJob, c} /\ live' = [live EXCEPT ![f] = c]
    /\ calm' = FALSE
    /\ UNCHANGED <<settings, screen, disk, at, work, gone, lost, requests, failures>>

\* A new version of the module: a file is changed, added or removed.
Change(f, c) ==
    /\ changes < MaxChanges /\ changes' = changes + 1
    /\ disk[f] # c /\ disk' = [disk EXCEPT ![f] = c]
    /\ calm' = FALSE
    /\ gone' = IF c = NoJob THEN [gone EXCEPT ![f] = "no"] ELSE gone
    /\ UNCHANGED <<settings, screen, live, at, work, lost, requests, failures>>

\* The core stops; the vault and the jobs file stay, and start-up reconciles.
Crash ==
    /\ failures < MaxFailures /\ failures' = failures + 1
    /\ at' = [t \in Task |-> IF t = Boot THEN "declare" ELSE "idle"]
    /\ work' = [t \in Task |-> Idle] /\ calm' = TRUE
    /\ lost' = lost \cup (Named(live) \ settings.record)
    /\ UNCHANGED <<settings, screen, disk, live, gone, requests, changes>>

Init ==
    /\ settings \in [enabled : BOOLEAN, on : SUBSET (File \ Static), record : {{}}]
    /\ screen = NoScreen
    /\ disk \in Jobs /\ live \in Founding
    /\ at = [t \in Task |-> IF t = Boot THEN "declare" ELSE "idle"]
    /\ work = [t \in Task |-> Idle]
    /\ gone = [f \in File |-> "no"] /\ calm = TRUE /\ lost = Named(live)
    /\ requests = 0 /\ changes = 0 /\ failures = 0

Next ==
    \/ \E r \in Request : \/ \E b \in BOOLEAN : Toggle(r, b)
                          \/ \E rows \in SUBSET (File \ Static) : Save(r, rows)
                          \/ Enable(r) \/ Drop(r)
    \/ \E t \in Task : Sync(t)
    \/ Open
    \/ \E f \in File : \/ Leave(f)
                       \/ \E c \in Sound : Edit(f, c)
                       \/ \E c \in Content \cup {NoJob} : Change(f, c)
    \/ Crash

Spec == Init /\ [][Next]_vars

-----------------------------------------------------------------------------
(***************************************************************************)
(* Properties.                                                             *)
(***************************************************************************)
\* Every variable keeps its shape; a file being registered or repaired is one
\* that the reconciliation read as declared.
TypeOK ==
    /\ settings \in Settings /\ screen \in Settings \cup {NoScreen}
    /\ disk \in Jobs /\ live \in [File -> Sound \cup {NoJob}]
    /\ at \in [Task -> At] /\ work \in [Task -> Work]
    /\ gone \in [File -> {"no", "raced", "kept", "unkept"}] /\ calm \in BOOLEAN
    /\ lost \subseteq File
    /\ requests \in Nat /\ changes \in Nat /\ failures \in Nat
    /\ \A t \in Task : at[t] = "register" => work[t].todo \subseteq Named(work[t].jobs)

\* The last reconciliation ran alone, to its end, on what is still declared.
Reconciled == Quiet /\ calm

\* core_facade.rs: "a declaration that left the list leaves the clock with it",
\* and a changed one is re-registered.  Whatever crashes, races and dropped
\* requests went before, after one undisturbed reconciliation every job on the
\* clock is declared, and says all that its declaration says.  It may say more:
\* an end, a condition or a retry that a new version of the file drops, or that
\* the owner adds, stays on the clock (declaration_is_live).  When nothing is
\* declared or recorded the reconciliation returns before it looks.
ClockFollowsDeclarations ==
    /\ Reconciled /\ settings.enabled
    /\ Named(declared_schedule_jobs) \cup settings.record # {}
    => \A f \in Named(live) :
          /\ declared_schedule_jobs[f] # NoJob
          /\ declaration_is_live(declared_schedule_jobs[f], live[f])

\* core_facade.rs: "a schedule added in a later version of the module is still
\* picked up": a usable declaration that is not recorded is on the clock,
\* unless it left the clock by itself or by its owner.
NewSchedulesArePickedUp ==
    Reconciled /\ settings.enabled =>
        \A f \in File :
            /\ declared_schedule_jobs[f] \in Sound
            /\ f \notin settings.record /\ gone[f] = "no"
            => live[f] # NoJob

\* grpc/module.rs, of turning a module off: it withdraws the schedules, "so off
\* means off rather than off-but-still-firing".  After an undisturbed
\* reconciliation the only job still on the clock is one that is neither
\* declared nor recorded, for the off branch does not look at the clock, and
\* that only after the record lost it: it was found there when the system was
\* first started, a crash or a dropped request came before it was recorded, or
\* settings written from an older copy took it out.  Such a job goes on firing.
OffMeansOff ==
    Reconciled /\ ~settings.enabled =>
        \A f \in Named(live) :
            f \in lost \ (Named(declared_schedule_jobs) \cup settings.record)

\* core_facade.rs: a job the owner deleted is not brought back, by any number of
\* reconciliations, however they overlap, are dropped or restarted, as long as
\* the record has its file.
RecordedStaysDeleted == \A f \in File : gone[f] = "kept" => live[f] = NoJob

\* core_facade.rs: a job the owner deleted deliberately does not come back.
DeletedStaysDeleted ==
    \A f \in File : gone[f] \in {"kept", "unkept"} => live[f] = NoJob
=============================================================================
