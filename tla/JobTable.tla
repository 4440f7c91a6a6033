------------------------------ MODULE JobTable ------------------------------
(***************************************************************************)
(* What the scheduler promises, with no tasks, no handles, no mutex and no *)
(* start-up: a table of the registered jobs that outlives the process, and *)
(* the runs under way.                                                     *)
(*                                                                         *)
(* What runs is what the table has at that moment; a one-time job runs on  *)
(* time at most once and never early; a job leaves the table because it    *)
(* was cancelled, has had its run, is over, or with the whole table, and   *)
(* does not come back.  A name that two operations registered at once is   *)
(* disputed from then on, and less is promised of it.  So it is of a job   *)
(* whose time was read in two zones: it may be run again, or never.        *)
(***************************************************************************)
EXTENDS Naturals

CONSTANTS
    JobId,   \* names of jobs
    Job,     \* registrations: records with id, gen and opts
    Timer,   \* what runs jobs on time
    Hand,    \* who runs them by hand
    Zone,    \* time zones
    Late,    \* how much later a time comes in each
    NoJob

Runner == Timer \cup Hand

VARIABLES
    table,     \* what is registered under each name
    running,   \* the run of each runner
    ran,       \* one-time registrations that were run on time
    retired,   \* one-shot registrations that have succeeded
    disputed,  \* names that two operations registered at once
    retimed,   \* registrations whose time was read in two zones
    next,      \* the number of the next registration
    setting,   \* the time zone that is set
    now

vars == <<table, running, ran, retired, disputed, retimed, next, setting, now>>

OneTime(j) == j.opts.mode \in {"once", "delay"}

\* A job means its times in the zone it is pinned to, or in the one that is set.
Shift(j) == Late[IF j.opts.zone \in Zone THEN j.opts.zone ELSE setting]

\* A restart does not bring it back.
Over(j) == \/ j.opts.mode = "delay"
           \/ j.opts.endAt + Shift(j) <= now
           \/ j.opts.mode = "once" /\ j.opts.valid /\ j.opts.at + Shift(j) <= now

RunsOf(i) == {a \in Runner : running[a] # NoJob /\ running[a].id = i}

Stop(A) == running' = [a \in Runner |-> IF a \in A THEN NoJob ELSE running[a]]

TakeOut(i) == table' = [table EXCEPT ![i] = NoJob]

Init ==
    /\ table \in [JobId -> Job \cup {NoJob}]
    /\ running = [a \in Runner |-> NoJob]
    /\ ran = {} /\ retired = {} /\ disputed = {} /\ retimed = {}
    /\ \A i \in JobId : table[i] # NoJob => table[i].id = i /\ table[i].gen < next

Register(i) ==
    LET j == table'[i]
    IN  /\ j \in Job /\ j.id = i /\ j.gen = next /\ next' = next + 1
        /\ table[i] = NoJob \/ i \in disputed
        /\ table' = [table EXCEPT ![i] = j]
        /\ UNCHANGED <<running, ran, retired, disputed, retimed, setting, now>>

\* With the runs under way, or some of them.
Cancel(i, A) ==
    /\ A \subseteq RunsOf(i) /\ Stop(A) /\ TakeOut(i)
    /\ UNCHANGED <<ran, retired, disputed, retimed, next, setting, now>>

\* A one-shot job has succeeded.
Retire(i, A) ==
    /\ A \subseteq RunsOf(i) /\ Stop(A) /\ TakeOut(i)
    /\ \E a \in A : running[a].opts.oneShot /\ retired' = retired \cup {running[a]}
    /\ UNCHANGED <<ran, disputed, retimed, next, setting, now>>

\* A one-time job has had its run.  Another one that has taken its name
\* meanwhile goes with it, and the name is disputed.
Finish(i) ==
    /\ \E j \in ran : j.id = i
    /\ disputed' \in {disputed, disputed \cup {i}}
    /\ table[i] \in ran \cup {NoJob} \/ i \in disputed'
    /\ TakeOut(i)
    /\ UNCHANGED <<running, ran, retired, retimed, next, setting, now>>

\* The job of name i is run on time.
StartDue(a, i) ==
    LET j == running'[a]
    IN  /\ running[a] = NoJob
        /\ j \in Job /\ j.id = i /\ running' = [running EXCEPT ![a] = j]
        /\ j.opts.mode = "once" =>
               \/ j.opts.at + Shift(j) <= now
               \/ j.opts.zone \notin Zone /\ (i \in disputed \/ j \in retimed)
        /\ \/ i \in disputed
           \/ j = table[i] /\ (OneTime(j) => j \in retimed \/ j \notin ran)
        /\ ran' = IF OneTime(j) THEN ran \cup {j} ELSE ran
        /\ UNCHANGED <<table, retired, disputed, retimed, next, setting, now>>

\* It is run by hand.
StartNow(a, i) ==
    /\ running[a] = NoJob /\ table[i] # NoJob
    /\ running' = [running EXCEPT ![a] = table[i]]
    /\ UNCHANGED <<table, ran, retired, disputed, retimed, next, setting, now>>

End(A) == Stop(A) /\ UNCHANGED <<table, ran, retired, disputed, retimed, next, setting, now>>

\* At a restart: jobs pinned to another zone than the one that is set are
\* judged by the wrong one.
Judge ==
    /\ retimed' = retimed \cup {j \in {table[i] : i \in JobId} \ {NoJob} :
                                    j.opts.zone \in Zone \ {setting}}
    /\ UNCHANGED <<table, running, ran, retired, disputed, next, setting, now>>

\* And what is over by then is taken out.
Expire(S) ==
    /\ \A i \in S : /\ table[i] # NoJob
                     /\ \/ i \in disputed \/ table[i] \in retimed
                        \/ Over(table[i])
    /\ table' = [i \in JobId |-> IF i \in S THEN NoJob ELSE table[i]]
    /\ UNCHANGED <<running, ran, retired, disputed, retimed, next, setting, now>>

\* A crash while the table is written.
Lose ==
    /\ table' = [i \in JobId |-> NoJob] /\ Stop(Runner)
    /\ UNCHANGED <<ran, retired, disputed, retimed, next, setting, now>>

Dispute(i) == /\ disputed' = disputed \cup {i}
              /\ UNCHANGED <<table, running, ran, retired, retimed, next, setting, now>>

\* Another time zone is set.
Move(z) ==
    /\ setting' = z
    /\ retimed' = retimed \cup {j \in ({table[i] : i \in JobId} \ {NoJob}) \cup ran :
                                    j.opts.zone \notin Zone}
    /\ UNCHANGED <<table, running, ran, retired, disputed, next, now>>

Tick == /\ now' = now + 1
        /\ UNCHANGED <<table, running, ran, retired, disputed, retimed, next, setting>>

Next ==
    \/ \E i \in JobId : Register(i) \/ Finish(i) \/ Dispute(i)
    \/ \E i \in JobId, A \in SUBSET Runner : Cancel(i, A) \/ Retire(i, A)
    \/ \E i \in JobId, a \in Timer : StartDue(a, i)
    \/ \E i \in JobId, a \in Hand : StartNow(a, i)
    \/ \E A \in SUBSET Runner : End(A)
    \/ \E S \in SUBSET JobId : Expire(S)
    \/ \E z \in Zone : Move(z)
    \/ Judge \/ Lose \/ Tick

Spec == Init /\ [][Next]_vars
=============================================================================
