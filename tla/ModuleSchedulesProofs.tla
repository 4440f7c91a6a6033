----------------------- MODULE ModuleSchedulesProofs -----------------------
(***************************************************************************)
(* Proofs about ModuleSchedules, for any files, contents, requests and     *)
(* bounds: its types, what a deletion is worth, what an undisturbed        *)
(* reconciliation leaves behind, and that each one comes to its end.       *)
(***************************************************************************)
EXTENDS ModuleSchedules, FiniteSetTheorems, TLAPS

declared == declared_schedule_jobs

\* A deletion that the record covers is in front of every reconciliation: one
\* that has read the record has read the file in it, and none will register it.
Kept ==
    \A f \in File : gone[f] = "kept" =>
        /\ live[f] = NoJob /\ f \in settings.record
        /\ \A t \in Task : /\ at[t] = "look" => f \in work[t].already
                           /\ at[t] = "register" => f \notin work[t].todo

\* A reconciliation that nothing disturbs is the only one.
Alone ==
    calm => \A s, t \in Task : at[s] # "idle" /\ at[t] # "idle" => s = t

\* Nothing is added before the clock has been read.
Unchanged ==
    \A t \in Task :
        at[t] \in {"idle", "enable", "declare", "branch", "look"} =>
            ~work[t].changed

Follows(f) ==
    live[f] # NoJob =>
        declared[f] # NoJob /\ declaration_is_live(declared[f], live[f])

PickedUp(f, record) ==
    declared[f] \in Sound /\ f \notin record /\ gone[f] = "no" =>
        live[f] # NoJob

Off(f) == f \in Named(declared) \cup settings.record => live[f] = NoJob

\* What reconciliation t has registered and is yet to record.
InHand(t, f) ==
    \/ /\ at[t] \in {"register", "orphans"} /\ work[t].changed
       /\ f \in work[t].already /\ work[t].jobs[f] # NoJob
    \/ at[t] = "record" /\ f \in work[t].already
    \/ at[t] = "save" /\ f \in work[t].copy.record

\* A job on the clock is recorded, about to be, or lost to the record.
Known ==
    \A f \in File : live[f] # NoJob =>
        f \in lost \cup settings.record \/ \E t \in Task : InHand(t, f)

\* What holds at each place of an undisturbed reconciliation of a module that
\* is on ...
OnStep(t) ==
    /\ at[t] \in {"look", "register", "orphans"} =>
         /\ settings.enabled /\ work[t].jobs = declared
         /\ ~work[t].changed => work[t].already = settings.record
    /\ at[t] = "register" =>
         \A f \in File :
            /\ Follows(f) \/ /\ work[t].seen[f] # NoJob
                             /\ declared[f] # NoJob => f \in work[t].todo
            /\ PickedUp(f, work[t].already) \/ f \in work[t].todo
    /\ at[t] = "orphans" =>
         \A f \in File :
            /\ Follows(f) \/ f \in work[t].todo
            /\ PickedUp(f, work[t].already)
            /\ f \in work[t].todo => declared[f] = NoJob
    /\ at[t] \in {"record", "save"} /\ settings.enabled =>
         \A f \in File : Follows(f) /\ PickedUp(f, work[t].already)

\* ... and of one that is off.
OffStep(t) ==
    /\ at[t] = "withdraw" =>
         /\ ~settings.enabled
         /\ \A f \in File : Off(f) \/ f \in work[t].todo
    /\ at[t] \in {"record", "save"} /\ ~settings.enabled =>
         work[t].already = {} /\ \A f \in File : Off(f)

StepOf(t) ==
    /\ at[t] = "branch" => work[t].jobs = declared
    /\ at[t] = "save" =>
         work[t].copy = [settings EXCEPT !.record = work[t].already]
    /\ OnStep(t) /\ OffStep(t)

Steps == calm => \A t \in Task : StepOf(t)

\* What a reconciliation of a module that is off sees to.
Withdrawal == Reconciled /\ ~settings.enabled => \A f \in File : Off(f)

Outcome == ClockFollowsDeclarations /\ NewSchedulesArePickedUp /\ Withdrawal

-----------------------------------------------------------------------------
LEMMA FirstType ==
    ASSUME NEW fs \in SUBSET File, fs # {}
    PROVE  First(fs) \in fs /\ First(fs) \in File
BY DEF First

LEMMA IdleType == Idle \in Work
BY DEF Idle, Work, Jobs, Settings

LEMMA DeclaredType == TypeOK => declared \in Jobs
BY DEF TypeOK, declared, declared_schedule_jobs, Jobs

\* The memory of a deletion has its four values; only files are lost.
LEMMA RememberType ==
    ASSUME TypeOK, NEW s \in Settings, Remember(s)
    PROVE  /\ gone' \in [File -> {"no", "raced", "kept", "unkept"}]
           /\ lost' \subseteq File
BY DEF TypeOK, Remember, Named

\* What a step of reconciliation t leaves in its hands, and where it goes.
LEMMA Moved ==
    ASSUME TypeOK, NEW t \in Task, NEW a \in At, NEW w \in Work,
           at' = [at EXCEPT ![t] = a], work' = [work EXCEPT ![t] = w],
           a = "register" => w.todo \subseteq Named(w.jobs)
    PROVE  /\ at' \in [Task -> At] /\ work' \in [Task -> Work]
           /\ at'[t] = a /\ work'[t] = w
           /\ \A s \in Task \ {t} : at'[s] = at[s] /\ work'[s] = work[s]
           /\ \A s \in Task : at'[s] = "register" =>
                 work'[s].todo \subseteq Named(work'[s].jobs)
BY DEF TypeOK

LEMMA Ended ==
    ASSUME TypeOK, NEW t \in Task, End(t)
    PROVE  /\ at' \in [Task -> At] /\ work' \in [Task -> Work]
           /\ at'[t] = "idle" /\ work'[t] = Idle
           /\ \A s \in Task \ {t} : at'[s] = at[s] /\ work'[s] = work[s]
           /\ \A s \in Task : at'[s] = "register" =>
                 work'[s].todo \subseteq Named(work'[s].jobs)
BY IdleType DEF TypeOK, End, At

Others(t) == \A s \in Task \ {t} : at'[s] = at[s] /\ work'[s] = work[s]

\* Every step of a reconciliation moves it alone, and keeps the types.
LEMMA SyncTypes ==
    ASSUME TypeOK, NEW t \in Task, Sync(t)
    PROVE  TypeOK' /\ Others(t)
<1> DEFINE f == First(work[t].todo)
<1>0. /\ work[t] \in Work /\ work[t].jobs \in Jobs /\ work[t].seen \in Jobs
      /\ work[t].copy \in Settings /\ work[t].todo \subseteq File
      /\ work[t].already \subseteq File /\ declared \in Jobs
      /\ live \in Jobs /\ settings \in Settings
  BY DeclaredType, ScheduleAssumption DEF TypeOK, Work, Jobs
<1>1. CASE Declare(t)
  <2> DEFINE w == [work[t] EXCEPT !.jobs = declared]
  <2>1. w \in Work BY <1>0 DEF Work
  <2>2. at' = [at EXCEPT ![t] = "branch"] /\ work' = [work EXCEPT ![t] = w]
    BY <1>1 DEF Declare, Goto, declared
  <2> HIDE DEF w
  <2>3. /\ at' \in [Task -> At] /\ work' \in [Task -> Work] /\ Others(t)
        /\ \A s \in Task : at'[s] = "register" =>
              work'[s].todo \subseteq Named(work'[s].jobs)
    BY <2>1, <2>2, Moved DEF Others, At
  <2> QED BY <1>1, <2>3 DEF Declare, TypeOK, history, counters
<1>2. CASE Branch(t)
  <2> DEFINE names == Named(work[t].jobs) \cup settings.record
  <2>1. names \subseteq File BY <1>0 DEF Named, Settings
  <2>2. CASE End(t)
    BY <1>2, <2>2, Ended DEF Branch, Others, TypeOK, history, counters
  <2>3. CASE /\ at' = [at EXCEPT ![t] = "withdraw"]
             /\ work' = [work EXCEPT ![t] = [work[t] EXCEPT !.todo = names]]
    <3> DEFINE w == [work[t] EXCEPT !.todo = names]
    <3>1. w \in Work BY <1>0, <2>1 DEF Work
    <3> HIDE DEF w
    <3>2. /\ at' \in [Task -> At] /\ work' \in [Task -> Work] /\ Others(t)
          /\ \A s \in Task : at'[s] = "register" =>
                work'[s].todo \subseteq Named(work'[s].jobs)
      BY <2>3, <3>1, Moved DEF Others, At, w
    <3> QED BY <1>2, <3>2 DEF Branch, TypeOK, history, counters
  <2>4. CASE /\ at' = [at EXCEPT ![t] = "look"]
             /\ work' = [work EXCEPT ![t] =
                           [work[t] EXCEPT !.already = settings.record]]
    <3> DEFINE w == [work[t] EXCEPT !.already = settings.record]
    <3>1. w \in Work BY <1>0 DEF Work, Settings
    <3> HIDE DEF w
    <3>2. /\ at' \in [Task -> At] /\ work' \in [Task -> Work] /\ Others(t)
          /\ \A s \in Task : at'[s] = "register" =>
                work'[s].todo \subseteq Named(work'[s].jobs)
      BY <2>4, <3>1, Moved DEF Others, At, w
    <3> QED BY <1>2, <3>2 DEF Branch, TypeOK, history, counters
  <2> QED BY <1>2, <2>2, <2>3, <2>4 DEF Branch, Goto
<1>3. CASE Look(t)
  <2> DEFINE v == [work[t] EXCEPT !.seen = live]
             w == [v EXCEPT !.todo = {g \in File : Stale(v, g) \/ Fresh(v, g)}]
  <2>1. v \in Work BY <1>0 DEF Work
  <2>2. w \in Work /\ w.todo \subseteq Named(w.jobs)
    <3>1. v.jobs = w.jobs BY <2>1 DEF Work
    <3>2. w.todo = {g \in File : Stale(v, g) \/ Fresh(v, g)} BY <2>1 DEF Work
    <3>3. w \in Work BY <2>1 DEF Work
    <3> HIDE DEF v, w
    <3> QED BY <3>1, <3>2, <3>3 DEF Stale, Fresh, Named
  <2>3. at' = [at EXCEPT ![t] = "register"] /\ work' = [work EXCEPT ![t] = w]
    BY <1>3 DEF Look, Goto
  <2> HIDE DEF v, w
  <2>4. /\ at' \in [Task -> At] /\ work' \in [Task -> Work] /\ Others(t)
        /\ \A s \in Task : at'[s] = "register" =>
              work'[s].todo \subseteq Named(work'[s].jobs)
    BY <2>2, <2>3, Moved DEF Others, At
  <2> QED BY <1>3, <2>4 DEF Look, TypeOK, history, counters
<1>4. CASE Repair(t)
  <2> DEFINE w == [work[t] EXCEPT !.seen = [@ EXCEPT ![f] = NoJob]]
  <2>1. f \in File BY <1>4, <1>0, FirstType DEF Repair
  <2>2. w.seen \in Jobs BY <1>0, <2>1 DEF Jobs, Work
  <2>3. w \in Work /\ w.todo = work[t].todo /\ w.jobs = work[t].jobs
    BY <1>0, <2>2 DEF Work
  <2>4. at' = [at EXCEPT ![t] = "register"] /\ work' = [work EXCEPT ![t] = w]
    BY <1>4 DEF Repair, TypeOK
  <2>5. at[t] = "register" BY <1>4 DEF Repair
  <2> HIDE DEF w
  <2>6. /\ at' \in [Task -> At] /\ work' \in [Task -> Work] /\ Others(t)
        /\ \A s \in Task : at'[s] = "register" =>
              work'[s].todo \subseteq Named(work'[s].jobs)
    BY <2>3, <2>4, <2>5, Moved DEF Others, At, TypeOK
  <2>7. live' \in [File -> Sound \cup {NoJob}] BY <1>4 DEF Repair, TypeOK
  <2> QED BY <1>4, <2>6, <2>7 DEF Repair, TypeOK, history, counters
<1>5. CASE Register(t)
  <2> DEFINE rest == [work[t] EXCEPT !.todo = @ \ {f}]
             more == [rest EXCEPT !.already = @ \cup {f}, !.changed = TRUE]
  <2>1. f \in File /\ at[t] = "register"
    BY <1>5, <1>0, FirstType DEF Register
  <2>2. /\ rest \in Work /\ rest.jobs = work[t].jobs
        /\ rest.todo = work[t].todo \ {f}
    BY <1>0 DEF Work
  <2>3. /\ more \in Work /\ more.jobs = rest.jobs /\ more.todo = rest.todo
    BY <2>1, <2>2 DEF Work
  <2>4. at' = [at EXCEPT ![t] = "register"] BY <1>5 DEF Register, TypeOK
  <2>5. \/ /\ live' = live /\ work' = [work EXCEPT ![t] = rest]
        \/ /\ live' = [live EXCEPT ![f] = work[t].jobs[f]]
           /\ work' = [work EXCEPT ![t] = more] /\ work[t].jobs[f] \in Sound
    <3>1. CASE Accepts(f, work[t].jobs[f])
      BY <1>5, <3>1 DEF Register, Accepts
    <3>2. CASE ~Accepts(f, work[t].jobs[f]) BY <1>5, <3>2 DEF Register
    <3> QED BY <3>1, <3>2
  <2>6. live' \in [File -> Sound \cup {NoJob}] BY <2>5 DEF TypeOK
  <2>7. work[t].todo \subseteq Named(work[t].jobs) BY <2>1 DEF TypeOK
  <2> HIDE DEF rest, more
  <2>8. /\ at' \in [Task -> At] /\ work' \in [Task -> Work] /\ Others(t)
        /\ \A s \in Task : at'[s] = "register" =>
              work'[s].todo \subseteq Named(work'[s].jobs)
    <3>1. CASE work' = [work EXCEPT ![t] = rest]
      BY <3>1, <2>2, <2>4, <2>7, Moved DEF Others, At
    <3>2. CASE work' = [work EXCEPT ![t] = more]
      BY <3>2, <2>2, <2>3, <2>4, <2>7, Moved DEF Others, At
    <3> QED BY <3>1, <3>2, <2>5
  <2> QED BY <1>5, <2>6, <2>8 DEF Register, TypeOK, history, counters
<1>6. CASE Registered(t)
  <2> DEFINE fs == {g \in File : work[t].jobs[g] = NoJob
                        /\ (g \in work[t].already \/ work[t].seen[g] # NoJob)}
             w == [work[t] EXCEPT !.todo = fs]
  <2>1. w \in Work BY <1>0 DEF Work
  <2>2. at' = [at EXCEPT ![t] = "orphans"] /\ work' = [work EXCEPT ![t] = w]
    BY <1>6 DEF Registered, Goto
  <2> HIDE DEF w
  <2>3. /\ at' \in [Task -> At] /\ work' \in [Task -> Work] /\ Others(t)
        /\ \A s \in Task : at'[s] = "register" =>
              work'[s].todo \subseteq Named(work'[s].jobs)
    BY <2>1, <2>2, Moved DEF Others, At
  <2> QED BY <1>6, <2>3 DEF Registered, TypeOK, history, counters
<1>7. CASE Withdraw(t)
  <2> DEFINE c == work[t].changed \/ (at[t] = "withdraw" /\ live[f] # NoJob)
             w == [work[t] EXCEPT !.todo = @ \ {f}, !.changed = c]
  <2>1. f \in File BY <1>7, <1>0, FirstType DEF Withdraw
  <2>2. work[t].changed \in BOOLEAN BY <1>0 DEF Work
  <2>3. c \in BOOLEAN OBVIOUS
  <2>4. at' = at /\ work' = [work EXCEPT ![t] = w] BY <1>7 DEF Withdraw
  <2> HIDE DEF c
  <2>5. w \in Work BY <1>0, <2>3 DEF Work
  <2>6. at[t] # "register" /\ at' = [at EXCEPT ![t] = at[t]]
    BY <1>7, <2>4 DEF Withdraw, TypeOK
  <2> HIDE DEF w
  <2>7. /\ at' \in [Task -> At] /\ work' \in [Task -> Work] /\ Others(t)
        /\ \A s \in Task : at'[s] = "register" =>
              work'[s].todo \subseteq Named(work'[s].jobs)
    BY <2>4, <2>5, <2>6, Moved DEF Others, At, TypeOK
  <2>8. live' \in [File -> Sound \cup {NoJob}] BY <1>7 DEF Withdraw, TypeOK
  <2> QED BY <1>7, <2>7, <2>8 DEF Withdraw, TypeOK, history, counters
<1>8. CASE Withdrawn(t)
  <2> DEFINE stay == IF at[t] = "withdraw" THEN {}
                     ELSE work[t].already \cap Named(work[t].jobs)
             w == [work[t] EXCEPT !.already = stay]
  <2>1. stay \subseteq File BY <1>0
  <2>2. CASE End(t)
    BY <1>8, <2>2, Ended DEF Withdrawn, Others, TypeOK, history, counters
  <2>3. CASE at' = [at EXCEPT ![t] = "record"] /\ work' = [work EXCEPT ![t] = w]
    <3>1. w \in Work BY <1>0, <2>1 DEF Work
    <3> HIDE DEF w
    <3>2. /\ at' \in [Task -> At] /\ work' \in [Task -> Work] /\ Others(t)
          /\ \A s \in Task : at'[s] = "register" =>
                work'[s].todo \subseteq Named(work'[s].jobs)
      BY <2>3, <3>1, Moved DEF Others, At
    <3> QED BY <1>8, <3>2 DEF Withdrawn, TypeOK, history, counters
  <2> QED BY <1>8, <2>2, <2>3 DEF Withdrawn, Goto
<1>9. CASE Fetch(t)
  <2> DEFINE c == [settings EXCEPT !.record = work[t].already]
             w == [work[t] EXCEPT !.copy = c]
  <2>1. c \in Settings BY <1>0 DEF Settings
  <2> HIDE DEF c
  <2>2. w \in Work BY <1>0, <2>1 DEF Work
  <2>3. at' = [at EXCEPT ![t] = "save"] /\ work' = [work EXCEPT ![t] = w]
    BY <1>9 DEF Fetch, Goto, c
  <2> HIDE DEF w
  <2>4. /\ at' \in [Task -> At] /\ work' \in [Task -> Work] /\ Others(t)
        /\ \A s \in Task : at'[s] = "register" =>
              work'[s].todo \subseteq Named(work'[s].jobs)
    BY <2>2, <2>3, Moved DEF Others, At
  <2> QED BY <1>9, <2>4 DEF Fetch, TypeOK, history, counters
<1>10. CASE Record(t)
  <2>1. settings' \in Settings BY <1>10, <1>0 DEF Record
  <2>2. /\ gone' \in [File -> {"no", "raced", "kept", "unkept"}]
        /\ lost' \subseteq File
    BY <1>10, <2>1, RememberType DEF Record
  <2> QED BY <1>10, <2>1, <2>2, Ended DEF Record, Others, TypeOK, counters
<1> QED BY <1>1, <1>2, <1>3, <1>4, <1>5, <1>6, <1>7, <1>8, <1>9, <1>10 DEF Sync

LEMMA NextTypes ==
    ASSUME TypeOK, [Next]_vars
    PROVE  TypeOK'
<1> USE DEF history, counters
<1>1. ASSUME NEW r \in Request, NEW b \in BOOLEAN, Toggle(r, b) PROVE TypeOK'
  <2> DEFINE c == [settings EXCEPT !.enabled = b]
             w == [work[r] EXCEPT !.copy = c]
  <2>1. c \in Settings BY DEF TypeOK, Settings
  <2> HIDE DEF c
  <2>2. r \in Task /\ w \in Work BY <2>1 DEF TypeOK, Work, Task
  <2>3. at' = [at EXCEPT ![r] = "enable"] /\ work' = [work EXCEPT ![r] = w]
    BY <1>1 DEF Toggle, Goto, c
  <2> HIDE DEF w
  <2>4. /\ at' \in [Task -> At] /\ work' \in [Task -> Work]
        /\ \A s \in Task : at'[s] = "register" =>
              work'[s].todo \subseteq Named(work'[s].jobs)
    BY <2>2, <2>3, Moved DEF At
  <2> QED BY <1>1, <2>4 DEF Toggle, Begin, Quiet, TypeOK
<1>2. ASSUME NEW r \in Request, Enable(r) PROVE TypeOK'
  <2>1. r \in Task /\ settings' \in Settings BY <1>2 DEF TypeOK, Work, Task, Enable
  <2>2. /\ gone' \in [File -> {"no", "raced", "kept", "unkept"}]
        /\ lost' \subseteq File
    BY <1>2, <2>1, RememberType DEF Enable
  <2> QED BY <1>2, <2>1, <2>2 DEF Enable, Goto, TypeOK, At
<1>3. ASSUME NEW r \in Request, NEW rows \in SUBSET (File \ Static), Save(r, rows)
      PROVE TypeOK'
  <2>1. r \in Task /\ settings' \in Settings /\ screen' = settings'
    BY <1>3 DEF TypeOK, Settings, Task, Save
  <2>2. /\ gone' \in [File -> {"no", "raced", "kept", "unkept"}]
        /\ lost' \subseteq File
    BY <1>3, <2>1, RememberType DEF Save
  <2> QED BY <1>3, <2>1, <2>2 DEF Save, Begin, Quiet, Goto, TypeOK, At
<1>4. ASSUME NEW r \in Request, Drop(r) PROVE TypeOK'
  <2>1. r \in Task /\ End(r) BY <1>4 DEF Drop, Task
  <2>2. /\ at' \in [Task -> At] /\ work' \in [Task -> Work]
        /\ \A s \in Task : at'[s] = "register" =>
              work'[s].todo \subseteq Named(work'[s].jobs)
    BY <2>1, Ended
  <2>3. calm' \in BOOLEAN BY <1>4 DEF Drop
  <2>4. failures' \in Nat BY <1>4 DEF Drop, TypeOK
  <2>5. UNCHANGED <<settings, screen, disk, live, gone, requests, changes>>
    BY <1>4 DEF Drop
  <2>6. lost' \subseteq File BY <1>4 DEF Drop, TypeOK, Named
  <2> QED BY <2>2, <2>3, <2>4, <2>5, <2>6 DEF TypeOK
<1>5. ASSUME NEW t \in Task, Sync(t) PROVE TypeOK'
  BY <1>5, SyncTypes
<1>6. CASE Open BY <1>6 DEF Open, TypeOK
<1>7. ASSUME NEW f \in File, Leave(f) PROVE TypeOK'
  <2>1. live' \in [File -> Sound \cup {NoJob}] BY <1>7 DEF Leave, TypeOK
  <2>2. gone' \in [File -> {"no", "raced", "kept", "unkept"}]
    BY <1>7 DEF Leave, TypeOK
  <2> QED BY <1>7, <2>1, <2>2 DEF Leave, TypeOK
<1>8. ASSUME NEW f \in File, NEW c \in Sound, Edit(f, c) PROVE TypeOK'
  <2>1. live' \in [File -> Sound \cup {NoJob}] BY <1>8 DEF Edit, TypeOK
  <2>2. changes' \in Nat BY <1>8 DEF Edit, TypeOK
  <2> QED BY <1>8, <2>1, <2>2 DEF Edit, TypeOK
<1>9. ASSUME NEW f \in File, NEW c \in Content \cup {NoJob}, Change(f, c)
      PROVE TypeOK'
  <2>1. disk' \in Jobs BY <1>9 DEF Change, TypeOK, Jobs
  <2>2. /\ gone' \in [File -> {"no", "raced", "kept", "unkept"}]
        /\ lost' \subseteq File
    BY <1>9 DEF Change, TypeOK
  <2>3. changes' \in Nat BY <1>9 DEF Change, TypeOK
  <2> QED BY <1>9, <2>1, <2>2, <2>3 DEF Change, TypeOK
<1>10. CASE Crash
  BY <1>10, IdleType DEF Crash, TypeOK, At, Named
<1>11. CASE UNCHANGED vars
  BY <1>11 DEF vars, TypeOK
<1> QED
  BY <1>1, <1>2, <1>3, <1>4, <1>5, <1>6, <1>7, <1>8, <1>9, <1>10, <1>11 DEF Next

LEMMA InitTypes == Init => TypeOK
BY IdleType, ScheduleAssumption DEF Init, TypeOK, Settings, At, Jobs, Named

\* The type invariant of the reconciliation; the jobs on the clock are ones the
\* scheduler accepts.
THEOREM TypeCorrect == Spec => []TypeOK
<1>1. TypeOK /\ [Next]_vars => TypeOK' BY NextTypes
<1> QED BY InitTypes, <1>1, PTL DEF Spec

-----------------------------------------------------------------------------
\* Whoever writes the settings keeps a deletion only if the record has it.
LEMMA RememberKept ==
    ASSUME TypeOK, NEW s \in Settings, Remember(s), NEW f \in File,
           gone'[f] = "kept"
    PROVE  gone[f] = "kept" /\ f \in s.record
BY DEF TypeOK, Remember

\* A write of the settings, whatever else moves to a place before the record
\* is read.
LEMMA WriteKept ==
    ASSUME TypeOK, Kept, settings' \in Settings, Remember(settings'),
           live' = live, NEW t \in Task, Others(t),
           at'[t] \in {"idle", "declare"}
    PROVE  Kept'
<1> SUFFICES ASSUME NEW f \in File, gone'[f] = "kept"
             PROVE  /\ live'[f] = NoJob /\ f \in settings'.record
                    /\ \A s \in Task :
                          /\ at'[s] = "look" => f \in work'[s].already
                          /\ at'[s] = "register" => f \notin work'[s].todo
  BY DEF Kept
<1>1. gone[f] = "kept" /\ f \in settings'.record BY RememberKept
<1> QED BY <1>1 DEF Kept, Others

LEMMA SyncKept ==
    ASSUME TypeOK, Kept, NEW t \in Task, Sync(t)
    PROVE  Kept'
<1>1. Others(t) BY SyncTypes
<1>2. CASE Record(t)
  <2>1. settings' \in Settings /\ live' = live BY <1>2 DEF Record, TypeOK, Work
  <2>2. at'[t] = "idle" BY <1>2, Ended DEF Record
  <2> QED BY <1>1, <1>2, <2>1, <2>2, WriteKept DEF Record
<1>3. CASE ~Record(t)
  <2>1. settings' = settings /\ gone' = gone
    BY <1>3 DEF Sync, Declare, Branch, Look, Repair, Register, Registered,
                Withdraw, Withdrawn, Fetch, history
  <2> SUFFICES ASSUME NEW f \in File, gone[f] = "kept"
               PROVE  /\ live'[f] = NoJob
                      /\ at'[t] = "look" => f \in work'[t].already
                      /\ at'[t] = "register" => f \notin work'[t].todo
    BY <1>1, <2>1 DEF Kept, Others
  <2>2. /\ live[f] = NoJob /\ f \in settings.record /\ work[t] \in Work
        /\ at[t] = "look" => f \in work[t].already
        /\ at[t] = "register" => f \notin work[t].todo
    BY DEF Kept, TypeOK
  <2>3. CASE Declare(t) BY <2>2, <2>3 DEF Declare, Goto, TypeOK
  <2>4. CASE Branch(t)
    <3>1. CASE End(t) BY <1>1, <2>2, <2>4, <3>1, Ended DEF Branch
    <3>2. CASE ~End(t)
      BY <2>2, <2>4, <3>2 DEF Branch, Goto, TypeOK, Work
    <3> QED BY <3>1, <3>2
  <2>5. CASE Look(t)
    <3> DEFINE v == [work[t] EXCEPT !.seen = live]
    <3>1. v.seen[f] = NoJob /\ f \in v.already
      BY <2>2, <2>5 DEF Work, Look
    <3>2. ~Stale(v, f) /\ ~Fresh(v, f) BY <3>1 DEF Stale, Fresh
    <3>3. work'[t].todo = {g \in File : Stale(v, g) \/ Fresh(v, g)}
      <4>1. v \in Work BY <2>2, ScheduleAssumption DEF Work, TypeOK, Jobs
      <4>2. work'[t] = [v EXCEPT !.todo =
                          {g \in File : Stale(v, g) \/ Fresh(v, g)}]
        BY <2>5 DEF Look, TypeOK
      <4> HIDE DEF v
      <4> QED BY <4>1, <4>2 DEF Work
    <3>4. at'[t] = "register" /\ live' = live
      BY <2>5 DEF Look, Goto, TypeOK
    <3> QED BY <2>2, <3>2, <3>3, <3>4
  <2>6. CASE Repair(t)
    <3>1. /\ live'[f] = NoJob /\ at' = at /\ work'[t].todo = work[t].todo
          /\ at[t] = "register"
      BY <2>2, <2>6 DEF Repair, TypeOK, Work
    <3> QED BY <2>2, <3>1
  <2>7. CASE Register(t)
    <3>1. First(work[t].todo) # f
      <4>1. work[t].todo # {} /\ work[t].todo \subseteq File /\ at[t] = "register"
        BY <2>2, <2>7 DEF Register, Work
      <4> QED BY <2>2, <4>1, FirstType
    <3>2. live'[f] = NoJob /\ at' = at /\ at[t] = "register"
      BY <2>2, <2>7, <3>1 DEF Register, TypeOK
    <3>3. work'[t].todo = work[t].todo \ {First(work[t].todo)}
      <4> DEFINE g == First(work[t].todo)
                 rest == [work[t] EXCEPT !.todo = @ \ {g}]
                 more == [rest EXCEPT !.already = @ \cup {g}, !.changed = TRUE]
      <4>1. rest \in [jobs : Jobs, seen : Jobs, already : SUBSET File,
                      todo : SUBSET File, changed : BOOLEAN, copy : Settings]
            /\ rest.todo = work[t].todo \ {g}
        BY <2>2 DEF Work
      <4>2. more.todo = rest.todo BY <4>1
      <4>3. work' = [work EXCEPT ![t] = rest] \/ work' = [work EXCEPT ![t] = more]
        BY <2>7 DEF Register
      <4> HIDE DEF rest, more
      <4> QED BY <4>1, <4>2, <4>3 DEF TypeOK
    <3> QED BY <2>2, <3>2, <3>3
  <2>8. CASE Registered(t) BY <2>2, <2>8 DEF Registered, Goto, TypeOK
  <2>9. CASE Withdraw(t) BY <2>2, <2>9 DEF Withdraw, TypeOK
  <2>10. CASE Withdrawn(t)
    <3>1. CASE End(t) BY <2>2, <2>10, <3>1, Ended DEF Withdrawn
    <3>2. CASE ~End(t) BY <2>2, <2>10, <3>2 DEF Withdrawn, Goto, TypeOK
    <3> QED BY <3>1, <3>2
  <2>11. CASE Fetch(t) BY <2>2, <2>11 DEF Fetch, Goto, TypeOK
  <2> QED BY <1>3, <2>3, <2>4, <2>5, <2>6, <2>7, <2>8, <2>9, <2>10, <2>11 DEF Sync
<1> QED BY <1>2, <1>3

LEMMA NextKept ==
    ASSUME TypeOK, Kept, [Next]_vars
    PROVE  Kept'
<1> USE DEF history, counters
<1>1. ASSUME NEW r \in Request, NEW b \in BOOLEAN, Toggle(r, b) PROVE Kept'
  <2>1. /\ UNCHANGED <<live, settings, gone>> /\ at' = [at EXCEPT ![r] = "enable"]
        /\ \A t \in Task : t # r => work'[t] = work[t]
    BY <1>1 DEF Toggle, Begin, Goto, TypeOK
  <2> QED BY <2>1 DEF Kept, TypeOK
<1>2. ASSUME NEW r \in Request, Enable(r) PROVE Kept'
  <2>1. /\ r \in Task /\ settings' \in Settings /\ live' = live
        /\ Others(r) /\ at'[r] = "declare"
    BY <1>2 DEF TypeOK, Work, Task, Enable, Goto, Others
  <2> QED BY <1>2, <2>1, WriteKept DEF Enable
<1>3. ASSUME NEW r \in Request, NEW rows \in SUBSET (File \ Static), Save(r, rows)
      PROVE Kept'
  <2>1. r \in Task /\ settings' \in Settings
    BY <1>3 DEF TypeOK, Settings, Task, Save
  <2>2. live' = live /\ Others(r) /\ at'[r] = "declare"
    BY <1>3, <2>1 DEF TypeOK, Save, Begin, Goto, Others
  <2> QED BY <1>3, <2>1, <2>2, WriteKept DEF Save
<1>4. ASSUME NEW r \in Request, Drop(r) PROVE Kept'
  <2>1. r \in Task /\ End(r) /\ UNCHANGED <<live, settings, gone>>
    BY <1>4 DEF Drop, Task
  <2>2. /\ at'[r] = "idle"
        /\ \A s \in Task \ {r} : at'[s] = at[s] /\ work'[s] = work[s]
    BY <2>1, Ended
  <2> QED BY <2>1, <2>2 DEF Kept
<1>5. ASSUME NEW t \in Task, Sync(t) PROVE Kept'
  BY <1>5, SyncKept
<1>6. CASE Open BY <1>6 DEF Open, Kept
<1>7. ASSUME NEW f \in File, Leave(f) PROVE Kept'
  <2> SUFFICES ASSUME NEW g \in File, gone'[g] = "kept"
               PROVE  /\ live'[g] = NoJob /\ g \in settings.record
                      /\ \A t \in Task :
                            /\ at[t] = "look" => g \in work[t].already
                            /\ at[t] = "register" => g \notin work[t].todo
    BY <1>7 DEF Leave, Kept
  <2>1. CASE g = f
    <3>1. Quiet /\ f \in settings.record /\ live'[f] = NoJob
      BY <1>7, <2>1 DEF Leave, TypeOK
    <3> QED BY <2>1, <3>1 DEF Quiet
  <2>2. CASE g # f
    <3>1. gone[g] = "kept" /\ live'[g] = live[g] BY <1>7, <2>2 DEF Leave, TypeOK
    <3> QED BY <3>1 DEF Kept
  <2> QED BY <2>1, <2>2
<1>8. ASSUME NEW f \in File, NEW c \in Sound, Edit(f, c) PROVE Kept'
  BY <1>8 DEF Edit, Kept, TypeOK
<1>9. ASSUME NEW f \in File, NEW c \in Content \cup {NoJob}, Change(f, c)
      PROVE Kept'
  <2>1. /\ UNCHANGED <<live, settings, at, work>>
        /\ \A g \in File : gone'[g] = "kept" => gone[g] = "kept"
    BY <1>9 DEF Change, TypeOK
  <2> QED BY <2>1 DEF Kept
<1>10. CASE Crash
  <2>1. /\ UNCHANGED <<live, settings, gone>>
        /\ \A t \in Task : at'[t] \in {"idle", "declare"}
    BY <1>10 DEF Crash
  <2> QED BY <2>1 DEF Kept
<1>11. CASE UNCHANGED vars
  BY <1>11 DEF vars, Kept
<1> QED
  BY <1>1, <1>2, <1>3, <1>4, <1>5, <1>6, <1>7, <1>8, <1>9, <1>10, <1>11 DEF Next

\* A job that left the clock while nothing was under way stays off it for as
\* long as the record has its file, the module is on and the declaration
\* stands: through races, lost requests and restarts.
THEOREM RecordedStaysDeletedAlways == Spec => []RecordedStaysDeleted
<1>1. Init => Kept BY DEF Init, Kept
<1>2. TypeOK /\ Kept /\ [Next]_vars => Kept' BY NextKept
<1>3. Kept => RecordedStaysDeleted BY DEF Kept, RecordedStaysDeleted
<1> QED BY TypeCorrect, <1>1, <1>2, <1>3, PTL DEF Spec

-----------------------------------------------------------------------------
LEMMA BusySync ==
    ASSUME NEW t \in Task, Sync(t)
    PROVE  at[t] # "idle" /\ calm' = calm
BY DEF Sync, Declare, Branch, Look, Repair, Register, Registered, Withdraw,
       Withdrawn, Fetch, Record, history

LEMMA NextAlone ==
    ASSUME TypeOK, Alone, [Next]_vars
    PROVE  Alone'
<1> USE DEF history, counters
<1>1. ASSUME NEW r \in Request, NEW b \in BOOLEAN, Toggle(r, b) PROVE Alone'
  BY <1>1 DEF Toggle, Begin, Goto, Quiet, Alone, TypeOK
<1>2. ASSUME NEW r \in Request, Enable(r) PROVE Alone'
  BY <1>2 DEF Enable, Goto, Alone, TypeOK
<1>3. ASSUME NEW r \in Request, NEW rows \in SUBSET (File \ Static), Save(r, rows)
      PROVE Alone'
  BY <1>3 DEF Save, Begin, Goto, Quiet, Alone, TypeOK
<1>4. ASSUME NEW r \in Request, Drop(r) PROVE Alone'
  BY <1>4 DEF Drop, Alone
<1>5. ASSUME NEW t \in Task, Sync(t) PROVE Alone'
  <2>1. Others(t) /\ at[t] # "idle" /\ calm' = calm BY <1>5, SyncTypes, BusySync
  <2> QED BY <2>1 DEF Others, Alone
<1>6. CASE Open BY <1>6 DEF Open, Alone
<1>7. ASSUME NEW f \in File, Leave(f) PROVE Alone' BY <1>7 DEF Leave, Alone
<1>8. ASSUME NEW f \in File, NEW c \in Sound, Edit(f, c) PROVE Alone'
  BY <1>8 DEF Edit, Alone
<1>9. ASSUME NEW f \in File, NEW c \in Content \cup {NoJob}, Change(f, c)
      PROVE Alone'
  BY <1>9 DEF Change, Alone
<1>10. CASE Crash BY <1>10 DEF Crash, Alone
<1>11. CASE UNCHANGED vars BY <1>11 DEF vars, Alone
<1> QED
  BY <1>1, <1>2, <1>3, <1>4, <1>5, <1>6, <1>7, <1>8, <1>9, <1>10, <1>11 DEF Next

LEMMA SyncUnchanged ==
    ASSUME TypeOK, Unchanged, NEW t \in Task, Sync(t)
    PROVE  Unchanged'
<1> DEFINE early == {"idle", "enable", "declare", "branch", "look"}
<1>1. Others(t) BY SyncTypes
<1>2. work[t] \in Work /\ (at[t] \in early => ~work[t].changed)
  BY DEF TypeOK, Unchanged
<1>3. SUFFICES ASSUME at'[t] \in early PROVE ~work'[t].changed
  BY <1>1 DEF Others, Unchanged
<1>4. CASE End(t)
  BY <1>4, Ended DEF Idle
<1>5. CASE Declare(t)
  BY <1>2, <1>5 DEF Declare, TypeOK, Work
<1>6. CASE Branch(t) /\ ~End(t)
  BY <1>2, <1>3, <1>6 DEF Branch, Goto, TypeOK, Work
<1>7. CASE Look(t) \/ Repair(t) \/ Register(t) \/ Registered(t) \/ Withdraw(t)
  BY <1>3, <1>7 DEF Look, Repair, Register, Registered, Withdraw, Goto, TypeOK
<1>8. CASE Withdrawn(t) /\ ~End(t)
  BY <1>3, <1>8 DEF Withdrawn, Goto, TypeOK
<1>9. CASE Fetch(t)
  BY <1>3, <1>9 DEF Fetch, Goto, TypeOK
<1>10. CASE Record(t)
  BY <1>4, <1>10 DEF Record
<1> QED BY <1>4, <1>5, <1>6, <1>7, <1>8, <1>9, <1>10 DEF Sync

LEMMA NextUnchanged ==
    ASSUME TypeOK, Unchanged, [Next]_vars
    PROVE  Unchanged'
<1> USE DEF history, counters
<1>1. ASSUME NEW r \in Request, NEW b \in BOOLEAN, Toggle(r, b)
      PROVE  Unchanged'
  <2>1. at[r] = "idle" /\ r \in Task /\ work[r] \in Work
    BY <1>1 DEF Toggle, Begin, TypeOK, Task
  <2>2. /\ work'[r].changed = work[r].changed
        /\ \A t \in Task \ {r} : at'[t] = at[t] /\ work'[t] = work[t]
    BY <1>1, <2>1 DEF Toggle, Goto, TypeOK, Work
  <2> QED BY <2>1, <2>2 DEF Unchanged
<1>2. ASSUME NEW r \in Request, Enable(r) PROVE Unchanged'
  BY <1>2 DEF Enable, Goto, Unchanged, TypeOK
<1>3. ASSUME NEW r \in Request, NEW rows \in SUBSET (File \ Static), Save(r, rows)
      PROVE Unchanged'
  BY <1>3 DEF Save, Begin, Goto, Unchanged, TypeOK
<1>4. ASSUME NEW r \in Request, Drop(r) PROVE Unchanged'
  <2>1. r \in Task /\ End(r) BY <1>4 DEF Drop, Task
  <2>2. /\ work'[r] = Idle
        /\ \A s \in Task \ {r} : at'[s] = at[s] /\ work'[s] = work[s]
    BY <2>1, Ended
  <2> QED BY <2>2 DEF Unchanged, Idle
<1>5. ASSUME NEW t \in Task, Sync(t) PROVE Unchanged'
  BY <1>5, SyncUnchanged
<1>6. CASE Open BY <1>6 DEF Open, Unchanged
<1>7. ASSUME NEW f \in File, Leave(f) PROVE Unchanged'
  BY <1>7 DEF Leave, Unchanged
<1>8. ASSUME NEW f \in File, NEW c \in Sound, Edit(f, c) PROVE Unchanged'
  BY <1>8 DEF Edit, Unchanged
<1>9. ASSUME NEW f \in File, NEW c \in Content \cup {NoJob}, Change(f, c)
      PROVE Unchanged'
  BY <1>9 DEF Change, Unchanged
<1>10. CASE Crash BY <1>10 DEF Crash, Unchanged, Idle
<1>11. CASE UNCHANGED vars BY <1>11 DEF vars, Unchanged
<1> QED
  BY <1>1, <1>2, <1>3, <1>4, <1>5, <1>6, <1>7, <1>8, <1>9, <1>10, <1>11 DEF Next

-----------------------------------------------------------------------------
\* What an undisturbed reconciliation leaves behind.
Settled ==
    /\ settings.enabled => \A f \in File :
         /\ Named(declared) \cup settings.record # {} => Follows(f)
         /\ PickedUp(f, settings.record)
    /\ ~settings.enabled => \A f \in File : Off(f)

LEMMA SettledOutcome == TypeOK /\ (Reconciled => Settled) => Outcome
BY DEF Outcome, Settled, ClockFollowsDeclarations, NewSchedulesArePickedUp,
       Withdrawal, Follows, PickedUp, declared, Named

\* The reading half: the declarations, the settings and the clock.
LEMMA ReadingSteps ==
    ASSUME TypeOK, Unchanged, NEW t \in Task, StepOf(t),
           Declare(t) \/ Branch(t) \/ Look(t)
    PROVE  StepOf(t)' /\ (at'[t] = "idle" => Settled')
<1>1. /\ UNCHANGED <<settings, disk, live, gone>> /\ declared' = declared
      /\ declared \in Jobs /\ work[t] \in Work
  BY DeclaredType DEF Declare, Branch, Look, history, TypeOK, declared,
                      declared_schedule_jobs
<1>2. CASE Declare(t)
  <2>1. at'[t] = "branch" /\ work'[t] = [work[t] EXCEPT !.jobs = declared]
    BY <1>2 DEF Declare, Goto, TypeOK, declared
  <2>2. work'[t].jobs = declared BY <1>1, <2>1 DEF Work
  <2> QED BY <1>1, <2>1, <2>2 DEF StepOf, OnStep, OffStep
<1>3. CASE Branch(t)
  <2> DEFINE names == Named(declared) \cup settings.record
  <2>1. at[t] = "branch" /\ work[t].jobs = declared BY <1>3 DEF Branch, StepOf
  <2>2. CASE names = {} /\ End(t)
    <3>1. at'[t] = "idle" BY <2>2, Ended
    <3>2. \A f \in File : declared[f] = NoJob BY <2>2 DEF Named
    <3>3. Settled
      BY <2>2, <3>2, ScheduleAssumption DEF Settled, PickedUp, Off
    <3>4. Settled'
      BY <1>1, <3>3 DEF Settled, PickedUp, Off, Follows, Named
    <3> QED BY <3>1, <3>4 DEF StepOf, OnStep, OffStep
  <2>3. CASE /\ ~settings.enabled /\ at'[t] = "withdraw"
             /\ work'[t] = [work[t] EXCEPT !.todo = names]
    <3>1. work'[t].todo = names BY <1>1, <2>3 DEF Work
    <3>2. \A f \in File : Off(f)' \/ f \in work'[t].todo
      BY <1>1, <3>1 DEF Off, Named
    <3> QED BY <1>1, <2>3, <3>2 DEF StepOf, OnStep, OffStep
  <2>4. CASE /\ settings.enabled /\ at'[t] = "look"
             /\ work'[t] = [work[t] EXCEPT !.already = settings.record]
    <3>1. work'[t].already = settings.record /\ work'[t].jobs = declared
      BY <1>1, <2>1, <2>4 DEF Work
    <3> QED BY <1>1, <2>4, <3>1 DEF StepOf, OnStep, OffStep
  <2> QED
    BY <1>3, <2>1, <2>2, <2>3, <2>4 DEF Branch, Goto, TypeOK
<1>4. CASE Look(t)
  <2> DEFINE v == [work[t] EXCEPT !.seen = live]
             w == [v EXCEPT !.todo = {g \in File : Stale(v, g) \/ Fresh(v, g)}]
  <2>1. /\ settings.enabled /\ work[t].jobs = declared /\ ~work[t].changed
        /\ work[t].already = settings.record
    BY <1>4 DEF Look, StepOf, OnStep, Unchanged
  <2>2. at'[t] = "register" /\ work'[t] = w BY <1>4 DEF Look, Goto, TypeOK
  <2>3. v \in [jobs : Jobs, seen : {live}, already : SUBSET File,
               todo : SUBSET File, changed : BOOLEAN, copy : Settings]
        /\ v.jobs = declared /\ v.seen = live /\ v.already = settings.record
    BY <1>1, <2>1 DEF Work
  <2>4. /\ w.jobs = declared /\ w.seen = live /\ w.already = settings.record
        /\ w.todo = {g \in File : Stale(v, g) \/ Fresh(v, g)}
    BY <2>3
  <2> HIDE DEF v, w
  <2>5. ASSUME NEW f \in File
        PROVE  /\ Follows(f) \/ /\ live[f] # NoJob
                                /\ declared[f] # NoJob => f \in w.todo
               /\ PickedUp(f, settings.record) \/ f \in w.todo
    BY <2>3, <2>4, ScheduleAssumption DEF Follows, PickedUp, Stale, Fresh
  <2>6. ASSUME NEW f \in File
        PROVE  /\ Follows(f)' <=> Follows(f)
               /\ PickedUp(f, settings.record)' <=> PickedUp(f, settings.record)
    BY <1>1 DEF Follows, PickedUp
  <2> QED BY <1>1, <2>1, <2>2, <2>4, <2>5, <2>6 DEF StepOf, OnStep, OffStep
<1> QED BY <1>2, <1>3, <1>4

\* The registering half: each file is right, or is still to be dealt with.
LEMMA RegisteringSteps ==
    ASSUME TypeOK, NEW t \in Task, StepOf(t),
           Repair(t) \/ Register(t) \/ Registered(t)
    PROVE  StepOf(t)' /\ at'[t] # "idle"
<1> DEFINE f == First(work[t].todo)
           Right(g) == Follows(g) \/ /\ work[t].seen[g] # NoJob
                                     /\ declared[g] # NoJob => g \in work[t].todo
           Handled(g) == PickedUp(g, work[t].already) \/ g \in work[t].todo
<1>1. /\ UNCHANGED <<settings, disk, gone>> /\ declared' = declared
      /\ declared \in Jobs /\ work[t] \in Work /\ at[t] = "register"
      /\ at'[t] \in {"register", "orphans"}
  BY DeclaredType DEF Repair, Register, Registered, history, Goto, TypeOK,
                      declared, declared_schedule_jobs
<1>2. /\ settings.enabled /\ work[t].jobs = declared
      /\ ~work[t].changed => work[t].already = settings.record
      /\ \A g \in File : Right(g) /\ Handled(g)
  BY <1>1 DEF StepOf, OnStep
<1>3. /\ work[t].todo \subseteq File /\ work[t].seen \in Jobs
      /\ work[t].already \subseteq File
  BY <1>1 DEF Work
<1> SUFFICES OnStep(t)' BY <1>1 DEF StepOf, OffStep
<1>4. CASE Repair(t)
  <2> DEFINE w == [work[t] EXCEPT !.seen = [@ EXCEPT ![f] = NoJob]]
  <2>1. f \in work[t].todo /\ f \in File
    BY <1>3, <1>4, FirstType DEF Repair
  <2>2. /\ at'[t] = "register" /\ work'[t] = w
        /\ live' = [live EXCEPT ![f] = NoJob]
    BY <1>1, <1>4 DEF Repair, TypeOK
  <2>3. /\ w.jobs = declared /\ w.todo = work[t].todo
        /\ w.already = work[t].already /\ w.changed = work[t].changed
        /\ w.seen = [work[t].seen EXCEPT ![f] = NoJob]
    BY <1>1, <1>2 DEF Work
  <2>4. \A g \in File \ {f} : w.seen[g] = work[t].seen[g] /\ live'[g] = live[g]
    BY <1>3, <2>2, <2>3 DEF Jobs, TypeOK
  <2>5. live'[f] = NoJob BY <2>1, <2>2 DEF TypeOK
  <2> HIDE DEF w
  <2>6. /\ work'[t].todo = work[t].todo /\ work'[t].already = work[t].already
        /\ \A g \in File \ {f} : work'[t].seen[g] = work[t].seen[g]
    BY <2>2, <2>3, <2>4
  <2>7. ASSUME NEW g \in File
        PROVE  /\ Follows(g)' \/ /\ work'[t].seen[g] # NoJob
                                 /\ declared[g] # NoJob => g \in work'[t].todo
               /\ PickedUp(g, work[t].already)' \/ g \in work'[t].todo
    <3>1. CASE g = f BY <1>1, <2>1, <2>6, <2>5, <3>1 DEF Follows
    <3>2. CASE g # f
      BY <1>1, <1>2, <2>4, <2>6, <3>2 DEF Follows, PickedUp
    <3> QED BY <3>1, <3>2
  <2> QED BY <1>1, <1>2, <2>2, <2>3, <2>6, <2>7 DEF OnStep
<1>5. CASE Register(t)
  <2> DEFINE rest == [work[t] EXCEPT !.todo = @ \ {f}]
             more == [rest EXCEPT !.already = @ \cup {f}, !.changed = TRUE]
  <2>1. f \in work[t].todo /\ f \in File /\ work[t].seen[f] = NoJob
    BY <1>3, <1>5, FirstType DEF Register
  <2>2. at'[t] = "register" BY <1>1, <1>5 DEF Register
  <2>3. /\ rest \in Work /\ rest.jobs = declared /\ rest.seen = work[t].seen
        /\ rest.todo = work[t].todo \ {f}
        /\ rest.already = work[t].already /\ rest.changed = work[t].changed
    BY <1>1, <1>2 DEF Work
  <2>4. Follows(f) BY <1>2, <2>1
  <2>5. CASE Accepts(f, work[t].jobs[f])
    <3>1. work'[t] = more /\ live' = [live EXCEPT ![f] = declared[f]]
      BY <1>2, <1>5, <2>5 DEF Register, TypeOK
    <3>2. /\ more.jobs = declared /\ more.seen = work[t].seen
          /\ more.todo = work[t].todo \ {f}
          /\ more.already = work[t].already \cup {f} /\ more.changed
      BY <2>3 DEF Work
    <3> HIDE DEF rest, more
    <3>3. live'[f] = declared[f] /\ \A g \in File \ {f} : live'[g] = live[g]
      BY <2>1, <3>1 DEF TypeOK
    <3>4. ASSUME NEW g \in File
          PROVE  /\ Follows(g)' \/ /\ work'[t].seen[g] # NoJob
                                   /\ declared[g] # NoJob => g \in work'[t].todo
                 /\ PickedUp(g, work[t].already)' \/ g \in work'[t].todo
      <4>1. CASE g = f
        BY <1>1, <3>1, <3>2, <3>3, <4>1
        DEF Follows, PickedUp, declaration_is_live
      <4>2. CASE g # f
        BY <1>1, <1>2, <3>1, <3>2, <3>3, <4>2 DEF Follows, PickedUp
      <4> QED BY <4>1, <4>2
    <3> QED BY <1>1, <1>2, <2>2, <3>1, <3>2, <3>4 DEF OnStep
  <2>6. CASE ~Accepts(f, work[t].jobs[f])
    <3>1. work'[t] = rest /\ live' = live
      BY <1>5, <2>6 DEF Register, TypeOK
    <3>2. declared[f] \in Sound => live[f] # NoJob
      BY <1>2, <2>6 DEF Accepts
    <3> HIDE DEF rest
    <3>3. ASSUME NEW g \in File
          PROVE  /\ Follows(g)' \/ /\ work'[t].seen[g] # NoJob
                                   /\ declared[g] # NoJob => g \in work'[t].todo
                 /\ PickedUp(g, work[t].already)' \/ g \in work'[t].todo
      <4>1. CASE g = f
        <5>1. Follows(g)' BY <1>1, <2>4, <3>1, <4>1 DEF Follows
        <5> QED BY <1>1, <2>3, <3>1, <3>2, <4>1, <5>1 DEF PickedUp
      <4>2. CASE g # f
        BY <1>1, <1>2, <2>3, <3>1, <4>2 DEF Follows, PickedUp
      <4> QED BY <4>1, <4>2
    <3> QED BY <1>1, <1>2, <2>2, <2>3, <3>1, <3>3 DEF OnStep
  <2> QED BY <2>5, <2>6
<1>6. CASE Registered(t)
  <2> DEFINE fs == {g \in File : work[t].jobs[g] = NoJob
                        /\ (g \in work[t].already \/ work[t].seen[g] # NoJob)}
             w == [work[t] EXCEPT !.todo = fs]
  <2>1. /\ at'[t] = "orphans" /\ work'[t] = w /\ live' = live
        /\ work[t].todo = {}
    BY <1>6 DEF Registered, Goto, TypeOK
  <2>2. /\ w.jobs = declared /\ w.todo = fs
        /\ w.already = work[t].already /\ w.changed = work[t].changed
    BY <1>1, <1>2 DEF Work
  <2> HIDE DEF w
  <2>3. ASSUME NEW g \in File
        PROVE  /\ Follows(g)' \/ g \in work'[t].todo
               /\ PickedUp(g, work[t].already)'
               /\ g \in work'[t].todo => declared[g] = NoJob
    <3>1. Right(g) /\ Handled(g) BY <1>2
    <3>2. Follows(g)' <=> Follows(g) BY <1>1, <2>1 DEF Follows
    <3>3. PickedUp(g, work[t].already)' <=> PickedUp(g, work[t].already)
      BY <1>1, <2>1, <2>2 DEF PickedUp
    <3> QED BY <1>2, <2>1, <2>2, <3>1, <3>2, <3>3
  <2> QED BY <1>1, <1>2, <2>1, <2>2, <2>3 DEF OnStep
<1> QED BY <1>4, <1>5, <1>6

\* The withdrawing half: of orphans, or of everything the module had.
LEMMA WithdrawingSteps ==
    ASSUME TypeOK, NEW t \in Task, StepOf(t), Withdraw(t)
    PROVE  StepOf(t)' /\ at'[t] # "idle"
<1> DEFINE f == First(work[t].todo)
           c == work[t].changed \/ (at[t] = "withdraw" /\ live[f] # NoJob)
           w == [work[t] EXCEPT !.todo = @ \ {f}, !.changed = c]
<1>1. /\ UNCHANGED <<settings, disk, gone, at>> /\ declared' = declared
      /\ work[t] \in Work /\ at[t] \in {"withdraw", "orphans"}
      /\ live' = [live EXCEPT ![f] = NoJob] /\ work'[t] = w
  BY DEF Withdraw, history, TypeOK, declared, declared_schedule_jobs
<1>2. f \in work[t].todo /\ f \in File
  BY <1>1, FirstType DEF Withdraw, Work
<1>3. /\ w.todo = work[t].todo \ {f} /\ w.already = work[t].already
      /\ w.jobs = work[t].jobs /\ (at[t] = "orphans" => w.changed = work[t].changed)
  <2>1. c \in BOOLEAN /\ (at[t] = "orphans" => c = work[t].changed)
    BY <1>1 DEF Work
  <2> HIDE DEF c
  <2> QED BY <1>1, <2>1 DEF Work
<1>4. live'[f] = NoJob /\ \A g \in File \ {f} : live'[g] = live[g]
  BY <1>1, <1>2 DEF TypeOK
<1> HIDE DEF w, c
<1>5. /\ work'[t].todo = work[t].todo \ {f} /\ work'[t].already = work[t].already
      /\ work'[t].jobs = work[t].jobs
      /\ at[t] = "orphans" => work'[t].changed = work[t].changed
  BY <1>1, <1>3
<1>6. CASE at[t] = "withdraw"
  <2>1. ASSUME NEW g \in File PROVE Off(g)' \/ g \in work'[t].todo
    <3>1. Off(g) \/ g \in work[t].todo BY <1>6 DEF StepOf, OffStep
    <3>2. CASE g = f BY <1>4, <3>2 DEF Off
    <3>3. CASE g # f
      BY <1>1, <1>4, <1>5, <3>1, <3>3 DEF Off, Named
    <3> QED BY <3>2, <3>3
  <2> QED BY <1>1, <1>6, <2>1 DEF StepOf, OnStep, OffStep
<1>7. CASE at[t] = "orphans"
  <2>1. ASSUME NEW g \in File
        PROVE  /\ Follows(g)' \/ g \in work'[t].todo
               /\ PickedUp(g, work[t].already)'
               /\ g \in work'[t].todo => declared[g] = NoJob
    <3>1. /\ Follows(g) \/ g \in work[t].todo
          /\ PickedUp(g, work[t].already)
          /\ g \in work[t].todo => declared[g] = NoJob
      BY <1>7 DEF StepOf, OnStep
    <3>2. CASE g = f
      BY <1>1, <1>2, <1>4, <1>5, <3>1, <3>2, ScheduleAssumption
      DEF Follows, PickedUp
    <3>3. CASE g # f
      BY <1>1, <1>4, <1>5, <3>1, <3>3 DEF Follows, PickedUp
    <3> QED BY <3>2, <3>3
  <2> QED BY <1>1, <1>5, <1>7, <2>1 DEF StepOf, OnStep, OffStep
<1> QED BY <1>1, <1>6, <1>7

\* Nothing is left to withdraw: the record is to be written, or all is settled.
LEMMA WithdrawnSteps ==
    ASSUME TypeOK, NEW t \in Task, StepOf(t), Withdrawn(t)
    PROVE  StepOf(t)' /\ (at'[t] = "idle" => Settled')
<1> DEFINE stay == IF at[t] = "withdraw" THEN {}
                   ELSE work[t].already \cap Named(work[t].jobs)
           w == [work[t] EXCEPT !.already = stay]
<1>1. /\ UNCHANGED <<settings, disk, live, gone>> /\ declared' = declared
      /\ work[t] \in Work /\ at[t] \in {"withdraw", "orphans"}
      /\ work[t].todo = {}
  BY DEF Withdrawn, history, TypeOK, declared, declared_schedule_jobs
<1>2. \/ at'[t] = "record" /\ work'[t] = w
      \/ /\ at'[t] = "idle" /\ work'[t] = Idle
         /\ at[t] = "orphans" => ~work[t].changed /\ stay = work[t].already
  <2>1. \/ Goto(t, "record") /\ work' = [work EXCEPT ![t] = w]
        \/ End(t) /\ (at[t] = "orphans" => ~work[t].changed /\ stay = work[t].already)
    BY <1>1 DEF Withdrawn
  <2>2. CASE Goto(t, "record") /\ work' = [work EXCEPT ![t] = w]
    BY <2>2 DEF Goto, TypeOK
  <2> QED BY <2>1, <2>2, Ended
<1>3. w.already = stay BY <1>1 DEF Work
<1> HIDE DEF w
<1>4. CASE at[t] = "withdraw"
  <2>1. ~settings.enabled /\ \A g \in File : Off(g)
    BY <1>1, <1>4 DEF StepOf, OffStep
  <2>2. \A g \in File : Off(g)' BY <1>1, <2>1 DEF Off, Named
  <2>3. CASE at'[t] = "record" /\ work'[t] = w
    BY <1>1, <1>3, <1>4, <2>1, <2>2, <2>3 DEF StepOf, OnStep, OffStep
  <2>4. CASE at'[t] = "idle"
    BY <1>1, <2>1, <2>2, <2>4 DEF StepOf, OnStep, OffStep, Settled
  <2> QED BY <1>2, <2>3, <2>4
<1>5. CASE at[t] = "orphans"
  <2>1. /\ settings.enabled /\ work[t].jobs = declared
        /\ ~work[t].changed => work[t].already = settings.record
        /\ \A g \in File : Follows(g) /\ PickedUp(g, work[t].already)
    BY <1>1, <1>5 DEF StepOf, OnStep
  <2>2. stay = work[t].already \cap Named(declared) BY <1>5, <2>1
  <2>3. ASSUME NEW g \in File PROVE PickedUp(g, stay)
    BY <2>1, <2>2, ScheduleAssumption DEF PickedUp, Named
  <2> HIDE DEF stay
  <2>4. CASE at'[t] = "record" /\ work'[t] = w
    <3>1. \A g \in File : Follows(g)' /\ PickedUp(g, work[t].already)'
      BY <1>1, <1>3, <2>1, <2>3, <2>4 DEF Follows, PickedUp
    <3> QED BY <1>1, <2>1, <2>4, <3>1 DEF StepOf, OnStep, OffStep
  <2>5. CASE /\ at'[t] = "idle" /\ ~work[t].changed
    <3>1. \A g \in File : Follows(g)' /\ PickedUp(g, settings.record)'
      BY <1>1, <2>1, <2>5 DEF Follows, PickedUp
    <3> QED BY <1>1, <2>1, <2>5, <3>1 DEF StepOf, OnStep, OffStep, Settled
  <2> QED BY <1>2, <1>5, <2>4, <2>5
<1> QED BY <1>1, <1>4, <1>5

\* The record is written as it was worked out, into the settings as they are.
LEMMA RecordingSteps ==
    ASSUME TypeOK, NEW t \in Task, StepOf(t), Fetch(t) \/ Record(t)
    PROVE  StepOf(t)' /\ (at'[t] = "idle" => Settled')
<1> DEFINE written == [settings EXCEPT !.record = work[t].already]
<1>1. /\ disk' = disk /\ live' = live /\ work[t] \in Work
      /\ at[t] \in {"record", "save"}
  BY DEF Fetch, Record, TypeOK
<1>2. /\ settings.enabled =>
           \A f \in File : Follows(f) /\ PickedUp(f, work[t].already)
      /\ ~settings.enabled => work[t].already = {} /\ \A f \in File : Off(f)
  BY <1>1 DEF StepOf, OnStep, OffStep
<1>3. CASE Fetch(t)
  <2> DEFINE w == [work[t] EXCEPT !.copy = written]
  <2>1. /\ settings' = settings /\ gone' = gone /\ declared' = declared
        /\ at'[t] = "save" /\ work'[t] = w
    BY <1>3 DEF Fetch, Goto, history, TypeOK, declared, declared_schedule_jobs
  <2>2. w.copy = written /\ w.already = work[t].already BY <1>1 DEF Work
  <2> HIDE DEF w
  <2>3. work'[t].copy = [settings' EXCEPT !.record = work'[t].already]
    BY <2>1, <2>2
  <2>4. settings.enabled =>
          \A f \in File : Follows(f)' /\ PickedUp(f, work[t].already)'
    BY <1>1, <1>2, <2>1, <2>2 DEF Follows, PickedUp
  <2>5. ~settings.enabled =>
          work'[t].already = {} /\ \A f \in File : Off(f)'
    BY <1>1, <1>2, <2>1, <2>2 DEF Off, Named
  <2> QED BY <2>1, <2>3, <2>4, <2>5 DEF StepOf, OnStep, OffStep
<1>4. CASE Record(t)
  <2>1. settings' = written /\ Remember(settings') /\ at'[t] = "idle"
    BY <1>4, Ended DEF Record, StepOf
  <2>2. /\ settings'.enabled = settings.enabled /\ settings'.on = settings.on
        /\ settings'.record = work[t].already
    BY <2>1 DEF TypeOK, Settings
  <2>3. declared' = declared
    BY <1>1, <2>2 DEF declared, declared_schedule_jobs
  <2>4. ASSUME NEW f \in File, settings.enabled, gone'[f] = "no"
        PROVE  gone[f] = "no" \/ declared[f] = NoJob
    BY <2>1, <2>2, <2>4 DEF Remember, declared, declared_schedule_jobs
  <2>5. ASSUME NEW f \in File, settings.enabled
        PROVE  Follows(f)' /\ PickedUp(f, settings.record)'
    BY <1>1, <1>2, <2>2, <2>3, <2>4, <2>5, ScheduleAssumption
    DEF Follows, PickedUp
  <2>6. ASSUME NEW f \in File, ~settings.enabled PROVE Off(f)'
    BY <1>1, <1>2, <2>2, <2>3, <2>6 DEF Off, Named
  <2> QED BY <2>1, <2>2, <2>5, <2>6 DEF StepOf, OnStep, OffStep, Settled
<1> QED BY <1>3, <1>4

LEMMA SyncSteps ==
    ASSUME TypeOK, Unchanged, NEW t \in Task, StepOf(t), Sync(t)
    PROVE  StepOf(t)' /\ (at'[t] = "idle" => Settled')
BY ReadingSteps, RegisteringSteps, WithdrawingSteps, WithdrawnSteps,
   RecordingSteps DEF Sync

\* No reconciliation is at a place where anything is promised of it.
Nowhere == \A t \in Task : at[t] \in {"idle", "enable", "declare"}

LEMMA NextSteps ==
    ASSUME TypeOK, Alone, Unchanged, Steps, Outcome, [Next]_vars
    PROVE  Steps' /\ Outcome'
<1> USE DEF history, counters
<1>0. TypeOK' BY NextTypes
<1>a. ASSUME Nowhere', ~Quiet' PROVE Steps' /\ Outcome'
  BY <1>a DEF Nowhere, Steps, StepOf, OnStep, OffStep, Outcome, Reconciled,
     ClockFollowsDeclarations, NewSchedulesArePickedUp, Withdrawal
<1>b. ASSUME ~calm' PROVE Steps' /\ Outcome'
  BY <1>b DEF Steps, Outcome, Reconciled,
     ClockFollowsDeclarations, NewSchedulesArePickedUp, Withdrawal
<1>1. ASSUME NEW r \in Request, NEW b \in BOOLEAN, Toggle(r, b)
      PROVE  Steps' /\ Outcome'
  <2>1. r \in Task /\ at'[r] = "enable" /\ calm' = Quiet
    BY <1>1 DEF Toggle, Begin, Goto, Task, TypeOK
  <2>2. CASE Quiet
    <3>1. Nowhere' /\ ~Quiet'
      BY <1>1, <2>1, <2>2 DEF Toggle, Goto, Quiet, Nowhere, TypeOK
    <3> QED BY <1>a, <3>1
  <2> QED BY <1>b, <2>1, <2>2
<1>2. ASSUME NEW r \in Request, Enable(r) PROVE Steps' /\ Outcome'
  <2>1. r \in Task /\ at[r] = "enable" /\ at'[r] = "declare" /\ calm' = calm
    BY <1>2 DEF Enable, Goto, Task, TypeOK
  <2>2. CASE calm
    <3>1. Nowhere' /\ ~Quiet'
      BY <1>2, <2>1, <2>2 DEF Enable, Goto, Quiet, Nowhere, TypeOK, Alone
    <3> QED BY <1>a, <3>1
  <2> QED BY <1>b, <2>1, <2>2
<1>3. ASSUME NEW r \in Request, NEW rows \in SUBSET (File \ Static), Save(r, rows)
      PROVE  Steps' /\ Outcome'
  <2>1. r \in Task /\ at'[r] = "declare" /\ calm' = Quiet
    BY <1>3 DEF Save, Begin, Goto, Task, TypeOK
  <2>2. CASE Quiet
    <3>1. Nowhere' /\ ~Quiet'
      BY <1>3, <2>1, <2>2 DEF Save, Goto, Quiet, Nowhere, TypeOK
    <3> QED BY <1>a, <3>1
  <2> QED BY <1>b, <2>1, <2>2
<1>4. ASSUME NEW r \in Request, Drop(r) PROVE Steps' /\ Outcome'
  BY <1>4, <1>b DEF Drop
<1>5. ASSUME NEW t \in Task, Sync(t) PROVE Steps' /\ Outcome'
  <2>1. Others(t) /\ at[t] # "idle" /\ calm' = calm BY <1>5, SyncTypes, BusySync
  <2>2. CASE calm
    <3>1. StepOf(t)' /\ (at'[t] = "idle" => Settled')
      BY <1>5, <2>2, SyncSteps DEF Steps
    <3>2. ASSUME NEW s \in Task \ {t} PROVE StepOf(s)'
      <4>1. at'[s] = "idle" BY <2>1, <2>2 DEF Alone, Others
      <4> QED BY <4>1 DEF StepOf, OnStep, OffStep
    <3>3. Reconciled' => Settled' BY <3>1 DEF Reconciled, Quiet
    <3>4. Outcome' BY <1>0, <3>3, SettledOutcome, PTL
    <3> QED BY <3>1, <3>2, <3>4 DEF Steps
  <2> QED BY <1>b, <2>1, <2>2
<1>6. CASE Open
  BY <1>6 DEF Open, Steps, StepOf, OnStep, OffStep, Follows, PickedUp, Off, Outcome,
     Reconciled, Quiet, ClockFollowsDeclarations, NewSchedulesArePickedUp,
     Withdrawal, declared, declared_schedule_jobs, Named
<1>7. ASSUME NEW f \in File, Leave(f) PROVE Steps' /\ Outcome'
  <2>1. /\ UNCHANGED <<settings, disk, at, work, calm>> /\ declared' = declared
        /\ Named(declared)' = Named(declared)
        /\ live' = [live EXCEPT ![f] = NoJob] /\ gone'[f] # "no"
        /\ \A g \in File \ {f} : gone'[g] = gone[g]
    BY <1>7 DEF Leave, TypeOK, declared, declared_schedule_jobs, Named
  <2>2. live'[f] = NoJob /\ \A g \in File \ {f} : live'[g] = live[g]
    BY <2>1 DEF TypeOK
  <2>3. ASSUME NEW g \in File
        PROVE  /\ Follows(g) => Follows(g)'
               /\ Off(g) => Off(g)'
               /\ PickedUp(g, settings.record) => PickedUp(g, settings.record)'
               /\ \A t \in Task : PickedUp(g, work[t].already) =>
                                      PickedUp(g, work[t].already)'
    BY <2>1, <2>2 DEF Follows, Off, PickedUp
  <2>4. Steps'
    <3> SUFFICES ASSUME calm, NEW t \in Task PROVE StepOf(t)' BY <2>1 DEF Steps
    <3>1. StepOf(t) BY DEF Steps
    <3>2. OnStep(t)' BY <2>1, <2>3, <3>1 DEF StepOf, OnStep
    <3>3. OffStep(t)' BY <2>1, <2>3, <3>1 DEF StepOf, OffStep
    <3> QED BY <2>1, <3>1, <3>2, <3>3 DEF StepOf
  <2>5. Outcome'
    BY <2>1, <2>2, <2>3 DEF Outcome, Reconciled, Quiet, ClockFollowsDeclarations,
       NewSchedulesArePickedUp, Withdrawal, Follows, PickedUp, declared, Named
  <2> QED BY <2>4, <2>5
<1>8. ASSUME NEW f \in File, NEW c \in Sound, Edit(f, c)
      PROVE  Steps' /\ Outcome'
  BY <1>8, <1>b DEF Edit
<1>9. ASSUME NEW f \in File, NEW c \in Content \cup {NoJob}, Change(f, c)
      PROVE  Steps' /\ Outcome'
  BY <1>9, <1>b DEF Change
<1>10. CASE Crash
  <2>1. Boot \in Task BY DEF Task
  <2>2. Nowhere' /\ ~Quiet' BY <1>10, <2>1 DEF Crash, Nowhere, Quiet
  <2> QED BY <1>a, <2>2
<1>11. CASE UNCHANGED vars
  BY <1>11 DEF vars, Steps, StepOf, OnStep, OffStep, Follows, PickedUp, Off, Outcome,
     Reconciled, Quiet, ClockFollowsDeclarations, NewSchedulesArePickedUp,
     Withdrawal, declared, declared_schedule_jobs, Named
<1> QED
  BY <1>1, <1>2, <1>3, <1>4, <1>5, <1>6, <1>7, <1>8, <1>9, <1>10, <1>11 DEF Next

LEMMA InitSteps == Init => Alone /\ Unchanged /\ Steps /\ Outcome
<1> SUFFICES ASSUME Init PROVE Alone /\ Unchanged /\ Steps /\ Outcome
  OBVIOUS
<1>1. Boot \in Task /\ at[Boot] = "declare" BY DEF Init, Task
<1>2. Alone /\ Unchanged BY DEF Init, Alone, Unchanged, Idle
<1>3. Steps BY DEF Init, Steps, StepOf, OnStep, OffStep
<1>4. Outcome
  BY <1>1 DEF Outcome, Reconciled, Quiet, ClockFollowsDeclarations,
     NewSchedulesArePickedUp, Withdrawal
<1> QED BY <1>2, <1>3, <1>4

-----------------------------------------------------------------------------
(* A job that the record does not know of was lost to it. *)

\* When all is quiet nothing is in anybody's hands.
LEMMA QuietKnown ==
    ASSUME TypeOK, Known, Withdrawal
    PROVE  OffMeansOff
<1> SUFFICES ASSUME Quiet, NEW f \in File, live[f] # NoJob, Off(f)
             PROVE  f \in lost \ (Named(declared) \cup settings.record)
  BY DEF OffMeansOff, Withdrawal, Reconciled, declared, Named
<1>1. \A t \in Task : ~InHand(t, f) BY DEF Quiet, InHand
<1> QED BY <1>1 DEF Known, Off

LEMMA InitKnown == Init => Known
BY DEF Init, Known, Named

\* A write of the settings by one who has nothing in hand, or who writes it.
LEMMA WriteKnown ==
    ASSUME TypeOK, Known, NEW t \in Task, Remember(settings'), live' = live,
           \A s \in Task \ {t} : at'[s] = at[s] /\ work'[s] = work[s],
           \A f \in File : InHand(t, f) => f \in settings'.record
    PROVE  Known'
<1> SUFFICES ASSUME NEW f \in File, live[f] # NoJob,
                    f \notin lost' \cup settings'.record
             PROVE  \E s \in Task : InHand(s, f)'
  BY DEF Known
<1>1. f \notin lost \cup settings.record BY DEF Remember, Named
<1>2. PICK s \in Task : InHand(s, f) BY <1>1 DEF Known
<1>3. s # t BY <1>2
<1>4. InHand(s, f)' BY <1>2, <1>3 DEF InHand
<1> QED BY <1>4

\* A step that leaves the record, and what it had in hand there.
LEMMA HandKnown ==
    ASSUME TypeOK, Known, NEW t \in Task, settings' = settings,
           lost \subseteq lost',
           \A s \in Task \ {t} : at'[s] = at[s] /\ work'[s] = work[s],
           \A f \in File : live'[f] # NoJob =>
               \/ InHand(t, f)'
               \/ live[f] # NoJob /\ (InHand(t, f) => f \in lost' \cup settings.record)
    PROVE  Known'
<1> SUFFICES ASSUME NEW f \in File, live'[f] # NoJob,
                    f \notin lost' \cup settings.record, ~InHand(t, f)'
             PROVE  \E s \in Task : InHand(s, f)'
  BY DEF Known
<1>1. live[f] # NoJob /\ ~InHand(t, f) OBVIOUS
<1>2. PICK s \in Task : InHand(s, f) BY <1>1 DEF Known
<1>3. s # t BY <1>1, <1>2
<1>4. InHand(s, f)' BY <1>2, <1>3 DEF InHand
<1> QED BY <1>4

LEMMA SyncKnown ==
    ASSUME TypeOK, Known, NEW t \in Task, Sync(t)
    PROVE  Known'
<1> DEFINE Hold == \A f \in File : InHand(t, f) => InHand(t, f)'
<1>0. /\ work[t] \in Work /\ at[t] \in At BY DEF TypeOK
<1>1. Others(t) BY SyncTypes
<1>2. CASE Record(t)
  <2>1. \A f \in File : InHand(t, f) => f \in settings'.record
    BY <1>2 DEF Record, InHand
  <2> QED BY <1>1, <1>2, <2>1, WriteKnown DEF Record, Others
<1>3. ASSUME Hold, live' = live, settings' = settings, lost' = lost PROVE Known'
  BY <1>1, <1>3, HandKnown DEF Others
<1>4. CASE Declare(t) \/ Branch(t) \/ Look(t)
  <2>1. Hold BY <1>4 DEF Declare, Branch, Look, InHand
  <2> QED BY <1>3, <1>4, <2>1 DEF Declare, Branch, Look, history
<1>5. CASE Registered(t)
  <2>1. /\ at'[t] = "orphans" /\ work'[t].changed = work[t].changed
        /\ work'[t].already = work[t].already /\ work'[t].jobs = work[t].jobs
        /\ at[t] = "register"
    BY <1>0, <1>5 DEF Registered, Goto, TypeOK, Work
  <2>2. Hold BY <2>1 DEF InHand
  <2> QED BY <1>3, <1>5, <2>2 DEF Registered, history
<1>6. CASE Withdrawn(t)
  <2> DEFINE stay == IF at[t] = "withdraw" THEN {}
                     ELSE work[t].already \cap Named(work[t].jobs)
             w == [work[t] EXCEPT !.already = stay]
  <2>1. w.already = stay BY <1>0 DEF Work
  <2> HIDE DEF w
  <2>2. ASSUME NEW f \in File, InHand(t, f) PROVE InHand(t, f)'
    <3>1. at[t] = "orphans" /\ work[t].changed /\ f \in stay
      BY <1>6, <2>2 DEF Withdrawn, InHand, Named
    <3>2. at'[t] = "record" /\ work'[t] = w
      BY <1>6, <3>1 DEF Withdrawn, Goto, TypeOK, w
    <3> QED BY <2>1, <3>1, <3>2 DEF InHand
  <2> QED BY <1>3, <1>6, <2>2 DEF Withdrawn, history
<1>7. CASE Fetch(t)
  <2> DEFINE c == [settings EXCEPT !.record = work[t].already]
             w == [work[t] EXCEPT !.copy = c]
  <2>1. c.record = work[t].already BY DEF TypeOK, Settings
  <2> HIDE DEF c
  <2>2. w.copy = c BY <1>0 DEF Work
  <2>3. at[t] = "record" /\ at'[t] = "save" /\ work'[t] = w
    BY <1>7 DEF Fetch, Goto, TypeOK, c
  <2> HIDE DEF w
  <2>4. Hold BY <2>1, <2>2, <2>3 DEF InHand
  <2> QED BY <1>3, <1>7, <2>4 DEF Fetch, history
<1>8. CASE Repair(t)
  <2>1. /\ at' = at /\ work'[t].changed = work[t].changed
        /\ work'[t].already = work[t].already /\ work'[t].jobs = work[t].jobs
        /\ at[t] = "register"
    BY <1>0, <1>8 DEF Repair, TypeOK, Work
  <2>2. Hold BY <2>1 DEF InHand
  <2>3. \A f \in File : live'[f] # NoJob => live[f] # NoJob
    BY <1>8 DEF Repair, TypeOK
  <2> QED BY <1>1, <1>8, <2>2, <2>3, HandKnown DEF Repair, history, Others
<1>9. CASE Withdraw(t)
  <2> DEFINE g == First(work[t].todo)
             c == work[t].changed \/ (at[t] = "withdraw" /\ live[g] # NoJob)
             w == [work[t] EXCEPT !.todo = @ \ {g}, !.changed = c]
  <2>1. /\ at' = at /\ live' = [live EXCEPT ![g] = NoJob] /\ work'[t] = w
        /\ at[t] \in {"withdraw", "orphans"} /\ settings' = settings
        /\ lost' = lost
    BY <1>9 DEF Withdraw, TypeOK, history
  <2>2. work[t].changed => c OBVIOUS
  <2> HIDE DEF c
  <2>3. /\ w.already = work[t].already /\ w.jobs = work[t].jobs
        /\ w.changed = c
    BY <1>0 DEF Work
  <2> HIDE DEF w, g
  <2>4. Hold BY <2>1, <2>2, <2>3 DEF InHand
  <2>5. \A f \in File : live'[f] # NoJob => live[f] # NoJob
    BY <2>1 DEF TypeOK
  <2> QED BY <1>1, <2>1, <2>4, <2>5, HandKnown DEF Others
<1>10. CASE Register(t)
  <2> DEFINE f == First(work[t].todo)
             rest == [work[t] EXCEPT !.todo = @ \ {f}]
             more == [rest EXCEPT !.already = @ \cup {f}, !.changed = TRUE]
  <2>1. /\ rest \in Work /\ rest.jobs = work[t].jobs
        /\ rest.already = work[t].already /\ rest.changed = work[t].changed
    BY <1>0 DEF Work
  <2>2. /\ more.jobs = work[t].jobs /\ more.already = work[t].already \cup {f}
        /\ more.changed = TRUE
    BY <2>1 DEF Work
  <2>3. /\ f \in File /\ work[t].jobs[f] # NoJob
    <3>1. /\ at[t] = "register" /\ work[t].todo \subseteq Named(work[t].jobs)
          /\ work[t].todo # {} /\ work[t].todo \subseteq File
      BY <1>0, <1>10 DEF Register, TypeOK, Work
    <3> QED BY <3>1, FirstType DEF Named
  <2>4. /\ at' = at /\ at[t] = "register" /\ settings' = settings /\ lost' = lost
        /\ \/ live' = live /\ work'[t] = rest
           \/ live' = [live EXCEPT ![f] = work[t].jobs[f]] /\ work'[t] = more
    <3>1. CASE Accepts(f, work[t].jobs[f])
      BY <1>10, <3>1 DEF Register, TypeOK, history
    <3>2. CASE ~Accepts(f, work[t].jobs[f])
      BY <1>10, <3>2 DEF Register, TypeOK, history
    <3> QED BY <3>1, <3>2
  <2> HIDE DEF f, rest, more
  <2>5. Hold BY <2>1, <2>2, <2>4 DEF InHand
  <2>6. CASE live' = live /\ work'[t] = rest BY <1>3, <2>4, <2>5, <2>6
  <2>7. CASE live' = [live EXCEPT ![f] = work[t].jobs[f]] /\ work'[t] = more
    <3>1. ASSUME NEW g \in File, g = f PROVE InHand(t, g)'
      BY <2>2, <2>3, <2>4, <2>7, <3>1 DEF InHand
    <3>2. \A g \in File \ {f} : live'[g] = live[g] BY <2>7 DEF TypeOK
    <3>3. ASSUME NEW g \in File, live'[g] # NoJob
          PROVE  InHand(t, g)' \/ (live[g] # NoJob /\ ~InHand(t, g))
      BY <2>5, <3>1, <3>2, <3>3
    <3> QED BY <1>1, <2>4, <3>3, HandKnown DEF Others
  <2> QED BY <2>4, <2>6, <2>7
<1> QED BY <1>2, <1>4, <1>5, <1>6, <1>7, <1>8, <1>9, <1>10 DEF Sync

LEMMA NextKnown ==
    ASSUME TypeOK, Known, [Next]_vars
    PROVE  Known'
<1>1. ASSUME NEW r \in Request, NEW b \in BOOLEAN, Toggle(r, b) PROVE Known'
  <2>1. /\ r \in Task /\ \A f \in File : ~InHand(r, f)
        /\ \A s \in Task \ {r} : at'[s] = at[s] /\ work'[s] = work[s]
    BY <1>1 DEF Toggle, Begin, Goto, Task, TypeOK, InHand
  <2> QED BY <1>1, <2>1, HandKnown DEF Toggle, Begin
<1>2. ASSUME NEW r \in Request, Enable(r) PROVE Known'
  <2>1. /\ r \in Task /\ \A f \in File : ~InHand(r, f)
        /\ \A s \in Task \ {r} : at'[s] = at[s] /\ work'[s] = work[s]
    BY <1>2 DEF Enable, Goto, Task, TypeOK, InHand
  <2> QED BY <1>2, <2>1, WriteKnown DEF Enable
<1>3. ASSUME NEW r \in Request, NEW rows \in SUBSET (File \ Static), Save(r, rows)
      PROVE  Known'
  <2>1. /\ r \in Task /\ \A f \in File : ~InHand(r, f)
        /\ \A s \in Task \ {r} : at'[s] = at[s] /\ work'[s] = work[s]
    BY <1>3 DEF Save, Begin, Goto, Task, TypeOK, InHand
  <2> QED BY <1>3, <2>1, WriteKnown DEF Save, Begin
<1>4. ASSUME NEW r \in Request, Drop(r) PROVE Known'
  <2>1. /\ r \in Task /\ live' = live /\ settings' = settings
        /\ \A s \in Task \ {r} : at'[s] = at[s] /\ work'[s] = work[s]
    BY <1>4, Ended DEF Drop, Task
  <2>2. ASSUME NEW f \in File, live[f] # NoJob, InHand(r, f)
        PROVE  f \in lost' \cup settings.record
    BY <1>4, <2>2 DEF Drop, InHand, Named
  <2> QED BY <1>4, <2>1, <2>2, HandKnown DEF Drop
<1>5. ASSUME NEW t \in Task, Sync(t) PROVE Known' BY <1>5, SyncKnown
<1>6. CASE Open BY <1>6 DEF Open, history, Known, InHand
<1>7. ASSUME NEW f \in File, Leave(f) PROVE Known'
  BY <1>7 DEF Leave, Known, InHand, TypeOK
<1>8. ASSUME NEW f \in File, NEW c \in Sound, Edit(f, c) PROVE Known'
  BY <1>8 DEF Edit, Known, InHand, TypeOK
<1>9. ASSUME NEW f \in File, NEW c \in Content \cup {NoJob}, Change(f, c)
      PROVE  Known'
  BY <1>9 DEF Change, Known, InHand
<1>10. CASE Crash BY <1>10 DEF Crash, Known, Named
<1>11. CASE UNCHANGED vars BY <1>11 DEF vars, history, Known, InHand
<1> QED
  BY <1>1, <1>2, <1>3, <1>4, <1>5, <1>6, <1>7, <1>8, <1>9, <1>10, <1>11 DEF Next

-----------------------------------------------------------------------------
\* After one undisturbed reconciliation, whatever went before: of a module that
\* is on, every job on the clock is declared and says at least what its
\* declaration says, and every new declaration is on it; of one that is off,
\* only a job that was lost to the record, and is not declared, is left.
THEOREM ReconciliationIsRight ==
    Spec => [](ClockFollowsDeclarations /\ NewSchedulesArePickedUp /\ OffMeansOff)
<1> DEFINE IInv == TypeOK /\ Alone /\ Unchanged /\ Steps /\ Outcome /\ Known
<1>1. Init => IInv BY InitTypes, InitSteps, InitKnown
<1>2. IInv /\ [Next]_vars => IInv'
  BY NextTypes, NextAlone, NextUnchanged, NextSteps, NextKnown
<1>3. IInv => ClockFollowsDeclarations /\ NewSchedulesArePickedUp /\ OffMeansOff
  BY QuietKnown DEF Outcome
<1> QED BY <1>1, <1>2, <1>3, PTL DEF Spec

\* A file declared for the first time is on the clock after the next
\* undisturbed reconciliation.
THEOREM NewSchedulesArePickedUpAlways == Spec => []NewSchedulesArePickedUp
BY ReconciliationIsRight, PTL

\* A module that is off keeps no job on the clock but one that is neither
\* declared nor recorded, and that the record lost before: such a job goes on
\* firing, for the off branch does not look at the clock.
THEOREM OffMeansOffAlways == Spec => []OffMeansOff
BY ReconciliationIsRight, PTL

-----------------------------------------------------------------------------
(* Every step of a reconciliation brings it nearer to its end. *)

\* The places of a reconciliation in their order; withdraw and orphans stand
\* side by side.
Distance == [a \in At |->
    CASE a = "idle" -> 0
      [] a = "save" -> 1
      [] a = "record" -> 2
      [] a \in {"withdraw", "orphans"} -> 3
      [] a = "register" -> 4
      [] a = "look" -> 5
      [] a = "branch" -> 6
      [] a = "declare" -> 7
      [] a = "enable" -> 8]

FilesLeft(w) == Cardinality(w.todo)

\* A stale job is withdrawn before its file is registered.
StaleLeft(w) == IF w.seen[First(w.todo)] = NoJob THEN 0 ELSE 1

\* The first of the three that changes goes down.
Nearer(t) ==
    \/ Distance[at'[t]] < Distance[at[t]]
    \/ /\ at'[t] = at[t]
       /\ \/ FilesLeft(work'[t]) < FilesLeft(work[t])
          \/ /\ work'[t].todo = work[t].todo
             /\ StaleLeft(work'[t]) < StaleLeft(work[t])

\* A request, or the start-up, begins one.
Begins(t) ==
    \/ t \in Request /\ at[t] = "idle" /\ at'[t] \in {"enable", "declare"}
    \/ t = Boot /\ failures' > failures /\ at'[t] = "declare"

Stays(t) == at'[t] = at[t] /\ (at[t] = "idle" \/ work'[t] = work[t])

LEMMA Distances ==
    /\ Distance["idle"] = 0 /\ Distance["save"] = 1 /\ Distance["record"] = 2
    /\ Distance["withdraw"] = 3 /\ Distance["orphans"] = 3
    /\ Distance["register"] = 4 /\ Distance["look"] = 5 /\ Distance["branch"] = 6
    /\ Distance["declare"] = 7 /\ Distance["enable"] = 8
    /\ At = {"idle", "enable", "declare", "branch", "withdraw", "look", "register",
             "orphans", "record", "save"}
BY DEF Distance, At

LEMMA TodoIsFinite ==
    ASSUME IsFiniteSet(File), NEW w \in Work, NEW f \in w.todo
    PROVE  Cardinality(w.todo \ {f}) < Cardinality(w.todo)
<1>1. w.todo \subseteq File BY DEF Work
<1>2. IsFiniteSet(w.todo) BY <1>1, FS_Subset
<1>3. Cardinality(w.todo \ {f}) = Cardinality(w.todo) - 1
  BY <1>2, FS_RemoveElement
<1>4. Cardinality(w.todo) \in Nat BY <1>2, FS_CardinalityType
<1> QED BY <1>3, <1>4

LEMMA SyncNearer ==
    ASSUME IsFiniteSet(File), TypeOK, NEW t \in Task, Sync(t)
    PROVE  Nearer(t) /\ \A s \in Task \ {t} : Stays(s)
<1> DEFINE f == First(work[t].todo)
<1>0. /\ work[t] \in Work /\ work[t].todo \subseteq File
      /\ work \in [Task -> Work] /\ at \in [Task -> At] /\ work[t].seen \in Jobs
  BY DEF TypeOK, Work
<1>1. \A s \in Task \ {t} : Stays(s) BY SyncTypes DEF Others, Stays
<1> SUFFICES Nearer(t) BY <1>1
<1>2. ASSUME NEW a \in At, Goto(t, a), Distance[a] < Distance[at[t]]
      PROVE  Nearer(t)
  <2>1. at'[t] = a BY <1>0, <1>2 DEF Goto
  <2> QED BY <1>2, <2>1 DEF Nearer
<1>3. ASSUME at[t] # "idle", End(t) PROVE Nearer(t)
  <2>1. Distance["idle"] < Distance[at[t]] BY <1>0, <1>3, Distances
  <2>2. at'[t] = "idle" BY <1>0, <1>3 DEF End
  <2> QED BY <2>1, <2>2 DEF Nearer
<1>4. CASE Declare(t) BY <1>2, <1>4, Distances DEF Declare
<1>5. CASE Look(t) BY <1>2, <1>5, Distances DEF Look
<1>6. CASE Registered(t) BY <1>2, <1>6, Distances DEF Registered
<1>7. CASE Fetch(t) BY <1>2, <1>7, Distances DEF Fetch
<1>8. CASE Branch(t)
  <2>1. CASE End(t) BY <1>3, <1>8, <2>1 DEF Branch
  <2>2. CASE Goto(t, "withdraw") BY <1>2, <1>8, <2>2, Distances DEF Branch
  <2>3. CASE Goto(t, "look") BY <1>2, <1>8, <2>3, Distances DEF Branch
  <2> QED BY <1>8, <2>1, <2>2, <2>3 DEF Branch
<1>9. CASE Repair(t)
  <2> DEFINE w == [work[t] EXCEPT !.seen = [@ EXCEPT ![f] = NoJob]]
  <2>1. f \in File BY <1>0, <1>9, FirstType DEF Repair
  <2>2. w.todo = work[t].todo /\ w.seen[f] = NoJob
    BY <1>0, <2>1 DEF Work, Jobs
  <2>3. work' = [work EXCEPT ![t] = w] /\ at' = at /\ work[t].seen[f] # NoJob
    BY <1>9 DEF Repair
  <2> HIDE DEF w
  <2>4. work'[t] = w BY <1>0, <2>3
  <2> QED BY <2>2, <2>3, <2>4 DEF Nearer, StaleLeft
<1>10. CASE Register(t)
  <2>1. f \in work[t].todo BY <1>0, <1>10, FirstType DEF Register
  <2> DEFINE rest == [work[t] EXCEPT !.todo = @ \ {f}]
             more == [rest EXCEPT !.already = @ \cup {f}, !.changed = TRUE]
  <2>2. rest.todo = work[t].todo \ {f} /\ more.todo = rest.todo
    BY <1>0 DEF Work
  <2>3. /\ work' = [work EXCEPT ![t] = rest] \/ work' = [work EXCEPT ![t] = more]
        /\ at' = at
    BY <1>10 DEF Register
  <2> HIDE DEF rest, more
  <2>4. work'[t].todo = work[t].todo \ {f} BY <1>0, <2>2, <2>3
  <2> QED BY <1>0, <2>1, <2>3, <2>4, TodoIsFinite DEF Nearer, FilesLeft
<1>11. CASE Withdraw(t)
  <2>1. f \in work[t].todo BY <1>0, <1>11, FirstType DEF Withdraw
  <2>2. work'[t].todo = work[t].todo \ {f} /\ at' = at
    BY <1>0, <1>11 DEF Withdraw, Work
  <2> QED BY <1>0, <2>1, <2>2, TodoIsFinite DEF Nearer, FilesLeft
<1>12. CASE Withdrawn(t)
  <2>1. CASE End(t) BY <1>3, <1>12, <2>1 DEF Withdrawn
  <2>2. CASE Goto(t, "record") BY <1>2, <1>12, <2>2, Distances DEF Withdrawn
  <2> QED BY <1>12, <2>1, <2>2 DEF Withdrawn
<1>13. CASE Record(t) BY <1>3, <1>13 DEF Record
<1> QED BY <1>4, <1>5, <1>6, <1>7, <1>8, <1>9, <1>10, <1>11, <1>12, <1>13
        DEF Sync

\* Every step of a reconciliation brings it nearer to its end: it deals with
\* each file once, however the settings, the files and the clock change under
\* it.  It begins anew only for a new request or after a restart.
THEOREM EveryStepIsNearer ==
    IsFiniteSet(File) /\ Spec =>
        [][\A t \in Task : Stays(t) \/ Begins(t) \/ Nearer(t)]_vars
<1> DEFINE A == \A t \in Task : Stays(t) \/ Begins(t) \/ Nearer(t)
<1>1. IsFiniteSet(File) /\ TypeOK /\ [Next]_vars => [A]_vars
  <2> SUFFICES ASSUME IsFiniteSet(File), TypeOK, Next, NEW t \in Task
               PROVE  Stays(t) \/ Begins(t) \/ Nearer(t)
    OBVIOUS
  <2>0. /\ work \in [Task -> Work] /\ at \in [Task -> At] /\ at[t] \in At
        /\ Request \subseteq Task /\ failures \in Nat
    BY DEF TypeOK, Task
  <2>1. ASSUME NEW r \in Request, NEW b \in BOOLEAN, Toggle(r, b)
        PROVE  Stays(t) \/ Begins(t)
    BY <2>0, <2>1 DEF Toggle, Begin, Goto, Stays, Begins
  <2>2. ASSUME NEW r \in Request, NEW rows \in SUBSET (File \ Static), Save(r, rows)
        PROVE  Stays(t) \/ Begins(t)
    BY <2>0, <2>2 DEF Save, Begin, Goto, Stays, Begins
  <2>3. ASSUME NEW r \in Request, Enable(r) PROVE Stays(t) \/ Nearer(t)
    BY <2>0, <2>3, Distances DEF Enable, Goto, Stays, Nearer
  <2>4. ASSUME NEW r \in Request, Drop(r) PROVE Stays(t) \/ Nearer(t)
    <3>1. Distance["idle"] < Distance[at[r]]
      BY <2>0, <2>4, Distances DEF Drop, TypeOK, Task
    <3> QED BY <2>0, <2>4, <3>1 DEF Drop, End, Stays, Nearer
  <2>5. ASSUME NEW s \in Task, Sync(s) PROVE Stays(t) \/ Nearer(t)
    BY <2>5, SyncNearer
  <2>6. CASE Open \/ \E f \in File : \/ Leave(f)
                                     \/ \E c \in Sound : Edit(f, c)
                                     \/ \E c \in Content \cup {NoJob} : Change(f, c)
    BY <2>6 DEF Open, Leave, Edit, Change, Stays
  <2>7. CASE Crash
    <3>1. CASE t = Boot BY <2>0, <2>7, <3>1 DEF Crash, Begins
    <3>2. CASE t # Boot /\ at[t] # "idle"
      <4>1. Distance["idle"] < Distance[at[t]] BY <2>0, <3>2, Distances
      <4> QED BY <2>7, <3>2, <4>1 DEF Crash, Nearer
    <3>3. CASE t # Boot /\ at[t] = "idle"
      BY <2>7, <3>3 DEF Crash, Stays
    <3> QED BY <3>1, <3>2, <3>3
  <2> QED BY <2>1, <2>2, <2>3, <2>4, <2>5, <2>6, <2>7 DEF Next
<1> HIDE DEF A
<1> SUFFICES ASSUME IsFiniteSet(File) PROVE Spec => [][A]_vars
  BY DEF A
<1>2. TypeOK /\ [Next]_vars => [A]_vars BY <1>1
<1> QED BY <1>2, TypeCorrect, PTL DEF Spec
=============================================================================
