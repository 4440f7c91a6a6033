---------------------------- MODULE StreamWatches ----------------------------
(***************************************************************************)
(* The realtime watches of ModuleManager (core/src/managers/module.rs) on  *)
(* top of WsStreamAdapter: start_stream, stop_stream, the restore at boot  *)
(* and the relaunch when credentials are registered.                       *)
(*                                                                         *)
(* Calls run concurrently with each other and with the connection tasks.   *)
(* What a call does under one lock, and between two awaits where no other  *)
(* caller could tell the difference, is one step.  The list of watches     *)
(* that survives a restart is one value in the vault, written over whole   *)
(* by whoever changed the list in memory.                                  *)
(***************************************************************************)
EXTENDS StreamConnection

CONSTANTS
    Caller,    \* requests
    Boot,      \* the caller that is start-up itself
    Founding,  \* lists of watches the vault may hold at first
    MaxCalls,  \* bound: calls made
    MaxCrashes \* bound

ASSUME WatchesAssumption ==
    /\ Boot \in Caller
    /\ Founding \subseteq SUBSET Watch
    /\ MaxCalls \in Nat /\ MaxCrashes \in Nat

VARIABLES
    tasks,       \* WsStreamAdapter.tasks: the instance of a watch, or 0
    watch_conn,  \* watches that stop() will tell the shared task about
    watches,     \* ModuleManager.stream_watches
    vault,       \* the watches in the vault
    call,        \* where the callers are
    count,       \* calls and crashes so far
    raced,       \* history: the list was saved, or relaunched from, by two at once
    unrestored   \* history: watches a restore could not bring back

adapterVars == <<tasks, watch_conn>>
managerVars == <<watches, vault, raced, unrestored>>
vars == <<connectionVars, adapterVars, managerVars, call, count>>

At == {"idle", "launch", "join", "bind", "wait", "leave", "forget",
       "collect", "save"}

\* A start and a stop are for one watch; a relaunch takes those in todo.
Call == [at : At, op : {"start", "stop", "relaunch"}, w : Watch \cup {NoWatch},
         todo : SUBSET Watch, i : 0..MaxStarts, list : SUBSET Watch]

Resting == [at |-> "idle", op |-> "start", w |-> NoWatch,
            todo |-> {}, i |-> 0, list |-> {}]

\* Start-up launches what the vault lists.
Restoring(list) ==
    [r \in Caller |->
        IF r = Boot /\ list # {}
        THEN [Resting EXCEPT !.at = "launch", !.op = "relaunch", !.todo = list]
        ELSE Resting]

Init ==
    /\ ConnectionInit
    /\ tasks = [w \in Watch |-> 0]
    /\ watch_conn = {} /\ watches = {}
    /\ vault \in Founding
    /\ call = Restoring(vault)
    /\ count = [calls |-> 0, crashes |-> 0]
    /\ raced = FALSE /\ unrestored = {}

\* r is inside the adapter, or not done with the list, for w.
Busy(r, w) ==
    call[r].at \in {"join", "bind", "wait", "leave", "forget"} /\ call[r].w = w

OthersBusy(r, w) == \E q \in Caller \ {r} : Busy(q, w)

-----------------------------------------------------------------------------
(* The beginning of a call. *)

\* The server takes requests when restore_streams is through.
CanCall(r) ==
    /\ r # Boot /\ call[Boot] = Resting
    /\ call[r].at = "idle" /\ count.calls < MaxCalls
    /\ count' = [count EXCEPT !.calls = @ + 1]

Relaunching == \E q \in Caller : call[q].op = "relaunch"

\* start_stream: an active watch is returned as it is.
StartStream(r, w) ==
    /\ CanCall(r) /\ w \notin watches
    /\ call' = [call EXCEPT ![r] = [Resting EXCEPT !.at = "launch", !.todo = {w}]]
    /\ raced' = (raced \/ Relaunching)
    /\ UNCHANGED <<connectionVars, adapterVars, watches, vault, unrestored>>

\* relaunch_missing_streams: what the vault has and the list has not.
RelaunchMissing(r) ==
    /\ CanCall(r) /\ vault \ watches # {}
    /\ call' = [call EXCEPT ![r] = [Resting EXCEPT !.at = "launch",
                                !.op = "relaunch", !.todo = vault \ watches]]
    /\ raced' = (raced \/ \E q \in Caller : call[q] # Resting)
    /\ UNCHANGED <<connectionVars, adapterVars, watches, vault, unrestored>>

Bug_CancelNothing(w) == conn

\* What start() and stop() do to the task they take out of the registry.
Cancel(w) ==
    IF tasks[w] = 0 \/ mode.share \/ ~Running(tasks[w]) THEN conn
    ELSE [conn EXCEPT ![tasks[w]].cancel = TRUE]

Detach(w) ==
    /\ tasks' = [tasks EXCEPT ![w] = 0]
    /\ conn' = Cancel(w)
    /\ UNCHANGED <<mode, inst, starts, handle, faults, watch_conn>>

\* stop_stream, and stop() up to its second lock.
StopStream(r, w) ==
    /\ CanCall(r)
    /\ Detach(w)
    /\ marred' = IF OthersBusy(r, w) THEN marred \cup {w} ELSE marred
    /\ call' = [call EXCEPT ![r] = [Resting EXCEPT !.at = "leave", !.op = "stop",
                                                   !.w = w]]
    /\ raced' = (raced \/ Relaunching)
    /\ UNCHANGED <<watches, vault, unrestored>>

-----------------------------------------------------------------------------
(* launch_stream, with start() of the adapter in the middle. *)

\* The end of one launch: a relaunch goes on to the next, a start is over.
Launched(c) == IF c.todo = {} THEN Resting ELSE [c EXCEPT !.at = "launch"]

Failed(c, w) == IF c.op = "relaunch" THEN unrestored \cup {w} ELSE unrestored

\* The declaration, the arguments or the account are not in order.
LaunchFails(r, w) ==
    /\ call[r].at = "launch" /\ w \in call[r].todo
    /\ call' = [call EXCEPT ![r] = Launched([call[r] EXCEPT !.todo = @ \ {w}])]
    /\ unrestored' = Failed(call[r], w)
    /\ UNCHANGED <<connectionVars, adapterVars, watches, vault, raced, count>>

Launch(r, w) ==
    /\ call[r].at = "launch" /\ w \in call[r].todo
    /\ starts < MaxStarts
    /\ Detach(w)
    /\ marred' = IF OthersBusy(r, w) \/ (mode.share /\ tasks[w] # 0)
                 THEN marred \cup {w} ELSE marred
    /\ call' = [call EXCEPT ![r] = [call[r] EXCEPT !.at = "join", !.w = w,
                                                   !.todo = @ \ {w}]]
    /\ UNCHANGED <<managerVars, count>>

\* The instance is in the registry and handed to a connection.
Start(r) ==
    /\ call[r].at = "join" /\ starts < MaxStarts
    /\ ~(mode.share /\ HandleDead)
    /\ Join(call[r].w, starts + 1)
    /\ tasks' = [tasks EXCEPT ![call[r].w] = starts + 1]
    /\ call' = [call EXCEPT ![r].at = IF mode.share THEN "bind" ELSE "wait",
                            ![r].i = starts + 1]
    /\ UNCHANGED <<marred, watch_conn, managerVars, count>>

\* "shared ws connection is gone - retry".
StartOnDead(r) ==
    /\ call[r].at = "join" /\ mode.share /\ HandleDead
    /\ handle' = 0
    /\ tasks' = [tasks EXCEPT ![call[r].w] = 0]
    /\ call' = [call EXCEPT ![r] = Launched(@)]
    /\ unrestored' = Failed(call[r], call[r].w)
    /\ UNCHANGED <<mode, inst, starts, conn, faults, marred, watch_conn,
                   watches, vault, raced, count>>

Bind(r) ==
    /\ call[r].at = "bind"
    /\ watch_conn' = watch_conn \cup {call[r].w}
    /\ call' = [call EXCEPT ![r].at = "wait"]
    /\ UNCHANGED <<connectionVars, tasks, managerVars, count>>

\* The first subscription was refused: whatever the registry has now goes.
Rejected(r) ==
    /\ call[r].at = "wait" /\ inst[call[r].i].verdict = "err"
    /\ tasks' = [tasks EXCEPT ![call[r].w] = 0]
    /\ call' = [call EXCEPT ![r] = Launched([@ EXCEPT !.i = 0])]
    /\ unrestored' = Failed(call[r], call[r].w)
    /\ UNCHANGED <<connectionVars, watch_conn, watches, vault, raced, count>>

\* It was accepted, its task is gone, or the wait timed out: all are success.
Registered(r) ==
    /\ call[r].at = "wait" /\ inst[call[r].i].verdict # "err"
    /\ watches' = watches \cup {call[r].w}
    /\ unrestored' = unrestored \ {call[r].w}
    /\ call' = [call EXCEPT ![r] =
                  IF @.op = "start" THEN [@ EXCEPT !.at = "collect", !.i = 0]
                  ELSE Launched([@ EXCEPT !.i = 0])]
    /\ UNCHANGED <<connectionVars, adapterVars, vault, raced, count>>

-----------------------------------------------------------------------------
(* The rest of a stop, and the list in the vault. *)

\* stop() from its second lock on.
LeaveShared(r) ==
    /\ call[r].at = "leave"
    /\ watch_conn' = watch_conn \ {call[r].w}
    /\ IF call[r].w \in watch_conn THEN Leave(call[r].w)
       ELSE UNCHANGED <<conn, handle>>
    /\ call' = [call EXCEPT ![r].at = "forget"]
    /\ UNCHANGED <<mode, inst, starts, faults, marred, tasks, managerVars, count>>

Bug_ForgetUnsaved(r) ==
    /\ call[r].at = "forget"
    /\ watches' = watches \ {call[r].w}
    /\ call' = [call EXCEPT ![r] = Resting]
    /\ UNCHANGED <<connectionVars, adapterVars, vault, raced, unrestored, count>>

Forget(r) ==
    /\ call[r].at = "forget"
    /\ watches' = watches \ {call[r].w}
    /\ call' = [call EXCEPT ![r].at = "collect"]
    /\ UNCHANGED <<connectionVars, adapterVars, vault, raced, unrestored, count>>

\* persist_watches: the list is read under its lock and written without.
Collect(r) ==
    /\ call[r].at = "collect"
    /\ raced' = (raced \/ \E q \in Caller : call[q].at = "save")
    /\ call' = [call EXCEPT ![r].at = "save", ![r].list = watches]
    /\ UNCHANGED <<connectionVars, adapterVars, watches, vault, unrestored, count>>

Save(r) ==
    /\ call[r].at = "save"
    /\ vault' = call[r].list
    /\ call' = [call EXCEPT ![r] = Resting]
    /\ UNCHANGED <<connectionVars, adapterVars, watches, raced, unrestored, count>>

-----------------------------------------------------------------------------
\* A restart: only the vault is left.
Crash ==
    /\ count.crashes < MaxCrashes
    /\ count' = [count EXCEPT !.crashes = @ + 1]
    /\ CrashConnections
    /\ tasks' = [w \in Watch |-> 0]
    /\ watch_conn' = {} /\ watches' = {}
    /\ raced' = FALSE /\ unrestored' = {}
    /\ call' = Restoring(vault)
    /\ UNCHANGED vault

CallStep(r) ==
    \/ \E w \in Watch : LaunchFails(r, w) \/ Launch(r, w)
    \/ Start(r) \/ StartOnDead(r) \/ Bind(r) \/ Rejected(r) \/ Registered(r)
    \/ LeaveShared(r) \/ Forget(r) \/ Collect(r) \/ Save(r)

NewCall(r) ==
    \/ \E w \in Watch : StartStream(r, w) \/ StopStream(r, w)
    \/ RelaunchMissing(r)

NetStep(c) == (TaskStep(c) \/ Trouble(c)) /\
              UNCHANGED <<adapterVars, managerVars, call, count>>

Next ==
    \/ \E r \in Caller : CallStep(r) \/ NewCall(r)
    \/ \E c \in Inst : NetStep(c)
    \/ Crash

Spec == Init /\ [][Next]_vars

-----------------------------------------------------------------------------
TypeOK ==
    /\ mode \in Modes
    /\ inst \in [Inst -> Instance]
    /\ starts \in 0..MaxStarts
    /\ conn \in [Inst -> Task]
    /\ handle \in 0..MaxStarts
    /\ faults \in [drops : Nat, refusals : Nat]
    /\ marred \subseteq Watch
    /\ tasks \in [Watch -> 0..MaxStarts]
    /\ watch_conn \subseteq Watch /\ watches \subseteq Watch /\ vault \subseteq Watch
    /\ call \in [Caller -> Call]
    /\ count \in [calls : Nat, crashes : Nat]
    /\ raced \in BOOLEAN /\ unrestored \subseteq Watch

\* A venue that allows one session per token sees one: however starts, stops
\* and failures interleave, at most one shared task runs (ws_stream.rs:193).
OneSocket ==
    mode.share => \A c, d \in Inst : Running(c) /\ Running(d) => c = d

\* A Remove of i's watch is behind i in the queue.
Leaving(c, i, from) ==
    \E k \in DOMAIN conn[c].cmds :
        k > from /\ conn[c].cmds[k] = [op |-> "remove", watch |-> inst[i].watch]

\* The instances of w that a task serves, or will once its queue is read.
Serving(w) ==
    {i \in Inst : inst[i].watch = w /\ \E c \in Inst :
        /\ Running(c) /\ ~conn[c].cancel
        /\ \/ i \in conn[c].members /\ ~Leaving(c, i, 0)
           \/ \E k \in DOMAIN conn[c].cmds :
                 /\ conn[c].cmds[k] = [op |-> "add", member |-> i]
                 /\ ~Leaving(c, i, k)}

\* What is served for a watch is the instance in the registry, and nothing
\* once it was stopped or refused: no frame is handed on twice, and none of a
\* watch that is not there.  Excepted are the watches in "marred": restarted,
\* called for twice at once, or refused by an ack that a lost socket cut off.
ServedIsRegistered ==
    \A w \in Watch \ marred :
        (\A r \in Caller : ~Busy(r, w)) => Serving(w) \subseteq {tasks[w]}

\* A live socket was asked for every watch it serves, or is about to be: a
\* watch that joins it, is refused or leaves does not cost another its frames.
\* Excepted are the watches in "marred", as above.  It speaks of what was asked
\* for, not of what the venue made of it: an ack that answers an earlier
\* subscription and is read for a later watch (ReadAck) does not break it.
LiveIsAsked ==
    \A c \in Inst : conn[c].phase = "live" /\ ~conn[c].timer =>
        \A i \in conn[c].members :
            inst[i].watch \notin marred => inst[i].watch \in conn[c].asked

\* Between calls the vault has the list, and besides only what a restore could
\* not bring back (unrestored).  Excepted, until the next restart, is the vault
\* after two calls saved the list at once, or a relaunch read it while another
\* call was changing it (raced): there the later write may be the older list.
ListIsSaved ==
    ~raced /\ (\A r \in Caller : call[r] = Resting) =>
        watches \subseteq vault /\ vault \ watches \subseteq unrestored

\* Nothing is left for c to do but to wait for the venue or a command.
AtRest(c) ==
    \/ conn[c].phase = "top" /\ conn[c].members = {} /\ conn[c].cmds = << >>
    \/ /\ conn[c].phase = "live" /\ ~conn[c].timer
       /\ conn[c].cmds = << >> /\ conn[c].wire = << >>

\* On a venue that answers what it is asked, no start is forgotten: while one
\* waits, a task has its instance and something left to do, so that no lost
\* socket, refusal of another watch or replaced declaration strands it.
StartsAreAnswered ==
    mode.acks => \A i \in Inst :
        inst[i].watch # NoWatch /\ inst[i].verdict = "none" =>
            \E c \in Inst : /\ Running(c) /\ ~AtRest(c)
                            /\ i \in conn[c].members \cup Queued(c)

-----------------------------------------------------------------------------
(* What comments and docs of the code say and the code does not do. *)

\* ws_stream.rs:590: a shared connection outlives its registrations.  A watch
\* in the registry is then served by some task unless it failed, or is "marred".
RegisteredIsServed ==
    \A w \in Watch \ marred :
        tasks[w] # 0 /\ inst[tasks[w]].status # "failed"
            => tasks[w] \in Serving(w)
=============================================================================
