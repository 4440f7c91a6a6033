-------------------------- MODULE StreamConnection --------------------------
(***************************************************************************)
(* The connections of WsStreamAdapter (infra/src/adapters/ws_stream.rs).   *)
(*                                                                         *)
(* Every start() makes one instance of a watch, a Member: its status and   *)
(* the channel that tells start() how the first subscription went.  A      *)
(* module that shares its socket has one connection task, which instances  *)
(* join and leave by a command queue; otherwise a task serves the instance *)
(* it was spawned for and is cancelled.  Tasks are named by the instance   *)
(* whose start() spawned them, and instances by the order in which they    *)
(* were handed over, which is the order in which a task holds them.        *)
(*                                                                         *)
(* The venue at the other end of the socket may drop it, refuse a login    *)
(* and refuse what it is asked for.  Nothing is assumed of the order in    *)
(* which its acks are read and our next frames are sent.                   *)
(*                                                                         *)
(* A Bug_ definition is a seeded fault: no specification uses it.          *)
(***************************************************************************)
EXTENDS Naturals, Sequences, FiniteSets

CONSTANTS
    Watch,       \* watch ids
    NoWatch,     \* a model value
    Modes,       \* how a module may declare its streams, see Mode
    MaxStarts,   \* bound: instances ever started
    MaxDrops,    \* bound: sockets lost
    MaxRefusals, \* bound: subscriptions the venue refuses
    MaxRejects   \* MAX_SUBSCRIBE_REJECTS

(***************************************************************************)
(* share: one socket for all watches (shareConnection); replaces: a        *)
(* subscribe frame declares all of the socket's subscriptions anew         *)
(* (subscribeReplaces); acks: the venue answers a subscribe frame          *)
(* (subscribe_match); names: the answer lists the watches it refuses       *)
(* (subscribe_rejected), where it otherwise stands for all that are asked. *)
(***************************************************************************)
Mode == [share : BOOLEAN, replaces : BOOLEAN, acks : BOOLEAN, names : BOOLEAN]

ASSUME ConnectionAssumption ==
    /\ MaxStarts \in Nat /\ MaxDrops \in Nat /\ MaxRefusals \in Nat
    /\ MaxRejects \in Nat \ {0}
    /\ Modes \subseteq Mode
    /\ NoWatch \notin Watch
    /\ \A m \in Modes : m.replaces => m.share

VARIABLES
    mode,     \* the module's declarations
    inst,     \* the instances
    starts,   \* how many there are
    conn,     \* the connection tasks
    handle,   \* conns: the shared task, 0 if there is no entry
    faults,   \* sockets lost, subscriptions refused
    marred    \* history: watches the order of calls or a cut-off ack spoiled

connectionVars == <<mode, inst, starts, conn, handle, faults, marred>>

Inst == 1..MaxStarts

Status == {"none", "connecting", "live", "reconnecting", "failed", "stopped"}

\* What the channel of start() holds; "gone": its sender was dropped.
Verdict == {"none", "ok", "err", "gone"}

\* StatusInner and Member; rejects counts refusals in a row.
Instance == [watch : Watch \cup {NoWatch}, status : Status, verdict : Verdict,
             rejects : Nat]

Unborn == [watch |-> NoWatch, status |-> "none",
           verdict |-> "none", rejects |-> 0]

Command == [op : {"add"}, member : Inst] \cup [op : {"remove"}, watch : Watch]

\* Where a task is: none, at the top of conn_loop, before the end of a
\* handshake, in a session, waiting to reconnect, or over.
Phase == {"none", "top", "handshake", "live", "backoff", "ended"}

\* asked and refused are what the venue was asked for on this socket and what
\* of it it would not give; wire holds its acks, each the watches it refuses.
Task == [phase : Phase, members : SUBSET Inst, cmds : Seq(Command),
         cancel : BOOLEAN, logins : 0..(MaxRejects - 1), timer : BOOLEAN,
         asked : SUBSET Watch, refused : SUBSET Watch,
         wire : Seq(SUBSET Watch)]

NoTask == [phase |-> "none", members |-> {}, cmds |-> << >>, cancel |-> FALSE,
           logins |-> 0, timer |-> FALSE, asked |-> {}, refused |-> {},
           wire |-> << >>]

Running(c) == conn[c].phase \in {"top", "handshake", "live", "backoff"}

WatchesOf(is) == {inst[i].watch : i \in is}

OfWatches(is, ws) == {i \in is : inst[i].watch \in ws}

Pending(is) == {i \in is : inst[i].verdict = "none"}

-----------------------------------------------------------------------------
(* The statuses and channels of several instances at once. *)

Show(f, is, s) ==
    [i \in Inst |-> IF i \in is THEN [f[i] EXCEPT !.status = s] ELSE f[i]]

Tell(f, is, v) ==
    [i \in Inst |-> IF i \in is /\ f[i].verdict = "none"
                    THEN [f[i] EXCEPT !.verdict = v] ELSE f[i]]

\* The instances still in the queue; they go down with the task.
Queued(c) == {i \in Inst : \E k \in DOMAIN conn[c].cmds :
                  conn[c].cmds[k] = [op |-> "add", member |-> i]}

(***************************************************************************)
(* A task ends: what it held, and what it had not read from its queue, is  *)
(* dropped.                                                                *)
(***************************************************************************)
End(c, f) ==
    /\ conn' = [conn EXCEPT ![c] = [NoTask EXCEPT !.phase = "ended"]]
    /\ inst' = Tell(f, conn[c].members \cup Queued(c), "gone")
    /\ UNCHANGED <<mode, starts, handle>>

\* A task is cancelled where it waits, which a handshake does not.
Cancelled(c) ==
    /\ conn[c].phase \in {"top", "live", "backoff"} /\ conn[c].cancel
    /\ End(c, Show(inst, conn[c].members, "stopped"))
    /\ UNCHANGED <<faults, marred>>

-----------------------------------------------------------------------------
(* The loop: no members, the handshake, the wait before the next one. *)

\* A shared task without members waits for its first.
Idle(c) ==
    /\ conn[c].phase = "top" /\ conn[c].members = {} /\ conn[c].cmds # << >>
    /\ LET cmd == Head(conn[c].cmds) IN
       conn' = [conn EXCEPT ![c].cmds = Tail(@),
                            ![c].members = IF cmd.op = "add"
                                           THEN {cmd.member} ELSE {}]
    /\ UNCHANGED <<mode, inst, starts, handle, faults, marred>>

Connect(c) ==
    /\ conn[c].phase = "top" /\ conn[c].members # {} /\ ~conn[c].cancel
    /\ conn' = [conn EXCEPT ![c].phase = "handshake"]
    /\ inst' = Show(inst, conn[c].members, "connecting")
    /\ UNCHANGED <<mode, starts, handle, faults, marred>>

Bug_DropForgetsQueue(c, f, logins) ==
    /\ conn' = [conn EXCEPT ![c] =
                   [NoTask EXCEPT !.phase = "backoff", !.logins = logins,
                        !.members = conn[c].members, !.cancel = conn[c].cancel]]
    /\ inst' = Show(f, conn[c].members, "reconnecting")
    /\ UNCHANGED <<mode, starts, handle>>

\* SessionEnd::Dropped: logins counts refused logins in a row.
Dropped(c, f, logins) ==
    /\ conn' = [conn EXCEPT ![c] =
                   [NoTask EXCEPT !.phase = "backoff", !.logins = logins,
                        !.members = conn[c].members,
                        !.cmds = conn[c].cmds, !.cancel = conn[c].cancel]]
    /\ inst' = Show(f, conn[c].members, "reconnecting")
    /\ UNCHANGED <<mode, starts, handle>>

Fault(no) ==
    /\ faults.drops < MaxDrops
    /\ faults' = [drops |-> faults.drops + 1,
                  refusals |-> faults.refusals + Cardinality(no)]

\* No token, no connection, no answer to the login or a pre-frame; later, a
\* socket that closes or cannot be written to.
Lost(c) ==
    /\ conn[c].phase \in {"handshake", "live"}
    /\ Fault({})
    /\ Dropped(c, inst, 0)
    /\ UNCHANGED marred

LoginRejected(c) ==
    /\ conn[c].phase = "handshake"
    /\ conn[c].logins + 1 < MaxRejects
    /\ Dropped(c, inst, conn[c].logins + 1)
    /\ UNCHANGED <<faults, marred>>

\* Refused for the third time in a row, fresh tokens included: the task ends.
LoginGivenUp(c) ==
    /\ conn[c].phase = "handshake"
    /\ conn[c].logins + 1 = MaxRejects
    /\ End(c, Tell(Show(inst, conn[c].members, "failed"),
                   conn[c].members, "err"))
    /\ UNCHANGED <<faults, marred>>

Retry(c) ==
    /\ conn[c].phase = "backoff" /\ ~conn[c].cancel
    /\ conn' = [conn EXCEPT ![c].phase = "top"]
    /\ UNCHANGED <<mode, inst, starts, handle, faults, marred>>

-----------------------------------------------------------------------------
(* The subscriptions of a handshake. *)

\* refuse(): a first attempt is given up at once, a later one after a few.
GivesUp(i) == inst[i].verdict = "none" \/ inst[i].rejects + 1 >= MaxRejects

Refused(i) ==
    [inst[i] EXCEPT !.rejects = @ + 1,
                    !.verdict = IF @ = "none" THEN "err" ELSE @,
                    !.status = IF GivesUp(i) THEN "failed" ELSE @]

\* What the answers do to the members asked for; without acks nobody looks.
Answered(is, no) ==
    [i \in Inst |-> IF i \in no THEN Refused(i)
                    ELSE IF i \in is /\ mode.acks
                         THEN [inst[i] EXCEPT !.rejects = 0]
                    ELSE inst[i]]

\* A venue refuses, as long as the bound allows, and only where it answers.
MayRefuse(is, no) ==
    /\ no \subseteq is
    /\ no # {} => mode.acks /\ faults.refusals + Cardinality(no) <= MaxRefusals
    /\ mode.replaces /\ ~mode.names => no \in {{}, is}

GivenUp(no) == WatchesOf({i \in no : GivesUp(i)})

\* Every member is asked for and answered; those given up leave the task.
Subscribe(c, no) ==
    LET all  == conn[c].members
        left == all \ OfWatches(all, GivenUp(no)) IN
    /\ conn[c].phase = "handshake"
    /\ MayRefuse(all, no)
    /\ faults' = [faults EXCEPT !.refusals = @ + Cardinality(no)]
    /\ IF left = {}
       THEN End(c, Answered(all, no))
       ELSE /\ conn' = [conn EXCEPT ![c].phase = "live", ![c].members = left,
                            ![c].asked = WatchesOf(all),
                            ![c].refused = WatchesOf(no)]
            /\ inst' = Tell(Tell(Show(Answered(all, no), left, "live"),
                                 left, "ok"), all, "gone")
            /\ UNCHANGED <<mode, starts, handle>>
    /\ UNCHANGED marred

(***************************************************************************)
(* The socket is lost when the members up to k were answered: who was      *)
(* given up among them is told so, and stays a member all the same.        *)
(***************************************************************************)
CutOff(c, k, no) ==
    LET asked == {i \in conn[c].members : i <= k} IN
    /\ conn[c].phase = "handshake" /\ ~mode.replaces
    /\ MayRefuse(asked, no)
    /\ asked # conn[c].members
    /\ Fault(no)
    /\ Dropped(c, Answered(asked, no), 0)
    /\ marred' = marred \cup GivenUp(no)

-----------------------------------------------------------------------------
(* A live session: commands, acks, the declaration that replaces. *)

\* An ack without names stands for whatever was asked.
Ack(ws) == IF mode.names \/ ws = {} THEN ws ELSE Watch

\* The venue is asked for ws; it refuses some, and says so if it ever does.
Ask(t, ws, no) ==
    [t EXCEPT !.asked = @ \cup ws, !.refused = (@ \ ws) \cup no,
              !.wire = IF mode.acks THEN Append(@, Ack(no)) ELSE @]

MayRefuseLive(ws, no) ==
    /\ no \subseteq ws
    /\ no # {} => mode.acks /\ faults.refusals + Cardinality(no) <= MaxRefusals
    /\ mode.replaces /\ ~mode.names => no \in {{}, ws}

Bug_AddAsksNothing(c, i, no) ==
    IF mode.replaces THEN [conn[c] EXCEPT !.cmds = Tail(@), !.members = @ \cup {i}]
    ELSE Ask([conn[c] EXCEPT !.cmds = Tail(@), !.members = @ \cup {i}],
             {inst[i].watch}, no)

\* The command Add: the socket that replaces waits for others to come.
Added(c, i, no) ==
    LET t == [conn[c] EXCEPT !.cmds = Tail(@), !.members = @ \cup {i}] IN
    IF mode.replaces THEN [t EXCEPT !.timer = TRUE]
    ELSE Ask(t, {inst[i].watch}, no)

TakeAdd(c, no) ==
    /\ conn[c].phase = "live" /\ conn[c].cmds # << >>
    /\ Head(conn[c].cmds).op = "add"
    /\ LET i == Head(conn[c].cmds).member IN
       /\ MayRefuseLive({inst[i].watch}, no)
       /\ mode.replaces => no = {}
       /\ conn' = [conn EXCEPT ![c] = Added(c, i, no)]
    /\ faults' = [faults EXCEPT !.refusals = @ + Cardinality(no)]
    /\ UNCHANGED <<mode, inst, starts, handle, marred>>

\* members.iter().position: the first member of that watch.
First(is, w) ==
    {i \in OfWatches(is, {w}) : \A j \in OfWatches(is, {w}) : i <= j}

\* The command Remove: unsubscribe, or declare the others; the last one out
\* ends the session, and with it the task.
TakeRemove(c) ==
    /\ conn[c].phase = "live" /\ conn[c].cmds # << >>
    /\ Head(conn[c].cmds).op = "remove"
    /\ LET w    == Head(conn[c].cmds).watch
           gone == First(conn[c].members, w)
           left == conn[c].members \ gone
           told == Tell(Show(inst, gone, "stopped"), gone, "gone") IN
       IF left = {} THEN End(c, told)
       ELSE /\ conn' = [conn EXCEPT ![c].cmds = Tail(@), ![c].members = left,
                   ![c].timer = @ \/ (mode.replaces /\ gone # {}),
                   ![c].asked = IF gone # {} /\ ~mode.replaces THEN @ \ {w} ELSE @]
            /\ inst' = told
            /\ UNCHANGED <<mode, starts, handle>>
    /\ UNCHANGED <<faults, marred>>

\* REDECLARE_COALESCE is over: the union of what the members want.
Redeclare(c, no) ==
    /\ conn[c].phase = "live" /\ conn[c].timer
    /\ MayRefuseLive(WatchesOf(conn[c].members), no)
    /\ conn' = [conn EXCEPT ![c] =
           Ask([conn[c] EXCEPT !.timer = FALSE, !.asked = {}],
               WatchesOf(conn[c].members), no)]
    /\ faults' = [faults EXCEPT !.refusals = @ + Cardinality(no)]
    /\ UNCHANGED <<mode, inst, starts, handle, marred>>

\* Every member that still waits is judged by the ack that was read.
ReadAck(c) ==
    /\ conn[c].phase = "live" /\ conn[c].wire # << >>
    /\ LET all     == conn[c].members
           waiting == Pending(all)
           no      == OfWatches(waiting, Head(conn[c].wire))
           left    == all \ OfWatches(all, WatchesOf(no))
           told    == Tell(Show(inst, no, "failed"), no, "err")
           f       == Tell(Show(told, waiting \ no, "live"), waiting \ no, "ok") IN
       IF left = {} THEN End(c, f)
       ELSE /\ conn' = [conn EXCEPT ![c].members = left, ![c].wire = Tail(@)]
            /\ inst' = Tell(f, all \ left, "gone")
            /\ UNCHANGED <<mode, starts, handle>>
    /\ UNCHANGED <<faults, marred>>

TaskStep(c) ==
    \/ Cancelled(c) \/ Idle(c) \/ Connect(c) \/ Retry(c)
    \/ \E no \in SUBSET conn[c].members : Subscribe(c, no)
    \/ \E no \in SUBSET Watch : TakeAdd(c, no) \/ Redeclare(c, no)
    \/ TakeRemove(c) \/ ReadAck(c)

Trouble(c) ==
    \/ Lost(c) \/ LoginRejected(c) \/ LoginGivenUp(c)
    \/ \E k \in conn[c].members, no \in SUBSET conn[c].members : CutOff(c, k, no)

-----------------------------------------------------------------------------
(***************************************************************************)
(* start() hands its instance over: to the shared task, to a new one, or   *)
(* to none because the entry is that of a task that is over.               *)
(***************************************************************************)
NewInstance(w) == [watch |-> w, status |-> "connecting", verdict |-> "none",
                   rejects |-> 0]

Spawned(i) ==
    IF mode.share
    THEN [NoTask EXCEPT !.phase = "top", !.cmds = <<[op |-> "add", member |-> i]>>]
    ELSE [NoTask EXCEPT !.phase = "top", !.members = {i}]

Bug_JoinAlone(w, i) ==
    /\ inst' = [inst EXCEPT ![i] = NewInstance(w)]
    /\ starts' = i
    /\ conn' = [conn EXCEPT ![i] = Spawned(i)]
    /\ handle' = IF mode.share THEN i ELSE 0
    /\ UNCHANGED <<mode, faults>>

Join(w, i) ==
    /\ inst' = [inst EXCEPT ![i] = NewInstance(w)]
    /\ starts' = i
    /\ IF mode.share /\ handle # 0
       THEN /\ conn' = [conn EXCEPT ![handle].cmds =
                            Append(@, [op |-> "add", member |-> i])]
            /\ UNCHANGED handle
       ELSE /\ conn' = [conn EXCEPT ![i] = Spawned(i)]
            /\ handle' = IF mode.share THEN i ELSE 0
    /\ UNCHANGED <<mode, faults>>

\* Where a command cannot be sent the entry is removed.
HandleDead == handle # 0 /\ ~Running(handle)

\* stop() on a shared connection.
Leave(w) ==
    IF HandleDead
    THEN handle' = 0 /\ UNCHANGED conn
    ELSE /\ conn' = IF handle = 0 THEN conn
                    ELSE [conn EXCEPT ![handle].cmds =
                             Append(@, [op |-> "remove", watch |-> w])]
         /\ UNCHANGED handle

ConnectionInit ==
    /\ mode \in Modes
    /\ inst = [i \in Inst |-> Unborn]
    /\ starts = 0
    /\ conn = [i \in Inst |-> NoTask]
    /\ handle = 0
    /\ faults = [drops |-> 0, refusals |-> 0]
    /\ marred = {}

\* The process dies; the venue sees its sockets close.
CrashConnections ==
    /\ inst' = [i \in Inst |-> Unborn]
    /\ conn' = [i \in Inst |-> NoTask]
    /\ handle' = 0
    /\ marred' = {}
    /\ UNCHANGED <<mode, starts, faults>>
=============================================================================
