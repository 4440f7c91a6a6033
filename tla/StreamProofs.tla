----------------------------- MODULE StreamProofs -----------------------------
(***************************************************************************)
(* Proofs about StreamConnection and StreamWatches, for any watches,       *)
(* callers, venues and bounds: the types, one socket for a shared          *)
(* connection, no start that is forgotten, and the list in the vault.      *)
(***************************************************************************)
EXTENDS StreamWatches, FiniteSetTheorems, TLAPS

Add(i) == [op |-> "add", member |-> i]

\* The instances that a queue will add.
Adds(q) == {i \in Inst : \E k \in DOMAIN q : q[k] = Add(i)}

\* What a task answers for.
Held(c) == conn[c].members \cup Adds(conn[c].cmds)

\* Whatever a task holds has a watch.
Born == \A c \in Inst : \A i \in Held(c) : inst[i].watch \in Watch

Types == TypeOK /\ Born

-----------------------------------------------------------------------------
LEMMA QueuedAdds == \A c \in Inst : Queued(c) = Adds(conn[c].cmds)
BY DEF Queued, Adds, Add

LEMMA AddCommand ==
    ASSUME NEW cmd \in Command, cmd.op = "add"
    PROVE  cmd.member \in Inst /\ cmd = Add(cmd.member)
BY DEF Command, Add

LEMMA RemoveCommand ==
    ASSUME NEW cmd \in Command, cmd.op = "remove"
    PROVE  cmd.watch \in Watch /\ \A i : cmd # Add(i)
BY DEF Command, Add

LEMMA AddIsCommand == \A i \in Inst : Add(i) \in Command
BY DEF Command, Add

LEMMA AddsOfNone == Adds(<< >>) = {}
BY DEF Adds

LEMMA AddsOfTail ==
    ASSUME NEW q \in Seq(Command), q # << >>
    PROVE  /\ Head(q) \in Command /\ Tail(q) \in Seq(Command)
           /\ \A i \in Inst : i \in Adds(q) <=> Head(q) = Add(i) \/ i \in Adds(Tail(q))
<1>1. /\ Head(q) \in Command /\ Tail(q) \in Seq(Command)
      /\ Len(q) \in Nat /\ Len(q) >= 1 /\ Len(Tail(q)) = Len(q) - 1
      /\ Head(q) = q[1] /\ \A k \in 1..Len(Tail(q)) : Tail(q)[k] = q[k + 1]
  OBVIOUS
<1>2. DOMAIN q = 1..Len(q) /\ DOMAIN Tail(q) = 1..Len(Tail(q))
  BY <1>1
<1>3. ASSUME NEW i \in Inst, i \in Adds(q)
      PROVE  Head(q) = Add(i) \/ i \in Adds(Tail(q))
  <2>1. PICK k \in 1..Len(q) : q[k] = Add(i) BY <1>2, <1>3 DEF Adds
  <2>2. CASE k = 1 BY <1>1, <2>1, <2>2
  <2>3. CASE k # 1
    <3>1. k - 1 \in 1..Len(Tail(q)) BY <1>1, <2>3
    <3>2. Tail(q)[k - 1] = q[k] BY <1>1, <3>1
    <3> QED BY <1>2, <2>1, <3>1, <3>2 DEF Adds
  <2> QED BY <2>2, <2>3
<1>4. ASSUME NEW i \in Inst, Head(q) = Add(i) \/ i \in Adds(Tail(q))
      PROVE  i \in Adds(q)
  <2>1. CASE Head(q) = Add(i) BY <1>1, <1>2, <2>1 DEF Adds
  <2>2. CASE i \in Adds(Tail(q))
    <3>1. PICK k \in 1..Len(Tail(q)) : Tail(q)[k] = Add(i) BY <1>2, <2>2 DEF Adds
    <3>2. k + 1 \in 1..Len(q) /\ q[k + 1] = Add(i) BY <1>1, <3>1
    <3> QED BY <1>2, <3>2 DEF Adds
  <2> QED BY <1>4, <2>1, <2>2
<1> QED BY <1>1, <1>3, <1>4

LEMMA AddsOfAppend ==
    ASSUME NEW q \in Seq(Command), NEW x \in Command
    PROVE  /\ Append(q, x) \in Seq(Command)
           /\ \A i \in Inst : i \in Adds(Append(q, x)) <=> i \in Adds(q) \/ x = Add(i)
<1>1. /\ Append(q, x) \in Seq(Command) /\ Len(q) \in Nat
      /\ DOMAIN q = 1..Len(q) /\ DOMAIN Append(q, x) = 1..(Len(q) + 1)
      /\ Append(q, x)[Len(q) + 1] = x
      /\ \A k \in 1..Len(q) : Append(q, x)[k] = q[k]
  OBVIOUS
<1>2. \A k \in 1..(Len(q) + 1) : k \in 1..Len(q) \/ k = Len(q) + 1
  BY <1>1
<1>3. \A k \in 1..Len(q) : k \in 1..(Len(q) + 1) BY <1>1
<1>4. Len(q) + 1 \in 1..(Len(q) + 1) BY <1>1
<1>5. ASSUME NEW i \in Inst, i \in Adds(Append(q, x)) PROVE i \in Adds(q) \/ x = Add(i)
  BY <1>1, <1>2, <1>5 DEF Adds
<1>6. ASSUME NEW i \in Inst, i \in Adds(q) \/ x = Add(i) PROVE i \in Adds(Append(q, x))
  BY <1>1, <1>3, <1>4, <1>6 DEF Adds
<1> QED BY <1>1, <1>5, <1>6

-----------------------------------------------------------------------------
(* What happens to the instances. *)

\* f is what a task makes of them: no watch changes, no answer is taken back.
Kin(f) ==
    /\ f \in [Inst -> Instance]
    /\ \A i \in Inst : /\ f[i].watch = inst[i].watch
                       /\ f[i].verdict = "none" => inst[i].verdict = "none"

LEMMA ShowKin ==
    ASSUME NEW f, Kin(f), NEW is, NEW s \in Status
    PROVE  /\ Kin(Show(f, is, s))
           /\ \A i \in Inst : Show(f, is, s)[i].verdict = f[i].verdict
<1>1. \A i \in Inst : /\ [f[i] EXCEPT !.status = s] \in Instance
                      /\ [f[i] EXCEPT !.status = s].watch = f[i].watch
                      /\ [f[i] EXCEPT !.status = s].verdict = f[i].verdict
  BY DEF Kin, Instance
<1>2. \A i \in Inst : Show(f, is, s)[i] \in {f[i], [f[i] EXCEPT !.status = s]}
  BY DEF Show
<1>3. Show(f, is, s) \in [Inst -> Instance] BY <1>1 DEF Show, Kin
<1>4. \A i \in Inst : /\ Show(f, is, s)[i].watch = f[i].watch
                      /\ Show(f, is, s)[i].verdict = f[i].verdict
  BY <1>1, <1>2
<1> QED BY <1>3, <1>4 DEF Kin

LEMMA TellKin ==
    ASSUME NEW f, Kin(f), NEW is, NEW v \in Verdict, v # "none"
    PROVE  /\ Kin(Tell(f, is, v))
           /\ \A i \in is \cap Inst : Tell(f, is, v)[i].verdict # "none"
           /\ \A i \in Inst : Tell(f, is, v)[i].verdict = "none"
                                => f[i].verdict = "none"
<1>1. \A i \in Inst : /\ [f[i] EXCEPT !.verdict = v] \in Instance
                      /\ [f[i] EXCEPT !.verdict = v].watch = f[i].watch
                      /\ [f[i] EXCEPT !.verdict = v].verdict = v
  BY DEF Kin, Instance
<1>2. \A i \in Inst : Tell(f, is, v)[i] =
          IF i \in is /\ f[i].verdict = "none" THEN [f[i] EXCEPT !.verdict = v]
          ELSE f[i]
  BY DEF Tell
<1>3. Tell(f, is, v) \in [Inst -> Instance] BY <1>1 DEF Tell, Kin
<1> QED BY <1>1, <1>2, <1>3 DEF Kin

LEMMA RefusedType ==
    ASSUME TypeOK, NEW i \in Inst
    PROVE  /\ Refused(i) \in Instance /\ Refused(i).watch = inst[i].watch
           /\ Refused(i).verdict # "none"
<1>1. inst[i] \in Instance BY DEF TypeOK
<1> DEFINE v == IF inst[i].verdict = "none" THEN "err" ELSE inst[i].verdict
           s == IF GivesUp(i) THEN "failed" ELSE inst[i].status
<1>2. v \in Verdict /\ v # "none" /\ s \in Status
  BY <1>1 DEF Instance, Verdict, Status
<1>3. Refused(i) = [inst[i] EXCEPT !.rejects = inst[i].rejects + 1,
                                   !.verdict = v, !.status = s]
  BY DEF Refused
<1> HIDE DEF v, s
<1>4. Refused(i) = [watch |-> inst[i].watch, status |-> s, verdict |-> v,
                    rejects |-> inst[i].rejects + 1]
  BY <1>1, <1>3 DEF Instance
<1>5. inst[i].watch \in Watch \cup {NoWatch} /\ inst[i].rejects + 1 \in Nat
  BY <1>1 DEF Instance
<1> QED BY <1>2, <1>4, <1>5 DEF Instance

LEMMA AnsweredKin ==
    ASSUME TypeOK, NEW is, NEW no
    PROVE  Kin(Answered(is, no))
<1>1. \A i \in Inst : /\ [inst[i] EXCEPT !.rejects = 0] \in Instance
                      /\ [inst[i] EXCEPT !.rejects = 0].watch = inst[i].watch
                      /\ [inst[i] EXCEPT !.rejects = 0].verdict = inst[i].verdict
  BY DEF TypeOK, Instance
<1>2. \A i \in Inst : /\ Refused(i) \in Instance /\ Refused(i).watch = inst[i].watch
                      /\ Refused(i).verdict # "none" /\ inst[i] \in Instance
  BY RefusedType DEF TypeOK
<1>3. Answered(is, no) \in [Inst -> Instance]
  BY <1>1, <1>2 DEF Answered
<1>4. ASSUME NEW i \in Inst
      PROVE  /\ Answered(is, no)[i].watch = inst[i].watch
             /\ Answered(is, no)[i].verdict = "none" => inst[i].verdict = "none"
  <2>1. CASE i \in no
    <3>1. Answered(is, no)[i] = Refused(i) BY <2>1 DEF Answered
    <3> QED BY <1>2, <3>1
  <2>2. CASE i \notin no /\ i \in is /\ mode.acks
    <3>1. Answered(is, no)[i] = [inst[i] EXCEPT !.rejects = 0] BY <2>2 DEF Answered
    <3> QED BY <1>1, <3>1
  <2>3. CASE i \notin no /\ ~(i \in is /\ mode.acks)
    BY <2>3 DEF Answered
  <2> QED BY <2>1, <2>2, <2>3
<1> QED BY <1>3, <1>4 DEF Kin

LEMMA SameKin == TypeOK => Kin(inst)
BY DEF TypeOK, Kin

-----------------------------------------------------------------------------
(***************************************************************************)
(* A turn of a task: it moves alone, takes on nothing new, and whoever     *)
(* waits for it is answered or is still waited for with something to do.   *)
(***************************************************************************)
Waiting(i, c) ==
    /\ Running(c) /\ i \in Held(c)
    /\ conn[c].phase = "live" /\ i \in conn[c].members
          => conn[c].timer \/ conn[c].wire # << >>

Turn(c) ==
    /\ Running(c)
    /\ UNCHANGED <<mode, starts, handle>>
    /\ Kin(inst')
    /\ conn' \in [Inst -> Task]
    /\ \A d \in Inst \ {c} : conn'[d] = conn[d]
    /\ Held(c)' \subseteq Held(c)
    /\ mode.acks => \A i \in Inst :
           inst'[i].verdict = "none" /\ Waiting(i, c) => Waiting(i, c)'
    /\ faults' \in [drops : Nat, refusals : Nat]
    /\ marred' \subseteq Watch

LEMMA ConnMoved ==
    ASSUME TypeOK, NEW c \in Inst, NEW t \in Task, conn' = [conn EXCEPT ![c] = t]
    PROVE  /\ conn' \in [Inst -> Task] /\ conn'[c] = t
           /\ \A d \in Inst \ {c} : conn'[d] = conn[d]
BY DEF TypeOK

LEMMA NoTaskType ==
    /\ NoTask \in Task
    /\ NoTask.phase = "none" /\ NoTask.members = {} /\ NoTask.cmds = << >>
    /\ ~NoTask.timer /\ ~NoTask.cancel /\ NoTask.logins = 0
    /\ NoTask.wire = << >> /\ NoTask.asked = {} /\ NoTask.refused = {}
<1>1. 0 \in 0..(MaxRejects - 1) BY ConnectionAssumption
<1>2. << >> \in Seq(Command) /\ << >> \in Seq(SUBSET Watch) OBVIOUS
<1> QED BY <1>1, <1>2 DEF NoTask, Task, Phase

LEMMA TaskFields ==
    ASSUME TypeOK, NEW c \in Inst
    PROVE  /\ conn[c] \in Task /\ conn[c].phase \in Phase
           /\ conn[c].members \subseteq Inst /\ conn[c].cmds \in Seq(Command)
           /\ conn[c].logins \in 0..(MaxRejects - 1)
           /\ conn[c].cancel \in BOOLEAN /\ conn[c].timer \in BOOLEAN
           /\ conn[c].asked \subseteq Watch /\ conn[c].refused \subseteq Watch
           /\ conn[c].wire \in Seq(SUBSET Watch)
           /\ Held(c) \subseteq Inst /\ Adds(conn[c].cmds) \subseteq Inst
BY DEF TypeOK, Task, Held, Adds

\* The watches of what a task holds.
LEMMA HeldWatches ==
    ASSUME Types, NEW c \in Inst, NEW is, is \subseteq Held(c)
    PROVE  WatchesOf(is) \subseteq Watch
BY TaskFields DEF Types, Born, WatchesOf

LEMMA Ended ==
    ASSUME Types, NEW c \in Inst, NEW f, Running(c), Kin(f), End(c, f),
           faults' \in [drops : Nat, refusals : Nat], marred' \subseteq Watch
    PROVE  Turn(c)
<1> DEFINE t == [NoTask EXCEPT !.phase = "ended"]
<1>1. /\ t \in Task /\ t.phase = "ended" /\ t.members = {} /\ t.cmds = << >>
  BY NoTaskType DEF Task, Phase
<1>2. conn' = [conn EXCEPT ![c] = t] BY DEF End
<1> HIDE DEF t
<1>3. /\ conn' \in [Inst -> Task] /\ conn'[c] = t
      /\ \A d \in Inst \ {c} : conn'[d] = conn[d]
  BY <1>1, <1>2, ConnMoved DEF Types
<1>4. Held(c)' = {} BY <1>1, <1>3, AddsOfNone DEF Held
<1>5. inst' = Tell(f, Held(c), "gone") BY QueuedAdds DEF End, Held
<1>6. Kin(inst') /\ \A i \in Held(c) \cap Inst : inst'[i].verdict # "none"
  BY <1>5, TellKin DEF Verdict
<1> QED BY <1>3, <1>4, <1>6, TaskFields DEF Turn, Waiting, End, Types

\* The task goes on as t, and what it no longer holds has been answered.
LEMMA GoesOn ==
    ASSUME Types, NEW c \in Inst, NEW t \in Task, Running(c), Kin(inst'),
           conn' = [conn EXCEPT ![c] = t],
           UNCHANGED <<mode, starts, handle>>,
           t.phase \in {"top", "handshake", "live", "backoff"},
           t.members \cup Adds(t.cmds) \subseteq Held(c),
           \A i \in Held(c) : i \in t.members \cup Adds(t.cmds)
                              \/ inst'[i].verdict # "none",
           mode.acks /\ t.phase = "live" => \A i \in t.members :
              \/ t.timer \/ t.wire # << >> \/ inst'[i].verdict # "none"
              \/ ~Waiting(i, c),
           faults' \in [drops : Nat, refusals : Nat], marred' \subseteq Watch
    PROVE  Turn(c)
<1>1. /\ conn' \in [Inst -> Task] /\ conn'[c] = t
      /\ \A d \in Inst \ {c} : conn'[d] = conn[d]
  BY ConnMoved DEF Types
<1>2. Running(c)' BY <1>1 DEF Running
<1>3. Held(c)' = t.members \cup Adds(t.cmds) BY <1>1 DEF Held, Adds, Inst
<1> QED BY <1>1, <1>2, <1>3 DEF Turn, Waiting

LEMMA Known ==
    ASSUME Types
    PROVE  Kin(inst) /\ faults \in [drops : Nat, refusals : Nat] /\ marred \subseteq Watch
BY SameKin DEF Types, TypeOK

LEMMA CancelledTurn ==
    ASSUME Types, NEW c \in Inst, Cancelled(c)
    PROVE  Turn(c)
<1>1. Running(c) BY DEF Cancelled, Running
<1>2. Kin(Show(inst, conn[c].members, "stopped")) BY Known, ShowKin DEF Status
<1> QED BY <1>1, <1>2, Known, Ended DEF Cancelled

LEMMA IdleTurn ==
    ASSUME Types, NEW c \in Inst, Idle(c)
    PROVE  Turn(c)
<1> DEFINE cmd == Head(conn[c].cmds)
           ms == IF cmd.op = "add" THEN {cmd.member} ELSE {}
           t == [conn[c] EXCEPT !.cmds = Tail(conn[c].cmds), !.members = ms]
<1>0. conn[c] \in Task /\ conn[c].cmds \in Seq(Command) /\ conn[c].cmds # << >>
      /\ conn[c].phase = "top" /\ conn[c].members = {} /\ Running(c)
  BY TaskFields DEF Idle, Types, Running
<1>1. /\ cmd \in Command /\ Tail(conn[c].cmds) \in Seq(Command)
      /\ \A i \in Inst : i \in Adds(conn[c].cmds)
                        <=> cmd = Add(i) \/ i \in Adds(Tail(conn[c].cmds))
  BY <1>0, AddsOfTail
<1>2. cmd.op \in {"add", "remove"} BY <1>1 DEF Command
<1>3. ms \subseteq Inst /\ \A i \in Inst : i \in ms <=> cmd = Add(i)
  BY <1>1, <1>2, AddCommand, RemoveCommand DEF Add
<1>4. conn' = [conn EXCEPT ![c] = t] BY DEF Idle
<1> HIDE DEF ms, cmd
<1>5. /\ t \in Task /\ t.cmds = Tail(conn[c].cmds) /\ t.members = ms
      /\ t.phase = "top"
  BY <1>0, <1>1, <1>3 DEF Task
<1> HIDE DEF t
<1>6. Held(c) = t.members \cup Adds(t.cmds)
  BY <1>0, <1>1, <1>3, <1>5 DEF Held, Adds
<1>7. UNCHANGED <<inst, mode, starts, handle, faults, marred>> BY DEF Idle
<1> QED BY <1>0, <1>4, <1>5, <1>6, <1>7, Known, GoesOn

LEMMA ConnectTurn ==
    ASSUME Types, NEW c \in Inst, Connect(c)
    PROVE  Turn(c)
<1> DEFINE t == [conn[c] EXCEPT !.phase = "handshake"]
<1>0. conn[c] \in Task /\ Running(c) BY TaskFields DEF Connect, Types, Running
<1>1. conn' = [conn EXCEPT ![c] = t] BY DEF Connect
<1>2. /\ t \in Task /\ t.cmds = conn[c].cmds /\ t.members = conn[c].members
      /\ t.phase = "handshake"
  BY <1>0 DEF Task, Phase
<1> HIDE DEF t
<1>3. Kin(inst') BY Known, ShowKin DEF Connect, Status
<1>4. UNCHANGED <<mode, starts, handle, faults, marred>> BY DEF Connect
<1> QED BY <1>0, <1>1, <1>2, <1>3, <1>4, Known, GoesOn DEF Held

LEMMA RetryTurn ==
    ASSUME Types, NEW c \in Inst, Retry(c)
    PROVE  Turn(c)
<1> DEFINE t == [conn[c] EXCEPT !.phase = "top"]
<1>0. conn[c] \in Task /\ Running(c) BY TaskFields DEF Retry, Types, Running
<1>1. conn' = [conn EXCEPT ![c] = t] BY DEF Retry
<1>2. /\ t \in Task /\ t.cmds = conn[c].cmds /\ t.members = conn[c].members
      /\ t.phase = "top"
  BY <1>0 DEF Task, Phase
<1> HIDE DEF t
<1>4. UNCHANGED <<inst, mode, starts, handle, faults, marred>> BY DEF Retry
<1> QED BY <1>0, <1>1, <1>2, <1>4, Known, GoesOn DEF Held

\* A socket that is lost costs no member and no command.
LEMMA DroppedTurn ==
    ASSUME Types, NEW c \in Inst, NEW f, NEW n \in 0..(MaxRejects - 1),
           Running(c), Kin(f), Dropped(c, f, n),
           faults' \in [drops : Nat, refusals : Nat], marred' \subseteq Watch
    PROVE  Turn(c)
<1> DEFINE t == [NoTask EXCEPT !.phase = "backoff", !.logins = n,
                    !.members = conn[c].members, !.cmds = conn[c].cmds,
                    !.cancel = conn[c].cancel]
<1>1. conn' = [conn EXCEPT ![c] = t] BY DEF Dropped
<1>2. /\ t \in Task /\ t.cmds = conn[c].cmds /\ t.members = conn[c].members
      /\ t.phase = "backoff"
  BY NoTaskType, TaskFields DEF Task, Phase, Types
<1> HIDE DEF t
<1>3. Kin(inst') BY ShowKin DEF Dropped, Status
<1>4. UNCHANGED <<mode, starts, handle>> BY DEF Dropped
<1> QED BY <1>1, <1>2, <1>3, <1>4, GoesOn DEF Held

LEMMA FaultType ==
    ASSUME Types, NEW no, no \in SUBSET Inst, Fault(no)
    PROVE  faults' \in [drops : Nat, refusals : Nat]
<1>1. Cardinality(no) \in Nat
  <2>1. IsFiniteSet(Inst) BY ConnectionAssumption, FS_Interval DEF Inst
  <2> QED BY <2>1, FS_Subset, FS_CardinalityType
<1>2. faults.drops \in Nat /\ faults.refusals \in Nat BY Known
<1> QED BY <1>1, <1>2 DEF Fault

LEMMA LostTurn ==
    ASSUME Types, NEW c \in Inst, Lost(c)
    PROVE  Turn(c)
<1>1. Running(c) BY DEF Lost, Running
<1>2. faults' \in [drops : Nat, refusals : Nat] BY FaultType DEF Lost
<1>3. 0 \in 0..(MaxRejects - 1) BY ConnectionAssumption
<1> QED BY <1>1, <1>2, <1>3, Known, DroppedTurn DEF Lost

LEMMA LoginTurn ==
    ASSUME Types, NEW c \in Inst, LoginRejected(c) \/ LoginGivenUp(c)
    PROVE  Turn(c)
<1>1. Running(c) BY DEF LoginRejected, LoginGivenUp, Running
<1>2. CASE LoginRejected(c)
  <2>1. conn[c].logins + 1 \in 0..(MaxRejects - 1)
    BY <1>2, TaskFields, ConnectionAssumption DEF LoginRejected, Types
  <2> QED BY <1>1, <1>2, <2>1, Known, DroppedTurn DEF LoginRejected
<1>3. CASE LoginGivenUp(c)
  <2>1. Kin(Tell(Show(inst, conn[c].members, "failed"), conn[c].members, "err"))
    BY Known, ShowKin, TellKin DEF Status, Verdict
  <2> QED BY <1>1, <1>3, <2>1, Known, Ended DEF LoginGivenUp
<1> QED BY <1>2, <1>3

LEMMA CutOffTurn ==
    ASSUME Types, NEW c \in Inst, NEW k \in conn[c].members,
           NEW no \in SUBSET conn[c].members, CutOff(c, k, no)
    PROVE  Turn(c)
<1> DEFINE asked == {i \in conn[c].members : i <= k}
<1>1. Running(c) BY DEF CutOff, Running
<1>2. no \subseteq Inst /\ no \subseteq Held(c) BY TaskFields DEF Types, Held
<1>3. faults' \in [drops : Nat, refusals : Nat] BY <1>2, FaultType DEF CutOff
<1>4. GivenUp(no) \subseteq Watch BY <1>2, HeldWatches DEF GivenUp
<1>5. Kin(Answered(asked, no)) BY AnsweredKin DEF Types
<1>6. 0 \in 0..(MaxRejects - 1) BY ConnectionAssumption
<1> QED BY <1>1, <1>3, <1>4, <1>5, <1>6, Known, DroppedTurn DEF CutOff

\* Refusals are counted among instances or among watches.
LEMMA RefusalsType ==
    ASSUME Types, NEW n \in Nat, faults' = [faults EXCEPT !.refusals = @ + n]
    PROVE  faults' \in [drops : Nat, refusals : Nat]
BY Known

LEMMA SubscribeTurn ==
    ASSUME Types, NEW c \in Inst, NEW no \in SUBSET conn[c].members, Subscribe(c, no)
    PROVE  Turn(c)
<1> DEFINE all == conn[c].members
           left == all \ OfWatches(all, GivenUp(no))
           t == [conn[c] EXCEPT !.phase = "live", !.members = left,
                    !.asked = WatchesOf(all), !.refused = WatchesOf(no)]
<1>0. /\ Running(c) /\ all \subseteq Inst /\ conn[c] \in Task
      /\ all \subseteq Held(c) /\ no \subseteq all /\ left \subseteq all
  BY TaskFields DEF Subscribe, Running, Types, Held
<1>1. faults' \in [drops : Nat, refusals : Nat] /\ marred' = marred
  <2>1. IsFiniteSet(Inst) BY ConnectionAssumption, FS_Interval DEF Inst
  <2>2. Cardinality(no) \in Nat BY <1>0, <2>1, FS_Subset, FS_CardinalityType
  <2> QED BY <2>2, RefusalsType DEF Subscribe
<1>2. Kin(Answered(all, no)) BY AnsweredKin DEF Types
<1>3. CASE left = {}
  <2>1. End(c, Answered(all, no)) BY <1>3 DEF Subscribe
  <2> QED BY <1>0, <1>1, <1>2, <2>1, Known, Ended
<1>4. CASE left # {}
  <2>1. /\ conn' = [conn EXCEPT ![c] = t]
        /\ inst' = Tell(Tell(Show(Answered(all, no), left, "live"), left, "ok"),
                        all, "gone")
        /\ UNCHANGED <<mode, starts, handle>>
    BY <1>4 DEF Subscribe
  <2>2. WatchesOf(all) \subseteq Watch /\ WatchesOf(no) \subseteq Watch
    BY <1>0, HeldWatches
  <2> HIDE DEF all, left
  <2>3. /\ t \in Task /\ t.cmds = conn[c].cmds /\ t.members = left
        /\ t.phase = "live"
    BY <1>0, <2>2 DEF Task, Phase
  <2> HIDE DEF t
  <2>4. Kin(Show(Answered(all, no), left, "live")) BY <1>2, ShowKin DEF Status
  <2>5. Kin(Tell(Show(Answered(all, no), left, "live"), left, "ok"))
    BY <2>4, TellKin DEF Verdict
  <2>6. Kin(inst') /\ \A i \in all \cap Inst : inst'[i].verdict # "none"
    BY <2>1, <2>5, TellKin DEF Verdict
  <2>7. Held(c) = all \cup Adds(t.cmds) BY <2>3 DEF Held, all
  <2> QED BY <1>0, <1>1, <2>1, <2>3, <2>6, <2>7, Known, GoesOn
<1> QED BY <1>3, <1>4

LEMMA AskType ==
    ASSUME NEW t \in Task, NEW ws \in SUBSET Watch, NEW no \in SUBSET ws
    PROVE  /\ Ask(t, ws, no) \in Task
           /\ Ask(t, ws, no).cmds = t.cmds /\ Ask(t, ws, no).members = t.members
           /\ Ask(t, ws, no).phase = t.phase /\ Ask(t, ws, no).timer = t.timer
           /\ mode.acks => Ask(t, ws, no).wire # << >>
<1> DEFINE w == IF mode.acks THEN Append(t.wire, Ack(no)) ELSE t.wire
           a == t.asked \cup ws
           r == (t.refused \ ws) \cup no
<1>1. t.wire \in Seq(SUBSET Watch) /\ t.asked \subseteq Watch /\ t.refused \subseteq Watch
  BY DEF Task
<1>2. Ack(no) \in SUBSET Watch BY DEF Ack
<1>3. Append(t.wire, Ack(no)) \in Seq(SUBSET Watch) /\ Append(t.wire, Ack(no)) # << >>
  BY <1>1, <1>2
<1>4. w \in Seq(SUBSET Watch) /\ (mode.acks => w # << >>) BY <1>1, <1>3
<1>5. a \subseteq Watch /\ r \subseteq Watch BY <1>1
<1>6. Ask(t, ws, no) = [t EXCEPT !.asked = a, !.refused = r, !.wire = w] BY DEF Ask
<1> HIDE DEF w, a, r
<1>7. [t EXCEPT !.asked = a, !.refused = r, !.wire = w] \in Task
  BY <1>4, <1>5 DEF Task
<1>8. LET x == [t EXCEPT !.asked = a, !.refused = r, !.wire = w] IN
      /\ x.cmds = t.cmds /\ x.members = t.members /\ x.phase = t.phase
      /\ x.timer = t.timer /\ x.wire = w
  BY DEF Task
<1> QED BY <1>4, <1>6, <1>7, <1>8

LEMMA TakeAddTurn ==
    ASSUME Types, NEW c \in Inst, NEW no \in SUBSET Watch, TakeAdd(c, no)
    PROVE  Turn(c)
<1> DEFINE i == Head(conn[c].cmds).member
           ms == conn[c].members \cup {i}
           u == [conn[c] EXCEPT !.cmds = Tail(conn[c].cmds), !.members = ms]
           t == Added(c, i, no)
<1>0. /\ Running(c) /\ conn[c].members \subseteq Inst /\ conn[c] \in Task
      /\ conn[c].cmds \in Seq(Command) /\ conn[c].cmds # << >>
      /\ conn[c].phase = "live" /\ Head(conn[c].cmds).op = "add"
      /\ no \subseteq {inst[i].watch}
  <2>1. conn[c] \in Task /\ conn[c].members \subseteq Inst
        /\ conn[c].cmds \in Seq(Command)
    BY TaskFields DEF Types
  <2>2. conn[c].phase = "live" /\ conn[c].cmds # << >> /\ Head(conn[c].cmds).op = "add"
    BY DEF TakeAdd
  <2>3. MayRefuseLive({inst[i].watch}, no) BY DEF TakeAdd
  <2>4. no \subseteq {inst[i].watch} BY <2>3 DEF MayRefuseLive
  <2> QED BY <2>1, <2>2, <2>4 DEF Running
<1>1. /\ Head(conn[c].cmds) \in Command /\ Tail(conn[c].cmds) \in Seq(Command)
      /\ \A j \in Inst : j \in Adds(conn[c].cmds)
            <=> Head(conn[c].cmds) = Add(j) \/ j \in Adds(Tail(conn[c].cmds))
  BY <1>0, AddsOfTail
<1>2. i \in Inst /\ Head(conn[c].cmds) = Add(i) BY <1>0, <1>1, AddCommand
<1>3. \A j \in Inst : Add(j) = Add(i) <=> j = i BY DEF Add
<1>4. i \in Held(c) /\ inst[i].watch \in Watch
  BY <1>1, <1>2 DEF Held, Types, Born
<1>5. faults' \in [drops : Nat, refusals : Nat] /\ UNCHANGED <<mode, inst, starts, handle, marred>>
  <2>1. IsFiniteSet(no) BY <1>0, FS_Singleton, FS_Subset
  <2> QED BY <2>1, FS_CardinalityType, RefusalsType DEF TakeAdd
<1>6. conn' = [conn EXCEPT ![c] = t] BY DEF TakeAdd
<1> HIDE DEF i
<1>7. /\ u \in Task /\ u.cmds = Tail(conn[c].cmds) /\ u.members = ms
      /\ u.phase = "live"
  BY <1>0, <1>1, <1>2 DEF Task
<1>8. t = IF mode.replaces THEN [u EXCEPT !.timer = TRUE]
          ELSE Ask(u, {inst[i].watch}, no)
  BY DEF Added
<1> HIDE DEF u, t, ms
<1>9. /\ t \in Task /\ t.cmds = Tail(conn[c].cmds) /\ t.members = ms
      /\ t.phase = "live" /\ (mode.acks => t.timer \/ t.wire # << >>)
  <2>1. CASE mode.replaces
    <3>1. t = [u EXCEPT !.timer = TRUE] BY <1>8, <2>1
    <3> QED BY <1>7, <3>1 DEF Task
  <2>2. CASE ~mode.replaces
    <3>1. t = Ask(u, {inst[i].watch}, no) BY <1>8, <2>2
    <3>2. {inst[i].watch} \in SUBSET Watch /\ no \in SUBSET {inst[i].watch}
      BY <1>0, <1>4
    <3> QED BY <1>7, <3>1, <3>2, AskType
  <2> QED BY <2>1, <2>2
<1>10. Held(c) = t.members \cup Adds(t.cmds)
  BY <1>0, <1>1, <1>2, <1>3, <1>9 DEF Held, ms, Adds
<1> QED BY <1>0, <1>5, <1>6, <1>9, <1>10, Known, GoesOn

\* A set of instances has finitely many watches.
LEMMA FewWatches ==
    ASSUME NEW is, is \subseteq Inst
    PROVE  IsFiniteSet(WatchesOf(is))
<1> DEFINE f == [i \in is |-> inst[i].watch]
<1>1. IsFiniteSet(Inst) BY ConnectionAssumption, FS_Interval DEF Inst
<1>2. IsFiniteSet(is) BY <1>1, FS_Subset
<1>3. f \in Surjection(is, WatchesOf(is))
  <2>1. f \in [is -> WatchesOf(is)] BY DEF WatchesOf
  <2>2. \A w \in WatchesOf(is) : \E i \in is : f[i] = w BY DEF WatchesOf
  <2> QED BY <2>1, <2>2 DEF Surjection
<1> QED BY <1>2, <1>3, FS_Surjection

LEMMA RedeclareTurn ==
    ASSUME Types, NEW c \in Inst, NEW no \in SUBSET Watch, Redeclare(c, no)
    PROVE  Turn(c)
<1> DEFINE ws == WatchesOf(conn[c].members)
           u == [conn[c] EXCEPT !.timer = FALSE, !.asked = {}]
           t == Ask(u, ws, no)
<1>0. /\ Running(c) /\ conn[c].members \subseteq Inst /\ conn[c] \in Task
      /\ conn[c].phase = "live" /\ no \in SUBSET ws
      /\ conn[c].members \subseteq Held(c)
  BY TaskFields DEF Redeclare, Running, Types, MayRefuseLive, Held
<1>1. ws \in SUBSET Watch BY <1>0, HeldWatches
<1>2. faults' \in [drops : Nat, refusals : Nat] /\ UNCHANGED <<mode, inst, starts, handle, marred>>
  <2>4. IsFiniteSet(ws) BY <1>0, FewWatches
  <2>5. Cardinality(no) \in Nat BY <1>0, <2>4, FS_Subset, FS_CardinalityType
  <2> QED BY <2>5, RefusalsType DEF Redeclare
<1>3. conn' = [conn EXCEPT ![c] = t] BY DEF Redeclare
<1> HIDE DEF ws
<1>4. /\ u \in Task /\ u.cmds = conn[c].cmds /\ u.members = conn[c].members
      /\ u.phase = "live"
  BY <1>0 DEF Task
<1> HIDE DEF u
<1>5. /\ t \in Task /\ t.cmds = conn[c].cmds /\ t.members = conn[c].members
      /\ t.phase = "live" /\ (mode.acks => t.wire # << >>)
  BY <1>0, <1>1, <1>4, AskType
<1> HIDE DEF t
<1> QED BY <1>0, <1>2, <1>3, <1>5, Known, GoesOn DEF Held

\* What a task drops from its members is told so before it goes on.
LEMMA TakeRemoveTurn ==
    ASSUME Types, NEW c \in Inst, TakeRemove(c)
    PROVE  Turn(c)
<1> DEFINE w == Head(conn[c].cmds).watch
           gone == First(conn[c].members, w)
           left == conn[c].members \ gone
           told == Tell(Show(inst, gone, "stopped"), gone, "gone")
           timer == conn[c].timer \/ (mode.replaces /\ gone # {})
           asked == IF gone # {} /\ ~mode.replaces THEN conn[c].asked \ {w}
                    ELSE conn[c].asked
           t == [conn[c] EXCEPT !.cmds = Tail(conn[c].cmds), !.members = left,
                                !.timer = timer, !.asked = asked]
<1>1. /\ Running(c) /\ conn[c].members \subseteq Inst /\ conn[c] \in Task
      /\ conn[c].cmds \in Seq(Command) /\ conn[c].cmds # << >>
      /\ conn[c].phase = "live" /\ Head(conn[c].cmds).op = "remove"
  BY TaskFields DEF TakeRemove, Running, Types
<1>2. /\ Head(conn[c].cmds) \in Command /\ Tail(conn[c].cmds) \in Seq(Command)
      /\ \A j \in Inst : j \in Adds(conn[c].cmds)
            <=> Head(conn[c].cmds) = Add(j) \/ j \in Adds(Tail(conn[c].cmds))
  BY <1>1, AddsOfTail
<1>3. \A j \in Inst : Head(conn[c].cmds) # Add(j)
  BY <1>1, <1>2, RemoveCommand
<1>4. Adds(Tail(conn[c].cmds)) = Adds(conn[c].cmds) BY <1>2, <1>3 DEF Adds
<1>5. Kin(Show(inst, gone, "stopped")) BY Known, ShowKin DEF Status
<1>6. Kin(told) /\ \A i \in gone \cap Inst : told[i].verdict # "none"
  BY <1>5, TellKin DEF Verdict
<1>7. faults' = faults /\ marred' = marred BY DEF TakeRemove
<1>8. CASE left = {}
  <2>1. End(c, told) BY <1>8 DEF TakeRemove
  <2> QED BY <1>1, <1>6, <1>7, <2>1, Known, Ended
<1>9. CASE left # {}
  <2>1. /\ conn' = [conn EXCEPT ![c] = t] /\ inst' = told
        /\ UNCHANGED <<mode, starts, handle>>
    BY <1>9 DEF TakeRemove
  <2>2. timer \in BOOLEAN /\ (conn[c].timer => timer) /\ asked \subseteq Watch
        /\ left \subseteq conn[c].members /\ conn[c].members \ left \subseteq gone
    BY TaskFields DEF Types
  <2> HIDE DEF timer, asked, left, told, gone
  <2>3. /\ t \in Task /\ t.cmds = Tail(conn[c].cmds) /\ t.members = left
        /\ t.phase = "live" /\ t.timer = timer /\ t.wire = conn[c].wire
    BY <1>1, <1>2, <2>2 DEF Task
  <2> HIDE DEF t
  <2>4. t.members \cup Adds(t.cmds) \subseteq Held(c)
    BY <1>4, <2>2, <2>3 DEF Held
  <2>5. \A i \in Held(c) : i \in t.members \cup Adds(t.cmds)
                            \/ inst'[i].verdict # "none"
    BY <1>1, <1>4, <1>6, <2>1, <2>2, <2>3 DEF Held
  <2>6. \A i \in t.members : t.timer \/ t.wire # << >> \/ ~Waiting(i, c)
    BY <1>1, <2>2, <2>3 DEF Waiting
  <2> QED BY <1>1, <1>6, <1>7, <2>1, <2>3, <2>4, <2>5, <2>6, Known, GoesOn
<1> QED BY <1>8, <1>9

\* An ack judges whoever waits: nobody who waited has to any more.
LEMMA ReadAckTurn ==
    ASSUME Types, NEW c \in Inst, ReadAck(c)
    PROVE  Turn(c)
<1> DEFINE all == conn[c].members
           waiting == Pending(all)
           no == OfWatches(waiting, Head(conn[c].wire))
           left == all \ OfWatches(all, WatchesOf(no))
           told == Tell(Show(inst, no, "failed"), no, "err")
           g == Show(told, waiting \ no, "live")
           f == Tell(g, waiting \ no, "ok")
           t == [conn[c] EXCEPT !.members = left, !.wire = Tail(conn[c].wire)]
<1>1. /\ Running(c) /\ all \subseteq Inst /\ conn[c] \in Task
      /\ conn[c].phase = "live" /\ left \subseteq all
      /\ conn[c].wire \in Seq(SUBSET Watch) /\ conn[c].wire # << >>
  BY TaskFields DEF ReadAck, Running, Types
<1>2. Tail(conn[c].wire) \in Seq(SUBSET Watch) BY <1>1
<1>3. Kin(Show(inst, no, "failed")) BY Known, ShowKin DEF Status
<1>4. Kin(told) /\ \A i \in no \cap Inst : told[i].verdict # "none"
  BY <1>3, TellKin DEF Verdict
<1> HIDE DEF told
<1>5. Kin(g) /\ \A i \in Inst : g[i].verdict = told[i].verdict
  BY <1>4, ShowKin DEF Status
<1> HIDE DEF g
<1>6. /\ Kin(f) /\ \A i \in (waiting \ no) \cap Inst : f[i].verdict # "none"
      /\ \A i \in Inst : f[i].verdict = "none" => told[i].verdict = "none"
  <2>1. /\ Kin(f) /\ \A i \in (waiting \ no) \cap Inst : f[i].verdict # "none"
        /\ \A i \in Inst : f[i].verdict = "none" => g[i].verdict = "none"
    BY <1>5, TellKin DEF Verdict
  <2> QED BY <1>5, <2>1
<1>7. faults' = faults /\ marred' = marred BY DEF ReadAck
<1>8. CASE left = {}
  <2>1. End(c, f) BY <1>8 DEF ReadAck, told, g
  <2> QED BY <1>1, <1>6, <1>7, <2>1, Known, Ended
<1>9. CASE left # {}
  <2>1. /\ conn' = [conn EXCEPT ![c] = t] /\ inst' = Tell(f, all \ left, "gone")
        /\ UNCHANGED <<mode, starts, handle>>
    BY <1>9 DEF ReadAck, told, g
  <2> HIDE DEF f
  <2>2. /\ Kin(inst') /\ \A i \in (all \ left) \cap Inst : inst'[i].verdict # "none"
        /\ \A i \in Inst : inst'[i].verdict = "none" => f[i].verdict = "none"
    BY <1>6, <2>1, TellKin DEF Verdict
  <2>3. \A i \in all : inst'[i].verdict # "none"
    <3>1. SUFFICES ASSUME NEW i \in all, inst'[i].verdict = "none" PROVE FALSE
      OBVIOUS
    <3>2. inst[i].verdict = "none" /\ i \in Inst
      <4>1. i \in Inst BY <1>1
      <4>2. inst'[i].verdict = "none" => inst[i].verdict = "none"
        BY <2>2, <4>1 DEF Kin
      <4> QED BY <3>1, <4>1, <4>2
    <3>3. i \in waiting BY <3>1, <3>2 DEF Pending
    <3>4. f[i].verdict = "none" /\ told[i].verdict = "none"
      BY <1>6, <2>2, <3>1, <3>2
    <3> QED BY <1>4, <1>6, <3>2, <3>3, <3>4
  <2> HIDE DEF left
  <2>4. /\ t \in Task /\ t.cmds = conn[c].cmds /\ t.members = left
        /\ t.phase = "live"
    BY <1>1, <1>2 DEF Task
  <2> HIDE DEF t, no, waiting
  <2>5. t.members \cup Adds(t.cmds) \subseteq Held(c) BY <1>1, <2>4 DEF Held
  <2>6. \A i \in Held(c) : i \in t.members \cup Adds(t.cmds)
                            \/ inst'[i].verdict # "none"
    BY <2>3, <2>4 DEF Held
  <2>7. \A i \in t.members : inst'[i].verdict # "none" BY <1>1, <2>3, <2>4
  <2> QED BY <1>1, <1>7, <2>1, <2>2, <2>4, <2>5, <2>6, <2>7, Known, GoesOn
<1> QED BY <1>8, <1>9

\* Every step of a task, and everything that happens to one, is a turn.
LEMMA StepIsTurn ==
    ASSUME Types, NEW c \in Inst, TaskStep(c) \/ Trouble(c)
    PROVE  Turn(c)
<1>1. CASE TaskStep(c)
  BY <1>1, CancelledTurn, IdleTurn, ConnectTurn, RetryTurn, SubscribeTurn,
     TakeAddTurn, RedeclareTurn, TakeRemoveTurn, ReadAckTurn DEF TaskStep
<1>2. CASE Trouble(c)
  BY <1>2, LostTurn, LoginTurn, CutOffTurn DEF Trouble
<1> QED BY <1>1, <1>2

-----------------------------------------------------------------------------
(* The invariant of the connections, and what a caller does to them. *)

\* Nobody is at work under a name that was not given out.
Fresh == \A i \in Inst : i > starts => inst[i].watch = NoWatch /\ ~Running(i)

Single == mode.share => \A c \in Inst : Running(c) => c = handle

Answers ==
    mode.acks => \A i \in Inst : inst[i].watch # NoWatch /\ inst[i].verdict = "none"
                                   => \E c \in Inst : Waiting(i, c)

ConnTypes ==
    /\ mode \in Modes /\ starts \in 0..MaxStarts /\ handle \in 0..MaxStarts
    /\ inst \in [Inst -> Instance] /\ conn \in [Inst -> Task]
    /\ faults \in [drops : Nat, refusals : Nat] /\ marred \subseteq Watch

ConnInv == ConnTypes /\ Born /\ Fresh /\ Single /\ Answers

LEMMA HeldType ==
    ASSUME ConnTypes, NEW c \in Inst
    PROVE  Held(c) \subseteq Inst
BY DEF Held, Adds, ConnTypes, Task

LEMMA TurnKeeps ==
    ASSUME ConnInv, NEW c \in Inst, Turn(c)
    PROVE  ConnInv'
<1>1. ConnTypes' BY DEF ConnInv, ConnTypes, Turn, Kin
<1>2. \A d \in Inst \ {c} : /\ Held(d)' = Held(d) /\ (Running(d)' <=> Running(d))
                            /\ \A i \in Inst : Waiting(i, d)' <=> Waiting(i, d)
  BY DEF Turn, Held, Adds, Inst, Running, Waiting
<1>3. \A i \in Inst : inst'[i].watch = inst[i].watch BY DEF Turn, Kin
<1>4. \A d \in Inst : Held(d) \subseteq Inst BY HeldType DEF ConnInv
<1>5. \A d \in Inst : Held(d)' \subseteq Held(d) BY <1>2 DEF Turn
<1>6. Born'
  <2>1. SUFFICES ASSUME NEW d \in Inst, NEW i \in Held(d)'
                 PROVE  inst'[i].watch \in Watch
    BY DEF Born, Inst
  <2>2. i \in Held(d) /\ i \in Inst BY <1>4, <1>5, <2>1
  <2> QED BY <1>3, <2>2 DEF ConnInv, Born
<1>7. Fresh'
  <2>1. SUFFICES ASSUME NEW i \in Inst, i > starts
                 PROVE  inst'[i].watch = NoWatch /\ ~Running(i)'
    BY DEF Fresh, Inst, Turn
  <2>2. inst[i].watch = NoWatch /\ ~Running(i) BY <2>1 DEF ConnInv, Fresh
  <2>3. i # c BY <2>2 DEF Turn
  <2> QED BY <1>2, <1>3, <2>2, <2>3
<1>8. Single' BY <1>2 DEF Single, ConnInv, Turn, Inst
<1>9. Answers'
  <2>1. SUFFICES ASSUME mode.acks, NEW i \in Inst, inst'[i].watch # NoWatch,
                        inst'[i].verdict = "none"
                 PROVE  \E d \in Inst : Waiting(i, d)'
    BY DEF Answers, Inst, Turn
  <2>2. inst[i].watch # NoWatch /\ inst[i].verdict = "none"
    BY <1>3, <2>1 DEF Turn, Kin
  <2>3. PICK d \in Inst : Waiting(i, d) BY <2>1, <2>2 DEF ConnInv, Answers
  <2>4. CASE d = c BY <2>1, <2>3, <2>4 DEF Turn
  <2>5. CASE d # c BY <1>2, <2>3, <2>5
  <2> QED BY <2>4, <2>5
<1> QED BY <1>1, <1>6, <1>7, <1>8, <1>9 DEF ConnInv

\* A caller that spawns no task and hands over no instance.
LEMMA QuietKeeps ==
    ASSUME ConnInv, ConnTypes', UNCHANGED <<mode, inst, starts>>,
           \A d \in Inst : /\ Held(d)' = Held(d) /\ (Running(d)' <=> Running(d))
                           /\ \A i \in Inst : Waiting(i, d) => Waiting(i, d)',
           handle' = handle \/ \A d \in Inst : ~Running(d)
    PROVE  ConnInv'
<1>1. Born' BY DEF ConnInv, Born, Inst
<1>2. Fresh' BY DEF ConnInv, Fresh, Inst
<1>3. Single' BY DEF ConnInv, Single, Inst
<1>4. Answers' BY DEF ConnInv, Answers, Inst
<1> QED BY <1>1, <1>2, <1>3, <1>4 DEF ConnInv

\* The fields of a task that a caller leaves as they are.
Alike(t, u) ==
    /\ t.phase = u.phase /\ t.members = u.members
    /\ t.timer = u.timer /\ t.wire = u.wire

LEMMA AlikeKeeps ==
    ASSUME ConnTypes, NEW c \in Inst, Alike(conn'[c], conn[c]),
           Adds(conn[c].cmds) \subseteq Adds(conn'[c].cmds)
    PROVE  /\ Running(c)' <=> Running(c)
           /\ \A i \in Inst : Waiting(i, c) => Waiting(i, c)'
           /\ Held(c)' = conn[c].members \cup Adds(conn'[c].cmds)
<1>1. Adds(conn[c].cmds)' = Adds(conn'[c].cmds) BY DEF Adds, Inst
<1> QED BY <1>1 DEF Alike, Running, Waiting, Held

\* The second flag of a task: it is told to stop.
LEMMA CancelKeeps ==
    ASSUME ConnInv, NEW w \in Watch, conn' = Cancel(w),
           tasks \in [Watch -> 0..MaxStarts],
           UNCHANGED <<mode, inst, starts, handle, faults>>, marred' \subseteq Watch
    PROVE  ConnInv'
<1>1. CASE conn' = conn
  BY <1>1, QuietKeeps DEF ConnInv, ConnTypes, Held, Adds, Running, Waiting, Inst
<1>2. CASE conn' # conn
  <2> DEFINE c == tasks[w]
             t == [conn[c] EXCEPT !.cancel = TRUE]
  <2>1. c \in Inst /\ conn' = [conn EXCEPT ![c] = t]
    BY <1>2, ConnectionAssumption DEF Cancel, Inst
  <2>2. conn[c] \in Task BY <2>1 DEF ConnInv, ConnTypes
  <2>3. t \in Task /\ Alike(t, conn[c]) /\ t.cmds = conn[c].cmds
    BY <2>2 DEF Task, Alike
  <2> HIDE DEF t, c
  <2>4. conn' \in [Inst -> Task] /\ conn'[c] = t
        /\ \A d \in Inst \ {c} : conn'[d] = conn[d]
    BY <2>1, <2>3 DEF ConnInv, ConnTypes
  <2>5. \A d \in Inst : Alike(conn'[d], conn[d]) /\ conn'[d].cmds = conn[d].cmds
    BY <2>3, <2>4 DEF Alike
  <2>6. ConnTypes' BY <2>4 DEF ConnInv, ConnTypes, Inst
  <2>7. \A d \in Inst : /\ Held(d)' = Held(d) /\ (Running(d)' <=> Running(d))
                        /\ \A i \in Inst : Waiting(i, d) => Waiting(i, d)'
    BY <2>5, AlikeKeeps DEF ConnInv, Held
  <2> QED BY <2>6, <2>7, QuietKeeps
<1> QED BY <1>1, <1>2

\* A command in the queue of the shared task.
LEMMA Sent ==
    ASSUME ConnTypes, handle # 0, NEW x \in Command,
           conn' = [conn EXCEPT ![handle].cmds = Append(@, x)]
    PROVE  /\ handle \in Inst /\ conn' \in [Inst -> Task]
           /\ \A d \in Inst \ {handle} : conn'[d] = conn[d]
           /\ \A d \in Inst : /\ Alike(conn'[d], conn[d])
                              /\ Adds(conn[d].cmds) \subseteq Adds(conn'[d].cmds)
           /\ \A i \in Inst : i \in Adds(conn'[handle].cmds)
                              <=> i \in Adds(conn[handle].cmds) \/ x = Add(i)
<1> DEFINE t == [conn[handle] EXCEPT !.cmds = Append(conn[handle].cmds, x)]
<1>1. handle \in Inst BY ConnectionAssumption DEF ConnTypes, Inst
<1>2. conn[handle] \in Task /\ conn[handle].cmds \in Seq(Command)
  BY <1>1 DEF ConnTypes, Task
<1>3. /\ Append(conn[handle].cmds, x) \in Seq(Command)
      /\ \A i \in Inst : i \in Adds(Append(conn[handle].cmds, x))
                         <=> i \in Adds(conn[handle].cmds) \/ x = Add(i)
  BY <1>2, AddsOfAppend
<1>4. conn' = [conn EXCEPT ![handle] = t] OBVIOUS
<1>5. /\ t \in Task /\ Alike(t, conn[handle])
      /\ t.cmds = Append(conn[handle].cmds, x)
  BY <1>2, <1>3 DEF Task, Alike
<1> HIDE DEF t
<1>6. /\ conn' \in [Inst -> Task] /\ conn'[handle] = t
      /\ \A d \in Inst \ {handle} : conn'[d] = conn[d]
  BY <1>1, <1>4, <1>5 DEF ConnTypes
<1>7. Adds(conn[handle].cmds) \subseteq Adds(t.cmds) BY <1>3, <1>5 DEF Adds
<1>8. \A d \in Inst : /\ Alike(conn'[d], conn[d])
                      /\ Adds(conn[d].cmds) \subseteq Adds(conn'[d].cmds)
  BY <1>5, <1>6, <1>7 DEF Alike
<1> QED BY <1>1, <1>3, <1>5, <1>6, <1>8

\* The shared task is over and its entry is removed.
LEMMA DeadKeeps ==
    ASSUME ConnInv, mode.share, HandleDead, handle' = 0,
           UNCHANGED <<mode, inst, starts, conn, faults, marred>>
    PROVE  ConnInv'
<1>1. \A d \in Inst : ~Running(d) BY DEF ConnInv, Single, HandleDead
<1>2. ConnTypes' BY ConnectionAssumption DEF ConnInv, ConnTypes, Inst
<1>3. \A d \in Inst : /\ Held(d)' = Held(d) /\ (Running(d)' <=> Running(d))
                      /\ \A i \in Inst : Waiting(i, d) => Waiting(i, d)'
  BY DEF Held, Adds, Running, Waiting, Inst
<1> QED BY <1>1, <1>2, <1>3, QuietKeeps

\* Where sockets are not shared there is no shared task.
NoHandle == ~mode.share => handle = 0

LEMMA LeaveKeeps ==
    ASSUME ConnInv, NoHandle, NEW w \in Watch, Leave(w),
           UNCHANGED <<mode, inst, starts, faults, marred>>
    PROVE  ConnInv'
<1>1. CASE HandleDead
  <2>1. mode.share BY <1>1 DEF NoHandle, HandleDead
  <2> QED BY <1>1, <2>1, DeadKeeps DEF Leave
<1>2. CASE ~HandleDead /\ handle = 0
  <2>1. conn' = conn /\ handle' = handle BY <1>2 DEF Leave
  <2> QED BY <2>1, QuietKeeps DEF ConnInv, ConnTypes, Held, Adds, Running, Waiting, Inst
<1>3. CASE ~HandleDead /\ handle # 0
  <2> DEFINE x == [op |-> "remove", watch |-> w]
  <2>1. x \in Command /\ \A i : x # Add(i) BY DEF Command, Add
  <2>2. conn' = [conn EXCEPT ![handle].cmds = Append(@, x)] /\ handle' = handle
    BY <1>3 DEF Leave
  <2> HIDE DEF x
  <2>3. /\ conn' \in [Inst -> Task]
        /\ \A d \in Inst \ {handle} : conn'[d] = conn[d]
        /\ \A d \in Inst : /\ Alike(conn'[d], conn[d])
                           /\ Adds(conn[d].cmds) \subseteq Adds(conn'[d].cmds)
        /\ \A i \in Inst : i \in Adds(conn'[handle].cmds)
                           <=> i \in Adds(conn[handle].cmds)
    BY <1>3, <2>1, <2>2, Sent DEF ConnInv
  <2>4. \A d \in Inst : Adds(conn'[d].cmds) = Adds(conn[d].cmds)
    BY <2>3 DEF Adds
  <2>5. ConnTypes' BY <2>2, <2>3 DEF ConnInv, ConnTypes, Inst
  <2>6. \A d \in Inst : /\ Held(d)' = Held(d) /\ (Running(d)' <=> Running(d))
                        /\ \A i \in Inst : Waiting(i, d) => Waiting(i, d)'
    BY <2>3, <2>4, AlikeKeeps DEF ConnInv, Held
  <2> QED BY <2>2, <2>5, <2>6, QuietKeeps
<1> QED BY <1>1, <1>2, <1>3

LEMMA SpawnedType ==
    ASSUME NEW i \in Inst
    PROVE  /\ Spawned(i) \in Task /\ Spawned(i).phase = "top"
           /\ Spawned(i).members \cup Adds(Spawned(i).cmds) = {i}
<1> DEFINE q == <<Add(i)>>
<1>1. q \in Seq(Command) /\ Adds(q) = {i}
  <2>1. Add(i) \in Command BY AddIsCommand
  <2>2. q = Append(<< >>, Add(i)) /\ << >> \in Seq(Command) OBVIOUS
  <2>3. \A j \in Inst : j \in Adds(q) <=> Add(i) = Add(j)
    BY <2>1, <2>2, AddsOfAppend, AddsOfNone
  <2>4. \A j \in Inst : Add(i) = Add(j) <=> i = j BY DEF Add
  <2> QED BY <2>1, <2>3, <2>4 DEF Adds
<1> HIDE DEF q
<1>2. CASE mode.share
  <2>1. Spawned(i) = [NoTask EXCEPT !.phase = "top", !.cmds = q]
    BY <1>2 DEF Spawned, q, Add
  <2>2. Spawned(i).members = {} /\ Spawned(i).cmds = q /\ Spawned(i).phase = "top"
    BY <2>1, NoTaskType DEF Task
  <2>3. Spawned(i) \in Task BY <1>1, <2>1, NoTaskType DEF Task, Phase
  <2> QED BY <1>1, <2>2, <2>3
<1>3. CASE ~mode.share
  <2>1. Spawned(i) = [NoTask EXCEPT !.phase = "top", !.members = {i}]
    BY <1>3 DEF Spawned
  <2>2. /\ Spawned(i).members = {i} /\ Spawned(i).cmds = << >>
        /\ Spawned(i).phase = "top"
    BY <2>1, NoTaskType DEF Task
  <2>3. Spawned(i) \in Task
    <3> DEFINE ms == {i}
    <3>1. ms \in SUBSET Inst /\ Spawned(i) = [NoTask EXCEPT !.phase = "top", !.members = ms]
      BY <2>1
    <3> HIDE DEF ms
    <3> QED BY <3>1, NoTaskType DEF Task, Phase
  <2> QED BY <2>2, <2>3, AddsOfNone
<1> QED BY <1>2, <1>3

\* An instance is handed over: one more is waited for, by a task that runs.
LEMMA JoinKeeps ==
    ASSUME ConnInv, NoHandle, NEW w \in Watch, starts < MaxStarts,
           ~(mode.share /\ HandleDead), Join(w, starts + 1), marred' = marred
    PROVE  ConnInv' /\ NoHandle'
<1>0. PICK n \in Inst : n = starts + 1
  BY ConnectionAssumption DEF ConnInv, ConnTypes, Inst
<1>1. n > starts /\ starts \in Nat /\ n \in 0..MaxStarts
  BY <1>0, ConnectionAssumption DEF ConnInv, ConnTypes, Inst
<1>2. /\ inst[n].watch = NoWatch /\ ~Running(n)
      /\ \A d \in Inst : n \notin Held(d)
  BY <1>1, ConnectionAssumption DEF ConnInv, Fresh, Born
<1>3. /\ inst' = [inst EXCEPT ![n] = NewInstance(w)] /\ starts' = n
      /\ UNCHANGED <<mode, faults>>
  BY <1>0 DEF Join
<1>4. NewInstance(w) \in Instance /\ NewInstance(w).watch = w
      /\ NewInstance(w).verdict = "none"
  BY DEF NewInstance, Instance, Status, Verdict
<1>5. /\ inst' \in [Inst -> Instance] /\ inst'[n] = NewInstance(w)
      /\ \A i \in Inst \ {n} : inst'[i] = inst[i]
  BY <1>1, <1>3, <1>4 DEF ConnInv, ConnTypes
<1>6. \A i \in Inst : i > n => i > starts /\ i # n BY <1>1 DEF Inst
<1>7. \A d \in Inst : Held(d) \subseteq Inst BY HeldType DEF ConnInv
\* What the two ways of handing over have in common.
<1> DEFINE Handed == \E c \in Inst :
             /\ conn' \in [Inst -> Task] /\ handle' \in 0..MaxStarts
             /\ Running(c)' /\ (~Running(c) => c = n) /\ Waiting(n, c)'
             /\ mode.share => handle' = c /\ (handle = c \/ handle = 0)
             /\ ~mode.share => handle' = 0
             /\ \A d \in Inst \ {c} : conn'[d] = conn[d]
             /\ \A i \in Inst : Waiting(i, c) => Waiting(i, c)'
             /\ \A i \in Held(c)' : i = n \/ i \in Held(c)
<1>8. Handed
  <2>1. CASE mode.share /\ handle # 0
    <3>1. /\ conn' = [conn EXCEPT ![handle].cmds = Append(@, Add(n))]
          /\ handle' = handle
      BY <1>0, <2>1 DEF Join, Add
    <3>2. Add(n) \in Command BY AddIsCommand
    <3>3. /\ handle \in Inst /\ conn' \in [Inst -> Task]
          /\ \A d \in Inst \ {handle} : conn'[d] = conn[d]
          /\ \A d \in Inst : /\ Alike(conn'[d], conn[d])
                             /\ Adds(conn[d].cmds) \subseteq Adds(conn'[d].cmds)
          /\ \A i \in Inst : i \in Adds(conn'[handle].cmds)
                             <=> i \in Adds(conn[handle].cmds) \/ Add(n) = Add(i)
      BY <2>1, <3>1, <3>2, Sent DEF ConnInv
    <3>4. PICK c \in Inst : c = handle BY <3>3
    <3>5. Alike(conn'[c], conn[c]) /\ Adds(conn[c].cmds) \subseteq Adds(conn'[c].cmds)
      BY <3>3
    <3>6. /\ Running(c)' <=> Running(c)
          /\ \A i \in Inst : Waiting(i, c) => Waiting(i, c)'
          /\ Held(c)' = conn[c].members \cup Adds(conn'[c].cmds)
      BY <3>5, AlikeKeeps DEF ConnInv
    <3>7. Running(c) BY <2>1, <3>4 DEF HandleDead
    <3>8. \A i \in Inst : Add(n) = Add(i) <=> i = n BY DEF Add
    <3>9. n \in Adds(conn'[c].cmds) /\ n \notin conn[c].members
      BY <1>2, <3>3, <3>4, <3>8 DEF Held
    <3>10. n \in Held(c)' /\ n \notin conn'[c].members
      BY <3>5, <3>6, <3>9 DEF Alike
    <3>11. Waiting(n, c)' BY <3>6, <3>7, <3>10 DEF Waiting
    <3>12. \A i \in Held(c)' : i = n \/ i \in Held(c)
      BY <3>3, <3>4, <3>6, <3>8 DEF Held, Adds
    <3>13. handle' \in 0..MaxStarts BY <3>1 DEF ConnInv, ConnTypes
    <3> QED BY <2>1, <3>1, <3>3, <3>4, <3>6, <3>7, <3>11, <3>12, <3>13
  <2>2. CASE ~(mode.share /\ handle # 0)
    <3>1. /\ conn' = [conn EXCEPT ![n] = Spawned(n)]
          /\ handle' = IF mode.share THEN n ELSE 0
      BY <1>0, <2>2 DEF Join
    <3>2. /\ Spawned(n) \in Task /\ Spawned(n).phase = "top"
          /\ Spawned(n).members \cup Adds(Spawned(n).cmds) = {n}
      BY SpawnedType
    <3>3. /\ conn' \in [Inst -> Task] /\ conn'[n] = Spawned(n)
          /\ \A d \in Inst \ {n} : conn'[d] = conn[d]
      BY <1>1, <3>1, <3>2 DEF ConnInv, ConnTypes
    <3>4. Held(n)' = {n} /\ Running(n)'
      <4>1. conn'[n].members \cup Adds(conn'[n].cmds) = {n}
            /\ conn'[n].phase = "top"
        BY <3>2, <3>3
      <4>2. Held(n)' = conn'[n].members \cup Adds(conn'[n].cmds)
        BY DEF Held, Adds, Inst
      <4> QED BY <4>1, <4>2 DEF Running
    <3>5. Waiting(n, n)' BY <3>2, <3>3, <3>4 DEF Waiting
    <3>6. \A i \in Inst : ~Waiting(i, n) BY <1>2 DEF Waiting
    <3>7. handle' \in 0..MaxStarts BY <1>1, <3>1, ConnectionAssumption
    <3> QED BY <1>1, <2>2, <3>1, <3>3, <3>4, <3>5, <3>6, <3>7
  <2> QED BY <2>1, <2>2
<1>9. PICK c \in Inst :
             /\ conn' \in [Inst -> Task] /\ handle' \in 0..MaxStarts
             /\ Running(c)' /\ (~Running(c) => c = n) /\ Waiting(n, c)'
             /\ mode.share => handle' = c /\ (handle = c \/ handle = 0)
             /\ ~mode.share => handle' = 0
             /\ \A d \in Inst \ {c} : conn'[d] = conn[d]
             /\ \A i \in Inst : Waiting(i, c) => Waiting(i, c)'
             /\ \A i \in Held(c)' : i = n \/ i \in Held(c)
  BY <1>8
<1> HIDE DEF Handed
<1>10. \A d \in Inst \ {c} : /\ Held(d)' = Held(d) /\ (Running(d)' <=> Running(d))
                             /\ \A i \in Inst : Waiting(i, d)' <=> Waiting(i, d)
  BY <1>9 DEF Held, Adds, Inst, Running, Waiting
<1>11. ConnTypes' BY <1>1, <1>3, <1>5, <1>9 DEF ConnInv, ConnTypes, Inst
<1>12. Born'
  <2>1. SUFFICES ASSUME NEW d \in Inst, NEW i \in Held(d)'
                 PROVE  inst'[i].watch \in Watch
    BY DEF Born, Inst
  <2>2. i = n \/ i \in Held(d) BY <1>9, <1>10, <2>1
  <2>3. CASE i = n BY <1>4, <1>5, <2>3
  <2>4. CASE i # n
    <3>1. i \in Held(d) /\ i \in Inst BY <1>7, <2>2, <2>4
    <3> QED BY <1>5, <2>4, <3>1 DEF ConnInv, Born
  <2> QED BY <2>3, <2>4
<1>13. Fresh'
  <2>1. SUFFICES ASSUME NEW i \in Inst, i > n
                 PROVE  inst'[i].watch = NoWatch /\ ~Running(i)'
    BY <1>3 DEF Fresh, Inst
  <2>2. i # n /\ inst[i].watch = NoWatch /\ ~Running(i)
    BY <1>6, <2>1 DEF ConnInv, Fresh
  <2>3. i # c BY <1>9, <2>2
  <2> QED BY <1>5, <1>10, <2>2, <2>3
<1>14. Single'
  <2>1. SUFFICES ASSUME mode.share, NEW d \in Inst, Running(d)' PROVE d = handle'
    BY <1>3 DEF Single, Inst
  <2>2. d = c \/ d = handle BY <1>10, <2>1 DEF ConnInv, Single
  <2>3. d # 0 BY <2>1 DEF Inst
  <2> QED BY <1>9, <2>1, <2>2, <2>3
<1>15. Answers'
  <2>1. SUFFICES ASSUME mode.acks, NEW i \in Inst, inst'[i].watch # NoWatch,
                        inst'[i].verdict = "none"
                 PROVE  \E d \in Inst : Waiting(i, d)'
    BY <1>3 DEF Answers, Inst
  <2>2. CASE i = n BY <1>9, <2>2
  <2>3. CASE i # n
    <3>1. PICK d \in Inst : Waiting(i, d) BY <1>5, <2>1, <2>3 DEF ConnInv, Answers
    <3> QED BY <1>9, <1>10, <3>1
  <2> QED BY <2>2, <2>3
<1>16. NoHandle' BY <1>3, <1>9 DEF NoHandle
<1> QED BY <1>11, <1>12, <1>13, <1>14, <1>15, <1>16 DEF ConnInv

-----------------------------------------------------------------------------
(* The callers. *)

\* Where a call that does this may be.
Orderly(x) ==
    /\ x.at \notin {"idle", "launch"} => x.w \in Watch
    /\ x.at = "idle" => x = Resting
    /\ x.op = "relaunch" => x.at \in {"launch", "join", "bind", "wait"}
    /\ x.op = "stop" => x.at \notin {"launch", "join", "bind", "wait"}

ListTypes ==
    /\ tasks \in [Watch -> 0..MaxStarts] /\ watch_conn \subseteq Watch
    /\ watches \subseteq Watch /\ vault \subseteq Watch
    /\ count \in [calls : Nat, crashes : Nat]
    /\ raced \in BOOLEAN /\ unrestored \subseteq Watch

CallInv ==
    /\ ListTypes
    /\ call \in [Caller -> Call]
    /\ \A r \in Caller : Orderly(call[r])

LEMMA TypesSplit == TypeOK <=> ConnTypes /\ ListTypes /\ call \in [Caller -> Call]
BY DEF TypeOK, ConnTypes, ListTypes

LEMMA RestingType == Resting \in Call /\ Orderly(Resting) /\ Resting.op = "start"
                     /\ Resting.at = "idle"
<1>1. 0 \in 0..MaxStarts BY ConnectionAssumption
<1> QED BY <1>1 DEF Resting, Call, At, Orderly

LEMMA CallFields ==
    ASSUME CallInv, NEW r \in Caller
    PROVE  /\ call[r] \in Call /\ Orderly(call[r])
           /\ call[r].at \in At /\ call[r].op \in {"start", "stop", "relaunch"}
           /\ call[r].w \in Watch \cup {NoWatch} /\ call[r].todo \subseteq Watch
           /\ call[r].i \in 0..MaxStarts /\ call[r].list \subseteq Watch
BY DEF CallInv, Call

LEMMA CallMoves ==
    ASSUME CallInv, NEW r \in Caller, NEW x \in Call, Orderly(x),
           call' = [call EXCEPT ![r] = x], ListTypes'
    PROVE  /\ CallInv' /\ call'[r] = x
           /\ \A q \in Caller \ {r} : call'[q] = call[q]
<1>1. /\ call' \in [Caller -> Call] /\ call'[r] = x
      /\ \A q \in Caller \ {r} : call'[q] = call[q]
  BY DEF CallInv
<1>2. \A q \in Caller : Orderly(call'[q]) BY <1>1 DEF CallInv
<1> QED BY <1>1, <1>2 DEF CallInv

\* A launch that is over.
LEMMA LaunchedType ==
    ASSUME NEW x \in Call, x.op # "stop"
    PROVE  /\ Launched(x) \in Call /\ Orderly(Launched(x))
           /\ x.todo = {} => Launched(x) = Resting
           /\ x.todo # {} => /\ Launched(x).at = "launch"
                             /\ Launched(x).op = x.op /\ Launched(x).todo = x.todo
<1>1. CASE x.todo = {} BY <1>1, RestingType DEF Launched
<1>2. CASE x.todo # {}
  <2>1. Launched(x) = [x EXCEPT !.at = "launch"] BY <1>2 DEF Launched
  <2>2. /\ Launched(x) \in Call /\ Launched(x).at = "launch"
        /\ Launched(x).op = x.op /\ Launched(x).todo = x.todo
    BY <2>1 DEF Call, At
  <2> QED BY <1>2, <2>2 DEF Orderly
<1> QED BY <1>1, <1>2

\* What the list in the vault owes to a relaunch under way.
Left(x) ==
    IF x.op = "relaunch"
    THEN x.todo \cup (IF x.at = "launch" THEN {} ELSE {x.w}) ELSE {}

Unsaved == \E r \in Caller : call[r].at \in {"collect", "save"}

Covered ==
    /\ watches \subseteq vault
    /\ \A w \in vault \ watches :
          w \in unrestored \/ \E q \in Caller : w \in Left(call[q])

\* The vault has the list, or somebody who is about to write has it, or will
\* read it; a relaunch is alone.
Listed ==
    ~raced =>
      /\ Unsaved \/ Covered
      /\ \A r \in Caller : call[r].at = "save" =>
            call[r].list = watches \/ \E q \in Caller : call[q].at = "collect"
      /\ \A r, q \in Caller : call[r].at = "save" /\ call[q].at = "save" => r = q
      /\ \A q \in Caller : call[q].op = "relaunch" =>
            /\ Left(call[q]) \subseteq vault
            /\ \A r \in Caller \ {q} : call[r] = Resting

Inv == ConnInv /\ NoHandle /\ CallInv /\ Listed

LEMMA SavedWhenListed == CallInv /\ Listed => ListIsSaved
<1> SUFFICES ASSUME CallInv, Listed, ~raced, \A r \in Caller : call[r] = Resting
             PROVE  watches \subseteq vault /\ vault \ watches \subseteq unrestored
  BY DEF ListIsSaved
<1>1. ~Unsaved BY RestingType DEF Unsaved
<1>2. \A q \in Caller : Left(call[q]) = {} BY RestingType DEF Left
<1>3. Covered BY <1>1 DEF Listed
<1> QED BY <1>2, <1>3 DEF Covered

\* A step of a call that leaves the list, and the vault, as they are.
LEMMA ListKept ==
    ASSUME CallInv, Listed, NEW r \in Caller, NEW x \in Call, call'[r] = x,
           \A q \in Caller \ {r} : call'[q] = call[q],
           UNCHANGED <<watches, vault, raced>>,
           call[r].at \notin {"collect", "save"}, x.at \notin {"collect", "save"},
           unrestored \subseteq unrestored',
           \A w \in Left(call[r]) : w \in Left(x) \/ w \in unrestored',
           Left(x) \subseteq Left(call[r]),
           x.op = "relaunch" => call[r].op = "relaunch",
           call[r] # Resting
    PROVE  Listed'
<1> SUFFICES ASSUME ~raced PROVE Listed' BY DEF Listed
<1>1. Unsaved' <=> Unsaved BY DEF Unsaved
<1>2. ASSUME Covered PROVE Covered'
  BY <1>2 DEF Covered
<1>3. (\E q \in Caller : call[q].at = "collect")
        => \E q \in Caller : call'[q].at = "collect"
  OBVIOUS
<1>4. \A q \in Caller : call'[q].at = "save" => call[q].at = "save" /\ call'[q] = call[q]
  OBVIOUS
<1>5. ASSUME NEW q \in Caller, call'[q].op = "relaunch"
      PROVE  /\ Left(call'[q]) \subseteq vault
             /\ \A p \in Caller \ {q} : call'[p] = Resting
  <2>1. call[q].op = "relaunch" BY <1>5
  <2>2. Left(call[q]) \subseteq vault /\ \A p \in Caller \ {q} : call[p] = Resting
    BY <2>1 DEF Listed
  <2>3. CASE q = r BY <2>2, <2>3
  <2>4. CASE q # r BY <2>2, <2>4
  <2> QED BY <2>3, <2>4
<1> QED BY <1>1, <1>2, <1>3, <1>4, <1>5 DEF Listed

\* The three ways out of a launch that did not succeed.
LEMMA GiveUp ==
    ASSUME CallInv, Listed, NEW r \in Caller, NEW y \in Call, NEW w \in Watch,
           call' = [call EXCEPT ![r] = Launched(y)], y.op = call[r].op,
           call[r].at \in {"launch", "join", "wait"},
           call[r].at = "launch" => y.todo = call[r].todo \ {w},
           call[r].at # "launch" => w = call[r].w /\ y.todo = call[r].todo,
           unrestored' = Failed(call[r], w),
           UNCHANGED <<watches, vault, raced, watch_conn, count>>,
           tasks' \in [Watch -> 0..MaxStarts]
    PROVE  CallInv' /\ Listed'
<1> DEFINE x == Launched(y)
<1>0. y.op # "stop" BY CallFields DEF Orderly
<1>1. /\ x \in Call /\ Orderly(x) /\ (y.todo = {} => x = Resting)
      /\ y.todo # {} => x.at = "launch" /\ x.op = y.op /\ x.todo = y.todo
  BY <1>0, LaunchedType
<1>2. Left(x) = IF y.op = "relaunch" THEN y.todo ELSE {}
  BY <1>1, RestingType DEF Left
<1>3. x.at \notin {"collect", "save"} /\ (x.op = "relaunch" => call[r].op = "relaunch")
  BY <1>1, RestingType
<1> HIDE DEF x
<1>4. ListTypes' BY DEF CallInv, ListTypes, Failed
<1>5. /\ CallInv' /\ call'[r] = x
      /\ \A q \in Caller \ {r} : call'[q] = call[q]
  BY <1>1, <1>4, CallMoves DEF x
<1>6. unrestored \subseteq unrestored' BY DEF Failed
<1>7. \A v \in Left(call[r]) : v \in Left(x) \/ v \in unrestored'
  BY <1>2 DEF Left, Failed
<1>8. Left(x) \subseteq Left(call[r]) BY <1>2 DEF Left
<1>9. call[r] # Resting BY RestingType
<1> QED BY <1>1, <1>3, <1>5, <1>6, <1>7, <1>8, <1>9, ListKept

LEMMA NoInstance == 0 \in 0..MaxStarts
BY ConnectionAssumption

LEMMA LaunchFailsKeeps ==
    ASSUME CallInv, Listed, NEW r \in Caller, NEW w \in Watch, LaunchFails(r, w)
    PROVE  CallInv' /\ Listed'
<1> DEFINE y == [call[r] EXCEPT !.todo = call[r].todo \ {w}]
<1>1. y \in Call /\ y.op = call[r].op /\ y.todo = call[r].todo \ {w}
  BY CallFields DEF Call
<1>2. /\ call' = [call EXCEPT ![r] = Launched(y)] /\ call[r].at = "launch"
      /\ unrestored' = Failed(call[r], w)
      /\ UNCHANGED <<watches, vault, raced, count>> /\ UNCHANGED adapterVars
  <2>1. call' = [call EXCEPT ![r] = Launched(y)] BY DEF LaunchFails
  <2>2. UNCHANGED <<watches, vault, raced, count>> BY DEF LaunchFails
  <2>3. UNCHANGED adapterVars BY DEF LaunchFails
  <2> QED BY <2>1, <2>2, <2>3 DEF LaunchFails
<1> HIDE DEF y
<1>3. tasks' \in [Watch -> 0..MaxStarts] /\ watch_conn' = watch_conn
  BY <1>2 DEF CallInv, ListTypes, adapterVars
<1> QED BY <1>1, <1>2, <1>3, GiveUp

LEMMA StartOnDeadKeeps ==
    ASSUME CallInv, Listed, NEW r \in Caller, StartOnDead(r)
    PROVE  CallInv' /\ Listed'
<1> DEFINE w == call[r].w
<1>0. w \in Watch /\ call[r].at = "join" BY CallFields DEF StartOnDead, Orderly
<1>1. /\ call' = [call EXCEPT ![r] = Launched(call[r])]
      /\ unrestored' = Failed(call[r], w)
      /\ UNCHANGED <<watches, vault, raced, watch_conn, count>>
      /\ tasks' = [tasks EXCEPT ![w] = 0]
  BY DEF StartOnDead
<1>2. tasks' \in [Watch -> 0..MaxStarts]
  BY <1>1, NoInstance DEF CallInv, ListTypes
<1>3. call[r] \in Call /\ call[r].todo \subseteq Watch BY CallFields
<1> QED BY <1>0, <1>1, <1>2, <1>3, GiveUp

LEMMA RejectedKeeps ==
    ASSUME CallInv, Listed, NEW r \in Caller, Rejected(r)
    PROVE  CallInv' /\ Listed'
<1> DEFINE w == call[r].w
           y == [call[r] EXCEPT !.i = 0]
<1>0. w \in Watch /\ call[r].at = "wait" BY CallFields DEF Rejected, Orderly
<1>1. y \in Call /\ y.op = call[r].op /\ y.todo = call[r].todo
  BY CallFields, NoInstance DEF Call
<1>2. call' = [call EXCEPT ![r] = Launched(y)] BY DEF Rejected
<1>3. /\ unrestored' = Failed(call[r], w)
      /\ UNCHANGED <<watches, vault, raced, watch_conn, count>>
      /\ tasks' = [tasks EXCEPT ![w] = 0]
  BY DEF Rejected
<1> HIDE DEF y
<1>4. tasks' \in [Watch -> 0..MaxStarts]
  BY <1>3, NoInstance DEF CallInv, ListTypes
<1> QED BY <1>0, <1>1, <1>2, <1>3, <1>4, GiveUp

LEMMA LaunchKeeps ==
    ASSUME CallInv, Listed, NEW r \in Caller, NEW w \in Watch, Launch(r, w)
    PROVE  CallInv' /\ Listed'
<1> DEFINE x == [call[r] EXCEPT !.at = "join", !.w = w, !.todo = call[r].todo \ {w}]
<1>1. /\ x \in Call /\ x.at = "join" /\ x.w = w /\ x.op = call[r].op
      /\ x.todo = call[r].todo \ {w}
  BY CallFields DEF Call, At
<1>2. call' = [call EXCEPT ![r] = x] BY DEF Launch
<1> HIDE DEF x
<1>3. /\ tasks' = [tasks EXCEPT ![w] = 0] /\ watch_conn' = watch_conn
      /\ UNCHANGED <<watches, vault, raced, unrestored, count>>
      /\ call[r].at = "launch" /\ w \in call[r].todo
  BY DEF Launch, Detach, managerVars
<1>4. ListTypes' BY <1>3, NoInstance DEF CallInv, ListTypes
<1>5. Orderly(x) BY <1>1, <1>3, CallFields DEF Orderly
<1>6. CallInv' /\ call'[r] = x /\ \A q \in Caller \ {r} : call'[q] = call[q]
  BY <1>1, <1>2, <1>4, <1>5, CallMoves
<1>7. Left(x) = Left(call[r]) BY <1>1, <1>3 DEF Left
<1>8. call[r] # Resting BY <1>3, RestingType
<1> QED BY <1>1, <1>3, <1>6, <1>7, <1>8, ListKept

\* The steps from one place to the next that touch no list.
LEMMA MovesOn ==
    ASSUME CallInv, Listed, NEW r \in Caller, NEW a \in At, NEW i \in 0..MaxStarts,
           call' = [call EXCEPT ![r].at = a, ![r].i = i],
           call[r].at \in {"join", "bind", "leave"}, a \in {"bind", "wait", "forget"},
           a = "forget" <=> call[r].at = "leave",
           UNCHANGED <<watches, vault, raced, unrestored, count>>,
           tasks' \in [Watch -> 0..MaxStarts], watch_conn' \subseteq Watch
    PROVE  CallInv' /\ Listed'
<1> DEFINE x == [call[r] EXCEPT !.at = a, !.i = i]
<1>1. /\ x \in Call /\ x.at = a /\ x.w = call[r].w /\ x.op = call[r].op
      /\ x.todo = call[r].todo
  BY CallFields DEF Call
<1>2. call' = [call EXCEPT ![r] = x] OBVIOUS
<1> HIDE DEF x
<1>4. ListTypes' BY DEF CallInv, ListTypes
<1>5. Orderly(x) BY <1>1, CallFields DEF Orderly
<1>6. CallInv' /\ call'[r] = x /\ \A q \in Caller \ {r} : call'[q] = call[q]
  BY <1>1, <1>2, <1>4, <1>5, CallMoves
<1>7. Left(x) = Left(call[r]) BY <1>1 DEF Left
<1>8. call[r] # Resting BY RestingType
<1> QED BY <1>1, <1>6, <1>7, <1>8, ListKept

LEMMA StartKeeps ==
    ASSUME ConnInv, NoHandle, CallInv, Listed, NEW r \in Caller, Start(r)
    PROVE  ConnInv' /\ NoHandle' /\ CallInv' /\ Listed'
<1>1. call[r].w \in Watch /\ call[r].at = "join" BY CallFields DEF Start, Orderly
<1>2. ConnInv' /\ NoHandle' BY <1>1, JoinKeeps DEF Start
<1>3. PICK n \in 0..MaxStarts : n = starts + 1
  BY ConnectionAssumption DEF Start, ConnInv, ConnTypes
<1>4. PICK a \in At : a = IF mode.share THEN "bind" ELSE "wait" BY DEF At
<1>5. call' = [call EXCEPT ![r].at = a, ![r].i = n] BY <1>3, <1>4 DEF Start
<1>6. tasks' \in [Watch -> 0..MaxStarts]
  BY <1>1, <1>3 DEF Start, CallInv, ListTypes
<1>7. UNCHANGED <<watches, vault, raced, unrestored, count, watch_conn>>
  BY DEF Start, managerVars
<1>8. watch_conn' \subseteq Watch BY <1>7 DEF CallInv, ListTypes
<1> QED BY <1>1, <1>2, <1>4, <1>5, <1>6, <1>7, <1>8, MovesOn

LEMMA BindKeeps ==
    ASSUME CallInv, Listed, NEW r \in Caller, Bind(r)
    PROVE  CallInv' /\ Listed'
<1>1. call[r].w \in Watch /\ call[r].at = "bind" BY CallFields DEF Bind, Orderly
<1>2. call[r] \in Call /\ call[r].i \in 0..MaxStarts /\ "wait" \in At
  BY CallFields DEF At
<1>3. call' = [call EXCEPT ![r].at = "wait", ![r].i = call[r].i]
  BY <1>2 DEF Bind, CallInv, Call
<1>4. UNCHANGED <<watches, vault, raced, unrestored, count, tasks>>
  BY DEF Bind, managerVars
<1>5. tasks' \in [Watch -> 0..MaxStarts] /\ watch_conn' \subseteq Watch
  BY <1>1, <1>4 DEF Bind, CallInv, ListTypes
<1> QED BY <1>1, <1>2, <1>3, <1>4, <1>5, MovesOn

LEMMA LeaveSharedKeeps ==
    ASSUME ConnInv, NoHandle, CallInv, Listed, NEW r \in Caller, LeaveShared(r)
    PROVE  ConnInv' /\ NoHandle' /\ CallInv' /\ Listed'
<1> DEFINE w == call[r].w
<1>1. w \in Watch /\ call[r].at = "leave" BY CallFields DEF LeaveShared, Orderly
<1>2. UNCHANGED <<mode, inst, starts, faults, marred>> BY DEF LeaveShared
<1>3. ConnInv'
  <2>1. CASE w \in watch_conn BY <1>1, <1>2, <2>1, LeaveKeeps DEF LeaveShared
  <2>2. CASE w \notin watch_conn
    <3>1. UNCHANGED <<conn, handle>> BY <2>2 DEF LeaveShared
    <3> QED BY <1>2, <3>1, QuietKeeps
        DEF ConnInv, ConnTypes, Held, Adds, Running, Waiting, Inst
  <2> QED BY <2>1, <2>2
<1>4. NoHandle' BY <1>2 DEF NoHandle, LeaveShared, Leave
<1>5. call[r] \in Call /\ call[r].i \in 0..MaxStarts /\ "forget" \in At
  BY CallFields DEF At
<1>6. call' = [call EXCEPT ![r].at = "forget", ![r].i = call[r].i]
  BY <1>5 DEF LeaveShared, CallInv, Call
<1>7. UNCHANGED <<watches, vault, raced, unrestored, count, tasks>>
  BY DEF LeaveShared, managerVars
<1>8. tasks' \in [Watch -> 0..MaxStarts] /\ watch_conn' \subseteq Watch
  BY <1>7 DEF LeaveShared, CallInv, ListTypes
<1> QED BY <1>1, <1>3, <1>4, <1>5, <1>6, <1>7, <1>8, MovesOn

\* A start adds to the list and will save it; a relaunch, alone, adds what the
\* vault has.
LEMMA RegisteredKeeps ==
    ASSUME CallInv, Listed, NEW r \in Caller, Registered(r)
    PROVE  CallInv' /\ Listed'
<1> DEFINE w == call[r].w
           y == [call[r] EXCEPT !.i = 0]
           z == [call[r] EXCEPT !.at = "collect", !.i = 0]
           x == IF call[r].op = "start" THEN z ELSE Launched(y)
<1>0. /\ w \in Watch /\ call[r].at = "wait" /\ call[r] # Resting
      /\ call[r].op # "stop"
  BY CallFields, RestingType DEF Registered, Orderly
<1>1. y \in Call /\ y.op = call[r].op /\ y.todo = call[r].todo
  BY CallFields, NoInstance DEF Call
<1>2. /\ z \in Call /\ z.op = call[r].op /\ z.at = "collect" /\ z.w = w
  BY CallFields, NoInstance DEF Call, At
<1>3. call' = [call EXCEPT ![r] = x]
  BY DEF Registered
<1>4. /\ watches' = watches \cup {w} /\ unrestored' = unrestored \ {w}
      /\ UNCHANGED <<vault, raced, count>> /\ UNCHANGED adapterVars
  <2>1. watches' = watches \cup {w} /\ unrestored' = unrestored \ {w} BY DEF Registered
  <2>2. UNCHANGED <<vault, raced, count>> /\ UNCHANGED adapterVars BY DEF Registered
  <2> QED BY <2>1, <2>2
<1> HIDE DEF y, z
<1>5. /\ Launched(y) \in Call /\ Orderly(Launched(y))
      /\ y.todo = {} => Launched(y) = Resting
      /\ y.todo # {} => /\ Launched(y).at = "launch"
                        /\ Launched(y).op = y.op /\ Launched(y).todo = y.todo
  BY <1>0, <1>1, LaunchedType
<1>6. x \in Call /\ Orderly(x)
  <2>1. CASE call[r].op = "start" BY <1>0, <1>2, <2>1 DEF Orderly
  <2>2. CASE call[r].op # "start" BY <1>5, <2>2
  <2> QED BY <2>1, <2>2
<1>7. ListTypes' BY <1>0, <1>4 DEF CallInv, ListTypes, adapterVars
<1> HIDE DEF x
<1>8. CallInv' /\ call'[r] = x /\ \A q \in Caller \ {r} : call'[q] = call[q]
  BY <1>3, <1>6, <1>7, CallMoves
<1>9. Listed'
  <2> SUFFICES ASSUME ~raced PROVE Listed' BY <1>4 DEF Listed
  <2>1. CASE call[r].op = "start"
    <3>1. x.at = "collect" /\ x.op = "start" BY <1>2, <2>1 DEF x
    <3>2. Unsaved' BY <1>8, <3>1 DEF Unsaved
    <3>3. \A q \in Caller : call[q].op # "relaunch"
      BY <1>0, <2>1 DEF Listed
    <3>4. \A q \in Caller : call'[q].op # "relaunch" BY <1>8, <3>1, <3>3
    <3>5. \A q \in Caller : call'[q].at = "save" => call[q].at = "save"
      BY <1>8, <3>1
    <3> QED BY <1>4, <1>8, <3>1, <3>2, <3>4, <3>5 DEF Listed
  <2>2. CASE call[r].op = "relaunch"
    <3>1. x = Launched(y) BY <2>2 DEF x
    <3>2. Left(call[r]) \subseteq vault /\ \A q \in Caller \ {r} : call[q] = Resting
      BY <2>2 DEF Listed
    <3>3. Left(call[r]) = y.todo \cup {w} BY <1>0, <1>1, <2>2 DEF Left
    <3>4. Left(x) = y.todo /\ x.at \in {"launch", "idle"}
      BY <1>1, <1>5, <2>2, <3>1, RestingType DEF Left
    <3>5. \A q \in Caller : call'[q].at \in {"launch", "idle"}
      BY <1>8, <3>2, <3>4, RestingType
    <3>6. ~Unsaved BY <1>0, <3>2, RestingType DEF Unsaved
    <3>7. Covered BY <3>6 DEF Listed
    <3>8. \A q \in Caller \ {r} : Left(call[q]) = {} BY <3>2, RestingType DEF Left
    <3>9. Covered'
      <4>1. watches' \subseteq vault' BY <1>4, <3>2, <3>3, <3>7 DEF Covered
      <4>2. SUFFICES ASSUME NEW v \in vault \ watches'
                     PROVE  v \in unrestored' \/ \E q \in Caller : v \in Left(call'[q])
        BY <1>4, <4>1 DEF Covered
      <4>3. v # w /\ v \in vault \ watches BY <1>4, <4>2
      <4>4. v \in unrestored \/ v \in y.todo BY <3>3, <3>7, <3>8, <4>3 DEF Covered
      <4> QED BY <1>4, <1>8, <3>4, <4>3, <4>4
    <3>10. \A q \in Caller : call'[q].op = "relaunch" => q = r
      BY <1>8, <3>2, RestingType
    <3>11. \A q \in Caller \ {r} : call'[q] = Resting BY <1>8, <3>2
    <3> QED BY <1>4, <1>8, <3>2, <3>3, <3>4, <3>5, <3>9, <3>10, <3>11 DEF Listed
  <2> QED BY <1>0, <2>1, <2>2, CallFields
<1> QED BY <1>8, <1>9

LEMMA ForgetKeeps ==
    ASSUME CallInv, Listed, NEW r \in Caller, Forget(r)
    PROVE  CallInv' /\ Listed'
<1> DEFINE x == [call[r] EXCEPT !.at = "collect"]
<1>1. /\ call[r].w \in Watch /\ call[r].at = "forget" /\ call[r] # Resting
      /\ call[r].op # "relaunch"
  BY CallFields, RestingType DEF Forget, Orderly
<1>2. x \in Call /\ x.at = "collect" /\ x.w = call[r].w /\ x.op = call[r].op
  BY CallFields DEF Call, At
<1>3. call' = [call EXCEPT ![r] = x] BY DEF Forget
<1> HIDE DEF x
<1>4. /\ watches' \subseteq Watch /\ UNCHANGED <<vault, raced, count, unrestored>>
      /\ UNCHANGED adapterVars
  BY DEF Forget, CallInv, ListTypes
<1>5. ListTypes' BY <1>4 DEF CallInv, ListTypes, adapterVars
<1>6. Orderly(x) BY <1>1, <1>2 DEF Orderly
<1>7. CallInv' /\ call'[r] = x /\ \A q \in Caller \ {r} : call'[q] = call[q]
  BY <1>2, <1>3, <1>5, <1>6, CallMoves
<1>8. Listed'
  <2> SUFFICES ASSUME ~raced PROVE Listed' BY <1>4 DEF Listed
  <2>1. Unsaved' BY <1>2, <1>7 DEF Unsaved
  <2>2. \A q \in Caller : call[q].op # "relaunch" BY <1>1 DEF Listed
  <2>3. \A q \in Caller : call'[q].op # "relaunch" BY <1>1, <1>2, <1>7, <2>2
  <2>4. \A q \in Caller : call'[q].at = "save" => call[q].at = "save"
    BY <1>2, <1>7
  <2> QED BY <1>2, <1>4, <1>7, <2>1, <2>3, <2>4 DEF Listed
<1> QED BY <1>7, <1>8

LEMMA CollectKeeps ==
    ASSUME CallInv, Listed, NEW r \in Caller, Collect(r)
    PROVE  CallInv' /\ Listed'
<1> DEFINE x == [call[r] EXCEPT !.at = "save", !.list = watches]
<1>1. /\ call[r].w \in Watch /\ call[r].at = "collect" /\ call[r] # Resting
      /\ call[r].op # "relaunch" /\ watches \subseteq Watch
  BY CallFields, RestingType DEF Collect, Orderly, CallInv, ListTypes
<1>2. /\ x \in Call /\ x.at = "save" /\ x.w = call[r].w /\ x.op = call[r].op
      /\ x.list = watches
  BY <1>1, CallFields DEF Call, At
<1>3. call' = [call EXCEPT ![r] = x] BY DEF Collect
<1> HIDE DEF x
<1>4. /\ UNCHANGED <<watches, vault, count, unrestored>> /\ UNCHANGED adapterVars
      /\ raced' = (raced \/ \E q \in Caller : call[q].at = "save")
  BY DEF Collect
<1>5. ListTypes' BY <1>4 DEF CallInv, ListTypes, adapterVars
<1>6. Orderly(x) BY <1>1, <1>2 DEF Orderly
<1>7. CallInv' /\ call'[r] = x /\ \A q \in Caller \ {r} : call'[q] = call[q]
  BY <1>2, <1>3, <1>5, <1>6, CallMoves
<1>8. Listed'
  <2> SUFFICES ASSUME ~raced' PROVE Listed' BY DEF Listed
  <2>1. ~raced /\ \A q \in Caller : call[q].at # "save" BY <1>4
  <2>2. Unsaved' BY <1>2, <1>7 DEF Unsaved
  <2>3. \A q \in Caller : call[q].op # "relaunch" BY <1>1, <2>1 DEF Listed
  <2>4. \A q \in Caller : call'[q].op # "relaunch" BY <1>1, <1>2, <1>7, <2>3
  <2>5. \A q \in Caller : call'[q].at = "save" => q = r BY <1>7, <2>1
  <2> QED BY <1>2, <1>4, <1>7, <2>2, <2>4, <2>5 DEF Listed
<1> QED BY <1>7, <1>8

LEMMA SaveKeeps ==
    ASSUME CallInv, Listed, NEW r \in Caller, Save(r)
    PROVE  CallInv' /\ Listed'
<1>1. /\ call[r].at = "save" /\ call[r] # Resting /\ call[r].op # "relaunch"
      /\ call[r].list \subseteq Watch
  BY CallFields, RestingType DEF Save, Orderly
<1>2. call' = [call EXCEPT ![r] = Resting] BY DEF Save
<1>3. /\ vault' = call[r].list
      /\ UNCHANGED <<watches, raced, count, unrestored>> /\ UNCHANGED adapterVars
  BY DEF Save
<1>4. ListTypes' BY <1>1, <1>3 DEF CallInv, ListTypes, adapterVars
<1>5. CallInv' /\ call'[r] = Resting /\ \A q \in Caller \ {r} : call'[q] = call[q]
  BY <1>2, <1>4, RestingType, CallMoves
<1>6. Listed'
  <2> SUFFICES ASSUME ~raced PROVE Listed' BY <1>3 DEF Listed
  <2>1. \A q \in Caller \ {r} : call[q].at # "save" BY <1>1 DEF Listed
  <2>2. \A q \in Caller : call[q].op # "relaunch" BY <1>1 DEF Listed
  <2>3. \A q \in Caller : call'[q].op # "relaunch" /\ call'[q].at # "save"
    BY <1>5, <2>1, <2>2, RestingType
  <2>4. Unsaved' \/ Covered'
    <3>1. CASE \E q \in Caller : call[q].at = "collect"
      BY <1>1, <1>5, <3>1 DEF Unsaved
    <3>2. CASE ~\E q \in Caller : call[q].at = "collect"
      <4>1. vault' = watches BY <1>1, <1>3, <3>2 DEF Listed
      <4> QED BY <1>3, <4>1 DEF Covered
    <3> QED BY <3>1, <3>2
  <2> QED BY <2>3, <2>4 DEF Listed
<1> QED BY <1>5, <1>6

-----------------------------------------------------------------------------
(* A call begins; the process dies. *)

\* A call that is no relaunch begins: the list is not its business yet.
LEMMA BeginKeeps ==
    ASSUME CallInv, Listed, NEW r \in Caller, NEW x \in Call, Orderly(x),
           call[r].at = "idle", call' = [call EXCEPT ![r] = x],
           x.op # "relaunch", x.at \in {"launch", "leave"},
           raced' = (raced \/ Relaunching),
           UNCHANGED <<watches, vault, unrestored, watch_conn>>,
           count' = [count EXCEPT !.calls = @ + 1],
           tasks' \in [Watch -> 0..MaxStarts]
    PROVE  CallInv' /\ Listed'
<1>1. ListTypes' BY DEF CallInv, ListTypes
<1>2. CallInv' /\ call'[r] = x /\ \A q \in Caller \ {r} : call'[q] = call[q]
  BY <1>1, CallMoves
<1>3. call[r] = Resting BY CallFields DEF Orderly
<1>4. Listed'
  <2> SUFFICES ASSUME ~raced' PROVE Listed' BY DEF Listed
  <2>1. ~raced /\ \A q \in Caller : call[q].op # "relaunch" BY DEF Relaunching
  <2>2. \A q \in Caller : call'[q].op # "relaunch" BY <1>2, <2>1
  <2>3. Unsaved' <=> Unsaved BY <1>2, <1>3, RestingType DEF Unsaved
  <2>4. \A q \in Caller : Left(call'[q]) = {} /\ Left(call[q]) = {}
    BY <2>1, <2>2 DEF Left
  <2>5. Covered => Covered' BY <2>4 DEF Covered
  <2>6. \A q \in Caller : /\ call'[q].at = "save" => call[q].at = "save" /\ q # r
                          /\ call[q].at = "collect" => q # r
    BY <1>2, <1>3, RestingType
  <2> QED BY <1>2, <2>1, <2>2, <2>3, <2>5, <2>6 DEF Listed
<1> QED BY <1>2, <1>4

LEMMA StartStreamKeeps ==
    ASSUME CallInv, Listed, NEW r \in Caller, NEW w \in Watch, StartStream(r, w)
    PROVE  CallInv' /\ Listed'
<1> DEFINE ws == {w}
           x == [Resting EXCEPT !.at = "launch", !.todo = ws]
<1>0. ws \subseteq Watch OBVIOUS
<1> HIDE DEF ws
<1>2. x \in Call /\ x.op = "start" /\ x.at = "launch"
  BY <1>0, RestingType DEF Call, At
<1>3. call' = [call EXCEPT ![r] = x] /\ raced' = (raced \/ Relaunching)
  BY DEF StartStream, ws
<1> HIDE DEF x
<1>4. UNCHANGED <<watches, vault, unrestored>> /\ UNCHANGED adapterVars
  BY DEF StartStream
<1>5. call[r].at = "idle" /\ count' = [count EXCEPT !.calls = @ + 1]
  BY DEF StartStream, CanCall
<1>6. tasks' \in [Watch -> 0..MaxStarts] /\ watch_conn' = watch_conn
  BY <1>4 DEF CallInv, ListTypes, adapterVars
<1>7. Orderly(x) BY <1>2 DEF Orderly
<1> QED BY <1>2, <1>3, <1>4, <1>5, <1>6, <1>7, BeginKeeps

LEMMA StopStreamKeeps ==
    ASSUME CallInv, Listed, NEW r \in Caller, NEW w \in Watch, StopStream(r, w)
    PROVE  CallInv' /\ Listed'
<1> DEFINE x == [Resting EXCEPT !.at = "leave", !.op = "stop", !.w = w]
<1>2. x \in Call /\ x.op = "stop" /\ x.at = "leave" /\ x.w = w
  BY RestingType DEF Call, At
<1>3. call' = [call EXCEPT ![r] = x] /\ raced' = (raced \/ Relaunching)
  BY DEF StopStream
<1> HIDE DEF x
<1>4. /\ UNCHANGED <<watches, vault, unrestored>> /\ watch_conn' = watch_conn
      /\ tasks' = [tasks EXCEPT ![w] = 0]
  BY DEF StopStream, Detach
<1>5. call[r].at = "idle" /\ count' = [count EXCEPT !.calls = @ + 1]
  BY DEF StopStream, CanCall
<1>6. tasks' \in [Watch -> 0..MaxStarts]
  BY <1>4, NoInstance DEF CallInv, ListTypes
<1>7. Orderly(x) BY <1>2 DEF Orderly
<1> QED BY <1>2, <1>3, <1>4, <1>5, <1>6, <1>7, BeginKeeps

LEMMA RelaunchKeeps ==
    ASSUME CallInv, Listed, NEW r \in Caller, RelaunchMissing(r)
    PROVE  CallInv' /\ Listed'
<1> DEFINE list == vault \ watches
           x == [Resting EXCEPT !.at = "launch", !.op = "relaunch", !.todo = list]
<1>0. list \subseteq Watch BY DEF CallInv, ListTypes
<1>2. x \in Call /\ x.op = "relaunch" /\ x.at = "launch" /\ x.todo = list
  BY <1>0, RestingType DEF Call, At
<1>3. call' = [call EXCEPT ![r] = x]
      /\ raced' = (raced \/ \E q \in Caller : call[q] # Resting)
  BY DEF RelaunchMissing
<1> HIDE DEF x
<1>4. UNCHANGED <<watches, vault, unrestored>> /\ UNCHANGED adapterVars
  BY DEF RelaunchMissing
<1>5. count' = [count EXCEPT !.calls = @ + 1] BY DEF RelaunchMissing, CanCall
<1>6. ListTypes' BY <1>3, <1>4, <1>5 DEF CallInv, ListTypes, adapterVars
<1>7. Orderly(x) BY <1>2 DEF Orderly
<1>8. CallInv' /\ call'[r] = x /\ \A q \in Caller \ {r} : call'[q] = call[q]
  BY <1>2, <1>3, <1>6, <1>7, CallMoves
<1>9. Listed'
  <2> SUFFICES ASSUME ~raced' PROVE Listed' BY DEF Listed
  <2>1. ~raced /\ \A q \in Caller : call[q] = Resting BY <1>3
  <2>2. ~Unsaved /\ \A q \in Caller : Left(call[q]) = {}
    BY <2>1, RestingType DEF Unsaved, Left
  <2>3. Covered BY <2>1, <2>2 DEF Listed
  <2>4. Left(x) = list BY <1>2 DEF Left
  <2>5. Covered' BY <1>4, <1>8, <2>3, <2>4 DEF Covered
  <2>6. \A q \in Caller \ {r} : call'[q] = Resting BY <1>8, <2>1
  <2>7. \A q \in Caller : /\ call'[q].at # "save"
                          /\ call'[q].op = "relaunch" => q = r
    BY <1>2, <1>8, <2>6, RestingType
  <2> QED BY <1>4, <1>8, <2>4, <2>5, <2>6, <2>7 DEF Listed
<1> QED BY <1>8, <1>9

\* Start-up, at first and after a crash: the vault is all there is.
LEMMA BootCalls ==
    ASSUME NEW list \in SUBSET Watch
    PROVE  /\ Restoring(list) \in [Caller -> Call]
           /\ \A r \in Caller : /\ Orderly(Restoring(list)[r])
                                /\ Restoring(list)[r].at \in {"idle", "launch"}
                                /\ r # Boot => Restoring(list)[r] = Resting
                                /\ Restoring(list)[r].op = "relaunch" => r = Boot
           /\ Left(Restoring(list)[Boot]) = list
<1> DEFINE x == [Resting EXCEPT !.at = "launch", !.op = "relaunch", !.todo = list]
<1>2. x \in Call /\ x.op = "relaunch" /\ x.at = "launch" /\ x.todo = list
  BY RestingType DEF Call, At
<1>3. Orderly(x) BY <1>2 DEF Orderly
<1>4. Left(x) = list /\ Left(Resting) = {} BY <1>2, RestingType DEF Left
<1>5. Restoring(list) = [r \in Caller |-> IF r = Boot /\ list # {} THEN x ELSE Resting]
  BY DEF Restoring
<1> HIDE DEF x
<1>6. \A r \in Caller : Restoring(list)[r] = IF r = Boot /\ list # {} THEN x ELSE Resting
  BY <1>5
<1>7. Restoring(list) \in [Caller -> Call] BY <1>2, <1>5, RestingType
<1>8. Boot \in Caller BY WatchesAssumption
<1> QED BY <1>2, <1>3, <1>4, <1>6, <1>7, <1>8, RestingType

Booting == vault \in SUBSET Watch /\ call = Restoring(vault) /\ watches = {}

LEMMA BootListed == Booting => Listed
<1> SUFFICES ASSUME Booting PROVE Listed OBVIOUS
<1>0. vault \in SUBSET Watch /\ call = Restoring(vault) /\ watches = {}
  BY DEF Booting
<1>1. \A q \in Caller : call[q].at # "save" BY <1>0, BootCalls
<1>2. Boot \in Caller /\ Left(call[Boot]) = vault BY <1>0, BootCalls, WatchesAssumption
<1>3. Covered BY <1>0, <1>2 DEF Covered
<1>4. \A q \in Caller : call[q].op = "relaunch" =>
         /\ Left(call[q]) \subseteq vault
         /\ \A r \in Caller \ {q} : call[r] = Resting
  BY <1>0, <1>2, BootCalls
<1> QED BY <1>1, <1>3, <1>4 DEF Listed

Down ==
    /\ mode \in Modes /\ starts \in 0..MaxStarts /\ handle = 0 /\ marred = {}
    /\ faults \in [drops : Nat, refusals : Nat]
    /\ inst = [i \in Inst |-> Unborn] /\ conn = [i \in Inst |-> NoTask]

LEMMA NobodyRuns == Down => ConnInv /\ NoHandle
<1> SUFFICES ASSUME Down PROVE ConnInv /\ NoHandle OBVIOUS
<1> USE DEF Down
<1>1. Unborn \in Instance /\ Unborn.watch = NoWatch
  BY DEF Unborn, Instance, Status, Verdict
<1>2. inst \in [Inst -> Instance] /\ \A i \in Inst : inst[i].watch = NoWatch
  BY <1>1
<1>3. conn \in [Inst -> Task] BY NoTaskType
<1>4. \A c \in Inst : ~Running(c) /\ Held(c) = {}
  BY NoTaskType, AddsOfNone DEF Running, Held
<1>5. ConnTypes BY <1>2, <1>3, NoInstance DEF ConnTypes
<1>6. Born /\ Fresh /\ Single /\ Answers
  BY <1>2, <1>4 DEF Born, Fresh, Single, Answers
<1> QED BY <1>5, <1>6 DEF ConnInv, NoHandle

-----------------------------------------------------------------------------
(* Every step keeps the invariant. *)

LEMMA CrashKeeps ==
    ASSUME Inv, Crash
    PROVE  Inv'
<1>1. ConnInv' /\ NoHandle'
  <2>1. Down' BY DEF Crash, CrashConnections, Inv, ConnInv, ConnTypes, Down, Inst,
                     Unborn, NoTask
  <2>2. (Down => ConnInv /\ NoHandle)' BY NobodyRuns, PTL
  <2> QED BY <2>1, <2>2
<1>2. /\ tasks' = [w \in Watch |-> 0] /\ watch_conn' = {} /\ watches' = {}
      /\ raced' = FALSE /\ unrestored' = {} /\ vault' = vault
      /\ call' = Restoring(vault) /\ count' = [count EXCEPT !.crashes = @ + 1]
  BY DEF Crash
<1>3. vault \in SUBSET Watch BY DEF Inv, CallInv, ListTypes
<1>4. ListTypes'
  <2>1. tasks' \in [Watch -> 0..MaxStarts] BY <1>2, NoInstance
  <2>2. count' \in [calls : Nat, crashes : Nat]
    BY <1>2 DEF Inv, CallInv, ListTypes
  <2> QED BY <1>2, <1>3, <2>1, <2>2 DEF ListTypes
<1>5. CallInv' BY <1>2, <1>3, <1>4, BootCalls DEF CallInv
<1>6. Booting' BY <1>2, <1>3 DEF Booting, Restoring, Resting
<1>7. Listed'
  <2>1. (Booting => Listed)' BY BootListed, PTL
  <2> QED BY <1>6, <2>1
<1> QED BY <1>1, <1>5, <1>7 DEF Inv

\* The callers' side is as it was.
LEMMA SameCalls ==
    ASSUME CallInv, Listed, UNCHANGED <<adapterVars, managerVars, call, count>>
    PROVE  CallInv' /\ Listed'
BY DEF CallInv, ListTypes, Orderly, Resting, Listed, Unsaved, Covered, Left,
       adapterVars, managerVars

LEMMA NetKeeps ==
    ASSUME Inv, NEW c \in Inst, NetStep(c)
    PROVE  Inv'
<1>1. Types BY TypesSplit DEF Inv, ConnInv, CallInv, Types
<1>2. Turn(c) BY <1>1, StepIsTurn DEF NetStep
<1>3. ConnInv' BY <1>2, TurnKeeps DEF Inv
<1>4. NoHandle' BY <1>2 DEF Inv, NoHandle, Turn
<1>5. CallInv' /\ Listed' BY SameCalls DEF NetStep, Inv
<1> QED BY <1>3, <1>4, <1>5 DEF Inv

LEMMA SameConnections ==
    ASSUME ConnInv, NoHandle, UNCHANGED connectionVars
    PROVE  ConnInv' /\ NoHandle'
<1>1. UNCHANGED <<mode, inst, starts, conn, handle, faults, marred>>
  BY DEF connectionVars
<1>2. ConnInv' BY <1>1, QuietKeeps
      DEF ConnInv, ConnTypes, Held, Adds, Running, Waiting, Inst
<1> QED BY <1>1, <1>2 DEF NoHandle

\* A watch leaves the registry: its task is told to stop.
LEMMA DetachKeeps ==
    ASSUME Inv, NEW w \in Watch, Detach(w),
           marred' = marred \/ marred' = marred \cup {w}
    PROVE  ConnInv' /\ NoHandle'
<1>1. marred' \subseteq Watch BY DEF Inv, ConnInv, ConnTypes
<1>2. tasks \in [Watch -> 0..MaxStarts] BY DEF Inv, CallInv, ListTypes
<1>3. conn' = Cancel(w) /\ UNCHANGED <<mode, inst, starts, handle, faults>>
  BY DEF Detach
<1>4. ConnInv' BY <1>1, <1>2, <1>3, CancelKeeps DEF Inv
<1> QED BY <1>3, <1>4 DEF NoHandle, Inv

LEMMA NewCallKeeps ==
    ASSUME Inv, NEW r \in Caller, NewCall(r)
    PROVE  Inv'
<1>1. ASSUME NEW w \in Watch, StartStream(r, w) PROVE Inv'
  <2>1. UNCHANGED connectionVars BY <1>1 DEF StartStream
  <2> QED BY <1>1, <2>1, StartStreamKeeps, SameConnections DEF Inv
<1>2. ASSUME NEW w \in Watch, StopStream(r, w) PROVE Inv'
  <2>1. Detach(w) /\ (marred' = marred \/ marred' = marred \cup {w})
    BY <1>2 DEF StopStream
  <2> QED BY <1>2, <2>1, StopStreamKeeps, DetachKeeps DEF Inv
<1>3. CASE RelaunchMissing(r)
  <2>1. UNCHANGED connectionVars BY <1>3 DEF RelaunchMissing
  <2> QED BY <1>3, <2>1, RelaunchKeeps, SameConnections DEF Inv
<1> QED BY <1>1, <1>2, <1>3 DEF NewCall

LEMMA CallStepKeeps ==
    ASSUME Inv, NEW r \in Caller, CallStep(r)
    PROVE  Inv'
<1>1. ASSUME NEW w \in Watch, LaunchFails(r, w) PROVE Inv'
  <2>1. UNCHANGED connectionVars BY <1>1 DEF LaunchFails
  <2> QED BY <1>1, <2>1, LaunchFailsKeeps, SameConnections DEF Inv
<1>2. ASSUME NEW w \in Watch, Launch(r, w) PROVE Inv'
  <2>1. Detach(w) /\ (marred' = marred \/ marred' = marred \cup {w})
    BY <1>2 DEF Launch
  <2> QED BY <1>2, <2>1, LaunchKeeps, DetachKeeps DEF Inv
<1>3. CASE Start(r) BY <1>3, StartKeeps DEF Inv
<1>4. CASE StartOnDead(r)
  <2>1. ConnInv' /\ mode' = mode /\ handle' = 0
    BY <1>4, DeadKeeps DEF StartOnDead, Inv
  <2>2. NoHandle' BY <2>1 DEF NoHandle
  <2> QED BY <1>4, <2>1, <2>2, StartOnDeadKeeps DEF Inv
<1>5. CASE Bind(r)
  <2>1. UNCHANGED connectionVars BY <1>5 DEF Bind
  <2> QED BY <1>5, <2>1, BindKeeps, SameConnections DEF Inv
<1>6. CASE Rejected(r)
  <2>1. UNCHANGED connectionVars BY <1>6 DEF Rejected
  <2> QED BY <1>6, <2>1, RejectedKeeps, SameConnections DEF Inv
<1>7. CASE Registered(r)
  <2>1. UNCHANGED connectionVars BY <1>7 DEF Registered
  <2> QED BY <1>7, <2>1, RegisteredKeeps, SameConnections DEF Inv
<1>8. CASE LeaveShared(r) BY <1>8, LeaveSharedKeeps DEF Inv
<1>9. CASE Forget(r)
  <2>1. UNCHANGED connectionVars BY <1>9 DEF Forget
  <2> QED BY <1>9, <2>1, ForgetKeeps, SameConnections DEF Inv
<1>10. CASE Collect(r)
  <2>1. UNCHANGED connectionVars BY <1>10 DEF Collect
  <2> QED BY <1>10, <2>1, CollectKeeps, SameConnections DEF Inv
<1>11. CASE Save(r)
  <2>1. UNCHANGED connectionVars BY <1>11 DEF Save
  <2> QED BY <1>11, <2>1, SaveKeeps, SameConnections DEF Inv
<1> QED BY <1>1, <1>2, <1>3, <1>4, <1>5, <1>6, <1>7, <1>8, <1>9, <1>10, <1>11
        DEF CallStep

LEMMA InitKeeps == Init => Inv
<1> SUFFICES ASSUME Init PROVE Inv OBVIOUS
<1>1. ConnInv /\ NoHandle
  <2>1. starts \in 0..MaxStarts /\ [drops |-> 0, refusals |-> 0] \in [drops : Nat, refusals : Nat]
    BY NoInstance DEF Init, ConnectionInit
  <2> QED BY <2>1, NobodyRuns DEF Init, ConnectionInit, Down
<1>2. vault \in SUBSET Watch BY WatchesAssumption DEF Init
<1>3. ListTypes
  <2>1. [calls |-> 0, crashes |-> 0] \in [calls : Nat, crashes : Nat] OBVIOUS
  <2> QED BY <1>2, <2>1, NoInstance DEF Init, ListTypes
<1>4. CallInv BY <1>2, <1>3, BootCalls DEF Init, CallInv
<1>5. Listed BY <1>2, BootListed DEF Init, Booting
<1> QED BY <1>1, <1>4, <1>5 DEF Inv

\* The registry, its saved list, the starts, the requests and the connections
\* hang together through every interleaving, refusal, lost socket and crash.
THEOREM Invariance == Spec => []Inv
<1>1. Inv /\ [Next]_vars => Inv'
  <2> SUFFICES ASSUME Inv, [Next]_vars PROVE Inv' OBVIOUS
  <2>1. ASSUME NEW r \in Caller, CallStep(r) \/ NewCall(r) PROVE Inv'
    BY <2>1, CallStepKeeps, NewCallKeeps
  <2>2. ASSUME NEW c \in Inst, NetStep(c) PROVE Inv' BY <2>2, NetKeeps
  <2>3. CASE Crash BY <2>3, CrashKeeps
  <2>4. CASE UNCHANGED vars
    <3>1. UNCHANGED connectionVars /\ UNCHANGED <<adapterVars, managerVars, call, count>>
      BY <2>4 DEF vars
    <3> QED BY <3>1, SameConnections, SameCalls DEF Inv
  <2> QED BY <2>1, <2>2, <2>3, <2>4 DEF Next
<1> QED BY <1>1, InitKeeps, PTL DEF Spec

-----------------------------------------------------------------------------
\* Whatever watches, callers, venues and bounds: the state is well formed.
THEOREM StreamTypes == Spec => []TypeOK
<1>1. Inv => TypeOK BY TypesSplit DEF Inv, ConnInv, CallInv
<1> QED BY <1>1, Invariance, PTL

\* A module that shares its socket has one connection task at most, the one in
\* the registry: start() spawns none while one runs (ws_stream.rs:193).
THEOREM OneSocketAlways == Spec => []OneSocket
<1>1. Inv => OneSocket BY DEF Inv, ConnInv, Single, OneSocket
<1> QED BY <1>1, Invariance, PTL

\* A start that still waits is with a task that has something left to do, so
\* that no lost socket, refusal or departure of another strands it.
THEOREM StartsAreAnsweredAlways == Spec => []StartsAreAnswered
<1>1. ASSUME Inv PROVE StartsAreAnswered
  <2>1. SUFFICES ASSUME mode.acks, NEW i \in Inst, inst[i].watch # NoWatch,
                        inst[i].verdict = "none"
                 PROVE  \E c \in Inst : /\ Running(c) /\ ~AtRest(c)
                                        /\ i \in conn[c].members \cup Queued(c)
    BY DEF StartsAreAnswered
  <2>2. PICK c \in Inst : Waiting(i, c) BY <1>1, <2>1 DEF Inv, ConnInv, Answers
  <2>3. Running(c) /\ i \in conn[c].members \cup Queued(c)
    BY <2>2, QueuedAdds DEF Waiting, Held
  <2>4. ~AtRest(c) BY <2>2, AddsOfNone DEF Waiting, Held, AtRest
  <2> QED BY <2>3, <2>4
<1> QED BY <1>1, Invariance, PTL

\* Between calls the vault has the list that the next start-up restores, unless
\* two calls saved it at once or a relaunch read it while it changed.
THEOREM ListIsSavedAlways == Spec => []ListIsSaved
<1>1. Inv => ListIsSaved BY SavedWhenListed DEF Inv
<1> QED BY <1>1, Invariance, PTL
=============================================================================
