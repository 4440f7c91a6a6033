-------------------------- MODULE StreamServedProofs --------------------------
(***************************************************************************)
(* Theorems of StreamWatches about what the tasks serve: nothing but the   *)
(* instance in the registry, and nothing the socket was not asked for.     *)
(*                                                                         *)
(* A task serves its members and, once it has read them, the commands in   *)
(* its queue.  The argument is about the order of these commands: of a     *)
(* watch, a Remove stands between any two instances, so that reading one   *)
(* never lets another through that it was meant for.                       *)
(***************************************************************************)
EXTENDS StreamProofs

-----------------------------------------------------------------------------
(***************************************************************************)
(* The queue of a task t, its members in front of it in slot 0.            *)
(***************************************************************************)
Remove(w) == [op |-> "remove", watch |-> w]

Slots(t) == {0} \cup DOMAIN t.cmds

\* Instance i is in slot k.
In(t, i, k) ==
    IF k = 0 THEN i \in t.members ELSE k \in DOMAIN t.cmds /\ t.cmds[k] = Add(i)

\* No instance is handed over twice.
Once(t) ==
    \A i \in Inst : \A k, l \in Slots(t) : In(t, i, k) /\ In(t, i, l) => k = l

RemovesFrom(t, w, k) == {m \in DOMAIN t.cmds : m > k /\ t.cmds[m] = Remove(w)}

\* Between two of the instances is there is a Remove of their watch, w.
Spaced(t, is, w) ==
    \A i, j \in is : \A k, l \in Slots(t) :
        In(t, i, k) /\ In(t, j, l) /\ k <= l =>
            (i = j /\ k = l) \/ \E m \in RemovesFrom(t, w, k) : m < l

\* Those of the instances that no Remove waits for.
Stays(t, is, w) ==
    {i \in is : \E k \in Slots(t) : In(t, i, k) /\ RemovesFrom(t, w, k) = {}}

-----------------------------------------------------------------------------
(***************************************************************************)
(* The inductive invariant, in named parts.                                *)
(***************************************************************************)
\* The instances of a watch.
Of(w) == {i \in Inst : inst[i].watch = w}

\* A task that is not running has nothing, a shared one is not cancelled, and
\* one of its own has the instance it was spawned for.
Holdings ==
    \A c \in Inst :
        /\ ~Running(c) => conn[c].members = {} /\ conn[c].cmds = << >>
        /\ mode.share => ~conn[c].cancel
        /\ ~mode.share => Held(c) \subseteq {c}

Queues ==
    \A c \in Inst :
        /\ Once(conn[c])
        /\ \A w \in Watch \ marred : Spaced(conn[c], Of(w), w)

\* Who was refused is not served any longer.
RefusedLeave ==
    \A c \in Inst : \A i \in Held(c) :
        inst[i].verdict = "err" => inst[i].watch \in marred

\* A watch has one call at a time, which knows what the registry has for it.
OneCall(w) ==
    \A r \in Caller : Busy(r, w) =>
        /\ \A q \in Caller : Busy(q, w) => q = r
        /\ call[r].at \in {"join", "leave", "forget"} => tasks[w] = 0
        /\ call[r].at \in {"bind", "wait"} => tasks[w] = call[r].i

\* What is served is the instance in the registry, until the second half of
\* stop(), which will find the shared task.
ServesOne(w) ==
    /\ \/ Serving(w) \subseteq {tasks[w]}
       \/ mode.share /\ \E r \in Caller : Busy(r, w) /\ call[r].at = "leave"
    /\ \/ Serving(w) = {} \/ ~mode.share \/ w \in watch_conn
       \/ \E r \in Caller : Busy(r, w) /\ call[r].at = "bind"

\* The tasks are in order, and what they do for a watch that is not spoiled.
TasksInv == Holdings /\ Queues /\ RefusedLeave /\ LiveIsAsked

ServedInv == TasksInv /\ \A w \in Watch \ marred : OneCall(w) /\ ServesOne(w)

-----------------------------------------------------------------------------
(* What a task may do to its queue, and what that keeps. *)

LEMMA TaskQueue ==
    ASSUME NEW t \in Task
    PROVE  /\ t.cmds \in Seq(Command) /\ t.members \subseteq Inst
           /\ DOMAIN t.cmds = 1..Len(t.cmds) /\ Len(t.cmds) \in Nat
           /\ \A k \in Slots(t) : k \in Nat
           /\ \A k \in Slots(t) : k # 0 => k \in DOMAIN t.cmds
BY DEF Task, Slots

LEMMA DistinctCommands ==
    /\ \A i, j : Add(i) = Add(j) => i = j
    /\ \A v, w : Remove(v) = Remove(w) => v = w
    /\ \A i, w : Add(i) # Remove(w)
BY DEF Add, Remove

LEMMA TailSlots ==
    ASSUME NEW t \in Task, NEW u \in Task, t.cmds # << >>, u.cmds = Tail(t.cmds)
    PROVE  /\ 1 \in DOMAIN t.cmds /\ t.cmds[1] = Head(t.cmds)
           /\ \A k \in DOMAIN u.cmds : k + 1 \in DOMAIN t.cmds
                                       /\ u.cmds[k] = t.cmds[k + 1]
           /\ \A m \in DOMAIN t.cmds : m > 1 => /\ m - 1 \in DOMAIN u.cmds
                                                /\ u.cmds[m - 1] = t.cmds[m]
<1> DEFINE q == t.cmds
<1>1. q \in Seq(Command) /\ q # << >> BY TaskQueue
<1>2. /\ Len(q) \in Nat /\ Len(q) >= 1 /\ Len(Tail(q)) = Len(q) - 1
      /\ DOMAIN q = 1..Len(q) /\ DOMAIN Tail(q) = 1..(Len(q) - 1)
      /\ Head(q) = q[1] /\ \A k \in 1..(Len(q) - 1) : Tail(q)[k] = q[k + 1]
  <2> HIDE DEF q
  <2> QED BY <1>1
<1>3. u.cmds = Tail(q) OBVIOUS
<1> HIDE DEF q
<1>4. 1 \in DOMAIN q BY <1>2
<1>5. \A k \in DOMAIN Tail(q) : k + 1 \in DOMAIN q /\ Tail(q)[k] = q[k + 1] BY <1>2
<1>6. \A m \in DOMAIN q : m > 1 => m - 1 \in DOMAIN Tail(q) /\ Tail(q)[m - 1] = q[m]
  <2> SUFFICES ASSUME NEW m \in 1..Len(q), m > 1
               PROVE  m - 1 \in DOMAIN Tail(q) /\ Tail(q)[m - 1] = q[m]
    BY <1>2
  <2>1. m - 1 \in 1..(Len(q) - 1) /\ (m - 1) + 1 = m BY <1>2
  <2> QED BY <1>2, <2>1
<1> QED BY <1>2, <1>3, <1>4, <1>5, <1>6 DEF q

\* The slot that i was in before the first command was read.
Slot(t, i, k) == IF k > 0 THEN k + 1 ELSE IF i \in t.members THEN 0 ELSE 1

LEMMA SlotBefore ==
    ASSUME NEW t \in Task, NEW u \in Task, t.cmds # << >>, u.cmds = Tail(t.cmds),
           NEW i \in Inst, NEW k \in Slots(u), In(u, i, k),
           i \in u.members => i \in t.members \/ Head(t.cmds) = Add(i)
    PROVE  /\ Slot(t, i, k) \in Slots(t) /\ In(t, i, Slot(t, i, k))
           /\ k \in Nat /\ Slot(t, i, k) \in Nat
<1>1. k \in Nat BY TaskQueue
<1>2. CASE k > 0
  <2>1. k \in DOMAIN u.cmds /\ u.cmds[k] = Add(i) BY <1>2 DEF In
  <2>2. k + 1 \in DOMAIN t.cmds /\ t.cmds[k + 1] = Add(i) BY <2>1, TailSlots
  <2> QED BY <1>1, <1>2, <2>2 DEF Slot, Slots, In
<1>3. CASE k = 0
  <2>1. i \in u.members BY <1>3 DEF In
  <2>2. CASE i \in t.members BY <1>3, <2>2 DEF Slot, Slots, In
  <2>3. CASE i \notin t.members
    <3>1. 1 \in DOMAIN t.cmds /\ t.cmds[1] = Add(i) BY <2>1, <2>3, TailSlots
    <3> QED BY <1>3, <2>3, <3>1 DEF Slot, Slots, In
  <2> QED BY <2>2, <2>3
<1> QED BY <1>1, <1>2, <1>3

LEMMA OnceReading ==
    ASSUME NEW t \in Task, NEW u \in Task, t.cmds # << >>, u.cmds = Tail(t.cmds),
           \A i \in u.members : i \in t.members \/ Head(t.cmds) = Add(i),
           Once(t)
    PROVE  Once(u)
<1> SUFFICES ASSUME NEW i \in Inst, NEW k \in Slots(u), NEW l \in Slots(u),
                    In(u, i, k), In(u, i, l)
             PROVE  k = l
  BY DEF Once
<1>1. /\ Slot(t, i, k) \in Slots(t) /\ In(t, i, Slot(t, i, k)) /\ k \in Nat
      /\ Slot(t, i, l) \in Slots(t) /\ In(t, i, Slot(t, i, l)) /\ l \in Nat
  BY SlotBefore
<1>2. Slot(t, i, k) = Slot(t, i, l) BY <1>1 DEF Once
<1> QED BY <1>1, <1>2 DEF Slot

\* Reading a command: an Add, a Remove of another watch, or the Remove that
\* leaves no member of w.
LEMMA SpacedReading ==
    ASSUME NEW t \in Task, NEW u \in Task, t.cmds # << >>, u.cmds = Tail(t.cmds),
           NEW w, NEW is \in SUBSET Inst,
           \A i \in is \cap u.members :
               /\ i \in t.members \/ Head(t.cmds) = Add(i)
               /\ Head(t.cmds) # Remove(w)
    PROVE  /\ Stays(u, is, w) \subseteq Stays(t, is, w)
           /\ Spaced(t, is, w) => Spaced(u, is, w)
<1>1. ASSUME NEW i \in is, NEW k \in Slots(u), In(u, i, k)
      PROVE  /\ Slot(t, i, k) \in Slots(t) /\ In(t, i, Slot(t, i, k))
             /\ k \in Nat /\ Slot(t, i, k) \in Nat
             /\ \A m \in RemovesFrom(t, w, Slot(t, i, k)) :
                    m \in Nat /\ m > 1 /\ m - 1 \in RemovesFrom(u, w, k)
  <2>1. /\ Slot(t, i, k) \in Slots(t) /\ In(t, i, Slot(t, i, k))
        /\ k \in Nat /\ Slot(t, i, k) \in Nat
    BY <1>1, SlotBefore
  <2>2. ASSUME NEW m \in RemovesFrom(t, w, Slot(t, i, k))
        PROVE  m \in Nat /\ m > 1 /\ m - 1 \in RemovesFrom(u, w, k)
    <3>1. m \in DOMAIN t.cmds /\ m > Slot(t, i, k) /\ t.cmds[m] = Remove(w)
          /\ m \in Nat
      BY <2>2, TaskQueue DEF RemovesFrom
    <3>2. m > 1 /\ m - 1 > k
      <4>1. CASE k > 0 BY <2>1, <3>1, <4>1 DEF Slot
      <4>2. CASE k = 0
        <5>1. i \in u.members BY <1>1, <4>2 DEF In
        <5>2. t.cmds[1] # Remove(w) BY <5>1, TailSlots
        <5> QED BY <2>1, <3>1, <4>2, <5>2
      <4> QED BY <2>1, <4>1, <4>2
    <3>3. m - 1 \in DOMAIN u.cmds /\ u.cmds[m - 1] = t.cmds[m]
      BY <3>1, <3>2, TailSlots
    <3> QED BY <3>1, <3>2, <3>3 DEF RemovesFrom
  <2> QED BY <2>1, <2>2
<1>2. Stays(u, is, w) \subseteq Stays(t, is, w)
  <2> SUFFICES ASSUME NEW i \in is, NEW k \in Slots(u), In(u, i, k),
                      RemovesFrom(u, w, k) = {}
               PROVE  i \in Stays(t, is, w)
    BY DEF Stays
  <2>1. RemovesFrom(t, w, Slot(t, i, k)) = {} BY <1>1
  <2> QED BY <1>1, <2>1 DEF Stays
<1>3. ASSUME Spaced(t, is, w) PROVE Spaced(u, is, w)
  <2> SUFFICES ASSUME NEW i \in is, NEW j \in is,
                      NEW k \in Slots(u), NEW l \in Slots(u),
                      In(u, i, k), In(u, j, l), k <= l
               PROVE  (i = j /\ k = l) \/ \E m \in RemovesFrom(u, w, k) : m < l
    BY DEF Spaced
  <2> DEFINE a == Slot(t, i, k)
             b == Slot(t, j, l)
  <2>1. /\ a \in Slots(t) /\ In(t, i, a) /\ k \in Nat /\ a \in Nat
        /\ b \in Slots(t) /\ In(t, j, b) /\ l \in Nat /\ b \in Nat
        /\ \A m \in RemovesFrom(t, w, a) :
               m \in Nat /\ m > 1 /\ m - 1 \in RemovesFrom(u, w, k)
        /\ \A m \in RemovesFrom(t, w, b) : m \in Nat /\ m > 1
    BY <1>1
  <2>2. CASE k < l
    <3>1. a < b /\ b = l + 1 BY <2>1, <2>2 DEF Slot
    <3>2. PICK m \in RemovesFrom(t, w, a) : m < b BY <1>3, <2>1, <3>1 DEF Spaced
    <3>3. m \in Nat /\ m - 1 < l /\ m - 1 \in RemovesFrom(u, w, k)
      BY <2>1, <3>1, <3>2
    <3> QED BY <3>3
  <2>3. CASE k = l
    <3>1. a = b \/ (a \in {0, 1} /\ b \in {0, 1}) BY <2>1, <2>3 DEF Slot
    <3>2. i = j
      <4>1. CASE a <= b
        <5>1. (i = j /\ a = b) \/ \E m \in RemovesFrom(t, w, a) : m < b
          BY <1>3, <2>1, <4>1 DEF Spaced
        <5>2. ~\E m \in RemovesFrom(t, w, a) : m < b
          BY <2>1, <3>1 DEF RemovesFrom
        <5> QED BY <5>1, <5>2
      <4>2. CASE b <= a
        <5>1. (j = i /\ b = a) \/ \E m \in RemovesFrom(t, w, b) : m < a
          BY <1>3, <2>1, <4>2 DEF Spaced
        <5>2. ~\E m \in RemovesFrom(t, w, b) : m < a
          BY <2>1, <3>1 DEF RemovesFrom
        <5> QED BY <5>1, <5>2
      <4> QED BY <2>1, <4>1, <4>2
    <3> QED BY <2>3, <3>2
  <2> QED BY <2>1, <2>2, <2>3
<1> QED BY <1>2, <1>3

\* The queue as it is, with fewer members.
LEMMA SpacedLeaving ==
    ASSUME NEW t, NEW u, u.cmds = t.cmds, u.members \subseteq t.members,
           NEW w, NEW is
    PROVE  /\ Stays(u, is, w) \subseteq Stays(t, is, w)
           /\ Spaced(t, is, w) => Spaced(u, is, w)
           /\ Once(t) => Once(u)
BY DEF Stays, Spaced, Once, Slots, In, RemovesFrom

LEMMA SpacedNone ==
    ASSUME NEW t, t.cmds = << >>, NEW w, NEW is
    PROVE  /\ t.members = {} => Stays(t, is, w) = {}
           /\ (\A i, j \in is \cap t.members : i = j) => Spaced(t, is, w)
           /\ Once(t)
<1>1. Slots(t) = {0} BY DEF Slots
<1> QED BY <1>1 DEF Stays, Spaced, Once, In

\* A Remove behind all the others: none of its watch stays.
LEMMA SendRemove ==
    ASSUME NEW t \in Task, NEW u, NEW v, u.members = t.members,
           u.cmds = Append(t.cmds, Remove(v))
    PROVE  /\ Once(t) => Once(u)
           /\ \A w, is : /\ Spaced(t, is, w) => Spaced(u, is, w)
                         /\ Stays(u, is, w) \subseteq Stays(t, is, w)
           /\ \A is : Stays(u, is, v) = {}
<1> DEFINE n == Len(t.cmds) + 1
<1>1. /\ t.cmds \in Seq(Command) /\ n \in Nat /\ n # 0
      /\ DOMAIN t.cmds = 1..Len(t.cmds) /\ Len(t.cmds) \in Nat
  BY TaskQueue
<1>2. /\ DOMAIN u.cmds = DOMAIN t.cmds \cup {n} /\ u.cmds[n] = Remove(v)
      /\ \A k \in DOMAIN t.cmds : u.cmds[k] = t.cmds[k]
      /\ \A k \in Slots(t) : k \in Nat /\ k < n
  <2>1. /\ Len(u.cmds) = n /\ DOMAIN u.cmds = 1..n /\ u.cmds[n] = Remove(v)
        /\ \A k \in 1..Len(t.cmds) : u.cmds[k] = t.cmds[k]
    BY <1>1
  <2> QED BY <1>1, <2>1 DEF Slots
<1> HIDE DEF n
<1>3. ASSUME NEW i, NEW k \in Slots(u), In(u, i, k)
      PROVE  k \in Slots(t) /\ In(t, i, k)
  BY <1>2, <1>3, DistinctCommands DEF Slots, In
<1>4. \A w : \A k \in Slots(t) :
         /\ RemovesFrom(t, w, k) \subseteq RemovesFrom(u, w, k)
         /\ n \in RemovesFrom(u, v, k)
  BY <1>2 DEF RemovesFrom
<1>5. \A is : Stays(u, is, v) = {} BY <1>3, <1>4 DEF Stays
<1>6. \A w, is : Stays(u, is, w) \subseteq Stays(t, is, w)
  BY <1>3, <1>4 DEF Stays
<1>7. \A w, is : Spaced(t, is, w) => Spaced(u, is, w)
  BY <1>3, <1>4 DEF Spaced
<1>8. Once(t) => Once(u) BY <1>3 DEF Once
<1> QED BY <1>5, <1>6, <1>7, <1>8

\* A new instance behind all the others: it stays, and is spaced from them if
\* none of its watch does.
LEMMA SendAdd ==
    ASSUME NEW t \in Task, NEW u, NEW n \in Inst, u.members = t.members,
           u.cmds = Append(t.cmds, Add(n)), n \notin t.members \cup Adds(t.cmds)
    PROVE  /\ Once(t) => Once(u)
           /\ \A w : \A is : n \notin is =>
                /\ Spaced(t, is, w) => Spaced(u, is, w)
                /\ Stays(u, is, w) \subseteq Stays(t, is, w)
                /\ Stays(u, is \cup {n}, w) \subseteq Stays(t, is, w) \cup {n}
                /\ Spaced(t, is, w) /\ Stays(t, is, w) = {}
                     => Spaced(u, is \cup {n}, w)
<1> DEFINE e == Len(t.cmds) + 1
<1>1. /\ t.cmds \in Seq(Command) /\ e \in Nat /\ e # 0
      /\ DOMAIN t.cmds = 1..Len(t.cmds) /\ Len(t.cmds) \in Nat
  BY TaskQueue
<1>2. /\ DOMAIN u.cmds = DOMAIN t.cmds \cup {e} /\ u.cmds[e] = Add(n)
      /\ \A k \in DOMAIN t.cmds : u.cmds[k] = t.cmds[k]
      /\ \A k \in Slots(t) : k \in Nat /\ k < e
  <2>1. /\ Len(u.cmds) = e /\ DOMAIN u.cmds = 1..e /\ u.cmds[e] = Add(n)
        /\ \A k \in 1..Len(t.cmds) : u.cmds[k] = t.cmds[k]
    BY <1>1
  <2> QED BY <1>1, <2>1 DEF Slots
<1>3. \A k \in Slots(t) : ~In(t, n, k) BY <1>1 DEF In, Adds, Slots
<1> HIDE DEF e
<1>4. Slots(u) = Slots(t) \cup {e} BY <1>2 DEF Slots
<1>5. ASSUME NEW i, NEW k \in Slots(u), In(u, i, k)
      PROVE  (k \in Slots(t) /\ In(t, i, k)) \/ (k = e /\ i = n)
  BY <1>1, <1>2, <1>5, DistinctCommands DEF Slots, In
<1>6. \A w : \A k \in Slots(t) : RemovesFrom(u, w, k) = RemovesFrom(t, w, k)
  BY <1>2, DistinctCommands DEF RemovesFrom
<1>7. Once(t) => Once(u) BY <1>3, <1>5 DEF Once
<1>8. ASSUME NEW w, NEW is, n \notin is
      PROVE  /\ Spaced(t, is, w) => Spaced(u, is, w)
             /\ Stays(u, is, w) \subseteq Stays(t, is, w)
             /\ Stays(u, is \cup {n}, w) \subseteq Stays(t, is, w) \cup {n}
  <2>1. Stays(u, is, w) \subseteq Stays(t, is, w) BY <1>5, <1>6, <1>8 DEF Stays
  <2>2. Stays(u, is \cup {n}, w) \subseteq Stays(t, is, w) \cup {n}
    BY <1>5, <1>6 DEF Stays
  <2>3. Spaced(t, is, w) => Spaced(u, is, w) BY <1>5, <1>6, <1>8 DEF Spaced
  <2> QED BY <2>1, <2>2, <2>3
<1>9. ASSUME NEW w, NEW is, n \notin is, Spaced(t, is, w), Stays(t, is, w) = {}
      PROVE  Spaced(u, is \cup {n}, w)
  <2> SUFFICES ASSUME NEW i \in is \cup {n}, NEW j \in is \cup {n},
                      NEW k \in Slots(u), NEW l \in Slots(u),
                      In(u, i, k), In(u, j, l), k <= l
               PROVE  (i = j /\ k = l) \/ \E m \in RemovesFrom(u, w, k) : m < l
    BY DEF Spaced
  <2>1. CASE k = e
    <3>1. i = n BY <1>2, <1>3, <1>5, <2>1
    <3>2. l \notin Slots(t) BY <1>1, <1>2, <2>1
    <3> QED BY <1>5, <2>1, <3>1, <3>2
  <2>2. CASE k # e
    <3>1. k \in Slots(t) /\ In(t, i, k) /\ i \in is BY <1>3, <1>5, <2>2
    <3>2. CASE l = e
      <4>1. PICK m \in RemovesFrom(t, w, k) : TRUE BY <1>9, <3>1 DEF Stays
      <4>2. m \in DOMAIN t.cmds BY DEF RemovesFrom
      <4>3. m < e BY <1>2, <4>2 DEF Slots
      <4> QED BY <1>6, <3>1, <3>2, <4>1, <4>3
    <3>3. CASE l # e
      <4>1. l \in Slots(t) /\ In(t, j, l) /\ j \in is BY <1>3, <1>5, <3>3
      <4> QED BY <1>6, <1>9, <3>1, <4>1 DEF Spaced
    <3> QED BY <3>2, <3>3
  <2> QED BY <2>1, <2>2
<1> QED BY <1>7, <1>8, <1>9

\* A task with no queue and one member.
LEMMA OneMember ==
    ASSUME NEW t, NEW n, t.cmds = << >>, t.members = {n}
    PROVE  /\ Once(t)
           /\ \A w, is : Spaced(t, is, w) /\ Stays(t, is, w) \subseteq {n}
BY SpacedNone DEF Stays, Slots, In

-----------------------------------------------------------------------------
(* What is served, by the queues. *)

\* A task that will not stop of itself.
Serves(c) == Running(c) /\ ~conn[c].cancel

LEMMA StaysIs ==
    ASSUME NEW t \in Task, NEW is, NEW w, NEW i
    PROVE  i \in Stays(t, is, w) <=>
               /\ i \in is
               /\ \/ i \in t.members /\ RemovesFrom(t, w, 0) = {}
                  \/ \E k \in DOMAIN t.cmds : t.cmds[k] = Add(i) /\ RemovesFrom(t, w, k) = {}
<1>1. \A k \in DOMAIN t.cmds : k # 0 BY TaskQueue
<1> QED BY <1>1 DEF Stays, Slots, In

LEMMA LeavingIs ==
    ASSUME NEW c, NEW i, NEW k, NEW w, inst[i].watch = w
    PROVE  Leaving(c, i, k) <=> RemovesFrom(conn[c], w, k) # {}
BY DEF Leaving, RemovesFrom, Remove

LEMMA ServingIs ==
    ConnTypes => \A w \in Watch : \A i :
        i \in Serving(w) <=> \E c \in Inst : Serves(c) /\ i \in Stays(conn[c], Of(w), w)
<1> SUFFICES ASSUME ConnTypes, NEW w \in Watch, NEW i \in Inst, inst[i].watch = w
             PROVE  i \in Serving(w) <=>
                        \E c \in Inst : Serves(c) /\ i \in Stays(conn[c], Of(w), w)
  BY DEF Serving, Stays, Of
<1>1. \A c \in Inst : conn[c] \in Task BY DEF ConnTypes
<1>2. ASSUME NEW c \in Inst
      PROVE  i \in Stays(conn[c], Of(w), w) <=>
                \/ i \in conn[c].members /\ ~Leaving(c, i, 0)
                \/ \E k \in DOMAIN conn[c].cmds :
                       conn[c].cmds[k] = Add(i) /\ ~Leaving(c, i, k)
  <2>1. i \in Of(w) BY DEF Of
  <2>2. \A k : Leaving(c, i, k) <=> RemovesFrom(conn[c], w, k) # {}
    BY LeavingIs
  <2>3. conn[c] \in Task BY <1>1
  <2> QED BY <2>1, <2>2, <2>3, StaysIs
<1> QED BY <1>2 DEF Serving, Serves, Add

\* The same of the next state.
LEMMA ServingNext ==
    ConnTypes' => \A w \in Watch : \A i :
        i \in Serving(w)' <=>
            \E c \in Inst : Serves(c)' /\ i \in Stays(conn'[c], Of(w)', w)
<1>1. (ConnTypes => \A w \in Watch : \A i :
        i \in Serving(w) <=> \E c \in Inst : Serves(c) /\ i \in Stays(conn[c], Of(w), w))'
  BY ServingIs, PTL
<1> QED BY <1>1 DEF Inst, Stays, Slots, In, RemovesFrom

\* Who is served for a watch is of it, and is held by a task that runs.
LEMMA ServedIsHeld ==
    ASSUME ConnTypes, NEW w \in Watch, NEW i \in Serving(w)
    PROVE  /\ i \in Inst /\ inst[i].watch = w
           /\ \E c \in Inst : Serves(c) /\ i \in Held(c)
BY DEF Serving, Serves, Held, Adds, Add

\* A step after which every task that serves did so before, and of the watch
\* only what it served already.
LEMMA ServesLess ==
    ASSUME ConnTypes, ConnTypes', NEW w \in Watch,
           \A c \in Inst : Serves(c)' =>
               /\ Serves(c)
               /\ Stays(conn'[c], Of(w)', w) \subseteq Stays(conn[c], Of(w), w)
    PROVE  Serving(w)' \subseteq Serving(w)
BY ServingIs, ServingNext

LEMMA OfKept ==
    ASSUME \A i \in Inst : inst'[i].watch = inst[i].watch
    PROVE  \A w : Of(w)' = Of(w)
BY DEF Of, Inst

-----------------------------------------------------------------------------
(* Who is refused by what a task tells its members. *)

LEMMA TellRefuses ==
    ASSUME NEW f \in [Inst -> Instance], NEW is, NEW v \in Verdict, NEW i \in Inst,
           Tell(f, is, v)[i].verdict = "err"
    PROVE  f[i].verdict = "err" \/ (v = "err" /\ i \in is)
<1>1. f[i] \in Instance /\ [f[i] EXCEPT !.verdict = v].verdict = v
  BY DEF Instance
<1> QED BY <1>1 DEF Tell

\* A first attempt that is refused is given up.
LEMMA AnswerRefuses ==
    ASSUME TypeOK, NEW is, NEW no, NEW i \in Inst,
           Answered(is, no)[i].verdict = "err"
    PROVE  inst[i].verdict = "err" \/ (i \in no /\ inst[i].watch \in GivenUp(no))
<1>1. inst[i] \in Instance BY DEF TypeOK
<1>2. Answered(is, no)[i] = IF i \in no THEN Refused(i)
                            ELSE IF i \in is /\ mode.acks
                                 THEN [inst[i] EXCEPT !.rejects = 0] ELSE inst[i]
  BY DEF Answered
<1>3. CASE i \in no
  <2>1. Refused(i).verdict = IF inst[i].verdict = "none" THEN "err" ELSE inst[i].verdict
    BY <1>1 DEF Refused, Instance
  <2>2. inst[i].verdict = "none" => inst[i].watch \in GivenUp(no)
    BY <1>3 DEF GivesUp, GivenUp, WatchesOf
  <2> QED BY <1>2, <1>3, <2>1, <2>2
<1>4. CASE i \notin no
  <2>1. [inst[i] EXCEPT !.rejects = 0].verdict = inst[i].verdict BY <1>1 DEF Instance
  <2> QED BY <1>2, <1>4, <2>1
<1> QED BY <1>3, <1>4

-----------------------------------------------------------------------------
(***************************************************************************)
(* A stride of a task: what its turn leaves of its queue, whom it refuses, *)
(* and what its socket was asked for.                                      *)
(***************************************************************************)
Refuses(c) ==
    \A i \in Inst : inst'[i].verdict = "err" =>
        \/ inst[i].verdict = "err" \/ inst[i].watch \in marred'
        \/ /\ i \in conn[c].members /\ i \notin conn'[c].members
           /\ conn'[c].cmds \in {conn[c].cmds, << >>}

Asks(c) ==
    conn'[c].phase = "live" /\ ~conn'[c].timer => \A i \in conn'[c].members :
        inst[i].watch \in marred' \cup conn'[c].asked

Stride(c) ==
    /\ marred \subseteq marred'
    /\ Running(c)' => conn'[c].cancel = conn[c].cancel
    /\ ~Running(c)' => /\ ~conn'[c].cancel /\ conn'[c].members = {}
                       /\ conn'[c].cmds = << >>
    /\ Once(conn'[c])
    /\ \A w \in Watch \ marred :
          /\ Spaced(conn'[c], Of(w), w)
          /\ Stays(conn'[c], Of(w), w) \subseteq Stays(conn[c], Of(w), w)
    /\ Refuses(c) /\ Asks(c)

LEMMA EndStrides ==
    ASSUME Types, NEW c \in Inst, NEW f, Kin(f), End(c, f), marred' = marred,
           \A i \in Inst : f[i].verdict = "err" =>
               inst[i].verdict = "err" \/ i \in conn[c].members
    PROVE  Stride(c)
<1> DEFINE t == [NoTask EXCEPT !.phase = "ended"]
<1>1. /\ t \in Task /\ t.phase = "ended" /\ t.members = {} /\ t.cmds = << >> /\ ~t.cancel
  BY NoTaskType DEF Task, Phase
<1>2. conn' = [conn EXCEPT ![c] = t] BY DEF End
<1> HIDE DEF t
<1>3. conn'[c] = t BY <1>1, <1>2, ConnMoved DEF Types
<1>4. ~Running(c)' BY <1>1, <1>3 DEF Running
<1>5. \A i \in Inst : inst'[i].verdict = "err" => f[i].verdict = "err"
  BY TellRefuses DEF End, Kin, Verdict
<1>6. Refuses(c) BY <1>1, <1>3, <1>5 DEF Refuses
<1>7. Asks(c) BY <1>1, <1>3 DEF Asks
<1>8. /\ Once(t)
      /\ \A w : Spaced(t, Of(w), w) /\ Stays(t, Of(w), w) = {}
  BY <1>1, SpacedNone
<1> QED BY <1>1, <1>3, <1>4, <1>6, <1>7, <1>8 DEF Stride

\* No command is read.
LEMMA SameQueueStrides ==
    ASSUME Types, TasksInv, NEW c \in Inst, NEW t \in Task,
           conn' = [conn EXCEPT ![c] = t], marred \subseteq marred',
           t.phase \in {"top", "handshake", "live", "backoff"},
           t.cmds = conn[c].cmds, t.members \subseteq conn[c].members,
           t.cancel = conn[c].cancel, Refuses(c),
           t.phase = "live" /\ ~t.timer => \A i \in t.members :
               inst[i].watch \in marred' \cup t.asked
    PROVE  Stride(c)
<1>1. conn'[c] = t BY ConnMoved DEF Types
<1>2. Running(c)' BY <1>1 DEF Running
<1>3. Asks(c) BY <1>1 DEF Asks
<1>4. Once(conn[c]) /\ \A w \in Watch \ marred : Spaced(conn[c], Of(w), w)
  BY DEF TasksInv, Queues
<1>5. /\ Once(t)
      /\ \A w \in Watch \ marred : /\ Spaced(t, Of(w), w)
                                   /\ Stays(t, Of(w), w) \subseteq Stays(conn[c], Of(w), w)
  BY <1>4, SpacedLeaving
<1> QED BY <1>1, <1>2, <1>3, <1>5 DEF Stride

\* A command is read: an Add, or a Remove that leaves none of its watch.
LEMMA NextCommandStrides ==
    ASSUME Types, TasksInv, NEW c \in Inst, NEW t \in Task,
           conn' = [conn EXCEPT ![c] = t], marred' = marred,
           t.phase \in {"top", "live"}, conn[c].cmds # << >>,
           t.cmds = Tail(conn[c].cmds), t.cancel = conn[c].cancel,
           \A i \in t.members : i \in conn[c].members \/ Head(conn[c].cmds) = Add(i),
           \A w \in Watch \ marred : Head(conn[c].cmds) = Remove(w)
               => Of(w) \cap t.members = {},
           \A i \in Inst : inst'[i].verdict = "err" => inst[i].verdict = "err",
           t.phase = "live" /\ ~t.timer => \A i \in t.members :
               inst[i].watch \in marred \cup t.asked
    PROVE  Stride(c)
<1>1. conn'[c] = t BY ConnMoved DEF Types
<1>2. Running(c)' BY <1>1 DEF Running
<1>3. Asks(c) /\ Refuses(c) BY <1>1 DEF Asks, Refuses
<1>4. Once(conn[c]) /\ \A w \in Watch \ marred : Spaced(conn[c], Of(w), w)
  BY DEF TasksInv, Queues
<1>5. conn[c] \in Task BY TaskFields DEF Types
<1>6. Once(t) BY <1>4, <1>5, OnceReading
<1>7. ASSUME NEW w \in Watch \ marred
      PROVE  Spaced(t, Of(w), w) /\ Stays(t, Of(w), w) \subseteq Stays(conn[c], Of(w), w)
  <2>1. Of(w) \in SUBSET Inst BY DEF Of
  <2>2. \A i \in Of(w) \cap t.members :
           /\ i \in conn[c].members \/ Head(conn[c].cmds) = Add(i)
           /\ Head(conn[c].cmds) # Remove(w)
    BY <1>7
  <2>3. Spaced(conn[c], Of(w), w) BY <1>4, <1>7
  <2> QED BY <1>5, <2>1, <2>2, <2>3, SpacedReading
<1> QED BY <1>1, <1>2, <1>3, <1>6, <1>7 DEF Stride

LEMMA CancelledStrides ==
    ASSUME Types, NEW c \in Inst, Cancelled(c)
    PROVE  Stride(c)
<1> DEFINE f == Show(inst, conn[c].members, "stopped")
<1>1. Kin(f) /\ \A i \in Inst : f[i].verdict = inst[i].verdict
  BY Known, ShowKin DEF Status
<1>2. End(c, f) /\ marred' = marred BY DEF Cancelled
<1> QED BY <1>1, <1>2, EndStrides

LEMMA IdleStrides ==
    ASSUME Types, TasksInv, NEW c \in Inst, Idle(c)
    PROVE  Stride(c)
<1> DEFINE cmd == Head(conn[c].cmds)
           ms == IF cmd.op = "add" THEN {cmd.member} ELSE {}
           t == [conn[c] EXCEPT !.cmds = Tail(conn[c].cmds), !.members = ms]
<1>0. conn[c] \in Task /\ conn[c].cmds \in Seq(Command) /\ conn[c].cmds # << >>
      /\ conn[c].phase = "top"
  BY TaskFields DEF Idle, Types
<1>1. cmd \in Command /\ Tail(conn[c].cmds) \in Seq(Command) BY <1>0, AddsOfTail
<1>2. ms \subseteq Inst /\ \A i \in ms : cmd = Add(i) BY <1>1, AddCommand
<1>3. conn' = [conn EXCEPT ![c] = t] BY DEF Idle
<1> HIDE DEF ms, cmd
<1>4. /\ t \in Task /\ t.cmds = Tail(conn[c].cmds) /\ t.members = ms
      /\ t.phase = "top" /\ t.cancel = conn[c].cancel
  BY <1>0, <1>1, <1>2 DEF Task
<1> HIDE DEF t
<1>5. \A w \in Watch : Head(conn[c].cmds) = Remove(w) => Of(w) \cap t.members = {}
  BY <1>2, <1>4, DistinctCommands DEF cmd
<1>6. UNCHANGED <<inst, marred>> BY DEF Idle
<1>7. \A i \in t.members : Head(conn[c].cmds) = Add(i) BY <1>2, <1>4 DEF cmd
<1> QED BY <1>0, <1>3, <1>4, <1>5, <1>6, <1>7, NextCommandStrides

LEMMA ConnectStrides ==
    ASSUME Types, TasksInv, NEW c \in Inst, Connect(c)
    PROVE  Stride(c)
<1> DEFINE t == [conn[c] EXCEPT !.phase = "handshake"]
<1>0. conn[c] \in Task BY TaskFields DEF Types
<1>1. conn' = [conn EXCEPT ![c] = t] /\ marred' = marred BY DEF Connect
<1>2. /\ t \in Task /\ t.cmds = conn[c].cmds /\ t.members = conn[c].members
      /\ t.phase = "handshake" /\ t.cancel = conn[c].cancel
  BY <1>0 DEF Task, Phase
<1> HIDE DEF t
<1>3. \A i \in Inst : inst'[i].verdict = inst[i].verdict
  BY Known, ShowKin DEF Connect, Status
<1>4. Refuses(c) BY <1>3 DEF Refuses
<1> QED BY <1>1, <1>2, <1>4, SameQueueStrides

LEMMA RetryStrides ==
    ASSUME Types, TasksInv, NEW c \in Inst, Retry(c)
    PROVE  Stride(c)
<1> DEFINE t == [conn[c] EXCEPT !.phase = "top"]
<1>0. conn[c] \in Task BY TaskFields DEF Types
<1>1. conn' = [conn EXCEPT ![c] = t] /\ UNCHANGED <<inst, marred>> BY DEF Retry
<1>2. /\ t \in Task /\ t.cmds = conn[c].cmds /\ t.members = conn[c].members
      /\ t.phase = "top" /\ t.cancel = conn[c].cancel
  BY <1>0 DEF Task, Phase
<1> HIDE DEF t
<1>4. Refuses(c) BY <1>1 DEF Refuses
<1> QED BY <1>1, <1>2, <1>4, SameQueueStrides

\* Who is refused when the socket is lost is marred.
LEMMA DroppedStrides ==
    ASSUME Types, TasksInv, NEW c \in Inst, NEW f, NEW n \in 0..(MaxRejects - 1),
           Kin(f), Dropped(c, f, n), marred \subseteq marred',
           \A i \in Inst : f[i].verdict = "err" =>
               inst[i].verdict = "err" \/ inst[i].watch \in marred'
    PROVE  Stride(c)
<1> DEFINE t == [NoTask EXCEPT !.phase = "backoff", !.logins = n,
                    !.members = conn[c].members, !.cmds = conn[c].cmds,
                    !.cancel = conn[c].cancel]
<1>1. conn' = [conn EXCEPT ![c] = t] BY DEF Dropped
<1>2. /\ t \in Task /\ t.cmds = conn[c].cmds /\ t.members = conn[c].members
      /\ t.phase = "backoff" /\ t.cancel = conn[c].cancel
  BY NoTaskType, TaskFields DEF Task, Phase, Types
<1> HIDE DEF t
<1>3. \A i \in Inst : inst'[i].verdict = f[i].verdict BY ShowKin DEF Dropped, Status
<1>4. Refuses(c) BY <1>3 DEF Refuses
<1> QED BY <1>1, <1>2, <1>4, SameQueueStrides

LEMMA TroubleStrides ==
    ASSUME Types, TasksInv, NEW c \in Inst, Trouble(c)
    PROVE  Stride(c)
<1>0. 0 \in 0..(MaxRejects - 1) BY ConnectionAssumption
<1>1. CASE Lost(c)
  <2>1. Dropped(c, inst, 0) /\ marred' = marred BY <1>1 DEF Lost
  <2> QED BY <1>0, <2>1, Known, DroppedStrides
<1>2. CASE LoginRejected(c)
  <2>1. conn[c].logins + 1 \in 0..(MaxRejects - 1)
    BY <1>2, TaskFields, ConnectionAssumption DEF LoginRejected, Types
  <2>2. Dropped(c, inst, conn[c].logins + 1) /\ marred' = marred
    BY <1>2 DEF LoginRejected
  <2> QED BY <2>1, <2>2, Known, DroppedStrides
<1>3. CASE LoginGivenUp(c)
  <2> DEFINE g == Show(inst, conn[c].members, "failed")
             f == Tell(g, conn[c].members, "err")
  <2>1. Kin(g) /\ \A i \in Inst : g[i].verdict = inst[i].verdict
    BY Known, ShowKin DEF Status
  <2>2. End(c, f) /\ marred' = marred BY <1>3 DEF LoginGivenUp
  <2> HIDE DEF g
  <2>3. Kin(f) BY <2>1, TellKin DEF Verdict
  <2>4. \A i \in Inst : f[i].verdict = "err" =>
            inst[i].verdict = "err" \/ i \in conn[c].members
    BY <2>1, TellRefuses DEF Kin, Verdict
  <2> QED BY <2>2, <2>3, <2>4, EndStrides
<1>4. ASSUME NEW k \in conn[c].members, NEW no \in SUBSET conn[c].members,
             CutOff(c, k, no)
      PROVE  Stride(c)
  <2> DEFINE f == Answered({i \in conn[c].members : i <= k}, no)
  <2>1. Dropped(c, f, 0) /\ marred' = marred \cup GivenUp(no) BY <1>4 DEF CutOff
  <2>2. Kin(f) BY AnsweredKin DEF Types
  <2>3. \A i \in Inst : f[i].verdict = "err" =>
            inst[i].verdict = "err" \/ inst[i].watch \in marred'
    BY <2>1, AnswerRefuses DEF Types
  <2> HIDE DEF f
  <2> QED BY <1>0, <2>1, <2>2, <2>3, DroppedStrides
<1> QED BY <1>1, <1>2, <1>3, <1>4 DEF Trouble

\* Who is refused at first is given up, and leaves.
LEMMA SubscribeStrides ==
    ASSUME Types, TasksInv, NEW c \in Inst, NEW no \in SUBSET conn[c].members,
           Subscribe(c, no)
    PROVE  Stride(c)
<1> DEFINE all == conn[c].members
           left == all \ OfWatches(all, GivenUp(no))
           t == [conn[c] EXCEPT !.phase = "live", !.members = left,
                    !.asked = WatchesOf(all), !.refused = WatchesOf(no)]
           f == Answered(all, no)
<1>0. all \subseteq Inst /\ conn[c] \in Task /\ all \subseteq Held(c) /\ marred' = marred
  BY TaskFields DEF Subscribe, Types, Held
<1>1. Kin(f) BY AnsweredKin DEF Types
<1>2. \A i \in Inst : f[i].verdict = "err" =>
         inst[i].verdict = "err" \/ (i \in all /\ i \notin left)
  BY AnswerRefuses DEF Types, OfWatches
<1>3. CASE left = {}
  <2>1. End(c, f) BY <1>3 DEF Subscribe
  <2> QED BY <1>0, <1>1, <1>2, <2>1, EndStrides
<1>4. CASE left # {}
  <2>1. /\ conn' = [conn EXCEPT ![c] = t]
        /\ inst' = Tell(Tell(Show(f, left, "live"), left, "ok"), all, "gone")
    BY <1>4 DEF Subscribe
  <2>2. /\ WatchesOf(all) \subseteq Watch /\ WatchesOf(no) \subseteq Watch
        /\ left \subseteq all /\ \A i \in all : inst[i].watch \in WatchesOf(all)
    BY <1>0, HeldWatches DEF WatchesOf
  <2> HIDE DEF all, left, f
  <2>3. /\ t \in Task /\ t.cmds = conn[c].cmds /\ t.members = left
        /\ t.phase = "live" /\ t.asked = WatchesOf(all) /\ t.cancel = conn[c].cancel
    BY <1>0, <2>2 DEF Task, Phase
  <2> HIDE DEF t
  <2>4. Kin(Show(f, left, "live"))
        /\ \A i \in Inst : Show(f, left, "live")[i].verdict = f[i].verdict
    BY <1>1, ShowKin DEF Status
  <2>5. Kin(Tell(Show(f, left, "live"), left, "ok"))
        /\ \A i \in Inst : Tell(Show(f, left, "live"), left, "ok")[i].verdict = "err"
                            => f[i].verdict = "err"
    BY <2>4, TellKin, TellRefuses DEF Verdict, Kin
  <2>6. \A i \in Inst : inst'[i].verdict = "err" => f[i].verdict = "err"
    BY <2>1, <2>5, TellRefuses DEF Verdict, Kin
  <2>7. conn'[c] = t BY <2>1, <2>3, ConnMoved DEF Types
  <2>8. Refuses(c) BY <1>2, <2>3, <2>6, <2>7 DEF Refuses, all
  <2> QED BY <1>0, <2>1, <2>2, <2>3, <2>8, SameQueueStrides DEF all
<1> QED BY <1>3, <1>4

LEMMA AskFields ==
    ASSUME NEW t \in Task, NEW ws \in SUBSET Watch, NEW no
    PROVE  Ask(t, ws, no).asked = t.asked \cup ws /\ Ask(t, ws, no).cancel = t.cancel
<1> DEFINE w == IF mode.acks THEN Append(t.wire, Ack(no)) ELSE t.wire
           a == t.asked \cup ws
           r == (t.refused \ ws) \cup no
<1>1. Ask(t, ws, no) = [t EXCEPT !.asked = a, !.refused = r, !.wire = w] BY DEF Ask
<1> HIDE DEF w, a, r
<1>2. /\ [t EXCEPT !.asked = a, !.refused = r, !.wire = w].asked = a
      /\ [t EXCEPT !.asked = a, !.refused = r, !.wire = w].cancel = t.cancel
  BY DEF Task
<1> QED BY <1>1, <1>2 DEF a

LEMMA TakeAddStrides ==
    ASSUME Types, TasksInv, NEW c \in Inst, NEW no \in SUBSET Watch, TakeAdd(c, no)
    PROVE  Stride(c)
<1> DEFINE i == Head(conn[c].cmds).member
           ms == conn[c].members \cup {i}
           u == [conn[c] EXCEPT !.cmds = Tail(conn[c].cmds), !.members = ms]
           t == Added(c, i, no)
<1>0. /\ conn[c].members \subseteq Inst /\ conn[c] \in Task
      /\ conn[c].cmds \in Seq(Command) /\ conn[c].cmds # << >>
      /\ conn[c].phase = "live" /\ Head(conn[c].cmds).op = "add"
      /\ MayRefuseLive({inst[i].watch}, no)
  BY TaskFields DEF TakeAdd, Types
<1>1. /\ Head(conn[c].cmds) \in Command /\ Tail(conn[c].cmds) \in Seq(Command)
      /\ \A j \in Inst : Head(conn[c].cmds) = Add(j) => j \in Adds(conn[c].cmds)
  BY <1>0, AddsOfTail
<1>2. i \in Inst /\ Head(conn[c].cmds) = Add(i) BY <1>0, <1>1, AddCommand
<1>3. inst[i].watch \in Watch /\ no \in SUBSET {inst[i].watch}
  <2>1. i \in Held(c) BY <1>1, <1>2 DEF Held
  <2> QED BY <1>0, <2>1 DEF Types, Born, MayRefuseLive
<1>4. conn' = [conn EXCEPT ![c] = t] /\ UNCHANGED <<inst, marred>> BY DEF TakeAdd
<1> HIDE DEF i
<1>5. /\ u \in Task /\ u.cmds = Tail(conn[c].cmds) /\ u.members = ms
      /\ u.phase = "live" /\ u.cancel = conn[c].cancel
      /\ u.asked = conn[c].asked /\ u.timer = conn[c].timer
  BY <1>0, <1>1, <1>2 DEF Task
<1>6. t = IF mode.replaces THEN [u EXCEPT !.timer = TRUE]
          ELSE Ask(u, {inst[i].watch}, no)
  BY DEF Added
<1> HIDE DEF u, t, ms
<1>7. /\ t \in Task /\ t.cmds = Tail(conn[c].cmds) /\ t.members = ms
      /\ t.phase = "live" /\ t.cancel = conn[c].cancel
      /\ ~t.timer => ~conn[c].timer /\ t.asked = conn[c].asked \cup {inst[i].watch}
  <2>1. CASE mode.replaces
    <3>1. t = [u EXCEPT !.timer = TRUE] BY <1>6, <2>1
    <3> QED BY <1>5, <3>1 DEF Task
  <2>2. CASE ~mode.replaces
    <3>1. t = Ask(u, {inst[i].watch}, no) BY <1>6, <2>2
    <3>2. {inst[i].watch} \in SUBSET Watch BY <1>3
    <3>3. /\ t \in Task /\ t.cmds = u.cmds /\ t.members = u.members
          /\ t.phase = u.phase /\ t.timer = u.timer
      BY <1>3, <1>5, <3>1, <3>2, AskType
    <3>4. t.asked = u.asked \cup {inst[i].watch} /\ t.cancel = u.cancel
      BY <1>5, <3>1, <3>2, AskFields
    <3> QED BY <1>5, <3>3, <3>4
  <2> QED BY <2>1, <2>2
<1>8. \A j \in t.members : j \in conn[c].members \/ Head(conn[c].cmds) = Add(j)
  BY <1>2, <1>7 DEF ms
<1>9. \A w \in Watch : Head(conn[c].cmds) # Remove(w) BY <1>2, DistinctCommands
<1>10. ~t.timer => \A j \in t.members : inst[j].watch \in marred \cup t.asked
  BY <1>0, <1>7 DEF TasksInv, LiveIsAsked, ms
<1> QED BY <1>0, <1>4, <1>7, <1>8, <1>9, <1>10, NextCommandStrides

LEMMA RedeclareStrides ==
    ASSUME Types, TasksInv, NEW c \in Inst, NEW no \in SUBSET Watch, Redeclare(c, no)
    PROVE  Stride(c)
<1> DEFINE ws == WatchesOf(conn[c].members)
           none == {}
           u == [conn[c] EXCEPT !.timer = FALSE, !.asked = none]
           t == Ask(u, ws, no)
<1>0. /\ conn[c].members \subseteq Inst /\ conn[c] \in Task
      /\ conn[c].phase = "live" /\ no \in SUBSET ws
      /\ conn[c].members \subseteq Held(c)
  BY TaskFields DEF Redeclare, Types, MayRefuseLive, Held
<1>1. ws \in SUBSET Watch /\ \A i \in conn[c].members : inst[i].watch \in ws
  BY <1>0, HeldWatches DEF WatchesOf
<1>2. conn' = [conn EXCEPT ![c] = t] /\ UNCHANGED <<inst, marred>> BY DEF Redeclare
<1>3. none \subseteq Watch OBVIOUS
<1> HIDE DEF ws, none
<1>4. /\ u \in Task /\ u.cmds = conn[c].cmds /\ u.members = conn[c].members
      /\ u.phase = "live" /\ u.cancel = conn[c].cancel
  BY <1>0, <1>3 DEF Task
<1> HIDE DEF u
<1>5. /\ t \in Task /\ t.cmds = conn[c].cmds /\ t.members = conn[c].members
      /\ t.phase = "live" /\ t.cancel = conn[c].cancel /\ ws \subseteq t.asked
  BY <1>0, <1>1, <1>4, AskType, AskFields
<1> HIDE DEF t
<1>6. Refuses(c) BY <1>2 DEF Refuses
<1> QED BY <1>1, <1>2, <1>5, <1>6, SameQueueStrides

\* Of a watch that is not spoiled there is one member: it is the one that goes.
LEMMA TakeRemoveStrides ==
    ASSUME Types, TasksInv, NEW c \in Inst, TakeRemove(c)
    PROVE  Stride(c)
<1> DEFINE w == Head(conn[c].cmds).watch
           gone == First(conn[c].members, w)
           left == conn[c].members \ gone
           g == Show(inst, gone, "stopped")
           told == Tell(g, gone, "gone")
           timer == conn[c].timer \/ (mode.replaces /\ gone # {})
           asked == IF gone # {} /\ ~mode.replaces THEN conn[c].asked \ {w}
                    ELSE conn[c].asked
           t == [conn[c] EXCEPT !.cmds = Tail(conn[c].cmds), !.members = left,
                                !.timer = timer, !.asked = asked]
<1>1. /\ conn[c].members \subseteq Inst /\ conn[c] \in Task
      /\ conn[c].cmds \in Seq(Command) /\ conn[c].cmds # << >>
      /\ conn[c].phase = "live" /\ Head(conn[c].cmds).op = "remove"
      /\ marred' = marred
  BY TaskFields DEF TakeRemove, Types
<1>2. /\ Head(conn[c].cmds) \in Command /\ Tail(conn[c].cmds) \in Seq(Command)
      /\ w \in Watch
  BY <1>1, AddsOfTail, RemoveCommand
<1>3. Kin(g) /\ \A i \in Inst : g[i].verdict = inst[i].verdict
  BY Known, ShowKin DEF Status
<1>4. Kin(told) /\ \A i \in Inst : told[i].verdict = "err" => inst[i].verdict = "err"
  BY <1>3, TellKin, TellRefuses DEF Verdict, Kin
<1>5. w \notin marred => Of(w) \cap left = {}
  <2>1. SUFFICES ASSUME w \notin marred, NEW i \in Of(w), i \in conn[c].members
                 PROVE  i \in gone
    OBVIOUS
  <2>2. Spaced(conn[c], Of(w), w) BY <1>2, <2>1 DEF TasksInv, Queues
  <2>3. ASSUME NEW j \in OfWatches(conn[c].members, {w}) PROVE i <= j
    <3>1. j \in Of(w) /\ In(conn[c], i, 0) /\ In(conn[c], j, 0) /\ i \in Inst
      BY <1>1, <2>1, <2>3 DEF OfWatches, Of, In
    <3>2. (i = j /\ 0 = 0) \/ \E m \in RemovesFrom(conn[c], w, 0) : m < 0
      BY <2>1, <2>2, <3>1 DEF Spaced, Slots
    <3>3. ~\E m \in RemovesFrom(conn[c], w, 0) : m < 0
      BY <1>1, TaskQueue DEF RemovesFrom
    <3> QED BY <3>1, <3>2, <3>3 DEF Inst
  <2>4. i \in OfWatches(conn[c].members, {w}) BY <2>1 DEF Of, OfWatches
  <2> QED BY <2>3, <2>4 DEF First
<1>6. CASE left = {}
  <2>1. End(c, told) BY <1>6 DEF TakeRemove
  <2> QED BY <1>1, <1>4, <2>1, EndStrides
<1>7. CASE left # {}
  <2>1. conn' = [conn EXCEPT ![c] = t] /\ inst' = told BY <1>7 DEF TakeRemove
  <2>2. /\ timer \in BOOLEAN /\ (conn[c].timer => timer) /\ asked \subseteq Watch
        /\ left \subseteq conn[c].members /\ conn[c].asked \ {w} \subseteq asked
        /\ gone = {} => left = conn[c].members /\ asked = conn[c].asked
    BY TaskFields DEF Types
  <2> HIDE DEF timer, asked, left, told, gone, w
  <2>3. /\ t \in Task /\ t.cmds = Tail(conn[c].cmds) /\ t.members = left
        /\ t.phase = "live" /\ t.timer = timer /\ t.asked = asked
        /\ t.cancel = conn[c].cancel
    BY <1>1, <1>2, <2>2 DEF Task
  <2> HIDE DEF t
  <2>4. \A v \in Watch \ marred : Head(conn[c].cmds) = Remove(v)
            => Of(v) \cap t.members = {}
    BY <1>5, <2>3 DEF Remove, w
  <2>5. ~t.timer => \A i \in t.members : inst[i].watch \in marred \cup t.asked
    <3>1. SUFFICES ASSUME ~t.timer, NEW i \in t.members, inst[i].watch \notin marred
                   PROVE  inst[i].watch \in asked
      BY <2>3
    <3>2. i \in conn[c].members /\ i \in Inst /\ ~conn[c].timer
      BY <1>1, <2>2, <2>3, <3>1
    <3>3. inst[i].watch \in conn[c].asked
      BY <1>1, <3>1, <3>2 DEF TasksInv, LiveIsAsked
    <3>4. inst[i].watch # w BY <1>5, <2>3, <3>1, <3>2 DEF Of
    <3> QED BY <2>2, <3>3, <3>4
  <2> QED BY <1>1, <1>4, <2>1, <2>2, <2>3, <2>4, <2>5, NextCommandStrides
<1> QED BY <1>6, <1>7

LEMMA ReadAckStrides ==
    ASSUME Types, TasksInv, NEW c \in Inst, ReadAck(c)
    PROVE  Stride(c)
<1> DEFINE all == conn[c].members
           waiting == Pending(all)
           no == OfWatches(waiting, Head(conn[c].wire))
           left == all \ OfWatches(all, WatchesOf(no))
           told == Tell(Show(inst, no, "failed"), no, "err")
           g == Show(told, waiting \ no, "live")
           f == Tell(g, waiting \ no, "ok")
           t == [conn[c] EXCEPT !.members = left, !.wire = Tail(conn[c].wire)]
<1>1. /\ all \subseteq Inst /\ conn[c] \in Task
      /\ conn[c].phase = "live" /\ left \subseteq all /\ marred' = marred
      /\ conn[c].wire \in Seq(SUBSET Watch) /\ conn[c].wire # << >>
      /\ no \subseteq all /\ no \cap left = {}
  BY TaskFields DEF ReadAck, Types, OfWatches, Pending, WatchesOf
<1>2. Tail(conn[c].wire) \in Seq(SUBSET Watch) BY <1>1
<1>3. Kin(Show(inst, no, "failed"))
      /\ \A i \in Inst : Show(inst, no, "failed")[i].verdict = inst[i].verdict
  BY Known, ShowKin DEF Status
<1>4. /\ Kin(told)
      /\ \A i \in Inst : told[i].verdict = "err" => inst[i].verdict = "err" \/ i \in no
  BY <1>3, TellKin, TellRefuses DEF Verdict, Kin
<1> HIDE DEF told
<1>5. Kin(g) /\ \A i \in Inst : g[i].verdict = told[i].verdict
  BY <1>4, ShowKin DEF Status
<1> HIDE DEF g
<1>6. Kin(f) /\ \A i \in Inst : f[i].verdict = "err" => g[i].verdict = "err"
  BY <1>5, TellKin, TellRefuses DEF Verdict, Kin
<1>7. \A i \in Inst : f[i].verdict = "err" =>
         inst[i].verdict = "err" \/ (i \in all /\ i \notin left)
  BY <1>1, <1>4, <1>5, <1>6
<1>8. CASE left = {}
  <2>1. End(c, f) BY <1>8 DEF ReadAck, told, g
  <2> QED BY <1>1, <1>6, <1>7, <2>1, EndStrides
<1>9. CASE left # {}
  <2>1. conn' = [conn EXCEPT ![c] = t] /\ inst' = Tell(f, all \ left, "gone")
    BY <1>9 DEF ReadAck, told, g
  <2> HIDE DEF f, left
  <2>2. \A i \in Inst : inst'[i].verdict = "err" => f[i].verdict = "err"
    BY <1>6, <2>1, TellRefuses DEF Verdict, Kin
  <2>3. /\ t \in Task /\ t.cmds = conn[c].cmds /\ t.members = left
        /\ t.phase = "live" /\ t.timer = conn[c].timer
        /\ t.asked = conn[c].asked /\ t.cancel = conn[c].cancel
    BY <1>1, <1>2 DEF Task
  <2> HIDE DEF t, no, waiting
  <2>4. conn'[c] = t BY <2>1, <2>3, ConnMoved DEF Types
  <2>5. Refuses(c) BY <1>7, <2>2, <2>3, <2>4 DEF Refuses
  <2>6. ~t.timer => \A i \in t.members : inst[i].watch \in marred \cup t.asked
    BY <1>1, <2>3 DEF TasksInv, LiveIsAsked
  <2> QED BY <1>1, <2>1, <2>3, <2>5, <2>6, SameQueueStrides
<1> QED BY <1>8, <1>9

\* Every turn of a task is a stride.
LEMMA TurnStrides ==
    ASSUME Types, TasksInv, NEW c \in Inst, TaskStep(c) \/ Trouble(c)
    PROVE  Stride(c)
BY CancelledStrides, IdleStrides, ConnectStrides, RetryStrides, SubscribeStrides,
   TakeAddStrides, RedeclareStrides, TakeRemoveStrides, ReadAckStrides,
   TroubleStrides DEF TaskStep

-----------------------------------------------------------------------------
(* A turn keeps the invariant. *)

LEMMA QueuesNext ==
    Queues' <=> \A c \in Inst :
        /\ Once(conn'[c])
        /\ \A w \in Watch \ marred' : Spaced(conn'[c], Of(w)', w)
BY DEF Queues, Once, Spaced, Slots, In, RemovesFrom, Inst

LEMMA HeldNext == \A c \in Inst : Held(c)' = conn'[c].members \cup Adds(conn'[c].cmds)
BY DEF Held, Adds, Inst

\* A step that nobody takes who calls for w, and that serves nobody new for it.
LEMMA OtherWatch ==
    ASSUME NEW w \in Watch, OneCall(w), ServesOne(w),
           \A q \in Caller : Busy(q, w)' <=> Busy(q, w),
           \A q \in Caller : Busy(q, w) => call'[q] = call[q],
           tasks'[w] = tasks[w], mode' = mode, w \in watch_conn => w \in watch_conn',
           Serving(w)' \subseteq Serving(w)
    PROVE  OneCall(w)' /\ ServesOne(w)'
<1>1. OneCall(w)' BY DEF OneCall
<1>2. ServesOne(w)' BY DEF ServesOne
<1> QED BY <1>1, <1>2

\* With an instance in the members, no command adds it once more.
LEMMA OnceMember ==
    ASSUME NEW t \in Task, Once(t), NEW i \in t.members
    PROVE  i \notin Adds(t.cmds)
<1> SUFFICES ASSUME NEW k \in DOMAIN t.cmds, t.cmds[k] = Add(i) PROVE FALSE
  BY DEF Adds
<1>1. i \in Inst /\ k # 0 /\ k \in Slots(t) /\ 0 \in Slots(t) BY TaskQueue DEF Slots
<1>2. In(t, i, k) /\ In(t, i, 0) BY <1>1 DEF In
<1> QED BY <1>1, <1>2 DEF Once

\* Two tasks hold nothing in common.
LEMMA HeldApart ==
    ASSUME ConnInv, Holdings, NEW c \in Inst, NEW d \in Inst, c # d, Running(c)
    PROVE  Held(c) \cap Held(d) = {}
<1>1. CASE mode.share
  <2>1. ~Running(d) BY <1>1 DEF ConnInv, Single
  <2>2. Held(d) = {} BY <2>1, AddsOfNone DEF Holdings, Held
  <2> QED BY <2>2
<1>2. CASE ~mode.share
  BY <1>2 DEF Holdings
<1> QED BY <1>1, <1>2

LEMMA TurnServes ==
    ASSUME Inv, ServedInv, NEW c \in Inst, NetStep(c)
    PROVE  ServedInv'
<1>0. Types BY TypesSplit DEF Inv, ConnInv, CallInv, Types
<1>1. Turn(c) /\ Stride(c)
  BY <1>0, StepIsTurn, TurnStrides DEF NetStep, ServedInv
<1>2. ConnInv' BY NetKeeps DEF Inv
<1>3. /\ UNCHANGED <<mode, tasks, watch_conn, call>>
      /\ \A d \in Inst \ {c} : conn'[d] = conn[d]
      /\ \A i \in Inst : inst'[i].watch = inst[i].watch
      /\ marred \subseteq marred' /\ Running(c)
      /\ conn \in [Inst -> Task] /\ conn' \in [Inst -> Task]
  BY <1>0, <1>1 DEF Turn, NetStep, adapterVars, Kin, Stride, Types, TypeOK
<1>4. \A d \in Inst \ {c} : Held(d)' = Held(d) /\ (Running(d)' <=> Running(d))
  BY <1>3, HeldNext DEF Held, Running
<1>5. \A w : Of(w)' = Of(w) BY <1>3, OfKept
<1>6. Holdings /\ Queues /\ RefusedLeave /\ LiveIsAsked BY DEF ServedInv, TasksInv
<1>7. \A d \in Inst : Held(d)' \subseteq Held(d) /\ Held(d) \subseteq Inst
  BY <1>0, <1>1, <1>4, TaskFields DEF Turn, Types
<1>8. Holdings'
  <2>1. \A d \in Inst : ~Running(d)' => conn'[d].members = {} /\ conn'[d].cmds = << >>
    BY <1>1, <1>3, <1>4, <1>6 DEF Holdings, Stride
  <2>2. \A d \in Inst : mode.share => ~conn'[d].cancel
    BY <1>1, <1>3, <1>6 DEF Holdings, Stride
  <2>3. \A d \in Inst : ~mode.share => Held(d)' \subseteq {d}
    BY <1>6, <1>7 DEF Holdings
  <2> QED BY <1>3, <2>1, <2>2, <2>3 DEF Holdings, Inst
<1>9. Queues'
  <2>1. \A d \in Inst \ {c} : Once(conn'[d]) BY <1>3, <1>6 DEF Queues
  <2>2. \A d \in Inst \ {c} : \A w \in Watch \ marred : Spaced(conn'[d], Of(w), w)
    BY <1>3, <1>6 DEF Queues
  <2> QED BY <1>1, <1>3, <1>5, <2>1, <2>2, QueuesNext DEF Stride
<1>10. RefusedLeave'
  <2>1. SUFFICES ASSUME NEW d \in Inst, NEW i \in Held(d)', inst'[i].verdict = "err"
                 PROVE  inst'[i].watch \in marred'
    BY DEF RefusedLeave, Inst
  <2>2. i \in Held(d) /\ i \in Inst BY <1>7
  <2>3. CASE inst[i].verdict = "err"
    BY <1>3, <1>6, <2>2, <2>3 DEF RefusedLeave
  <2>4. CASE /\ i \in conn[c].members /\ i \notin conn'[c].members
             /\ conn'[c].cmds \in {conn[c].cmds, << >>}
    <3>1. i \notin Adds(conn[c].cmds) BY <1>3, <1>6, <2>4, OnceMember DEF Queues
    <3>2. i \notin Held(c)' BY <2>4, <3>1, HeldNext, AddsOfNone
    <3>3. d # c BY <2>1, <3>2
    <3>4. i \in Held(c) BY <2>4 DEF Held
    <3> QED BY <1>3, <1>6, <2>2, <3>3, <3>4, HeldApart DEF Inv
  <2> QED BY <1>1, <1>3, <2>1, <2>2, <2>3, <2>4 DEF Stride, Refuses
<1>11. LiveIsAsked'
  <2>1. SUFFICES ASSUME NEW d \in Inst, conn'[d].phase = "live", ~conn'[d].timer,
                        NEW i \in conn'[d].members, inst'[i].watch \notin marred'
                 PROVE  inst'[i].watch \in conn'[d].asked
    BY DEF LiveIsAsked, Inst
  <2>2. i \in Inst BY <1>3 DEF Task
  <2>3. inst[i].watch \notin marred /\ inst'[i].watch = inst[i].watch
    BY <1>3, <2>1, <2>2
  <2>4. CASE d = c BY <1>1, <2>1, <2>3, <2>4 DEF Stride, Asks
  <2>5. CASE d # c BY <1>3, <1>6, <2>1, <2>3, <2>5 DEF LiveIsAsked
  <2> QED BY <2>4, <2>5
<1>12. ASSUME NEW w \in Watch \ marred' PROVE OneCall(w)' /\ ServesOne(w)'
  <2>1. w \in Watch \ marred BY <1>3
  <2>2. ASSUME NEW d \in Inst, Serves(d)'
        PROVE  /\ Serves(d)
               /\ Stays(conn'[d], Of(w)', w) \subseteq Stays(conn[d], Of(w), w)
    <3>1. CASE d = c
      <4>1. Serves(d) BY <1>1, <1>3, <2>2, <3>1 DEF Stride, Serves
      <4> QED BY <1>1, <1>5, <2>1, <3>1, <4>1 DEF Stride
    <3>2. CASE d # c
      <4>1. conn'[d] = conn[d] BY <1>3, <3>2
      <4>2. Serves(d) BY <1>4, <2>2, <3>2, <4>1 DEF Serves
      <4> QED BY <1>5, <4>1, <4>2
    <3> QED BY <3>1, <3>2
  <2>3. Serving(w)' \subseteq Serving(w)
    BY <1>2, <2>1, <2>2, ServesLess DEF Inv, ConnInv
  <2>4. OneCall(w) /\ ServesOne(w) BY <2>1 DEF ServedInv
  <2>5. \A q \in Caller : Busy(q, w)' <=> Busy(q, w) BY <1>3 DEF Busy
  <2> QED BY <1>3, <2>1, <2>3, <2>4, <2>5, OtherWatch
<1> QED BY <1>8, <1>9, <1>10, <1>11, <1>12 DEF ServedInv, TasksInv

-----------------------------------------------------------------------------
(* What the callers do, to the tasks first. *)

\* Nothing happens to a task but that it may be cancelled.
LEMMA TasksAsBefore ==
    ASSUME ConnTypes, ConnTypes', TasksInv, UNCHANGED <<mode, inst>>,
           marred \subseteq marred',
           \A d \in Inst :
               /\ conn'[d].phase = conn[d].phase /\ conn'[d].timer = conn[d].timer
               /\ conn'[d].members = conn[d].members /\ conn'[d].cmds = conn[d].cmds
               /\ conn'[d].asked = conn[d].asked
               /\ mode.share => conn'[d].cancel = conn[d].cancel
               /\ conn[d].cancel => conn'[d].cancel
    PROVE  TasksInv' /\ \A w \in Watch : Serving(w)' \subseteq Serving(w)
<1>1. Holdings /\ Queues /\ RefusedLeave /\ LiveIsAsked BY DEF TasksInv
<1>2. \A d \in Inst : Held(d)' = Held(d) /\ (Running(d)' <=> Running(d))
  BY HeldNext DEF Held, Running
<1>3. \A w : Of(w)' = Of(w) BY OfKept
<1>4. Holdings' BY <1>1, <1>2 DEF Holdings, Inst
<1>5. \A d \in Inst : \A w :
         /\ Once(conn[d]) => Once(conn'[d])
         /\ Spaced(conn[d], Of(w), w) => Spaced(conn'[d], Of(w), w)
         /\ Stays(conn'[d], Of(w), w) \subseteq Stays(conn[d], Of(w), w)
  BY SpacedLeaving
<1>6. Queues' BY <1>1, <1>3, <1>5, QueuesNext DEF Queues
<1>7. RefusedLeave' BY <1>1, <1>2 DEF RefusedLeave, Inst
<1>8. LiveIsAsked' BY <1>1 DEF LiveIsAsked, Inst
<1>9. ASSUME NEW w \in Watch PROVE Serving(w)' \subseteq Serving(w)
  <2>1. \A d \in Inst : Serves(d)' => Serves(d) BY <1>2 DEF Serves
  <2> QED BY <1>3, <1>5, <2>1, ServesLess
<1> QED BY <1>4, <1>6, <1>7, <1>8, <1>9 DEF TasksInv

\* r is not in the adapter for v.
Away(x, v) ==
    ~(x.at \in {"join", "bind", "wait", "leave", "forget"} /\ x.w = v)

LEMMA BusyIs == \A q \in Caller : \A v : /\ Busy(q, v) <=> ~Away(call[q], v)
                                         /\ Busy(q, v)' <=> ~Away(call'[q], v)
BY DEF Busy, Away

\* A step of r for w.
LEMMA StepFor ==
    ASSUME ServedInv, TasksInv', NEW r \in Caller, NEW w, mode' = mode,
           marred \subseteq marred', \A q \in Caller \ {r} : call'[q] = call[q],
           \A v \in Watch \ marred' : v # w =>
               /\ Away(call[r], v) /\ Away(call'[r], v)
               /\ tasks'[v] = tasks[v] /\ Serving(v)' \subseteq Serving(v)
               /\ v \in watch_conn => v \in watch_conn',
           w \in Watch \ marred' => OneCall(w)' /\ ServesOne(w)'
    PROVE  ServedInv'
<1>1. ASSUME NEW v \in Watch \ marred', v # w PROVE OneCall(v)' /\ ServesOne(v)'
  <2>1. OneCall(v) /\ ServesOne(v) BY <1>1 DEF ServedInv
  <2>2. \A q \in Caller : Busy(q, v)' <=> Busy(q, v) BY <1>1, BusyIs
  <2>3. \A q \in Caller : Busy(q, v) => call'[q] = call[q] BY <1>1, BusyIs
  <2> QED BY <1>1, <2>1, <2>2, <2>3, OtherWatch
<1> QED BY <1>1 DEF ServedInv

\* r calls for w and nobody else does: what is served, and that it is found.
LEMMA Alone ==
    ASSUME ServedInv, NEW w \in Watch \ marred, NEW r \in Caller, Busy(r, w)
    PROVE  /\ \A q \in Caller : Busy(q, w) => q = r
           /\ call[r].at \in {"join", "leave", "forget"} => tasks[w] = 0
           /\ call[r].at \in {"bind", "wait"} => tasks[w] = call[r].i
           /\ call[r].at # "leave" \/ ~mode.share => Serving(w) \subseteq {tasks[w]}
           /\ call[r].at # "bind" => Serving(w) = {} \/ ~mode.share \/ w \in watch_conn
BY DEF ServedInv, OneCall, ServesOne

\* Nothing that is served has the name 0.
LEMMA NoneServed ==
    ASSUME ConnTypes, NEW w \in Watch, Serving(w) \subseteq {0}
    PROVE  Serving(w) = {}
BY ServedIsHeld DEF Inst

\* r is through with w.
LEMMA Through ==
    ASSUME ServedInv, NEW r \in Caller, NEW w \in Watch, TasksInv',
           call[r].w = w, call'[r].at \notin {"join", "bind", "wait", "leave", "forget"},
           \A q \in Caller \ {r} : call'[q] = call[q],
           Busy(r, w), mode' = mode, marred' = marred, watch_conn' = watch_conn,
           \A v \in Watch : /\ Serving(v)' \subseteq Serving(v)
                            /\ v # w => tasks'[v] = tasks[v],
           w \notin marred => /\ Serving(w) \subseteq {tasks'[w]}
                              /\ Serving(w) = {} \/ ~mode.share \/ w \in watch_conn
    PROVE  ServedInv'
<1>1. ASSUME w \notin marred PROVE OneCall(w)' /\ ServesOne(w)'
  <2>1. \A q \in Caller : ~Busy(q, w)' BY <1>1, Alone, BusyIs DEF Away
  <2>2. OneCall(w)' BY <2>1 DEF OneCall
  <2>3. ServesOne(w)' BY <1>1 DEF ServesOne
  <2> QED BY <2>2, <2>3
<1>2. \A v \in Watch : v # w => Away(call[r], v) /\ Away(call'[r], v) BY DEF Away
<1> QED BY <1>1, <1>2, StepFor

\* r is not in the adapter, before or after.
LEMMA Elsewhere ==
    ASSUME Inv, ServedInv, NEW r \in Caller,
           \A q \in Caller \ {r} : call'[q] = call[q],
           call[r].at \in {"idle", "launch", "collect", "save"},
           call'[r].at \in {"idle", "launch", "collect", "save"},
           UNCHANGED connectionVars, UNCHANGED adapterVars
    PROVE  ServedInv'
<1>1. UNCHANGED <<mode, inst, conn, marred, tasks, watch_conn>>
  BY DEF connectionVars, adapterVars
<1>2. ConnTypes /\ ConnTypes' BY SameConnections DEF Inv, ConnInv
<1>3. TasksInv' /\ \A w \in Watch : Serving(w)' \subseteq Serving(w)
  BY <1>1, <1>2, TasksAsBefore DEF ServedInv
<1>4. \A v : Away(call[r], v) /\ Away(call'[r], v) BY DEF Away
<1> QED BY <1>1, <1>3, <1>4, WatchesAssumption, ConnectionAssumption, StepFor

LEMMA CallGoes ==
    ASSUME CallInv, NEW r \in Caller, NEW x, call' = [call EXCEPT ![r] = x]
    PROVE  call'[r] = x /\ \A q \in Caller \ {r} : call'[q] = call[q]
BY DEF CallInv

LEMMA LaunchedAt ==
    ASSUME NEW x \in Call
    PROVE  Launched(x).at \in {"idle", "launch"}
<1>1. [x EXCEPT !.at = "launch"].at = "launch" BY DEF Call
<1> QED BY <1>1, RestingType DEF Launched

-----------------------------------------------------------------------------
(* The steps of a call, one by one. *)

LEMMA ElsewhereServes ==
    ASSUME Inv, ServedInv, NEW r \in Caller,
           \/ \E w \in Watch : LaunchFails(r, w) \/ StartStream(r, w)
           \/ RelaunchMissing(r) \/ Collect(r) \/ Save(r)
    PROVE  ServedInv'
<1>0. CallInv /\ call[r] \in Call BY CallFields DEF Inv
<1>1. ASSUME NEW w \in Watch, LaunchFails(r, w) PROVE ServedInv'
  <2> DEFINE y == [call[r] EXCEPT !.todo = call[r].todo \ {w}]
  <2>1. y \in Call BY <1>0, CallFields DEF Call
  <2>2. call' = [call EXCEPT ![r] = Launched(y)] BY <1>1 DEF LaunchFails
  <2> HIDE DEF y
  <2>3. call'[r] = Launched(y) /\ \A q \in Caller \ {r} : call'[q] = call[q]
    BY <1>0, <2>2, CallGoes
  <2>4. call[r].at = "launch" /\ UNCHANGED connectionVars /\ UNCHANGED adapterVars
    BY <1>1 DEF LaunchFails
  <2> QED BY <2>1, <2>3, <2>4, LaunchedAt, Elsewhere
<1>2. ASSUME NEW w \in Watch, StartStream(r, w) PROVE ServedInv'
  <2> DEFINE x == [Resting EXCEPT !.at = "launch", !.todo = {w}]
  <2>1. x.at = "launch" BY RestingType DEF Resting
  <2>2. call' = [call EXCEPT ![r] = x] BY <1>2 DEF StartStream
  <2> HIDE DEF x
  <2>3. call'[r] = x /\ \A q \in Caller \ {r} : call'[q] = call[q]
    BY <1>0, <2>2, CallGoes
  <2>4. call[r].at = "idle" /\ UNCHANGED connectionVars /\ UNCHANGED adapterVars
    BY <1>2 DEF StartStream, CanCall
  <2> QED BY <2>1, <2>3, <2>4, Elsewhere
<1>3. CASE RelaunchMissing(r)
  <2> DEFINE x == [Resting EXCEPT !.at = "launch", !.op = "relaunch",
                                  !.todo = vault \ watches]
  <2>1. x.at = "launch" BY RestingType DEF Resting
  <2>2. call' = [call EXCEPT ![r] = x] BY <1>3 DEF RelaunchMissing
  <2> HIDE DEF x
  <2>3. call'[r] = x /\ \A q \in Caller \ {r} : call'[q] = call[q]
    BY <1>0, <2>2, CallGoes
  <2>4. call[r].at = "idle" /\ UNCHANGED connectionVars /\ UNCHANGED adapterVars
    BY <1>3 DEF RelaunchMissing, CanCall
  <2> QED BY <2>1, <2>3, <2>4, Elsewhere
<1>4. CASE Collect(r)
  <2> DEFINE x == [call[r] EXCEPT !.at = "save", !.list = watches]
  <2>1. x.at = "save" BY <1>0 DEF Call
  <2>2. call' = [call EXCEPT ![r] = x] BY <1>4 DEF Collect
  <2> HIDE DEF x
  <2>3. call'[r] = x /\ \A q \in Caller \ {r} : call'[q] = call[q]
    BY <1>0, <2>2, CallGoes
  <2>4. call[r].at = "collect" /\ UNCHANGED connectionVars /\ UNCHANGED adapterVars
    BY <1>4 DEF Collect
  <2> QED BY <2>1, <2>3, <2>4, Elsewhere
<1>5. CASE Save(r)
  <2>1. call'[r] = Resting /\ \A q \in Caller \ {r} : call'[q] = call[q]
    BY <1>0, <1>5, CallGoes DEF Save
  <2>2. call[r].at = "save" /\ UNCHANGED connectionVars /\ UNCHANGED adapterVars
    BY <1>5 DEF Save
  <2> QED BY <2>1, <2>2, RestingType, Elsewhere
<1> QED BY <1>1, <1>2, <1>3, <1>4, <1>5

\* Without a shared task that runs, a shared connection serves nobody.
LEMMA DeadServes ==
    ASSUME ConnInv, mode.share, handle = 0 \/ ~Running(handle)
    PROVE  \A w \in Watch : Serving(w) = {}
BY ServedIsHeld DEF ConnInv, Single, Serves, Inst

LEMMA StartOnDeadServes ==
    ASSUME Inv, ServedInv, NEW r \in Caller, StartOnDead(r)
    PROVE  ServedInv'
<1> DEFINE w == call[r].w
<1>0. /\ CallInv /\ call[r] \in Call /\ ConnInv /\ ConnTypes
      /\ w \in Watch /\ call[r].at = "join" /\ mode.share /\ HandleDead
  BY CallFields DEF Inv, StartOnDead, Orderly, ConnInv
<1>1. /\ call' = [call EXCEPT ![r] = Launched(call[r])]
      /\ UNCHANGED <<mode, inst, starts, conn, faults, marred, watch_conn>>
      /\ tasks' = [tasks EXCEPT ![w] = 0] /\ handle' = 0
  BY DEF StartOnDead
<1>2. call'[r] = Launched(call[r]) /\ \A q \in Caller \ {r} : call'[q] = call[q]
  BY <1>0, <1>1, CallGoes
<1>3. ConnTypes' BY <1>0, <1>1, DeadKeeps DEF ConnInv
<1>4. TasksInv' /\ \A v \in Watch : Serving(v)' \subseteq Serving(v)
  BY <1>0, <1>1, <1>3, TasksAsBefore DEF ServedInv
<1>5. \A v \in Watch : Serving(v) = {} BY <1>0, DeadServes DEF HandleDead
<1>6. \A v \in Watch : v # w => tasks'[v] = tasks[v]
  BY <1>1 DEF Inv, CallInv, ListTypes
<1>7. Busy(r, w) BY <1>0 DEF Busy
<1>8. call'[r].at \in {"idle", "launch"} BY <1>0, <1>2, LaunchedAt
<1> HIDE DEF w
<1> QED BY <1>0, <1>1, <1>2, <1>4, <1>5, <1>6, <1>7, <1>8, Through DEF w

\* The tasks are as they were, and so is what they serve.
LEMMA SameTasks ==
    ASSUME Inv, ServedInv, UNCHANGED connectionVars
    PROVE  /\ TasksInv' /\ mode' = mode /\ marred' = marred /\ ConnTypes
           /\ \A v \in Watch : Serving(v)' \subseteq Serving(v)
<1>1. UNCHANGED <<mode, inst, conn, marred>> BY DEF connectionVars
<1>2. ConnTypes /\ ConnTypes' BY SameConnections DEF Inv, ConnInv
<1> QED BY <1>1, <1>2, TasksAsBefore DEF ServedInv

\* Who was refused is not served: what the registry loses is nothing.
LEMMA RejectedServes ==
    ASSUME Inv, ServedInv, NEW r \in Caller, Rejected(r)
    PROVE  ServedInv'
<1> DEFINE w == call[r].w
           y == [call[r] EXCEPT !.i = 0]
<1>0. /\ CallInv /\ call[r] \in Call /\ w \in Watch /\ call[r].at = "wait"
      /\ inst[call[r].i].verdict = "err"
  BY CallFields DEF Inv, Rejected, Orderly
<1>1. y \in Call BY <1>0, CallFields, NoInstance DEF Call
<1>2. call' = [call EXCEPT ![r] = Launched(y)] BY DEF Rejected
<1>3. /\ UNCHANGED connectionVars /\ watch_conn' = watch_conn
      /\ tasks' = [tasks EXCEPT ![w] = 0]
  BY DEF Rejected
<1> HIDE DEF y
<1>4. call'[r] = Launched(y) /\ \A q \in Caller \ {r} : call'[q] = call[q]
  BY <1>0, <1>2, CallGoes
<1>5. /\ TasksInv' /\ mode' = mode /\ marred' = marred /\ ConnTypes
      /\ \A v \in Watch : Serving(v)' \subseteq Serving(v)
  BY <1>3, SameTasks
<1>6. \A v \in Watch : v # w => tasks'[v] = tasks[v]
  BY <1>3 DEF Inv, CallInv, ListTypes
<1>7. Busy(r, w) BY <1>0 DEF Busy
<1>8. ASSUME w \notin marred PROVE Serving(w) = {}
  <2>1. SUFFICES ASSUME NEW i \in Serving(w) PROVE FALSE OBVIOUS
  <2>2. i = call[r].i BY <1>0, <1>7, <1>8, <2>1, Alone
  <2>3. PICK c \in Inst : i \in Held(c) BY <1>0, <1>5, ServedIsHeld
  <2>4. inst[i].watch = w /\ inst[i].verdict = "err"
    BY <1>0, <1>5, <2>2, ServedIsHeld
  <2> QED BY <1>8, <2>3, <2>4 DEF ServedInv, TasksInv, RefusedLeave
<1>9. call'[r].at \in {"idle", "launch"} BY <1>1, <1>4, LaunchedAt
<1> HIDE DEF w
<1> QED BY <1>0, <1>3, <1>4, <1>5, <1>6, <1>7, <1>8, <1>9, Through DEF w

LEMMA RegisteredServes ==
    ASSUME Inv, ServedInv, NEW r \in Caller, Registered(r)
    PROVE  ServedInv'
<1> DEFINE w == call[r].w
           y == [call[r] EXCEPT !.i = 0]
           z == [call[r] EXCEPT !.at = "collect", !.i = 0]
           x == IF call[r].op = "start" THEN z ELSE Launched(y)
<1>0. CallInv /\ call[r] \in Call /\ w \in Watch /\ call[r].at = "wait"
  BY CallFields DEF Inv, Registered, Orderly
<1>1. y \in Call /\ z.at = "collect" BY <1>0, CallFields, NoInstance DEF Call
<1>2. call' = [call EXCEPT ![r] = x] BY DEF Registered
<1>3. UNCHANGED connectionVars /\ UNCHANGED <<tasks, watch_conn>>
  BY DEF Registered, adapterVars
<1> HIDE DEF y, z
<1>4. x.at \in {"idle", "launch", "collect"} BY <1>1, LaunchedAt
<1> HIDE DEF x
<1>5. call'[r] = x /\ \A q \in Caller \ {r} : call'[q] = call[q]
  BY <1>0, <1>2, CallGoes
<1>6. /\ TasksInv' /\ mode' = mode /\ marred' = marred
      /\ \A v \in Watch : Serving(v)' \subseteq Serving(v)
  BY <1>3, SameTasks
<1>7. Busy(r, w) BY <1>0 DEF Busy
<1>8. w \notin marred => /\ Serving(w) \subseteq {tasks[w]}
                         /\ Serving(w) = {} \/ ~mode.share \/ w \in watch_conn
  BY <1>0, <1>7, Alone
<1> HIDE DEF w
<1> QED BY <1>0, <1>3, <1>4, <1>5, <1>6, <1>7, <1>8, Through DEF w

LEMMA ForgetServes ==
    ASSUME Inv, ServedInv, NEW r \in Caller, Forget(r)
    PROVE  ServedInv'
<1> DEFINE w == call[r].w
           x == [call[r] EXCEPT !.at = "collect"]
<1>0. CallInv /\ call[r] \in Call /\ w \in Watch /\ call[r].at = "forget"
  BY CallFields DEF Inv, Forget, Orderly
<1>1. x.at = "collect" BY <1>0 DEF Call
<1>2. call' = [call EXCEPT ![r] = x] BY DEF Forget
<1>3. UNCHANGED connectionVars /\ UNCHANGED <<tasks, watch_conn>>
  BY DEF Forget, adapterVars
<1> HIDE DEF x
<1>5. call'[r] = x /\ \A q \in Caller \ {r} : call'[q] = call[q]
  BY <1>0, <1>2, CallGoes
<1>6. /\ TasksInv' /\ mode' = mode /\ marred' = marred
      /\ \A v \in Watch : Serving(v)' \subseteq Serving(v)
  BY <1>3, SameTasks
<1>7. Busy(r, w) BY <1>0 DEF Busy
<1>8. w \notin marred => /\ Serving(w) \subseteq {tasks[w]}
                         /\ Serving(w) = {} \/ ~mode.share \/ w \in watch_conn
  BY <1>0, <1>7, Alone
<1> HIDE DEF w
<1> QED BY <1>0, <1>1, <1>3, <1>5, <1>6, <1>7, <1>8, Through DEF w

\* stop() will find the task from now on.
LEMMA BindServes ==
    ASSUME Inv, ServedInv, NEW r \in Caller, Bind(r)
    PROVE  ServedInv'
<1> DEFINE x == [call[r] EXCEPT !.at = "wait"]
<1>0. PICK w \in Watch : w = call[r].w BY CallFields DEF Inv, Bind, Orderly
<1>4. CallInv /\ call[r] \in Call /\ call[r].w = w /\ call[r].at = "bind"
  BY <1>0, CallFields DEF Inv, Bind
<1>1. x.at = "wait" /\ x.w = w /\ x.i = call[r].i BY <1>4 DEF Call
<1>2. call' = [call EXCEPT ![r] = x] BY DEF Bind
<1>3. UNCHANGED connectionVars /\ tasks' = tasks /\ watch_conn' = watch_conn \cup {w}
  BY <1>0 DEF Bind
<1> HIDE DEF x
<1>5. call'[r] = x /\ \A q \in Caller \ {r} : call'[q] = call[q]
  BY <1>4, <1>2, CallGoes
<1>6. /\ TasksInv' /\ mode' = mode /\ marred' = marred
      /\ \A v \in Watch : Serving(v)' \subseteq Serving(v)
  BY <1>3, SameTasks
<1>7. Busy(r, w) BY <1>4 DEF Busy
<1>8. ASSUME w \in Watch \ marred PROVE OneCall(w)' /\ ServesOne(w)'
  <2>1. /\ \A q \in Caller : Busy(q, w)' => q = r
        /\ tasks[w] = call[r].i /\ Serving(w) \subseteq {tasks[w]}
    BY <1>4, <1>5, <1>7, <1>8, Alone, BusyIs
  <2>2. OneCall(w)' BY <1>1, <1>3, <1>5, <2>1 DEF OneCall
  <2>3. ServesOne(w)' BY <1>4, <1>3, <1>6, <2>1 DEF ServesOne
  <2> QED BY <2>2, <2>3
<1>9. \A v : v # w => Away(call[r], v) /\ Away(call'[r], v)
  BY <1>4, <1>1, <1>5 DEF Away
<1> QED BY <1>4, <1>3, <1>5, <1>6, <1>8, <1>9, StepFor

LEMMA StaysHeld ==
    ASSUME NEW t \in Task, NEW is \in SUBSET Inst, NEW w
    PROVE  Stays(t, is, w) \subseteq t.members \cup Adds(t.cmds)
BY StaysIs DEF Adds

\* What is taken out of the registry serves no more, or will be told to leave.
LEMMA DetachServes ==
    ASSUME Inv, ServedInv, NEW r \in Caller, NEW w \in Watch, Detach(w), ConnTypes',
           call[r].at \in {"idle", "launch"}, call'[r].at \in {"join", "leave"},
           call'[r].w = w, \A q \in Caller \ {r} : call'[q] = call[q],
           marred' \in {marred, marred \cup {w}},
           OthersBusy(r, w) => w \in marred',
           call'[r].at = "join" /\ mode.share /\ tasks[w] # 0 => w \in marred'
    PROVE  ServedInv'
<1>1. /\ tasks' = [tasks EXCEPT ![w] = 0] /\ conn' = Cancel(w)
      /\ UNCHANGED <<mode, inst, watch_conn>>
  BY DEF Detach
<1>2. /\ tasks'[w] = 0 /\ \A v \in Watch : v # w => tasks'[v] = tasks[v]
      /\ tasks[w] \in 0..MaxStarts
  BY <1>1 DEF Inv, CallInv, ListTypes
<1>3. ConnTypes /\ \A d \in Inst : conn[d] \in Task BY DEF Inv, ConnInv, ConnTypes
\* The tasks but for their flag.
<1>4. /\ \A d \in Inst :
             /\ conn'[d].phase = conn[d].phase /\ conn'[d].timer = conn[d].timer
             /\ conn'[d].members = conn[d].members /\ conn'[d].cmds = conn[d].cmds
             /\ conn'[d].asked = conn[d].asked
             /\ mode.share => conn'[d].cancel = conn[d].cancel
             /\ conn[d].cancel => conn'[d].cancel
      /\ ~mode.share /\ tasks[w] # 0 /\ Running(tasks[w]) => conn'[tasks[w]].cancel
  <2>1. CASE tasks[w] = 0 \/ mode.share \/ ~Running(tasks[w])
    <3>1. conn' = conn BY <1>1, <2>1 DEF Cancel
    <3> QED BY <2>1, <3>1
  <2>2. CASE ~(tasks[w] = 0 \/ mode.share \/ ~Running(tasks[w]))
    <3>1. PICK c \in Inst : c = tasks[w] BY <1>2, <2>2, ConnectionAssumption DEF Inst
    <3> DEFINE t == [conn[c] EXCEPT !.cancel = TRUE]
    <3>2. conn' = [conn EXCEPT ![c] = t] BY <1>1, <2>2, <3>1 DEF Cancel
    <3>3. /\ t.phase = conn[c].phase /\ t.timer = conn[c].timer
          /\ t.members = conn[c].members /\ t.cmds = conn[c].cmds
          /\ t.asked = conn[c].asked /\ t.cancel
      BY <1>3 DEF Task
    <3> HIDE DEF t
    <3>4. conn'[c] = t /\ \A d \in Inst \ {c} : conn'[d] = conn[d]
      BY <1>3, <3>2 DEF ConnTypes
    <3> QED BY <2>2, <3>1, <3>3, <3>4
  <2> QED BY <2>1, <2>2
<1>5. TasksInv' /\ \A v \in Watch : Serving(v)' \subseteq Serving(v)
  BY <1>1, <1>3, <1>4, TasksAsBefore DEF ServedInv
<1>6. ASSUME w \notin marred' PROVE OneCall(w)' /\ ServesOne(w)'
  <2>1. /\ \A q \in Caller : ~Busy(q, w) /\ w \notin marred
        /\ \A q \in Caller : Busy(q, w)' => q = r
        /\ Busy(r, w)'
    <3>1. ~Busy(r, w) BY DEF Busy
    <3>2. \A q \in Caller \ {r} : ~Busy(q, w) BY <1>6 DEF OthersBusy
    <3> QED BY <1>6, <3>1, <3>2, BusyIs DEF Away
  <2>2. /\ Serving(w) \subseteq {tasks[w]}
        /\ Serving(w) = {} \/ ~mode.share \/ w \in watch_conn
    BY <2>1 DEF ServedInv, ServesOne
  <2>3. OneCall(w)' BY <1>2, <2>1 DEF OneCall
  <2>4. CASE mode.share /\ call'[r].at = "leave"
    BY <1>1, <1>5, <2>1, <2>2, <2>3, <2>4 DEF ServesOne
  <2>5. CASE mode.share /\ call'[r].at = "join"
    <3>1. Serving(w) = {} BY <1>3, <1>6, <2>2, <2>5, NoneServed
    <3> QED BY <1>5, <2>3, <3>1 DEF ServesOne
  <2>6. CASE ~mode.share
    <3>1. SUFFICES ASSUME NEW i \in Serving(w)' PROVE FALSE
      BY <2>3 DEF ServesOne
    <3>2. PICK c \in Inst : Serves(c)' /\ i \in Stays(conn'[c], Of(w)', w)
      BY ServingNext
    <3>3. Of(w)' = Of(w) /\ Of(w) \in SUBSET Inst BY <1>1, OfKept DEF Of
    <3>4. i \in conn'[c].members \cup Adds(conn'[c].cmds)
      BY <3>2, <3>3, StaysHeld DEF ConnTypes, Inst
    <3>5. i \in Held(c) BY <1>4, <3>4 DEF Held
    <3>6. i = c BY <2>6, <3>5 DEF ServedInv, TasksInv, Holdings
    <3>7. i = tasks[w] BY <1>5, <2>2
    <3>8. Running(c) BY <1>4, <3>2 DEF Serves, Running
    <3> QED BY <1>4, <2>6, <3>2, <3>6, <3>7, <3>8 DEF Serves, Inst
  <2> QED BY <2>4, <2>5, <2>6
<1>7. \A v : v # w => Away(call[r], v) /\ Away(call'[r], v) BY DEF Away
<1> QED BY <1>1, <1>2, <1>5, <1>6, <1>7, StepFor

LEMMA LaunchServes ==
    ASSUME Inv, ServedInv, NEW r \in Caller, NEW w \in Watch, Launch(r, w)
    PROVE  ServedInv'
<1> DEFINE x == [call[r] EXCEPT !.at = "join", !.w = w, !.todo = call[r].todo \ {w}]
<1>0. CallInv /\ call[r] \in Call BY CallFields DEF Inv
<1>1. x.at = "join" /\ x.w = w BY <1>0 DEF Call
<1>2. call' = [call EXCEPT ![r] = x] BY DEF Launch
<1> HIDE DEF x
<1>3. call'[r] = x /\ \A q \in Caller \ {r} : call'[q] = call[q]
  BY <1>0, <1>2, CallGoes
<1>4. /\ call[r].at = "launch" /\ Detach(w)
      /\ marred' = IF OthersBusy(r, w) \/ (mode.share /\ tasks[w] # 0)
                   THEN marred \cup {w} ELSE marred
  BY DEF Launch
<1>5. ConnTypes' BY <1>4, DetachKeeps DEF ConnInv
<1> QED BY <1>1, <1>3, <1>4, <1>5, DetachServes

LEMMA StopStreamServes ==
    ASSUME Inv, ServedInv, NEW r \in Caller, NEW w \in Watch, StopStream(r, w)
    PROVE  ServedInv'
<1> DEFINE x == [Resting EXCEPT !.at = "leave", !.op = "stop", !.w = w]
<1>0. CallInv BY DEF Inv
<1>1. x.at = "leave" /\ x.w = w BY RestingType DEF Call
<1>2. call' = [call EXCEPT ![r] = x] BY DEF StopStream
<1> HIDE DEF x
<1>3. call'[r] = x /\ \A q \in Caller \ {r} : call'[q] = call[q]
  BY <1>0, <1>2, CallGoes
<1>4. /\ call[r].at = "idle" /\ Detach(w)
      /\ marred' = IF OthersBusy(r, w) THEN marred \cup {w} ELSE marred
  BY DEF StopStream, CanCall
<1>5. ConnTypes' BY <1>4, DetachKeeps DEF ConnInv
<1> QED BY <1>1, <1>3, <1>4, <1>5, DetachServes

\* A command behind the others in a queue: only the queue is another.
LEMMA Behind ==
    ASSUME ConnTypes, NEW c \in Inst, NEW x \in Command,
           conn' = [conn EXCEPT ![c].cmds = Append(@, x)]
    PROVE  /\ conn' \in [Inst -> Task] /\ \A d \in Inst \ {c} : conn'[d] = conn[d]
           /\ conn'[c].cmds = Append(conn[c].cmds, x)
           /\ conn'[c].members = conn[c].members /\ conn'[c].phase = conn[c].phase
           /\ conn'[c].timer = conn[c].timer /\ conn'[c].asked = conn[c].asked
           /\ conn'[c].cancel = conn[c].cancel
           /\ \A i \in Inst : i \in Adds(conn'[c].cmds)
                              <=> i \in Adds(conn[c].cmds) \/ x = Add(i)
<1> DEFINE t == [conn[c] EXCEPT !.cmds = Append(conn[c].cmds, x)]
<1>1. conn[c] \in Task /\ conn[c].cmds \in Seq(Command) BY DEF ConnTypes, Task
<1>2. /\ Append(conn[c].cmds, x) \in Seq(Command)
      /\ \A i \in Inst : i \in Adds(Append(conn[c].cmds, x))
                         <=> i \in Adds(conn[c].cmds) \/ x = Add(i)
  BY <1>1, AddsOfAppend
<1>3. conn' = [conn EXCEPT ![c] = t] OBVIOUS
<1>4. /\ t \in Task /\ t.cmds = Append(conn[c].cmds, x) /\ t.members = conn[c].members
      /\ t.phase = conn[c].phase /\ t.timer = conn[c].timer
      /\ t.asked = conn[c].asked /\ t.cancel = conn[c].cancel
  BY <1>1, <1>2 DEF Task
<1> HIDE DEF t
<1>5. /\ conn' \in [Inst -> Task] /\ conn'[c] = t
      /\ \A d \in Inst \ {c} : conn'[d] = conn[d]
  BY <1>3, <1>4 DEF ConnTypes
<1> QED BY <1>2, <1>4, <1>5

\* The shared task is told, or is not there to be told.
LEMMA LeaveTasks ==
    ASSUME Inv, TasksInv, NEW w \in Watch, Leave(w), ConnTypes',
           UNCHANGED <<mode, inst, marred>>
    PROVE  /\ TasksInv' /\ \A v \in Watch : Serving(v)' \subseteq Serving(v)
           /\ mode.share => Serving(w)' = {}
<1>0. ConnInv /\ ConnTypes /\ NoHandle BY DEF Inv, ConnInv
<1>1. CASE HandleDead \/ handle = 0
  <2>1. conn' = conn BY <1>1 DEF Leave, HandleDead
  <2>2. TasksInv' /\ \A v \in Watch : Serving(v)' \subseteq Serving(v)
    BY <1>0, <2>1, TasksAsBefore
  <2>3. mode.share => \A v \in Watch : Serving(v) = {}
    BY <1>0, <1>1, DeadServes DEF HandleDead
  <2> QED BY <2>2, <2>3
<1>2. CASE ~HandleDead /\ handle # 0
  <2>1. PICK c \in Inst : c = handle
    BY <1>0, <1>2, ConnectionAssumption DEF ConnTypes, Inst
  <2>2. PICK x \in Command : x = Remove(w) /\ \A i : x # Add(i)
    <3>1. Remove(w) \in Command /\ \A i : Remove(w) # Add(i)
      BY DistinctCommands DEF Command, Remove
    <3> QED BY <3>1
  <2>3. conn' = [conn EXCEPT ![c].cmds = Append(@, x)]
    BY <1>2, <2>1, <2>2 DEF Leave, Remove
  <2>4. /\ \A d \in Inst \ {c} : conn'[d] = conn[d]
        /\ conn'[c].cmds = Append(conn[c].cmds, x)
        /\ conn'[c].members = conn[c].members /\ conn'[c].phase = conn[c].phase
        /\ conn'[c].timer = conn[c].timer /\ conn'[c].asked = conn[c].asked
        /\ conn'[c].cancel = conn[c].cancel
        /\ \A i \in Inst : i \in Adds(conn'[c].cmds)
                           <=> i \in Adds(conn[c].cmds) \/ x = Add(i)
    BY <1>0, <2>3, Behind
  <2>5. Running(c) /\ mode.share BY <1>0, <1>2, <2>1 DEF HandleDead, NoHandle
  <2>6. \A d \in Inst \ {c} : ~Running(d) BY <1>0, <2>1, <2>5 DEF ConnInv, Single
  <2>7. conn[c] \in Task BY <1>0 DEF ConnTypes
  <2>8. /\ Once(conn[c]) => Once(conn'[c])
        /\ \A v, is : /\ Spaced(conn[c], is, v) => Spaced(conn'[c], is, v)
                      /\ Stays(conn'[c], is, v) \subseteq Stays(conn[c], is, v)
        /\ \A is : Stays(conn'[c], is, w) = {}
    BY <2>2, <2>4, <2>7, SendRemove
  <2>9. Holdings /\ Queues /\ RefusedLeave /\ LiveIsAsked BY DEF TasksInv
  <2>10. \A d \in Inst : /\ (Running(d)' <=> Running(d)) /\ Held(d)' = Held(d)
                         /\ conn'[d].cancel = conn[d].cancel
    <3>1. Adds(conn'[c].cmds) = Adds(conn[c].cmds) BY <2>2, <2>4 DEF Adds
    <3> QED BY <2>4, <3>1, HeldNext DEF Running, Held
  <2>11. \A v : Of(v)' = Of(v) BY OfKept
  <2>12. Holdings'
    <3>1. \A d \in Inst : ~Running(d) => conn'[d].members = {} /\ conn'[d].cmds = << >>
      BY <2>4, <2>5, <2>9 DEF Holdings
    <3> QED BY <2>9, <2>10, <3>1 DEF Holdings, Inst
  <2>13. Queues' BY <2>4, <2>8, <2>9, <2>11, QueuesNext DEF Queues
  <2>14. RefusedLeave' BY <2>9, <2>10 DEF RefusedLeave, Inst
  <2>15. LiveIsAsked' BY <2>4, <2>9 DEF LiveIsAsked, Inst
  <2>16. ASSUME NEW v \in Watch PROVE Serving(v)' \subseteq Serving(v)
    <3>1. \A d \in Inst : Serves(d)' => Serves(d) BY <2>10 DEF Serves
    <3>2. \A d \in Inst : Stays(conn'[d], Of(v)', v) \subseteq Stays(conn[d], Of(v), v)
      BY <2>4, <2>8, <2>11
    <3> QED BY <1>0, <3>1, <3>2, ServesLess
  <2>17. Serving(w)' = {}
    <3>1. \A d \in Inst : Serves(d)' => d = c BY <2>6, <2>10 DEF Serves
    <3> QED BY <2>8, <3>1, ServingNext
  <2> QED BY <2>12, <2>13, <2>14, <2>15, <2>16, <2>17 DEF TasksInv
<1> QED BY <1>1, <1>2

\* stop() is done with the task: nothing is served any longer.
LEMMA LeaveSharedServes ==
    ASSUME Inv, ServedInv, NEW r \in Caller, LeaveShared(r)
    PROVE  ServedInv'
<1> DEFINE x == [call[r] EXCEPT !.at = "forget"]
<1>1. PICK w \in Watch : w = call[r].w
  BY CallFields DEF Inv, LeaveShared, Orderly
<1>2. CallInv /\ call[r] \in Call /\ call[r].w = w /\ call[r].at = "leave"
  BY <1>1, CallFields DEF Inv, LeaveShared
<1>3. x.at = "forget" /\ x.w = w BY <1>2 DEF Call
<1>4. call' = [call EXCEPT ![r] = x] BY DEF LeaveShared
<1> HIDE DEF x
<1>5. call'[r] = x /\ \A q \in Caller \ {r} : call'[q] = call[q]
  BY <1>2, <1>4, CallGoes
<1>6. /\ UNCHANGED <<mode, inst, starts, faults, marred, tasks>>
      /\ watch_conn' = watch_conn \ {w}
      /\ w \in watch_conn => Leave(w)
      /\ w \notin watch_conn => UNCHANGED <<conn, handle>>
  BY <1>1 DEF LeaveShared
<1>7. ConnTypes /\ ConnTypes'
  BY LeaveSharedKeeps DEF Inv, ConnInv
<1>8. /\ TasksInv' /\ \A v \in Watch : Serving(v)' \subseteq Serving(v)
      /\ w \in watch_conn /\ mode.share => Serving(w)' = {}
  <2>1. CASE w \in watch_conn
    BY <1>6, <1>7, <2>1, LeaveTasks DEF ServedInv
  <2>2. CASE w \notin watch_conn
    BY <1>6, <1>7, <2>2, TasksAsBefore DEF ServedInv
  <2> QED BY <2>1, <2>2
<1>9. Busy(r, w) BY <1>2 DEF Busy
<1>10. ASSUME w \in Watch \ marred PROVE OneCall(w)' /\ ServesOne(w)'
  <2>1. /\ \A q \in Caller : Busy(q, w)' => q = r
        /\ tasks[w] = 0
        /\ ~mode.share => Serving(w) \subseteq {0}
        /\ Serving(w) = {} \/ ~mode.share \/ w \in watch_conn
    BY <1>2, <1>5, <1>9, <1>10, Alone, BusyIs
  <2>2. Serving(w)' = {} BY <1>7, <1>8, <2>1, NoneServed
  <2>3. OneCall(w)' BY <1>3, <1>5, <1>6, <2>1 DEF OneCall
  <2> QED BY <2>2, <2>3 DEF ServesOne
<1>11. \A v : v # w => Away(call[r], v) /\ Away(call'[r], v)
  BY <1>2, <1>3, <1>5 DEF Away
<1> QED BY <1>5, <1>6, <1>8, <1>10, <1>11, StepFor

-----------------------------------------------------------------------------
(* A start hands its instance over. *)

\* The task u that has the new instance n of w, where it was t.
Joined(t, u, n, w) ==
    /\ Once(u)
    /\ \A v \in Watch \ marred : v # w =>
          /\ Spaced(u, Of(v), v) /\ Stays(u, Of(v), v) \subseteq Stays(t, Of(v), v)
    /\ w \notin marred =>
          /\ Spaced(u, Of(w) \cup {n}, w)
          /\ Stays(u, Of(w) \cup {n}, w) \subseteq Stays(t, Of(w), w) \cup {n}
    /\ u.members \cup Adds(u.cmds) \subseteq t.members \cup Adds(t.cmds) \cup {n}
    /\ u.phase = "live" => /\ t.phase = "live" /\ u.members = t.members
                           /\ u.timer = t.timer /\ u.asked = t.asked

LEMMA JoinsBehind ==
    ASSUME NEW t \in Task, NEW u \in Task, NEW n \in Inst, NEW w \in Watch,
           Once(t), \A v \in Watch \ marred : Spaced(t, Of(v), v),
           u.members = t.members, u.cmds = Append(t.cmds, Add(n)),
           n \notin t.members \cup Adds(t.cmds), inst[n].watch = NoWatch,
           w \notin marred => Stays(t, Of(w), w) = {},
           \A i \in Inst : i \in Adds(u.cmds) => i \in Adds(t.cmds) \/ Add(n) = Add(i),
           u.phase = "live" => /\ t.phase = "live"
                               /\ u.timer = t.timer /\ u.asked = t.asked
    PROVE  Joined(t, u, n, w)
<1>1. \A v \in Watch : n \notin Of(v) BY ConnectionAssumption DEF Of
<1>2. /\ Once(u)
      /\ \A v : \A is : n \notin is =>
           /\ Spaced(t, is, v) => Spaced(u, is, v)
           /\ Stays(u, is, v) \subseteq Stays(t, is, v)
           /\ Stays(u, is \cup {n}, v) \subseteq Stays(t, is, v) \cup {n}
           /\ Spaced(t, is, v) /\ Stays(t, is, v) = {} => Spaced(u, is \cup {n}, v)
  BY SendAdd
<1>3. u.members \cup Adds(u.cmds) \subseteq t.members \cup Adds(t.cmds) \cup {n}
  BY DistinctCommands DEF Adds
<1> QED BY <1>1, <1>2, <1>3 DEF Joined

LEMMA SpawnedFields ==
    ASSUME NEW n \in Inst
    PROVE  /\ Spawned(n).phase = "top" /\ ~Spawned(n).cancel
           /\ mode.share => Spawned(n).members = {} /\ Spawned(n).cmds = <<Add(n)>>
           /\ ~mode.share => Spawned(n).members = {n} /\ Spawned(n).cmds = << >>
<1> DEFINE q == <<Add(n)>>
           ms == {n}
<1>1. CASE mode.share
  <2>1. Spawned(n) = [NoTask EXCEPT !.phase = "top", !.cmds = q]
    BY <1>1 DEF Spawned, Add
  <2> HIDE DEF q
  <2>2. /\ Spawned(n).phase = "top" /\ ~Spawned(n).cancel
        /\ Spawned(n).members = {} /\ Spawned(n).cmds = q
    BY <2>1, NoTaskType DEF Task
  <2> QED BY <1>1, <2>2 DEF q
<1>2. CASE ~mode.share
  <2>1. Spawned(n) = [NoTask EXCEPT !.phase = "top", !.members = ms]
    BY <1>2 DEF Spawned
  <2> HIDE DEF ms
  <2>2. /\ Spawned(n).phase = "top" /\ ~Spawned(n).cancel
        /\ Spawned(n).members = ms /\ Spawned(n).cmds = << >>
    BY <2>1, NoTaskType DEF Task
  <2> QED BY <1>2, <2>2 DEF ms
<1> QED BY <1>1, <1>2

\* Whoever takes the instance of a watch that nothing is served for.
LEMMA JoinTasks ==
    ASSUME ConnInv, NoHandle, TasksInv, NEW w \in Watch, NEW n \in Inst,
           n = starts + 1, ~(mode.share /\ HandleDead), Join(w, n),
           w \notin marred => Serving(w) = {}
    PROVE  \E c \in Inst :
              /\ Joined(conn[c], conn'[c], n, w) /\ conn' \in [Inst -> Task]
              /\ \A d \in Inst \ {c} : conn'[d] = conn[d]
              /\ Running(c)' /\ (mode.share => ~conn'[c].cancel)
              /\ ~mode.share => c = n
              /\ Serves(c) \/ \A v : Stays(conn[c], Of(v), v) = {}
<1>1. Holdings /\ Queues /\ ConnTypes BY DEF TasksInv, ConnInv
<1>2. /\ inst[n].watch = NoWatch /\ ~Running(n) /\ starts \in Nat
      /\ \A d \in Inst : n \notin Held(d)
  <2>1. starts \in Nat BY ConnectionAssumption DEF ConnInv, ConnTypes
  <2>2. n > starts BY <2>1
  <2> QED BY <2>1, <2>2, ConnectionAssumption DEF ConnInv, Fresh, Born
<1>3. \A d \in Inst : /\ conn[d] \in Task /\ Once(conn[d])
                      /\ \A v \in Watch \ marred : Spaced(conn[d], Of(v), v)
  BY <1>1 DEF ConnTypes, Queues
<1>4. CASE mode.share /\ handle # 0
  <2>1. PICK c \in Inst : c = handle
    BY <1>1, <1>4, ConnectionAssumption DEF ConnTypes, Inst
  <2>2. PICK x \in Command : x = Add(n) BY AddIsCommand
  <2>3. conn' = [conn EXCEPT ![c].cmds = Append(@, x)]
    BY <1>4, <2>1, <2>2 DEF Join, Add
  <2>4. /\ conn' \in [Inst -> Task] /\ \A d \in Inst \ {c} : conn'[d] = conn[d]
        /\ conn'[c].cmds = Append(conn[c].cmds, x)
        /\ conn'[c].members = conn[c].members /\ conn'[c].phase = conn[c].phase
        /\ conn'[c].timer = conn[c].timer /\ conn'[c].asked = conn[c].asked
        /\ conn'[c].cancel = conn[c].cancel
        /\ \A i \in Inst : i \in Adds(conn'[c].cmds)
                           <=> i \in Adds(conn[c].cmds) \/ x = Add(i)
    BY <1>1, <2>3, Behind
  <2>5. Running(c) /\ Running(c)' BY <1>4, <2>1, <2>4 DEF HandleDead, Running
  <2>6. Serves(c) BY <1>1, <1>4, <2>5 DEF Serves, Holdings
  <2>7. w \notin marred => Stays(conn[c], Of(w), w) = {}
    BY <1>1, <2>6, ServingIs
  <2>8. conn[c] \in Task /\ conn'[c] \in Task BY <1>3, <2>4
  <2>9. n \notin conn[c].members \cup Adds(conn[c].cmds) BY <1>2 DEF Held
  <2>10. Joined(conn[c], conn'[c], n, w)
    BY <1>2, <1>3, <2>2, <2>4, <2>7, <2>8, <2>9, JoinsBehind
  <2> QED BY <1>1, <1>4, <2>4, <2>5, <2>6, <2>10 DEF Holdings
<1>5. CASE ~(mode.share /\ handle # 0)
  <2>1. conn' = [conn EXCEPT ![n] = Spawned(n)] BY <1>5 DEF Join
  <2>2. /\ Spawned(n) \in Task
        /\ Spawned(n).members \cup Adds(Spawned(n).cmds) = {n}
    BY SpawnedType
  <2>3. /\ conn' \in [Inst -> Task] /\ conn'[n] = Spawned(n)
        /\ \A d \in Inst \ {n} : conn'[d] = conn[d]
    BY <1>1, <2>1, <2>2 DEF ConnTypes
  <2>4. conn'[n].phase = "top" /\ ~conn'[n].cancel BY <2>3, SpawnedFields
  <2>5. Running(n)' BY <2>4 DEF Running
  <2>6. conn[n].members = {} /\ conn[n].cmds = << >> BY <1>1, <1>2 DEF Holdings
  <2>7. \A v : Stays(conn[n], Of(v), v) = {} BY <2>6, SpacedNone
  <2>8. CASE mode.share
    <3>1. conn'[n].members = {} /\ conn'[n].cmds = <<Add(n)>>
      BY <2>3, <2>8, SpawnedFields
    <3>2. conn'[n].members = conn[n].members
          /\ conn'[n].cmds = Append(conn[n].cmds, Add(n))
      BY <2>6, <3>1
    <3>3. conn[n] \in Task /\ conn'[n] \in Task BY <1>3, <2>3
    <3>4. n \notin conn[n].members \cup Adds(conn[n].cmds) BY <1>2 DEF Held
    <3>5. \A i \in Inst : i \in Adds(conn'[n].cmds) => Add(n) = Add(i)
      BY <2>2, <2>3
    <3>6. Joined(conn[n], conn'[n], n, w)
      BY <1>2, <1>3, <2>4, <2>7, <3>2, <3>3, <3>4, <3>5, JoinsBehind
    <3> QED BY <2>3, <2>4, <2>5, <2>7, <2>8, <3>6
  <2>9. CASE ~mode.share
    <3>1. conn'[n].members = {n} /\ conn'[n].cmds = << >>
      BY <2>3, <2>9, SpawnedFields
    <3>2. /\ Once(conn'[n])
          /\ \A v, is : Spaced(conn'[n], is, v) /\ Stays(conn'[n], is, v) \subseteq {n}
      BY <3>1, OneMember
    <3>3. \A v \in Watch : Stays(conn'[n], Of(v), v) = {}
      <4>1. \A v \in Watch : n \notin Of(v) BY <1>2, ConnectionAssumption DEF Of
      <4>2. \A v : Stays(conn'[n], Of(v), v) \subseteq Of(v) BY DEF Stays
      <4> QED BY <3>2, <4>1, <4>2
    <3>4. conn'[n].members \cup Adds(conn'[n].cmds) = {n} BY <2>2, <2>3
    <3>5. Joined(conn[n], conn'[n], n, w)
      BY <2>4, <3>2, <3>3, <3>4 DEF Joined
    <3> QED BY <2>3, <2>4, <2>5, <2>7, <2>9, <3>5
  <2> QED BY <2>8, <2>9
<1> QED BY <1>4, <1>5

LEMMA StartServes ==
    ASSUME Inv, ServedInv, NEW r \in Caller, Start(r)
    PROVE  ServedInv'
<1>1. PICK w \in Watch : w = call[r].w BY CallFields DEF Inv, Start, Orderly
<1>2. /\ CallInv /\ call[r] \in Call /\ call[r].w = w /\ call[r].at = "join"
      /\ ConnInv /\ NoHandle /\ ConnTypes /\ TasksInv
  BY <1>1, CallFields DEF Inv, Start, ConnInv, ServedInv
<1>3. PICK n \in Inst : n = starts + 1
  BY <1>2, ConnectionAssumption DEF Start, ConnTypes, Inst
<1> DEFINE x == [call[r] EXCEPT !.at = IF mode.share THEN "bind" ELSE "wait", !.i = n]
<1>4. x.at = (IF mode.share THEN "bind" ELSE "wait") /\ x.w = w /\ x.i = n
  BY <1>2 DEF Call
<1>5. call' = [call EXCEPT ![r] = x] BY <1>3 DEF Start
<1> HIDE DEF x
<1>6. call'[r] = x /\ \A q \in Caller \ {r} : call'[q] = call[q]
  BY <1>2, <1>5, CallGoes
<1>7. /\ Join(w, n) /\ ~(mode.share /\ HandleDead)
      /\ tasks' = [tasks EXCEPT ![w] = n] /\ UNCHANGED <<marred, watch_conn>>
      /\ mode' = mode /\ inst' = [inst EXCEPT ![n] = NewInstance(w)]
  BY <1>1, <1>3 DEF Start, Join
<1>8. Busy(r, w) BY <1>2 DEF Busy
<1>9. w \notin marred =>
         /\ \A q \in Caller : Busy(q, w) => q = r
         /\ Serving(w) = {}
  <2>1. SUFFICES ASSUME w \in Watch \ marred
                 PROVE  (\A q \in Caller : Busy(q, w) => q = r) /\ Serving(w) = {}
    OBVIOUS
  <2>2. (\A q \in Caller : Busy(q, w) => q = r) /\ Serving(w) \subseteq {0}
    BY <1>2, <1>8, <2>1, Alone
  <2> QED BY <1>2, <2>2, NoneServed
<1>10. PICK c \in Inst :
          /\ Joined(conn[c], conn'[c], n, w) /\ conn' \in [Inst -> Task]
          /\ \A d \in Inst \ {c} : conn'[d] = conn[d]
          /\ Running(c)' /\ (mode.share => ~conn'[c].cancel)
          /\ ~mode.share => c = n
          /\ Serves(c) \/ \A v : Stays(conn[c], Of(v), v) = {}
  BY <1>2, <1>3, <1>7, <1>9, JoinTasks
<1>11. ConnTypes' BY StartKeeps DEF Inv, ConnInv
<1>12. /\ inst'[n].watch = w /\ inst'[n].verdict = "none"
       /\ \A i \in Inst \ {n} : inst'[i] = inst[i]
       /\ inst[n].watch = NoWatch /\ \A d \in Inst : n \notin Held(d)
  <2>1. NewInstance(w).watch = w /\ NewInstance(w).verdict = "none" BY DEF NewInstance
  <2>2. inst \in [Inst -> Instance] BY <1>2 DEF ConnTypes
  <2>3. n > starts BY <1>2, <1>3, ConnectionAssumption DEF ConnTypes
  <2>4. inst[n].watch = NoWatch BY <1>2, <2>3 DEF ConnInv, Fresh
  <2>5. \A d \in Inst : n \notin Held(d)
    BY <1>2, <2>4, ConnectionAssumption DEF ConnInv, Born
  <2> QED BY <1>7, <2>1, <2>2, <2>4, <2>5
<1>13. Of(w)' = Of(w) \cup {n} /\ \A v \in Watch : v # w => Of(v)' = Of(v)
  BY <1>12, ConnectionAssumption DEF Of, Inst
<1>14. /\ \A d \in Inst : Held(d)' \subseteq Held(d) \cup {n} /\ Held(d) \subseteq Inst
       /\ \A d \in Inst \ {c} : Held(d)' = Held(d) /\ (Running(d)' <=> Running(d))
  BY <1>2, <1>10, HeldNext, HeldType DEF Held, Joined, Running
<1>15. Holdings /\ Queues /\ RefusedLeave /\ LiveIsAsked BY <1>2 DEF TasksInv
<1>16. TasksInv'
  <2>1. Holdings'
    <3>1. \A d \in Inst : ~Running(d)' => conn'[d].members = {} /\ conn'[d].cmds = << >>
      BY <1>10, <1>14, <1>15 DEF Holdings
    <3>2. \A d \in Inst : mode.share => ~conn'[d].cancel
      BY <1>10, <1>15 DEF Holdings
    <3>3. \A d \in Inst : ~mode.share => Held(d)' \subseteq {d}
      BY <1>10, <1>14, <1>15 DEF Holdings
    <3> QED BY <1>7, <3>1, <3>2, <3>3 DEF Holdings, Inst
  <2>2. Queues'
    <3>1. ASSUME NEW v \in Watch \ marred, NEW d \in Inst
          PROVE  Spaced(conn'[d], Of(v)', v)
      <4>1. CASE d = c BY <1>10, <1>13, <3>1, <4>1 DEF Joined
      <4>2. CASE d # c /\ v # w
        BY <1>10, <1>13, <1>15, <3>1, <4>2 DEF Queues
      <4>3. CASE d # c /\ v = w
        <5>1. conn'[d] = conn[d] /\ Spaced(conn[d], Of(w), w)
          BY <1>10, <1>15, <3>1, <4>3 DEF Queues
        <5>2. \A k \in Slots(conn[d]) : ~In(conn[d], n, k)
          BY <1>12 DEF Held, Adds, In, Slots
        <5>3. Spaced(conn[d], Of(w) \cup {n}, w) BY <5>1, <5>2 DEF Spaced
        <5> QED BY <1>13, <4>3, <5>1, <5>3
      <4> QED BY <4>1, <4>2, <4>3
    <3>2. \A d \in Inst : Once(conn'[d]) BY <1>10, <1>15 DEF Queues, Joined
    <3> QED BY <1>7, <3>1, <3>2, QueuesNext
  <2>3. RefusedLeave'
    <3>1. SUFFICES ASSUME NEW d \in Inst, NEW i \in Held(d)', inst'[i].verdict = "err"
                   PROVE  inst'[i].watch \in marred'
      BY DEF RefusedLeave, Inst
    <3>2. i \in Held(d) /\ i \in Inst \ {n} BY <1>12, <1>14, <3>1
    <3> QED BY <1>7, <1>12, <1>15, <3>1, <3>2 DEF RefusedLeave
  <2>4. LiveIsAsked'
    <3>1. SUFFICES ASSUME NEW d \in Inst, conn'[d].phase = "live", ~conn'[d].timer,
                          NEW i \in conn'[d].members, inst'[i].watch \notin marred'
                   PROVE  inst'[i].watch \in conn'[d].asked
      BY DEF LiveIsAsked, Inst
    <3>2. /\ conn[d].phase = "live" /\ ~conn[d].timer /\ i \in conn[d].members
          /\ conn[d].asked = conn'[d].asked
      BY <1>10, <3>1 DEF Joined
    <3>3. i \in Inst /\ i # n BY <1>12, <1>14, <3>2 DEF Held
    <3> QED BY <1>7, <1>12, <1>15, <3>1, <3>2, <3>3 DEF LiveIsAsked
  <2> QED BY <2>1, <2>2, <2>3, <2>4 DEF TasksInv
\* What is served by task d afterwards.
<1>17. ASSUME NEW v \in Watch \ marred, NEW i \in Serving(v)'
       PROVE  i \in Serving(v) \/ (v = w /\ i = n)
  <2>1. PICK d \in Inst : Serves(d)' /\ i \in Stays(conn'[d], Of(v)', v)
    BY <1>11, <1>17, ServingNext
  <2>2. i \in Stays(conn[d], Of(v), v) \/ (v = w /\ i = n)
    <3>1. CASE d = c BY <1>10, <1>13, <1>17, <2>1, <3>1 DEF Joined
    <3>2. CASE d # c
      <4>1. conn'[d] = conn[d] BY <1>10, <3>2
      <4> QED BY <1>13, <2>1, <4>1 DEF Stays
    <3> QED BY <3>1, <3>2
  <2>3. SUFFICES ASSUME i \in Stays(conn[d], Of(v), v) PROVE i \in Serving(v)
    BY <2>2
  <2>4. Serves(d)
    <3>1. CASE d = c BY <1>10, <2>3, <3>1
    <3>2. CASE d # c BY <1>10, <1>14, <2>1, <3>2 DEF Serves
    <3> QED BY <3>1, <3>2
  <2> QED BY <1>2, <2>3, <2>4, ServingIs
<1>18. tasks'[w] = n /\ \A v \in Watch : v # w => tasks'[v] = tasks[v]
  BY <1>2, <1>7 DEF CallInv, ListTypes
<1>19. ASSUME w \in Watch \ marred PROVE OneCall(w)' /\ ServesOne(w)'
  <2>1. \A q \in Caller : Busy(q, w)' => q = r BY <1>6, <1>9, <1>19, BusyIs
  <2>2. Busy(r, w)' BY <1>4, <1>6 DEF Busy
  <2>3. OneCall(w)' BY <1>4, <1>6, <1>18, <2>1 DEF OneCall
  <2>4. Serving(w)' \subseteq {tasks'[w]} BY <1>9, <1>17, <1>18, <1>19
  <2>5. ServesOne(w)' BY <1>4, <1>6, <1>7, <2>2, <2>4 DEF ServesOne
  <2> QED BY <2>3, <2>5
<1>20. \A v : v # w => Away(call[r], v) /\ Away(call'[r], v)
  BY <1>2, <1>4, <1>6 DEF Away
<1> QED BY <1>6, <1>7, <1>16, <1>17, <1>18, <1>19, <1>20, StepFor

-----------------------------------------------------------------------------
(* The theorems. *)

\* At first, and after a crash, nobody is in the adapter and nothing is served.
LEMMA BootServes == Down /\ Booting => ServedInv
<1> SUFFICES ASSUME Down, Booting PROVE ServedInv OBVIOUS
<1>1. ConnTypes BY NobodyRuns DEF ConnInv
<1>2. \A c \in Inst : /\ conn[c].members = {} /\ conn[c].cmds = << >>
                      /\ ~conn[c].cancel /\ conn[c].phase = "none" /\ ~Running(c)
                      /\ Held(c) = {}
  BY NoTaskType, AddsOfNone DEF Down, Running, Held
<1>3. Holdings /\ RefusedLeave /\ LiveIsAsked
  BY <1>2 DEF Holdings, RefusedLeave, LiveIsAsked
<1>4. Queues BY <1>2, SpacedNone DEF Queues
<1>5. \A w \in Watch : Serving(w) = {} BY <1>1, <1>2, ServedIsHeld DEF Serves
<1>6. \A r \in Caller : call[r].at \in {"idle", "launch"} BY BootCalls DEF Booting
<1>7. \A w \in Watch : \A r \in Caller : ~Busy(r, w) BY <1>6 DEF Busy
<1>8. \A w \in Watch : OneCall(w) /\ ServesOne(w)
  BY <1>5, <1>7 DEF OneCall, ServesOne
<1> QED BY <1>3, <1>4, <1>8 DEF ServedInv, TasksInv

LEMMA CrashServes ==
    ASSUME Inv, Crash
    PROVE  ServedInv'
<1>1. Down' BY DEF Crash, CrashConnections, Inv, ConnInv, ConnTypes, Down, Inst,
                   Unborn, NoTask
<1>2. vault \in SUBSET Watch BY DEF Inv, CallInv, ListTypes
<1>3. Booting' BY <1>2 DEF Crash, Booting, Restoring, Resting
<1>4. (Down /\ Booting => ServedInv)' BY BootServes, PTL
<1> QED BY <1>1, <1>3, <1>4

LEMMA InitServes == Init => ServedInv
<1> SUFFICES ASSUME Init PROVE ServedInv OBVIOUS
<1>1. starts \in 0..MaxStarts /\ [drops |-> 0, refusals |-> 0] \in [drops : Nat, refusals : Nat]
  BY NoInstance DEF Init, ConnectionInit
<1>2. Down BY <1>1 DEF Init, ConnectionInit, Down
<1>3. Booting BY WatchesAssumption DEF Init, Booting
<1> QED BY <1>2, <1>3, BootServes

LEMMA StepServes ==
    ASSUME Inv, ServedInv, [Next]_vars
    PROVE  ServedInv'
<1>1. ASSUME NEW r \in Caller, CallStep(r) \/ NewCall(r) PROVE ServedInv'
  <2>1. ASSUME NEW w \in Watch, LaunchFails(r, w) \/ StartStream(r, w)
        PROVE  ServedInv'
    BY <2>1, ElsewhereServes
  <2>2. ASSUME NEW w \in Watch, Launch(r, w) PROVE ServedInv' BY <2>2, LaunchServes
  <2>3. ASSUME NEW w \in Watch, StopStream(r, w) PROVE ServedInv'
    BY <2>3, StopStreamServes
  <2>4. CASE RelaunchMissing(r) \/ Collect(r) \/ Save(r) BY <2>4, ElsewhereServes
  <2>5. CASE Start(r) BY <2>5, StartServes
  <2>6. CASE StartOnDead(r) BY <2>6, StartOnDeadServes
  <2>7. CASE Bind(r) BY <2>7, BindServes
  <2>8. CASE Rejected(r) BY <2>8, RejectedServes
  <2>9. CASE Registered(r) BY <2>9, RegisteredServes
  <2>10. CASE LeaveShared(r) BY <2>10, LeaveSharedServes
  <2>11. CASE Forget(r) BY <2>11, ForgetServes
  <2> QED BY <1>1, <2>1, <2>2, <2>3, <2>4, <2>5, <2>6, <2>7, <2>8, <2>9,
             <2>10, <2>11 DEF CallStep, NewCall
<1>2. ASSUME NEW c \in Inst, NetStep(c) PROVE ServedInv' BY <1>2, TurnServes
<1>3. CASE Crash BY <1>3, CrashServes
<1>4. CASE UNCHANGED vars
  <2>1. UNCHANGED connectionVars /\ UNCHANGED <<tasks, watch_conn, call>>
    BY <1>4 DEF vars, adapterVars
  <2>2. /\ TasksInv' /\ mode' = mode /\ marred' = marred
        /\ \A v \in Watch : Serving(v)' \subseteq Serving(v)
    BY <2>1, SameTasks
  <2>3. \A w \in Watch : \A q \in Caller : Busy(q, w)' <=> Busy(q, w)
    BY <2>1 DEF Busy
  <2>4. \A w \in Watch \ marred' : OneCall(w)' /\ ServesOne(w)'
    BY <2>1, <2>2, <2>3, OtherWatch DEF ServedInv
  <2> QED BY <2>2, <2>4 DEF ServedInv
<1> QED BY <1>1, <1>2, <1>3, <1>4 DEF Next

\* The commands of a task are in order, the calls for a watch know what the
\* registry has, and what is served is that.
THEOREM ServedInvariance == Spec => []ServedInv
<1>1. Inv /\ Inv' /\ ServedInv /\ [Next]_vars => ServedInv' BY StepServes
<1> QED BY <1>1, InitServes, Invariance, PTL DEF Spec

\* Between calls, what any task serves for a watch that was not called for twice
\* at once, restarted or cut off is the instance in the registry: nothing after
\* a stop or a refusal, and no frame twice.
THEOREM ServedIsRegisteredAlways == Spec => []ServedIsRegistered
<1>1. ServedInv => ServedIsRegistered
  BY DEF ServedInv, ServesOne, ServedIsRegistered
<1> QED BY <1>1, ServedInvariance, PTL

\* A live socket was asked for every such watch it serves: whoever joins it,
\* is refused or leaves does not cost another watch its frames.
THEOREM LiveIsAskedAlways == Spec => []LiveIsAsked
<1>1. ServedInv => LiveIsAsked BY DEF ServedInv, TasksInv
<1> QED BY <1>1, ServedInvariance, PTL
=============================================================================
