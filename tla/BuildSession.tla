---------------------------- MODULE BuildSession ----------------------------
(***************************************************************************)
(* The staged app build, core/src/utils/build_session.rs: sessions in a    *)
(* process-wide map behind one mutex and in build-sessions.json, each at a *)
(* step of a fixed order, with a gate that opens once per turn of the user.*)
(*                                                                         *)
(* BuildTurns runs the operations given here in the order in which a turn  *)
(* of the model (core/src/managers/ai.rs) and the three build tools        *)
(* (core/src/tool_registry.rs) call them.  An operation is one critical    *)
(* section; one that flushes goes on to hold the mutex until EndFlush.     *)
(*                                                                         *)
(* Sessions are numbered in the order of their creation, which is all that *)
(* created_at and the random ids are used for.  updated_at is a clock that *)
(* every stamp moves on.                                                   *)
(*                                                                         *)
(* A Bug_ definition is a seeded fault: no specification uses it.          *)
(***************************************************************************)
EXTENDS Naturals, FiniteSets

CONSTANTS
    Conv,        \* conversations of the admin
    Hub,         \* scopes of hub visitors ("inst:sid")
    NoConv,      \* conv_id = None: an orphan
    NoSession,   \* no record under this id
    Modes,       \* the modes builds are started in, a subset of BuildMode
    MAX_SIZE,    \* sessions kept in memory (50 in the code)
    MaxSessions  \* bound: sessions created

BuildStep == {"requirements", "design", "refine", "implement", "done"}
BuildMode == {"create", "modify"}
BuildStatus == {"active", "completed", "abandoned"}

Session == 1..MaxSessions
Scope == Conv \cup Hub

Record == [conv_id : Scope \cup {NoConv}, mode : BuildMode, step : BuildStep,
           status : BuildStatus, outputs : SUBSET BuildStep,
           awaiting : BOOLEAN, auto : BOOLEAN, updated : Nat]

Store == [Session -> Record \cup {NoSession}]

ASSUME SessionAssumption ==
    /\ MAX_SIZE \in Nat \ {0} /\ MaxSessions \in Nat
    /\ Modes \subseteq BuildMode
    /\ NoConv \notin Scope /\ Conv \cap Hub = {}
    /\ NoSession \notin Record

VARIABLES
    mem,       \* the map: id -> record or NoSession
    loaded,    \* has this process read the file into the map yet (OnceLock)
    file,      \* build-sessions.json; a file that does not parse is Empty
    flushing,  \* the mutex is held by a flush
    created,   \* sessions created so far
    now,       \* the last stamp given
    old,       \* sessions up to this one are past SESSION_EXPIRE
    spent,     \* stamps up to this one are past ADOPT_FRESH_MS
    home,      \* the scope whose turn started the session
    replies,   \* history: turns of the user begun in a session's conversation
    shown,     \* history: the furthest a session was seen to be
    merged     \* history: sessions that a fallback to the file has changed

storeVars == <<mem, loaded, file, flushing, created, now, old, spent,
               home, replies, shown, merged>>

Empty == [s \in Session |-> NoSession]

Present(m) == {s \in Session : m[s] # NoSession}

\* next_for; the tier plays no part in it.
next_for(mode, step) ==
    CASE step = "requirements" -> IF mode = "modify" THEN "implement" ELSE "design"
      [] step = "design"       -> "refine"
      [] step = "refine"       -> "implement"
      [] OTHER                 -> "done"

\* How many steps of its mode a build has behind it.
Position(r) ==
    CASE r.step = "requirements" -> 0
      [] r.step = "design"       -> 1
      [] r.step = "refine"       -> 2
      [] r.step = "implement"    -> IF r.mode = "modify" THEN 1 ELSE 3
      [] OTHER                   -> IF r.mode = "modify" THEN 2 ELSE 4

\* cleanup_expired, and the filter every reader of the file applies.
Unexpired(m) == [s \in Session |-> IF s > old THEN m[s] ELSE NoSession]

\* What store_lock() gives: the map, read from the file at first use.
store_lock == IF loaded THEN mem ELSE Unexpired(file)

\* The active sessions of m that belong to a conversation.
ActiveOf(m, c) == {s \in Present(m) : m[s].status = "active" /\ m[s].conv_id = c}

\* max_by_key(updated_at), as the set of the one session found, or empty.
Latest(m, S) == {s \in S : \A r \in S : m[r].updated <= m[s].updated}

-----------------------------------------------------------------------------
(* Writing.  Each is the end of a critical section. *)

Keep(m) == mem' = m /\ loaded' = TRUE

NoFlush == UNCHANGED <<file, flushing>>

\* fs::write truncates first; what a reader finds until EndFlush does not parse.
Flush == file' = Empty /\ flushing' = TRUE

EndFlush ==
    /\ flushing
    /\ flushing' = FALSE /\ file' = mem
    /\ UNCHANGED <<mem, loaded, created, now, old, spent, home, replies, shown, merged>>

\* The furthest s has been seen to be, once its record is r.
Seen(s, r) ==
    [conv_id  |-> IF shown[s].conv_id # NoConv THEN shown[s].conv_id ELSE r.conv_id,
     position |-> IF Position(r) > shown[s].position THEN Position(r)
                  ELSE shown[s].position,
     over     |-> shown[s].over \/ r.status # "active"]

NotSeen == [conv_id |-> NoConv, position |-> 0, over |-> FALSE]

\* Record r takes the place of the one s has in memory, and goes to the file.
Write(s, r) ==
    /\ Keep([store_lock EXCEPT ![s] = r])
    /\ shown' = [shown EXCEPT ![s] = Seen(s, r)]
    /\ Flush

-----------------------------------------------------------------------------
\* create_session: drop the expired ones, evict the oldest at the limit, insert.
create_session(c, mode, who) ==
    LET live == Unexpired(store_lock)
        s    == created + 1
        full == Cardinality(Present(live)) >= MAX_SIZE
        r    == [conv_id |-> c, mode |-> mode, step |-> "requirements",
                 status |-> "active", outputs |-> {}, awaiting |-> TRUE,
                 auto |-> FALSE, updated |-> now + 1]
    IN  /\ ~flushing /\ created < MaxSessions
        /\ created' = s /\ now' = now + 1
        /\ Keep([d \in Session |->
                    IF d = s THEN r
                    ELSE IF full /\ \A e \in Present(live) : d <= e THEN NoSession
                    ELSE live[d]])
        /\ home' = [home EXCEPT ![s] = who]
        /\ shown' = [shown EXCEPT ![s] = Seen(s, r)]
        /\ Flush
        /\ UNCHANGED <<old, spent, replies, merged>>

\* update_session with a closure that makes r of the record.  The status plays
\* no part, and an id that is not in the map changes nothing.
update_session(s, r) ==
    /\ ~flushing
    /\ IF store_lock[s] = NoSession
       THEN Keep(store_lock) /\ NoFlush /\ UNCHANGED <<now, shown>>
       ELSE Write(s, [r EXCEPT !.updated = now + 1]) /\ now' = now + 1
    /\ UNCHANGED <<created, old, spent, home, replies, merged>>

set_tier(s) == update_session(s, store_lock[s])

set_auto_advance(s) == update_session(s, [store_lock[s] EXCEPT !.auto = TRUE])

Bug_OutputOfNextStep(s) ==
    update_session(s, [store_lock[s] EXCEPT
                          !.outputs = @ \cup {next_for(store_lock[s].mode,
                                                       store_lock[s].step)}])

set_step_output(s) ==
    update_session(s, [store_lock[s] EXCEPT
                          !.outputs = @ \cup {store_lock[s].step}])

finish_session(s, status) ==
    update_session(s, [store_lock[s] EXCEPT !.status = status])

\* A member of S, or 0 if there is none.
AnyOf(S) == IF S = {} THEN {0} ELSE S

\* The session of c whose gate reset_awaiting_for_conv finds shut, if any.
Awaiting(c) ==
    {s \in Latest(store_lock, ActiveOf(store_lock, c)) : store_lock[s].awaiting}

Replied(c) == [s \in Session |-> IF s \in ActiveOf(store_lock, c) THEN replies[s] + 1
                                 ELSE replies[s]]

Bug_ResetForgetsFlush(c, s) ==
    /\ ~flushing /\ s \in AnyOf(Awaiting(c))
    /\ replies' = Replied(c)
    /\ Keep(IF s = 0 THEN store_lock ELSE [store_lock EXCEPT ![s].awaiting = FALSE])
    /\ NoFlush
    /\ UNCHANGED <<created, now, old, spent, home, shown, merged>>

\* reset_awaiting_for_conv opens the gate of the session s it finds, if any (else
\* s is 0), without a new stamp.  It does not drop expired sessions first.
reset_awaiting_for_conv(c, s) ==
    /\ ~flushing /\ s \in AnyOf(Awaiting(c))
    /\ replies' = Replied(c)
    /\ IF s = 0
       THEN Keep(store_lock) /\ NoFlush /\ UNCHANGED shown
       ELSE Write(s, [store_lock[s] EXCEPT !.awaiting = FALSE])
    /\ UNCHANGED <<created, now, old, spent, home, merged>>

\* advance_step's gates.
CanAdvance(r) ==
    /\ r.status = "active"
    /\ ~r.awaiting \/ r.auto
    /\ r.step \in r.outputs

Bug_AdvancedGateOpen(r) ==
    LET next == next_for(r.mode, r.step)
    IN  [r EXCEPT !.step = next,
                  !.status = IF next = "done" THEN "completed" ELSE @,
                  !.updated = now + 1]

\* A record one step on.
Advanced(r) ==
    LET next == next_for(r.mode, r.step)
    IN  [r EXCEPT !.step = next,
                  !.status = IF next = "done" THEN "completed" ELSE @,
                  !.awaiting = @ \/ (next # "done" /\ ~r.auto),
                  !.updated = now + 1]

\* advance_step, when it answers Ok and when it refuses.
advance_step(s) ==
    /\ ~flushing
    /\ store_lock[s] # NoSession /\ CanAdvance(store_lock[s])
    /\ Write(s, Advanced(store_lock[s])) /\ now' = now + 1
    /\ UNCHANGED <<created, old, spent, home, replies, merged>>

refuse_advance(s) ==
    /\ ~flushing
    /\ ~(store_lock[s] # NoSession /\ CanAdvance(store_lock[s]))
    /\ Keep(store_lock) /\ NoFlush
    /\ UNCHANGED <<created, now, old, spent, home, replies, shown, merged>>

\* A section that only drops what has expired; it does not flush.
cleanup_expired ==
    /\ ~flushing
    /\ Keep(Unexpired(store_lock)) /\ NoFlush
    /\ UNCHANGED <<created, now, old, spent, home, replies, shown, merged>>

Bug_OrphansAny(m) ==
    LET adoptable == {s \in Present(m) : m[s].status = "active" /\ m[s].updated > spent}
    IN  {s \in adoptable : \A r \in adoptable : r <= s}

\* The orphans adopt_orphan_for_conv may bind: the newest of the fresh ones.
Orphans(m) ==
    LET adoptable == {s \in ActiveOf(m, NoConv) : m[s].updated > spent}
    IN  {s \in adoptable : \A r \in adoptable : r <= s}

adopt_orphan_for_conv(c) ==
    LET live == Unexpired(store_lock)
    IN  \/ Orphans(live) = {} /\ cleanup_expired
        \/ \E s \in Orphans(live) :
              LET r == [live[s] EXCEPT !.conv_id = c, !.updated = now + 1]
              IN  /\ ~flushing
                  /\ Keep([live EXCEPT ![s] = r])
                  /\ shown' = [shown EXCEPT ![s] = Seen(s, r)]
                  /\ now' = now + 1
                  /\ Flush
                  /\ UNCHANGED <<created, old, spent, home, replies, merged>>

\* get_session's fallback once the file has been read as snap: its records go
\* over those in memory, whichever is older.
Merge(snap) ==
    LET found == Unexpired(snap)
    IN  /\ ~flushing
        /\ Keep([s \in Session |-> IF found[s] # NoSession THEN found[s]
                                   ELSE store_lock[s]])
        /\ merged' = merged \cup {s \in Present(found) : found[s] # store_lock[s]}
        /\ NoFlush
        /\ UNCHANGED <<created, now, old, spent, home, replies, shown>>

-----------------------------------------------------------------------------
(* Time and failure. *)

\* Thirty days since the next session was created.  Nobody looks at the time
\* during a flush.
Expire ==
    /\ ~flushing /\ old < created /\ old' = old + 1
    /\ UNCHANGED <<mem, loaded, file, flushing, created, now, spent, home,
                   replies, shown, merged>>

\* Thirty minutes since the last stamp.
Pause ==
    /\ ~flushing /\ spent < now /\ spent' = now
    /\ UNCHANGED <<mem, loaded, file, flushing, created, now, old, home,
                   replies, shown, merged>>

\* The process dies: the map and the mutex are gone, the file is as it is.
CrashStore ==
    /\ mem' = Empty /\ loaded' = FALSE /\ flushing' = FALSE
    /\ UNCHANGED <<file, created, now, old, spent, home, replies, shown, merged>>

StoreInit ==
    /\ mem = Empty /\ loaded = FALSE /\ file = Empty /\ flushing = FALSE
    /\ created = 0 /\ now = 0 /\ old = 0 /\ spent = 0
    /\ home = [s \in Session |-> NoConv]
    /\ replies = [s \in Session |-> 0]
    /\ shown = [s \in Session |-> NotSeen]
    /\ merged = {}

\* The store's part of the type invariant.
StoreTypeOK ==
    /\ mem \in Store /\ file \in Store
    /\ loaded \in BOOLEAN /\ flushing \in BOOLEAN
    /\ created \in 0..MaxSessions /\ old \in 0..created
    /\ now \in Nat /\ spent \in 0..now
    /\ home \in [Session -> Scope \cup {NoConv}]
    /\ replies \in [Session -> Nat]
    /\ shown \in [Session -> [conv_id : Scope \cup {NoConv}, position : 0..4,
                              over : BOOLEAN]]
    /\ merged \subseteq Session
=============================================================================
