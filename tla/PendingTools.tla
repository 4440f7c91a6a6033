---------------------------- MODULE PendingTools ----------------------------
(***************************************************************************)
(* The store of approval cards, core/src/utils/pending_tools.rs.           *)
(*                                                                         *)
(* A destructive tool call or a real order is not executed when the model  *)
(* asks for it: it becomes a card, kept in a process-wide map behind one   *)
(* mutex and in the file pending-tools.json, until a person approves or    *)
(* rejects it, it expires, or a newer card evicts it.                      *)
(*                                                                         *)
(* The module gives the store's state and the operations that run inside   *)
(* the core process (create, attach, list, the end of a flush).  The three *)
(* operations a web route drives step by step (get, consume, reject) are   *)
(* given here as the critical sections they are made of; PlanCommit puts   *)
(* them in the order the code runs them.                                   *)
(*                                                                         *)
(* A Bug_ definition is a seeded fault: no specification uses it.          *)
(***************************************************************************)
EXTENDS Naturals, FiniteSets

CONSTANTS
    Card,        \* the planIds the store hands out
    Client,      \* concurrent requests that approve or reject a card
    Hub,         \* hub visitor scopes ("inst:sid")
    Conv,        \* conversations that may claim a card
    Admin,       \* the scope of a card made outside a hub (hub_scope = None)
    NoConv,      \* conversation_id = None
    NoCard,      \* no record under this planId
    Free,        \* the mutex is not held
    Turn,        \* the mutex is held by a handler inside the core
    MAX_SIZE,    \* cards kept in memory (100 in the code)
    Kinds,       \* the kinds of call staged, a subset of Kind
    Origins,     \* where cards are born, a subset of Origin
    OrderTTL,    \* MODULE_ACTION_EXPIRE, in ticks of the model's clock
    EditTTL,     \* PENDING_EXPIRE
    MaxTime      \* bound: the last value of the clock

(***************************************************************************)
(* A card holds an order (run_module), an edit (write_file, save_page,     *)
(* delete_file, delete_page) or a job change (schedule_task,               *)
(* cancel_cron_job), which a hub visitor may not make.                     *)
(***************************************************************************)
Kind == {"run_module", "edit", "job"}
Origin == {"turn", "external"}

PendingTool == [kind : Kind, created : Nat, hub : Hub \cup {Admin},
                conv : Conv \cup {NoConv}, origin : Origin]

Store == [Card -> PendingTool \cup {NoCard}]

ASSUME StoreAssumption ==
    /\ Card # {} /\ MAX_SIZE \in Nat \ {0}
    /\ OrderTTL \in Nat /\ EditTTL \in Nat /\ MaxTime \in Nat
    /\ Kinds \subseteq Kind /\ Origins \subseteq Origin
    /\ NoCard \notin PendingTool
    /\ Admin \notin Hub /\ NoConv \notin Conv
    /\ Free \notin Client /\ Turn \notin Client /\ Free # Turn

VARIABLES
    mem,      \* the in-memory map: planId -> record or NoCard
    loaded,   \* has this process read the file into the map yet (OnceLock)
    file,     \* pending-tools.json; a file that does not parse is Empty
    lock,     \* who holds the mutex across a flush
    now,      \* the wall clock
    minted    \* the record each planId was created with

storeVars == <<mem, loaded, file, lock, now, minted>>

Empty == [c \in Card |-> NoCard]

Present(s) == {c \in Card : s[c] # NoCard}

expire_ms(kind) == IF kind = "run_module" THEN OrderTTL ELSE EditTTL

deadline_ms(p) == p.created + expire_ms(p.kind)

is_expired(p, t) == t > deadline_ms(p)

\* The records of s that have not expired: cleanup_expired, and the filter
\* every reader of the file applies.
Unexpired(s) ==
    [c \in Card |-> IF s[c] # NoCard /\ ~is_expired(s[c], now) THEN s[c]
                    ELSE NoCard]

\* What store_lock() gives: the map, read from the file at first use.
store_lock == IF loaded THEN mem ELSE Unexpired(file)

\* Records of s over those of t.
Overlay(s, t) == [c \in Card |-> IF s[c] # NoCard THEN s[c] ELSE t[c]]

-----------------------------------------------------------------------------
(***************************************************************************)
(* Critical sections.  flush is fs::write: the file is truncated, then     *)
(* written, all under the mutex.  A reader that does not take the mutex    *)
(* (get_pending's fallback) or a restart can find it in between; what it   *)
(* finds does not parse, which every reader treats as no records.          *)
(***************************************************************************)
SetMemory(s) == mem' = s /\ loaded' = TRUE

BeginFlush(who) == lock' = who /\ file' = Empty

Bug_FlushKeepsMutex == lock # Free /\ UNCHANGED lock /\ file' = mem
                       /\ UNCHANGED <<mem, loaded, now, minted>>

EndFlush == lock # Free /\ lock' = Free /\ file' = mem
            /\ UNCHANGED <<mem, loaded, now, minted>>

Oldest(s) == {c \in Present(s) : \A d \in Present(s) :
                                     s[c].created <= s[d].created}

Bug_CreateForgetsFlush(c, p) ==
    /\ lock = Free /\ minted[c] = NoCard
    /\ SetMemory([Unexpired(store_lock) EXCEPT ![c] = p])
    /\ minted' = [minted EXCEPT ![c] = p]
    /\ UNCHANGED <<now, lock, file>>

\* create_pending_in: drop the expired cards, evict one of the oldest at the
\* limit, insert, flush.
create_pending_in(c, p) ==
    LET live == Unexpired(store_lock)
        full == Cardinality(Present(live)) >= MAX_SIZE
    IN  /\ lock = Free
        /\ minted[c] = NoCard
        /\ \E gone \in IF full THEN {{d} : d \in Oldest(live)} ELSE {{}} :
               SetMemory([d \in Card |-> IF d = c THEN p
                                         ELSE IF d \in gone THEN NoCard
                                         ELSE live[d]])
        /\ minted' = [minted EXCEPT ![c] = p]
        /\ BeginFlush(Turn)
        /\ UNCHANGED now

\* The records a caller of create_pending_in can ask for.  An order is never
\* staged inside a hub; a card that knows its conversation was born of a turn.
NewCards ==
    {p \in [kind : Kinds, created : {now}, hub : Hub \cup {Admin},
            conv : Conv \cup {NoConv}, origin : Origins] :
        /\ p.kind # "edit" => p.hub = Admin
        /\ p.conv # NoConv => p.origin = "turn"}

Create == \E c \in Card : \E p \in NewCards : create_pending_in(c, p)

attach_conversation(c, k) ==
    /\ lock = Free
    /\ minted[c] # NoCard /\ minted[c].origin = "turn"
    /\ IF store_lock[c] # NoCard /\ store_lock[c].conv = NoConv
       THEN /\ SetMemory([store_lock EXCEPT ![c] = [@ EXCEPT !.conv = k]])
            /\ BeginFlush(Turn)
       ELSE SetMemory(store_lock) /\ UNCHANGED <<lock, file>>
    /\ UNCHANGED <<now, minted>>

Attach == \E c \in Card, k \in Conv : attach_conversation(c, k)

\* list_pending: the file is read under the mutex and fills only the gaps.
list_pending ==
    /\ lock = Free
    /\ SetMemory(Overlay(Unexpired(store_lock), Unexpired(file)))
    /\ UNCHANGED <<lock, file, now, minted>>

Tick == now < MaxTime /\ now' = now + 1
        /\ UNCHANGED <<mem, loaded, file, lock, minted>>

\* The process dies: the map and the mutex are gone, the file is as it is.
CrashStore == mem' = Empty /\ loaded' = FALSE /\ lock' = Free
              /\ UNCHANGED <<file, now, minted>>

StoreInit == /\ mem = Empty /\ loaded = FALSE /\ file = Empty
             /\ lock = Free /\ now = 0 /\ minted = Empty

\* The store's part of the type invariant.
StoreTypeOK ==
    /\ mem \in Store /\ file \in Store /\ minted \in Store
    /\ loaded \in BOOLEAN
    /\ lock \in Client \cup {Free, Turn}
    /\ now \in Nat
=============================================================================
