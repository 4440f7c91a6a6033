----------------------------- MODULE PlanCommit -----------------------------
(***************************************************************************)
(* The routes that act on approval cards, step by step against the store:  *)
(*   app/api/plan/commit      a person approves a card in the admin screen *)
(*   app/api/plan/reject      ... or rejects it                            *)
(*   app/api/hub/[slug]/plan  a hub visitor does either with their own     *)
(*                                                                         *)
(* Each request is a Client with a program counter.  An approval reads the *)
(* card (get_pending), runs the action, and only then removes the card     *)
(* (consume_pending).  get_pending itself is up to three steps: a look at  *)
(* the map under the mutex, and on a miss a read of the file without it    *)
(* and a merge of what was read, under the mutex again.                    *)
(*                                                                         *)
(* A Bug_ definition is a seeded fault: no specification uses it.          *)
(***************************************************************************)
EXTENDS PendingTools

CONSTANTS
    MaxClicks,   \* bound: requests made
    MaxCrashes   \* bound: crashes of either process

ASSUME RouteAssumption == MaxClicks \in Nat /\ MaxCrashes \in Nat

VARIABLES
    pc,       \* where each request is
    req,      \* what it asks for, and what was true when it began
    stage,    \* which call of the route the request's get_pending belongs to
    view,     \* the record get_pending returned to it
    snap,     \* what its fallback read from the file
    sent,     \* how often each card's action was sent
    fate,     \* how each card was settled, once a request was told so
    revived,  \* settled cards that a fallback merge put back
    merged,   \* cards a fallback merge wrote since the last flush
    clicks,   \* requests so far
    crashes   \* crashes so far

routeVars == <<pc, req, stage, view, snap, sent, fate, revived, merged,
               clicks, crashes>>
history == <<fate, revived, merged, clicks, crashes>>
vars == <<storeVars, routeVars>>

Op == {"commit", "reject", "hub_commit", "hub_reject"}

(***************************************************************************)
(* begun and past are history: the clock when the request began, and what  *)
(* had become of its card by then.                                         *)
(***************************************************************************)
Fate == {"open", "consumed", "rejected"}

Request == [op : Op, card : Card, scope : Hub \cup {Admin},
            begun : Nat, past : Fate]

PC == {"idle", "get", "read", "merge", "decide", "await", "remove", "flush"}
Stage == {"look",      \* the route's own get_pending
          "settle",    \* inside consume_pending or reject_pending
          "orphan"}    \* the web process that asked is gone

IsCommit(p) == req[p].op \in {"commit", "hub_commit"}
IsHub(p) == req[p].op \in {"hub_commit", "hub_reject"}
CardOf(p) == req[p].card
Settled == {c \in Card : fate[c] # "open"}

Goto(p, l) == pc' = [pc EXCEPT ![p] = l]

-----------------------------------------------------------------------------
\* A request arrives.  The admin reject route calls reject_pending at once;
\* the three others look at the card first.
Click(p, op, c, s) ==
    /\ pc[p] = "idle"
    /\ clicks < MaxClicks /\ clicks' = clicks + 1
    /\ minted[c] # NoCard
    /\ (s = Admin) <=> (op \in {"commit", "reject"})
    /\ req' = [req EXCEPT ![p] = [op |-> op, card |-> c, scope |-> s,
                                  begun |-> now, past |-> fate[c]]]
    /\ stage' = [stage EXCEPT ![p] = IF op = "reject" THEN "settle"
                                     ELSE "look"]
    /\ view' = [view EXCEPT ![p] = NoCard]
    /\ Goto(p, "get")
    /\ UNCHANGED <<storeVars, snap, sent, fate, revived, merged, crashes>>

\* Where a finished get_pending leaves the request: with a record r, or with
\* None (404 for the route, nothing to do for consume_pending, had = false
\* for reject_pending).
AfterGet(p, r) ==
    Goto(p, CASE stage[p] = "orphan" -> "idle"
              [] stage[p] = "look" -> IF r # NoCard THEN "decide" ELSE "idle"
              [] stage[p] = "settle" ->
                     IF r # NoCard \/ ~IsCommit(p) THEN "remove" ELSE "idle")

\* get_pending, first critical section: drop expired cards, look in the map.
Get(p) ==
    LET live == Unexpired(store_lock)
        r == live[CardOf(p)]
    IN  /\ pc[p] = "get" /\ lock = Free
        /\ SetMemory(live)
        /\ view' = [view EXCEPT ![p] = r]
        /\ IF r # NoCard THEN AfterGet(p, r) ELSE Goto(p, "read")
        /\ UNCHANGED <<lock, file, now, minted, req, stage, snap, sent,
                       history>>

Bug_ReadKeepsExpired(p) ==
    /\ pc[p] = "read"
    /\ snap' = [snap EXCEPT ![p] = file]
    /\ Goto(p, "merge")
    /\ UNCHANGED <<storeVars, req, stage, view, sent, history>>

\* The fallback: the file is read with the mutex released.
Read(p) ==
    /\ pc[p] = "read"
    /\ snap' = [snap EXCEPT ![p] = Unexpired(file)]
    /\ Goto(p, "merge")
    /\ UNCHANGED <<storeVars, req, stage, view, sent, history>>

Bug_MergeFindsAnyRecord(p) ==
    /\ pc[p] = "merge" /\ lock = Free
    /\ SetMemory(Overlay(snap[p], store_lock))
    /\ revived' = revived \cup (Settled \cap Present(snap[p]))
    /\ merged' = merged \cup Present(snap[p])
    /\ \E r \in {snap[p][c] : c \in Card} :
           view' = [view EXCEPT ![p] = r] /\ AfterGet(p, r)
    /\ snap' = [snap EXCEPT ![p] = Empty]
    /\ UNCHANGED <<lock, file, now, minted, req, stage, sent, fate, clicks,
                   crashes>>

\* Second critical section: every record read goes into the map, over
\* whatever the map holds by now.
Merge(p) ==
    LET r == snap[p][CardOf(p)]
    IN  /\ pc[p] = "merge" /\ lock = Free
        /\ SetMemory(Overlay(snap[p], store_lock))
        /\ revived' = revived \cup (Settled \cap Present(snap[p]))
        /\ merged' = merged \cup Present(snap[p])
        /\ view' = [view EXCEPT ![p] = r]
        /\ snap' = [snap EXCEPT ![p] = Empty]
        /\ AfterGet(p, r)
        /\ UNCHANGED <<lock, file, now, minted, req, stage, sent, fate,
                       clicks, crashes>>

Bug_AnyHubCard(p) == IsHub(p) => view[p].hub # Admin

\* The hub route goes on only with a card of the visitor's own scope.
OwnCard(p) == IsHub(p) => view[p].hub = req[p].scope

\* The action is sent: module.run, storage.*, page.*, schedule.*.
Send(p) ==
    /\ pc[p] = "decide" /\ IsCommit(p) /\ OwnCard(p)
    /\ IsHub(p) => view[p].kind = "edit"
    /\ sent' = [sent EXCEPT ![CardOf(p)] = @ + 1]
    /\ Goto(p, "await")
    /\ UNCHANGED <<storeVars, req, stage, view, snap, history>>

\* 404 for a card of another scope, 400 or 403 for a call a hub may not make:
\* an order, a job, an edit of a path outside the hub's folder.
Refuse(p) ==
    /\ pc[p] = "decide" /\ IsHub(p)
    /\ ~OwnCard(p) \/ IsCommit(p)
    /\ Goto(p, "idle")
    /\ UNCHANGED <<storeVars, req, stage, view, snap, sent, history>>

\* The hub route passes a reject on: reject_pending looks the card up again.
HubReject(p) ==
    /\ pc[p] = "decide" /\ req[p].op = "hub_reject" /\ OwnCard(p)
    /\ stage' = [stage EXCEPT ![p] = "settle"]
    /\ Goto(p, "get")
    /\ UNCHANGED <<storeVars, req, view, snap, sent, history>>

\* The action answers, or its answer is lost.  The card is consumed after a
\* success; an order sent by the admin route ("dispatched") in any case.
Answer(p, ok) ==
    LET consume == ok \/ view[p].kind = "run_module"
    IN  /\ pc[p] = "await"
        /\ IF consume
           THEN Goto(p, "get") /\ stage' = [stage EXCEPT ![p] = "settle"]
           ELSE Goto(p, "idle") /\ UNCHANGED stage
        /\ UNCHANGED <<storeVars, req, view, snap, sent, history>>

Bug_RemoveOnlyFlushes(p) ==
    /\ pc[p] = "remove" /\ lock = Free
    /\ SetMemory(store_lock)
    /\ IF view[p] # NoCard
       THEN BeginFlush(p) /\ Goto(p, "flush")
       ELSE UNCHANGED <<lock, file>> /\ Goto(p, "idle")
    /\ UNCHANGED <<now, minted, req, stage, view, snap, sent, history>>

\* The last critical section of consume_pending and reject_pending: remove
\* the card, and flush unless the reject had found nothing.
Remove(p) ==
    /\ pc[p] = "remove" /\ lock = Free
    /\ SetMemory([store_lock EXCEPT ![CardOf(p)] = NoCard])
    /\ IF view[p] # NoCard
       THEN BeginFlush(p) /\ Goto(p, "flush")
       ELSE UNCHANGED <<lock, file>> /\ Goto(p, "idle")
    /\ UNCHANGED <<now, minted, req, stage, view, snap, sent, history>>

\* A flush ends; if it was a request's, that request is answered.
FinishFlush ==
    /\ EndFlush
    /\ pc' = [p \in Client |-> IF p = lock THEN "idle" ELSE pc[p]]
    /\ fate' = [c \in Card |->
          IF lock \in Client /\ c = CardOf(lock)
          THEN IF IsCommit(lock) THEN "consumed" ELSE "rejected"
          ELSE fate[c]]
    /\ merged' = {}
    /\ UNCHANGED <<req, stage, view, snap, sent, revived, clicks, crashes>>

-----------------------------------------------------------------------------
\* The core process dies: a request inside one of its calls gets an error,
\* which the route reports (look) or does not look at (settle).
CoreCrash ==
    /\ crashes < MaxCrashes /\ crashes' = crashes + 1
    /\ CrashStore
    /\ merged' = {}
    /\ pc' = [p \in Client |-> IF pc[p] \in {"decide", "await"} THEN pc[p]
                               ELSE "idle"]
    /\ UNCHANGED <<req, stage, view, snap, sent, fate, revived, clicks>>

\* The web process dies: what a request had in hand is gone, what it had
\* asked of the core still completes there.
WebCrash ==
    /\ crashes < MaxCrashes /\ crashes' = crashes + 1
    /\ pc' = [p \in Client |-> IF pc[p] \in {"decide", "await"} THEN "idle"
                               ELSE pc[p]]
    /\ stage' = [p \in Client |-> IF stage[p] = "look" THEN "orphan"
                                  ELSE stage[p]]
    /\ UNCHANGED <<storeVars, req, view, snap, sent, fate, revived, merged,
                   clicks>>

StoreStep == /\ Create \/ Attach \/ list_pending \/ Tick
             /\ UNCHANGED routeVars

ClientStep(p) == Get(p) \/ Read(p) \/ Merge(p) \/ Send(p) \/ Refuse(p)
                 \/ HubReject(p) \/ (\E ok \in BOOLEAN : Answer(p, ok))
                 \/ Remove(p)

Init ==
    /\ StoreInit
    /\ pc = [p \in Client |-> "idle"]
    /\ req = [p \in Client |->
                 [op |-> "reject", card |-> CHOOSE c \in Card : TRUE,
                  scope |-> Admin, begun |-> 0, past |-> "open"]]
    /\ stage = [p \in Client |-> "look"]
    /\ view = [p \in Client |-> NoCard]
    /\ snap = [p \in Client |-> Empty]
    /\ sent = [c \in Card |-> 0]
    /\ fate = [c \in Card |-> "open"] /\ revived = {} /\ merged = {}
    /\ clicks = 0 /\ crashes = 0

Next ==
    \/ StoreStep
    \/ FinishFlush
    \/ \E p \in Client : ClientStep(p)
    \/ \E p \in Client, op \in Op, c \in Card, s \in Hub \cup {Admin} :
           Click(p, op, c, s)
    \/ CoreCrash \/ WebCrash

Spec == Init /\ [][Next]_vars

(***************************************************************************)
(* Every handler the scheduler can run is run: the tokio workers and the   *)
(* Node event loop make progress, a started flush ends, and an action's    *)
(* RPC returns or fails.  Clicks, crashes and the clock are not promised.  *)
(***************************************************************************)
Fairness == WF_vars(FinishFlush) /\ \A p \in Client : WF_vars(ClientStep(p))

LiveSpec == Spec /\ Fairness

-----------------------------------------------------------------------------
\* Well-formedness of the store and of the requests: every copy of a record
\* (map, file, snapshot, view) is a whole record or none, torn files included.
TypeOK ==
    /\ StoreTypeOK
    /\ pc \in [Client -> PC]
    /\ req \in [Client -> Request]
    /\ stage \in [Client -> Stage]
    /\ view \in [Client -> PendingTool \cup {NoCard}]
    /\ snap \in [Client -> Store]
    /\ sent \in [Card -> Nat]
    /\ fate \in [Card -> Fate] /\ revived \subseteq Card
    /\ merged \subseteq Card
    /\ clicks \in Nat /\ crashes \in Nat

\* A card is acted on only by a request that began before its deadline: an
\* order composed against an old price is never sent by a later click, not
\* even when the record comes back through the file fallback.
NoStaleOrder ==
    \A p \in Client : pc[p] \in {"decide", "await"} =>
        /\ view[p] # NoCard
        /\ req[p].begun <= deadline_ms(view[p])

\* A hub visitor's request sends, or removes, only a card minted in that
\* visitor's scope, and never an order or a job (the cross-tenant guard of
\* the hub route, over a get_pending and a second one in reject_pending).
HubOwnCards ==
    \A p \in Client : IsHub(p) /\ pc[p] \in {"await", "remove", "flush"} =>
        /\ minted[CardOf(p)].hub = req[p].scope
        /\ IsCommit(p) => minted[CardOf(p)].kind = "edit"

\* What a person approves is what the model asked for: the record a request
\* acts on is the one the planId was minted with, whatever copy of it (map,
\* file, fallback snapshot) the request was given, in all but the claim.
SameCall(r, s) == /\ r.kind = s.kind /\ r.created = s.created
                  /\ r.hub = s.hub /\ r.origin = s.origin

ApprovedAsMinted ==
    \A p \in Client : pc[p] \in {"decide", "await"} =>
        minted[CardOf(p)] # NoCard /\ SameCall(view[p], minted[CardOf(p)])

\* Once a consume or a reject of a card has been answered, no request that
\* begins later sends it again -- unless a fallback merge has put the card
\* back (revived).  The merge is the only door.
SettledNotResent ==
    \A p \in Client : pc[p] \in {"decide", "await"} /\ req[p].past # "open" =>
        CardOf(p) \in revived

\* With the mutex free, every approvable card in the map is in the file as
\* the map has it, so a restart neither loses nor changes it.  Excepted are the
\* cards in "merged", into which a fallback merge has written since the last
\* flush, and a write that fails (flush drops the error) is left out.
MemoryOnDisk ==
    lock = Free /\ loaded =>
        \A c \in Card \ merged :
            Unexpired(mem)[c] # NoCard => file[c] = mem[c]

\* Every request is answered: no order of locks, nested get_pending calls,
\* flushes and crashes leaves one waiting for ever.
ClickAnswered == \A p \in Client : pc[p] # "idle" ~> pc[p] = "idle"

-----------------------------------------------------------------------------
(***************************************************************************)
(* Refinement: with one request at a time the routes and the store keep    *)
(* the abstract promise of ApprovalCards, crashes of either process        *)
(* included.  With two they do not (see the properties below).             *)
(***************************************************************************)
CardStatus == [c \in Card |-> IF minted[c] = NoCard THEN "unborn"
                              ELSE IF fate[c] = "open" THEN "open" ELSE "settled"]

Cards == INSTANCE ApprovalCards WITH status <- CardStatus, sent <- sent

\* A card is minted once, sent only while it is open, and once its approval
\* or rejection has been answered it stays settled through later clicks,
\* expiries, evictions, flushes and restarts of the store.
CardsSpec == Cards!Spec

-----------------------------------------------------------------------------
(***************************************************************************)
(* What the code says of itself and does not keep.                         *)
(***************************************************************************)

\* app/api/plan/commit/route.ts, of a real order: a second attempt has to be
\* a second decision, not a second click.  One card is one decision.
OneOrderPerCard == \A c \in Card :
    sent[c] > 1 => minted[c].kind # "run_module"
=============================================================================
