-------------------------- MODULE PlanCommitProofs --------------------------
(***************************************************************************)
(* Theorems about the approval cards and the routes that act on them, for  *)
(* any number of cards, requests, hubs and conversations, any time limits  *)
(* and any number of crashes; the last is that a request cannot go round   *)
(* in circles.                                                             *)
(***************************************************************************)
EXTENDS PlanCommit, TLAPS

USE DEF Kind, Origin, PC, Stage, Op, Fate

LEMMA UnexpiredType ==
    ASSUME StoreTypeOK, NEW s \in Store
    PROVE  Unexpired(s) \in Store
BY DEF Unexpired, Store

LEMMA StoreLockType ==
    ASSUME StoreTypeOK
    PROVE  store_lock \in Store /\ Unexpired(store_lock) \in Store
BY UnexpiredType DEF store_lock, StoreTypeOK

LEMMA OverlayType ==
    ASSUME NEW s \in Store, NEW t \in Store
    PROVE  Overlay(s, t) \in Store
BY DEF Overlay, Store

LEMMA ClaimType ==
    ASSUME NEW r \in PendingTool, NEW k \in Conv
    PROVE  [r EXCEPT !.conv = k] \in PendingTool
BY DEF PendingTool

LEMMA NewCardType ==
    ASSUME now \in Nat, NEW p \in NewCards
    PROVE  p \in PendingTool /\ p # NoCard
BY StoreAssumption DEF NewCards, PendingTool

LEMMA EmptyType == Empty \in Store
BY DEF Empty, Store

(***************************************************************************)
(* Type correctness.                                                       *)
(***************************************************************************)
LEMMA InitType == Init => TypeOK
<1> SUFFICES ASSUME Init PROVE TypeOK
    OBVIOUS
<1>1. StoreTypeOK
    BY EmptyType DEF Init, StoreInit, StoreTypeOK
<1>2. snap \in [Client -> Store] /\ view \in [Client -> PendingTool \cup {NoCard}]
    BY EmptyType DEF Init
<1>3. (CHOOSE c \in Card : TRUE) \in Card
    BY StoreAssumption
<1>4. req \in [Client -> Request]
    BY <1>3 DEF Init, Request
<1> QED BY <1>1, <1>2, <1>4 DEF Init, TypeOK

\* Each step of the store alone keeps the store's types.
LEMMA StoreStepType ==
    ASSUME TypeOK, StoreStep
    PROVE  TypeOK'
<1> USE DEF TypeOK, StoreTypeOK
<1>1. Unexpired(store_lock) \in Store /\ store_lock \in Store
    BY StoreLockType
<1>2. CASE Create
    <2> PICK c \in Card, p \in NewCards : create_pending_in(c, p)
        BY <1>2 DEF Create
    <2>1. p \in PendingTool
        BY NewCardType
    <2>2. mem' \in Store
        <3>1. PICK gone : mem' = [d \in Card |-> IF d = c THEN p
                                   ELSE IF d \in gone THEN NoCard
                                   ELSE Unexpired(store_lock)[d]]
            BY DEF create_pending_in, SetMemory
        <3> QED BY <1>1, <2>1, <3>1 DEF Store
    <2>3. minted' \in Store
        BY <2>1 DEF create_pending_in, Store
    <2> QED BY <2>2, <2>3, EmptyType
            DEF create_pending_in, SetMemory, BeginFlush, StoreStep, routeVars
<1>3. CASE Attach
    <2> PICK c \in Card, k \in Conv : attach_conversation(c, k)
        BY <1>3 DEF Attach
    <2>1. ASSUME store_lock[c] # NoCard
          PROVE  [store_lock[c] EXCEPT !.conv = k] \in PendingTool
        <3>1. store_lock[c] \in PendingTool
            BY <1>1, <2>1 DEF Store
        <3> QED BY <3>1, ClaimType
    <2>2. mem' \in Store
        BY <1>1, <2>1 DEF attach_conversation, SetMemory, Store
    <2> QED BY <2>2, EmptyType
            DEF attach_conversation, SetMemory, BeginFlush, StoreStep, routeVars
<1>4. CASE list_pending
    <2>1. mem' \in Store
        BY <1>1, <1>4, UnexpiredType, OverlayType DEF list_pending, SetMemory
    <2> QED BY <2>1, <1>4 DEF list_pending, SetMemory, StoreStep, routeVars
<1>5. CASE Tick
    BY <1>5 DEF Tick, StoreStep, routeVars
<1> QED BY <1>2, <1>3, <1>4, <1>5 DEF StoreStep

LEMMA StoreStepFrame ==
    ASSUME StoreStep
    PROVE  now' \in {now, now + 1} /\ UNCHANGED routeVars
<1>1. CASE Create
    <2> PICK c \in Card, p \in NewCards : create_pending_in(c, p)
        BY <1>1 DEF Create
    <2> QED BY DEF create_pending_in, StoreStep
<1>2. CASE Attach
    <2> PICK c \in Card, k \in Conv : attach_conversation(c, k)
        BY <1>2 DEF Attach
    <2> QED BY DEF attach_conversation, StoreStep
<1>3. CASE list_pending \/ Tick
    BY <1>3 DEF list_pending, Tick, StoreStep
<1> QED BY <1>1, <1>2, <1>3 DEF StoreStep

LEMMA ClientStepType ==
    ASSUME TypeOK, NEW p \in Client, ClientStep(p)
    PROVE  TypeOK'
<1> USE DEF TypeOK, StoreTypeOK, storeVars, history, Goto, CardOf
<1>0. req[p].card \in Card
    BY DEF Request
<1>1. Unexpired(store_lock) \in Store /\ store_lock \in Store
    BY StoreLockType
<1>2. CASE Get(p)
    <2>1. Unexpired(store_lock)[req[p].card] \in PendingTool \cup {NoCard}
        BY <1>0, <1>1 DEF Store
    <2>2. pc' \in [Client -> PC]
        BY <1>2 DEF Get, AfterGet
    <2> QED BY <2>1, <2>2, <1>1, <1>2 DEF Get, SetMemory
<1>3. CASE Read(p)
    <2>1. Unexpired(file) \in Store
        BY UnexpiredType
    <2> QED BY <2>1, <1>3 DEF Read
<1>4. CASE Merge(p)
    <2>1. snap[p] \in Store /\ snap[p][req[p].card] \in PendingTool \cup {NoCard}
        BY <1>0 DEF Store
    <2>2. pc' \in [Client -> PC]
        BY <1>4 DEF Merge, AfterGet
    <2>3. mem' \in Store
        BY <1>4, <2>1, <1>1, OverlayType DEF Merge, SetMemory
    <2>4. snap' \in [Client -> Store]
        BY <1>4, EmptyType DEF Merge
    <2> QED BY <2>1, <2>2, <2>3, <2>4, <1>4 DEF Merge, SetMemory, Present, Settled
<1>5. CASE Send(p)
    BY <1>0, <1>5 DEF Send
<1>6. CASE Refuse(p)
    BY <1>6 DEF Refuse
<1>7. CASE HubReject(p)
    BY <1>7 DEF HubReject
<1>8. ASSUME NEW ok \in BOOLEAN, Answer(p, ok) PROVE TypeOK'
    BY <1>8 DEF Answer
<1>9. CASE Remove(p)
    <2>1. mem' \in Store
        BY <1>0, <1>1, <1>9 DEF Remove, SetMemory, Store
    <2>2. pc' \in [Client -> PC] /\ file' \in Store /\ lock' \in Client \cup {Free, Turn}
        BY <1>9, EmptyType DEF Remove, BeginFlush
    <2> QED BY <2>1, <2>2, <1>9 DEF Remove, SetMemory
<1> QED BY <1>2, <1>3, <1>4, <1>5, <1>6, <1>7, <1>8, <1>9 DEF ClientStep

LEMMA NextType ==
    ASSUME TypeOK, [Next]_vars
    PROVE  TypeOK'
<1> USE DEF TypeOK, StoreTypeOK
<1>1. CASE FinishFlush
    BY <1>1 DEF FinishFlush, EndFlush
<1>2. ASSUME NEW p \in Client, NEW op \in Op, NEW c \in Card,
             NEW s \in Hub \cup {Admin}, Click(p, op, c, s)
      PROVE  TypeOK'
    <2>1. req' \in [Client -> Request]
        BY <1>2 DEF Click, Request
    <2> QED BY <1>2, <2>1 DEF Click, Goto, storeVars
<1>3. CASE CoreCrash
    <2>1. pc' \in [Client -> PC]
        BY <1>3 DEF CoreCrash
    <2>2. StoreTypeOK'
        BY <1>3, EmptyType DEF CoreCrash, CrashStore
    <2>3. crashes' \in Nat
        BY <1>3 DEF CoreCrash
    <2> QED BY <1>3, <2>1, <2>2, <2>3 DEF CoreCrash
<1>4. CASE WebCrash
    BY <1>4 DEF WebCrash, storeVars
<1>5. CASE UNCHANGED vars
    BY <1>5 DEF vars, storeVars, routeVars
<1> QED BY <1>1, <1>2, <1>3, <1>4, <1>5, StoreStepType, ClientStepType DEF Next

\* Every reachable state of the cards and of the requests is well formed.
THEOREM TypeCorrect == Spec => []TypeOK
<1> QED BY InitType, NextType, PTL DEF Spec

-----------------------------------------------------------------------------
(***************************************************************************)
(* Every copy of a record is the one that was minted, but for its claim.   *)
(***************************************************************************)
AsMinted(s) == \A c \in Card : s[c] # NoCard =>
                   minted[c] # NoCard /\ SameCall(s[c], minted[c])

CopiesAsMinted ==
    /\ AsMinted(mem) /\ AsMinted(file)
    /\ \A p \in Client : AsMinted(snap[p])
    /\ \A p \in Client : pc[p] \in {"decide", "await"} => view[p] # NoCard
    /\ \A p \in Client : view[p] # NoCard /\ pc[p] # "idle" =>
           minted[CardOf(p)] # NoCard /\ SameCall(view[p], minted[CardOf(p)])

LEMMA AsMintedStore ==
    ASSUME AsMinted(mem), AsMinted(file)
    PROVE  /\ AsMinted(store_lock) /\ AsMinted(Unexpired(store_lock))
           /\ AsMinted(Unexpired(file)) /\ AsMinted(Empty)
BY DEF AsMinted, store_lock, Unexpired, Empty

LEMMA AsMintedOverlay ==
    ASSUME NEW s, NEW t, AsMinted(s), AsMinted(t)
    PROVE  AsMinted(Overlay(s, t))
BY DEF AsMinted, Overlay

LEMMA CopiesInit == Init => CopiesAsMinted
BY DEF Init, StoreInit, CopiesAsMinted, AsMinted, Empty

LEMMA CopiesStoreStep ==
    ASSUME TypeOK, CopiesAsMinted, StoreStep
    PROVE  CopiesAsMinted'
<1> USE DEF CopiesAsMinted
<1>0. /\ AsMinted(store_lock) /\ AsMinted(Unexpired(store_lock))
      /\ AsMinted(Unexpired(file)) /\ AsMinted(Empty)
    BY AsMintedStore
<1>1. CASE Create
    <2> PICK c \in Card, p \in NewCards : create_pending_in(c, p)
        BY <1>1 DEF Create
    <2>1. minted \in [Card -> PendingTool \cup {NoCard}] /\ p # NoCard
        BY NewCardType DEF TypeOK, StoreTypeOK, Store
    <2>2. /\ minted'[c] = p /\ minted[c] = NoCard
          /\ \A d \in Card : d # c => minted'[d] = minted[d]
        BY <2>1 DEF create_pending_in
    <2>3. AsMinted(mem)'
        <3>1. PICK gone : mem' = [d \in Card |-> IF d = c THEN p
                                   ELSE IF d \in gone THEN NoCard
                                   ELSE Unexpired(store_lock)[d]]
            BY DEF create_pending_in, SetMemory
        <3>2. SameCall(p, p)
            BY DEF SameCall
        <3> QED BY <1>0, <2>1, <2>2, <3>1, <3>2 DEF AsMinted
    <2>4. AsMinted(file)'
        BY DEF create_pending_in, BeginFlush, Empty, AsMinted
    <2>5. \A q \in Client : AsMinted(snap[q])'
        BY <2>2 DEF AsMinted, StoreStep, routeVars
    <2>6. \A q \in Client : req[q].card \in Card
        BY DEF TypeOK, Request
    <2> QED BY <2>2, <2>3, <2>4, <2>5, <2>6 DEF StoreStep, routeVars, CardOf
<1>2. CASE Attach
    <2> PICK c \in Card, k \in Conv : attach_conversation(c, k)
        BY <1>2 DEF Attach
    <2>1. store_lock \in Store
        BY StoreLockType DEF TypeOK
    <2>2. AsMinted(mem)'
        <3>1. CASE store_lock[c] # NoCard /\ store_lock[c].conv = NoConv
            <4>1. store_lock[c] \in PendingTool
                BY <2>1, <3>1 DEF Store
            <4>2. SameCall([store_lock[c] EXCEPT !.conv = k], store_lock[c])
                BY <4>1 DEF SameCall, PendingTool
            <4> DEFINE r == [store_lock[c] EXCEPT !.conv = k]
            <4>3. mem' = [store_lock EXCEPT ![c] = r]
                BY <3>1 DEF attach_conversation, SetMemory
            <4>4. SameCall(r, store_lock[c])
                BY <4>2
            <4>5. minted' = minted
                BY DEF attach_conversation
            <4> HIDE DEF r
            <4> QED BY <1>0, <2>1, <3>1, <4>3, <4>4, <4>5
                    DEF AsMinted, SameCall, Store
        <3>2. CASE ~(store_lock[c] # NoCard /\ store_lock[c].conv = NoConv)
            BY <1>0, <3>2 DEF attach_conversation, SetMemory, AsMinted
        <3> QED BY <3>1, <3>2
    <2>3. AsMinted(file)'
        BY <1>0 DEF attach_conversation, BeginFlush, AsMinted
    <2> QED BY <2>2, <2>3 DEF attach_conversation, StoreStep, routeVars,
                              CardOf, AsMinted
<1>3. CASE list_pending
    <2>1. AsMinted(Overlay(Unexpired(store_lock), Unexpired(file)))
        BY <1>0, AsMintedOverlay
    <2> QED BY <2>1, <1>3 DEF list_pending, SetMemory, StoreStep, routeVars,
                              CardOf, AsMinted
<1>4. CASE Tick
    BY <1>4 DEF Tick, StoreStep, routeVars, CardOf, AsMinted
<1> QED BY <1>1, <1>2, <1>3, <1>4 DEF StoreStep

LEMMA CopiesClientStep ==
    ASSUME TypeOK, CopiesAsMinted, NEW p \in Client, ClientStep(p)
    PROVE  CopiesAsMinted'
<1> USE DEF CopiesAsMinted, CardOf, Goto
<1>0. /\ AsMinted(store_lock) /\ AsMinted(Unexpired(store_lock))
      /\ AsMinted(Unexpired(file)) /\ AsMinted(Empty)
    BY AsMintedStore
<1>a. req[p].card \in Card
    BY DEF TypeOK, Request
<1>b. /\ pc \in [Client -> PC] /\ view \in [Client -> PendingTool \cup {NoCard}]
      /\ snap \in [Client -> Store] /\ stage \in [Client -> Stage]
    BY DEF TypeOK
<1>1. CASE Get(p)
    <2>1. UNCHANGED <<minted, req, snap, file>>
        BY <1>1 DEF Get
    <2>2. AsMinted(mem)' /\ AsMinted(file)' /\ \A q \in Client : AsMinted(snap[q])'
        BY <1>0, <1>1, <2>1 DEF Get, SetMemory, AsMinted
    <2>3. \A q \in Client \ {p} : pc'[q] = pc[q] /\ view'[q] = view[q]
        BY <1>b, <1>1 DEF Get, AfterGet
    <2>4. /\ view'[p] # NoCard => minted[req[p].card] # NoCard
                                  /\ SameCall(view'[p], minted[req[p].card])
          /\ pc'[p] \in {"decide", "await"} => view'[p] # NoCard
        BY <1>0, <1>a, <1>b, <1>1 DEF Get, AfterGet, AsMinted
    <2> QED BY <2>1, <2>2, <2>3, <2>4
<1>2. CASE Read(p)
    BY <1>0, <1>b, <1>2 DEF Read, storeVars, AsMinted
<1>3. CASE Merge(p)
    <2>1. UNCHANGED <<minted, req, file>>
        BY <1>3 DEF Merge
    <2>2. AsMinted(mem)'
        <3>1. AsMinted(Overlay(snap[p], store_lock))
            BY <1>0, AsMintedOverlay
        <3> QED BY <3>1, <2>1, <1>3 DEF Merge, SetMemory, AsMinted
    <2>3. AsMinted(file)' /\ \A q \in Client : AsMinted(snap[q])'
        BY <1>0, <1>b, <1>3, <2>1 DEF Merge, AsMinted
    <2>4. \A q \in Client \ {p} : pc'[q] = pc[q] /\ view'[q] = view[q]
        BY <1>b, <1>3 DEF Merge, AfterGet
    <2>5. /\ view'[p] # NoCard => minted[req[p].card] # NoCard
                                  /\ SameCall(view'[p], minted[req[p].card])
          /\ pc'[p] \in {"decide", "await"} => view'[p] # NoCard
        <3>1. view'[p] = snap[p][req[p].card]
            BY <1>b, <1>3 DEF Merge
        <3>2. pc'[p] \in {"decide", "await"} => snap[p][req[p].card] # NoCard
            BY <1>b, <1>3 DEF Merge, AfterGet
        <3> QED BY <1>a, <3>1, <3>2 DEF AsMinted
    <2> QED BY <2>1, <2>2, <2>3, <2>4, <2>5
<1>4. CASE Send(p)
    BY <1>b, <1>4 DEF Send, storeVars, history, AsMinted
<1>5. CASE Refuse(p)
    BY <1>b, <1>5 DEF Refuse, storeVars, history, AsMinted
<1>6. CASE HubReject(p)
    BY <1>b, <1>6 DEF HubReject, storeVars, history, AsMinted
<1>7. ASSUME NEW ok \in BOOLEAN, Answer(p, ok) PROVE CopiesAsMinted'
    BY <1>b, <1>7 DEF Answer, storeVars, history, AsMinted
<1>8. CASE Remove(p)
    <2>1. UNCHANGED <<minted, req, snap, view>>
        BY <1>8 DEF Remove
    <2>2. AsMinted(mem)' /\ AsMinted(file)'
        <3>1. mem' = [store_lock EXCEPT ![req[p].card] = NoCard]
            BY <1>8 DEF Remove, SetMemory
        <3>2. store_lock \in Store
            BY StoreLockType DEF TypeOK
        <3> QED BY <1>0, <1>8, <2>1, <3>1, <3>2 DEF Remove, BeginFlush, AsMinted, Store
    <2>3. \A q \in Client : AsMinted(snap[q])'
        BY <2>1 DEF AsMinted
    <2>4. \A q \in Client : pc'[q] = pc[q] \/ (q = p /\ pc'[q] \in {"flush", "idle"})
        BY <1>b, <1>8 DEF Remove
    <2>5. pc[p] = "remove"
        BY <1>8 DEF Remove
    <2> QED BY <2>1, <2>2, <2>3, <2>4, <2>5
<1> QED BY <1>1, <1>2, <1>3, <1>4, <1>5, <1>6, <1>7, <1>8 DEF ClientStep

LEMMA CopiesNext ==
    ASSUME TypeOK, CopiesAsMinted, [Next]_vars
    PROVE  CopiesAsMinted'
<1> USE DEF CopiesAsMinted, CardOf
<1>1. CASE FinishFlush
    BY <1>1 DEF FinishFlush, EndFlush, AsMinted
<1>2. ASSUME NEW p \in Client, NEW op \in Op, NEW c \in Card,
             NEW s \in Hub \cup {Admin}, Click(p, op, c, s)
      PROVE  CopiesAsMinted'
    <2>1. /\ view' = [view EXCEPT ![p] = NoCard] /\ pc' = [pc EXCEPT ![p] = "get"]
          /\ UNCHANGED <<storeVars, snap>>
          /\ \A q \in Client \ {p} : req'[q] = req[q]
        BY <1>2 DEF Click, Goto, TypeOK
    <2>2. /\ view \in [Client -> PendingTool \cup {NoCard}] /\ pc \in [Client -> PC]
        BY DEF TypeOK
    <2> QED BY <2>1, <2>2 DEF AsMinted, storeVars
<1>3. CASE CoreCrash
    BY <1>3 DEF CoreCrash, CrashStore, AsMinted, Empty
<1>4. CASE WebCrash
    BY <1>4 DEF WebCrash, storeVars, AsMinted
<1>5. CASE UNCHANGED vars
    BY <1>5 DEF vars, storeVars, routeVars, AsMinted
<1> QED BY <1>1, <1>2, <1>3, <1>4, <1>5, CopiesStoreStep, CopiesClientStep DEF Next

\* A request acts on the very call the model made when the card was minted,
\* whichever of the three copies of the record it was handed.
THEOREM ApprovedAsMintedAlways == Spec => []ApprovedAsMinted
<1>1. CopiesAsMinted => ApprovedAsMinted
    BY DEF CopiesAsMinted, ApprovedAsMinted
<1> QED BY <1>1, CopiesInit, CopiesNext, TypeCorrect, PTL DEF Spec

-----------------------------------------------------------------------------
(***************************************************************************)
(* No request acts on a card that had expired when the request began.  The *)
(* strengthening carries the deadline through the fallback's snapshot.     *)
(***************************************************************************)
InTime(p, r) == r # NoCard => req[p].begun <= deadline_ms(r)

Fresh ==
    /\ \A p \in Client : pc[p] # "idle" => req[p].begun <= now
    /\ \A p \in Client : pc[p] = "merge" => \A c \in Card : InTime(p, snap[p][c])
    /\ NoStaleOrder

LEMMA DeadlineType ==
    ASSUME NEW r \in PendingTool
    PROVE  deadline_ms(r) \in Nat
BY StoreAssumption DEF deadline_ms, expire_ms, PendingTool

LEMMA UnexpiredInTime ==
    ASSUME TypeOK, NEW s \in Store, NEW c \in Card, NEW p \in Client,
           req[p].begun <= now
    PROVE  InTime(p, Unexpired(s)[c])
<1> SUFFICES ASSUME Unexpired(s)[c] # NoCard
             PROVE  req[p].begun <= deadline_ms(Unexpired(s)[c])
    BY DEF InTime
<1>1. Unexpired(s)[c] = s[c] /\ s[c] # NoCard /\ ~(now > deadline_ms(s[c]))
    BY DEF Unexpired, is_expired
<1>2. deadline_ms(s[c]) \in Nat
    BY <1>1, DeadlineType DEF Store
<1>3. req[p].begun \in Nat /\ now \in Nat
    BY DEF TypeOK, StoreTypeOK, Request
<1> QED BY <1>1, <1>2, <1>3

LEMMA FreshInit == Init => Fresh
BY DEF Init, Fresh, NoStaleOrder

LEMMA FreshNext ==
    ASSUME TypeOK, Fresh, [Next]_vars
    PROVE  Fresh'
<1> USE DEF Fresh, NoStaleOrder, InTime
<1>a. /\ pc \in [Client -> PC] /\ view \in [Client -> PendingTool \cup {NoCard}]
      /\ snap \in [Client -> Store] /\ stage \in [Client -> Stage]
      /\ req \in [Client -> Request] /\ now \in Nat /\ file \in Store
    BY DEF TypeOK, StoreTypeOK
<1>b. \A p \in Client : req[p].card \in Card /\ req[p].begun \in Nat
    BY <1>a DEF Request
<1>1. CASE StoreStep
    <2>1. now' \in {now, now + 1} /\ UNCHANGED routeVars
        BY <1>1, StoreStepFrame
    <2> QED BY <2>1, <1>a, <1>b DEF routeVars
<1>2. CASE FinishFlush
    BY <1>2 DEF FinishFlush, EndFlush
<1>3. ASSUME NEW p \in Client, Get(p) PROVE Fresh'
    <2>1. InTime(p, Unexpired(store_lock)[req[p].card])
        <3>1. store_lock \in Store
            BY StoreLockType DEF TypeOK
        <3>2. req[p].begun <= now
            BY <1>3 DEF Get
        <3> HIDE DEF InTime
        <3> QED BY <1>b, <3>1, <3>2, UnexpiredInTime
    <2>2. /\ view' = [view EXCEPT ![p] = Unexpired(store_lock)[req[p].card]]
          /\ UNCHANGED <<req, now, snap>>
        BY <1>3 DEF Get, CardOf
    <2>3. /\ \A q \in Client \ {p} : pc'[q] = pc[q]
          /\ pc'[p] # "merge" /\ pc[p] # "idle"
          /\ pc'[p] \in {"decide", "await"} =>
                 Unexpired(store_lock)[req[p].card] # NoCard
        BY <1>3, <1>a DEF Get, AfterGet, Goto, CardOf
    <2> QED BY <2>1, <2>2, <2>3, <1>a
<1>4. ASSUME NEW p \in Client, Read(p) PROVE Fresh'
    <2>1. \A c \in Card : InTime(p, Unexpired(file)[c])
        <3> HIDE DEF InTime
        <3> QED BY <1>4, <1>a, UnexpiredInTime DEF Read
    <2> QED BY <2>1, <1>4, <1>a DEF Read, Goto, storeVars
<1>5. ASSUME NEW p \in Client, Merge(p) PROVE Fresh'
    <2>1. /\ view' = [view EXCEPT ![p] = snap[p][req[p].card]]
          /\ UNCHANGED <<req, now>>
          /\ \A q \in Client \ {p} : snap'[q] = snap[q] /\ pc'[q] = pc[q]
          /\ pc'[p] # "merge" /\ pc[p] = "merge"
          /\ pc'[p] \in {"decide", "await"} => snap[p][req[p].card] # NoCard
        BY <1>5, <1>a DEF Merge, AfterGet, Goto, CardOf
    <2> QED BY <2>1, <1>a, <1>b
<1>6. ASSUME NEW p \in Client, Send(p) PROVE Fresh'
    BY <1>6, <1>a DEF Send, Goto, storeVars, history
<1>7. ASSUME NEW p \in Client, Refuse(p) \/ HubReject(p) PROVE Fresh'
    BY <1>7, <1>a DEF Refuse, HubReject, Goto, storeVars, history
<1>8. ASSUME NEW p \in Client, NEW ok \in BOOLEAN, Answer(p, ok) PROVE Fresh'
    BY <1>8, <1>a DEF Answer, Goto, storeVars, history
<1>9. ASSUME NEW p \in Client, Remove(p) PROVE Fresh'
    BY <1>9, <1>a DEF Remove, Goto, history
<1>10. ASSUME NEW p \in Client, NEW op \in Op, NEW c \in Card,
              NEW s \in Hub \cup {Admin}, Click(p, op, c, s)
       PROVE  Fresh'
    BY <1>10, <1>a DEF Click, Goto, storeVars
<1>11. CASE CoreCrash
    BY <1>11 DEF CoreCrash, CrashStore
<1>12. CASE WebCrash
    BY <1>12 DEF WebCrash, storeVars
<1>13. CASE UNCHANGED vars
    BY <1>13 DEF vars, storeVars, routeVars
<1> QED BY <1>1, <1>2, <1>3, <1>4, <1>5, <1>6, <1>7, <1>8, <1>9, <1>10,
           <1>11, <1>12, <1>13 DEF Next, ClientStep

\* No order or edit is sent by a click that came after its deadline, for any
\* time limits and however the record reached the request.
THEOREM NoStaleOrderAlways == Spec => []NoStaleOrder
<1>1. Fresh => NoStaleOrder
    BY DEF Fresh
<1> QED BY <1>1, FreshInit, FreshNext, TypeCorrect, PTL DEF Spec

-----------------------------------------------------------------------------
(***************************************************************************)
(* A settled card is gone from the map and from the file, unless a merge   *)
(* has revived it.  While a request's flush is under way its card is       *)
(* already out of the map, which is what the flush will write.             *)
(***************************************************************************)
Known ==
    /\ \A c \in Settled : minted[c] # NoCard
    /\ \A p \in Client : pc[p] # "idle" =>
           /\ minted[CardOf(p)] # NoCard
           /\ req[p].past # "open" => CardOf(p) \in Settled

SettledGone ==
    /\ \A c \in Settled \ revived : mem[c] = NoCard /\ file[c] = NoCard
    /\ lock \in Client => pc[lock] = "flush" /\ mem[CardOf(lock)] = NoCard

SettledInv == Known /\ SettledGone /\ SettledNotResent

LEMMA SettledInit == Init => SettledInv
BY StoreAssumption
   DEF Init, StoreInit, SettledInv, Known, SettledGone, SettledNotResent,
       Settled, Empty

LEMMA KnownNext ==
    ASSUME TypeOK, Known, SettledGone, [Next]_vars
    PROVE  Known'
<1> USE DEF Known, Settled, CardOf
<1>a. /\ pc \in [Client -> PC] /\ req \in [Client -> Request]
      /\ \A p \in Client : req[p].card \in Card
      /\ minted \in [Card -> PendingTool \cup {NoCard}]
      /\ fate \in [Card -> Fate] /\ now \in Nat
      /\ stage \in [Client -> Stage]
    BY DEF TypeOK, StoreTypeOK, Store, Request
<1>1. CASE StoreStep
    <2>1. UNCHANGED routeVars
        BY <1>1 DEF StoreStep
    <2>2. \A c \in Card : minted[c] # NoCard => minted'[c] # NoCard
        <3>1. CASE Create
            <4> PICK c \in Card, p \in NewCards : create_pending_in(c, p)
                BY <3>1 DEF Create
            <4> QED BY <1>a, NewCardType DEF create_pending_in
        <3>2. CASE ~Create
            BY <3>2, <1>1 DEF StoreStep, Attach, attach_conversation,
                              list_pending, Tick
        <3> QED BY <3>1, <3>2
    <2> QED BY <2>1, <2>2, <1>a DEF routeVars
<1>2. CASE FinishFlush
    <2>1. UNCHANGED <<minted, req>> /\ \A p \in Client : pc'[p] \in {pc[p], "idle"}
        BY <1>2, <1>a DEF FinishFlush, EndFlush
    <2>2. \A c \in Card : fate'[c] # "open" => minted[c] # NoCard
        <3> SUFFICES ASSUME NEW c \in Card, fate'[c] # "open"
                     PROVE  minted[c] # NoCard
            OBVIOUS
        <3>1. CASE lock \in Client /\ c = req[lock].card
            BY <3>1 DEF SettledGone
        <3>2. CASE ~(lock \in Client /\ c = req[lock].card)
            BY <3>2, <1>2 DEF FinishFlush
        <3> QED BY <3>1, <3>2
    <2>3. \A c \in Card : fate[c] # "open" => fate'[c] # "open"
        BY <1>2, <1>a DEF FinishFlush
    <2> QED BY <2>1, <2>2, <2>3, <1>a
<1>3. ASSUME NEW p \in Client, ClientStep(p) PROVE Known'
    <2>1. UNCHANGED <<minted, req, fate>>
        BY <1>3 DEF ClientStep, Get, Read, Merge, Send, Refuse, HubReject,
                    Answer, Remove, storeVars, history
    <2>2. pc[p] # "idle" /\ \A q \in Client : q # p => pc'[q] = pc[q]
        BY <1>3, <1>a DEF ClientStep, Get, Read, Merge, Send, Refuse,
             HubReject, Answer, Remove, Goto, AfterGet
    <2> QED BY <2>1, <2>2
<1>4. ASSUME NEW p \in Client, NEW op \in Op, NEW c \in Card,
             NEW s \in Hub \cup {Admin}, Click(p, op, c, s)
      PROVE  Known'
    <2>1. /\ UNCHANGED <<minted, fate>> /\ minted[c] # NoCard
          /\ \A q \in Client \ {p} : req'[q] = req[q] /\ pc'[q] = pc[q]
          /\ req'[p].card = c /\ req'[p].past = fate[c]
        BY <1>4, <1>a DEF Click, Goto, storeVars
    <2> QED BY <2>1
<1>5. CASE CoreCrash
    BY <1>5 DEF CoreCrash, CrashStore
<1>6. CASE WebCrash
    BY <1>6 DEF WebCrash, storeVars
<1>7. CASE UNCHANGED vars
    BY <1>7 DEF vars, storeVars, routeVars
<1> QED BY <1>1, <1>2, <1>3, <1>4, <1>5, <1>6, <1>7 DEF Next

\* What a step may read of a settled card that was not revived: nothing.
LEMMA GoneEverywhere ==
    ASSUME SettledGone, NEW c \in Settled \ revived
    PROVE  /\ store_lock[c] = NoCard /\ Unexpired(store_lock)[c] = NoCard
           /\ Unexpired(file)[c] = NoCard
BY DEF SettledGone, store_lock, Unexpired, Settled

LEMMA SettledStoreStep ==
    ASSUME TypeOK, SettledInv, StoreStep
    PROVE  SettledGone' /\ SettledNotResent'
<1> USE DEF SettledInv
<1>1. UNCHANGED routeVars
    BY StoreStepFrame
<1>2. Settled' = Settled /\ Settled \subseteq Card
    BY <1>1 DEF routeVars, Settled
<1>3. SettledNotResent'
    BY <1>1 DEF routeVars, SettledNotResent, CardOf
<1>4. SettledGone'
    <2>1. CASE Create
        <3> PICK c \in Card, p \in NewCards : create_pending_in(c, p)
            BY <2>1 DEF Create
        <3>1. c \notin Settled
            BY DEF create_pending_in, Known
        <3>2. \A d \in Card : d # c => mem'[d] \in {NoCard, Unexpired(store_lock)[d]}
            BY DEF create_pending_in, SetMemory
        <3>3. lock' = Turn /\ file' = Empty
            BY DEF create_pending_in, BeginFlush
        <3> QED BY <1>1, <1>2, <3>1, <3>2, <3>3, GoneEverywhere, StoreAssumption
                DEF SettledGone, routeVars, Empty
    <2>2. CASE Attach
        <3> PICK c \in Card, k \in Conv : attach_conversation(c, k)
            BY <2>2 DEF Attach
        <3>1. store_lock \in Store
            BY StoreLockType DEF TypeOK
        <3>2. \A d \in Card : store_lock[d] = NoCard => mem'[d] = NoCard
            BY <3>1 DEF attach_conversation, SetMemory, Store
        <3>3. \/ lock' = Turn /\ file' = Empty
              \/ lock' = Free /\ file' = file
            BY DEF attach_conversation, BeginFlush
        <3> QED BY <1>1, <1>2, <3>2, <3>3, GoneEverywhere, StoreAssumption
                DEF SettledGone, routeVars, Empty
    <2>3. CASE list_pending
        <3>1. \A d \in Settled \ revived : mem'[d] = NoCard
            BY <2>3, <1>2, GoneEverywhere DEF list_pending, SetMemory, Overlay
        <3> QED BY <2>3, <1>1, <1>2, <3>1, StoreAssumption
                DEF SettledGone, routeVars, list_pending
    <2>4. CASE Tick
        BY <2>4, <1>1, <1>2 DEF SettledGone, routeVars, Tick, CardOf
    <2> QED BY <2>1, <2>2, <2>3, <2>4 DEF StoreStep
<1> QED BY <1>3, <1>4

LEMMA SettledClientStep ==
    ASSUME TypeOK, SettledInv, NEW p \in Client, ClientStep(p)
    PROVE  SettledGone' /\ SettledNotResent'
<1> USE DEF SettledInv, CardOf
<1>a. /\ pc \in [Client -> PC] /\ view \in [Client -> PendingTool \cup {NoCard}]
      /\ snap \in [Client -> Store] /\ stage \in [Client -> Stage]
      /\ \A q \in Client : req[q].card \in Card
      /\ Settled \subseteq Card
    BY DEF TypeOK, Request, Settled
<1>b. UNCHANGED <<req, fate>> /\ \A q \in Client : q # p => pc'[q] = pc[q]
    BY <1>a DEF ClientStep, Get, Read, Merge, Send, Refuse, HubReject,
                Answer, Remove, storeVars, history, Goto, AfterGet
<1>c. Settled' = Settled
    BY <1>b DEF Settled
<1>1. CASE Get(p)
    <2>1. /\ lock = Free /\ pc[p] = "get" /\ UNCHANGED <<lock, file, revived>>
          /\ mem' = Unexpired(store_lock)
          /\ pc'[p] = "decide" => Unexpired(store_lock)[req[p].card] # NoCard
          /\ pc'[p] # "await"
        BY <1>1, <1>a DEF Get, SetMemory, AfterGet, Goto, history
    <2>2. SettledGone'
        BY <2>1, <1>c, <1>a, GoneEverywhere, StoreAssumption DEF SettledGone
    <2> HIDE DEF SettledGone
    <2>3. SettledNotResent'
        <3> SUFFICES ASSUME NEW q \in Client, pc'[q] \in {"decide", "await"},
                            req[q].past # "open"
                     PROVE  req[q].card \in revived
            BY <1>b, <2>1 DEF SettledNotResent
        <3>1. CASE q = p
            BY <3>1, <2>1, <1>a, GoneEverywhere DEF Known
        <3>2. CASE q # p
            BY <3>2, <1>b DEF SettledNotResent
        <3> QED BY <3>1, <3>2
    <2> QED BY <2>2, <2>3
<1>2. CASE Merge(p)
    <2>1. /\ lock = Free /\ pc[p] = "merge" /\ UNCHANGED <<lock, file>>
          /\ mem' = Overlay(snap[p], store_lock)
          /\ revived' = revived \cup (Settled \cap Present(snap[p]))
          /\ pc'[p] = "decide" => snap[p][req[p].card] # NoCard
          /\ pc'[p] # "await"
        BY <1>2, <1>a DEF Merge, SetMemory, AfterGet, Goto
    <2>2. SettledGone'
        BY <2>1, <1>c, <1>a, GoneEverywhere, StoreAssumption
           DEF SettledGone, Overlay, Present
    <2>3. SettledNotResent'
        BY <2>1, <1>b, <1>a DEF SettledNotResent, Known, Present
    <2> QED BY <2>2, <2>3
<1>3. CASE Remove(p)
    <2>1. /\ lock = Free /\ UNCHANGED revived /\ pc'[p] \in {"flush", "idle"}
          /\ mem' = [store_lock EXCEPT ![req[p].card] = NoCard]
          /\ \/ lock' = p /\ file' = Empty /\ pc'[p] = "flush"
             \/ lock' = Free /\ file' = file
        BY <1>3, <1>a DEF Remove, SetMemory, BeginFlush, Goto, history
    <2>2. store_lock \in Store
        BY StoreLockType DEF TypeOK
    <2>3. \A c \in Settled \ revived : mem'[c] = NoCard
        BY <2>1, <2>2, <1>a, GoneEverywhere DEF Store
    <2>4. mem'[req[p].card] = NoCard
        BY <2>1, <2>2, <1>a DEF Store
    <2>5. \A c \in Settled \ revived : file'[c] = NoCard
        BY <2>1, <1>a DEF SettledGone, Empty
    <2>6. SettledGone'
        BY <2>1, <2>3, <2>4, <2>5, <1>b, <1>c, StoreAssumption DEF SettledGone
    <2>7. SettledNotResent'
        BY <2>1, <1>b DEF SettledNotResent
    <2> QED BY <2>6, <2>7
<1>4. CASE Read(p) \/ Send(p) \/ Refuse(p) \/ HubReject(p)
           \/ \E ok \in BOOLEAN : Answer(p, ok)
    <2>1. /\ UNCHANGED <<mem, file, lock, revived>>
          /\ pc[p] # "flush"
          /\ pc'[p] \in {"decide", "await"} => pc[p] \in {"decide", "await"}
        BY <1>4, <1>a DEF Read, Send, Refuse, HubReject, Answer, Goto,
                          storeVars, history
    <2>2. SettledGone'
        BY <2>1, <1>b, <1>c DEF SettledGone
    <2>3. SettledNotResent'
        BY <2>1, <1>b DEF SettledNotResent
    <2> QED BY <2>2, <2>3
<1> QED BY <1>1, <1>2, <1>3, <1>4 DEF ClientStep

LEMMA SettledNext ==
    ASSUME TypeOK, SettledInv, [Next]_vars
    PROVE  SettledInv'
<1> USE DEF SettledInv, CardOf
<1>a. /\ pc \in [Client -> PC] /\ req \in [Client -> Request]
      /\ \A q \in Client : req[q].card \in Card
      /\ fate \in [Card -> Fate]
    BY DEF TypeOK, Request
<1>1. Known'
    BY KnownNext
<1>2. SettledGone' /\ SettledNotResent'
    <2>1. CASE FinishFlush
        <3>1. UNCHANGED <<mem, req, revived>> /\ file' = mem /\ lock' = Free
            BY <2>1 DEF FinishFlush, EndFlush
        <3>2. \A c \in Settled' : c \in Settled \/ (lock \in Client /\ c = req[lock].card)
            BY <2>1 DEF FinishFlush, Settled
        <3>3. \A p \in Client : pc'[p] \in {pc[p], "idle"}
            BY <2>1 DEF FinishFlush
        <3>4. SettledGone'
            BY <3>1, <3>2, StoreAssumption DEF SettledGone
        <3>5. SettledNotResent'
            BY <3>1, <3>3 DEF SettledNotResent
        <3> QED BY <3>4, <3>5
    <2>2. ASSUME NEW p \in Client, NEW op \in Op, NEW c \in Card,
                 NEW s \in Hub \cup {Admin}, Click(p, op, c, s)
          PROVE  SettledGone' /\ SettledNotResent'
        <3>1. /\ UNCHANGED <<mem, file, lock, fate, revived>>
              /\ \A q \in Client \ {p} : req'[q] = req[q] /\ pc'[q] = pc[q]
              /\ pc[p] = "idle" /\ pc'[p] = "get"
            BY <2>2, <1>a DEF Click, Goto, storeVars
        <3>2. SettledGone'
            BY <3>1 DEF SettledGone, Settled
        <3>3. SettledNotResent'
            BY <3>1 DEF SettledNotResent
        <3> QED BY <3>2, <3>3
    <2>3. CASE CoreCrash
        <3>1. /\ mem' = Empty /\ lock' = Free
              /\ UNCHANGED <<file, fate, revived, req>>
              /\ \A p \in Client : pc'[p] \in {pc[p], "idle"}
            BY <2>3 DEF CoreCrash, CrashStore
        <3>2. SettledGone'
            BY <3>1, StoreAssumption DEF SettledGone, Settled, Empty
        <3>3. SettledNotResent'
            BY <3>1 DEF SettledNotResent
        <3> QED BY <3>2, <3>3
    <2>4. CASE WebCrash
        <3>1. /\ UNCHANGED <<mem, file, lock, fate, revived, req>>
              /\ \A p \in Client : \/ pc'[p] = pc[p]
                                   \/ pc[p] # "flush" /\ pc'[p] = "idle"
            BY <2>4 DEF WebCrash, storeVars
        <3>2. SettledGone'
            BY <3>1 DEF SettledGone, Settled
        <3>3. SettledNotResent'
            BY <3>1 DEF SettledNotResent
        <3> QED BY <3>2, <3>3
    <2>5. CASE UNCHANGED vars
        BY <2>5 DEF vars, storeVars, routeVars, SettledGone, SettledNotResent,
                    Settled
    <2> QED BY <2>1, <2>2, <2>3, <2>4, <2>5, SettledStoreStep,
               SettledClientStep DEF Next
<1> QED BY <1>1, <1>2

\* Once an approval or a rejection has been answered, a later request sends
\* the card's action again only if the file fallback's unlocked read and
\* unconditional merge put the card back: every other step, crash and restart
\* keeps it closed.
THEOREM SettledNotResentAlways == Spec => []SettledNotResent
<1>1. SettledInv => SettledNotResent
    BY DEF SettledInv
<1> QED BY <1>1, SettledInit, SettledNext, TypeCorrect, PTL DEF Spec

-----------------------------------------------------------------------------
(***************************************************************************)
(* Memory and file agree whenever the mutex is free.                       *)
(***************************************************************************)
LEMMA DiskInit == Init => MemoryOnDisk
BY DEF Init, StoreInit, MemoryOnDisk

\* A critical section that leaves the file alone may drop cards, or take them
\* as the store already has them; it may not add or change one.
LEMMA DiskSection ==
    ASSUME TypeOK, MemoryOnDisk, lock = Free, UNCHANGED <<file, now>>,
           merged \subseteq merged', mem' \in Store,
           \A c \in Card \ merged' :
               mem'[c] \in {NoCard, store_lock[c], file[c]}
    PROVE  MemoryOnDisk'
<1> SUFFICES ASSUME NEW c \in Card \ merged', Unexpired(mem')[c] # NoCard
             PROVE  file[c] = mem'[c]
    BY DEF MemoryOnDisk, Unexpired
<1>1. mem'[c] # NoCard /\ ~is_expired(mem'[c], now)
    BY DEF Unexpired
<1>2. CASE mem'[c] = store_lock[c]
    <2>1. CASE loaded
        <3>1. Unexpired(mem)[c] # NoCard
            BY <1>1, <1>2, <2>1 DEF store_lock, Unexpired
        <3> QED BY <3>1, <1>2, <2>1 DEF MemoryOnDisk, store_lock
    <2>2. CASE ~loaded
        BY <1>1, <1>2, <2>2 DEF store_lock, Unexpired
    <2> QED BY <2>1, <2>2 DEF TypeOK, StoreTypeOK
<1>3. CASE mem'[c] = file[c]
    BY <1>3
<1> QED BY <1>1, <1>2, <1>3

LEMMA DiskNext ==
    ASSUME TypeOK, MemoryOnDisk, [Next]_vars
    PROVE  MemoryOnDisk'
<1>a. /\ store_lock \in Store /\ file \in Store /\ mem \in Store
      /\ Unexpired(store_lock) \in Store /\ Unexpired(file) \in Store
    BY StoreLockType, UnexpiredType DEF TypeOK, StoreTypeOK
<1>b. TypeOK'
    BY NextType
<1>c. mem' \in Store
    BY <1>b DEF TypeOK, StoreTypeOK
<1>1. CASE StoreStep
    <2>1. merged' = merged
        BY <1>1 DEF StoreStep, routeVars
    <2>2. CASE Create
        <3>1. lock' = Turn
            BY <2>2 DEF Create, create_pending_in, BeginFlush
        <3> QED BY <3>1, StoreAssumption DEF MemoryOnDisk
    <2>3. CASE Attach
        <3> PICK c \in Card, k \in Conv : attach_conversation(c, k)
            BY <2>3 DEF Attach
        <3>1. CASE lock' = Turn
            BY <3>1, StoreAssumption DEF MemoryOnDisk
        <3>2. CASE lock' # Turn
            <4>1. mem' = store_lock /\ UNCHANGED <<file, now>> /\ lock = Free
                BY <3>2 DEF attach_conversation, SetMemory, BeginFlush
            <4> QED BY <4>1, <2>1, <1>c, DiskSection
        <3> QED BY <3>1, <3>2
    <2>4. CASE list_pending
        <3>1. lock = Free /\ UNCHANGED <<file, now>>
            BY <2>4 DEF list_pending
        <3>2. \A c \in Card : mem'[c] \in {NoCard, store_lock[c], file[c]}
            BY <2>4 DEF list_pending, SetMemory, Overlay, Unexpired
        <3> QED BY <3>1, <3>2, <2>1, <1>c, DiskSection
    <2>5. CASE Tick
        <3> SUFFICES ASSUME lock = Free, loaded, NEW c \in Card \ merged,
                            mem[c] # NoCard, ~is_expired(mem[c], now + 1)
                     PROVE  file[c] = mem[c]
            BY <2>5, <2>1 DEF Tick, MemoryOnDisk, Unexpired, is_expired
        <3>1. deadline_ms(mem[c]) \in Nat /\ now \in Nat
            BY <1>a, DeadlineType DEF Store, TypeOK, StoreTypeOK
        <3>2. ~is_expired(mem[c], now)
            BY <3>1 DEF is_expired
        <3> QED BY <3>2 DEF MemoryOnDisk, Unexpired
    <2> QED BY <1>1, <2>2, <2>3, <2>4, <2>5 DEF StoreStep
<1>2. CASE FinishFlush
    BY <1>2 DEF FinishFlush, EndFlush, MemoryOnDisk
<1>3. ASSUME NEW p \in Client, ClientStep(p) PROVE MemoryOnDisk'
    <2>1. CASE Get(p)
        <3>1. /\ lock = Free /\ UNCHANGED <<file, now, merged>>
              /\ mem' = Unexpired(store_lock)
            BY <2>1 DEF Get, SetMemory, history
        <3>2. \A c \in Card : mem'[c] \in {NoCard, store_lock[c]}
            BY <3>1 DEF Unexpired
        <3> QED BY <3>1, <3>2, <1>c, DiskSection
    <2>2. CASE Merge(p)
        <3>1. /\ lock = Free /\ UNCHANGED <<file, now>>
              /\ mem' = Overlay(snap[p], store_lock)
              /\ merged' = merged \cup Present(snap[p])
            BY <2>2 DEF Merge, SetMemory
        <3>2. \A c \in Card \ merged' : mem'[c] = store_lock[c]
            BY <3>1 DEF Overlay, Present
        <3> QED BY <3>1, <3>2, <1>c, DiskSection
    <2>3. CASE Remove(p)
        <3>1. /\ lock = Free /\ UNCHANGED <<now, merged>>
              /\ mem' = [store_lock EXCEPT ![CardOf(p)] = NoCard]
              /\ lock' = p \/ UNCHANGED file
            BY <2>3 DEF Remove, SetMemory, BeginFlush, history
        <3>2. \A c \in Card : mem'[c] \in {NoCard, store_lock[c]}
            BY <3>1, <1>a DEF Store
        <3>3. CASE lock' = p
            BY <3>3, StoreAssumption DEF MemoryOnDisk
        <3>4. CASE UNCHANGED file
            BY <3>1, <3>2, <3>4, <1>c, DiskSection
        <3> QED BY <3>1, <3>3, <3>4
    <2>4. CASE ~(Get(p) \/ Merge(p) \/ Remove(p))
        BY <1>3, <2>4 DEF ClientStep, Read, Send, Refuse, HubReject, Answer,
                          storeVars, history, MemoryOnDisk, Unexpired
    <2> QED BY <2>1, <2>2, <2>3, <2>4
<1>4. ASSUME NEW p \in Client, NEW op \in Op, NEW c \in Card,
             NEW s \in Hub \cup {Admin}, Click(p, op, c, s)
      PROVE  MemoryOnDisk'
    BY <1>4 DEF Click, storeVars, MemoryOnDisk, Unexpired
<1>5. CASE CoreCrash
    BY <1>5 DEF CoreCrash, CrashStore, MemoryOnDisk
<1>6. CASE WebCrash
    BY <1>6 DEF WebCrash, storeVars, MemoryOnDisk, Unexpired
<1>7. CASE UNCHANGED vars
    BY <1>7 DEF vars, storeVars, routeVars, MemoryOnDisk, Unexpired
<1> QED BY <1>1, <1>2, <1>3, <1>4, <1>5, <1>6, <1>7 DEF Next

\* Between two operations every approvable card of the map is in the file as
\* the map has it, but for what a fallback merge wrote since the last flush.
THEOREM MemoryOnDiskAlways == Spec => []MemoryOnDisk
<1> QED BY DiskInit, DiskNext, TypeCorrect, PTL DEF Spec

-----------------------------------------------------------------------------
(***************************************************************************)
(* One request at a time: the store and the routes implement ApprovalCards.*)
(* With a single request nothing can settle a card between the request's   *)
(* read of the file and its merge, so nothing is revived.                  *)
(***************************************************************************)
OneRequest == \A p, q \in Client : p = q

OneInv ==
    /\ SettledInv /\ revived = {}
    /\ \A p \in Client : pc[p] \in {"decide", "await"} => CardOf(p) \notin Settled
    /\ \A p \in Client : pc[p] = "merge" =>
           \A c \in Settled : snap[p][c] = NoCard

LEMMA OneInvNext ==
    ASSUME OneRequest, TypeOK, OneInv, [Next]_vars
    PROVE  OneInv'
<1> USE DEF OneInv, CardOf
<1>a. /\ pc \in [Client -> PC] /\ snap \in [Client -> Store]
      /\ stage \in [Client -> Stage]
      /\ view \in [Client -> PendingTool \cup {NoCard}]
      /\ \A p \in Client : req[p].card \in Card
      /\ Settled \subseteq Card
    BY DEF TypeOK, Request, Settled
<1>b. SettledInv'
    BY SettledNext
<1>c. \A c \in Settled : /\ Unexpired(store_lock)[c] = NoCard
                         /\ Unexpired(file)[c] = NoCard
    BY GoneEverywhere DEF SettledInv
<1>1. CASE StoreStep
    BY <1>1, <1>b, StoreStepFrame DEF routeVars, Settled
<1>2. CASE FinishFlush
    <2>1. UNCHANGED <<req, snap, revived>> /\ \A p \in Client : pc'[p] \in {pc[p], "idle"}
        BY <1>2 DEF FinishFlush
    <2>2. CASE lock \in Client
        <3>1. \A p \in Client : pc'[p] = "idle"
            BY <1>2, <2>2 DEF FinishFlush, OneRequest
        <3> QED BY <2>1, <3>1, <1>b
    <2>3. CASE lock \notin Client
        <3>1. Settled' = Settled
            BY <1>2, <2>3 DEF FinishFlush, Settled
        <3> QED BY <2>1, <3>1, <1>b
    <2> QED BY <2>2, <2>3
<1>3. ASSUME NEW p \in Client, ClientStep(p) PROVE OneInv'
    <2>1. UNCHANGED <<req, fate>> /\ Settled' = Settled
        BY <1>3 DEF ClientStep, Get, Read, Merge, Send, Refuse, HubReject,
                    Answer, Remove, storeVars, history, Settled
    <2>2. \A q \in Client : q = p
        BY DEF OneRequest
    <2>3. CASE Get(p)
        <3>1. /\ pc'[p] \in {"decide", "await"} =>
                     Unexpired(store_lock)[req[p].card] # NoCard
              /\ pc'[p] # "merge" /\ UNCHANGED revived
            BY <2>3, <1>a DEF Get, AfterGet, Goto, history
        <3> QED BY <3>1, <2>1, <2>2, <1>b, <1>c
    <2>4. CASE Read(p)
        <3>1. pc'[p] = "merge" /\ snap'[p] = Unexpired(file) /\ UNCHANGED revived
            BY <2>4, <1>a DEF Read, Goto, history
        <3> QED BY <3>1, <2>1, <2>2, <1>b, <1>c
    <2>5. CASE Merge(p)
        <3>1. /\ pc'[p] \in {"decide", "await"} => snap[p][req[p].card] # NoCard
              /\ pc'[p] # "merge" /\ pc[p] = "merge"
              /\ revived' = revived \cup (Settled \cap Present(snap[p]))
            BY <2>5, <1>a DEF Merge, AfterGet, Goto
        <3>2. revived' = {}
            BY <3>1 DEF Present
        <3> QED BY <3>1, <3>2, <2>1, <2>2, <1>b
    <2>6. CASE ~(Get(p) \/ Read(p) \/ Merge(p))
        <3>1. /\ UNCHANGED revived
              /\ pc'[p] \in {"decide", "await"} => pc[p] \in {"decide", "await"}
              /\ pc'[p] # "merge"
            BY <1>3, <2>6, <1>a DEF ClientStep, Send, Refuse, HubReject,
                   Answer, Remove, Goto, history
        <3> QED BY <3>1, <2>1, <2>2, <1>b
    <2> QED BY <2>3, <2>4, <2>5, <2>6
<1>4. ASSUME NEW p \in Client, NEW op \in Op, NEW c \in Card,
             NEW s \in Hub \cup {Admin}, Click(p, op, c, s)
      PROVE  OneInv'
    <2>1. /\ UNCHANGED <<fate, revived>>
          /\ \A q \in Client : pc'[q] = "get"
        BY <1>4, <1>a DEF Click, Goto, OneRequest
    <2> QED BY <2>1, <1>b
<1>5. CASE CoreCrash
    BY <1>5, <1>b DEF CoreCrash, Settled
<1>6. CASE WebCrash
    BY <1>6, <1>b DEF WebCrash, Settled
<1>7. CASE UNCHANGED vars
    BY <1>7, <1>b DEF vars, storeVars, routeVars, Settled
<1> QED BY <1>1, <1>2, <1>3, <1>4, <1>5, <1>6, <1>7 DEF Next

LEMMA CardsInit == Init => OneInv /\ Cards!Init
<1> SUFFICES ASSUME Init PROVE OneInv /\ Cards!Init
    OBVIOUS
<1>1. OneInv
    BY SettledInit DEF Init, OneInv, Settled
<1>2. Cards!Init
    BY DEF Init, StoreInit, Empty, Cards!Init, CardStatus
<1> QED BY <1>1, <1>2

LEMMA CardsNext ==
    ASSUME OneRequest, TypeOK, OneInv, [Next]_vars
    PROVE  [Cards!Next]_(Cards!vars)
<1> USE DEF OneInv, SettledInv, CardOf
<1>a. /\ minted \in [Card -> PendingTool \cup {NoCard}]
      /\ fate \in [Card -> Fate] /\ pc \in [Client -> PC]
      /\ \A p \in Client : req[p].card \in Card
      /\ now \in Nat
    BY DEF TypeOK, StoreTypeOK, Store, Request
<1>0. ASSUME UNCHANGED <<minted, fate, sent>>
      PROVE  [Cards!Next]_(Cards!vars)
    BY <1>0 DEF Cards!vars, CardStatus
<1>1. CASE StoreStep
    <2>1. UNCHANGED <<fate, sent>>
        BY <1>1 DEF StoreStep, routeVars
    <2>2. CASE Create
        <3> PICK c \in Card, p \in NewCards : create_pending_in(c, p)
            BY <2>2 DEF Create
        <3>1. /\ minted[c] = NoCard /\ minted' = [minted EXCEPT ![c] = p]
              /\ p # NoCard
            BY <1>a, NewCardType DEF create_pending_in
        <3>2. fate[c] = "open"
            BY <3>1 DEF Known, Settled
        <3>3. CardStatus[c] = "unborn" /\ CardStatus' = [CardStatus EXCEPT ![c] = "open"]
            BY <1>a, <2>1, <3>1, <3>2 DEF CardStatus
        <3> QED BY <2>1, <3>3 DEF Cards!Next, Cards!Mint
    <2>3. CASE ~Create
        <3>1. UNCHANGED minted
            BY <2>3, <1>1 DEF StoreStep, Attach, attach_conversation,
                              list_pending, Tick
        <3> QED BY <2>1, <3>1, <1>0
    <2> QED BY <2>2, <2>3
<1>2. CASE FinishFlush
    <2>1. UNCHANGED <<minted, sent>>
        BY <1>2 DEF FinishFlush, EndFlush
    <2>2. CASE lock \in Client
        <3> DEFINE c == req[lock].card
        <3>1. minted[c] # NoCard /\ c \in Card
            BY <1>a, <2>2 DEF Known, SettledGone
        <3>2. /\ fate'[c] # "open" /\ \A d \in Card : d # c => fate'[d] = fate[d]
            BY <1>a, <2>2, <1>2 DEF FinishFlush
        <3>3. CASE fate[c] = "open"
            <4>1. CardStatus[c] = "open" /\ CardStatus' = [CardStatus EXCEPT ![c] = "settled"]
                BY <2>1, <3>1, <3>2, <3>3 DEF CardStatus
            <4> QED BY <4>1, <3>1, <2>1 DEF Cards!Next, Cards!Settle
        <3>4. CASE fate[c] # "open"
            BY <2>1, <3>1, <3>2, <3>4 DEF CardStatus, Cards!vars
        <3> QED BY <3>3, <3>4
    <2>3. CASE lock \notin Client
        <3>1. fate' = fate
            BY <1>a, <1>2, <2>3 DEF FinishFlush
        <3> QED BY <2>1, <3>1, <1>0
    <2> QED BY <2>2, <2>3
<1>3. ASSUME NEW p \in Client, ClientStep(p)
      PROVE  [Cards!Next]_(Cards!vars)
    <2>1. UNCHANGED <<minted, fate>>
        BY <1>3 DEF ClientStep, Get, Read, Merge, Send, Refuse, HubReject,
                    Answer, Remove, storeVars, history
    <2>2. CASE Send(p)
        <3> DEFINE c == req[p].card
        <3>1. c \in Card /\ minted[c] # NoCard /\ fate[c] = "open"
            BY <1>a, <2>2 DEF Send, Known, Settled
        <3>2. CardStatus[c] = "open" /\ UNCHANGED CardStatus
            BY <2>1, <3>1 DEF CardStatus
        <3>3. sent' = [sent EXCEPT ![c] = @ + 1]
            BY <2>2 DEF Send
        <3> QED BY <3>1, <3>2, <3>3 DEF Cards!Next, Cards!SendAction
    <2>3. CASE ~Send(p)
        <3>1. UNCHANGED sent
            BY <1>3, <2>3 DEF ClientStep, Get, Read, Merge, Refuse, HubReject,
                              Answer, Remove
        <3> QED BY <2>1, <3>1, <1>0
    <2> QED BY <2>2, <2>3
<1>4. ASSUME NEW p \in Client, NEW op \in Op, NEW c \in Card,
             NEW s \in Hub \cup {Admin}, Click(p, op, c, s)
      PROVE  [Cards!Next]_(Cards!vars)
    BY <1>4, <1>0 DEF Click, storeVars
<1>5. CASE CoreCrash \/ WebCrash
    BY <1>5, <1>0 DEF CoreCrash, CrashStore, WebCrash, storeVars
<1>6. CASE UNCHANGED vars
    BY <1>6, <1>0 DEF vars, storeVars, routeVars
<1> QED BY <1>1, <1>2, <1>3, <1>4, <1>5, <1>6 DEF Next

\* With requests handled one at a time the routes and the store implement the
\* abstract card: sent only while open, settled for good -- through expiry,
\* eviction, fallback reads, torn files and restarts of both processes.
THEOREM OneRequestImplementsCards ==
    ASSUME OneRequest
    PROVE  Spec => CardsSpec
<1>1. TypeOK /\ OneInv /\ [Next]_vars => TypeOK' /\ OneInv'
    BY OneInvNext, NextType
<1>2. TypeOK /\ OneInv /\ [Next]_vars => [Cards!Next]_(Cards!vars)
    BY CardsNext
<1> QED BY <1>1, <1>2, CardsInit, InitType, PTL DEF Spec, CardsSpec, Cards!Spec

-----------------------------------------------------------------------------
(***************************************************************************)
(* The hub's guard, taken on a record read earlier, still holds when the   *)
(* card is sent or removed: a record's scope and kind never change.        *)
(***************************************************************************)
Vetted(p) == /\ minted[CardOf(p)].hub = req[p].scope
             /\ IsCommit(p) => minted[CardOf(p)].kind = "edit"

HubInv ==
    \A p \in Client :
        /\ IsHub(p)
        /\ \/ pc[p] \in {"await", "remove", "flush"}
           \/ pc[p] \in {"get", "read", "merge"} /\ stage[p] = "settle"
        => Vetted(p)

LEMMA HubNext ==
    ASSUME TypeOK, CopiesAsMinted, Known, HubInv, [Next]_vars
    PROVE  HubInv'
<1> USE DEF HubInv, IsHub, IsCommit, CardOf, Vetted
<1>a. /\ pc \in [Client -> PC] /\ stage \in [Client -> Stage]
      /\ req \in [Client -> Request]
      /\ view \in [Client -> PendingTool \cup {NoCard}]
    BY DEF TypeOK
<1>1. CASE StoreStep
    <2>1. UNCHANGED routeVars
        BY <1>1, StoreStepFrame
    <2>2. \A c \in Card : minted[c] # NoCard => minted'[c] = minted[c]
        <3>1. CASE Create
            <4> PICK c \in Card, p \in NewCards : create_pending_in(c, p)
                BY <3>1 DEF Create
            <4> QED BY DEF create_pending_in, TypeOK, StoreTypeOK, Store
        <3>2. CASE ~Create
            BY <3>2, <1>1 DEF StoreStep, Attach, attach_conversation,
                              list_pending, Tick
        <3> QED BY <3>1, <3>2
    <2>3. \A p \in Client : req[p].card \in Card
        BY <1>a DEF Request
    <2> QED BY <2>1, <2>2, <2>3 DEF routeVars, Known
<1>2. CASE FinishFlush
    BY <1>2 DEF FinishFlush, EndFlush
<1>3. ASSUME NEW p \in Client, ClientStep(p) PROVE HubInv'
    <2>1. UNCHANGED <<minted, req>>
        BY <1>3 DEF ClientStep, Get, Read, Merge, Send, Refuse, HubReject,
                    Answer, Remove, storeVars, history
    <2>2. \A q \in Client \ {p} : pc'[q] = pc[q] /\ stage'[q] = stage[q]
        BY <1>3, <1>a DEF ClientStep, Get, Read, Merge, Send, Refuse,
             HubReject, Answer, Remove, Goto, AfterGet, history
    <2>3. CASE Get(p) \/ Read(p) \/ Merge(p)
        <3>1. /\ pc[p] \in {"get", "read", "merge"} /\ stage'[p] = stage[p]
              /\ pc'[p] = "remove" => stage[p] = "settle"
              /\ pc'[p] \in {"read", "merge", "idle", "decide", "remove"}
            BY <2>3, <1>a DEF Get, Read, Merge, AfterGet, Goto
        <3> QED BY <3>1, <2>1, <2>2
    <2>4. CASE Send(p) \/ HubReject(p)
        <3>1. pc[p] = "decide" /\ OwnCard(p)
            BY <2>4 DEF Send, HubReject
        <3>2. minted[req[p].card] # NoCard /\ SameCall(view[p], minted[req[p].card])
            BY <3>1 DEF CopiesAsMinted
        <3>3. IsHub(p) /\ IsCommit(p) => view[p].kind = "edit"
            BY <2>4, <1>a DEF Send, HubReject, Request
        <3>4. IsHub(p) => Vetted(p)
            BY <3>1, <3>2, <3>3 DEF OwnCard, SameCall
        <3> QED BY <3>4, <2>1, <2>2
    <2>5. CASE Refuse(p) \/ Remove(p) \/ \E ok \in BOOLEAN : Answer(p, ok)
        <3>1. /\ pc[p] \in {"await", "remove"} \/ pc'[p] = "idle"
              /\ UNCHANGED req
            BY <2>5, <1>a DEF Refuse, Remove, Answer, Goto, history
        <3> QED BY <3>1, <2>1, <2>2
    <2> QED BY <1>3, <2>3, <2>4, <2>5 DEF ClientStep
<1>4. ASSUME NEW p \in Client, NEW op \in Op, NEW c \in Card,
             NEW s \in Hub \cup {Admin}, Click(p, op, c, s)
      PROVE  HubInv'
    <2>1. /\ UNCHANGED minted
          /\ \A q \in Client \ {p} : /\ req'[q] = req[q] /\ pc'[q] = pc[q]
                                     /\ stage'[q] = stage[q]
          /\ req'[p].op = op /\ pc'[p] = "get"
          /\ stage'[p] = "settle" => op = "reject"
        BY <1>4, <1>a DEF Click, Goto, storeVars
    <2> QED BY <2>1
<1>5. CASE CoreCrash
    BY <1>5 DEF CoreCrash, CrashStore
<1>6. CASE WebCrash
    BY <1>6 DEF WebCrash, storeVars
<1>7. CASE UNCHANGED vars
    BY <1>7 DEF vars, storeVars, routeVars
<1> QED BY <1>1, <1>2, <1>3, <1>4, <1>5, <1>6, <1>7 DEF Next

\* A hub visitor's request never sends or removes a card of another scope,
\* nor sends an order or a job change.
THEOREM HubOwnCardsAlways == Spec => []HubOwnCards
<1>1. Init => HubInv
    BY DEF Init, HubInv
<1>2. HubInv => HubOwnCards
    BY DEF HubInv, HubOwnCards, Vetted
<1>3. SettledInv => Known
    BY DEF SettledInv
<1> QED BY <1>1, <1>2, <1>3, HubNext, CopiesInit, CopiesNext, SettledInit,
           SettledNext, TypeCorrect, PTL DEF Spec

-----------------------------------------------------------------------------
(* Every step of a request brings it nearer to its answer. *)

\* The steps a request has at most before it, at each place; those of the
\* route's own look at the card come on top of those of the store's.
Left == [l \in PC |->
    CASE l = "idle" -> 0
      [] l = "flush" -> 1
      [] l = "remove" -> 2
      [] l = "merge" -> 3
      [] l = "read" -> 4
      [] l = "get" -> 5
      [] l = "await" -> 6
      [] l = "decide" -> 7]

StepsLeft(l, s) == Left[l] + (IF s = "look" /\ l \in {"get", "read", "merge"} THEN 5 ELSE 0)

\* In place, about to be used for the next click, or nearer.
Nearer(p) ==
    \/ /\ pc'[p] = pc[p]
       /\ StepsLeft(pc'[p], stage'[p]) = StepsLeft(pc[p], stage[p])
    \/ pc[p] = "idle" /\ pc'[p] = "get"
    \/ StepsLeft(pc'[p], stage'[p]) < StepsLeft(pc[p], stage[p])

LEMMA LeftIsNatural ==
    ASSUME NEW l \in PC, NEW s \in Stage
    PROVE  StepsLeft(l, s) \in 0..10
BY DEF StepsLeft, Left, PC

\* What each place is worth, for the route's own look and for what follows it.
LEMMA Worth ==
    /\ \A s \in Stage :
           /\ StepsLeft("idle", s) = 0 /\ StepsLeft("flush", s) = 1
           /\ StepsLeft("remove", s) = 2
           /\ StepsLeft("await", s) = 6 /\ StepsLeft("decide", s) = 7
           /\ StepsLeft("merge", s) = IF s = "look" THEN 8 ELSE 3
           /\ StepsLeft("read", s) = IF s = "look" THEN 9 ELSE 4
           /\ StepsLeft("get", s) = IF s = "look" THEN 10 ELSE 5
    /\ "settle" \in Stage
BY DEF StepsLeft, Left, PC, Stage

\* One request goes to l, perhaps at another stage, and the others stay.
LEMMA NearerAlone ==
    ASSUME TypeOK, NEW p \in Client, NEW l \in PC, Goto(p, l),
           \A q \in Client \ {p} : stage'[q] = stage[q],
           StepsLeft(l, stage'[p]) < StepsLeft(pc[p], stage[p])
    PROVE  \A q \in Client : Nearer(q)
<1>1. pc'[p] = l /\ \A q \in Client \ {p} : pc'[q] = pc[q] BY DEF TypeOK, Goto
<1> QED BY <1>1 DEF Nearer

LEMMA AfterGetNearer ==
    ASSUME TypeOK, NEW p \in Client, NEW r, AfterGet(p, r), stage' = stage,
           pc[p] \in {"get", "merge"}
    PROVE  \A q \in Client : Nearer(q)
<1>0. stage[p] \in Stage BY DEF TypeOK
<1>1. PICK l \in {"decide", "remove", "idle"} :
          Goto(p, l) /\ (l = "decide" => stage[p] = "look")
  BY <1>0 DEF AfterGet, Stage
<1>2. StepsLeft(l, stage[p]) < StepsLeft(pc[p], stage[p]) BY <1>0, <1>1, Worth
<1>3. l \in PC BY DEF PC
<1> QED BY <1>1, <1>2, <1>3, NearerAlone

LEMMA ClientStepNearer ==
    ASSUME TypeOK, NEW p \in Client, ClientStep(p)
    PROVE  \A q \in Client : Nearer(q)
<1>0. stage[p] \in Stage /\ stage \in [Client -> Stage] BY DEF TypeOK
<1>1. CASE Get(p)
  <2>1. CASE Goto(p, "read")
    <3>1. pc[p] = "get" /\ stage' = stage BY <1>1 DEF Get
    <3>2. StepsLeft("read", stage[p]) < StepsLeft("get", stage[p]) BY <1>0, Worth
    <3> QED BY <2>1, <3>1, <3>2, NearerAlone DEF PC
  <2>2. CASE ~Goto(p, "read")
    <3>1. PICK r : AfterGet(p, r) BY <1>1, <2>2 DEF Get
    <3> QED BY <1>1, <3>1, AfterGetNearer DEF Get
  <2> QED BY <2>1, <2>2
<1>2. CASE Read(p)
  <2>1. StepsLeft("merge", stage[p]) < StepsLeft("read", stage[p]) BY <1>0, Worth
  <2> QED BY <1>2, <2>1, NearerAlone DEF Read, PC
<1>3. CASE Merge(p)
  <2>1. PICK r : AfterGet(p, r) BY <1>3 DEF Merge
  <2> QED BY <1>3, <2>1, AfterGetNearer DEF Merge
<1>4. CASE Send(p)
  <2>1. StepsLeft("await", stage[p]) < StepsLeft("decide", stage[p]) BY <1>0, Worth
  <2> QED BY <1>4, <2>1, NearerAlone DEF Send, PC
<1>5. CASE Refuse(p)
  <2>1. StepsLeft("idle", stage[p]) < StepsLeft("decide", stage[p]) BY <1>0, Worth
  <2> QED BY <1>5, <2>1, NearerAlone DEF Refuse, PC
<1>6. CASE HubReject(p)
  <2>1. StepsLeft("get", "settle") < StepsLeft("decide", stage[p]) BY <1>0, Worth
  <2> QED BY <1>0, <1>6, <2>1, NearerAlone DEF HubReject, PC
<1>7. ASSUME NEW ok \in BOOLEAN, Answer(p, ok) PROVE \A q \in Client : Nearer(q)
  <2>1. /\ StepsLeft("get", "settle") < StepsLeft("await", stage[p])
        /\ StepsLeft("idle", stage[p]) < StepsLeft("await", stage[p])
    BY <1>0, Worth
  <2>2. CASE Goto(p, "get") /\ stage' = [stage EXCEPT ![p] = "settle"]
    BY <1>0, <1>7, <2>1, <2>2, NearerAlone DEF Answer, PC
  <2>3. CASE Goto(p, "idle") /\ stage' = stage
    BY <1>7, <2>1, <2>3, NearerAlone DEF Answer, PC
  <2> QED BY <1>7, <2>2, <2>3 DEF Answer
<1>8. CASE Remove(p)
  <2>1. PICK l \in {"flush", "idle"} : Goto(p, l) BY <1>8 DEF Remove
  <2>2. StepsLeft(l, stage[p]) < StepsLeft("remove", stage[p]) BY <1>0, Worth
  <2> QED BY <1>8, <2>1, <2>2, NearerAlone DEF Remove, PC
<1> QED BY <1>1, <1>2, <1>3, <1>4, <1>5, <1>6, <1>7, <1>8 DEF ClientStep

\* A request has at most ten steps to its answer and comes nearer to it with
\* each, whatever the other requests, the store, the deadlines and the crashes of
\* either process do: no look at the card, and no merge, is ever done over.
THEOREM EveryStepIsNearer ==
    Spec => /\ [](\A p \in Client : StepsLeft(pc[p], stage[p]) \in 0..10)
            /\ [][\A p \in Client : Nearer(p)]_vars
<1>1. TypeOK => \A p \in Client : StepsLeft(pc[p], stage[p]) \in 0..10
  BY LeftIsNatural DEF TypeOK
<1>2. TypeOK /\ [Next]_vars => [\A p \in Client : Nearer(p)]_vars
  <2> SUFFICES ASSUME TypeOK, Next, NEW p \in Client PROVE Nearer(p)
    OBVIOUS
  <2>0. pc[p] \in PC /\ stage[p] \in Stage BY DEF TypeOK
  <2>1. CASE StoreStep BY <2>1 DEF StoreStep, routeVars, Nearer
  <2>2. CASE FinishFlush
    BY <2>0, <2>2 DEF FinishFlush, Nearer, StepsLeft, Left, PC
  <2>3. ASSUME NEW q \in Client, ClientStep(q) PROVE Nearer(p)
    BY <2>3, ClientStepNearer
  <2>4. ASSUME NEW q \in Client, NEW op \in Op, NEW c \in Card, NEW s \in Hub \cup {Admin},
               Click(q, op, c, s)
        PROVE  Nearer(p)
    BY <2>4 DEF Click, Goto, Nearer, TypeOK
  <2>5. CASE CoreCrash BY <2>0, <2>5 DEF CoreCrash, Nearer, StepsLeft, Left, PC
  <2>6. CASE WebCrash
    BY <2>0, <2>6 DEF WebCrash, Nearer, StepsLeft, Left, PC, Stage
  <2> QED BY <2>1, <2>2, <2>3, <2>4, <2>5, <2>6 DEF Next
<1> QED BY <1>1, <1>2, TypeCorrect, InitType, NextType, PTL DEF Spec
=============================================================================
