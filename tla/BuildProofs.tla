----------------------------- MODULE BuildProofs -----------------------------
(***************************************************************************)
(* Proofs about BuildSession and BuildTurns, for any conversations,        *)
(* visitors, modes and number of concurrent turns, and any limits: the     *)
(* types, and every safety invariant the run checks.                       *)
(*                                                                         *)
(* Most of it is about records.  A record can be in the map, in the file   *)
(* or in the copy of the file a fallback has read, and travels between the *)
(* three as a whole: what holds of every record in one of them (RecordOK)  *)
(* is an invariant whichever of them the next restart or fallback reads.   *)
(***************************************************************************)
EXTENDS BuildTurns, TLAPS

Far == [conv_id : Scope \cup {NoConv}, position : 0..4, over : BOOLEAN]

\* What every record has of a session whose user gave k answers and that was
\* started in scope h.
RecordOK(r, k, h) ==
    /\ r \in Record
    /\ r.mode = "modify" => r.step \notin {"design", "refine"}
    /\ ~r.auto => Answers(r) <= k
    /\ h \in Hub \/ r.conv_id \in Hub => r.conv_id = h

\* A record that is as far as w.
SeenOK(r, w) ==
    /\ Position(r) >= w.position
    /\ w.over => r.status # "active"
    /\ w.conv_id # NoConv => r.conv_id = w.conv_id

MapOK(m) ==
    /\ m \in Store
    /\ \A s \in Present(m) : s <= created /\ RecordOK(m[s], replies[s], home[s])

SeenIn(m) == \A s \in Present(m) \ merged : SeenOK(m[s], shown[s])

OnDisk(m) == ~flushing => \A s \in Present(m) \ merged : file[s] = m[s]

StoreInv ==
    /\ StoreTypeOK
    /\ MapOK(mem) /\ MapOK(file)
    /\ SeenIn(mem) /\ SeenIn(file)
    /\ loaded => OnDisk(mem)
    /\ \A s \in Session : s > created => shown[s] = NotSeen

-----------------------------------------------------------------------------
(* Records. *)

LEMMA PositionRange ==
    ASSUME NEW r \in Record
    PROVE  Position(r) \in 0..4
<1>1. r.step \in BuildStep BY DEF Record
<1> QED BY <1>1 DEF Position, BuildStep

LEMMA AnswersRange ==
    ASSUME NEW r \in Record
    PROVE  Answers(r) \in Nat /\ Answers(r) >= Position(r)
BY PositionRange DEF Answers

LEMMA SeenType ==
    ASSUME NEW s \in Session, NEW r \in Record, shown[s] \in Far
    PROVE  Seen(s, r) \in Far
<1>1. Position(r) \in 0..4 BY PositionRange
<1>2. r.conv_id \in Scope \cup {NoConv} BY DEF Record
<1> QED BY <1>1, <1>2 DEF Seen, Far

\* A record that comes after one that was as far as seen is as far as seen now.
LEMMA SeenAfter ==
    ASSUME NEW s \in Session, NEW r0 \in Record, NEW r \in Record,
           shown \in [Session -> Far], SeenOK(r0, shown[s]),
           Position(r) >= Position(r0),
           r0.status # "active" => r.status # "active",
           r0.conv_id # NoConv => r.conv_id = r0.conv_id
    PROVE  SeenOK(r, Seen(s, r))
<1>1. /\ Position(r) \in Nat /\ Position(r0) \in Nat
      /\ shown[s].position \in Nat
  BY PositionRange DEF Far
<1>2. Position(r) >= Seen(s, r).position BY <1>1 DEF Seen, SeenOK
<1>3. Seen(s, r).over => r.status # "active" BY DEF Seen, SeenOK
<1>4. Seen(s, r).conv_id # NoConv => r.conv_id = Seen(s, r).conv_id
  BY DEF Seen, SeenOK
<1> QED BY <1>2, <1>3, <1>4 DEF SeenOK

-----------------------------------------------------------------------------
(* The map that store_lock gives. *)

LEMMA Locked ==
    ASSUME StoreInv
    PROVE  /\ MapOK(store_lock) /\ SeenIn(store_lock) /\ OnDisk(store_lock)
           /\ store_lock \in Store
<1>1. CASE loaded
  BY <1>1 DEF StoreInv, store_lock, MapOK
<1>2. CASE ~loaded
  <2>1. store_lock = Unexpired(file) BY <1>2 DEF store_lock
  <2>2. /\ file \in Store
        /\ \A s \in Session : store_lock[s] \in {file[s], NoSession}
        /\ store_lock \in Store
    BY <2>1 DEF StoreInv, StoreTypeOK, Unexpired, Store
  <2>3. \A s \in Present(store_lock) : s \in Present(file) /\ store_lock[s] = file[s]
    BY <2>2 DEF Present
  <2> QED BY <2>2, <2>3 DEF StoreInv, MapOK, SeenIn, OnDisk
<1> QED BY <1>1, <1>2

\* Time only adds answers and sessions.
Grows ==
    /\ created' >= created /\ created' \in Nat
    /\ \A s \in Session : replies'[s] >= replies[s] /\ replies'[s] \in Nat
    /\ \A s \in 1..created : home'[s] = home[s]

LEMMA RecordGrows ==
    ASSUME StoreTypeOK, Grows, NEW s \in Session, s <= created,
           NEW r, RecordOK(r, replies[s], home[s])
    PROVE  RecordOK(r, replies'[s], home'[s])
<1>1. Answers(r) \in Nat BY AnswersRange DEF RecordOK
<1>2. replies[s] \in Nat /\ replies'[s] \in Nat /\ replies'[s] >= replies[s]
  BY DEF StoreTypeOK, Grows
<1>3. home'[s] = home[s] BY SessionAssumption DEF StoreTypeOK, Grows, Session
<1> QED BY <1>1, <1>2, <1>3 DEF RecordOK

LEMMA MapGrows ==
    ASSUME StoreTypeOK, Grows, NEW m, MapOK(m)
    PROVE  /\ m \in Store
           /\ \A s \in Present(m) : s <= created' /\ RecordOK(m[s], replies'[s], home'[s])
<1>1. \A s \in Present(m) : s \in Session BY DEF Present
<1>2. \A s \in Present(m) : s <= created'
  BY <1>1, SessionAssumption DEF MapOK, Grows, StoreTypeOK, Session
<1> QED BY <1>1, <1>2, RecordGrows DEF MapOK

-----------------------------------------------------------------------------
(* What a critical section does to the store. *)

\* Nothing but forgetting sessions and counting answers.
Thins ==
    /\ ~flushing
    /\ mem' \in Store
    /\ \A d \in Session : mem'[d] \in {store_lock[d], NoSession}
    /\ loaded' = TRUE
    /\ replies' \in [Session -> Nat] /\ \A d \in Session : replies'[d] >= replies[d]
    /\ UNCHANGED <<file, flushing, created, now, old, spent, home, shown, merged>>

\* One record takes another's place.
Rewrites(s, r) ==
    /\ mem' \in [Session -> Record \cup {NoSession}]
    /\ mem'[s] = r
    /\ \A d \in Session \ {s} : mem'[d] \in {store_lock[d], NoSession}
    /\ loaded' = TRUE /\ file' = Empty /\ flushing' = TRUE
    /\ shown' = [shown EXCEPT ![s] = Seen(s, r)]
    /\ replies' \in [Session -> Nat] /\ \A d \in Session : replies'[d] >= replies[d]
    /\ now' \in {now, now + 1}
    /\ UNCHANGED <<old, spent, merged>>

\* r may come after r0, a record of s.
Follows(s, r0, r) ==
    /\ r \in Record
    /\ Position(r) >= Position(r0)
    /\ r0.status # "active" => r.status # "active"
    /\ r0.conv_id # NoConv => r.conv_id = r0.conv_id
    /\ r.mode = "modify" => r.step \notin {"design", "refine"}
    /\ ~r.auto => Answers(r) <= replies'[s]
    /\ home[s] \in Hub \/ r.conv_id \in Hub => r.conv_id = home[s]

LEMMA EmptyOK == MapOK(Empty) /\ SeenIn(Empty) /\ Present(Empty) = {}
BY DEF MapOK, SeenIn, Present, Empty, Store

LEMMA EmptyOKNext == MapOK(Empty)' /\ SeenIn(Empty)'
BY DEF MapOK, SeenIn, Present, Empty, Store

LEMMA ThinsGrow ==
    ASSUME StoreInv, Thins
    PROVE  Grows
BY SessionAssumption DEF StoreInv, StoreTypeOK, Thins, Grows

LEMMA ThinsInv ==
    ASSUME StoreInv, Thins
    PROVE  StoreInv'
<1>1. Grows BY ThinsGrow
<1>2. /\ MapOK(store_lock) /\ SeenIn(store_lock) /\ OnDisk(store_lock)
  BY Locked
<1>3. StoreTypeOK' BY DEF StoreInv, StoreTypeOK, Thins
<1>4. \A s \in Present(mem') : s \in Present(store_lock) /\ mem'[s] = store_lock[s]
  BY DEF Thins, Present
<1>5. MapOK(mem)'
  BY <1>1, <1>2, <1>4, MapGrows DEF StoreInv, Thins, MapOK, Present
<1>6. MapOK(file)' BY <1>1, MapGrows DEF StoreInv, Thins, MapOK, Present
<1>7. SeenIn(mem)' BY <1>2, <1>4 DEF SeenIn, Thins, Present
<1>8. SeenIn(file)' BY DEF StoreInv, SeenIn, Thins, Present
<1>9. OnDisk(mem)' BY <1>2, <1>4 DEF OnDisk, Thins, Present
<1>10. \A d \in Session : d > created' => shown'[d] = NotSeen
  BY DEF Thins, StoreInv
<1> QED BY <1>3, <1>5, <1>6, <1>7, <1>8, <1>9, <1>10 DEF StoreInv

\* A section that writes record r of s and changes no other.
LEMMA RewritesInv ==
    ASSUME StoreInv, NEW s \in Session, NEW r, Rewrites(s, r), Grows,
           RecordOK(r, replies'[s], home'[s]),
           s \notin merged => SeenOK(r, Seen(s, r)),
           created' \in 0..MaxSessions, s <= created',
           home' \in [Session -> Scope \cup {NoConv}]
    PROVE  StoreInv'
<1>1. created \in Nat /\ created' \in Nat /\ created <= created'
  BY SessionAssumption DEF StoreInv, StoreTypeOK, Grows
<1>2. /\ MapOK(store_lock) /\ SeenIn(store_lock)
  BY Locked
<1>3. r \in Record BY DEF RecordOK
<1>4. StoreTypeOK'
  <2>1. mem' \in Store BY DEF Rewrites, Store
  <2>2. file' \in Store BY DEF Rewrites, Empty, Store
  <2>3. shown \in [Session -> Far] BY DEF StoreInv, StoreTypeOK, Far
  <2>4. shown' \in [Session -> Far] BY <1>3, <2>3, SeenType DEF Rewrites
  <2>5. old' \in 0..created' BY <1>1 DEF Rewrites, StoreInv, StoreTypeOK
  <2>6. now' \in Nat /\ spent' \in 0..now' BY DEF Rewrites, StoreInv, StoreTypeOK
  <2> QED BY <2>1, <2>2, <2>4, <2>5, <2>6 DEF Rewrites, StoreInv, StoreTypeOK, Far
<1>5. \A d \in Present(mem') : d \in Session /\
          (d # s => d \in Present(store_lock) /\ mem'[d] = store_lock[d])
  BY DEF Rewrites, Present
<1>6. MapOK(mem)'
  <2>1. ASSUME NEW d \in Present(mem')
        PROVE  d <= created' /\ RecordOK(mem'[d], replies'[d], home'[d])
    <3>1. CASE d = s BY <3>1 DEF Rewrites
    <3>2. CASE d # s
      BY <1>1, <1>2, <1>5, <3>2, MapGrows DEF StoreInv
    <3> QED BY <3>1, <3>2
  <2> QED BY <1>4, <2>1 DEF StoreTypeOK, MapOK, Present
<1>7. SeenIn(mem)'
  <2>1. ASSUME NEW d \in Present(mem') \ merged PROVE SeenOK(mem'[d], shown'[d])
    <3>1. CASE d = s
      BY <3>1 DEF Rewrites, StoreInv, StoreTypeOK
    <3>2. CASE d # s
      <4>1. SeenOK(store_lock[d], shown[d]) /\ mem'[d] = store_lock[d] /\ d \in Session
        BY <1>2, <1>5, <3>2 DEF SeenIn
      <4>2. shown'[d] = shown[d] BY <3>2, <4>1 DEF Rewrites, StoreInv, StoreTypeOK
      <4> QED BY <4>1, <4>2
    <3> QED BY <3>1, <3>2
  <2> QED BY <2>1 DEF SeenIn, Present, Rewrites
<1>8. MapOK(file)' /\ SeenIn(file)'
  BY EmptyOKNext DEF Rewrites, MapOK, SeenIn, Present, Empty
<1>9. OnDisk(mem)' BY DEF OnDisk, Rewrites
<1>10. \A d \in Session : d > created' => shown'[d] = NotSeen
  <2>1. \A d \in Session : d > created' => d # s /\ d > created
    BY <1>1 DEF Session
  <2> QED BY <2>1 DEF Rewrites, StoreInv, StoreTypeOK
<1> QED BY <1>4, <1>6, <1>7, <1>8, <1>9, <1>10 DEF StoreInv

\* A section that takes a record of the map one step further.
LEMMA FollowsInv ==
    ASSUME StoreInv, NEW s \in Session, store_lock[s] # NoSession,
           NEW r, Rewrites(s, r), Follows(s, store_lock[s], r),
           UNCHANGED <<created, home>>
    PROVE  StoreInv' /\ Grows
<1>1. Grows
  BY SessionAssumption DEF StoreInv, StoreTypeOK, Rewrites, Grows
<1>2. /\ s <= created /\ RecordOK(store_lock[s], replies[s], home[s])
      /\ s \notin merged => SeenOK(store_lock[s], shown[s])
  BY Locked DEF MapOK, SeenIn, Present
<1>3. r \in Record /\ store_lock[s] \in Record BY <1>2 DEF RecordOK, Follows
<1>4. RecordOK(r, replies'[s], home'[s]) BY <1>3 DEF RecordOK, Follows
<1>5. s \notin merged => SeenOK(r, Seen(s, r))
  <2>1. shown \in [Session -> Far] BY DEF StoreInv, StoreTypeOK, Far
  <2> QED BY <1>2, <1>3, <2>1, SeenAfter DEF Follows
<1>6. /\ created' \in 0..MaxSessions /\ s <= created'
      /\ home' \in [Session -> Scope \cup {NoConv}]
  BY <1>2 DEF StoreInv, StoreTypeOK
<1> QED BY <1>1, <1>4, <1>5, <1>6, RewritesInv
-----------------------------------------------------------------------------
(* The sections one by one. *)

\* The first half of a section that rewrites session s of the map.
LEMMA WriteIs ==
    ASSUME StoreInv, NEW s \in Session, NEW r \in Record, Write(s, r),
           replies' \in [Session -> Nat], \A d \in Session : replies'[d] >= replies[d],
           now' \in {now, now + 1}, UNCHANGED <<old, spent, merged>>
    PROVE  Rewrites(s, r)
<1>1. store_lock \in Store BY Locked
<1> QED BY <1>1 DEF Write, Keep, Flush, Rewrites, Store

LEMMA CleanupThins ==
    ASSUME StoreInv, cleanup_expired
    PROVE  Thins
<1>1. store_lock \in Store BY Locked
<1> QED BY <1>1 DEF cleanup_expired, Keep, NoFlush, Unexpired, Thins, StoreInv,
                    StoreTypeOK, Store

LEMMA RefuseThins ==
    ASSUME StoreInv, NEW s, refuse_advance(s)
    PROVE  Thins
<1>1. store_lock \in Store BY Locked
<1> QED BY <1>1 DEF refuse_advance, Keep, NoFlush, Thins, StoreInv, StoreTypeOK, Store

\* What the sections that follow know of the record they find.
LEMMA Found ==
    ASSUME StoreInv, NEW s \in Session, store_lock[s] # NoSession
    PROVE  /\ store_lock[s] \in Record
           /\ RecordOK(store_lock[s], replies[s], home[s])
           /\ s <= created
BY Locked DEF MapOK, Present, RecordOK

\* A section that neither moves the build nor gives it away.
LEMMA StayFollows ==
    ASSUME NEW s \in Session, NEW r0 \in Record, NEW r \in Record,
           RecordOK(r0, replies[s], home[s]), replies[s] \in Nat,
           replies'[s] \in Nat, replies'[s] >= replies[s],
           r.step = r0.step, r.mode = r0.mode, r.conv_id = r0.conv_id,
           r0.status # "active" => r.status # "active",
           \/ r.auto
           \/ /\ r.auto = r0.auto
              /\ r.status = "active" /\ ~r.awaiting
                    => \/ r0.status = "active" /\ ~r0.awaiting
                       \/ replies'[s] = replies[s] + 1
    PROVE  Follows(s, r0, r)
<1>1. Position(r) = Position(r0) /\ Position(r) \in Nat
  BY PositionRange DEF Position
<1>2. ~r.auto => Answers(r) <= replies'[s]
  <2>1. SUFFICES ASSUME ~r.auto PROVE Answers(r) <= replies'[s]
    OBVIOUS
  <2>2. Answers(r0) <= replies[s] BY <2>1 DEF RecordOK
  <2> QED BY <1>1, <2>1, <2>2 DEF Answers
<1> QED BY <1>1, <1>2 DEF Follows, RecordOK

\* Session s becomes q, if there is one.
Touches(s, q) ==
    \/ store_lock[s] = NoSession /\ Thins
    \/ store_lock[s] # NoSession /\ Rewrites(s, q)

LEMMA UpdateInv ==
    ASSUME StoreInv, NEW s \in Session, NEW r, update_session(s, r),
           store_lock[s] # NoSession =>
               Follows(s, store_lock[s], [r EXCEPT !.updated = now + 1])
    PROVE  StoreInv' /\ Grows /\ Touches(s, [r EXCEPT !.updated = now + 1])
<1>1. replies' = replies /\ replies \in [Session -> Nat]
  BY DEF update_session, StoreInv, StoreTypeOK
<1>2. CASE store_lock[s] = NoSession
  <2>1. store_lock \in Store BY Locked
  <2>2. Thins
    BY <1>1, <1>2, <2>1 DEF update_session, Keep, NoFlush, Thins, Store
  <2> QED BY <1>2, <2>2, ThinsInv, ThinsGrow DEF Touches
<1>3. CASE store_lock[s] # NoSession
  <2> DEFINE q == [r EXCEPT !.updated = now + 1]
  <2>1. q \in Record BY <1>3 DEF Follows
  <2>2. /\ Write(s, q) /\ now' = now + 1
        /\ UNCHANGED <<created, old, spent, home, replies, merged>>
    BY <1>3 DEF update_session
  <2> HIDE DEF q
  <2>3. Rewrites(s, q) BY <1>1, <2>1, <2>2, WriteIs
  <2>4. Follows(s, store_lock[s], q) BY <1>3 DEF q
  <2>5. StoreInv' /\ Grows BY <1>3, <2>2, <2>3, <2>4, FollowsInv
  <2> QED BY <1>3, <2>3, <2>5 DEF q, Touches
<1> QED BY <1>2, <1>3

\* An update of the kind set_tier, set_auto_advance, set_step_output and
\* finish_session make.
LEMMA StayUpdateInv ==
    ASSUME StoreInv, NEW s \in Session, NEW r, update_session(s, r),
           store_lock[s] # NoSession =>
               /\ r \in Record
               /\ r.step = store_lock[s].step /\ r.mode = store_lock[s].mode
               /\ r.conv_id = store_lock[s].conv_id
               /\ r.awaiting = store_lock[s].awaiting
               /\ r.status \in {store_lock[s].status, "completed", "abandoned"}
               /\ r.auto \in {store_lock[s].auto, TRUE}
    PROVE  StoreInv' /\ Grows /\ Touches(s, [r EXCEPT !.updated = now + 1])
<1>1. ASSUME store_lock[s] # NoSession
      PROVE  Follows(s, store_lock[s], [r EXCEPT !.updated = now + 1])
  <2> DEFINE r0 == store_lock[s]
             q  == [r EXCEPT !.updated = now + 1]
  <2>1. r0 \in Record /\ RecordOK(r0, replies[s], home[s]) BY <1>1, Found
  <2>2. now + 1 \in Nat BY DEF StoreInv, StoreTypeOK
  <2>3. /\ q \in Record
        /\ q.step = r0.step /\ q.mode = r0.mode /\ q.conv_id = r0.conv_id
        /\ q.awaiting = r0.awaiting /\ q.status = r.status /\ q.auto = r.auto
    BY <1>1, <2>2 DEF Record
  <2>4. replies' = replies /\ replies[s] \in Nat
    BY DEF update_session, StoreInv, StoreTypeOK
  <2>5. q.status \in {r0.status, "completed", "abandoned"} /\ q.auto \in {r0.auto, TRUE}
    BY <1>1, <2>3
  <2>6. q.auto \/ q.auto = r0.auto BY <2>5
  <2> HIDE DEF q, r0
  <2>7. Follows(s, r0, q) BY <2>1, <2>3, <2>4, <2>5, <2>6, StayFollows
  <2> QED BY <2>7 DEF q, r0
<1> QED BY <1>1, UpdateInv

LEMMA SetTierInv ==
    ASSUME StoreInv, NEW s \in Session, set_tier(s)
    PROVE  StoreInv' /\ Grows /\ Touches(s, [store_lock[s] EXCEPT !.updated = now + 1])
BY Found, StayUpdateInv DEF set_tier, Record

LEMMA SetAutoInv ==
    ASSUME StoreInv, NEW s \in Session, set_auto_advance(s)
    PROVE  /\ StoreInv' /\ Grows
           /\ Touches(s, [[store_lock[s] EXCEPT !.auto = TRUE] EXCEPT !.updated = now + 1])
<1>1. store_lock[s] # NoSession =>
        LET r == [store_lock[s] EXCEPT !.auto = TRUE]
        IN  /\ r \in Record
            /\ r.step = store_lock[s].step /\ r.mode = store_lock[s].mode
            /\ r.conv_id = store_lock[s].conv_id
            /\ r.awaiting = store_lock[s].awaiting
            /\ r.status = store_lock[s].status /\ r.auto = TRUE
  BY Found DEF Record
<1> QED BY <1>1, StayUpdateInv DEF set_auto_advance

Recorded(r) == [r EXCEPT !.outputs = r.outputs \cup {r.step}]

LEMMA SetOutputInv ==
    ASSUME StoreInv, NEW s \in Session, set_step_output(s)
    PROVE  /\ StoreInv' /\ Grows
           /\ Touches(s, [Recorded(store_lock[s]) EXCEPT !.updated = now + 1])
<1>1. store_lock[s] # NoSession =>
        LET r == Recorded(store_lock[s])
        IN  /\ r \in Record
            /\ r.step = store_lock[s].step /\ r.mode = store_lock[s].mode
            /\ r.conv_id = store_lock[s].conv_id
            /\ r.awaiting = store_lock[s].awaiting
            /\ r.status = store_lock[s].status /\ r.auto = store_lock[s].auto
  BY Found DEF Record, Recorded
<1>2. update_session(s, Recorded(store_lock[s]))
  BY DEF set_step_output, Recorded
<1> QED BY <1>1, <1>2, StayUpdateInv

LEMMA FinishInv ==
    ASSUME StoreInv, NEW s \in Session, NEW status \in {"completed", "abandoned"},
           finish_session(s, status)
    PROVE  /\ StoreInv' /\ Grows
           /\ Touches(s, [[store_lock[s] EXCEPT !.status = status] EXCEPT !.updated = now + 1])
<1>1. store_lock[s] # NoSession =>
        LET r == [store_lock[s] EXCEPT !.status = status]
        IN  /\ r \in Record
            /\ r.step = store_lock[s].step /\ r.mode = store_lock[s].mode
            /\ r.conv_id = store_lock[s].conv_id
            /\ r.awaiting = store_lock[s].awaiting
            /\ r.status = status /\ r.auto = store_lock[s].auto
  BY Found DEF Record, BuildStatus
<1> QED BY <1>1, StayUpdateInv DEF finish_session

LEMMA AdvancedFollows ==
    ASSUME NEW s \in Session, NEW r0 \in Record, CanAdvance(r0),
           RecordOK(r0, replies[s], home[s]), replies[s] \in Nat, now \in Nat,
           replies' = replies
    PROVE  Follows(s, r0, Advanced(r0))
<1> DEFINE next == next_for(r0.mode, r0.step)
           r    == Advanced(r0)
<1>1. r0.step \in BuildStep /\ r0.mode \in BuildMode /\ r0.awaiting \in BOOLEAN
  BY DEF Record
<1>2. next \in BuildStep BY <1>1 DEF next_for, BuildStep
<1>3. /\ r.step = next /\ r.mode = r0.mode /\ r.conv_id = r0.conv_id /\ r.auto = r0.auto
      /\ r.status = IF next = "done" THEN "completed" ELSE "active"
  BY DEF Advanced, CanAdvance, Record
<1>4. next # "done" /\ ~r0.auto => r.awaiting BY DEF Advanced, Record
<1>5. r \in Record
  <2>1. (r0.awaiting \/ (next # "done" /\ ~r0.auto)) \in BOOLEAN OBVIOUS
  <2>2. now + 1 \in Nat OBVIOUS
  <2>3. (IF next = "done" THEN "completed" ELSE r0.status) \in BuildStatus
    BY DEF BuildStatus, Record
  <2> QED BY <1>2, <2>1, <2>2, <2>3 DEF Advanced, Record
<1>6. /\ Position(r) \in {Position(r0), Position(r0) + 1}
      /\ r.mode = "modify" => r.step \notin {"design", "refine"}
  BY <1>1, <1>3 DEF Position, next_for, BuildStep, BuildMode, RecordOK
<1>7. Position(r0) \in Nat BY PositionRange
<1>8. ~r.auto => Answers(r) <= replies'[s]
  <2>1. SUFFICES ASSUME ~r.auto PROVE Answers(r) <= replies'[s]
    OBVIOUS
  <2>2. Answers(r0) = Position(r0) + 1 /\ Answers(r0) <= replies[s]
    BY <1>3, <2>1 DEF CanAdvance, RecordOK, Answers
  <2>3. Answers(r) = Position(r)
    BY <1>3, <1>4, <1>6, <1>7, <2>1 DEF Answers
  <2> QED BY <1>6, <1>7, <2>2, <2>3
<1> QED BY <1>3, <1>5, <1>6, <1>7, <1>8 DEF Follows, RecordOK, CanAdvance

LEMMA AdvanceInv ==
    ASSUME StoreInv, NEW s \in Session, advance_step(s)
    PROVE  /\ StoreInv' /\ Grows
           /\ store_lock[s] # NoSession /\ CanAdvance(store_lock[s])
           /\ Rewrites(s, Advanced(store_lock[s]))
<1> DEFINE q == Advanced(store_lock[s])
<1>1. /\ store_lock[s] # NoSession /\ CanAdvance(store_lock[s])
      /\ Write(s, q) /\ now' = now + 1
      /\ UNCHANGED <<created, old, spent, home, replies, merged>>
  BY DEF advance_step
<1>2. /\ store_lock[s] \in Record /\ RecordOK(store_lock[s], replies[s], home[s])
      /\ replies \in [Session -> Nat] /\ now \in Nat
  BY <1>1, Found DEF StoreInv, StoreTypeOK
<1>3. Follows(s, store_lock[s], q) BY <1>1, <1>2, AdvancedFollows
<1> HIDE DEF q
<1>4. q \in Record BY <1>3 DEF Follows
<1>5. Rewrites(s, q) BY <1>1, <1>2, <1>4, WriteIs
<1>6. StoreInv' /\ Grows BY <1>1, <1>3, <1>5, FollowsInv
<1> QED BY <1>1, <1>5, <1>6 DEF q

Opened(r) == [r EXCEPT !.awaiting = FALSE]

LEMMA ResetInv ==
    ASSUME StoreInv, NEW c \in Scope, NEW s, reset_awaiting_for_conv(c, s)
    PROVE  /\ StoreInv' /\ Grows
           /\ \/ s = 0 /\ Thins
              \/ /\ s \in Session /\ store_lock[s] # NoSession
                 /\ store_lock[s].status = "active"
                 /\ Rewrites(s, Opened(store_lock[s]))
<1>1. /\ replies \in [Session -> Nat] /\ ~flushing
      /\ UNCHANGED <<created, now, old, spent, home, merged>>
  BY DEF reset_awaiting_for_conv, StoreInv, StoreTypeOK
<1>2. /\ replies' \in [Session -> Nat]
      /\ \A d \in Session : replies'[d] \in {replies[d], replies[d] + 1}
      /\ \A d \in ActiveOf(store_lock, c) : replies'[d] = replies[d] + 1
  BY <1>1 DEF reset_awaiting_for_conv, Replied, ActiveOf, Present
<1>3. \A d \in Session : replies'[d] >= replies[d] BY <1>1, <1>2
<1>4. CASE s = 0 /\ Keep(store_lock) /\ NoFlush /\ UNCHANGED shown
  <2>1. store_lock \in Store BY Locked
  <2>2. Thins
    BY <1>1, <1>2, <1>3, <1>4, <2>1 DEF Keep, NoFlush, Thins, Store
  <2> QED BY <1>4, <2>2, ThinsInv, ThinsGrow
<1>5. ASSUME s \in Awaiting(c), Write(s, Opened(store_lock[s]))
      PROVE  /\ StoreInv' /\ Grows
             /\ s \in Session /\ store_lock[s] # NoSession
             /\ store_lock[s].status = "active" /\ Rewrites(s, Opened(store_lock[s]))
  <2> DEFINE r0 == store_lock[s]
             q  == Opened(r0)
  <2>1. /\ s \in Session /\ r0 # NoSession /\ s \in ActiveOf(store_lock, c)
        /\ r0.status = "active"
    BY <1>5 DEF Awaiting, Latest, ActiveOf, Present
  <2>2. r0 \in Record /\ RecordOK(r0, replies[s], home[s]) BY <2>1, Found
  <2>3. /\ q \in Record
        /\ q.step = r0.step /\ q.mode = r0.mode /\ q.conv_id = r0.conv_id
        /\ q.status = r0.status /\ q.auto = r0.auto
    BY <2>2 DEF Opened, Record
  <2>4. /\ replies[s] \in Nat /\ replies'[s] \in Nat /\ replies'[s] >= replies[s]
        /\ replies'[s] = replies[s] + 1
    BY <1>1, <1>2, <1>3, <2>1
  <2> HIDE DEF q, r0
  <2>5. Follows(s, r0, q) BY <2>1, <2>2, <2>3, <2>4, StayFollows
  <2>6. Rewrites(s, q)
    BY <1>1, <1>2, <1>3, <1>5, <2>1, <2>3, WriteIs DEF q, r0
  <2>7. StoreInv' /\ Grows BY <1>1, <2>1, <2>5, <2>6, FollowsInv DEF r0
  <2> QED BY <2>1, <2>6, <2>7 DEF q, r0
<1>6. Awaiting(c) \subseteq Session BY DEF Awaiting, Latest, ActiveOf, Present
<1> QED BY <1>4, <1>5, <1>6 DEF reset_awaiting_for_conv, Opened, AnyOf, Session

LEMMA AdoptInv ==
    ASSUME StoreInv, NEW c \in Conv, adopt_orphan_for_conv(c)
    PROVE  StoreInv' /\ Grows
<1> DEFINE live == Unexpired(store_lock)
<1>1. CASE Orphans(live) = {} /\ cleanup_expired
  BY <1>1, CleanupThins, ThinsInv, ThinsGrow
<1>2. ASSUME NEW s \in Orphans(live),
             ~flushing,
             Keep([live EXCEPT ![s] = [live[s] EXCEPT !.conv_id = c, !.updated = now + 1]]),
             shown' = [shown EXCEPT ![s] =
                          Seen(s, [live[s] EXCEPT !.conv_id = c, !.updated = now + 1])],
             now' = now + 1, Flush,
             UNCHANGED <<created, old, spent, home, replies, merged>>
      PROVE  StoreInv' /\ Grows
  <2> DEFINE r0 == store_lock[s]
             q  == [live[s] EXCEPT !.conv_id = c, !.updated = now + 1]
  <2>1. /\ s \in Session /\ live[s] # NoSession
        /\ live[s].status = "active" /\ live[s].conv_id = NoConv
    BY DEF Orphans, ActiveOf, Present
  <2>2. live[s] = r0 /\ r0 # NoSession BY <2>1 DEF Unexpired
  <2>3. r0 \in Record /\ RecordOK(r0, replies[s], home[s]) /\ now \in Nat
    BY <2>1, <2>2, Found DEF StoreInv, StoreTypeOK
  <2>4. c \in Scope /\ c \notin Hub /\ NoConv \notin Hub
    BY SessionAssumption DEF Scope
  <2>5. /\ q \in Record
        /\ q.step = r0.step /\ q.mode = r0.mode /\ q.conv_id = c
        /\ q.status = r0.status /\ q.auto = r0.auto /\ q.awaiting = r0.awaiting
    <3>1. q = [r0 EXCEPT !.conv_id = c, !.updated = now + 1] BY <2>2
    <3>2. r0 \in Record /\ now + 1 \in Nat /\ c \in Scope \cup {NoConv}
      BY <2>3, <2>4
    <3> HIDE DEF q, r0
    <3>3. q \in Record BY <3>1, <3>2 DEF Record
    <3> QED BY <3>1, <3>2, <3>3 DEF Record
  <2>6. store_lock \in Store BY Locked
  <2>7. Rewrites(s, q)
    BY <1>2, <2>1, <2>5, <2>6
    DEF Keep, Flush, Rewrites, Store, Unexpired, StoreInv, StoreTypeOK
  <2> HIDE DEF q
  <2>8. Follows(s, r0, q)
    <3>1. Position(q) = Position(r0) /\ Position(q) \in Nat
      BY <2>3, <2>5, PositionRange DEF Position
    <3>2. ~q.auto => Answers(q) <= replies'[s]
      BY <1>2, <2>3, <2>5, <3>1 DEF Answers, RecordOK
    <3> QED BY <2>1, <2>2, <2>3, <2>4, <2>5, <3>1, <3>2 DEF Follows, RecordOK
  <2> QED BY <1>2, <2>1, <2>2, <2>7, <2>8, FollowsInv
<1> QED BY <1>1, <1>2 DEF adopt_orphan_for_conv

\* The record create_session makes.
New(c, mode) ==
    [conv_id |-> c, mode |-> mode, step |-> "requirements", status |-> "active",
     outputs |-> {}, awaiting |-> TRUE, auto |-> FALSE, updated |-> now + 1]

LEMMA CreateInv ==
    ASSUME StoreInv, NEW who \in Scope, NEW c \in {who, NoConv}, NEW mode \in Modes,
           who \in Hub => c = who, create_session(c, mode, who)
    PROVE  /\ StoreInv' /\ Grows
           /\ created + 1 \in Session /\ created' = created + 1
           /\ Rewrites(created + 1, New(c, mode))
<1> DEFINE s == created + 1
           q == New(c, mode)
<1>1. /\ created \in Nat /\ created < MaxSessions /\ s \in Session /\ now \in Nat
      /\ created' = s /\ home' = [home EXCEPT ![s] = who]
      /\ UNCHANGED <<old, spent, replies, merged>> /\ now' = now + 1
      /\ shown' = [shown EXCEPT ![s] = Seen(s, q)] /\ Flush
  BY SessionAssumption DEF create_session, StoreInv, StoreTypeOK, Session, New
<1>2. /\ q \in Record /\ q.conv_id = c /\ q.status = "active" /\ q.awaiting
      /\ ~q.auto /\ q.step = "requirements"
  BY <1>1, SessionAssumption DEF New, Record, BuildStep, BuildMode, BuildStatus
<1>3. store_lock \in Store BY Locked
<1>4. Rewrites(s, q)
  <2> DEFINE live == Unexpired(store_lock)
             gone(d) == /\ Cardinality(Present(live)) >= MAX_SIZE
                        /\ \A e \in Present(live) : d <= e
  <2>1. /\ mem' = [d \in Session |-> IF d = s THEN q
                                     ELSE IF gone(d) THEN NoSession ELSE live[d]]
        /\ loaded' = TRUE
    BY DEF create_session, New, Keep
  <2> HIDE DEF gone
  <2>2. \A d \in Session : live[d] \in {store_lock[d], NoSession} BY DEF Unexpired
  <2> HIDE DEF live
  <2>3. \A d \in Session \ {s} : mem'[d] \in {store_lock[d], NoSession}
    BY <2>1, <2>2
  <2>4. mem'[s] = q BY <1>1, <2>1
  <2>5. mem' \in [Session -> Record \cup {NoSession}]
    BY <1>2, <1>3, <2>1, <2>2 DEF Store
  <2>6. replies \in [Session -> Nat] BY DEF StoreInv, StoreTypeOK
  <2> QED BY <1>1, <2>1, <2>3, <2>4, <2>5, <2>6 DEF Rewrites, Flush
<1>5. Grows
  BY <1>1, SessionAssumption DEF Grows, StoreInv, StoreTypeOK, Rewrites, Session
<1> HIDE DEF q
<1>6. Position(q) = 0 /\ Answers(q) = 0 BY <1>2 DEF Position, Answers
<1>7. RecordOK(q, replies'[s], home'[s])
  <2>1. home'[s] = who BY <1>1 DEF StoreInv, StoreTypeOK
  <2>2. replies'[s] \in Nat BY <1>1 DEF StoreInv, StoreTypeOK
  <2>3. NoConv \notin Hub BY SessionAssumption DEF Scope
  <2> QED BY <1>2, <1>6, <2>1, <2>2, <2>3 DEF RecordOK
<1>8. SeenOK(q, Seen(s, q))
  <2>1. shown[s] = NotSeen BY <1>1 DEF StoreInv
  <2>2. SeenOK(q, shown[s]) BY <1>6, <2>1 DEF SeenOK, NotSeen
  <2>3. shown \in [Session -> Far] BY DEF StoreInv, StoreTypeOK, Far
  <2> QED BY <1>1, <1>2, <1>6, <2>2, <2>3, SeenAfter
<1>9. created' \in 0..MaxSessions /\ s <= created' BY <1>1, SessionAssumption
<1>10. home' \in [Session -> Scope \cup {NoConv}]
  BY <1>1 DEF StoreInv, StoreTypeOK
<1>11. StoreInv'
  BY <1>1, <1>4, <1>5, <1>7, <1>8, <1>9, <1>10, RewritesInv
<1> QED BY <1>1, <1>4, <1>5, <1>11 DEF q

LEMMA MergeInv ==
    ASSUME StoreInv, NEW snap, MapOK(snap), Merge(snap)
    PROVE  /\ StoreInv' /\ Grows
           /\ \A s \in Session : mem'[s] \in {snap[s], store_lock[s]}
<1> DEFINE found == Unexpired(snap)
<1>1. /\ mem' = [s \in Session |-> IF found[s] # NoSession THEN found[s] ELSE store_lock[s]]
      /\ loaded' = TRUE /\ ~flushing /\ file' = file /\ flushing' = flushing
      /\ merged' = merged \cup {s \in Present(found) : found[s] # store_lock[s]}
      /\ UNCHANGED <<created, now, old, spent, home, replies, shown>>
  BY DEF Merge, Keep, NoFlush
<1>2. Grows
  BY <1>1, SessionAssumption DEF Grows, StoreInv, StoreTypeOK
<1>3. /\ snap \in Store /\ store_lock \in Store
      /\ MapOK(store_lock) /\ SeenIn(store_lock) /\ OnDisk(store_lock)
  BY Locked DEF MapOK
<1>4. \A s \in Session : found[s] \in {snap[s], NoSession} BY DEF Unexpired
<1>5. \A s \in Session : mem'[s] \in {snap[s], store_lock[s]} /\ mem'[s] \in Record \cup {NoSession}
  BY <1>1, <1>3, <1>4 DEF Store
<1>6. mem' \in Store BY <1>1, <1>5 DEF Store
<1>7. merged' \subseteq Session
  BY <1>1 DEF StoreInv, StoreTypeOK, Present
<1>8. StoreTypeOK' BY <1>1, <1>6, <1>7 DEF StoreInv, StoreTypeOK
<1>9. MapOK(mem)'
  <2>1. ASSUME NEW s \in Present(mem')
        PROVE  s <= created' /\ RecordOK(mem'[s], replies'[s], home'[s])
    <3>1. s \in Session /\ mem'[s] # NoSession BY DEF Present
    <3> QED BY <1>1, <1>3, <1>5, <3>1 DEF MapOK, Present
  <2> QED BY <1>6, <2>1 DEF MapOK, Present
<1>10. MapOK(file)' BY <1>1 DEF StoreInv, MapOK, Present
<1>11. \A s \in Present(mem') \ merged' : s \in Present(store_lock) \ merged
                                         /\ mem'[s] = store_lock[s]
  BY <1>1 DEF Present
<1>12. SeenIn(mem)' BY <1>1, <1>3, <1>11 DEF SeenIn, Present
<1>13. SeenIn(file)' BY <1>1 DEF StoreInv, SeenIn, Present
<1>14. OnDisk(mem)' BY <1>1, <1>3, <1>11 DEF OnDisk, Present
<1>15. \A s \in Session : s > created' => shown'[s] = NotSeen BY <1>1 DEF StoreInv
<1> QED BY <1>2, <1>5, <1>8, <1>9, <1>10, <1>12, <1>13, <1>14, <1>15 DEF StoreInv

\* What time, crashes and the end of a flush do.
LEMMA EndFlushInv ==
    ASSUME StoreInv, EndFlush
    PROVE  StoreInv' /\ Grows
<1>1. Grows BY SessionAssumption DEF EndFlush, Grows, StoreInv, StoreTypeOK
<1>2. StoreTypeOK' BY DEF EndFlush, StoreInv, StoreTypeOK
<1>3. MapOK(mem)' /\ MapOK(file)' BY DEF EndFlush, StoreInv, MapOK, Present
<1>4. SeenIn(mem)' /\ SeenIn(file)' BY DEF EndFlush, StoreInv, SeenIn, Present
<1>5. OnDisk(mem)' BY DEF EndFlush, OnDisk, Present
<1> QED BY <1>1, <1>2, <1>3, <1>4, <1>5 DEF EndFlush, StoreInv

LEMMA TimeInv ==
    ASSUME StoreInv, Expire \/ Pause
    PROVE  StoreInv' /\ Grows
<1>1. Grows BY SessionAssumption DEF Expire, Pause, Grows, StoreInv, StoreTypeOK
<1>2. StoreTypeOK' BY SessionAssumption DEF Expire, Pause, StoreInv, StoreTypeOK
<1>3. MapOK(mem)' /\ MapOK(file)' BY DEF Expire, Pause, StoreInv, MapOK, Present
<1>4. SeenIn(mem)' /\ SeenIn(file)' BY DEF Expire, Pause, StoreInv, SeenIn, Present
<1>5. loaded' => OnDisk(mem)' BY DEF Expire, Pause, StoreInv, OnDisk, Present
<1> QED BY <1>1, <1>2, <1>3, <1>4, <1>5 DEF Expire, Pause, StoreInv

LEMMA CrashInv ==
    ASSUME StoreInv, CrashStore
    PROVE  StoreInv' /\ Grows
<1>1. Grows BY SessionAssumption DEF CrashStore, Grows, StoreInv, StoreTypeOK
<1>2. StoreTypeOK'
  BY DEF CrashStore, StoreInv, StoreTypeOK, Empty, Store
<1>3. MapOK(mem)' /\ SeenIn(mem)'
  BY EmptyOKNext DEF CrashStore, MapOK, SeenIn, Present, Empty
<1>4. MapOK(file)' BY DEF CrashStore, StoreInv, MapOK, Present
<1>5. SeenIn(file)' BY DEF CrashStore, StoreInv, SeenIn, Present
<1> QED BY <1>1, <1>2, <1>3, <1>4, <1>5 DEF CrashStore, StoreInv
-----------------------------------------------------------------------------
(* Turns. *)

StateOK(st) ==
    /\ st \in TurnState
    /\ st.at # "idle" => st.scope \in Scope
    /\ st.at \in {"close", "tier", "auto", "output", "read", "emit", "file", "merge"}
           => st.target \in Session
    /\ st.at \in {"file", "merge"} => st.back \in {"emit", "work"}
    /\ st.at = "adopt" => st.scope \in Conv

TurnsOK ==
    /\ turn \in [Turn -> TurnState]
    /\ \A t \in Turn : /\ StateOK(turn[t]) /\ MapOK(turn[t].snap)
                       /\ turn[t].at # "idle" => loaded

Counts == count \in [turns : 0..MaxTurns, calls : 0..MaxCalls, crashes : 0..MaxCrashes]

Inv == StoreInv /\ TurnsOK /\ Counts

\* One turn goes on, the others at most lose what they held.
Moves(t, st) ==
    /\ turn' \in [Turn -> TurnState]
    /\ turn'[t] = st
    /\ \A u \in Turn \ {t} : turn'[u] \in {turn[u], [turn[u] EXCEPT !.open = 0]}

LEMMA GoMoves ==
    ASSUME TurnsOK, NEW t \in Turn, NEW st \in TurnState, Go(t, st)
    PROVE  Moves(t, st)
<1>1. \A u \in Turn : [turn[u] EXCEPT !.open = 0] \in TurnState
  BY DEF TurnsOK, TurnState
<1> QED BY <1>1 DEF Go, Moves, TurnsOK

LEMMA OneMoves ==
    ASSUME TurnsOK, NEW t \in Turn, NEW st \in TurnState, turn' = [turn EXCEPT ![t] = st]
    PROVE  Moves(t, st)
BY DEF Moves, TurnsOK

LEMMA IdleOK == StateOK(Idle) /\ Idle.at = "idle" /\ Idle.snap = Empty /\ Idle.open = 0
BY DEF Idle, StateOK, TurnState, Place, Empty, Store

LEMMA TurnsMove ==
    ASSUME TurnsOK, StoreTypeOK, Grows, loaded', NEW t \in Turn, NEW st,
           StateOK(st), Moves(t, st), st.snap = Empty \/ MapOK(st.snap)
    PROVE  TurnsOK'
<1>1. \A m : MapOK(m) => m \in Store /\ \A s \in Present(m) :
                            s <= created' /\ RecordOK(m[s], replies'[s], home'[s])
  BY MapGrows
<1>2. MapOK(st.snap) BY EmptyOK
<1>3. ASSUME NEW u \in Turn
      PROVE  StateOK(turn'[u]) /\ MapOK(turn'[u].snap)
  <2>1. CASE u = t BY <1>2, <2>1 DEF Moves
  <2>2. CASE u # t
    <3>1. /\ turn[u] \in TurnState /\ StateOK(turn[u]) /\ MapOK(turn[u].snap)
      BY DEF TurnsOK
    <3>2. turn'[u] \in {turn[u], [turn[u] EXCEPT !.open = 0]} BY <2>2 DEF Moves
    <3>3. /\ turn'[u] \in TurnState /\ turn'[u].at = turn[u].at
          /\ turn'[u].scope = turn[u].scope /\ turn'[u].target = turn[u].target
          /\ turn'[u].back = turn[u].back /\ turn'[u].snap = turn[u].snap
      BY <3>1, <3>2 DEF TurnState
    <3> QED BY <3>1, <3>3 DEF StateOK
  <2> QED BY <2>1, <2>2
<1>4. \A u \in Turn : MapOK(turn[u].snap)'
  BY <1>1, <1>3 DEF MapOK, Present
<1> QED BY <1>3, <1>4 DEF Moves, TurnsOK

\* What a turn that is under way knows of itself.
LEMMA Under ==
    ASSUME Inv, NEW t \in Turn
    PROVE  /\ turn[t] \in TurnState /\ StateOK(turn[t]) /\ MapOK(turn[t].snap)
           /\ StoreInv /\ StoreTypeOK /\ TurnsOK
           /\ turn[t].at # "idle" => loaded /\ turn[t].scope \in Scope
BY DEF Inv, TurnsOK, StoreInv, StateOK

\* A turn that goes on to another place of its program.
LEMMA GoesTo ==
    ASSUME Inv, NEW t \in Turn, turn[t].at # "idle", NEW st \in TurnState,
           st.scope = turn[t].scope, st.snap \in {turn[t].snap, Empty},
           st.at \in {"close", "tier", "auto", "output", "read", "emit", "file", "merge"}
               => st.target \in Session,
           st.at \in {"file", "merge"} => st.back \in {"emit", "work"},
           st.at # "adopt",
           Go(t, st), StoreInv' /\ Grows, loaded'
    PROVE  StoreInv' /\ TurnsOK'
<1>1. StateOK(st) BY Under DEF StateOK
<1>2. Moves(t, st) BY GoMoves, Under
<1> QED BY <1>1, <1>2, TurnsMove, Under

LEMMA CallsCount ==
    ASSUME Inv, NEW t \in Turn, Calls(t)
    PROVE  Counts'
BY TurnAssumption DEF Inv, Counts, Calls

LEMMA BeginInv ==
    ASSUME Inv, NEW t \in Turn, NEW c \in Scope, Begin(t, c)
    PROVE  Inv'
<1>1. PICK s \in AnyOf(Awaiting(c)) :
          /\ reset_awaiting_for_conv(c, s)
          /\ Go(t, [Idle EXCEPT !.at = "look", !.scope = c, !.open = s])
  BY DEF Begin
<1>2. StoreInv' /\ Grows /\ loaded' /\ s \in Session \cup {0}
  BY <1>1, ResetInv, Under DEF Thins, Rewrites
<1> DEFINE st == [Idle EXCEPT !.at = "look", !.scope = c, !.open = s]
<1>3. /\ StateOK(st) /\ st.snap = Empty
  BY <1>2, IdleOK DEF StateOK, TurnState, Place, Idle
<1>4. Moves(t, st) BY <1>1, <1>3, GoMoves, Under DEF StateOK
<1> HIDE DEF st
<1>5. TurnsOK' BY <1>2, <1>3, <1>4, TurnsMove, Under
<1>6. Counts' BY TurnAssumption DEF Inv, Counts, Begin
<1> QED BY <1>2, <1>5, <1>6 DEF Inv

LEMMA LookInv ==
    ASSUME Inv, NEW t \in Turn, Look(t)
    PROVE  Inv'
<1> DEFINE live  == Unexpired(store_lock)
           found == Latest(live, ActiveOf(live, turn[t].scope))
           last  == {s \in found : live[s].step = "implement"}
           st(s) == [turn[t] EXCEPT
                        !.at = IF s = 0 THEN "work" ELSE "close", !.target = s,
                        !.open = IF s = 0 /\ @ \in found THEN @ ELSE 0]
<1>1. StoreInv' /\ Grows /\ loaded'
  BY CleanupThins, ThinsInv, ThinsGrow, Under DEF Look, Thins
<1>2. PICK s \in AnyOf(last) : Go(t, st(s))
  BY DEF Look
<1>3. s = 0 \/ s \in Session BY DEF AnyOf, Latest, ActiveOf, Present
<1>4. turn[t] \in TurnState /\ turn[t].at = "look" BY Under DEF Look
<1>5. /\ st(s) \in TurnState
      /\ st(s).scope = turn[t].scope /\ st(s).snap = turn[t].snap
      /\ st(s).at \in {"work", "close"} /\ (st(s).at = "close" => st(s).target \in Session)
  BY <1>3, <1>4 DEF TurnState, Place
<1> HIDE DEF st
<1>6. TurnsOK' BY <1>1, <1>2, <1>4, <1>5, GoesTo
<1>7. Counts' BY DEF Look, Inv, Counts
<1> QED BY <1>1, <1>6, <1>7 DEF Inv

\* A section that may have changed session s, as Touches says.
LEMMA TouchesLoads ==
    ASSUME NEW s, NEW q, Touches(s, q)
    PROVE  loaded'
BY DEF Touches, Thins, Rewrites

LEMMA CloseInv ==
    ASSUME Inv, NEW t \in Turn, Close(t)
    PROVE  Inv'
<1>1. turn[t] \in TurnState /\ turn[t].at = "close" /\ turn[t].target \in Session
  BY Under DEF Close, StateOK
<1>2. StoreInv' /\ Grows /\ loaded'
  BY <1>1, FinishInv, TouchesLoads, Under DEF Close
<1>3. /\ At(t, "work") \in TurnState /\ At(t, "work").at = "work"
      /\ At(t, "work").scope = turn[t].scope /\ At(t, "work").snap = turn[t].snap
  BY <1>1 DEF At, TurnState, Place
<1>4. TurnsOK' BY <1>1, <1>2, <1>3, GoesTo DEF Close
<1>5. Counts' BY DEF Close, Inv, Counts
<1> QED BY <1>2, <1>4, <1>5 DEF Inv

LEMMA StartBuildInv ==
    ASSUME Inv, NEW t \in Turn, NEW c \in Scope \cup {NoConv}, NEW mode \in Modes,
           NEW next \in {"emit", "work"}, StartBuild(t, c, mode, next)
    PROVE  Inv'
<1>1. turn[t] \in TurnState /\ turn[t].at = "work" /\ turn[t].scope \in Scope
  BY Under DEF StartBuild
<1>2. c \in {turn[t].scope, NoConv} /\ (turn[t].scope \in Hub => c = turn[t].scope)
  BY DEF StartBuild
<1>3. StoreInv' /\ Grows /\ loaded' /\ created + 1 \in Session
  <2>1. create_session(c, mode, turn[t].scope) BY DEF StartBuild
  <2>2. StoreInv BY Under
  <2>3. /\ StoreInv' /\ Grows /\ created + 1 \in Session
        /\ Rewrites(created + 1, New(c, mode))
    BY <1>1, <1>2, <2>1, <2>2, CreateInv
  <2> QED BY <2>3 DEF Rewrites
<1> DEFINE st == [turn[t] EXCEPT !.at = next, !.target = created + 1]
<1>4. /\ st \in TurnState /\ st.at = next /\ st.target \in Session
      /\ st.scope = turn[t].scope /\ st.snap = turn[t].snap
  BY <1>1, <1>3 DEF TurnState, Place
<1>5. Go(t, st) BY DEF StartBuild
<1> HIDE DEF st
<1>6. TurnsOK' BY <1>1, <1>3, <1>4, <1>5, GoesTo
<1>7. Counts' BY CallsCount DEF StartBuild
<1> QED BY <1>3, <1>6, <1>7 DEF Inv

LEMMA KnownIsSession ==
    ASSUME Inv, NEW t \in Turn, NEW s \in Known(t)
    PROVE  s \in Session
BY SessionAssumption DEF Known, Inv, StoreInv, StoreTypeOK, Session

\* advance_build up to its output.
LEMMA UpdateTurn ==
    ASSUME Inv, NEW t \in Turn, NEW s \in Session, turn[t].at # "idle",
           NEW place \in {"tier", "auto", "output"},
           Go(t, [turn[t] EXCEPT !.at = place, !.target = s]),
           Calls(t), StoreInv' /\ Grows, loaded'
    PROVE  Inv'
<1> DEFINE st == [turn[t] EXCEPT !.at = place, !.target = s]
<1>1. /\ st \in TurnState /\ st.at = place /\ st.target \in Session
      /\ st.scope = turn[t].scope /\ st.snap = turn[t].snap
  BY Under DEF TurnState, Place
<1> HIDE DEF st
<1>2. TurnsOK' BY <1>1, GoesTo DEF st
<1> QED BY <1>2, CallsCount DEF Inv

LEMMA SetTierTurn ==
    ASSUME Inv, NEW t \in Turn, NEW s \in Session, SetTier(t, s)
    PROVE  Inv'
BY SetTierInv, TouchesLoads, UpdateTurn, Under DEF SetTier

LEMMA SetAutoTurn ==
    ASSUME Inv, NEW t \in Turn, NEW s \in Session, SetAuto(t, s)
    PROVE  Inv'
BY SetAutoInv, TouchesLoads, UpdateTurn, Under DEF SetAuto

LEMMA SetOutputTurn ==
    ASSUME Inv, NEW t \in Turn, NEW s \in Session, SetOutput(t, s)
    PROVE  Inv'
BY SetOutputInv, TouchesLoads, UpdateTurn, Under DEF SetOutput

LEMMA AdvanceOkInv ==
    ASSUME Inv, NEW t \in Turn, AdvanceOk(t)
    PROVE  Inv'
<1>1. turn[t] \in TurnState /\ turn[t].at = "output" /\ turn[t].target \in Session
  BY Under DEF AdvanceOk, StateOK
<1>2. StoreInv' /\ Grows /\ loaded'
  BY <1>1, AdvanceInv, Under DEF AdvanceOk, Rewrites
<1> DEFINE st == [turn[t] EXCEPT !.at = "read",
                     !.open = IF @ = turn[t].target THEN 0 ELSE @]
<1>3. /\ st \in TurnState /\ st.at = "read" /\ st.target \in Session
      /\ st.scope = turn[t].scope /\ st.snap = turn[t].snap
  BY <1>1 DEF TurnState, Place
<1>4. Go(t, st) BY DEF AdvanceOk
<1> HIDE DEF st
<1>5. TurnsOK' BY <1>1, <1>2, <1>3, <1>4, GoesTo
<1>6. Counts' BY DEF AdvanceOk, Inv, Counts
<1> QED BY <1>2, <1>5, <1>6 DEF Inv

\* A turn that goes on to next with nothing else changed.
LEMMA NextPlace ==
    ASSUME Inv, NEW t \in Turn, turn[t].at # "idle", NEW next \in {"work", "emit"},
           next = "emit" => turn[t].target \in Session,
           Go(t, At(t, next)), StoreInv' /\ Grows, loaded'
    PROVE  TurnsOK'
<1>1. /\ At(t, next) \in TurnState /\ At(t, next).at = next
      /\ At(t, next).target = turn[t].target
      /\ At(t, next).scope = turn[t].scope /\ At(t, next).snap = turn[t].snap
  BY Under DEF At, TurnState, Place
<1> QED BY <1>1, GoesTo

LEMMA AdvanceErrInv ==
    ASSUME Inv, NEW t \in Turn, AdvanceErr(t)
    PROVE  Inv'
<1>1. turn[t].at = "output" /\ turn[t].target \in Session
  BY Under DEF AdvanceErr, StateOK
<1>2. StoreInv' /\ Grows /\ loaded'
  BY <1>1, RefuseThins, ThinsInv, ThinsGrow, Under DEF AdvanceErr, Thins
<1>3. TurnsOK' BY <1>1, <1>2, NextPlace DEF AdvanceErr
<1>4. Counts' BY DEF AdvanceErr, Inv, Counts
<1> QED BY <1>2, <1>3, <1>4 DEF Inv

LEMMA GetSessionInv ==
    ASSUME Inv, NEW t \in Turn, NEW here \in {"read", "emit"},
           NEW next \in {"emit", "work"}, GetSession(t, here, next)
    PROVE  Inv'
<1>1. turn[t] \in TurnState /\ turn[t].at = here /\ turn[t].target \in Session
  BY Under DEF GetSession, StateOK
<1>2. StoreInv' /\ Grows /\ loaded'
  BY CleanupThins, ThinsInv, ThinsGrow, Under DEF GetSession, Thins
<1>3. TurnsOK'
  <2>1. CASE Go(t, At(t, next)) BY <1>1, <1>2, <2>1, NextPlace
  <2>2. CASE Go(t, [turn[t] EXCEPT !.at = "file", !.back = next])
    <3> DEFINE st == [turn[t] EXCEPT !.at = "file", !.back = next]
    <3>1. /\ st \in TurnState /\ st.at = "file" /\ st.target \in Session
          /\ st.scope = turn[t].scope /\ st.snap = turn[t].snap /\ st.back = next
      BY <1>1 DEF TurnState, Place
    <3> HIDE DEF st
    <3> QED BY <1>1, <1>2, <2>2, <3>1, GoesTo DEF st
  <2> QED BY <2>1, <2>2 DEF GetSession
<1>4. Counts' BY DEF GetSession, Inv, Counts
<1> QED BY <1>2, <1>3, <1>4 DEF Inv

LEMMA ReadFileInv ==
    ASSUME Inv, NEW t \in Turn, ReadFile(t)
    PROVE  Inv'
<1> DEFINE st == IF flushing THEN At(t, turn[t].back)
                 ELSE [At(t, "merge") EXCEPT !.snap = file]
<1>1. /\ turn[t] \in TurnState /\ turn[t].at = "file" /\ turn[t].target \in Session
      /\ turn[t].back \in {"emit", "work"} /\ turn[t].scope \in Scope
      /\ MapOK(turn[t].snap) /\ loaded
  BY Under DEF ReadFile, StateOK
<1>2. UNCHANGED storeVars /\ StoreInv BY Under DEF ReadFile
<1>3. StoreInv' /\ loaded'
  BY <1>1, <1>2 DEF storeVars, StoreInv, StoreTypeOK, MapOK, SeenIn, OnDisk, Present
<1>4. Grows
  BY <1>2, SessionAssumption DEF storeVars, Grows, StoreInv, StoreTypeOK
<1>5. MapOK(file) /\ file \in Store BY <1>2 DEF StoreInv, StoreTypeOK
<1>6. StateOK(st) /\ MapOK(st.snap)
  <2>1. CASE flushing BY <1>1, <2>1 DEF At, TurnState, StateOK, Place
  <2>2. CASE ~flushing BY <1>1, <1>5, <2>2 DEF At, TurnState, StateOK, Place
  <2> QED BY <2>1, <2>2
<1>7. turn' = [turn EXCEPT ![t] = st] BY DEF ReadFile
<1> HIDE DEF st
<1>8. Moves(t, st) BY <1>6, <1>7, OneMoves, Under DEF StateOK
<1>9. TurnsOK' BY <1>3, <1>4, <1>6, <1>8, TurnsMove, Under
<1>10. Counts' BY DEF ReadFile, Inv, Counts
<1> QED BY <1>3, <1>9, <1>10 DEF Inv

LEMMA MergeFileInv ==
    ASSUME Inv, NEW t \in Turn, MergeFile(t)
    PROVE  Inv'
<1>1. /\ turn[t] \in TurnState /\ turn[t].at = "merge" /\ turn[t].target \in Session
      /\ turn[t].back \in {"emit", "work"} /\ MapOK(turn[t].snap)
  BY Under DEF MergeFile, StateOK
<1>2. StoreInv' /\ Grows /\ loaded'
  BY <1>1, MergeInv, Under DEF MergeFile, Merge, Keep
<1> DEFINE st == [turn[t] EXCEPT !.at = turn[t].back, !.snap = Empty]
<1>3. /\ st \in TurnState /\ st.at \in {"emit", "work"} /\ st.target \in Session
      /\ st.scope = turn[t].scope /\ st.snap = Empty
  BY <1>1 DEF TurnState, Place, Empty, Store
<1>4. Go(t, st) BY DEF MergeFile
<1> HIDE DEF st
<1>5. TurnsOK' BY <1>1, <1>2, <1>3, <1>4, GoesTo
<1>6. Counts' BY DEF MergeFile, Inv, Counts
<1> QED BY <1>2, <1>5, <1>6 DEF Inv

LEMMA CancelInv ==
    ASSUME Inv, NEW t \in Turn, NEW s \in Session, CancelBuild(t, s)
    PROVE  Inv'
<1>1. turn[t] \in TurnState /\ turn[t].at = "work" BY Under DEF CancelBuild
<1>2. StoreInv' /\ Grows /\ loaded'
  BY FinishInv, TouchesLoads, Under DEF CancelBuild
<1> DEFINE st == [turn[t] EXCEPT !.open = IF @ = s THEN 0 ELSE @]
<1>3. /\ st \in TurnState /\ st.at = "work"
      /\ st.scope = turn[t].scope /\ st.snap = turn[t].snap
  BY <1>1 DEF TurnState
<1>4. Go(t, st) BY DEF CancelBuild
<1> HIDE DEF st
<1>5. TurnsOK' BY <1>1, <1>2, <1>3, <1>4, GoesTo
<1> QED BY <1>2, <1>5, CallsCount DEF CancelBuild, Inv

\* A turn that is over.
LEMMA GoesIdle ==
    ASSUME Inv, NEW t \in Turn, Moves(t, Idle), StoreInv' /\ Grows, loaded'
    PROVE  TurnsOK'
BY IdleOK, TurnsMove, Under

LEMMA RespondInv ==
    ASSUME Inv, NEW t \in Turn, Respond(t)
    PROVE  Inv'
<1>1. turn[t] \in TurnState /\ turn[t].at = "work" /\ turn[t].scope \in Scope
      /\ MapOK(turn[t].snap)
  BY Under DEF Respond
<1>2. StoreInv' /\ Grows /\ loaded'
  BY CleanupThins, ThinsInv, ThinsGrow, Under DEF Respond, Thins
<1>3. TurnsOK'
  <2>1. CASE Go(t, Idle)
    BY <1>2, <2>1, GoMoves, GoesIdle, IdleOK, Under DEF StateOK
  <2>2. CASE turn[t].scope \notin Hub /\ Go(t, At(t, "adopt"))
    <3>1. turn[t].scope \in Conv BY <1>1, <2>2 DEF Scope
    <3>2. /\ StateOK(At(t, "adopt")) /\ At(t, "adopt").snap = turn[t].snap
      BY <1>1, <3>1 DEF At, TurnState, StateOK, Place
    <3>3. Moves(t, At(t, "adopt")) BY <2>2, <3>2, GoMoves, Under DEF StateOK
    <3> QED BY <1>1, <1>2, <3>2, <3>3, TurnsMove, Under
  <2> QED BY <2>1, <2>2 DEF Respond
<1>4. Counts' BY DEF Respond, Inv, Counts
<1> QED BY <1>2, <1>3, <1>4 DEF Inv

LEMMA AdoptTurn ==
    ASSUME Inv, NEW t \in Turn, Adopt(t)
    PROVE  Inv'
<1>1. turn[t].scope \in Conv BY Under DEF Adopt, StateOK
<1>2. StoreInv' /\ Grows BY <1>1, AdoptInv, Under DEF Adopt
<1>3. loaded' BY DEF Adopt, adopt_orphan_for_conv, cleanup_expired, Keep
<1>4. TurnsOK' BY <1>2, <1>3, GoMoves, GoesIdle, IdleOK, Under DEF Adopt, StateOK
<1>5. Counts' BY DEF Adopt, Inv, Counts
<1> QED BY <1>2, <1>4, <1>5 DEF Inv

LEMMA LeaveInv ==
    ASSUME Inv, NEW t \in Turn, Leave(t)
    PROVE  Inv'
<1>1. loaded /\ StoreInv /\ UNCHANGED storeVars BY Under DEF Leave
<1>2. StoreInv' /\ loaded'
  BY <1>1 DEF storeVars, StoreInv, StoreTypeOK, MapOK, SeenIn, OnDisk, Present
<1>3. Grows BY <1>1, SessionAssumption DEF storeVars, Grows, StoreInv, StoreTypeOK
<1>4. TurnsOK'
  BY <1>2, <1>3, OneMoves, GoesIdle, IdleOK, Under DEF Leave, StateOK
<1>5. Counts' BY DEF Leave, Inv, Counts
<1> QED BY <1>2, <1>4, <1>5 DEF Inv

LEMMA CrashTurns ==
    ASSUME Inv, Crash
    PROVE  Inv'
<1>1. StoreInv' BY CrashInv DEF Inv, Crash
<1>2. TurnsOK'
  BY EmptyOKNext, IdleOK DEF Crash, TurnsOK, StateOK, Idle
<1>3. Counts' BY TurnAssumption DEF Crash, Inv, Counts
<1> QED BY <1>1, <1>2, <1>3 DEF Inv

\* A step of the store's own: the turns stand still.
LEMMA TurnsStand ==
    ASSUME Inv, StoreInv', Grows, loaded' = loaded, UNCHANGED <<turn, count>>
    PROVE  Inv'
<1>1. \A t \in Turn : MapOK(turn[t].snap)'
  BY MapGrows DEF Inv, StoreInv, TurnsOK, MapOK, Present
<1>2. TurnsOK' BY <1>1 DEF Inv, TurnsOK
<1> QED BY <1>2 DEF Inv, Counts

-----------------------------------------------------------------------------
LEMMA InitInv ==
    ASSUME Init
    PROVE  Inv
<1>1. StoreTypeOK
  <2>1. mem \in Store /\ file \in Store BY DEF Init, StoreInit, Empty, Store
  <2>2. NotSeen \in Far BY DEF NotSeen, Far
  <2>3. created \in 0..MaxSessions /\ old \in 0..created /\ now \in Nat /\ spent \in 0..now
    BY SessionAssumption DEF Init, StoreInit
  <2> QED BY <2>1, <2>2, <2>3 DEF Init, StoreInit, StoreTypeOK, Far
<1>2. MapOK(mem) /\ MapOK(file) /\ SeenIn(mem) /\ SeenIn(file)
  BY EmptyOK DEF Init, StoreInit
<1>3. StoreInv BY <1>1, <1>2 DEF Init, StoreInit, StoreInv
<1>4. TurnsOK BY EmptyOK, IdleOK DEF Init, TurnsOK, StateOK, Idle
<1>5. Counts BY TurnAssumption DEF Init, Counts
<1> QED BY <1>3, <1>4, <1>5 DEF Inv

LEMMA StartStep ==
    ASSUME Inv, NEW t \in Turn, Start(t)
    PROVE  Inv'
BY BeginInv, LookInv, CloseInv DEF Start

LEMMA ToolStep ==
    ASSUME Inv, NEW t \in Turn, Tool(t)
    PROVE  Inv'
<1>1. CASE \E c \in Scope \cup {NoConv}, mode \in Modes, next \in {"emit", "work"} :
               StartBuild(t, c, mode, next)
  BY <1>1, StartBuildInv
<1>2. CASE \E s \in Known(t) :
               SetTier(t, s) \/ SetAuto(t, s) \/ SetOutput(t, s) \/ CancelBuild(t, s)
  BY <1>2, KnownIsSession, SetTierTurn, SetAutoTurn, SetOutputTurn, CancelInv
<1>3. CASE AdvanceOk(t) \/ AdvanceErr(t) BY <1>3, AdvanceOkInv, AdvanceErrInv
<1>4. CASE Read(t) \/ Emit(t) BY <1>4, GetSessionInv DEF Read, Emit
<1>5. CASE ReadFile(t) \/ MergeFile(t) BY <1>5, ReadFileInv, MergeFileInv
<1> QED BY <1>1, <1>2, <1>3, <1>4, <1>5 DEF Tool

LEMMA EndStep ==
    ASSUME Inv, NEW t \in Turn, End(t)
    PROVE  Inv'
BY RespondInv, AdoptTurn, LeaveInv DEF End

LEMMA NextInv ==
    ASSUME Inv, [Next]_vars
    PROVE  Inv'
<1>1. CASE \E t \in Turn : Start(t) \/ Tool(t) \/ End(t)
  BY <1>1, StartStep, ToolStep, EndStep
<1>2. CASE EndFlush /\ UNCHANGED <<turn, count>>
  BY <1>2, EndFlushInv, TurnsStand DEF Inv, EndFlush
<1>3. CASE (Expire \/ Pause) /\ UNCHANGED <<turn, count>>
  BY <1>3, TimeInv, TurnsStand DEF Inv, Expire, Pause
<1>4. CASE Crash BY <1>4, CrashTurns
<1>5. CASE UNCHANGED vars
  <2>1. UNCHANGED storeVars /\ UNCHANGED <<turn, count>> /\ StoreInv
    BY <1>5 DEF vars, Inv
  <2>2. StoreInv' /\ loaded' = loaded
    BY <2>1 DEF storeVars, StoreInv, StoreTypeOK, MapOK, SeenIn, OnDisk, Present
  <2>3. Grows BY <2>1, SessionAssumption DEF storeVars, Grows, StoreInv, StoreTypeOK
  <2> QED BY <2>1, <2>2, <2>3, TurnsStand
<1> QED BY <1>1, <1>2, <1>3, <1>4, <1>5 DEF Next

LEMMA InvAlways == Spec => []Inv
<1>1. Init => Inv BY InitInv
<1>2. Inv /\ [Next]_vars => Inv' BY NextInv
<1> QED BY <1>1, <1>2, PTL DEF Spec

-----------------------------------------------------------------------------
(* The gate a turn holds open. *)

GateOpen(r) == r.status = "active" /\ (~r.awaiting \/ r.auto)

GateIn(m, s) == m[s] # NoSession => GateOpen(m[s])

\* The session whose gate turn state st holds open has it open wherever the next
\* step may take its record from: the map m, the file f or the turn's own copy.
Holds(st, m, f, k) ==
    st.open # 0 =>
        /\ st.open <= k
        /\ st.at \notin {"idle", "close"}
        /\ GateIn(m, st.open) /\ GateIn(f, st.open) /\ GateIn(st.snap, st.open)
        /\ /\ st.at = "output" /\ st.target = st.open
           /\ m[st.open] # NoSession
           => m[st.open].step \in m[st.open].outputs

Held == \A t \in Turn : Holds(turn[t], mem, file, created)

LEMMA OthersHold ==
    ASSUME Inv, Held, NEW t \in Turn, NEW st, Go(t, st), Grows,
           file' \in {file, Empty}, NEW u \in Turn \ {t}
    PROVE  Holds(turn'[u], mem', file', created')
<1>1. turn[u] \in TurnState /\ Holds(turn[u], mem, file, created)
  BY Under DEF Held
<1>2. created \in Nat /\ created' \in Nat /\ created' >= created
  BY SessionAssumption DEF Inv, StoreInv, StoreTypeOK, Grows
<1> DEFINE o == turn[u].open
<1>3. CASE o # 0 /\ mem'[o] # mem[o]
  <2>1. turn'[u] = [turn[u] EXCEPT !.open = 0] BY <1>3 DEF Go
  <2>2. turn'[u].open = 0 BY <1>1, <2>1 DEF TurnState
  <2> QED BY <2>2 DEF Holds
<1>4. CASE o = 0 \/ mem'[o] = mem[o]
  <2>1. turn'[u] = turn[u] BY <1>4 DEF Go
  <2>2. o # 0 => o \in Session /\ o <= created' /\ mem'[o] = mem[o]
    BY <1>1, <1>2, <1>4 DEF Holds, TurnState, Session
  <2>3. o # 0 => GateIn(mem', o) /\ GateIn(file', o)
    BY <1>1, <2>2 DEF Holds, GateIn, Empty
  <2> QED BY <1>1, <2>1, <2>2, <2>3 DEF Holds
<1> QED BY <1>3, <1>4

LEMMA HeldGo ==
    ASSUME Inv, Held, NEW t \in Turn, NEW st \in TurnState, Go(t, st), Grows,
           file' \in {file, Empty}, Holds(st, mem', file', created')
    PROVE  Held'
<1>1. turn'[t] = st BY DEF Go
<1> QED BY <1>1, OthersHold DEF Held

\* The file and the turn's copy of it, whatever a section does to the map.
LEMMA StillHolds ==
    ASSUME Inv, Held, NEW t \in Turn, turn[t].open # 0, Grows, file' \in {file, Empty}
    PROVE  LET o == turn[t].open
           IN  /\ o \in Session /\ o <= created'
               /\ GateIn(file', o) /\ GateIn(turn[t].snap, o) /\ GateIn(Empty, o)
<1>1. turn[t] \in TurnState /\ Holds(turn[t], mem, file, created)
  BY Under DEF Held
<1>2. created \in Nat /\ created' \in Nat /\ created' >= created
  BY SessionAssumption DEF Inv, StoreInv, StoreTypeOK, Grows
<1>3. turn[t].open \in Session /\ turn[t].open <= created
  BY <1>1 DEF TurnState, Holds
<1>4. turn[t].open <= created' BY <1>2, <1>3 DEF Session
<1>5. GateIn(Empty, turn[t].open) BY <1>3 DEF GateIn, Empty
<1>6. GateIn(file, turn[t].open) /\ GateIn(turn[t].snap, turn[t].open)
  BY <1>1 DEF Holds
<1>7. GateIn(file', turn[t].open) BY <1>5, <1>6
<1> QED BY <1>3, <1>4, <1>5, <1>6, <1>7

\* A turn that goes on, and whose own gate is still open in the map.
LEMMA GoesOn ==
    ASSUME Inv, Held, NEW t \in Turn, NEW st \in TurnState, Go(t, st), Grows,
           file' \in {file, Empty},
           st.open \in {turn[t].open, 0}, st.snap \in {turn[t].snap, Empty},
           st.at \notin {"idle", "close", "output"},
           st.open # 0 => GateIn(mem', st.open)
    PROVE  Held'
<1>1. st.open # 0 => /\ st.open <= created'
                     /\ GateIn(file', st.open) /\ GateIn(st.snap, st.open)
  BY StillHolds
<1>2. Holds(st, mem', file', created') BY <1>1 DEF Holds
<1> QED BY <1>2, HeldGo

\* While a turn is under way the map is what store_lock gives.
LEMMA ThinGate ==
    ASSUME Inv, Held, NEW t \in Turn, turn[t].at # "idle", Thins, turn[t].open # 0
    PROVE  GateIn(mem', turn[t].open)
<1>1. turn[t].open \in Session /\ store_lock = mem
  BY Under DEF TurnState, store_lock
<1> QED BY <1>1 DEF Held, Holds, GateIn, Thins

LEMMA RewriteGate ==
    ASSUME Inv, Held, NEW t \in Turn, turn[t].at # "idle", turn[t].open # 0,
           NEW s \in Session, NEW r, Rewrites(s, r),
           s = turn[t].open => GateOpen(r)
    PROVE  GateIn(mem', turn[t].open)
<1>1. turn[t].open \in Session /\ store_lock = mem
  BY Under DEF TurnState, store_lock
<1> QED BY <1>1 DEF Held, Holds, GateIn, Rewrites

\* What the updates of advance_build leave of an open gate.
LEMMA UpdateGate ==
    ASSUME Inv, Held, NEW t \in Turn, turn[t].at # "idle", turn[t].open # 0,
           NEW s \in Session, NEW r, Touches(s, r),
           store_lock[s] # NoSession =>
               /\ r.status = store_lock[s].status /\ r.awaiting = store_lock[s].awaiting
               /\ r.auto \in {store_lock[s].auto, TRUE}
    PROVE  GateIn(mem', turn[t].open)
<1>1. turn[t].open \in Session /\ store_lock = mem
  BY Under DEF TurnState, store_lock
<1>2. CASE store_lock[s] = NoSession /\ Thins BY <1>2, ThinGate
<1>3. CASE store_lock[s] # NoSession /\ Rewrites(s, r)
  <2>1. s = turn[t].open => GateOpen(r)
    BY <1>1, <1>3 DEF Held, Holds, GateIn, GateOpen
  <2> QED BY <1>3, <2>1, RewriteGate
<1> QED BY <1>2, <1>3 DEF Touches

LEMMA BeginHeld ==
    ASSUME Inv, Held, NEW t \in Turn, NEW c \in Scope, Begin(t, c)
    PROVE  Held'
<1>1. PICK s \in AnyOf(Awaiting(c)) :
          /\ reset_awaiting_for_conv(c, s)
          /\ Go(t, [Idle EXCEPT !.at = "look", !.scope = c, !.open = s])
  BY DEF Begin
<1> DEFINE st == [Idle EXCEPT !.at = "look", !.scope = c, !.open = s]
<1>2. /\ StoreInv' /\ Grows
      /\ \/ s = 0 /\ Thins
         \/ /\ s \in Session /\ store_lock[s] # NoSession
            /\ store_lock[s].status = "active"
            /\ Rewrites(s, Opened(store_lock[s]))
  BY <1>1, ResetInv, Under
<1>3. st \in TurnState /\ st.at = "look" /\ st.open = s /\ st.snap = Empty
  BY <1>2, IdleOK DEF StateOK, TurnState, Place, Idle
<1>4. Go(t, st) BY <1>1
<1> HIDE DEF st
<1>5. CASE s = 0 /\ Thins
  BY <1>2, <1>3, <1>4, <1>5, HeldGo DEF Holds, Thins
<1>6. CASE /\ s \in Session /\ store_lock[s] # NoSession
           /\ store_lock[s].status = "active"
           /\ Rewrites(s, Opened(store_lock[s]))
  <2>1. store_lock[s] \in Record /\ s <= created BY <1>6, Found, Under
  <2>2. GateOpen(Opened(store_lock[s]))
    BY <1>6, <2>1 DEF Opened, GateOpen, Record
  <2>3. GateIn(mem', s) /\ GateIn(file', s) /\ GateIn(Empty, s) /\ file' = Empty
    BY <1>6, <2>2 DEF Rewrites, GateIn, Empty
  <2>4. s <= created'
    BY <1>2, <1>6, <2>1, SessionAssumption DEF Grows, Session, Inv, StoreInv, StoreTypeOK
  <2>5. Holds(st, mem', file', created') BY <1>3, <2>3, <2>4 DEF Holds
  <2> QED BY <1>2, <1>3, <1>4, <2>3, <2>5, HeldGo
<1> QED BY <1>2, <1>5, <1>6

LEMMA LookHeld ==
    ASSUME Inv, Held, NEW t \in Turn, Look(t)
    PROVE  Held'
<1> DEFINE live  == Unexpired(store_lock)
           found == Latest(live, ActiveOf(live, turn[t].scope))
           last  == {s \in found : live[s].step = "implement"}
           st(s) == [turn[t] EXCEPT
                        !.at = IF s = 0 THEN "work" ELSE "close", !.target = s,
                        !.open = IF s = 0 /\ @ \in found THEN @ ELSE 0]
<1>1. Thins /\ Grows /\ file' = file
  BY CleanupThins, ThinsGrow, Under DEF Look, Thins
<1>2. PICK s \in AnyOf(last) : Go(t, st(s)) BY DEF Look
<1>3. s = 0 \/ s \in Session BY DEF AnyOf, Latest, ActiveOf, Present
<1>4. turn[t] \in TurnState /\ turn[t].at = "look" BY Under DEF Look
<1>5. /\ st(s) \in TurnState /\ st(s).snap = turn[t].snap
      /\ st(s).open \in {turn[t].open, 0}
      /\ st(s).at = "work" \/ st(s).open = 0
      /\ st(s).at \in {"work", "close"}
  BY <1>3, <1>4 DEF TurnState, Place
<1> HIDE DEF st
<1>6. CASE st(s).at = "work"
  BY <1>1, <1>2, <1>4, <1>5, <1>6, ThinGate, GoesOn
<1>7. CASE st(s).open = 0
  BY <1>1, <1>2, <1>5, <1>7, HeldGo DEF Holds
<1> QED BY <1>5, <1>6, <1>7

LEMMA CloseHeld ==
    ASSUME Inv, Held, NEW t \in Turn, Close(t)
    PROVE  Held'
<1>1. turn[t] \in TurnState /\ turn[t].at = "close" /\ turn[t].target \in Session
  BY Under DEF Close, StateOK
<1>2. Grows /\ file' \in {file, Empty}
  BY <1>1, FinishInv, Under DEF Close, Touches, Thins, Rewrites
<1>3. turn[t].open = 0 BY <1>1 DEF Held, Holds
<1>4. At(t, "work") \in TurnState /\ At(t, "work").open = 0
  BY <1>1, <1>3 DEF At, TurnState, Place
<1> QED BY <1>2, <1>4, HeldGo DEF Close, Holds

LEMMA StartBuildHeld ==
    ASSUME Inv, Held, NEW t \in Turn, NEW c \in Scope \cup {NoConv}, NEW mode \in Modes,
           NEW next \in {"emit", "work"}, StartBuild(t, c, mode, next)
    PROVE  Held'
<1>1. turn[t] \in TurnState /\ turn[t].at = "work" /\ turn[t].scope \in Scope
  BY Under DEF StartBuild
<1>2. c \in {turn[t].scope, NoConv} /\ (turn[t].scope \in Hub => c = turn[t].scope)
  BY DEF StartBuild
<1>3. /\ Grows /\ created + 1 \in Session /\ file' = Empty
      /\ Rewrites(created + 1, New(c, mode))
  <2>1. create_session(c, mode, turn[t].scope) BY DEF StartBuild
  <2>2. StoreInv BY Under
  <2>3. Grows /\ created + 1 \in Session /\ Rewrites(created + 1, New(c, mode))
    BY <1>1, <1>2, <2>1, <2>2, CreateInv
  <2> QED BY <2>3 DEF Rewrites
<1> DEFINE st == [turn[t] EXCEPT !.at = next, !.target = created + 1]
<1>4. /\ st \in TurnState /\ st.at = next
      /\ st.open = turn[t].open /\ st.snap = turn[t].snap
  BY <1>1, <1>3 DEF TurnState, Place
<1>5. Go(t, st) BY DEF StartBuild
<1> HIDE DEF st
<1>6. turn[t].open # 0 => turn[t].open # created + 1
  BY SessionAssumption DEF Held, Holds, Inv, StoreInv, StoreTypeOK
<1>7. turn[t].open # 0 => GateIn(mem', turn[t].open)
  BY <1>1, <1>3, <1>6, RewriteGate
<1> QED BY <1>3, <1>4, <1>5, <1>7, GoesOn

LEMMA SetTierHeld ==
    ASSUME Inv, Held, NEW t \in Turn, NEW s \in Session, SetTier(t, s)
    PROVE  Held'
<1> DEFINE q  == [store_lock[s] EXCEPT !.updated = now + 1]
           st == [turn[t] EXCEPT !.at = "tier", !.target = s]
<1>1. /\ turn[t] \in TurnState /\ turn[t].at # "idle" /\ Go(t, st)
      /\ Grows /\ Touches(s, q) /\ file' \in {file, Empty}
  BY SetTierInv, Under DEF SetTier, Touches, Thins, Rewrites
<1>2. store_lock[s] # NoSession =>
          /\ q.status = store_lock[s].status /\ q.awaiting = store_lock[s].awaiting
          /\ q.auto = store_lock[s].auto
  BY Found, Under DEF Record
<1>3. /\ st \in TurnState /\ st.at = "tier"
      /\ st.open = turn[t].open /\ st.snap = turn[t].snap
  BY <1>1 DEF TurnState, Place
<1> HIDE DEF q, st
<1>4. turn[t].open # 0 => GateIn(mem', turn[t].open)
  BY <1>1, <1>2, UpdateGate
<1> QED BY <1>1, <1>3, <1>4, GoesOn

LEMMA SetAutoHeld ==
    ASSUME Inv, Held, NEW t \in Turn, NEW s \in Session, SetAuto(t, s)
    PROVE  Held'
<1> DEFINE q  == [[store_lock[s] EXCEPT !.auto = TRUE] EXCEPT !.updated = now + 1]
           st == [turn[t] EXCEPT !.at = "auto", !.target = s]
<1>1. /\ turn[t] \in TurnState /\ turn[t].at # "idle" /\ Go(t, st)
      /\ Grows /\ Touches(s, q) /\ file' \in {file, Empty}
  BY SetAutoInv, Under DEF SetAuto, Touches, Thins, Rewrites
<1>2. store_lock[s] # NoSession =>
          /\ q.status = store_lock[s].status /\ q.awaiting = store_lock[s].awaiting
          /\ q.auto = TRUE
  BY Found, Under DEF Record
<1>3. /\ st \in TurnState /\ st.at = "auto"
      /\ st.open = turn[t].open /\ st.snap = turn[t].snap
  BY <1>1 DEF TurnState, Place
<1> HIDE DEF q, st
<1>4. turn[t].open # 0 => GateIn(mem', turn[t].open)
  BY <1>1, <1>2, UpdateGate
<1> QED BY <1>1, <1>3, <1>4, GoesOn

\* The step the gate is looked at for is recorded.
LEMMA SetOutputHeld ==
    ASSUME Inv, Held, NEW t \in Turn, NEW s \in Session, SetOutput(t, s)
    PROVE  Held'
<1> DEFINE q  == [Recorded(store_lock[s]) EXCEPT !.updated = now + 1]
           st == [turn[t] EXCEPT !.at = "output", !.target = s]
<1>1. /\ turn[t] \in TurnState /\ turn[t].at \notin {"idle", "close"} /\ Go(t, st)
      /\ Grows /\ Touches(s, q) /\ file' \in {file, Empty} /\ loaded
  BY SetOutputInv, Under DEF SetOutput, Touches, Thins, Rewrites
<1>2. store_lock[s] # NoSession =>
          /\ q.status = store_lock[s].status /\ q.awaiting = store_lock[s].awaiting
          /\ q.auto = store_lock[s].auto /\ q.step \in q.outputs
  BY Found, Under DEF Record, Recorded
<1>3. /\ st \in TurnState /\ st.at = "output" /\ st.target = s
      /\ st.open = turn[t].open /\ st.snap = turn[t].snap
  BY <1>1 DEF TurnState, Place
<1> HIDE DEF q, st
<1>4. turn[t].open # 0 => GateIn(mem', turn[t].open)
  BY <1>1, <1>2, UpdateGate
<1>5. mem'[s] # NoSession => mem'[s].step \in mem'[s].outputs
  BY <1>1, <1>2 DEF Touches, Thins, Rewrites
<1>6. turn[t].open # 0 =>
          /\ turn[t].open <= created'
          /\ GateIn(file', turn[t].open) /\ GateIn(turn[t].snap, turn[t].open)
  BY <1>1, StillHolds
<1>7. Holds(st, mem', file', created') BY <1>3, <1>4, <1>5, <1>6 DEF Holds
<1> QED BY <1>1, <1>3, <1>7, HeldGo

LEMMA AdvanceOkHeld ==
    ASSUME Inv, Held, NEW t \in Turn, AdvanceOk(t)
    PROVE  Held'
<1>1. turn[t] \in TurnState /\ turn[t].at = "output" /\ turn[t].target \in Session
  BY Under DEF AdvanceOk, StateOK
<1>2. /\ Grows /\ file' = Empty
      /\ Rewrites(turn[t].target, Advanced(store_lock[turn[t].target]))
  BY <1>1, AdvanceInv, Under DEF AdvanceOk, Rewrites
<1> DEFINE st == [turn[t] EXCEPT !.at = "read",
                     !.open = IF @ = turn[t].target THEN 0 ELSE @]
<1>3. /\ st \in TurnState /\ st.at = "read" /\ st.snap = turn[t].snap
      /\ st.open \in {turn[t].open, 0} /\ st.open # turn[t].target
  <2>1. turn[t].target # 0 BY <1>1 DEF Session
  <2>2. st.open = IF turn[t].open = turn[t].target THEN 0 ELSE turn[t].open
    BY <1>1 DEF TurnState
  <2> QED BY <1>1, <2>1, <2>2 DEF TurnState, Place
<1>4. Go(t, st) BY DEF AdvanceOk
<1> HIDE DEF st
<1>5. st.open # 0 => GateIn(mem', st.open) BY <1>1, <1>2, <1>3, RewriteGate
<1> QED BY <1>2, <1>3, <1>4, <1>5, GoesOn

\* A section that only forgets.
LEMMA ThinHeld ==
    ASSUME Inv, Held, NEW t \in Turn, turn[t].at # "idle", NEW st \in TurnState,
           Go(t, st), Thins, Grows,
           st.open = turn[t].open, st.snap = turn[t].snap,
           st.at \notin {"idle", "close", "output"}
    PROVE  Held'
BY ThinGate, GoesOn DEF Thins

LEMMA IdleHeld ==
    ASSUME Inv, Held, NEW t \in Turn, Go(t, Idle), Grows, file' \in {file, Empty}
    PROVE  Held'
BY IdleOK, HeldGo DEF Holds, StateOK

LEMMA AdvanceErrHeld ==
    ASSUME Inv, Held, NEW t \in Turn, AdvanceErr(t)
    PROVE  Held'
<1>1. turn[t] \in TurnState /\ turn[t].at = "output" /\ turn[t].target \in Session
  BY Under DEF AdvanceErr, StateOK
<1>2. Thins /\ Grows BY <1>1, RefuseThins, ThinsGrow, Under DEF AdvanceErr
<1>3. /\ At(t, "work") \in TurnState /\ At(t, "work").at = "work"
      /\ At(t, "work").open = turn[t].open /\ At(t, "work").snap = turn[t].snap
  BY <1>1 DEF At, TurnState, Place
<1> QED BY <1>1, <1>2, <1>3, ThinHeld DEF AdvanceErr

LEMMA GetSessionHeld ==
    ASSUME Inv, Held, NEW t \in Turn, NEW here \in {"read", "emit"},
           NEW next \in {"emit", "work"}, GetSession(t, here, next)
    PROVE  Held'
<1>1. turn[t] \in TurnState /\ turn[t].at # "idle"
  BY Under DEF GetSession
<1>2. Thins /\ Grows BY CleanupThins, ThinsGrow, Under DEF GetSession
<1>3. PICK st \in {At(t, next), [turn[t] EXCEPT !.at = "file", !.back = next]} : Go(t, st)
  BY DEF GetSession
<1>4. /\ st \in TurnState /\ st.at \in {"emit", "work", "file"}
      /\ st.open = turn[t].open /\ st.snap = turn[t].snap
  BY <1>1 DEF At, TurnState, Place
<1> QED BY <1>1, <1>2, <1>3, <1>4, ThinHeld

LEMMA ReadFileHeld ==
    ASSUME Inv, Held, NEW t \in Turn, ReadFile(t)
    PROVE  Held'
<1> DEFINE st == IF flushing THEN At(t, turn[t].back)
                 ELSE [At(t, "merge") EXCEPT !.snap = file]
<1>1. /\ turn[t] \in TurnState /\ turn[t].at = "file"
      /\ turn[t].back \in {"emit", "work"} /\ file \in Store
      /\ Holds(turn[t], mem, file, created)
  BY Under DEF ReadFile, StateOK, StoreTypeOK, Held
<1>2. /\ mem' = mem /\ file' = file /\ created' = created
      /\ turn' = [turn EXCEPT ![t] = st]
  BY DEF ReadFile, storeVars
<1>3. /\ st \in TurnState /\ st.open = turn[t].open
      /\ st.at \in {"emit", "work", "merge"} /\ st.snap \in {turn[t].snap, file}
  <2>1. CASE flushing BY <1>1, <2>1 DEF At, TurnState, Place
  <2>2. CASE ~flushing BY <1>1, <2>2 DEF At, TurnState, Place
  <2> QED BY <2>1, <2>2
<1> HIDE DEF st
<1>4. Holds(st, mem, file, created) BY <1>1, <1>3 DEF Holds
<1>5. ASSUME NEW u \in Turn PROVE Holds(turn'[u], mem', file', created')
  <2>1. turn'[u] \in {st, turn[u]} /\ (u # t => turn'[u] = turn[u]) /\ (u = t => turn'[u] = st)
    BY <1>2, Under DEF TurnsOK
  <2> QED BY <1>2, <1>4, <2>1 DEF Held
<1> QED BY <1>5 DEF Held

LEMMA MergeFileHeld ==
    ASSUME Inv, Held, NEW t \in Turn, MergeFile(t)
    PROVE  Held'
<1>1. /\ turn[t] \in TurnState /\ turn[t].at = "merge"
      /\ turn[t].back \in {"emit", "work"} /\ MapOK(turn[t].snap)
      /\ Holds(turn[t], mem, file, created) /\ loaded
  BY Under DEF MergeFile, StateOK, Held
<1>2. /\ Grows /\ file' = file
      /\ \A s \in Session : mem'[s] \in {turn[t].snap[s], store_lock[s]}
  BY <1>1, MergeInv, Under DEF MergeFile, Merge, NoFlush
<1> DEFINE st == [turn[t] EXCEPT !.at = turn[t].back, !.snap = Empty]
<1>3. /\ st \in TurnState /\ st.at \in {"emit", "work"}
      /\ st.open = turn[t].open /\ st.snap = Empty
  BY <1>1 DEF TurnState, Place, Empty, Store
<1>4. Go(t, st) BY DEF MergeFile
<1> HIDE DEF st
<1>5. turn[t].open # 0 => GateIn(mem', turn[t].open)
  <2>1. turn[t].open # 0 => turn[t].open \in Session /\ store_lock = mem
    BY <1>1 DEF TurnState, store_lock
  <2> QED BY <1>1, <1>2, <2>1 DEF Holds, GateIn
<1> QED BY <1>2, <1>3, <1>4, <1>5, GoesOn

LEMMA CancelHeld ==
    ASSUME Inv, Held, NEW t \in Turn, NEW s \in Session, CancelBuild(t, s)
    PROVE  Held'
<1> DEFINE q == [[store_lock[s] EXCEPT !.status = "abandoned"] EXCEPT !.updated = now + 1]
           st == [turn[t] EXCEPT !.open = IF @ = s THEN 0 ELSE @]
<1>1. /\ turn[t] \in TurnState /\ turn[t].at = "work" /\ Go(t, st)
      /\ Grows /\ Touches(s, q) /\ file' \in {file, Empty}
  BY FinishInv, Under DEF CancelBuild, Touches, Thins, Rewrites
<1>2. /\ st \in TurnState /\ st.at = "work" /\ st.snap = turn[t].snap
      /\ st.open \in {turn[t].open, 0} /\ st.open # s
  BY <1>1 DEF TurnState, Session
<1> HIDE DEF q, st
<1>3. st.open # 0 => GateIn(mem', st.open)
  BY <1>1, <1>2, ThinGate, RewriteGate DEF Touches
<1> QED BY <1>1, <1>2, <1>3, GoesOn

LEMMA EndHeld ==
    ASSUME Inv, Held, NEW t \in Turn, End(t)
    PROVE  Held'
<1>1. CASE Respond(t)
  <2>1. turn[t] \in TurnState /\ turn[t].at = "work" BY <1>1, Under DEF Respond
  <2>2. Thins /\ Grows BY <1>1, CleanupThins, ThinsGrow, Under DEF Respond
  <2>3. CASE Go(t, Idle) BY <2>2, <2>3, IdleHeld DEF Thins
  <2>4. CASE Go(t, At(t, "adopt"))
    <3>1. /\ At(t, "adopt") \in TurnState /\ At(t, "adopt").at = "adopt"
          /\ At(t, "adopt").open = turn[t].open /\ At(t, "adopt").snap = turn[t].snap
      BY <2>1 DEF At, TurnState, Place
    <3> QED BY <2>1, <2>2, <2>4, <3>1, ThinHeld
  <2> QED BY <1>1, <2>3, <2>4 DEF Respond
<1>2. CASE Adopt(t)
  <2>1. turn[t].scope \in Conv BY <1>2, Under DEF Adopt, StateOK
  <2>2. Grows BY <1>2, <2>1, AdoptInv, Under DEF Adopt
  <2>3. file' \in {file, Empty}
    BY <1>2 DEF Adopt, adopt_orphan_for_conv, cleanup_expired, NoFlush, Flush
  <2> QED BY <1>2, <2>2, <2>3, IdleHeld DEF Adopt
<1>3. CASE Leave(t)
  <2>1. ASSUME NEW u \in Turn PROVE Holds(turn'[u], mem', file', created')
    <3>1. turn'[u] \in {Idle, turn[u]} BY <1>3, Under DEF Leave, TurnsOK
    <3> QED BY <1>3, <3>1, IdleOK DEF Leave, storeVars, Held, Holds
  <2> QED BY <2>1 DEF Held
<1> QED BY <1>1, <1>2, <1>3 DEF End

\* The steps of the store's own.
LEMMA StandHeld ==
    ASSUME Inv, Held, mem' = mem, file' \in {file, mem}, created' = created, turn' = turn
    PROVE  Held'
BY DEF Held, Holds, GateIn

LEMMA NextHeld ==
    ASSUME Inv, Held, [Next]_vars
    PROVE  Held'
<1>1. ASSUME NEW t \in Turn, Start(t) \/ Tool(t) \/ End(t)
      PROVE  Held'
  <2>1. CASE Start(t) BY <2>1, BeginHeld, LookHeld, CloseHeld DEF Start
  <2>2. CASE Tool(t)
    <3>1. CASE \E c \in Scope \cup {NoConv}, mode \in Modes, next \in {"emit", "work"} :
               StartBuild(t, c, mode, next)
      BY <3>1, StartBuildHeld
    <3>2. CASE \E s \in Known(t) :
                   SetTier(t, s) \/ SetAuto(t, s) \/ SetOutput(t, s) \/ CancelBuild(t, s)
      BY <3>2, KnownIsSession, SetTierHeld, SetAutoHeld, SetOutputHeld, CancelHeld
    <3>3. CASE AdvanceOk(t) \/ AdvanceErr(t) BY <3>3, AdvanceOkHeld, AdvanceErrHeld
    <3>4. CASE Read(t) \/ Emit(t) BY <3>4, GetSessionHeld DEF Read, Emit
    <3>5. CASE ReadFile(t) \/ MergeFile(t) BY <3>5, ReadFileHeld, MergeFileHeld
    <3> QED BY <2>2, <3>1, <3>2, <3>3, <3>4, <3>5 DEF Tool
  <2>3. CASE End(t) BY <2>3, EndHeld
  <2> QED BY <1>1, <2>1, <2>2, <2>3
<1>2. CASE EndFlush /\ UNCHANGED <<turn, count>>
  BY <1>2, StandHeld DEF EndFlush
<1>3. CASE (Expire \/ Pause) /\ UNCHANGED <<turn, count>>
  BY <1>3, StandHeld DEF Expire, Pause
<1>4. CASE Crash BY <1>4, IdleOK DEF Crash, Held, Holds
<1>5. CASE UNCHANGED vars BY <1>5, StandHeld DEF vars, storeVars
<1> QED BY <1>1, <1>2, <1>3, <1>4, <1>5 DEF Next

LEMMA HeldAlways == Spec => [](Inv /\ Held)
<1>1. Init => Inv /\ Held BY InitInv, IdleOK DEF Init, Held, Holds
<1>2. Inv /\ Held /\ [Next]_vars => (Inv /\ Held)' BY NextInv, NextHeld
<1> QED BY <1>1, <1>2, PTL DEF Spec

-----------------------------------------------------------------------------
(* The results. *)

\* Type correctness of the build sessions (build_session.rs) and of the turns of
\* the model over them (ai.rs).
THEOREM TypeCorrect == Spec => []TypeOK
<1>1. Inv => TypeOK BY DEF Inv, StoreInv, TurnsOK, Counts, TypeOK
<1> QED BY <1>1, InvAlways, PTL

\* advance_step's gate and reset_awaiting_for_conv: no build without auto_advance
\* is ever further than its user has answered, whatever turns, restarts, expiry
\* and the fallback to the file do to it.
THEOREM UserDecidesEachStepAlways == Spec => []UserDecidesEachStep
<1>1. Inv => UserDecidesEachStep
  BY DEF Inv, StoreInv, MapOK, RecordOK, UserDecidesEachStep
<1> QED BY <1>1, InvAlways, PTL

\* flush: what is in memory is on disk as soon as the mutex is free.
THEOREM SessionsOnDiskAlways == Spec => []SessionsOnDisk
<1>1. Inv => SessionsOnDisk
  BY DEF Inv, StoreInv, OnDisk, SessionsOnDisk
<1> QED BY <1>1, InvAlways, PTL

\* What was once seen of a build holds for the rest of its life: a restart or an
\* eviction never brings an older record back, get_session's fallback alone does.
THEOREM SeenIsKeptAlways == Spec => []SeenIsKept
<1>1. Inv => SeenIsKept
  BY Locked DEF Inv, SeenIn, SeenOK, SeenIsKept
<1> QED BY <1>1, InvAlways, PTL

\* start_build's scope and the adoption of orphans never mix a hub visitor's
\* builds with another's or the admin's.
THEOREM HubApartAlways == Spec => []HubApart
<1>1. Inv => HubApart
  BY Locked DEF Inv, MapOK, RecordOK, HubApart
<1> QED BY <1>1, InvAlways, PTL
\* advance_step after reset_awaiting_for_conv: the gate that a turn's own start
\* has opened stays open to it, through expiry, eviction, restarts of the file
\* into the map and fallbacks, until somebody changes the build.
THEOREM AnswerIsTakenAlways == Spec => []AnswerIsTaken
<1>1. Inv /\ Held => AnswerIsTaken
  <2>1. SUFFICES ASSUME Inv, Held, NEW t \in Turn,
                        turn[t].at = "output", turn[t].target = turn[t].open,
                        mem[turn[t].target] # NoSession
                 PROVE  CanAdvance(mem[turn[t].target])
    BY DEF AnswerIsTaken
  <2>2. turn[t].target \in Session BY <2>1, Under DEF StateOK
  <2>3. turn[t].open # 0 BY <2>1, <2>2 DEF Session
  <2> QED BY <2>1, <2>3 DEF Held, Holds, GateIn, GateOpen, CanAdvance
<1> QED BY <1>1, HeldAlways, PTL
=============================================================================
