--------------------------- MODULE ModuleCallsProofs ---------------------------
(***************************************************************************)
(* Proofs about TokenProvider and ModuleCalls, for any number of calls,    *)
(* tokens, logins and losses and for any issuer: the types and the lock,   *)
(* the safety properties of the slot and of the retry, that each step of a *)
(* call is one towards its end, and that the vault only gets newer.        *)
(***************************************************************************)
EXTENDS ModuleCalls, TLAPS

InFetch == {"fetch", "answered", "stored"}

-----------------------------------------------------------------------------
LEMMA RestingType == Resting \in CallState
BY ProviderAssumption DEF Resting, CallState, At, Kind, Token

LEMMA ProvidedType ==
    ASSUME NEW s \in CallState, NEW t \in Token
    PROVE  /\ Provided(s, t) \in CallState
           /\ Provided(s, t).at = "run" /\ Provided(s, t).kind = s.kind
           /\ Provided(s, t).force = s.force
           /\ Provided(s, t).refused = s.refused
           /\ Provided(s, t).t = IF s.kind = "ws" THEN t ELSE 0
           /\ Provided(s, t).renewal = 0
<1>0. 0 \in Token BY ProviderAssumption DEF Token
<1>1. ASSUME NEW u \in Token,
             Provided(s, t) = [s EXCEPT !.at = "run", !.t = u, !.with = 0, !.renewal = 0]
      PROVE  /\ Provided(s, t) \in CallState
             /\ Provided(s, t).at = "run" /\ Provided(s, t).kind = s.kind
             /\ Provided(s, t).force = s.force
             /\ Provided(s, t).refused = s.refused
             /\ Provided(s, t).t = u /\ Provided(s, t).renewal = 0
  <2> DEFINE r == [s EXCEPT !.at = "run", !.t = u, !.with = 0, !.renewal = 0]
  <2>1. /\ r.at = "run" /\ r.kind = s.kind /\ r.force = s.force
        /\ r.refused = s.refused /\ r.t = u /\ r.with = 0 /\ r.renewal = 0
    BY DEF CallState
  <2>2. r \in CallState BY DEF CallState, At
  <2> QED BY <1>1, <2>1, <2>2
<1>2. CASE s.kind = "ws"
  <2>1. Provided(s, t) = [s EXCEPT !.at = "run", !.t = t, !.with = 0, !.renewal = 0]
    BY <1>2 DEF Provided
  <2> QED BY <1>1, <1>2, <2>1
<1>3. CASE s.kind # "ws"
  <2>1. Provided(s, t) = [s EXCEPT !.at = "run", !.t = 0, !.with = 0, !.renewal = 0]
    BY <1>3 DEF Provided
  <2> QED BY <1>0, <1>1, <1>3, <2>1
<1> QED BY <1>2, <1>3

LEMMA FailedType ==
    ASSUME NEW s \in CallState
    PROVE  /\ Failed(s) \in CallState
           /\ Failed(s).at \in {"run", "idle"} /\ ~Failed(s).force
           /\ Failed(s).renewal = 0
<1>1. 0 \in Token BY ProviderAssumption DEF Token
<1>2. Resting.at = "idle" /\ ~Resting.force /\ Resting.renewal = 0 BY DEF Resting
<1> QED BY <1>1, <1>2, ProvidedType, RestingType DEF Failed

\* One call goes from place to place, and the others stay.
Moves(c, s) ==
    /\ call' \in [Call -> CallState]
    /\ call'[c] = s
    /\ \A d \in Call \ {c} : call'[d] = call[d]

LEMMA Moved ==
    ASSUME TypeOK, NEW c \in Call, NEW s \in CallState,
           call' = [call EXCEPT ![c] = s]
    PROVE  Moves(c, s)
BY DEF TypeOK, Moves

\* The lock stays with who is fetching.
LEMMA LockMoved ==
    ASSUME TypeOK, NEW c \in Call, NEW s \in CallState, Moves(c, s),
           \/ lock = c /\ s.at \in InFetch /\ lock' = c
           \/ lock = None /\ s.at \in InFetch /\ lock' = c
           \/ lock = c /\ s.at \notin InFetch /\ lock' = None
           \/ lock # c /\ s.at \notin InFetch /\ lock' = lock
    PROVE  /\ lock' \in Call \cup {None}
           /\ \A d \in Call : Fetching(d)' <=> lock' = d
<1>1. \A d \in Call \ {c} : Fetching(d)' <=> lock = d
  BY DEF TypeOK, Moves, Fetching
<1>2. Fetching(c)' <=> s.at \in InFetch BY DEF Moves, Fetching, InFetch
<1> QED BY <1>1, <1>2, ProviderAssumption DEF TypeOK

LEMMA CallTypes ==
    ASSUME TypeOK, NEW c \in Call
    PROVE  /\ call[c] \in CallState
           /\ call[c].at \in InFetch <=> lock = c
           /\ call[c].t \in Token /\ call[c].renewal \in Nat
           /\ call[c].refused \in Token /\ call[c].force \in BOOLEAN
           /\ slot.t \in Token /\ issued \in Nat /\ issued \in Token
BY ProviderAssumption DEF TypeOK, CallState, Fetching, InFetch, Slot, Token

LEMMA ProvideTypes ==
    ASSUME TypeOK, NEW c \in Call, Provide(c)
    PROVE  TypeOK' /\ \E s \in CallState : Moves(c, s)
<1>0. /\ call[c] \in CallState /\ slot.t \in Token /\ call[c].t \in Token
      /\ issued \in Nat /\ MaxTokens \in Nat
      /\ call[c].at \in InFetch <=> lock = c
  BY CallTypes, ProviderAssumption
<1>1. raced' \in BOOLEAN /\ UNCHANGED <<count, login>> BY DEF Provide, TypeOK
<1>2. CASE Cached(c)
  <2>1. Provided(call[c], slot.t) \in CallState BY <1>0, ProvidedType
  <2>2. Moves(c, Provided(call[c], slot.t))
    BY <1>2, <2>1, Moved DEF Cached
  <2>3. lock = None /\ lock' = lock /\ Provided(call[c], slot.t).at = "run"
    BY <1>0, <1>2, ProvidedType DEF Cached, providerVars
  <2>4. /\ lock' \in Call \cup {None}
        /\ \A d \in Call : Fetching(d)' <=> lock' = d
    BY <2>1, <2>2, <2>3, LockMoved, ProviderAssumption DEF InFetch
  <2> QED BY <1>1, <1>2, <2>1, <2>2, <2>4
          DEF Cached, providerVars, TypeOK, Moves
<1>3. CASE Fetch(c)
  <2> DEFINE s == [call[c] EXCEPT !.at = "fetch", !.with = secret]
  <2>1. s \in CallState /\ s.at = "fetch"
    BY <1>0 DEF TypeOK, CallState, At
  <2>2. call' = [call EXCEPT ![c] = s] BY <1>3 DEF Fetch
  <2> HIDE DEF s
  <2>3. Moves(c, s) BY <2>1, <2>2, Moved
  <2>4. /\ lock' \in Call \cup {None}
        /\ \A d \in Call : Fetching(d)' <=> lock' = d
    BY <1>3, <2>1, <2>3, LockMoved DEF InFetch, Fetch
  <2> QED BY <1>1, <1>3, <2>1, <2>3, <2>4 DEF Fetch, TypeOK, Moves
<1>4. ASSUME NEW renew \in BOOLEAN, Issue(c, renew)
      PROVE  TypeOK' /\ \E s \in CallState : Moves(c, s)
  <2> DEFINE u == IF renew THEN renewals + 1 ELSE 0
             s == [call[c] EXCEPT !.at = "answered", !.t = issued + 1, !.with = 0,
                                  !.renewal = u]
  <2>0. u \in Nat /\ issued + 1 \in Token
    BY <1>0, <1>4 DEF TypeOK, Token, Issue
  <2>2. call' = [call EXCEPT ![c] = s] BY <1>4 DEF Issue
  <2> HIDE DEF u
  <2>1. s \in CallState /\ s.at = "answered"
    BY <1>0, <2>0 DEF CallState, At
  <2> HIDE DEF s
  <2>3. Moves(c, s) BY <2>1, <2>2, Moved
  <2>4. lock = c BY <1>0, <1>4 DEF Issue, InFetch
  <2>5. /\ lock' \in Call \cup {None}
        /\ \A d \in Call : Fetching(d)' <=> lock' = d
    BY <1>4, <2>1, <2>3, <2>4, LockMoved DEF InFetch, Issue
  <2>6. issued' \in Token /\ good' \subseteq 1..issued'
    BY <1>0, <1>4 DEF Issue, NewToken, TypeOK, Token
  <2>7. renewals' \in Nat BY <1>4 DEF Issue, TypeOK
  <2> QED BY <1>1, <1>4, <2>1, <2>3, <2>5, <2>6, <2>7 DEF Issue, TypeOK, Moves
<1>5. CASE FetchFails(c)
  <2>1. Failed(call[c]) \in CallState /\ Failed(call[c]).at \notin InFetch
    BY <1>0, FailedType DEF InFetch
  <2>2. Moves(c, Failed(call[c])) BY <1>5, <2>1, Moved DEF FetchFails
  <2>3. lock = c BY <1>0, <1>5 DEF FetchFails, InFetch
  <2>4. /\ lock' \in Call \cup {None}
        /\ \A d \in Call : Fetching(d)' <=> lock' = d
    BY <1>5, <2>1, <2>2, <2>3, LockMoved DEF FetchFails
  <2> QED BY <1>1, <1>5, <2>1, <2>2, <2>4 DEF FetchFails, TypeOK, Moves
<1>6. CASE Store(c)
  <2>1. lock = c BY <1>0, <1>6 DEF Store, InFetch
  <2>2. slot' \in Slot BY <1>0, <1>6 DEF Store, Slot
  <2>3. CASE call[c].renewal # 0
    <3> DEFINE s == [call[c] EXCEPT !.at = "stored"]
    <3>1. s \in CallState /\ s.at = "stored" BY <1>0 DEF CallState, At
    <3>2. call' = [call EXCEPT ![c] = s] /\ lock' = lock BY <1>6, <2>3 DEF Store
    <3> HIDE DEF s
    <3>3. Moves(c, s) BY <3>1, <3>2, Moved
    <3>4. /\ lock' \in Call \cup {None}
          /\ \A d \in Call : Fetching(d)' <=> lock' = d
      BY <2>1, <3>1, <3>2, <3>3, LockMoved DEF InFetch
    <3> QED BY <1>1, <1>6, <2>2, <3>1, <3>3, <3>4 DEF Store, TypeOK, Moves
  <2>4. CASE call[c].renewal = 0
    <3> DEFINE s == Provided(call[c], call[c].t)
    <3>1. s \in CallState /\ s.at = "run" BY <1>0, ProvidedType
    <3>2. call' = [call EXCEPT ![c] = s] /\ lock' = None BY <1>6, <2>4 DEF Store
    <3> HIDE DEF s
    <3>3. Moves(c, s) BY <3>1, <3>2, Moved
    <3>4. /\ lock' \in Call \cup {None}
          /\ \A d \in Call : Fetching(d)' <=> lock' = d
      BY <2>1, <3>1, <3>2, <3>3, LockMoved DEF InFetch
    <3> QED BY <1>1, <1>6, <2>2, <3>1, <3>3, <3>4 DEF Store, TypeOK, Moves
  <2> QED BY <2>3, <2>4
<1>7. CASE StoreRenewal(c)
  <2> DEFINE s == Provided(call[c], call[c].t)
  <2>1. s \in CallState /\ s.at = "run" BY <1>0, ProvidedType
  <2>2. call' = [call EXCEPT ![c] = s] /\ lock' = None BY <1>7 DEF StoreRenewal
  <2> HIDE DEF s
  <2>3. Moves(c, s) BY <2>1, <2>2, Moved
  <2>4. lock = c BY <1>0, <1>7 DEF StoreRenewal, InFetch
  <2>5. /\ lock' \in Call \cup {None}
        /\ \A d \in Call : Fetching(d)' <=> lock' = d
    BY <2>1, <2>2, <2>3, <2>4, LockMoved DEF InFetch
  <2>6. secret' \in Nat \cup {Foreign} BY <1>7, CallTypes DEF StoreRenewal, TypeOK
  <2> QED BY <1>1, <1>7, <2>1, <2>3, <2>5, <2>6 DEF StoreRenewal, TypeOK, Moves
<1> QED BY <1>2, <1>3, <1>4, <1>5, <1>6, <1>7 DEF Provide, EnsureFresh

\* The other places of a call, none of which holds the lock afterwards.
LEMMA StepTypes ==
    ASSUME TypeOK, NEW c \in Call, Run(c) \/ Answered(c) \/ Invalid(c) \/ LoginRefused(c)
    PROVE  TypeOK' /\ UNCHANGED <<providerVars, count, login, raced>>
                   /\ \E s \in CallState : Moves(c, s) /\ lock # c
<1>0. /\ call[c] \in CallState /\ slot.t \in Token /\ call[c].t \in Token
      /\ call[c].at \in InFetch <=> lock = c
  BY CallTypes
<1>1. call[c].at \in {"run", "asked"}
  BY DEF Run, Answered, Invalid, LoginRefused
<1>2. lock # c BY <1>0, <1>1 DEF InFetch
<1>3. \E s \in CallState : s.at \notin InFetch /\ call' = [call EXCEPT ![c] = s]
  <2>1. CASE Run(c)
    <3> DEFINE u == IF call[c].kind = "ws" THEN call[c].t ELSE slot.t
               s == [call[c] EXCEPT !.at = "asked", !.t = u]
    <3>1. u \in Token BY <1>0
    <3>2. call' = [call EXCEPT ![c] = s] BY <2>1 DEF Run
    <3> HIDE DEF u
    <3>3. s \in CallState /\ s.at \notin InFetch
      BY <1>0, <3>1 DEF CallState, At, InFetch
    <3> QED BY <3>2, <3>3
  <2>2. Resting.at \notin InFetch BY DEF Resting, InFetch
  <2>3. CASE Answered(c) \/ LoginRefused(c)
    BY <2>2, <2>3, RestingType DEF Answered, LoginRefused
  <2>4. CASE Invalid(c) /\ call[c].force
    BY <2>2, <2>4, RestingType DEF Invalid
  <2>5. CASE Invalid(c) /\ ~call[c].force
    <3> DEFINE s == [call[c] EXCEPT !.at = "wait", !.force = TRUE,
                                    !.refused = call[c].t]
    <3>1. call' = [call EXCEPT ![c] = s] BY <2>5 DEF Invalid
    <3>2. s \in CallState /\ s.at \notin InFetch
      BY <1>0 DEF CallState, At, InFetch
    <3> QED BY <3>1, <3>2
  <2> QED BY <2>1, <2>3, <2>4, <2>5
<1>4. UNCHANGED <<providerVars, count, login, raced>>
  BY DEF Run, Answered, Invalid, LoginRefused
<1>5. PICK s \in CallState : s.at \notin InFetch /\ call' = [call EXCEPT ![c] = s]
  BY <1>3
<1>6. Moves(c, s) BY <1>5, Moved
<1>7. /\ lock' \in Call \cup {None}
      /\ \A d \in Call : Fetching(d)' <=> lock' = d
  BY <1>2, <1>4, <1>5, <1>6, LockMoved DEF providerVars
<1> QED BY <1>2, <1>4, <1>6, <1>7 DEF TypeOK, Moves, providerVars

LEMMA BeginTypes ==
    ASSUME TypeOK, NEW c \in Call, NEW kind \in Kind, Begin(c, kind)
    PROVE  /\ TypeOK' /\ UNCHANGED <<providerVars, login, raced>>
           /\ \E s \in CallState : Moves(c, s) /\ ~s.force /\ s.at = "wait"
<1> DEFINE s == [Resting EXCEPT !.at = "wait", !.kind = kind]
<1>1. s \in CallState /\ s.at = "wait" /\ ~s.force
  BY RestingType DEF CallState, At, Resting
<1>2. call' = [call EXCEPT ![c] = s] /\ call[c].at = "idle"
      /\ UNCHANGED <<providerVars, login, raced>>
  BY DEF Begin
<1> HIDE DEF s
<1>3. Moves(c, s) BY <1>1, <1>2, Moved
<1>4. lock # c BY <1>2, CallTypes DEF InFetch
<1>5. /\ lock' \in Call \cup {None}
      /\ \A d \in Call : Fetching(d)' <=> lock' = d
  BY <1>1, <1>2, <1>3, <1>4, LockMoved DEF InFetch, providerVars
<1>6. count' \in [calls : Nat, ages : Nat, logins : Nat]
  BY DEF Begin, TypeOK
<1> QED BY <1>1, <1>2, <1>3, <1>5, <1>6 DEF TypeOK, Moves, providerVars

LEMMA LossTypes ==
    ASSUME TypeOK, losses < MaxLosses, losses' = losses + 1
    PROVE  losses' \in 0..MaxLosses
BY ProviderAssumption DEF TypeOK

LEMMA ForfeitTypes ==
    ASSUME TypeOK, NEW c \in Call, Forfeit(c)
    PROVE  lost' \subseteq Token /\ unrenewed' \in BOOLEAN
BY CallTypes DEF Forfeit, TypeOK

\* An answer, a request or the process is lost.
LEMMA LoseTypes ==
    ASSUME TypeOK, NEW c \in Call, Lose(c)
    PROVE  TypeOK' /\ Moves(c, Failed(call[c])) /\ lock = c
<1>0. call[c] \in CallState /\ (call[c].at \in InFetch <=> lock = c) BY CallTypes
<1>1. Failed(call[c]) \in CallState /\ Failed(call[c]).at \notin InFetch
  BY <1>0, FailedType DEF InFetch
<1>2. Moves(c, Failed(call[c])) BY <1>1, Moved DEF Lose, AnswerLost
<1>3. lock = c BY <1>0 DEF Lose, AnswerLost, InFetch
<1>4. /\ lock' \in Call \cup {None}
      /\ \A d \in Call : Fetching(d)' <=> lock' = d
  BY <1>1, <1>2, <1>3, LockMoved DEF Lose, AnswerLost
<1>5. /\ losses' \in 0..MaxLosses /\ lost' \subseteq Token /\ unrenewed' \in BOOLEAN
  BY LossTypes, ForfeitTypes DEF Lose, AnswerLost
<1> QED BY <1>2, <1>3, <1>4, <1>5 DEF TypeOK, Moves, Lose, AnswerLost

LEMMA DropTypes ==
    ASSUME TypeOK, NEW c \in Call, Drop(c)
    PROVE  TypeOK' /\ Moves(c, Resting)
<1>0. call[c] \in CallState /\ (call[c].at \in InFetch <=> lock = c) BY CallTypes
<1>1. Resting \in CallState /\ Resting.at \notin InFetch
  BY RestingType DEF Resting, InFetch
<1>2. Moves(c, Resting) BY <1>1, Moved DEF Drop
<1>3. /\ lock' \in Call \cup {None}
      /\ \A d \in Call : Fetching(d)' <=> lock' = d
  BY <1>1, <1>2, LockMoved DEF Drop
<1>4. losses' \in 0..MaxLosses BY LossTypes DEF Drop
<1>5. lost' \subseteq Token /\ unrenewed' \in BOOLEAN
  BY ForfeitTypes DEF Drop, TypeOK
<1> QED BY <1>2, <1>3, <1>4, <1>5 DEF TypeOK, Moves, Drop

LEMMA CrashTypes ==
    ASSUME TypeOK, Crash
    PROVE  TypeOK' /\ \A d \in Call : call'[d] = Resting
<1>1. \A d \in Call : call'[d] = Resting BY DEF Crash
<1>2. call' \in [Call -> CallState] BY RestingType DEF Crash
<1>3. \A d \in Call : ~Fetching(d)' /\ lock' # d
  BY <1>1, ProviderAssumption DEF Crash, Fetching, Resting
<1>4. losses' \in 0..MaxLosses BY LossTypes DEF Crash
<1>5. lost' \subseteq Token /\ unrenewed' \in BOOLEAN
  BY CallTypes DEF Crash, TypeOK
<1> QED BY <1>1, <1>2, <1>3, <1>4, <1>5 DEF TypeOK, Crash

\* Time, the owner and other accounts leave the calls alone.
Elsewhere ==
    Expire \/ (\E t \in good : Revoke(t)) \/ Cross \/ Exchange \/ SetAccess \/ SetRefresh

LEMMA ElsewhereTypes ==
    ASSUME TypeOK, Elsewhere
    PROVE  TypeOK' /\ UNCHANGED <<policy, lock, call, losses, lost>>
<1>1. UNCHANGED <<policy, lock, call, losses, lost>>
  BY DEF Elsewhere, Expire, Revoke, Cross, AccountRenews, Exchange, SetAccess, SetRefresh
<1>2. \A d \in Call : Fetching(d)' <=> Fetching(d) BY <1>1 DEF Fetching
<1>3. /\ slot.t \in Token /\ slot.fresh \in BOOLEAN /\ login.t \in Token
      /\ login.renewal \in Nat /\ MaxTokens \in Nat
      /\ issued \in Nat /\ issued <= MaxTokens
  BY ProviderAssumption DEF TypeOK, Slot, Login, Token
<1>4. CASE Expire
  <2>1. slot' \in Slot BY <1>4 DEF TypeOK, Expire, Slot
  <2>2. count' \in [calls : Nat, ages : Nat, logins : Nat]
    BY <1>4 DEF TypeOK, Expire
  <2> QED BY <1>1, <1>2, <1>4, <2>1, <2>2 DEF TypeOK, Expire
<1>5. CASE \E t \in good : Revoke(t)
  BY <1>1, <1>2, <1>5 DEF TypeOK, Revoke
<1>6. CASE Exchange
  <2>1. issued' \in Token /\ good' \subseteq 1..issued' /\ renewals' \in Nat
    BY <1>3, <1>6 DEF TypeOK, Exchange, NewToken, Token
  <2>2. login' \in Login BY <1>3, <1>6 DEF TypeOK, Exchange, Login, Token
  <2>3. raced' \in BOOLEAN /\ count' \in [calls : Nat, ages : Nat, logins : Nat]
    BY <1>6 DEF TypeOK, Exchange
  <2> QED BY <1>1, <1>2, <1>6, <2>1, <2>2, <2>3 DEF TypeOK, Exchange
<1>7. CASE SetAccess
  <2>1. slot' \in Slot /\ login' \in Login
    BY <1>3, <1>7 DEF TypeOK, SetAccess, Slot, Login
  <2> QED BY <1>1, <1>2, <1>7, <2>1 DEF TypeOK, SetAccess
<1>8. CASE SetRefresh
  <2>1. NoLogin \in Login BY ProviderAssumption DEF NoLogin, Login, Token
  <2> QED BY <1>1, <1>2, <1>3, <1>8, <2>1 DEF TypeOK, SetRefresh
<1>9. CASE Cross
  <2>1. count' \in [calls : Nat, ages : Nat, logins : Nat]
    BY <1>9 DEF TypeOK, Cross
  <2> QED BY <1>1, <1>2, <1>9, <2>1 DEF TypeOK, Cross, AccountRenews
<1> QED BY <1>1, <1>4, <1>5, <1>6, <1>7, <1>8, <1>9 DEF Elsewhere

LEMMA InitTypes == Init => TypeOK
<1> SUFFICES ASSUME Init PROVE TypeOK
  OBVIOUS
<1>1. call \in [Call -> CallState] BY RestingType DEF Init
<1>2. \A c \in Call : ~Fetching(c) /\ lock # c
  BY ProviderAssumption DEF Init, ProviderInit, Fetching, Resting
<1>3. login \in Login /\ slot \in Slot
  BY ProviderAssumption DEF Init, ProviderInit, NoLogin, Login, Slot, Token
<1>4. issued \in Token /\ losses \in 0..MaxLosses
  BY ProviderAssumption DEF Init, ProviderInit, Token
<1> QED BY <1>1, <1>2, <1>3, <1>4 DEF TypeOK, Init, ProviderInit

LEMMA NextTypes == TypeOK /\ [Next]_vars => TypeOK'
<1> SUFFICES ASSUME TypeOK, [Next]_vars PROVE TypeOK'
  OBVIOUS
<1>1. ASSUME NEW c \in Call, Step(c) PROVE TypeOK'
  BY <1>1, ProvideTypes, StepTypes DEF Step
<1>2. ASSUME NEW c \in Call, Drop(c) \/ Lose(c) PROVE TypeOK'
  BY <1>2, DropTypes, LoseTypes
<1>3. ASSUME NEW c \in Call, NEW kind \in Kind, Begin(c, kind) PROVE TypeOK'
  BY <1>3, BeginTypes
<1>4. CASE Elsewhere BY <1>4, ElsewhereTypes
<1>5. CASE Crash BY <1>5, CrashTypes
<1>6. CASE UNCHANGED vars
  BY <1>6 DEF TypeOK, vars, providerVars, Fetching
<1> QED BY <1>1, <1>2, <1>3, <1>4, <1>5, <1>6 DEF Next, Elsewhere

\* Every reachable state is well formed, and the lock is held by the one call
\* that is fetching: no failed, dropped or crashed one keeps it.
THEOREM TypeCorrect == Spec => []TypeOK
BY InitTypes, NextTypes, PTL DEF Spec

-----------------------------------------------------------------------------
(* What each step of a call does to it, field by field. *)

Others(c) == \A d \in Call \ {c} : call'[d] = call[d]

\* c goes from one place to another and keeps what a retry needs.
From(c, a, b) ==
    /\ Others(c) /\ call[c].at = a /\ call'[c].at = b
    /\ call'[c].force = call[c].force /\ call'[c].refused = call[c].refused
    /\ call'[c].kind = call[c].kind

LEMMA CachedEffect ==
    ASSUME TypeOK, NEW c \in Call, Cached(c)
    PROVE  /\ From(c, "wait", "run") /\ ~call[c].force
           /\ call'[c].t = (IF call[c].kind = "ws" THEN slot.t ELSE 0)
           /\ call'[c].renewal = 0 /\ UNCHANGED providerVars
<1>1. call[c] \in CallState /\ slot.t \in Token BY CallTypes
<1>2. call' = [call EXCEPT ![c] = Provided(call[c], slot.t)] BY DEF Cached
<1>3. Moves(c, Provided(call[c], slot.t)) BY <1>1, <1>2, ProvidedType, Moved
<1> QED BY <1>1, <1>3, ProvidedType DEF Moves, From, Others, Cached

LEMMA FetchEffect ==
    ASSUME TypeOK, NEW c \in Call, Fetch(c)
    PROVE  /\ From(c, "wait", "fetch") /\ (~call[c].force => ~slot.fresh)
           /\ call'[c].t = call[c].t /\ call'[c].renewal = call[c].renewal
           /\ lock = None
           /\ UNCHANGED <<policy, issued, good, renewals, slot, secret, losses,
                          lost, unrenewed>>
<1>1. call \in [Call -> CallState] /\ call[c] \in CallState
  BY CallTypes DEF TypeOK
<1> DEFINE s == [call[c] EXCEPT !.at = "fetch", !.with = secret]
<1>2. /\ s.at = "fetch" /\ s.t = call[c].t /\ s.kind = call[c].kind
      /\ s.force = call[c].force /\ s.refused = call[c].refused
      /\ s.renewal = call[c].renewal
  BY <1>1 DEF CallState
<1>3. call' = [call EXCEPT ![c] = s] BY DEF Fetch
<1> HIDE DEF s
<1>4. call'[c] = s /\ Others(c) BY <1>1, <1>3 DEF Others
<1> QED BY <1>2, <1>4 DEF From, Fetch

LEMMA IssueEffect ==
    ASSUME TypeOK, NEW c \in Call, NEW renew \in BOOLEAN, Issue(c, renew)
    PROVE  /\ From(c, "fetch", "answered")
           /\ call'[c].t = issued + 1 /\ issued' = issued + 1
           /\ renewals' = (IF renew THEN renewals + 1 ELSE renewals)
           /\ call'[c].renewal = (IF renew THEN renewals + 1 ELSE 0)
           /\ UNCHANGED <<policy, slot, secret, lock, losses, lost, unrenewed>>
<1> DEFINE u == IF renew THEN renewals + 1 ELSE 0
           s == [call[c] EXCEPT !.at = "answered", !.t = issued + 1, !.with = 0,
                                !.renewal = u]
<1>1. call \in [Call -> CallState] /\ call[c] \in CallState
  BY CallTypes DEF TypeOK
<1>2. call' = [call EXCEPT ![c] = s] BY DEF Issue
<1>3. u = IF renew THEN renewals + 1 ELSE 0 OBVIOUS
<1> HIDE DEF u
<1>4. /\ s.at = "answered" /\ s.t = issued + 1 /\ s.renewal = u
      /\ s.kind = call[c].kind /\ s.force = call[c].force
      /\ s.refused = call[c].refused
  BY <1>1 DEF CallState
<1> HIDE DEF s
<1>5. call'[c] = s /\ Others(c) BY <1>1, <1>2 DEF Others
<1> QED BY <1>3, <1>4, <1>5 DEF Issue, From

LEMMA FetchFailsEffect ==
    ASSUME TypeOK, NEW c \in Call, FetchFails(c)
    PROVE  /\ Others(c) /\ call[c].at = "fetch"
           /\ call'[c].at \in {"run", "idle"} /\ ~call'[c].force
           /\ call'[c].renewal = 0
           /\ UNCHANGED <<policy, issued, good, renewals, slot, secret, losses,
                          lost, unrenewed>>
<1>1. call[c] \in CallState BY CallTypes
<1>2. Moves(c, Failed(call[c])) BY <1>1, FailedType, Moved DEF FetchFails
<1> QED BY <1>1, <1>2, FailedType DEF Moves, Others, FetchFails

\* Store without a replaced refresh token, and StoreRenewal, end the fetch.
LEMMA StoreEffect ==
    ASSUME TypeOK, NEW c \in Call, Store(c)
    PROVE  /\ From(c, "answered", IF call[c].renewal # 0 THEN "stored" ELSE "run")
           /\ slot' = [t |-> call[c].t, fresh |-> TRUE]
           /\ call[c].renewal # 0 =>
                 call'[c].t = call[c].t /\ call'[c].renewal = call[c].renewal
           /\ call[c].renewal = 0 =>
                 /\ call'[c].t = (IF call[c].kind = "ws" THEN call[c].t ELSE 0)
                 /\ call'[c].renewal = 0
           /\ UNCHANGED <<policy, issued, good, renewals, secret, losses, lost,
                          unrenewed>>
<1>1. call \in [Call -> CallState] /\ call[c] \in CallState /\ call[c].t \in Token
  BY CallTypes DEF TypeOK
<1>2. CASE call[c].renewal # 0
  <2> DEFINE s == [call[c] EXCEPT !.at = "stored"]
  <2>1. /\ s.at = "stored" /\ s.t = call[c].t /\ s.kind = call[c].kind
        /\ s.force = call[c].force /\ s.refused = call[c].refused
        /\ s.renewal = call[c].renewal
    BY <1>1 DEF CallState
  <2>2. call' = [call EXCEPT ![c] = s] BY <1>2 DEF Store
  <2> HIDE DEF s
  <2>3. call'[c] = s /\ Others(c) BY <1>1, <2>2 DEF Others
  <2> QED BY <1>2, <2>1, <2>3 DEF From, Store
<1>3. CASE call[c].renewal = 0
  <2>1. call' = [call EXCEPT ![c] = Provided(call[c], call[c].t)]
    BY <1>3 DEF Store
  <2>2. Moves(c, Provided(call[c], call[c].t)) BY <1>1, <2>1, ProvidedType, Moved
  <2> QED BY <1>1, <1>3, <2>2, ProvidedType DEF Moves, From, Others, Store
<1> QED BY <1>2, <1>3

LEMMA StoreRenewalEffect ==
    ASSUME TypeOK, NEW c \in Call, StoreRenewal(c)
    PROVE  /\ From(c, "stored", "run")
           /\ secret' = (IF policy.account THEN secret ELSE call[c].renewal)
           /\ call'[c].t = (IF call[c].kind = "ws" THEN call[c].t ELSE 0)
           /\ call'[c].renewal = 0
           /\ UNCHANGED <<policy, issued, good, renewals, slot, losses, lost,
                          unrenewed>>
<1>1. call[c] \in CallState /\ call[c].t \in Token BY CallTypes
<1>2. Moves(c, Provided(call[c], call[c].t))
  BY <1>1, ProvidedType, Moved DEF StoreRenewal
<1> QED BY <1>1, <1>2, ProvidedType DEF Moves, From, Others, StoreRenewal

LEMMA RunEffect ==
    ASSUME TypeOK, NEW c \in Call, Run(c)
    PROVE  /\ From(c, "run", "asked") /\ call'[c].renewal = call[c].renewal
           /\ call'[c].t = (IF call[c].kind = "ws" THEN call[c].t ELSE slot.t)
<1> DEFINE u == IF call[c].kind = "ws" THEN call[c].t ELSE slot.t
           s == [call[c] EXCEPT !.at = "asked", !.t = u]
<1>1. call \in [Call -> CallState] /\ call[c] \in CallState
  BY CallTypes DEF TypeOK
<1>2. call' = [call EXCEPT ![c] = s] BY DEF Run
<1>3. u = IF call[c].kind = "ws" THEN call[c].t ELSE slot.t OBVIOUS
<1> HIDE DEF u
<1>4. /\ s.at = "asked" /\ s.t = u /\ s.renewal = call[c].renewal
      /\ s.kind = call[c].kind /\ s.force = call[c].force
      /\ s.refused = call[c].refused
  BY <1>1 DEF CallState
<1> HIDE DEF s
<1>5. call'[c] = s /\ Others(c) BY <1>1, <1>2 DEF Others
<1> QED BY <1>3, <1>4, <1>5 DEF Run, From

LEMMA AskedEffect ==
    ASSUME TypeOK, NEW c \in Call, Answered(c) \/ Invalid(c) \/ LoginRefused(c)
    PROVE  /\ Others(c) /\ call[c].at = "asked"
           /\ \/ call'[c] = Resting
              \/ /\ call'[c].at = "wait" /\ call'[c].force
                 /\ call'[c].refused = call[c].t /\ call'[c].t = call[c].t
                 /\ call'[c].renewal = call[c].renewal
<1>1. call \in [Call -> CallState] /\ call[c] \in CallState
  BY CallTypes DEF TypeOK
<1> DEFINE s == [call[c] EXCEPT !.at = "wait", !.force = TRUE, !.refused = call[c].t]
<1>2. \/ call' = [call EXCEPT ![c] = Resting]
      \/ call' = [call EXCEPT ![c] = s]
  BY DEF Answered, Invalid, LoginRefused
<1>3. /\ s.at = "wait" /\ s.force /\ s.refused = call[c].t /\ s.t = call[c].t
      /\ s.renewal = call[c].renewal
  BY <1>1 DEF CallState
<1> HIDE DEF s
<1>4. (call'[c] = Resting \/ call'[c] = s) /\ Others(c)
  BY <1>1, <1>2 DEF Others
<1> QED BY <1>3, <1>4 DEF Answered, Invalid, LoginRefused

LEMMA LoseEffect ==
    ASSUME TypeOK, NEW c \in Call, Lose(c)
    PROVE  /\ Others(c) /\ call[c].at = "answered"
           /\ call'[c].at \in {"run", "idle"} /\ ~call'[c].force
           /\ call'[c].renewal = 0 /\ Forfeit(c)
           /\ UNCHANGED <<policy, issued, good, renewals, slot, secret, count,
                          login, raced>>
BY CallTypes, LoseTypes, FailedType DEF Moves, Others, Lose, AnswerLost

LEMMA BeginEffect ==
    ASSUME TypeOK, NEW c \in Call, NEW kind \in Kind, Begin(c, kind)
    PROVE  /\ Others(c) /\ call[c].at = "idle" /\ call'[c].at = "wait"
           /\ ~call'[c].force /\ call'[c].t = 0 /\ call'[c].refused = 0
           /\ call'[c].renewal = 0
BY DEF TypeOK, Others, Begin, Resting

-----------------------------------------------------------------------------
(***************************************************************************)
(* The inductive invariant.  While no login has met a fetch, the newest    *)
(* access token and the newest refresh token are each in the vault, lost,  *)
(* or in the hand of the one call or login that is about to store them.    *)
(***************************************************************************)
\* No token anywhere that was not issued.
Bounded ==
    /\ slot.t <= issued /\ login.t <= issued
    /\ \A c \in Call : call[c].t <= issued /\ call[c].refused <= issued

\* A replaced refresh token is carried until it is stored, and no longer.
InHand ==
    \A c \in Call : /\ call[c].renewal # 0 => call[c].at \in {"answered", "stored"}
                    /\ call[c].at = "stored" => call[c].renewal # 0

\* A login that is under way meets no fetch.
Apart == ~raced => login.at = "none" \/ \A c \in Call : ~Fetching(c)

Carried(t) ==
    \/ \E c \in Call : call[c].at = "answered" /\ call[c].t = t
    \/ login.at = "new" /\ login.t = t

Newest ==
    ~raced =>
        /\ \A c \in Call : call[c].at = "answered" => call[c].t = issued
        /\ login.at = "new" => login.t = issued
        /\ \A t \in 1..issued : t > slot.t /\ t \notin lost => Carried(t)

RenewalCarried ==
    \/ \E c \in Call : call[c].renewal # 0
    \/ login.at # "none"

Renewed ==
    ~raced /\ policy.refresh =>
        /\ \A c \in Call : call[c].renewal # 0 => call[c].renewal = renewals
        /\ login.at # "none" => login.renewal = renewals
        /\ ~policy.account /\ ~unrenewed /\ secret # Foreign
              => secret = renewals \/ RenewalCarried

\* What a second attempt will be made with was issued after the refusal.
Newer ==
    ~raced => \A c \in Call : call[c].force =>
        /\ call[c].at \in {"answered", "stored", "asked"}
              => call[c].t > call[c].refused
        /\ call[c].at = "stored" => slot.t = call[c].t
        /\ call[c].at = "run" => IF call[c].kind = "ws"
                                 THEN call[c].t > call[c].refused
                                 ELSE slot.t > call[c].refused

Inv == /\ TypeOK /\ OneFetchPerExpiry
       /\ Bounded /\ InHand /\ Apart /\ Newest /\ Renewed /\ Newer

\* The rest of Inv, where the types are known.
Safe == OneFetchPerExpiry /\ Bounded /\ InHand /\ Apart /\ Newest /\ Renewed /\ Newer

LEMMA Known ==
    ASSUME TypeOK
    PROVE  /\ issued \in Nat /\ slot.t \in Nat /\ login.t \in Nat
           /\ renewals \in Nat /\ login.renewal \in Nat
           /\ \A c \in Call : /\ call[c].t \in Nat /\ call[c].refused \in Nat
                              /\ call[c].renewal \in Nat
           /\ \A c, d \in Call : Fetching(c) /\ Fetching(d) => c = d
BY ProviderAssumption DEF TypeOK, CallState, Slot, Login, Token

LEMMA InitSafe == Init => Safe
<1> SUFFICES ASSUME Init PROVE Safe
  OBVIOUS
<1> USE DEF Init, ProviderInit, Resting, NoLogin
<1>1. OneFetchPerExpiry BY DEF OneFetchPerExpiry
<1>2. Bounded BY DEF Bounded
<1>3. InHand /\ Apart BY DEF InHand, Apart
<1>4. Newest BY DEF Newest
<1>5. Renewed BY DEF Renewed
<1>6. Newer BY DEF Newer
<1> QED BY <1>1, <1>2, <1>3, <1>4, <1>5, <1>6 DEF Safe

\* Raced once, raced for ever; a step of a call notices a login under way.
LEMMA ProvideApart ==
    ASSUME TypeOK, NEW c \in Call, Provide(c)
    PROVE  Apart' /\ (~raced' => ~raced)
BY DEF Provide, Apart

LEMMA CachedSafe ==
    ASSUME Inv, TypeOK', NEW c \in Call, Provide(c), Cached(c)
    PROVE  Safe'
<1>0. TypeOK /\ Safe BY DEF Inv, Safe
<1>1. /\ From(c, "wait", "run") /\ ~call[c].force
      /\ call'[c].t = (IF call[c].kind = "ws" THEN slot.t ELSE 0)
      /\ call'[c].renewal = 0 /\ UNCHANGED <<providerVars, login>>
  BY <1>0, CachedEffect DEF Provide
<1>2. Apart' /\ (~raced' => ~raced) BY <1>0, ProvideApart
<1>3. OneFetchPerExpiry'
  BY <1>0, <1>1 DEF Safe, OneFetchPerExpiry, From, Others, providerVars
<1>4. Bounded'
  BY <1>0, <1>1, Known DEF Safe, Bounded, From, Others, providerVars
<1>5. InHand' BY <1>0, <1>1 DEF Safe, InHand, From, Others
<1>6. Newest'
  BY <1>0, <1>1, <1>2 DEF Safe, Newest, Carried, From, Others, providerVars
<1>7. Renewed'
  BY <1>0, <1>1, <1>2 DEF Safe, Renewed, RenewalCarried, InHand, From, Others, providerVars
<1>8. Newer'
  BY <1>0, <1>1, <1>2 DEF Safe, Newer, From, Others, providerVars
<1> QED BY <1>2, <1>3, <1>4, <1>5, <1>6, <1>7, <1>8 DEF Safe

LEMMA FetchSafe ==
    ASSUME Inv, TypeOK', NEW c \in Call, Provide(c), Fetch(c)
    PROVE  Safe'
<1>0. TypeOK /\ Safe BY DEF Inv, Safe
<1>1. /\ From(c, "wait", "fetch") /\ (~call[c].force => ~slot.fresh)
      /\ call'[c].t = call[c].t /\ call'[c].renewal = call[c].renewal
      /\ UNCHANGED <<policy, issued, good, renewals, slot, secret, losses,
                     lost, unrenewed, login>>
  BY <1>0, FetchEffect DEF Provide
<1>2. Apart' /\ (~raced' => ~raced) BY <1>0, ProvideApart
<1>3. OneFetchPerExpiry'
  BY <1>0, <1>1 DEF Safe, OneFetchPerExpiry, From, Others
<1>4. Bounded' BY <1>0, <1>1 DEF Safe, Bounded, From, Others
<1>5. InHand' BY <1>0, <1>1 DEF Safe, InHand, From, Others
<1>6. Newest'
  BY <1>0, <1>1, <1>2 DEF Safe, Newest, Carried, From, Others
<1>7. Renewed'
  BY <1>0, <1>1, <1>2 DEF Safe, Renewed, RenewalCarried, From, Others
<1>8. Newer' BY <1>0, <1>1, <1>2 DEF Safe, Newer, From, Others
<1> QED BY <1>2, <1>3, <1>4, <1>5, <1>6, <1>7, <1>8 DEF Safe

LEMMA IssueSafe ==
    ASSUME Inv, TypeOK', NEW c \in Call, Provide(c), NEW renew \in BOOLEAN,
           Issue(c, renew)
    PROVE  Safe'
<1>0. TypeOK /\ Safe BY DEF Inv, Safe
<1>1. /\ From(c, "fetch", "answered")
      /\ call'[c].t = issued + 1 /\ issued' = issued + 1
      /\ renewals' = (IF renew THEN renewals + 1 ELSE renewals)
      /\ call'[c].renewal = (IF renew THEN renewals + 1 ELSE 0)
      /\ UNCHANGED <<policy, slot, secret, lock, losses, lost, unrenewed, login>>
  BY <1>0, IssueEffect DEF Provide
<1>2. Apart' /\ (~raced' => ~raced) BY <1>0, ProvideApart
<1>a. Fetching(c) /\ \A d \in Call \ {c} : ~Fetching(d)
  BY <1>0, <1>1, Known DEF From, Fetching
<1>b. ~raced => login.at = "none" BY <1>0, <1>a DEF Safe, Apart
<1>3. OneFetchPerExpiry'
  BY <1>0, <1>1 DEF Safe, OneFetchPerExpiry, From, Others
<1>4. Bounded' BY <1>0, <1>1, Known DEF Safe, Bounded, From, Others
<1>5. InHand' BY <1>0, <1>1 DEF Safe, InHand, From, Others
<1>6. Newest'
  <2> SUFFICES ASSUME ~raced' PROVE Newest'
    BY DEF Newest
  <2>1. \A d \in Call : call'[d].at = "answered" => call'[d].t = issued'
    BY <1>1, <1>a DEF From, Others, Fetching
  <2>2. login'.at # "new" BY <1>1, <1>2, <1>b
  <2>3. ASSUME NEW t \in 1..issued', t > slot'.t, t \notin lost'
        PROVE  Carried(t)'
    <3>1. CASE t = issued + 1 BY <1>1, <3>1 DEF Carried, From
    <3>2. CASE t # issued + 1
      <4>1. t \in 1..issued BY <1>0, <1>1, <2>3, <3>2, Known
      <4>2. Carried(t) BY <1>0, <1>1, <1>2, <2>3, <4>1 DEF Safe, Newest
      <4> QED BY <1>1, <1>2, <1>a, <1>b, <4>2 DEF Carried, Fetching, From
    <3> QED BY <3>1, <3>2
  <2> QED BY <2>1, <2>2, <2>3 DEF Newest
<1>7. Renewed'
  <2> SUFFICES ASSUME ~raced', policy.refresh PROVE Renewed'
    BY <1>1 DEF Renewed
  <2>1. \A d \in Call \ {c} : call'[d].renewal = 0
    BY <1>0, <1>1, <1>a DEF Safe, InHand, Fetching, From, Others
  <2>2. call[c].renewal = 0 BY <1>0, <1>1 DEF Safe, InHand, From
  <2>3. login'.at = "none" BY <1>1, <1>2, <1>b
  <2>4. ~policy.account /\ ~unrenewed /\ secret # Foreign => secret = renewals
    BY <1>0, <1>1, <1>2, <2>1, <2>2, <2>3
    DEF Safe, Renewed, RenewalCarried, From, Others
  <2> QED BY <1>0, <1>1, <2>1, <2>3, <2>4, Known DEF Renewed, RenewalCarried
<1>8. Newer'
  <2> SUFFICES ASSUME ~raced' PROVE Newer'
    BY DEF Newer
  <2>1. call'[c].t > call'[c].refused
    BY <1>0, <1>1, Known DEF Safe, Bounded, From
  <2> QED BY <1>0, <1>1, <1>2, <2>1 DEF Safe, Newer, From, Others
<1> QED BY <1>2, <1>3, <1>4, <1>5, <1>6, <1>7, <1>8 DEF Safe

LEMMA FetchFailsSafe ==
    ASSUME Inv, TypeOK', NEW c \in Call, Provide(c), FetchFails(c)
    PROVE  Safe'
<1>0. TypeOK /\ Safe BY DEF Inv, Safe
<1>1. /\ Others(c) /\ call[c].at = "fetch"
      /\ call'[c].at \in {"run", "idle"} /\ ~call'[c].force
      /\ call'[c].renewal = 0
      /\ UNCHANGED <<policy, issued, good, renewals, slot, secret, losses,
                     lost, unrenewed, login>>
  BY <1>0, FetchFailsEffect DEF Provide
<1>2. Apart' /\ (~raced' => ~raced) BY <1>0, ProvideApart
<1>a. call'[c].t = 0 /\ call'[c].refused \in {0, call[c].refused}
  <2>1. call[c] \in CallState /\ 0 \in Token
    BY <1>0, CallTypes, ProviderAssumption DEF Token
  <2>2. call'[c] = Failed(call[c]) BY <1>0 DEF FetchFails, TypeOK
  <2>3. Resting.t = 0 /\ Resting.refused = 0 BY DEF Resting
  <2> QED BY <2>1, <2>2, <2>3, ProvidedType DEF Failed
<1>3. OneFetchPerExpiry'
  BY <1>0, <1>1 DEF Safe, OneFetchPerExpiry, Others
<1>4. Bounded' BY <1>0, <1>1, <1>a, Known DEF Safe, Bounded, Others
<1>5. InHand' BY <1>0, <1>1 DEF Safe, InHand, Others
<1>6. Newest'
  BY <1>0, <1>1, <1>2 DEF Safe, Newest, Carried, Others
<1>7. Renewed'
  BY <1>0, <1>1, <1>2 DEF Safe, Renewed, RenewalCarried, InHand, Others
<1>8. Newer' BY <1>0, <1>1, <1>2 DEF Safe, Newer, Others
<1> QED BY <1>2, <1>3, <1>4, <1>5, <1>6, <1>7, <1>8 DEF Safe

LEMMA StoreSafe ==
    ASSUME Inv, TypeOK', NEW c \in Call, Provide(c), Store(c)
    PROVE  Safe'
<1>0. TypeOK /\ Safe BY DEF Inv, Safe
<1>1. /\ From(c, "answered", IF call[c].renewal # 0 THEN "stored" ELSE "run")
      /\ slot' = [t |-> call[c].t, fresh |-> TRUE]
      /\ call[c].renewal # 0 =>
            call'[c].t = call[c].t /\ call'[c].renewal = call[c].renewal
      /\ call[c].renewal = 0 =>
            /\ call'[c].t = (IF call[c].kind = "ws" THEN call[c].t ELSE 0)
            /\ call'[c].renewal = 0
      /\ UNCHANGED <<policy, issued, good, renewals, secret, losses, lost,
                     unrenewed, login>>
  BY <1>0, StoreEffect DEF Provide
<1>2. Apart' /\ (~raced' => ~raced) BY <1>0, ProvideApart
<1>a. Fetching(c) /\ \A d \in Call \ {c} : ~Fetching(d)
  BY <1>0, <1>1, Known DEF From, Fetching
<1>b. ~raced => call[c].t = issued /\ login.at = "none"
  BY <1>0, <1>1, <1>a DEF Safe, Newest, Apart, From
<1>3. OneFetchPerExpiry'
  BY <1>1, <1>a DEF OneFetchPerExpiry, From, Others, Fetching
<1>4. Bounded' BY <1>0, <1>1, Known DEF Safe, Bounded, From, Others
<1>5. InHand' BY <1>0, <1>1 DEF Safe, InHand, From, Others
<1>6. Newest'
  <2> SUFFICES ASSUME ~raced' PROVE Newest'
    BY DEF Newest
  <2>1. slot'.t = issued' /\ login'.at = "none" BY <1>1, <1>2, <1>b
  <2>2. \A d \in Call : call'[d].at # "answered"
    BY <1>1, <1>a DEF From, Others, Fetching
  <2>3. \A t \in 1..issued' : ~(t > slot'.t) BY <1>0, <1>1, <2>1, Known
  <2> QED BY <2>1, <2>2, <2>3 DEF Newest
<1>7. Renewed'
  <2> SUFFICES ASSUME ~raced', policy.refresh PROVE Renewed'
    BY <1>1 DEF Renewed
  <2>1. \A d \in Call : call'[d].renewal = call[d].renewal
    BY <1>1 DEF From, Others
  <2> QED BY <1>0, <1>1, <1>2, <2>1 DEF Safe, Renewed, RenewalCarried
<1>8. Newer'
  <2> SUFFICES ASSUME ~raced', NEW d \in Call, call'[d].force
               PROVE  /\ call'[d].at \in {"answered", "stored", "asked"}
                            => call'[d].t > call'[d].refused
                      /\ call'[d].at = "stored" => slot'.t = call'[d].t
                      /\ call'[d].at = "run" => IF call'[d].kind = "ws"
                                               THEN call'[d].t > call'[d].refused
                                               ELSE slot'.t > call'[d].refused
    BY DEF Newer
  <2>1. CASE d = c
    BY <1>0, <1>1, <1>2, <2>1 DEF Safe, Newer, From
  <2>2. CASE d # c
    <3>1. call'[d] = call[d] /\ ~Fetching(d) BY <1>1, <1>a, <2>2 DEF From, Others
    <3>2. slot'.t >= slot.t
      BY <1>0, <1>1, <1>2, <1>b, Known DEF Safe, Bounded
    <3>3. slot.t \in Nat /\ slot'.t \in Nat /\ call[d].refused \in Nat
      BY <1>0, <1>1, Known
    <3> QED BY <1>0, <1>2, <3>1, <3>2, <3>3 DEF Safe, Newer, Fetching
  <2> QED BY <2>1, <2>2
<1> QED BY <1>2, <1>3, <1>4, <1>5, <1>6, <1>7, <1>8 DEF Safe

LEMMA StoreRenewalSafe ==
    ASSUME Inv, TypeOK', NEW c \in Call, Provide(c), StoreRenewal(c)
    PROVE  Safe'
<1>0. TypeOK /\ Safe BY DEF Inv, Safe
<1>1. /\ From(c, "stored", "run")
      /\ secret' = (IF policy.account THEN secret ELSE call[c].renewal)
      /\ call'[c].t = (IF call[c].kind = "ws" THEN call[c].t ELSE 0)
      /\ call'[c].renewal = 0
      /\ UNCHANGED <<policy, issued, good, renewals, slot, losses, lost,
                     unrenewed, login>>
  BY <1>0, StoreRenewalEffect DEF Provide
<1>2. Apart' /\ (~raced' => ~raced) BY <1>0, ProvideApart
<1>a. Fetching(c) /\ \A d \in Call \ {c} : ~Fetching(d)
  BY <1>0, <1>1, Known DEF From, Fetching
<1>b. ~raced => login.at = "none" BY <1>0, <1>a DEF Safe, Apart
<1>3. OneFetchPerExpiry'
  BY <1>0, <1>1 DEF Safe, OneFetchPerExpiry, From, Others
<1>4. Bounded' BY <1>0, <1>1, Known DEF Safe, Bounded, From, Others
<1>5. InHand' BY <1>0, <1>1 DEF Safe, InHand, From, Others
<1>6. Newest'
  BY <1>0, <1>1, <1>2 DEF Safe, Newest, Carried, From, Others
<1>7. Renewed'
  <2> SUFFICES ASSUME ~raced', policy.refresh PROVE Renewed'
    BY <1>1 DEF Renewed
  <2>1. \A d \in Call : call'[d].renewal = 0
    BY <1>0, <1>1, <1>a DEF Safe, InHand, Fetching, From, Others
  <2>2. login'.at = "none" BY <1>1, <1>2, <1>b
  <2>3. ~policy.account => secret' = renewals
    BY <1>0, <1>1, <1>2, <1>a, <1>b
    DEF Safe, Renewed, RenewalCarried, InHand, Fetching, From
  <2> QED BY <1>1, <2>1, <2>2, <2>3 DEF Renewed
<1>8. Newer' BY <1>0, <1>1, <1>2 DEF Safe, Newer, From, Others
<1> QED BY <1>2, <1>3, <1>4, <1>5, <1>6, <1>7, <1>8 DEF Safe

LEMMA ProvideSafe ==
    ASSUME Inv, TypeOK', NEW c \in Call, Provide(c)
    PROVE  Safe'
BY CachedSafe, FetchSafe, IssueSafe, FetchFailsSafe, StoreSafe, StoreRenewalSafe
   DEF Provide, EnsureFresh

LEMMA StepSafe ==
    ASSUME Inv, TypeOK', NEW c \in Call,
           Run(c) \/ Answered(c) \/ Invalid(c) \/ LoginRefused(c)
    PROVE  Safe'
<1>0. TypeOK /\ Safe BY DEF Inv, Safe
<1>1. UNCHANGED <<providerVars, count, login, raced>>
  BY DEF Run, Answered, Invalid, LoginRefused
<1>2. CASE Run(c)
  <2>1. /\ From(c, "run", "asked") /\ call'[c].renewal = call[c].renewal
        /\ call'[c].t = (IF call[c].kind = "ws" THEN call[c].t ELSE slot.t)
    BY <1>0, <1>2, RunEffect
  <2> USE <1>0, <1>1, <2>1 DEF Safe, From, Others, providerVars
  <2>2. OneFetchPerExpiry' BY DEF OneFetchPerExpiry
  <2>3. Bounded' BY DEF Bounded
  <2>4. InHand' BY DEF InHand
  <2>5. Apart' BY DEF Apart, Fetching
  <2>6. Newest' BY DEF Newest, Carried
  <2>7. Renewed' BY DEF Renewed, RenewalCarried
  <2>8. Newer' BY DEF Newer
  <2> QED BY <2>2, <2>3, <2>4, <2>5, <2>6, <2>7, <2>8
<1>3. CASE Answered(c) \/ Invalid(c) \/ LoginRefused(c)
  <2>1. /\ Others(c) /\ call[c].at = "asked"
        /\ \/ call'[c] = Resting
           \/ /\ call'[c].at = "wait" /\ call'[c].force
              /\ call'[c].refused = call[c].t /\ call'[c].t = call[c].t
              /\ call'[c].renewal = call[c].renewal
    BY <1>0, <1>3, AskedEffect
  <2>2. /\ Resting.at = "idle" /\ Resting.t = 0 /\ Resting.refused = 0
        /\ Resting.renewal = 0 /\ ~Resting.force
    BY DEF Resting
  <2> USE <1>0, <1>1, <2>1, <2>2 DEF Safe, Others, providerVars
  <2>3. OneFetchPerExpiry' BY DEF OneFetchPerExpiry
  <2>4. Bounded' BY Known DEF Bounded
  <2>5. InHand' BY DEF InHand
  <2>6. Apart' BY DEF Apart, Fetching
  <2>7. Newest' BY DEF Newest, Carried
  <2>8. Renewed' BY DEF Renewed, RenewalCarried, InHand
  <2>9. Newer' BY DEF Newer
  <2> QED BY <2>3, <2>4, <2>5, <2>6, <2>7, <2>8, <2>9
<1> QED BY <1>2, <1>3

LEMMA BeginSafe ==
    ASSUME Inv, TypeOK', NEW c \in Call, NEW kind \in Kind, Begin(c, kind)
    PROVE  Safe'
<1>0. TypeOK /\ Safe BY DEF Inv, Safe
<1>1. /\ Others(c) /\ call[c].at = "idle" /\ call'[c].at = "wait"
      /\ ~call'[c].force /\ call'[c].t = 0 /\ call'[c].refused = 0
      /\ call'[c].renewal = 0
      /\ UNCHANGED <<providerVars, login, raced>>
  BY <1>0, BeginEffect DEF Begin
<1> USE <1>0, <1>1 DEF Safe, Others, providerVars
<1>3. OneFetchPerExpiry' BY DEF OneFetchPerExpiry
<1>4. Bounded' BY Known DEF Bounded
<1>5. InHand' BY DEF InHand
<1>6. Apart' BY DEF Apart, Fetching
<1>7. Newest' BY DEF Newest, Carried
<1>8. Renewed' BY DEF Renewed, RenewalCarried, InHand
<1>9. Newer' BY DEF Newer
<1> QED BY <1>3, <1>4, <1>5, <1>6, <1>7, <1>8, <1>9

\* A token in the hand of c is lost with it, and so is a renewal.
LEMMA GoneSafe ==
    ASSUME Inv, TypeOK', NEW c \in Call, Others(c),
           call'[c].at \in {"run", "idle"}, ~call'[c].force,
           call'[c].renewal = 0, call'[c].t = 0,
           call'[c].refused \in {0, call[c].refused},
           IF call[c].at = "answered" THEN Forfeit(c)
           ELSE UNCHANGED <<lost, unrenewed>>,
           call[c].at # "stored",
           UNCHANGED <<policy, issued, good, renewals, slot, secret, login, raced>>
    PROVE  Safe'
<1>0. TypeOK /\ Safe BY DEF Inv, Safe
<1>1. OneFetchPerExpiry' BY <1>0 DEF Safe, OneFetchPerExpiry, Others
<1>2. Bounded' BY <1>0, Known DEF Safe, Bounded, Others
<1>3. InHand' BY <1>0 DEF Safe, InHand, Others
<1>4. Apart' BY <1>0 DEF Safe, Apart, Fetching, Others
<1>5. Newest'
  BY <1>0 DEF Safe, Newest, Carried, Others, Forfeit
<1>6. Renewed'
  <2>1. ~unrenewed' => ~unrenewed /\ call[c].renewal = 0
    BY <1>0 DEF Safe, InHand, Forfeit
  <2> QED BY <1>0, <2>1 DEF Safe, Renewed, RenewalCarried, Others
<1>7. Newer' BY <1>0 DEF Safe, Newer, Others
<1> QED BY <1>1, <1>2, <1>3, <1>4, <1>5, <1>6, <1>7 DEF Safe

LEMMA LossSafe ==
    ASSUME Inv, TypeOK', NEW c \in Call, Drop(c) \/ Lose(c)
    PROVE  Safe'
<1>0. TypeOK /\ call[c] \in CallState /\ 0 \in Token
  BY CallTypes, ProviderAssumption DEF Inv, Token
<1>1. /\ Resting.at = "idle" /\ Resting.t = 0 /\ Resting.refused = 0
      /\ Resting.renewal = 0 /\ ~Resting.force
  BY DEF Resting
<1>2. CASE Drop(c)
  <2>1. Others(c) /\ call'[c] = Resting
    BY <1>0, <1>2, DropTypes DEF Moves, Others
  <2>2. UNCHANGED <<policy, issued, good, renewals, slot, secret, login, raced>>
    BY <1>2 DEF Drop
  <2>3. call[c].at # "stored" /\ IF call[c].at = "answered" THEN Forfeit(c)
                                 ELSE UNCHANGED <<lost, unrenewed>>
    BY <1>2 DEF Drop
  <2> QED BY <1>1, <2>1, <2>2, <2>3, GoneSafe
<1>3. CASE Lose(c)
  <2>1. /\ Others(c) /\ call[c].at = "answered"
        /\ call'[c].at \in {"run", "idle"} /\ ~call'[c].force
        /\ call'[c].renewal = 0 /\ Forfeit(c)
        /\ UNCHANGED <<policy, issued, good, renewals, slot, secret, login, raced>>
    BY <1>0, <1>3, LoseEffect
  <2>2. call'[c].t = 0 /\ call'[c].refused \in {0, call[c].refused}
    <3>1. call'[c] = Failed(call[c]) BY <1>0, <1>3, LoseTypes DEF Moves
    <3> QED BY <1>0, <1>1, <3>1, ProvidedType DEF Failed
  <2> QED BY <2>1, <2>2, GoneSafe
<1> QED BY <1>2, <1>3

LEMMA CrashSafe ==
    ASSUME Inv, TypeOK', Crash
    PROVE  Safe'
<1>0. TypeOK /\ Safe BY DEF Inv, Safe
<1>1. \A c \in Call : /\ call'[c].at = "idle" /\ call'[c].t = 0
                      /\ call'[c].refused = 0 /\ call'[c].renewal = 0
                      /\ ~call'[c].force
  BY DEF Crash, Resting
<1>2. UNCHANGED <<policy, issued, good, renewals, slot, secret, login, raced>>
  BY DEF Crash
<1>3. OneFetchPerExpiry' BY <1>1 DEF OneFetchPerExpiry
<1>4. Bounded' BY <1>0, <1>1, <1>2, Known DEF Safe, Bounded
<1>5. InHand' /\ Apart' BY <1>1 DEF InHand, Apart, Fetching
<1>6. Newest'
  <2>1. \A t : (\E c \in Call : call[c].at = "answered" /\ call[c].t = t) => t \in lost'
    BY DEF Crash
  <2>2. lost \subseteq lost' BY DEF Crash
  <2> QED BY <1>0, <1>1, <1>2, <2>1, <2>2 DEF Safe, Newest, Carried
<1>7. Renewed'
  <2>1. ~unrenewed' => ~unrenewed /\ \A c \in Call : call[c].renewal = 0
    BY DEF Crash
  <2> QED BY <1>0, <1>1, <1>2, <2>1 DEF Safe, Renewed, RenewalCarried
<1>8. Newer' BY <1>1 DEF Newer
<1> QED BY <1>3, <1>4, <1>5, <1>6, <1>7, <1>8 DEF Safe

LEMMA AgingSafe ==
    ASSUME Inv, TypeOK', Expire \/ \E t \in good : Revoke(t)
    PROVE  Safe'
<1>0. TypeOK /\ Safe BY DEF Inv, Safe
<1>1. /\ UNCHANGED <<policy, issued, renewals, secret, lost, unrenewed, call,
                     login, raced>>
      /\ slot'.t = slot.t /\ (slot'.fresh => slot.fresh)
  BY <1>0 DEF Expire, Revoke, TypeOK, Slot
<1> USE <1>0, <1>1 DEF Safe
<1>2. OneFetchPerExpiry' /\ Bounded' BY DEF OneFetchPerExpiry, Bounded
<1>3. InHand' /\ Apart' BY DEF InHand, Apart, Fetching
<1>4. Newest' BY DEF Newest, Carried
<1>5. Renewed' BY DEF Renewed, RenewalCarried
<1>6. Newer' BY DEF Newer
<1> QED BY <1>2, <1>3, <1>4, <1>5, <1>6

\* A foreign refresh token excuses the vault and touches nothing else.
LEMMA CrossSafe ==
    ASSUME Inv, TypeOK', Cross
    PROVE  Safe'
<1>0. TypeOK /\ Safe BY DEF Inv, Safe
<1>1. /\ secret' = Foreign
      /\ UNCHANGED <<policy, issued, renewals, slot, lost, unrenewed, call, login, raced>>
  BY DEF Cross, AccountRenews
<1> USE <1>0, <1>1 DEF Safe
<1>2. OneFetchPerExpiry' /\ Bounded' BY DEF OneFetchPerExpiry, Bounded
<1>3. InHand' /\ Apart' BY DEF InHand, Apart, Fetching
<1>4. Newest' BY DEF Newest, Carried
<1>5. Renewed' BY DEF Renewed, RenewalCarried
<1>6. Newer' BY DEF Newer
<1> QED BY <1>2, <1>3, <1>4, <1>5, <1>6

LEMMA ExchangeSafe ==
    ASSUME Inv, TypeOK', Exchange
    PROVE  Safe'
<1>0. TypeOK /\ Safe BY DEF Inv, Safe
<1>1. /\ login.at = "none" /\ issued' = issued + 1 /\ renewals' = renewals + 1
      /\ login'.at = "new" /\ login'.t = issued + 1 /\ login'.renewal = renewals + 1
      /\ UNCHANGED <<policy, slot, secret, lock, losses, lost, unrenewed, call>>
      /\ (~raced' => ~raced /\ \A c \in Call : ~Fetching(c))
  BY DEF Exchange
<1>2. OneFetchPerExpiry' BY <1>0, <1>1 DEF Safe, OneFetchPerExpiry
<1>3. Bounded' BY <1>0, <1>1, Known DEF Safe, Bounded
<1>4. InHand' /\ Apart' BY <1>0, <1>1 DEF Safe, InHand, Apart, Fetching
<1>5. Newest'
  <2> SUFFICES ASSUME ~raced' PROVE Newest'
    BY DEF Newest
  <2>1. \A c \in Call : call[c].at # "answered" BY <1>1 DEF Fetching
  <2>2. ASSUME NEW t \in 1..issued', t > slot'.t, t \notin lost' PROVE t = issued + 1
    <3>1. t \in 1..issued \/ t = issued + 1 BY <1>0, <1>1, <2>2, Known
    <3> QED BY <1>0, <1>1, <2>1, <2>2, <3>1 DEF Safe, Newest, Carried
  <2> QED BY <1>1, <2>1, <2>2 DEF Newest, Carried
<1>6. Renewed'
  <2>1. ~raced' => \A c \in Call : call[c].renewal = 0
    BY <1>0, <1>1 DEF Safe, InHand, Fetching
  <2> QED BY <1>0, <1>1, <2>1 DEF Safe, Renewed, RenewalCarried
<1>7. Newer' BY <1>0, <1>1 DEF Safe, Newer
<1> QED BY <1>2, <1>3, <1>4, <1>5, <1>6, <1>7 DEF Safe

LEMMA SetAccessSafe ==
    ASSUME Inv, TypeOK', SetAccess
    PROVE  Safe'
<1>0. TypeOK /\ Safe BY DEF Inv, Safe
<1>1. /\ login.at = "new" /\ slot' = [t |-> login.t, fresh |-> FALSE]
      /\ login'.at = "half" /\ login'.t = login.t /\ login'.renewal = login.renewal
      /\ UNCHANGED <<policy, issued, renewals, secret, lock, lost, unrenewed, call,
                     raced>>
  BY <1>0 DEF SetAccess, TypeOK, Login
<1>a. ~raced => login.t = issued /\ \A c \in Call : ~Fetching(c)
  BY <1>0, <1>1 DEF Safe, Newest, Apart
<1>2. OneFetchPerExpiry' BY <1>1 DEF OneFetchPerExpiry
<1>3. Bounded' BY <1>0, <1>1, Known DEF Safe, Bounded
<1>4. InHand' /\ Apart' BY <1>0, <1>1 DEF Safe, InHand, Apart, Fetching
<1>5. Newest'
  BY <1>0, <1>1, <1>a, Known DEF Newest, Fetching
<1>6. Renewed' BY <1>0, <1>1 DEF Safe, Renewed, RenewalCarried
<1>7. Newer'
  <2>1. ~raced => slot'.t >= slot.t
    BY <1>0, <1>1, <1>a, Known DEF Safe, Bounded
  <2>2. slot'.t \in Nat /\ slot.t \in Nat /\ \A c \in Call : call[c].refused \in Nat
    BY <1>0, <1>1, Known
  <2> QED BY <1>0, <1>1, <1>a, <2>1, <2>2 DEF Safe, Newer, Fetching
<1> QED BY <1>2, <1>3, <1>4, <1>5, <1>6, <1>7 DEF Safe

LEMMA SetRefreshSafe ==
    ASSUME Inv, TypeOK', SetRefresh
    PROVE  Safe'
<1>0. TypeOK /\ Safe BY DEF Inv, Safe
<1>1. /\ login.at = "half" /\ secret' = login.renewal
      /\ login'.at = "none" /\ login'.t = 0
      /\ UNCHANGED <<policy, issued, renewals, slot, lock, lost, call, raced>>
  BY DEF SetRefresh, NoLogin
<1>2. OneFetchPerExpiry' BY <1>0, <1>1 DEF Safe, OneFetchPerExpiry
<1>3. Bounded' BY <1>0, <1>1, Known DEF Safe, Bounded
<1>4. InHand' /\ Apart' BY <1>0, <1>1 DEF Safe, InHand, Apart
<1>5. Newest' BY <1>0, <1>1 DEF Safe, Newest, Carried
<1>6. Renewed' BY <1>0, <1>1 DEF Safe, Renewed, RenewalCarried
<1>7. Newer' BY <1>0, <1>1 DEF Safe, Newer
<1> QED BY <1>2, <1>3, <1>4, <1>5, <1>6, <1>7 DEF Safe

LEMMA NextInv == Inv /\ [Next]_vars => Inv'
<1> SUFFICES ASSUME Inv, [Next]_vars PROVE Inv'
  OBVIOUS
<1>0. TypeOK' BY NextTypes DEF Inv
<1> SUFFICES Safe' BY <1>0 DEF Inv, Safe
<1>1. ASSUME NEW c \in Call, Step(c) PROVE Safe'
  BY <1>0, <1>1, ProvideSafe, StepSafe DEF Step
<1>2. ASSUME NEW c \in Call, Drop(c) \/ Lose(c) PROVE Safe'
  BY <1>0, <1>2, LossSafe
<1>3. ASSUME NEW c \in Call, NEW kind \in Kind, Begin(c, kind) PROVE Safe'
  BY <1>0, <1>3, BeginSafe
<1>4. CASE Expire \/ \E t \in good : Revoke(t) BY <1>0, <1>4, AgingSafe
<1>5. CASE Cross \/ Exchange \/ SetAccess \/ SetRefresh
  BY <1>0, <1>5, CrossSafe, ExchangeSafe, SetAccessSafe, SetRefreshSafe
<1>6. CASE Crash BY <1>0, <1>6, CrashSafe
<1>7. CASE UNCHANGED vars
  <2> USE <1>7 DEF Inv, Safe, vars, providerVars
  <2>1. OneFetchPerExpiry' /\ Bounded' /\ InHand'
    BY DEF OneFetchPerExpiry, Bounded, InHand
  <2>2. Apart' /\ Newest' BY DEF Apart, Newest, Carried, Fetching
  <2>3. Renewed' /\ Newer' BY DEF Renewed, RenewalCarried, Newer
  <2> QED BY <2>1, <2>2, <2>3
<1> QED BY <1>1, <1>2, <1>3, <1>4, <1>5, <1>6, <1>7 DEF Next

LEMMA InvAlways == Spec => []Inv
<1>1. Init => Inv BY InitTypes, InitSafe DEF Inv, Safe
<1> QED BY <1>1, NextInv, PTL DEF Spec

\* However many calls find the token expired, one fetches, and no call asks for
\* a token that the slot has.
THEOREM OneFetchPerExpiryAlways == Spec => []OneFetchPerExpiry
<1>1. Inv => OneFetchPerExpiry BY DEF Inv
<1> QED BY <1>1, InvAlways, PTL

\* What is in the slot was issued last among all that was not lost.
THEOREM SlotIsNewestAlways == Spec => []SlotIsNewest
<1>1. Inv => SlotIsNewest
  <2> SUFFICES ASSUME Inv, ~raced, lock = None, login.at = "none",
                      NEW t \in 1..issued, t > slot.t
               PROVE  t \in lost
    BY DEF SlotIsNewest
  <2>1. \A c \in Call : call[c].at # "answered"
    BY CallTypes, ProviderAssumption DEF Inv, InFetch
  <2> QED BY <2>1 DEF Inv, Newest, Carried
<1> QED BY <1>1, InvAlways, PTL

\* A second attempt is never made with the token that was refused.
THEOREM RetryIsNewerAlways == Spec => []RetryIsNewer
<1>1. Inv => RetryIsNewer BY DEF Inv, RetryIsNewer, Newer
<1> QED BY <1>1, InvAlways, PTL

\* The refresh token of the slot without an account is the issuer's, unless one
\* was lost on the way (unrenewed), a login met a fetch (raced) or an account's
\* was written over it (Foreign): failed fetches, dropped callers and crashes
\* elsewhere do not cost it.
THEOREM RefreshTokenKeptAlways == Spec => []RefreshTokenKept
<1>1. Inv => RefreshTokenKept
  <2> SUFFICES ASSUME Inv, policy.refresh, ~policy.account, secret # Foreign,
                      ~raced, ~unrenewed, lock = None, login.at = "none"
               PROVE  secret = renewals
    BY DEF RefreshTokenKept
  <2>1. \A c \in Call : call[c].renewal = 0
    BY CallTypes, ProviderAssumption DEF Inv, InHand, InFetch
  <2> QED BY <2>1 DEF Inv, Renewed, RenewalCarried
<1> QED BY <1>1, InvAlways, PTL

-----------------------------------------------------------------------------
(* Every step of a call brings it nearer to its end. *)

\* The steps one attempt still has at most before it, and those of the attempt
\* that may follow it.
AttemptLeft == [at \in At |->
    CASE at = "idle" -> 0
      [] at = "asked" -> 1
      [] at = "run" -> 2
      [] at = "stored" -> 3
      [] at = "answered" -> 4
      [] at = "fetch" -> 5
      [] at = "wait" -> 6]

StepsLeft(s) == AttemptLeft[s.at] + (IF s.at = "idle" \/ s.force THEN 0 ELSE 6)

\* No call, before or after which there may be one.
Free(c) == call[c].at = "idle" /\ call'[c].at \in {"idle", "wait"}

Nearer(c) ==
    \/ call'[c] = call[c]
    \/ Free(c)
    \/ StepsLeft(call'[c]) < StepsLeft(call[c])

LEMMA LeftIsNatural ==
    ASSUME NEW s \in CallState
    PROVE  StepsLeft(s) \in 0..12
BY DEF StepsLeft, AttemptLeft, CallState, At

\* One call is nearer to its end and the others are where they were.
LEMMA NearerAlone ==
    ASSUME NEW c \in Call, Others(c), Nearer(c)
    PROVE  \A d \in Call : Nearer(d)
BY DEF Others, Nearer

LEMMA FailedRank ==
    ASSUME NEW s \in CallState
    PROVE  \/ Failed(s).at = "idle"
           \/ Failed(s).at = "run" /\ ~Failed(s).force /\ ~s.force
<1>1. 0 \in Token BY ProviderAssumption DEF Token
<1>2. Resting.at = "idle" BY DEF Resting
<1> QED BY <1>1, <1>2, ProvidedType DEF Failed

LEMMA ProvideNearer ==
    ASSUME TypeOK, NEW c \in Call, Provide(c)
    PROVE  \A d \in Call : Nearer(d)
<1> USE DEF Nearer, StepsLeft, AttemptLeft, At
<1>0. call[c].at \in At /\ call[c].force \in BOOLEAN
  BY CallTypes DEF CallState
<1>1. CASE Cached(c) BY <1>0, <1>1, CachedEffect, NearerAlone DEF From
<1>2. CASE Fetch(c) BY <1>0, <1>2, FetchEffect, NearerAlone DEF From
<1>3. ASSUME NEW renew \in BOOLEAN, Issue(c, renew) PROVE \A d \in Call : Nearer(d)
  BY <1>0, <1>3, IssueEffect, NearerAlone DEF From
<1>4. CASE FetchFails(c)
  <2>1. call'[c] = Failed(call[c])
    BY <1>4, CallTypes, FailedType, Moved DEF FetchFails, Moves
  <2>2. \/ call'[c].at = "idle"
        \/ call'[c].at = "run" /\ ~call'[c].force /\ ~call[c].force
    BY <2>1, CallTypes, FailedRank
  <2> QED BY <1>0, <1>4, <2>2, FetchFailsEffect, NearerAlone
<1>5. CASE Store(c) BY <1>0, <1>5, StoreEffect, NearerAlone DEF From
<1>6. CASE StoreRenewal(c) BY <1>0, <1>6, StoreRenewalEffect, NearerAlone DEF From
<1> QED BY <1>1, <1>2, <1>3, <1>4, <1>5, <1>6 DEF Provide, EnsureFresh

LEMMA AskedNearer ==
    ASSUME TypeOK, NEW c \in Call, Run(c) \/ Answered(c) \/ Invalid(c) \/ LoginRefused(c)
    PROVE  \A d \in Call : Nearer(d)
<1>0. call[c].at \in At /\ call[c].force \in BOOLEAN
  BY CallTypes DEF CallState
<1>1. CASE Run(c)
  BY <1>0, <1>1, RunEffect, NearerAlone DEF From, Nearer, StepsLeft, AttemptLeft, At
<1>2. CASE Answered(c) \/ Invalid(c) \/ LoginRefused(c)
  <2> DEFINE s == [call[c] EXCEPT !.at = "wait", !.force = TRUE, !.refused = call[c].t]
  <2>1. call'[c] = Resting \/ (call'[c] = s /\ ~call[c].force)
    BY <1>2, CallTypes DEF Answered, Invalid, LoginRefused, TypeOK
  <2>2. s.at = "wait" /\ s.force BY CallTypes DEF CallState
  <2> HIDE DEF s
  <2> QED BY <1>0, <1>2, <2>1, <2>2, AskedEffect, NearerAlone
          DEF Resting, Nearer, StepsLeft, AttemptLeft, At
<1> QED BY <1>1, <1>2

\* A call that is lost is not thrown back either.
LEMMA LossNearer ==
    ASSUME TypeOK, NEW c \in Call, Drop(c) \/ Lose(c)
    PROVE  \A d \in Call : Nearer(d)
<1> USE DEF Nearer, StepsLeft, AttemptLeft, At
<1>0. call[c].at \in At /\ call[c].force \in BOOLEAN /\ call \in [Call -> CallState]
  BY CallTypes DEF CallState, TypeOK
<1>1. CASE Drop(c)
  <2>1. call'[c] = Resting /\ Others(c) BY <1>0, <1>1 DEF Drop, Others
  <2> QED BY <1>0, <1>1, <2>1, NearerAlone DEF Resting, Drop
<1>2. CASE Lose(c)
  <2>1. call'[c] = Failed(call[c]) BY <1>0, <1>2 DEF Lose, AnswerLost
  <2>2. \/ call'[c].at = "idle"
        \/ call'[c].at = "run" /\ ~call'[c].force /\ ~call[c].force
    BY <1>0, <2>1, CallTypes, FailedRank
  <2> QED BY <1>0, <1>2, <2>2, LoseEffect, NearerAlone
<1> QED BY <1>1, <1>2

\* A call that moves has at most twelve steps to its end and comes nearer to it
\* with each, whatever the issuer, the venue and the owner do, and whoever is
\* lost: nothing but a new call starts again, and a refused one tries once more.
THEOREM EveryStepIsNearer ==
    Spec => /\ [](\A c \in Call : StepsLeft(call[c]) \in 0..12)
            /\ [][\A c \in Call : Nearer(c)]_vars
<1>1. TypeOK => \A c \in Call : StepsLeft(call[c]) \in 0..12
  BY LeftIsNatural, CallTypes
<1>2. TypeOK /\ [Next]_vars => [\A c \in Call : Nearer(c)]_vars
  <2> SUFFICES ASSUME TypeOK, Next PROVE \A c \in Call : Nearer(c)
    OBVIOUS
  <2>1. ASSUME NEW c \in Call, Step(c) PROVE \A d \in Call : Nearer(d)
    BY <2>1, ProvideNearer, AskedNearer DEF Step
  <2>2. ASSUME NEW c \in Call, Drop(c) \/ Lose(c) PROVE \A d \in Call : Nearer(d)
    BY <2>2, LossNearer
  <2>3. ASSUME NEW c \in Call, NEW kind \in Kind, Begin(c, kind)
        PROVE  \A d \in Call : Nearer(d)
    BY <2>3, BeginEffect, NearerAlone DEF Nearer, Free
  <2>4. CASE Elsewhere BY <2>4, ElsewhereTypes DEF Nearer
  <2>5. CASE Crash
    <3>1. \A c \in Call : call'[c] = Resting BY <2>5 DEF Crash
    <3>2. ASSUME NEW c \in Call, call[c].at # "idle"
          PROVE  StepsLeft(call'[c]) < StepsLeft(call[c])
      BY <3>1, <3>2, CallTypes DEF StepsLeft, AttemptLeft, Resting, At, CallState
    <3> QED BY <3>1, <3>2 DEF Nearer, Free, Resting
  <2> QED BY <2>1, <2>2, <2>3, <2>4, <2>5 DEF Next, Elsewhere
<1> QED BY <1>1, <1>2, TypeCorrect, InitTypes, NextTypes, PTL DEF Spec

-----------------------------------------------------------------------------
(* The vault only gets newer. *)

\* A step puts into the vault what the issuer handed out last, or nothing; only
\* the refresh token of another account comes from elsewhere.
Forward ==
    ~raced =>
        /\ slot'.t # slot.t => slot'.t = issued /\ slot'.t > slot.t
        /\ policy.refresh /\ secret' # secret => secret' \in {renewals, Foreign}

LEMMA VaultFrame ==
    ASSUME Inv, Next, slot'.t # slot.t \/ secret' # secret
    PROVE  \/ \E c \in Call : Store(c) \/ StoreRenewal(c)
           \/ SetAccess \/ SetRefresh \/ Cross
<1>1. ASSUME NEW c \in Call, Step(c)
      PROVE  Store(c) \/ StoreRenewal(c)
  <2>1. ASSUME slot' = slot, secret' = secret PROVE FALSE BY <2>1
  <2>2. CASE Run(c) \/ Answered(c) \/ Invalid(c) \/ LoginRefused(c)
    BY <2>1, <2>2 DEF Run, Answered, Invalid, LoginRefused, providerVars
  <2>3. CASE Provide(c)
    BY <2>1, <2>3
    DEF Provide, EnsureFresh, Cached, Fetch, FetchFails, Issue, providerVars
  <2> QED BY <1>1, <2>2, <2>3 DEF Step
<1>2. ASSUME NEW c \in Call, Drop(c) \/ Lose(c) PROVE FALSE
  BY <1>2 DEF Drop, Lose, AnswerLost
<1>3. ASSUME NEW c \in Call, NEW kind \in Kind, Begin(c, kind) PROVE FALSE
  BY <1>3 DEF Begin, providerVars
<1>4. CASE Expire
  <2>1. slot'.t = slot.t BY <1>4 DEF Expire, Inv, TypeOK, Slot
  <2> QED BY <1>4, <2>1 DEF Expire
<1>5. CASE (\E t \in good : Revoke(t)) \/ Exchange \/ Crash
  BY <1>5 DEF Revoke, Exchange, Crash
<1> QED BY <1>1, <1>2, <1>3, <1>4, <1>5 DEF Next

\* While no login has met a fetch, every token that takes the slot is the one
\* that was issued last, and newer than the one it replaces, and every refresh
\* token that is stored is the one the issuer will take, or that of an account
\* over the one of the slot that has none: no fetch, however slow, retried or
\* dropped, puts back an older one.
THEOREM VaultGoesForward == Spec => [][Forward]_vars
<1>1. Inv /\ [Next]_vars => [Forward]_vars
  <2> SUFFICES ASSUME Inv, Next, ~raced PROVE Forward
    BY DEF Forward
  <2> USE DEF Forward
  <2>0. TypeOK /\ issued \in Nat /\ slot.t \in Nat /\ slot.t <= issued
    BY Known DEF Inv, Bounded
  <2>1. ASSUME NEW c \in Call, Store(c) PROVE Forward
    <3>1. /\ call[c].at = "answered" /\ slot'.t = call[c].t
          /\ secret' = secret
      BY <2>0, <2>1, StoreEffect DEF From
    <3>2. call[c].t = issued BY <3>1 DEF Inv, Newest
    <3> QED BY <2>0, <3>1, <3>2
  <2>2. ASSUME NEW c \in Call, StoreRenewal(c) PROVE Forward
    <3>1. /\ call[c].at = "stored" /\ slot' = slot
          /\ secret' = secret \/ secret' = call[c].renewal
      BY <2>0, <2>2, StoreRenewalEffect DEF From
    <3>2. policy.refresh /\ secret' # secret => secret' = renewals
      BY <3>1 DEF Inv, InHand, Renewed
    <3> QED BY <3>1, <3>2
  <2>3. CASE SetAccess
    <3>1. slot'.t = login.t /\ login.t = issued /\ secret' = secret
      BY <2>3 DEF SetAccess, Inv, Newest
    <3> QED BY <2>0, <3>1
  <2>4. CASE SetRefresh
    <3>1. policy.refresh => secret' = renewals BY <2>4 DEF SetRefresh, Inv, Renewed
    <3> QED BY <2>4, <3>1 DEF SetRefresh
  <2>5. CASE Cross BY <2>5 DEF Cross, AccountRenews
  <2> QED BY <2>1, <2>2, <2>3, <2>4, <2>5, VaultFrame
<1> QED BY <1>1, InvAlways, PTL DEF Spec
=============================================================================
