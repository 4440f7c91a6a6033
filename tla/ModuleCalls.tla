----------------------------- MODULE ModuleCalls -----------------------------
(***************************************************************************)
(* The calls that need a token: ProcessSandboxAdapter::execute             *)
(* (infra/src/adapters/sandbox.rs) and WsApiAdapter::call (ws_api.rs),     *)
(* both with one retry when the venue says that the token is not valid,    *)
(* and the route that stores the tokens of a login                         *)
(* (app/api/auth/oauth/[provider]/callback), which takes no lock.          *)
(*                                                                         *)
(* A stream's login (ws_stream.rs) is a ws call here: it is refused, and   *)
(* tried again with force.                                                 *)
(***************************************************************************)
EXTENDS TokenProvider

CONSTANTS
    MaxCalls,  \* bound: calls made
    MaxAges,   \* bound: tokens that expire, for us or for the venue, and
               \* refresh tokens that other accounts replace
    MaxLogins  \* bound: logins of the owner in the browser

ASSUME CallsAssumption ==
    /\ MaxCalls \in Nat /\ MaxAges \in Nat /\ MaxLogins \in Nat

VARIABLES
    count,  \* calls, expiries and logins so far
    login,  \* the login under way
    raced   \* history: a login met a fetch

vars == <<providerVars, call, count, login, raced>>

\* new: the issuer's answer is there; half: its access token is stored.
Login == [at : {"none", "new", "half"}, t : Token, renewal : Nat]

NoLogin == [at |-> "none", t |-> 0, renewal |-> 0]

Init ==
    /\ ProviderInit
    /\ call = [c \in Call |-> Resting]
    /\ count = [calls |-> 0, ages |-> 0, logins |-> 0]
    /\ login = NoLogin
    /\ raced = FALSE

Fetching(c) == call[c].at \in {"fetch", "answered", "stored"}

-----------------------------------------------------------------------------
Begin(c, kind) ==
    /\ call[c].at = "idle" /\ count.calls < MaxCalls
    /\ count' = [count EXCEPT !.calls = @ + 1]
    /\ call' = [call EXCEPT ![c] = [Resting EXCEPT !.at = "wait", !.kind = kind]]
    /\ UNCHANGED <<providerVars, login, raced>>

\* ensure_fresh, which a login that is half stored is not part of.
Provide(c) ==
    /\ EnsureFresh(c)
    /\ raced' = (raced \/ (login.at # "none" /\ \E d \in Call : Fetching(d)'))
    /\ UNCHANGED <<count, login>>

Bug_RunSameEnv(c) ==
    /\ call[c].at = "run"
    /\ call' = [call EXCEPT ![c].at = "asked",
                   ![c].t = IF call[c].kind = "ws" THEN @
                            ELSE IF call[c].force THEN call[c].refused ELSE slot.t]
    /\ UNCHANGED <<providerVars, count, login, raced>>

\* run_once with load_secrets_env, or the request over the socket.
Run(c) ==
    /\ call[c].at = "run"
    /\ call' = [call EXCEPT ![c].at = "asked",
                   ![c].t = IF call[c].kind = "ws" THEN @ ELSE slot.t]
    /\ UNCHANGED <<providerVars, count, login, raced>>

Answered(c) ==
    /\ call[c].at = "asked" /\ call[c].t \in good
    /\ call' = [call EXCEPT ![c] = Resting]
    /\ UNCHANGED <<providerVars, count, login, raced>>

\* is_invalid: reissue and try again, exactly once.
Invalid(c) ==
    /\ call[c].at = "asked" /\ call[c].t \notin good
    /\ call' = [call EXCEPT ![c] =
                   IF @.force THEN Resting
                   ELSE [@ EXCEPT !.at = "wait", !.force = TRUE,
                                  !.refused = call[c].t]]
    /\ UNCHANGED <<providerVars, count, login, raced>>

\* The login frame of a ws call is refused, or its handshake: the call is an
\* error, and there is no second attempt.
LoginRefused(c) ==
    /\ call[c].at = "asked" /\ call[c].kind = "ws" /\ call[c].t \notin good
    /\ call' = [call EXCEPT ![c] = Resting]
    /\ UNCHANGED <<providerVars, count, login, raced>>

-----------------------------------------------------------------------------
(* Time, the owner, other accounts, and failures. *)

\* lifetime_sec is over.
Expire ==
    /\ slot.fresh /\ count.ages < MaxAges
    /\ count' = [count EXCEPT !.ages = @ + 1]
    /\ slot' = [slot EXCEPT !.fresh = FALSE]
    /\ UNCHANGED <<policy, issued, good, renewals, secret, lock, losses, lost,
                   unrenewed, call, login, raced>>

\* The venue no longer takes a token.
Revoke(t) ==
    /\ t \in good /\ count.ages < MaxAges
    /\ count' = [count EXCEPT !.ages = @ + 1]
    /\ good' = good \ {t}
    /\ UNCHANGED <<policy, issued, renewals, slot, secret, lock, losses, lost,
                   unrenewed, call, login, raced>>

\* The slot of another account stores the refresh token it was given.
Cross ==
    /\ AccountRenews /\ count.ages < MaxAges
    /\ count' = [count EXCEPT !.ages = @ + 1]
    /\ UNCHANGED <<login, raced>>

\* The owner logs in: the code is exchanged for a token and a refresh token,
\* which replaces the one that was there.  The route knows of no accounts.
Exchange ==
    /\ policy.refresh /\ ~policy.account /\ login.at = "none"
    /\ count.logins < MaxLogins /\ issued < MaxTokens
    /\ count' = [count EXCEPT !.logins = @ + 1]
    /\ issued' = issued + 1 /\ renewals' = renewals + 1
    /\ NewToken(issued + 1)
    /\ login' = [at |-> "new", t |-> issued + 1, renewal |-> renewals + 1]
    /\ raced' = (raced \/ \E c \in Call : Fetching(c))
    /\ UNCHANGED <<policy, slot, secret, lock, losses, lost, unrenewed, call>>

\* The access token is stored without a date: not fresh, yet used.
SetAccess ==
    /\ login.at = "new"
    /\ slot' = [t |-> login.t, fresh |-> FALSE]
    /\ login' = [login EXCEPT !.at = "half"]
    /\ UNCHANGED <<policy, issued, good, renewals, secret, lock, losses, lost,
                   unrenewed, call, count, raced>>

SetRefresh ==
    /\ login.at = "half"
    /\ secret' = login.renewal
    /\ unrenewed' = FALSE
    /\ login' = NoLogin
    /\ UNCHANGED <<policy, issued, good, renewals, slot, lock, losses, lost,
                   call, count, raced>>

\* A request whose client goes away, or an aborted job, ends at its await;
\* the guard of the lock goes with it.
Drop(c) ==
    /\ call[c].at \notin {"idle", "stored"} /\ losses < MaxLosses
    /\ losses' = losses + 1
    /\ IF call[c].at = "answered" THEN Forfeit(c) ELSE UNCHANGED <<lost, unrenewed>>
    /\ lock' = IF lock = c THEN None ELSE lock
    /\ call' = [call EXCEPT ![c] = Resting]
    /\ UNCHANGED <<policy, issued, good, renewals, slot, secret, login, count, raced>>

Crash ==
    /\ losses < MaxLosses
    /\ losses' = losses + 1
    /\ lost' = lost \cup {call[c].t : c \in {d \in Call : call[d].at = "answered"}}
    /\ unrenewed' = (unrenewed \/ \E c \in Call : call[c].renewal # 0)
    /\ lock' = None
    /\ call' = [c \in Call |-> Resting]
    /\ UNCHANGED <<policy, issued, good, renewals, slot, secret, login, count, raced>>

Lose(c) == AnswerLost(c) /\ UNCHANGED <<count, login, raced>>

Step(c) == Provide(c) \/ Run(c) \/ Answered(c) \/ Invalid(c) \/ LoginRefused(c)

Next ==
    \/ \E c \in Call : Step(c) \/ Drop(c) \/ Lose(c)
                       \/ \E kind \in Kind : Begin(c, kind)
    \/ Expire \/ \E t \in good : Revoke(t)
    \/ Cross \/ Exchange \/ SetAccess \/ SetRefresh
    \/ Crash

Spec == Init /\ [][Next]_vars

\* A call that can go on does: its future is polled, the issuer answers or the
\* request times out, and modules run under a time limit.
LiveSpec == Spec /\ \A c \in Call : WF_vars(Step(c))

-----------------------------------------------------------------------------
TypeOK ==
    /\ policy \in Policies
    /\ issued \in Token /\ good \subseteq 1..issued
    /\ renewals \in Nat
    /\ slot \in Slot /\ secret \in Nat \cup {Foreign}
    /\ lock \in Call \cup {None} /\ \A c \in Call : Fetching(c) <=> lock = c
    /\ losses \in 0..MaxLosses /\ lost \subseteq Token /\ unrenewed \in BOOLEAN
    /\ call \in [Call -> CallState]
    /\ count \in [calls : Nat, ages : Nat, logins : Nat]
    /\ login \in Login /\ raced \in BOOLEAN

\* The token in the slot is the newest of those that came back, unless a login
\* met a fetch (raced): a slow fetch never puts an older one over it.  On a venue with
\* one valid token an older one is dead.
SlotIsNewest ==
    ~raced /\ lock = None /\ login.at = "none"
        => \A t \in 1..issued : t > slot.t => t \in lost

\* Nobody asks the issuer for a token, unless one was refused, while the slot
\* has a fresh one: however many calls find it expired, one fetches.
OneFetchPerExpiry ==
    \A c \in Call : call[c].at \in {"fetch", "answered"} /\ ~call[c].force => ~slot.fresh

\* The second attempt is made with a token issued since the first was refused,
\* unless a login met a fetch (raced).
RetryIsNewer ==
    ~raced => \A c \in Call :
        call[c].force /\ call[c].at = "asked" => call[c].t > call[c].refused

\* For the slot that has no account: the refresh token in the vault is the one
\* the issuer will take, unless an answer, a request or the process was lost
\* with a replacement in hand (unrenewed), a login met a fetch (raced), or the
\* slot of an account has written over it (Foreign).  An account's slot, and the
\* one that is written over, go on with a refresh token that was replaced, of
\* which token_provider.rs says that it breaks the login for good: the code
\* stores a replacement for neither.
RefreshTokenKept ==
    /\ policy.refresh /\ ~policy.account /\ secret # Foreign
    /\ ~raced /\ ~unrenewed /\ lock = None /\ login.at = "none"
    => secret = renewals

\* Every call ends, one way or another: the lock of a failed or dropped one
\* is free for the next.
CallsEnd == \A c \in Call : call[c].at # "idle" ~> call[c].at = "idle"
=============================================================================
