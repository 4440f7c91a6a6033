---------------------------- MODULE TokenProvider ----------------------------
(***************************************************************************)
(* OAuthTokenProvider (infra/src/adapters/token_provider.rs): one token    *)
(* slot of the vault, its lock, and ensure_fresh.  A secret has one slot,  *)
(* with a lock of its own, per account, one for calls that name no account *)
(* and one for mock calls.                                                 *)
(*                                                                         *)
(* Access tokens have nothing in common between slots.  Refresh tokens do: *)
(* a slot reads its own account's, and every slot stores the replacement   *)
(* under the bare name, where only the slot without an account reads it.   *)
(* The mock slot would read it there too; no module that has a refresh     *)
(* token has a base for mock calls, so that slot is not modelled.          *)
(*                                                                         *)
(* The issuer is outside.  It numbers the access tokens and the refresh    *)
(* tokens it hands out; a request it has acted on may still fail for us.   *)
(* The vault is a table whose every write is on disk when it returns.      *)
(*                                                                         *)
(* A Bug_ definition is a seeded fault: no specification uses it.          *)
(***************************************************************************)
EXTENDS Naturals

CONSTANTS
    Call,       \* module calls that use the slot
    None,       \* a model value
    Foreign,    \* a model value: the refresh token of another account
    Policies,   \* how the issuer may behave, see Policy
    MaxTokens,  \* bound: access tokens issued
    MaxLosses   \* bound: answers lost, requests dropped, crashes

(***************************************************************************)
(* single: a new token puts an end to the older ones; refresh: a token is  *)
(* asked for with a refresh token (refreshTokenSecret), which the issuer   *)
(* may replace as it answers; otherwise with the credentials of the app.   *)
(* account: the slot is that of an account.                                *)
(***************************************************************************)
Policy == [single : BOOLEAN, refresh : BOOLEAN, account : BOOLEAN]

ASSUME ProviderAssumption ==
    /\ MaxTokens \in Nat /\ MaxLosses \in Nat
    /\ Policies \subseteq Policy
    /\ None \notin Call /\ Foreign \notin Nat

VARIABLES
    policy,   \* the issuer, and whose slot it is
    issued,   \* the number of access tokens it has handed out
    good,     \* those the venue takes
    renewals, \* the number of refresh tokens it has replaced
    slot,     \* TokenCache in the vault
    secret,   \* the refresh token in the vault, where the slot reads it
    lock,     \* who holds the slot's lock
    call,     \* where the calls are
    losses,   \* how many so far
    lost,     \* history: access tokens that never reached the vault
    unrenewed \* history: a replaced refresh token did not reach the vault

providerVars ==
    <<policy, issued, good, renewals, slot, secret, lock, losses, lost, unrenewed>>

Token == 0..MaxTokens   \* 0: none

\* fresh: within its lifetime, and in the format that says when it was issued.
Slot == [t : Token, fresh : BOOLEAN]

\* wait to stored are places in ensure_fresh; run and asked, in the caller.
At == {"idle", "wait", "fetch", "answered", "stored", "run", "asked"}

\* Where a call goes on: sandbox reads the token from the vault when it
\* starts the module, ws uses the one ensure_fresh returned to it.
Kind == {"sandbox", "ws"}

\* t: the token in hand, or 0; with: the refresh token sent; renewal: the one
\* that came back, or 0; refused: the token of the first attempt, in the second.
CallState == [at : At, kind : Kind, force : BOOLEAN, t : Token,
              with : Nat \cup {Foreign}, renewal : Nat, refused : Token]

Resting == [at |-> "idle", kind |-> "sandbox", force |-> FALSE, t |-> 0,
            with |-> 0, renewal |-> 0, refused |-> 0]

ProviderInit ==
    /\ policy \in Policies
    /\ issued = 0 /\ good = {} /\ renewals = 0
    /\ slot = [t |-> 0, fresh |-> FALSE]
    /\ secret = 0
    /\ lock = None
    /\ losses = 0 /\ lost = {} /\ unrenewed = FALSE

-----------------------------------------------------------------------------
\* What follows an ensure_fresh that returned t.
Provided(c, t) ==
    [c EXCEPT !.at = "run", !.t = IF c.kind = "ws" THEN t ELSE 0,
              !.with = 0, !.renewal = 0]

\* What follows one that failed: the sandbox goes on with what is
\* in the vault, unless this was the reissue of a refused token; ws gives up.
Failed(c) == IF c.kind = "sandbox" /\ ~c.force THEN Provided(c, 0)
             ELSE Resting

\* The first look is taken with the lock held, and none once it is forced.
Cached(c) ==
    /\ call[c].at = "wait" /\ lock = None
    /\ ~call[c].force /\ slot.fresh
    /\ call' = [call EXCEPT ![c] = Provided(@, slot.t)]
    /\ UNCHANGED providerVars

\* fetch_token: the body holds the refresh token of this moment.
Fetch(c) ==
    /\ call[c].at = "wait" /\ lock = None
    /\ call[c].force \/ ~slot.fresh
    /\ lock' = c
    /\ call' = [call EXCEPT ![c].at = "fetch", ![c].with = secret]
    /\ UNCHANGED <<policy, issued, good, renewals, slot, secret, losses,
                   lost, unrenewed>>

\* The issuer takes the request for what it is.  The refresh token of another
\* account is one it knows, too; its replacement would be another such.
Accepts(with) == policy.refresh => with \in {renewals, Foreign}

NewToken(t) == good' = IF policy.single THEN {t} ELSE good \cup {t}

\* It hands out a token, and perhaps replaces the refresh token.
Issue(c, renew) ==
    /\ call[c].at = "fetch" /\ issued < MaxTokens
    /\ Accepts(call[c].with)
    /\ renew => policy.refresh /\ call[c].with # Foreign
    /\ issued' = issued + 1
    /\ NewToken(issued + 1)
    /\ renewals' = IF renew THEN renewals + 1 ELSE renewals
    /\ call' = [call EXCEPT ![c].at = "answered", ![c].t = issued + 1,
                            ![c].with = 0,
                            ![c].renewal = IF renew THEN renewals + 1 ELSE 0]
    /\ UNCHANGED <<policy, slot, secret, lock, losses, lost, unrenewed>>

Bug_FailKeepsLock(c) ==
    /\ call[c].at = "fetch"
    /\ call' = [call EXCEPT ![c] = Failed(@)]
    /\ UNCHANGED providerVars

\* No answer in ten seconds, an error, or an answer without a token.
FetchFails(c) ==
    /\ call[c].at = "fetch"
    /\ lock' = None
    /\ call' = [call EXCEPT ![c] = Failed(@)]
    /\ UNCHANGED <<policy, issued, good, renewals, slot, secret, losses,
                   lost, unrenewed>>

\* What the issuer has done and nobody hears of.
Forfeit(c) ==
    /\ lost' = lost \cup {call[c].t}
    /\ unrenewed' = (unrenewed \/ call[c].renewal # 0)

\* The same, with the issuer's answer under way.
AnswerLost(c) ==
    /\ call[c].at = "answered" /\ losses < MaxLosses
    /\ losses' = losses + 1
    /\ lock' = None
    /\ Forfeit(c)
    /\ call' = [call EXCEPT ![c] = Failed(@)]
    /\ UNCHANGED <<policy, issued, good, renewals, slot, secret>>

Bug_StoreUnlocked(c) ==
    /\ call[c].at = "answered" /\ lock \in {c, None}
    /\ \/ /\ lock = c /\ lock' = None
          /\ UNCHANGED <<slot, call>>
       \/ /\ lock = None
          /\ slot' = [t |-> call[c].t, fresh |-> TRUE]
          /\ call' = [call EXCEPT ![c] = Provided(@, @.t)]
          /\ UNCHANGED lock
    /\ UNCHANGED <<policy, issued, good, renewals, secret, losses, lost, unrenewed>>

\* The token is stored; a refresh token that came with it is next.
Store(c) ==
    /\ call[c].at = "answered"
    /\ slot' = [t |-> call[c].t, fresh |-> TRUE]
    /\ IF call[c].renewal # 0
       THEN /\ call' = [call EXCEPT ![c].at = "stored"]
            /\ UNCHANGED lock
       ELSE /\ call' = [call EXCEPT ![c] = Provided(@, @.t)]
            /\ lock' = None
    /\ UNCHANGED <<policy, issued, good, renewals, secret, losses, lost, unrenewed>>

Bug_RenewalDropped(c) ==
    /\ call[c].at = "stored"
    /\ lock' = None
    /\ call' = [call EXCEPT ![c] = Provided(@, @.t)]
    /\ UNCHANGED <<policy, issued, good, renewals, slot, secret, losses,
                   lost, unrenewed>>

\* set_secret of user:{rt_secret}: the name has no account in it.
StoreRenewal(c) ==
    /\ call[c].at = "stored"
    /\ secret' = IF policy.account THEN secret ELSE call[c].renewal
    /\ lock' = None
    /\ call' = [call EXCEPT ![c] = Provided(@, @.t)]
    /\ UNCHANGED <<policy, issued, good, renewals, slot, losses, lost, unrenewed>>

\* The same by the slot of some account, which has another lock.
AccountRenews ==
    /\ policy.refresh /\ ~policy.account
    /\ secret' = Foreign
    /\ UNCHANGED <<policy, issued, good, renewals, slot, lock, losses, lost,
                   unrenewed, call>>

EnsureFresh(c) ==
    \/ Cached(c) \/ Fetch(c) \/ Store(c) \/ StoreRenewal(c)
    \/ FetchFails(c) \/ \E renew \in BOOLEAN : Issue(c, renew)
=============================================================================
