------------------------------ MODULE ToolLoop ------------------------------
(***************************************************************************)
(* The tool loop of AiManager (core/src/managers/ai.rs, the body of        *)
(* process_with_tools_opts_with_emit): one turn of a model that calls      *)
(* functions.  A round asks the model, runs the calls of its answer one    *)
(* after the other, and judges the round.  What the model says and what    *)
(* the tools answer is outside: any text, any calls, any result.           *)
(*                                                                         *)
(* The loop is sequential.  What happens beside it is the time that passes *)
(* and the other turns, which push results out of the shared idempotency   *)
(* cache (utils/tool_cache.rs); its keys carry the turn, so that they put  *)
(* nothing in.                                                             *)
(*                                                                         *)
(* Only what the control of the loop reads of a text, a result or the      *)
(* ledger is kept.  Names are canonical: the registered ones.              *)
(*                                                                         *)
(* A Bug_ definition is a seeded fault: no specification uses it.          *)
(***************************************************************************)
EXTENDS Naturals, Sequences, FiniteSets

CONSTANTS
    Search,     \* discovery tools that a stall closes (search_*)
    Schema,     \* discovery tools that stay open (get_*_schema)
    Reader,     \* cache_read, cache_grep, cache_aggregate
    Render,     \* render
    Plan,       \* propose_plan
    Action,     \* every other tool
    Unknown,    \* names without a handler
    Call,       \* the calls a model may make: a tool and its arguments
    Guarded,    \* those the dispatcher wants approved: builtin tools on what exists
    Order,      \* those a row of a module wants approved (requiresApproval)
    Limit,      \* per_turn_limit of the discovery tools
    Replays,    \* calls an approved plan was compiled to
    Modes,      \* who waits for the turn, a subset of Mode
    MaxRounds,  \* MAX_TOOL_TURNS
    FailCap,    \* PER_TURN_FAIL_CAP
    StallRounds,\* DISCOVERY_STALL_ROUNDS
    MaxCalls    \* bound: calls in one answer of the model

Discovery == Search \cup Schema
Tool == Discovery \cup Reader \cup Render \cup Plan \cup Action \cup Unknown

\* A person in a chat, a visitor of a hub, a schedule, or a parent turn.
Mode == {"chat", "hub", "cron", "sub"}

ASSUME LoopAssumption ==
    /\ Call \subseteq [tool : Tool, args : Nat]
    /\ Guarded \subseteq Call /\ Order \subseteq Call /\ Guarded \cap Order = {}
    /\ \A c \in Order : c.tool \in Action
    /\ Limit \in [Discovery -> Nat]
    /\ Discovery \cap (Reader \cup Render \cup Plan \cup Action \cup Unknown) = {}
    /\ Action \cap (Reader \cup Render \cup Plan \cup Unknown) = {}
    /\ Replays \subseteq Seq(Call \ Guarded)
    /\ Modes \subseteq Mode
    /\ MaxRounds \in Nat /\ MaxRounds > 2
    /\ FailCap \in Nat /\ StallRounds \in Nat \ {0} /\ MaxCalls \in Nat

VARIABLES
    mode,      \* who waits for the turn
    at,        \* top of a round, in its calls, or how the turn ended
    round,     \* from 0
    queue,     \* calls of this round still to be run
    replay,    \* plan_replay_calls
    results,   \* turn_results: what became of this round's calls
    text,      \* last_text and its warning, while its round lasts
    worked,    \* prior_results is not empty
    shown,     \* blocks is not empty
    redirected,\* render_redirected
    ledger,    \* turn_ledger is not empty
    nudged,    \* corrections used up
    closed,    \* force_final
    stripped,  \* capped_strip
    stalled,   \* stall_stripped
    burnt,     \* post_narrow_rejected_rounds
    orbit,     \* discovery_only_rounds
    grounded,  \* turn_grounded_success
    escaped,   \* post_narrow_success
    idle,      \* no_action_final
    counts,    \* turn_tool_counts, of the tools that have a limit
    fails,     \* turn_fail_counts
    seen,      \* turn_seen_keys, of these tools
    tried,     \* turn_call_set
    cached,    \* this turn's results in the idempotency cache
    pending,   \* approval_pending_created
    planned,   \* propose_plan_ok
    cards,     \* history: cards minted for a call
    ran        \* history: calls with a limit or a gate that were dispatched

roundVars   == <<at, round, queue, replay, results, text>>
answerVars  == <<worked, shown, redirected, ledger, nudged>>
thrashVars  == <<closed, stripped, stalled, burnt, orbit>>
verdictVars == <<grounded, escaped, idle>>
countVars   == <<counts, fails, seen, tried, cached>>
waitVars    == <<pending, planned>>
historyVars == <<cards, ran>>
vars == <<mode, roundVars, answerVars, thrashVars, verdictVars, countVars,
          waitVars, historyVars>>

\* exhausted: the loop ran out; failed: the model could not be asked.
Place == {"top", "calls", "ended", "exhausted", "failed"}
Ended == {"ended", "exhausted", "failed"}

\* plain has no render fence.
Text == {"none", "plain", "fence"}
Banner == {"none", "ungrounded", "partial"}
Nudge == {"no_action", "empty", "fence"}

(***************************************************************************)
(* cap: perTurnLimitExceeded; dup: duplicateInTurn; refused: another       *)
(* refusal; card: waits for approval; failed: the dispatch failed; hollow: *)
(* it answered that it did not succeed; done: it did.                      *)
(***************************************************************************)
Kind == {"cap", "dup", "refused", "card", "failed", "hollow", "done"}

\* ToolResult.success
Success == {"card", "hollow", "done"}

Result == [call : Call, kind : Kind]

NoText == [body |-> "none", banner |-> "none"]

Init ==
    /\ mode \in Modes
    /\ at = "top" /\ round = 0 /\ queue = << >> /\ results = {}
    /\ replay \in Replays
    /\ text = NoText
    /\ worked = FALSE /\ shown = FALSE /\ redirected = FALSE /\ ledger = FALSE
    /\ nudged = {}
    /\ closed = FALSE /\ stripped = {} /\ stalled = {} /\ burnt = 0 /\ orbit = 0
    /\ grounded = FALSE /\ escaped = FALSE /\ idle = FALSE
    /\ counts = [t \in Discovery |-> 0] /\ fails = [t \in Tool |-> 0]
    /\ seen = {} /\ tried = {} /\ cached = {}
    /\ pending = FALSE /\ planned = FALSE
    /\ cards = [c \in Call |-> 0] /\ ran = {}

-----------------------------------------------------------------------------
(* The top of a round: the model is asked. *)

Bug_NeverClosing == closed

\* The last round writes the answer, if there is anything to write about.
Closing == closed \/ (round = MaxRounds - 1 /\ worked)

Bug_KeepRound == at' = "top" /\ round' = round

\* The next round, if there is one.
NextRound ==
    /\ round' = round + 1
    /\ at' = IF round + 1 < MaxRounds THEN "top" ELSE "exhausted"

\* An approved plan's calls are the first round; the model is not asked.
Replay ==
    /\ at = "top" /\ replay # << >>
    /\ at' = "calls" /\ queue' = replay /\ replay' = << >>
    /\ text' = NoText
    /\ UNCHANGED <<mode, round, results, answerVars, thrashVars, verdictVars,
                   countVars, waitVars, historyVars>>

\* The calls of a closed round are dropped.
Ask(body, calls) ==
    /\ at = "top" /\ replay = << >> /\ ~Closing
    /\ at' = "calls" /\ queue' = calls
    /\ text' = [body |-> body, banner |-> "none"]
    /\ UNCHANGED <<mode, round, replay, results, answerVars, thrashVars, verdictVars,
                   countVars, waitVars, historyVars>>

NothingDone == "no_action" \notin nudged /\ ~grounded /\ ledger
NothingSaid(body) == "empty" \notin nudged /\ body = "none" /\ ~shown
FenceMissing(body) == "fence" \notin nudged /\ redirected /\ body = "plain"

\* The correction a round without calls and with this text asks for.
Correction(body) ==
    CASE Closing -> "none"
      [] ~Closing /\ NothingDone -> "no_action"
      [] ~Closing /\ ~NothingDone /\ NothingSaid(body) -> "empty"
      [] ~Closing /\ ~NothingDone /\ FenceMissing(body) -> "fence"
      [] OTHER -> "none"

\* No calls, but not an answer either: one more round, once for each reason.
Correct(body) ==
    /\ at = "top" /\ replay = << >>
    /\ Correction(body) # "none"
    /\ nudged' = nudged \cup {Correction(body)}
    /\ text' = NoText
    /\ NextRound
    /\ UNCHANGED <<mode, queue, replay, results, worked, shown, redirected, ledger,
                   thrashVars, verdictVars, countVars, waitVars, historyVars>>

\* An answer that nothing stands behind is accepted the second time.
Idle(body) ==
    ~Closing /\ "no_action" \in nudged /\ ~grounded /\ body # "none"

Bug_StampForcedOnly(body) ==
    IF body = "none" \/ ~Closing \/ escaped THEN "none"
    ELSE IF grounded THEN "partial" ELSE "ungrounded"

\* The warning in front of an answer.
Stamp(body) ==
    IF body # "none" /\ Closing /\ ~escaped
    THEN IF grounded THEN "partial" ELSE "ungrounded"
    ELSE IF Idle(body) THEN "ungrounded" ELSE "none"

\* No calls: the turn is over.
Finish(body) ==
    /\ at = "top" /\ replay = << >>
    /\ Correction(body) = "none"
    /\ at' = "ended"
    /\ closed' = Closing
    /\ idle' = Idle(body)
    /\ text' = [body |-> body, banner |-> Stamp(body)]
    /\ shown' = (shown \/ body # "none")
    /\ UNCHANGED <<mode, round, queue, replay, results, worked, redirected, ledger,
                   nudged, stripped, stalled, burnt, orbit, grounded, escaped,
                   countVars, waitVars, historyVars>>

\* The cost budget does not allow the turn, with a plan or without.
OverBudget ==
    /\ at = "top" /\ round = 0
    /\ at' = "failed"
    /\ UNCHANGED <<mode, round, queue, replay, results, text, answerVars, thrashVars,
                   verdictVars, countVars, waitVars, historyVars>>

\* The model fails for good.
Fail ==
    /\ at = "top" /\ replay = << >>
    /\ at' = "failed"
    /\ UNCHANGED <<mode, round, queue, replay, results, text, answerVars, thrashVars,
                   verdictVars, countVars, waitVars, historyVars>>

-----------------------------------------------------------------------------
(* The calls of a round. *)

Here(c) == at = "calls" /\ queue # << >> /\ c = Head(queue)

\* What became of c.
Becomes(c, kind) ==
    /\ queue' = Tail(queue)
    /\ results' = results \cup {[call |-> c, kind |-> kind]}
    /\ UNCHANGED <<mode, at, round, replay, text, worked, shown, nudged,
                   closed, burnt, orbit, idle>>

Minted(c) == cards' = [cards EXCEPT ![c] = @ + 1] /\ pending' = TRUE

\* The dispatcher's approval gate, which a schedule passes.
NeedsApproval(c) == mode # "cron" /\ c \in Guarded

\* Nobody could approve, or the arguments do not hold.
RefuseGuarded(c) ==
    /\ Here(c) /\ NeedsApproval(c)
    /\ Becomes(c, "refused")
    /\ UNCHANGED <<redirected, ledger, stripped, stalled, grounded, escaped,
                   countVars, waitVars, historyVars>>

Bug_MintForParent(c) ==
    /\ Here(c) /\ NeedsApproval(c)
    /\ Minted(c)
    /\ Becomes(c, "card")
    /\ UNCHANGED <<redirected, ledger, stripped, stalled, grounded, escaped,
                   countVars, planned, ran>>

\* create_pending_in
MintGuarded(c) ==
    /\ Here(c) /\ NeedsApproval(c) /\ mode # "sub"
    /\ Minted(c)
    /\ Becomes(c, "card")
    /\ UNCHANGED <<redirected, ledger, stripped, stalled, grounded, escaped,
                   countVars, planned, ran>>

\* Identical repeats are not charged.
Charged(c) ==
    IF c \in seen \/ c.tool \notin Discovery THEN counts
    ELSE [counts EXCEPT ![c.tool] = @ + 1]

Bug_OffByOne(c) ==
    \/ c.tool \in stripped
    \/ c.tool \in Discovery /\ counts[c.tool] > Limit[c.tool]
    \/ fails[c.tool] >= FailCap

\* A closed tool is refused although the model still calls it.
OverCap(c) ==
    \/ c.tool \in stripped
    \/ c.tool \in Discovery /\ Charged(c)[c.tool] > Limit[c.tool]
    \/ fails[c.tool] >= FailCap

\* The part of a round every call goes through that the dispatcher let pass.
Pass(c) ==
    /\ Here(c) /\ ~NeedsApproval(c)
    /\ counts' = Charged(c)
    /\ seen' = IF c.tool \in Discovery THEN seen \cup {c} ELSE seen

Untouched == UNCHANGED <<redirected, ledger, stripped, stalled, grounded, escaped>>

\* Arguments that are no JSON; nothing is noted but the call.
Unparseable(c) ==
    /\ Pass(c) /\ Becomes(c, "refused") /\ Untouched
    /\ UNCHANGED <<fails, tried, cached, waitVars, historyVars>>

Capped(c) ==
    /\ Pass(c) /\ OverCap(c)
    /\ tried' = tried \cup {c}
    /\ Becomes(c, "cap") /\ Untouched
    /\ UNCHANGED <<fails, cached, waitVars, historyVars>>

Duplicate(c) ==
    /\ Pass(c) /\ ~OverCap(c) /\ c \in tried
    /\ Becomes(c, "dup") /\ Untouched
    /\ UNCHANGED <<fails, tried, cached, waitVars, historyVars>>

\* The branches behind the cap and the duplicate guard.
Reaches(c) ==
    /\ Pass(c) /\ ~OverCap(c) /\ c \notin tried
    /\ tried' = tried \cup {c}

\* The gate of a module's row: a schedule passes, nobody else does.
Gated(c) == c \in Order /\ mode # "cron"

\* No such tool, not for a visitor or a parent turn, only on the screen, its
\* schema not fetched yet, or what it needs not run yet.
Refuse(c) ==
    /\ Reaches(c)
    /\ \/ c.tool \in Unknown
       \/ c.tool \in Action /\ (~Gated(c) \/ mode # "chat")
    /\ Becomes(c, "refused") /\ Untouched
    /\ UNCHANGED <<fails, cached, waitVars, historyVars>>

Bug_AnySuccess(c, charged) ==
    /\ grounded' = TRUE
    /\ escaped' = (escaped \/ stripped # {})
    /\ stripped' = stripped \ {t \in stalled : charged[t] < Limit[t]}
    /\ stalled' = {}

\* Evidence that something was done: a tool that is neither discovery nor
\* reading succeeded.  It reopens what a stall closed and a limit leaves room for.
Evidence(c, charged) ==
    IF c.tool \in Discovery \cup Reader
    THEN UNCHANGED <<grounded, escaped, stripped, stalled>>
    ELSE /\ grounded' = TRUE
         /\ escaped' = (escaped \/ stripped # {})
         /\ stripped' = stripped \ {t \in stalled : charged[t] < Limit[t]}
         /\ stalled' = {}

\* The ledger: what was done, and what a discovery tool found, if anything.
Noted(c) == IF c.tool \in Discovery THEN ledger' \in {ledger, TRUE} ELSE ledger' = TRUE

Bug_MintTwice(c) ==
    /\ Pass(c) /\ ~OverCap(c) /\ c.tool \notin Unknown
    /\ Gated(c) /\ mode = "chat"
    /\ Minted(c) /\ Becomes(c, "card")
    /\ Evidence(c, counts') /\ Noted(c)
    /\ UNCHANGED <<redirected, fails, cached, tried, planned, ran>>

\* A card for an order, which is a success for the rest of the round.
MintOrder(c) ==
    /\ Reaches(c) /\ c.tool \notin Unknown
    /\ Gated(c) /\ mode = "chat"
    /\ Minted(c) /\ Becomes(c, "card")
    /\ Evidence(c, counts') /\ Noted(c)
    /\ UNCHANGED <<redirected, fails, cached, planned, ran>>

\* The call is allowed to run.
Runs(c) == Reaches(c) /\ c.tool \notin Unknown /\ ~Gated(c)

\* The turn's own result of a minute ago.
Serve(c) ==
    /\ Runs(c) /\ c \in cached
    /\ Becomes(c, "done")
    /\ Evidence(c, counts') /\ Noted(c)
    /\ planned' = (planned \/ c.tool \in Plan)
    /\ UNCHANGED <<redirected, fails, cached, pending, historyVars>>

Dispatched(c) ==
    /\ Runs(c) /\ c \notin cached
    /\ ran' = IF c.tool \in Discovery \/ c \in Guarded \cup Order
              THEN ran \cup {c} ELSE ran

\* render may tell the model to write a fence into the answer instead.
Redirect(c) ==
    redirected' \in IF c.tool \in Render THEN {redirected, TRUE} ELSE {redirected}

RunDone(c) ==
    /\ Dispatched(c)
    /\ cached' = cached \cup {c}
    /\ Becomes(c, "done")
    /\ Evidence(c, counts') /\ Noted(c) /\ Redirect(c)
    /\ planned' = (planned \/ c.tool \in Plan)
    /\ UNCHANGED <<fails, pending, cards>>

\* The tool itself refuses: no failure to be counted, and nothing to be cached.
RunHollow(c) ==
    /\ Dispatched(c)
    /\ Becomes(c, "hollow") /\ Redirect(c)
    /\ UNCHANGED <<ledger, stripped, stalled, grounded, escaped, fails, cached,
                   waitVars, cards>>

RunFailed(c) ==
    /\ Dispatched(c)
    /\ fails' = [fails EXCEPT ![c.tool] = @ + 1]
    /\ Becomes(c, "failed") /\ Redirect(c)
    /\ UNCHANGED <<ledger, stripped, stalled, grounded, escaped, cached, waitVars,
                   cards>>

\* CACHE_TTL is over, or other turns have filled the cache.
Lapse(c) ==
    /\ at \notin Ended /\ c \in cached
    /\ cached' = cached \ {c}
    /\ UNCHANGED <<mode, roundVars, answerVars, thrashVars, verdictVars, counts, fails,
                   seen, tried, waitVars, historyVars>>

-----------------------------------------------------------------------------
(* The end of a round. *)

Of(kinds) == {r \in results : r.kind \in kinds}

\* Nothing was done but to repeat calls or to call what is used up.
AllRejected == results # {} /\ Of({"cap", "dup"}) = results

\* Rejected rounds in a row once tools were taken away.
Burnt ==
    IF ~AllRejected THEN 0 ELSE IF stripped # {} THEN burnt + 1 ELSE burnt

\* Rounds of nothing but discovery since a tool of another kind succeeded.
Orbit ==
    IF \A r \in results : r.call.tool \in Discovery THEN orbit + 1
    ELSE IF \E r \in Of(Success) : r.call.tool \notin Discovery THEN 0
    ELSE orbit

\* The second rejected round in a row takes all tools away.
ForceFinal == closed \/ (AllRejected /\ stripped # {} /\ Burnt >= 2)

\* Too much discovery takes the search tools away.
Stall == Orbit = StallRounds /\ ~ForceFinal

\* The first rejected round takes away the tools called past their cap.
Narrowed ==
    IF AllRejected /\ stripped = {} THEN {r.call.tool : r \in Of({"cap"})}
    ELSE stripped

\* Blocks a result brings, and a fence in the text.
Blocks ==
    IF text.body = "fence" THEN {TRUE}
    ELSE IF \E r \in Of(Success) : r.call.tool \in Render \cup Plan \cup Action
         THEN {shown, TRUE} ELSE {shown}

Judged ==
    /\ at = "calls" /\ queue = << >>
    /\ results' = {} /\ tried' = {}
    /\ burnt' = Burnt /\ orbit' = Orbit /\ closed' = ForceFinal
    /\ stripped' = Narrowed \cup (IF Stall THEN Search ELSE {})
    /\ stalled' = stalled \cup (IF Stall THEN Search ELSE {})
    /\ shown' \in Blocks
    /\ worked' = TRUE
    /\ UNCHANGED <<mode, queue, replay, redirected, ledger, nudged, verdictVars,
                   counts, fails, seen, cached, waitVars, historyVars>>

\* A plan or a card is what the reader is to see next.
EndForReader ==
    /\ planned \/ pending
    /\ Judged
    /\ at' = "ended"
    /\ text' = IF planned THEN NoText ELSE text
    /\ UNCHANGED round

GoOn ==
    /\ ~planned /\ ~pending
    /\ Judged /\ NextRound
    /\ text' = NoText

-----------------------------------------------------------------------------
Answers == UNION {[1..n -> Call] : n \in 1..MaxCalls}

Top ==
    \/ OverBudget \/ Replay \/ Fail
    \/ \E body \in Text :
           \/ \E calls \in Answers : Ask(body, calls)
           \/ Correct(body) \/ Finish(body)

Dispatch(c) ==
    \/ RefuseGuarded(c) \/ MintGuarded(c)
    \/ Unparseable(c) \/ Capped(c) \/ Duplicate(c) \/ Refuse(c) \/ MintOrder(c)
    \/ Serve(c) \/ RunDone(c) \/ RunHollow(c) \/ RunFailed(c)

Step == Top \/ (\E c \in Call : Dispatch(c)) \/ EndForReader \/ GoOn

Next == Step \/ \E c \in Call : Lapse(c)

Spec == Init /\ [][Next]_vars

\* Model calls and tools are under time limits: the turn's future goes on.
LiveSpec == Spec /\ WF_vars(Step)

-----------------------------------------------------------------------------
\* forced_final: what a schedule takes for a failed run.
Flagged == closed \/ (stripped # {} /\ ~escaped) \/ idle

TypeOK ==
    /\ mode \in Mode /\ at \in Place /\ round \in 0..MaxRounds
    /\ queue \in Seq(Call) /\ replay \in Seq(Call)
    /\ results \subseteq Result
    /\ text \in [body : Text, banner : Banner]
    /\ worked \in BOOLEAN /\ shown \in BOOLEAN
    /\ redirected \in BOOLEAN /\ ledger \in BOOLEAN
    /\ nudged \subseteq Nudge
    /\ closed \in BOOLEAN /\ stripped \subseteq Tool /\ stalled \subseteq Search
    /\ burnt \in Nat /\ orbit \in Nat
    /\ grounded \in BOOLEAN /\ escaped \in BOOLEAN /\ idle \in BOOLEAN
    /\ counts \in [Discovery -> Nat] /\ fails \in [Tool -> Nat]
    /\ seen \subseteq Call /\ tried \subseteq Call /\ cached \subseteq Call
    /\ pending \in BOOLEAN /\ planned \in BOOLEAN
    /\ cards \in [Call -> Nat] /\ ran \subseteq Call

\* The round budget never runs out without an answer: its last round is one in
\* which nothing can be called (ai.rs: "the LAST round is always a forced final").
LastRoundIsFinal == at # "exhausted"

\* What needs approval runs only for a schedule, whose registration was
\* approved; and a card is minted only where somebody can see it, for an order
\* only in a chat.
PersonDecides ==
    /\ \A c \in ran : c \in Guarded \cup Order => mode = "cron"
    /\ \A c \in Call : cards[c] > 0 =>
           \/ mode = "chat"
           \/ mode = "hub" /\ c \in Guarded

\* However often the model repeats an order, in one answer or over many rounds,
\* the turn mints one card for it: there are no piles of cards for one decision.
OneCardPerOrder == \A c \in Order : cards[c] <= 1

\* A discovery tool is not run with more different arguments than its limit
\* allows, whatever is repeated, lapses, fails, is closed or opened again.
CapHolds ==
    \A t \in Discovery : Cardinality({c \in ran : c.tool = t}) <= Limit[t]

\* A turn that only discovers is held: after StallRounds rounds of it the search
\* tools are away, until something else was done.
StallHolds ==
    at = "top" /\ orbit >= StallRounds => closed \/ Search \subseteq stripped

\* An answer in words of a turn that found something and did nothing carries a
\* warning, and does not count as a success of a schedule.
UngroundedIsStamped ==
    at = "ended" /\ text.body # "none" /\ ledger /\ ~grounded
        /\ ~pending /\ ~planned
    => text.banner = "ungrounded" /\ Flagged

\* Every turn comes to an end.
TurnEnds == <>(at \in Ended)
=============================================================================
