--------------------------- MODULE ToolLoopProofs ---------------------------
(***************************************************************************)
(* Proofs about ToolLoop, for any tools, calls, limits, compiled plans and *)
(* any number of rounds above two: the types, the round budget, the safety *)
(* properties of cards, caps, stalls and warnings, and that each step of a *)
(* turn uses up something of it.                                           *)
(***************************************************************************)
EXTENDS ToolLoop, FiniteSetTheorems, TLAPS

-----------------------------------------------------------------------------
(* Types. *)

\* A round that goes on is within the budget.
TypeInv == TypeOK /\ (at \in {"top", "calls"} => round < MaxRounds)

LEMMA CallTypes ==
    ASSUME NEW c \in Call
    PROVE  /\ c.tool \in Tool
           /\ \A k \in Kind : [call |-> c, kind |-> k] \in Result
BY LoopAssumption DEF Result

LEMMA AnswersAreSequences == \A calls \in Answers : calls \in Seq(Call)
<1> SUFFICES ASSUME NEW n \in 1..MaxCalls, NEW calls \in [1..n -> Call]
             PROVE  calls \in Seq(Call)
  BY DEF Answers
<1> n \in Nat BY LoopAssumption
<1> QED OBVIOUS

LEMMA NextRoundTypes ==
    ASSUME TypeInv, at \in {"top", "calls"}, NextRound
    PROVE  /\ at' \in {"top", "exhausted"} /\ round' \in 0..MaxRounds
           /\ at' = "top" => round' < MaxRounds
           /\ round' = round + 1
BY LoopAssumption DEF TypeInv, TypeOK, NextRound

LEMMA TopTypes ==
    ASSUME TypeInv, Top
    PROVE  TypeInv'
<1> USE DEF TypeInv, TypeOK, roundVars, answerVars, thrashVars, verdictVars,
            countVars, waitVars, historyVars, Place
<1>1. CASE Replay BY <1>1 DEF Replay, NoText, Text, Banner
<1>2. CASE OverBudget \/ Fail BY <1>2 DEF OverBudget, Fail
<1>3. ASSUME NEW body \in Text, NEW calls \in Answers, Ask(body, calls)
      PROVE  TypeInv'
  BY <1>3, AnswersAreSequences DEF Ask, Banner
<1>4. ASSUME NEW body \in Text, Correct(body)
      PROVE  TypeInv'
  <2>1. Correction(body) \in Nudge \/ Correction(body) = "none"
    BY DEF Correction, Nudge
  <2>2. /\ at' \in {"top", "exhausted"} /\ round' \in 0..MaxRounds
        /\ at' = "top" => round' < MaxRounds
    BY <1>4, NextRoundTypes DEF Correct
  <2> QED BY <1>4, <2>1, <2>2 DEF Correct, NoText, Text, Banner
<1>5. ASSUME NEW body \in Text, Finish(body)
      PROVE  TypeInv'
  <2>1. Stamp(body) \in Banner BY DEF Stamp, Banner
  <2>2. closed' \in BOOLEAN /\ idle' \in BOOLEAN /\ shown' \in BOOLEAN
    BY <1>5 DEF Finish, Closing, Idle
  <2> QED BY <1>5, <2>1, <2>2 DEF Finish
<1> QED BY <1>1, <1>2, <1>3, <1>4, <1>5 DEF Top

LEMMA BecomesTypes ==
    ASSUME TypeInv, NEW c \in Call, NEW kind \in Kind, Here(c), Becomes(c, kind)
    PROVE  /\ mode' \in Mode /\ at' \in Place /\ round' \in 0..MaxRounds
           /\ at' \in {"top", "calls"} => round' < MaxRounds
           /\ queue' \in Seq(Call) /\ replay' \in Seq(Call)
           /\ results' \subseteq Result
           /\ text' \in [body : Text, banner : Banner]
           /\ worked' \in BOOLEAN /\ shown' \in BOOLEAN /\ nudged' \subseteq Nudge
           /\ closed' \in BOOLEAN /\ burnt' \in Nat /\ orbit' \in Nat
           /\ idle' \in BOOLEAN
BY CallTypes DEF TypeInv, TypeOK, Here, Becomes

LEMMA ChargedTypes ==
    ASSUME TypeInv, NEW c \in Call
    PROVE  Charged(c) \in [Discovery -> Nat]
BY DEF TypeInv, TypeOK, Charged

LEMMA MintedTypes ==
    ASSUME TypeInv, NEW c \in Call, Minted(c)
    PROVE  pending' \in BOOLEAN /\ cards' \in [Call -> Nat]
BY DEF TypeInv, TypeOK, Minted

LEMMA EvidenceTypes ==
    ASSUME TypeInv, NEW c \in Call, NEW charged, Evidence(c, charged), Noted(c)
    PROVE  /\ grounded' \in BOOLEAN /\ escaped' \in BOOLEAN /\ ledger' \in BOOLEAN
           /\ stripped' \subseteq Tool /\ stalled' \subseteq Search
BY DEF TypeInv, TypeOK, Evidence, Noted

LEMMA DispatchTypes ==
    ASSUME TypeInv, NEW c \in Call, Dispatch(c)
    PROVE  TypeInv'
<1> USE DEF TypeInv, TypeOK, countVars, waitVars, historyVars, Kind
<1>1. CASE RefuseGuarded(c) BY <1>1, BecomesTypes DEF RefuseGuarded
<1>2. CASE MintGuarded(c) BY <1>2, BecomesTypes, MintedTypes DEF MintGuarded
<1>3. ASSUME Pass(c)
      PROVE  counts' \in [Discovery -> Nat] /\ seen' \subseteq Call /\ Here(c)
  BY <1>3, ChargedTypes DEF Pass
<1>4. CASE Unparseable(c)
  BY <1>3, <1>4, BecomesTypes DEF Unparseable, Untouched
<1>5. CASE Capped(c) BY <1>3, <1>5, BecomesTypes DEF Capped, Untouched
<1>6. CASE Duplicate(c) BY <1>3, <1>6, BecomesTypes DEF Duplicate, Untouched
<1>7. ASSUME Reaches(c)
      PROVE  /\ counts' \in [Discovery -> Nat] /\ seen' \subseteq Call
             /\ tried' \subseteq Call /\ Here(c)
  BY <1>3, <1>7 DEF Reaches
<1>8. CASE Refuse(c) BY <1>7, <1>8, BecomesTypes DEF Refuse, Untouched
<1>9. CASE MintOrder(c)
  BY <1>7, <1>9, BecomesTypes, MintedTypes, EvidenceTypes DEF MintOrder
<1>10. CASE Serve(c)
  BY <1>7, <1>10, BecomesTypes, EvidenceTypes DEF Serve, Runs
<1>11. ASSUME Dispatched(c)
       PROVE  /\ counts' \in [Discovery -> Nat] /\ seen' \subseteq Call
              /\ tried' \subseteq Call /\ Here(c) /\ ran' \subseteq Call
  BY <1>7, <1>11 DEF Dispatched, Runs
<1>12. ASSUME Redirect(c) PROVE redirected' \in BOOLEAN BY <1>12 DEF Redirect
<1>13. CASE RunDone(c)
  BY <1>11, <1>12, <1>13, BecomesTypes, EvidenceTypes DEF RunDone
<1>14. CASE RunHollow(c) BY <1>11, <1>12, <1>14, BecomesTypes DEF RunHollow
<1>15. CASE RunFailed(c)
  <2>1. c.tool \in Tool BY CallTypes
  <2>2. fails' \in [Tool -> Nat] BY <1>15, <2>1, SMTT(30) DEF RunFailed
  <2> QED BY <1>11, <1>12, <1>15, <2>2, BecomesTypes DEF RunFailed
<1> QED BY <1>1, <1>2, <1>4, <1>5, <1>6, <1>8, <1>9, <1>10, <1>13, <1>14, <1>15
        DEF Dispatch

LEMMA JudgedTypes ==
    ASSUME TypeInv, Judged
    PROVE  /\ mode' \in Mode /\ queue' \in Seq(Call) /\ replay' \in Seq(Call)
           /\ results' \subseteq Result /\ tried' \subseteq Call
           /\ burnt' \in Nat /\ orbit' \in Nat /\ closed' \in BOOLEAN
           /\ stripped' \subseteq Tool /\ stalled' \subseteq Search
           /\ shown' \in BOOLEAN /\ worked' \in BOOLEAN
           /\ UNCHANGED <<redirected, ledger, nudged, verdictVars, counts, fails, seen,
                          cached, waitVars, historyVars>>
<1> USE DEF TypeInv, TypeOK
<1>1. Burnt \in Nat /\ Orbit \in Nat /\ ForceFinal \in BOOLEAN
  BY DEF Burnt, Orbit, ForceFinal, AllRejected
<1>2. {r.call.tool : r \in Of({"cap"})} \subseteq Tool
  BY CallTypes DEF Of, Result
<1>3. Narrowed \subseteq Tool /\ Search \subseteq Tool
  BY <1>2 DEF Narrowed, Tool, Discovery
<1>4. Blocks \subseteq BOOLEAN BY DEF Blocks
<1> QED BY <1>1, <1>3, <1>4 DEF Judged

LEMMA TypeStep ==
    ASSUME TypeInv, [Next]_vars
    PROVE  TypeInv'
<1>1. CASE Top BY <1>1, TopTypes
<1>2. ASSUME NEW c \in Call, Dispatch(c) PROVE TypeInv' BY <1>2, DispatchTypes
<1>3. CASE EndForReader
  BY <1>3, JudgedTypes
  DEF EndForReader, TypeInv, TypeOK, verdictVars, waitVars, historyVars, Place,
      NoText, Text, Banner
<1>4. CASE GoOn
  <2>1. /\ at' \in {"top", "exhausted"} /\ round' \in 0..MaxRounds
        /\ at' = "top" => round' < MaxRounds
    BY <1>4, NextRoundTypes DEF GoOn, Judged
  <2> QED BY <1>4, <2>1, JudgedTypes
          DEF GoOn, TypeInv, TypeOK, verdictVars, waitVars, historyVars, Place,
              NoText, Text, Banner
<1>5. ASSUME NEW c \in Call, Lapse(c)
      PROVE  TypeInv'
  BY <1>5 DEF Lapse, TypeInv, TypeOK, roundVars, answerVars, thrashVars, verdictVars,
              waitVars, historyVars
<1>6. CASE UNCHANGED vars
  BY <1>6 DEF vars, TypeInv, TypeOK, roundVars, answerVars, thrashVars, verdictVars,
              countVars, waitVars, historyVars
<1> QED BY <1>1, <1>2, <1>3, <1>4, <1>5, <1>6 DEF Next, Step

LEMMA TypeInit == Init => TypeInv
<1> SUFFICES ASSUME Init PROVE TypeInv OBVIOUS
<1>1. replay \in Seq(Call) BY LoopAssumption DEF Init
<1>2. round \in 0..MaxRounds /\ round < MaxRounds BY LoopAssumption DEF Init
<1>3. mode \in Mode BY LoopAssumption DEF Init
<1>4. text \in [body : Text, banner : Banner] BY DEF Init, NoText, Text, Banner
<1>5. queue \in Seq(Call) BY DEF Init
<1>6. /\ counts \in [Discovery -> Nat] /\ fails \in [Tool -> Nat]
      /\ cards \in [Call -> Nat]
  BY DEF Init
<1> QED BY <1>1, <1>2, <1>3, <1>4, <1>5, <1>6 DEF Init, TypeInv, TypeOK, Place

\* Every reachable state of a turn is well formed.
THEOREM TypeCorrect == Spec => []TypeOK
<1>1. TypeInv /\ [Next]_vars => TypeInv' BY TypeStep
<1>2. TypeInv => TypeOK BY DEF TypeInv
<1> QED BY <1>1, <1>2, TypeInit, PTL DEF Spec

-----------------------------------------------------------------------------
(* What all calls leave alone. *)

LEMMA DispatchFrame ==
    ASSUME NEW c \in Call, Dispatch(c)
    PROVE  /\ Here(c) /\ at = "calls"
           /\ UNCHANGED <<mode, at, round, replay, text, worked, shown, nudged, closed,
                          burnt, orbit, idle>>
           /\ results \subseteq results'
BY DEF Dispatch, Here, Becomes, RefuseGuarded, MintGuarded, Pass, Unparseable, Capped,
       Duplicate, Reaches, Refuse, MintOrder, Runs, Serve, Dispatched, RunDone,
       RunHollow, RunFailed

LEMMA JudgedFrame ==
    ASSUME Judged
    PROVE  /\ at = "calls" /\ worked'
           /\ UNCHANGED <<mode, replay, ledger, grounded, escaped, idle, counts, seen,
                          pending, planned, cards, ran>>
BY DEF Judged, verdictVars, waitVars, historyVars

LEMMA LapseFrame ==
    ASSUME NEW c \in Call, Lapse(c)
    PROVE  UNCHANGED <<mode, roundVars, answerVars, thrashVars, verdictVars, counts,
                       fails, seen, tried, waitVars, historyVars>>
BY DEF Lapse

-----------------------------------------------------------------------------
(* The round budget. *)

\* A model that was not let to call anything has at most been told once to say
\* something.
Early ==
    at = "top" /\ ~worked =>
        /\ ~ledger /\ ~redirected
        /\ round = 0 \/ (round = 1 /\ "empty" \in nudged)

Budget ==
    /\ replay # << >> => at \in {"top", "failed"} /\ round = 0
    /\ at = "calls" => round < MaxRounds - 1
    /\ Early
    /\ LastRoundIsFinal

LEMMA BudgetInit == Init => Budget
BY DEF Init, Budget, Early, LastRoundIsFinal

\* The last round is closed.
LEMMA OpenIsNotLast ==
    ASSUME TypeInv, Budget, at = "top", ~Closing
    PROVE  round < MaxRounds - 1 /\ round \in Nat
BY LoopAssumption DEF TypeInv, TypeOK, Budget, Early, Closing

LEMMA CorrectBudget ==
    ASSUME TypeInv, Budget, NEW body \in Text, Correct(body)
    PROVE  Budget'
<1>1. at = "top" /\ replay = << >> /\ ~Closing BY DEF Correct, Correction
<1>2. round < MaxRounds - 1 /\ round \in Nat BY <1>1, OpenIsNotLast
<1>3. at' = "top" /\ round' = round + 1
  BY <1>2, LoopAssumption DEF Correct, NextRound
<1>4. ASSUME ~worked'
      PROVE  ~ledger' /\ ~redirected' /\ round' = 1 /\ "empty" \in nudged'
  <2>1. ~worked /\ ~ledger /\ ~redirected
    BY <1>1, <1>4 DEF Correct, Budget, Early
  <2>2. ~NothingDone /\ ~FenceMissing(body)
    BY <2>1 DEF NothingDone, FenceMissing
  <2>3. NothingSaid(body) /\ Correction(body) = "empty"
    BY <1>1, <2>2 DEF Correct, Correction
  <2>4. round = 0 BY <1>1, <2>1, <2>3 DEF NothingSaid, Budget, Early
  <2> QED BY <1>3, <2>1, <2>3, <2>4 DEF Correct
<1> QED BY <1>1, <1>3, <1>4 DEF Correct, Budget, Early, LastRoundIsFinal

LEMMA BudgetStep ==
    ASSUME TypeInv, Budget, [Next]_vars
    PROVE  Budget'
<1> USE DEF roundVars, answerVars, thrashVars, verdictVars, countVars, waitVars,
            historyVars
<1>1. CASE Replay
  BY <1>1, LoopAssumption DEF Replay, Budget, Early, LastRoundIsFinal
<1>2. CASE OverBudget \/ Fail BY <1>2 DEF OverBudget, Fail, Budget, Early, LastRoundIsFinal
<1>3. ASSUME NEW body \in Text, NEW calls \in Answers, Ask(body, calls)
      PROVE  Budget'
  BY <1>3, OpenIsNotLast DEF Ask, Budget, Early, LastRoundIsFinal
<1>4. ASSUME NEW body \in Text, Correct(body) PROVE Budget'
  BY <1>4, CorrectBudget
<1>5. ASSUME NEW body \in Text, Finish(body) PROVE Budget'
  BY <1>5 DEF Finish, Budget, Early, LastRoundIsFinal
<1>6. ASSUME NEW c \in Call, Dispatch(c) PROVE Budget'
  BY <1>6, DispatchFrame DEF Budget, Early, LastRoundIsFinal
<1>7. CASE EndForReader
  BY <1>7, JudgedFrame DEF EndForReader, Budget, Early, LastRoundIsFinal
<1>8. CASE GoOn
  <2>1. at = "calls" /\ worked' /\ replay' = replay BY <1>8, JudgedFrame DEF GoOn
  <2>2. at' = "top"
    BY <1>8, <2>1, LoopAssumption DEF GoOn, NextRound, Budget, TypeInv, TypeOK
  <2> QED BY <2>1, <2>2 DEF Budget, Early, LastRoundIsFinal
<1>9. ASSUME NEW c \in Call, Lapse(c) PROVE Budget'
  BY <1>9, LapseFrame DEF Budget, Early, LastRoundIsFinal
<1>10. CASE UNCHANGED vars BY <1>10 DEF vars, Budget, Early, LastRoundIsFinal
<1> QED BY <1>1, <1>2, <1>3, <1>4, <1>5, <1>6, <1>7, <1>8, <1>9, <1>10
        DEF Next, Step, Top

\* The budget never runs out without an answer.
THEOREM LastRoundIsFinalAlways == Spec => []LastRoundIsFinal
<1>1. TypeInv /\ Budget /\ [Next]_vars => (TypeInv /\ Budget)'
  BY TypeStep, BudgetStep
<1>2. Budget => LastRoundIsFinal BY DEF Budget
<1> QED BY <1>1, <1>2, TypeInit, BudgetInit, PTL DEF Spec

-----------------------------------------------------------------------------
(* Approvals. *)

LEMMA DispatchCards ==
    ASSUME NEW c \in Call, Dispatch(c)
    PROVE  /\ tried \subseteq tried'
           /\ \/ UNCHANGED <<cards, pending>>
              \/ /\ Minted(c)
                 /\ \/ c \in Guarded /\ mode # "cron" /\ mode # "sub"
                    \/ c \notin tried /\ c \in tried' /\ mode = "chat"
           /\ ran' \subseteq ran \cup {c}
           /\ c \in ran' => c \in ran \/ (~NeedsApproval(c) /\ ~Gated(c))
<1> USE DEF countVars, waitVars, historyVars
<1>1. CASE RefuseGuarded(c) BY <1>1 DEF RefuseGuarded
<1>2. CASE MintGuarded(c) BY <1>2 DEF MintGuarded, NeedsApproval
<1>3. CASE Unparseable(c) BY <1>3 DEF Unparseable
<1>4. CASE Capped(c) BY <1>4 DEF Capped
<1>5. CASE Duplicate(c) BY <1>5 DEF Duplicate
<1>6. CASE Refuse(c) BY <1>6 DEF Refuse, Reaches
<1>7. CASE MintOrder(c) BY <1>7 DEF MintOrder, Reaches
<1>8. CASE Serve(c) BY <1>8 DEF Serve, Runs, Reaches
<1>9. ASSUME Dispatched(c)
      PROVE  /\ tried \subseteq tried'
             /\ ~NeedsApproval(c) /\ ~Gated(c)
             /\ ran' \subseteq ran \cup {c}
  BY <1>9 DEF Dispatched, Runs, Reaches, Pass
<1>10. CASE RunDone(c) BY <1>9, <1>10 DEF RunDone
<1>11. CASE RunHollow(c) BY <1>9, <1>11 DEF RunHollow
<1>12. CASE RunFailed(c) BY <1>9, <1>12 DEF RunFailed
<1> QED BY <1>1, <1>2, <1>3, <1>4, <1>5, <1>6, <1>7, <1>8, <1>10, <1>11, <1>12
        DEF Dispatch

\* Nothing but a call mints a card or runs.
LEMMA OtherCards ==
    ASSUME Top \/ EndForReader \/ GoOn \/ (\E c \in Call : Lapse(c))
           \/ UNCHANGED vars
    PROVE  UNCHANGED <<mode, cards, pending, ran, counts, seen, grounded, escaped, ledger>>
BY JudgedFrame
DEF Top, Replay, Ask, Correct, Finish, OverBudget, Fail, EndForReader, GoOn, Lapse, vars,
    roundVars,
    answerVars, thrashVars, verdictVars, countVars, waitVars, historyVars

LEMMA PersonStep ==
    ASSUME TypeInv, PersonDecides, [Next]_vars
    PROVE  PersonDecides'
<1>1. ASSUME NEW c \in Call, Dispatch(c)
      PROVE  PersonDecides'
  <2>1. UNCHANGED mode /\ mode \in Mode
    BY <1>1, DispatchFrame DEF TypeInv, TypeOK
  <2>2. ASSUME NEW d \in ran', d \in Guarded \cup Order
        PROVE  mode' = "cron"
    <3>1. CASE d \in ran BY <2>1, <2>2, <3>1 DEF PersonDecides
    <3>2. CASE d \notin ran
      <4>1. d = c /\ ~NeedsApproval(c) /\ ~Gated(c)
        BY <1>1, <2>2, <3>2, DispatchCards
      <4> QED BY <2>1, <2>2, <4>1 DEF NeedsApproval, Gated
    <3> QED BY <3>1, <3>2
  <2>3. ASSUME NEW d \in Call, cards'[d] > 0
        PROVE  mode' = "chat" \/ (mode' = "hub" /\ d \in Guarded)
    <3>1. CASE cards'[d] = cards[d] BY <2>1, <2>3, <3>1 DEF PersonDecides
    <3>2. CASE cards'[d] # cards[d]
      <4>1. Minted(c) BY <1>1, <3>2, DispatchCards
      <4>2. d = c BY <3>2, <4>1 DEF Minted, TypeInv, TypeOK
      <4>3. cards' # cards BY <3>2
      <4>4. \/ c \in Guarded /\ mode # "cron" /\ mode # "sub"
            \/ mode = "chat"
        BY <1>1, <4>3, DispatchCards
      <4> QED BY <2>1, <4>2, <4>4 DEF Mode
    <3> QED BY <3>1, <3>2
  <2> QED BY <2>2, <2>3 DEF PersonDecides
<1>2. CASE UNCHANGED <<mode, cards, ran>> BY <1>2 DEF PersonDecides
<1> QED BY <1>1, <1>2, OtherCards DEF Next, Step

\* What needs approval runs only in a schedule, and a card is minted only where
\* somebody sees it.
THEOREM PersonDecidesAlways == Spec => []PersonDecides
<1>1. Init => PersonDecides BY DEF Init, PersonDecides
<1>2. TypeInv /\ PersonDecides /\ [Next]_vars => (TypeInv /\ PersonDecides)'
  BY TypeStep, PersonStep
<1> QED BY <1>1, <1>2, TypeInit, PTL DEF Spec

\* A minted order has been tried in this round, which is the turn's last.
Orders ==
    \A c \in Order :
        /\ cards[c] \in {0, 1}
        /\ cards[c] = 1 => /\ pending /\ at \in {"calls", "ended"}
                           /\ at = "calls" => c \in tried

LEMMA OrdersStep ==
    ASSUME TypeInv, Orders, [Next]_vars
    PROVE  Orders'
<1>0. Order \subseteq Call /\ Guarded \cap Order = {} BY LoopAssumption
<1>1. ASSUME NEW c \in Call, Dispatch(c)
      PROVE  Orders'
  <2>1. at = "calls" /\ at' = "calls" BY <1>1, DispatchFrame
  <2>2. tried \subseteq tried' BY <1>1, DispatchCards
  <2>3. CASE UNCHANGED <<cards, pending>> BY <2>1, <2>2, <2>3 DEF Orders
  <2>4. CASE cards' # cards \/ pending' # pending
    <3>1. /\ Minted(c)
          /\ c \in Guarded \/ (c \notin tried /\ c \in tried')
      BY <1>1, <2>4, DispatchCards
    <3>2. ASSUME NEW d \in Order \ {c}
          PROVE  cards'[d] = cards[d]
      BY <1>0, <3>1 DEF Minted, TypeInv, TypeOK
    <3>3. ASSUME c \in Order
          PROVE  cards'[c] = 1 /\ c \in tried'
      <4>1. c \notin tried /\ c \in tried' BY <1>0, <3>1, <3>3
      <4>2. cards[c] = 0 BY <2>1, <3>3, <4>1 DEF Orders
      <4> QED BY <1>0, <3>1, <3>3, <4>1, <4>2 DEF Minted, TypeInv, TypeOK
    <3>4. pending' BY <3>1 DEF Minted
    <3> QED BY <2>1, <2>2, <3>2, <3>3, <3>4 DEF Orders
  <2> QED BY <2>3, <2>4
<1>2. ASSUME UNCHANGED <<cards, pending, tried>>, at' = at
      PROVE  Orders'
  BY <1>2 DEF Orders
<1>3. CASE Top
  <2>1. at = "top" BY <1>3 DEF Top, Replay, Ask, Correct, Finish, OverBudget, Fail
  <2> QED BY <1>3, <2>1, OtherCards DEF Orders
<1>4. CASE EndForReader
  <2>1. at = "calls" /\ at' = "ended" BY <1>4, JudgedFrame DEF EndForReader
  <2> QED BY <1>4, <2>1, OtherCards DEF Orders
<1>5. CASE GoOn
  <2>1. ~pending BY <1>5 DEF GoOn
  <2> QED BY <1>5, <2>1, OtherCards DEF Orders
<1>6. ASSUME NEW c \in Call, Lapse(c) PROVE Orders'
  BY <1>2, <1>6, LapseFrame DEF roundVars, waitVars, historyVars
<1>7. CASE UNCHANGED vars
  BY <1>2, <1>7 DEF vars, roundVars, countVars, waitVars, historyVars
<1> QED BY <1>1, <1>3, <1>4, <1>5, <1>6, <1>7 DEF Next, Step

\* One order, one card.
THEOREM OneCardPerOrderAlways == Spec => []OneCardPerOrder
<1>1. Init => Orders
  <2>1. Order \subseteq Call BY LoopAssumption
  <2> QED BY <2>1 DEF Init, Orders
<1>2. TypeInv /\ Orders /\ [Next]_vars => (TypeInv /\ Orders)'
  BY TypeStep, OrdersStep
<1>3. Orders => OneCardPerOrder BY DEF Orders, OneCardPerOrder
<1> QED BY <1>1, <1>2, <1>3, TypeInit, PTL DEF Spec

-----------------------------------------------------------------------------
(* Limits. *)

Seen(t) == {c \in seen : c.tool = t}

\* The charge of a tool is the number of different calls of it.
Caps ==
    /\ IsFiniteSet(seen)
    /\ \A t \in Discovery : counts[t] = Cardinality(Seen(t))
    /\ \A c \in ran : c.tool \in Discovery => c \in seen
    /\ CapHolds

LEMMA SeenIsFinite ==
    ASSUME IsFiniteSet(seen), NEW t
    PROVE  IsFiniteSet(Seen(t)) /\ Cardinality(Seen(t)) \in Nat
BY FS_Subset, FS_CardinalityType DEF Seen

LEMMA DispatchCounts ==
    ASSUME NEW c \in Call, Dispatch(c)
    PROVE  \/ UNCHANGED <<counts, seen, ran>>
           \/ /\ Pass(c)
              /\ \/ UNCHANGED ran
                 \/ ~OverCap(c) /\ ran' \subseteq ran \cup {c}
<1> USE DEF historyVars, countVars
<1>1. CASE RefuseGuarded(c) BY <1>1 DEF RefuseGuarded
<1>2. CASE MintGuarded(c) BY <1>2 DEF MintGuarded
<1>3. CASE Unparseable(c) \/ Capped(c) \/ Duplicate(c)
  BY <1>3 DEF Unparseable, Capped, Duplicate
<1>4. CASE Refuse(c) \/ MintOrder(c) \/ Serve(c)
  BY <1>4 DEF Refuse, MintOrder, Serve, Runs, Reaches
<1>5. CASE RunDone(c) \/ RunHollow(c) \/ RunFailed(c)
  BY <1>5 DEF RunDone, RunHollow, RunFailed, Dispatched, Runs, Reaches
<1> QED BY <1>1, <1>2, <1>3, <1>4, <1>5 DEF Dispatch

LEMMA PassCounts ==
    ASSUME TypeInv, Caps, NEW c \in Call, Pass(c)
    PROVE  /\ IsFiniteSet(seen')
           /\ \A t \in Discovery : counts'[t] = Cardinality(Seen(t)')
           /\ seen \subseteq seen'
           /\ c.tool \in Discovery => c \in seen'
<1>1. CASE c \in seen \/ c.tool \notin Discovery
  <2>1. seen' = seen /\ counts' = counts BY <1>1 DEF Pass, Charged
  <2>2. \A t \in Discovery : Seen(t)' = Seen(t) BY <2>1 DEF Seen
  <2> QED BY <1>1, <2>1, <2>2 DEF Caps
<1>2. CASE c \notin seen /\ c.tool \in Discovery
  <2>1. /\ seen' = seen \cup {c}
        /\ counts' = [counts EXCEPT ![c.tool] = @ + 1]
    BY <1>2 DEF Pass, Charged
  <2>2. IsFiniteSet(seen') BY <2>1, FS_AddElement DEF Caps
  <2>3. ASSUME NEW t \in Discovery
        PROVE  counts'[t] = Cardinality(Seen(t)')
    <3>1. counts[t] = Cardinality(Seen(t)) /\ counts[t] \in Nat
      BY DEF Caps, TypeInv, TypeOK
    <3>2. CASE t = c.tool
      <4>1. Seen(t)' = Seen(t) \cup {c} /\ c \notin Seen(t)
        BY <1>2, <2>1, <3>2 DEF Seen
      <4>2. Cardinality(Seen(t)') = Cardinality(Seen(t)) + 1
        BY <4>1, SeenIsFinite, FS_AddElement DEF Caps
      <4> QED BY <2>1, <3>1, <3>2, <4>2 DEF TypeInv, TypeOK
    <3>3. CASE t # c.tool
      <4>1. Seen(t)' = Seen(t) BY <2>1, <3>3 DEF Seen
      <4> QED BY <2>1, <3>1, <3>3, <4>1 DEF TypeInv, TypeOK
    <3> QED BY <3>2, <3>3
  <2> QED BY <2>1, <2>2, <2>3
<1> QED BY <1>1, <1>2

LEMMA PassCaps ==
    ASSUME TypeInv, Caps, NEW c \in Call, Pass(c),
           UNCHANGED ran \/ (~OverCap(c) /\ ran' \subseteq ran \cup {c})
    PROVE  Caps'
<1>1. /\ IsFiniteSet(seen')
      /\ \A t \in Discovery : counts'[t] = Cardinality(Seen(t)')
      /\ seen \subseteq seen'
      /\ c.tool \in Discovery => c \in seen'
  BY PassCounts
<1>2. \A d \in ran' : d.tool \in Discovery => d \in seen'
  BY <1>1 DEF Caps
<1>3. ASSUME NEW t \in Discovery
      PROVE  Cardinality({d \in ran' : d.tool = t}) <= Limit[t]
  <2> DEFINE Ran == {d \in ran : d.tool = t}
             RanNext == {d \in ran' : d.tool = t}
  <2>1. CASE RanNext = Ran \/ UNCHANGED ran
    <3>1. Cardinality(Ran) <= Limit[t] BY DEF Caps, CapHolds
    <3> QED BY <2>1, <3>1
  <2>2. CASE RanNext # Ran /\ ran' # ran
    <3> DEFINE Now == Seen(t)'
    <3>1. t = c.tool \/ RanNext \subseteq Ran BY <2>2
    <3>2. RanNext \subseteq Now BY <1>2 DEF Seen
    <3>3. IsFiniteSet(Now) /\ Cardinality(Now) \in Nat
      BY <1>1, FS_Subset, FS_CardinalityType DEF Seen
    <3>4. CASE t = c.tool
      <4>1. counts'[t] <= Limit[t]
        <5>1. ~OverCap(c) /\ counts' = Charged(c) BY <2>2 DEF Pass
        <5>2. counts'[t] \in Nat /\ Limit[t] \in Nat
          BY <5>1, ChargedTypes, LoopAssumption
        <5> QED BY <3>4, <5>1, <5>2 DEF OverCap
      <4>2. Cardinality(RanNext) <= Cardinality(Now)
        BY <3>2, <3>3, FS_Subset
      <4>3. Cardinality(RanNext) \in Nat
        BY <3>2, <3>3, FS_Subset, FS_CardinalityType
      <4>4. Limit[t] \in Nat BY LoopAssumption
      <4>5. counts'[t] = Cardinality(Now) BY <1>1
      <4> QED BY <3>3, <4>1, <4>2, <4>3, <4>4, <4>5
    <3>5. CASE RanNext \subseteq Ran
      <4>1. Ran \subseteq Seen(t) BY DEF Caps, Seen
      <4>2. IsFiniteSet(Ran) BY <4>1, SeenIsFinite, FS_Subset DEF Caps
      <4>3. Cardinality(RanNext) <= Cardinality(Ran)
        BY <3>5, <4>2, FS_Subset
      <4>4. Cardinality(Ran) <= Limit[t] BY DEF Caps, CapHolds
      <4>5. Cardinality(RanNext) \in Nat /\ Cardinality(Ran) \in Nat
        BY <3>5, <4>2, FS_Subset, FS_CardinalityType
      <4>6. Limit[t] \in Nat BY LoopAssumption
      <4> QED BY <4>3, <4>4, <4>5, <4>6
    <3> QED BY <3>1, <3>4, <3>5
  <2> QED BY <2>1, <2>2
<1> QED BY <1>1, <1>2, <1>3 DEF Caps, CapHolds

LEMMA CapsKept ==
    ASSUME Caps, UNCHANGED <<counts, seen, ran>>
    PROVE  Caps'
<1>1. \A t \in Discovery : Seen(t)' = Seen(t) BY DEF Seen
<1> QED BY <1>1 DEF Caps, CapHolds

LEMMA CapsStep ==
    ASSUME TypeInv, Caps, [Next]_vars
    PROVE  Caps'
<1>1. ASSUME NEW c \in Call, Dispatch(c)
      PROVE  Caps'
  BY <1>1, DispatchCounts, PassCaps, CapsKept
<1> QED BY <1>1, OtherCards, CapsKept DEF Next, Step

\* A discovery tool is never run with more different arguments than allowed.
THEOREM CapHoldsAlways == Spec => []CapHolds
<1>1. Init => Caps
  <2> SUFFICES ASSUME Init PROVE Caps OBVIOUS
  <2>1. seen = {} /\ ran = {} /\ \A t \in Discovery : counts[t] = 0 BY DEF Init
  <2>2. \A t \in Discovery : Seen(t) = {} /\ {c \in ran : c.tool = t} = {}
    BY <2>1 DEF Seen
  <2>3. \A t \in Discovery : 0 <= Limit[t] BY LoopAssumption
  <2> QED BY <2>1, <2>2, <2>3, FS_EmptySet DEF Caps, CapHolds
<1>2. TypeInv /\ Caps /\ [Next]_vars => (TypeInv /\ Caps)'
  BY TypeStep, CapsStep
<1>3. Caps => CapHolds BY DEF Caps
<1> QED BY <1>1, <1>2, <1>3, TypeInit, PTL DEF Spec

-----------------------------------------------------------------------------
(* Stalls. *)

SearchAway == closed \/ Search \subseteq stripped

\* In a round the search tools may be open again once something else was done.
Stalls ==
    orbit >= StallRounds =>
        /\ at = "top" => SearchAway
        /\ at = "calls" => SearchAway
                           \/ \E r \in Of(Success) : r.call.tool \notin Discovery

LEMMA DispatchStall ==
    ASSUME NEW c \in Call, Dispatch(c)
    PROVE  \/ UNCHANGED stripped
           \/ \E r \in results' : r.kind \in Success /\ r.call.tool \notin Discovery
<1> USE DEF Untouched
<1>1. ASSUME NEW kind \in Success, Becomes(c, kind), Evidence(c, counts')
      PROVE  \/ UNCHANGED stripped
             \/ \E r \in results' : r.kind \in Success /\ r.call.tool \notin Discovery
  <2> DEFINE r == [call |-> c, kind |-> kind]
  <2>1. r \in results' /\ r.kind = kind /\ r.call = c BY <1>1 DEF Becomes
  <2> QED BY <1>1, <2>1 DEF Evidence
<1>2. CASE RefuseGuarded(c) \/ MintGuarded(c)
  BY <1>2 DEF RefuseGuarded, MintGuarded
<1>3. CASE Unparseable(c) \/ Capped(c) \/ Duplicate(c) \/ Refuse(c)
  BY <1>3 DEF Unparseable, Capped, Duplicate, Refuse
<1>4. CASE MintOrder(c) BY <1>1, <1>4 DEF MintOrder, Success
<1>5. CASE Serve(c) BY <1>1, <1>5 DEF Serve, Success
<1>6. CASE RunDone(c) BY <1>1, <1>6 DEF RunDone, Success
<1>7. CASE RunHollow(c) \/ RunFailed(c) BY <1>7 DEF RunHollow, RunFailed
<1> QED BY <1>2, <1>3, <1>4, <1>5, <1>6, <1>7 DEF Dispatch

LEMMA JudgedStall ==
    ASSUME TypeInv, Stalls, Judged, orbit' >= StallRounds
    PROVE  SearchAway'
<1>0. StallRounds \in Nat /\ StallRounds > 0 /\ orbit \in Nat
  BY LoopAssumption DEF TypeInv, TypeOK
<1>1. /\ at = "calls" /\ orbit' = Orbit /\ closed' = ForceFinal
      /\ stripped' = Narrowed \cup (IF Stall THEN Search ELSE {})
  BY DEF Judged
<1>2. stripped \subseteq Narrowed BY DEF Narrowed
<1>3. ~\E r \in Of(Success) : r.call.tool \notin Discovery
  <2> SUFFICES ASSUME NEW r \in Of(Success), r.call.tool \notin Discovery
               PROVE  FALSE
    OBVIOUS
  <2>1. ~\A q \in results : q.call.tool \in Discovery BY DEF Of
  <2>2. Orbit = 0 BY <2>1 DEF Orbit
  <2> QED BY <1>0, <1>1, <2>2
<1>4. CASE orbit >= StallRounds
  <2>1. SearchAway BY <1>1, <1>3, <1>4 DEF Stalls
  <2> QED BY <1>1, <1>2, <2>1 DEF SearchAway, ForceFinal
<1>5. CASE ~(orbit >= StallRounds)
  <2>1. Orbit = orbit \/ Orbit = orbit + 1 BY <1>3 DEF Orbit
  <2>2. Orbit = StallRounds BY <1>0, <1>1, <1>5, <2>1
  <2> QED BY <1>1, <2>2 DEF SearchAway, Stall
<1> QED BY <1>4, <1>5

LEMMA StallsStep ==
    ASSUME TypeInv, Stalls, [Next]_vars
    PROVE  Stalls'
<1>1. ASSUME NEW c \in Call, Dispatch(c)
      PROVE  Stalls'
  <2>1. /\ at = "calls" /\ UNCHANGED <<at, closed, orbit>>
        /\ results \subseteq results'
    BY <1>1, DispatchFrame
  <2>2. \/ UNCHANGED stripped
        \/ \E r \in results' : r.kind \in Success /\ r.call.tool \notin Discovery
    BY <1>1, DispatchStall
  <2> QED BY <2>1, <2>2 DEF Stalls, SearchAway, Of
<1>2. ASSUME UNCHANGED <<closed, stripped, orbit>>,
             at = "top" \/ UNCHANGED <<at, results>>
      PROVE  Stalls'
  BY <1>2 DEF Stalls, SearchAway, Of
<1>3. CASE Top
  <2>1. CASE Replay BY <1>2, <2>1 DEF Replay, thrashVars
  <2>2. CASE OverBudget \/ Fail BY <1>2, <2>2 DEF OverBudget, Fail, thrashVars
  <2>3. ASSUME NEW body \in Text, NEW calls \in Answers, Ask(body, calls)
        PROVE  Stalls'
    BY <1>2, <2>3 DEF Ask, thrashVars
  <2>4. ASSUME NEW body \in Text, Correct(body)
        PROVE  Stalls'
    <3>1. at = "top" /\ UNCHANGED <<closed, stripped, orbit>>
      BY <2>4 DEF Correct, thrashVars
    <3> QED BY <1>2, <3>1
  <2>5. ASSUME NEW body \in Text, Finish(body) PROVE Stalls'
    BY <2>5 DEF Finish, Stalls
  <2> QED BY <1>3, <2>1, <2>2, <2>3, <2>4, <2>5 DEF Top
<1>4. CASE EndForReader BY <1>4 DEF EndForReader, Stalls
<1>5. CASE GoOn
  <2>1. at' \in {"top", "exhausted"} BY <1>5 DEF GoOn, NextRound
  <2> QED BY <1>5, <2>1, JudgedStall DEF GoOn, Stalls
<1>6. ASSUME NEW c \in Call, Lapse(c) PROVE Stalls'
  BY <1>2, <1>6, LapseFrame DEF roundVars, thrashVars
<1>7. CASE UNCHANGED vars BY <1>2, <1>7 DEF vars, roundVars, thrashVars
<1> QED BY <1>1, <1>3, <1>4, <1>5, <1>6, <1>7 DEF Next, Step

\* A turn that only discovers is held.
THEOREM StallHoldsAlways == Spec => []StallHolds
<1>1. Init => Stalls
  BY LoopAssumption DEF Init, Stalls
<1>2. TypeInv /\ Stalls /\ [Next]_vars => (TypeInv /\ Stalls)'
  BY TypeStep, StallsStep
<1>3. Stalls => StallHolds BY DEF Stalls, StallHolds, SearchAway
<1> QED BY <1>1, <1>2, <1>3, TypeInit, PTL DEF Spec

-----------------------------------------------------------------------------
(* Warnings. *)

Stamps == (escaped => grounded) /\ UngroundedIsStamped

LEMMA FinishStamps ==
    ASSUME TypeInv, Stamps, NEW body \in Text, Finish(body)
    PROVE  Stamps'
<1>1. /\ Correction(body) = "none" /\ text' = [body |-> body, banner |-> Stamp(body)]
      /\ closed' = Closing /\ idle' = Idle(body)
      /\ UNCHANGED <<grounded, escaped, ledger>>
  BY DEF Finish
<1>2. text'.body = body /\ text'.banner = Stamp(body) BY <1>1
<1>3. ASSUME body # "none", ledger, ~grounded
      PROVE  Stamp(body) = "ungrounded" /\ (Closing \/ Idle(body))
  <2>1. ~escaped BY <1>3 DEF Stamps
  <2>2. CASE Closing BY <1>3, <2>1, <2>2 DEF Stamp
  <2>3. CASE ~Closing
    <3>1. "no_action" \in nudged
      BY <1>1, <1>3, <2>3 DEF Correction, NothingDone
    <3>2. Idle(body) BY <1>3, <2>3, <3>1 DEF Idle
    <3> QED BY <2>3, <3>2 DEF Stamp
  <2> QED BY <2>2, <2>3
<1> QED BY <1>1, <1>2, <1>3 DEF Stamps, UngroundedIsStamped, Flagged

LEMMA DispatchEscapes ==
    ASSUME NEW c \in Call, Dispatch(c), escaped => grounded
    PROVE  (escaped => grounded)'
<1>1. CASE UNCHANGED <<grounded, escaped>> BY <1>1
<1>2. CASE Evidence(c, counts') BY <1>2 DEF Evidence
<1> QED BY <1>1, <1>2
    DEF Dispatch, Untouched, RefuseGuarded, MintGuarded, Unparseable, Capped, Duplicate,
        Refuse, MintOrder, Serve, RunDone, RunHollow, RunFailed

LEMMA StampsStep ==
    ASSUME TypeInv, Stamps, [Next]_vars
    PROVE  Stamps'
<1>1. ASSUME NEW c \in Call, Dispatch(c) PROVE Stamps'
  BY <1>1, DispatchFrame, DispatchEscapes DEF Stamps, UngroundedIsStamped
<1>2. ASSUME UNCHANGED <<grounded, escaped>>, at' # "ended"
      PROVE  Stamps'
  BY <1>2 DEF Stamps, UngroundedIsStamped
<1>3. CASE Top
  <2>1. CASE Replay \/ OverBudget \/ Fail BY <1>2, <2>1 DEF Replay, OverBudget, Fail, verdictVars
  <2>2. ASSUME NEW body \in Text, NEW calls \in Answers, Ask(body, calls)
        PROVE  Stamps'
    BY <1>2, <2>2 DEF Ask, verdictVars
  <2>3. ASSUME NEW body \in Text, Correct(body) PROVE Stamps'
    BY <1>2, <2>3 DEF Correct, verdictVars, NextRound
  <2>4. ASSUME NEW body \in Text, Finish(body) PROVE Stamps'
    BY <2>4, FinishStamps
  <2> QED BY <1>3, <2>1, <2>2, <2>3, <2>4 DEF Top
<1>4. CASE EndForReader
  BY <1>4, JudgedFrame DEF EndForReader, Stamps, UngroundedIsStamped
<1>5. CASE GoOn
  <2>1. at' # "ended" BY <1>5 DEF GoOn, NextRound
  <2> QED BY <1>2, <1>5, <2>1, JudgedFrame DEF GoOn
<1>6. ASSUME NEW c \in Call, Lapse(c) PROVE Stamps'
  BY <1>2, <1>6, LapseFrame DEF Lapse, Ended, roundVars, verdictVars
<1>7. CASE UNCHANGED vars
  BY <1>7 DEF vars, roundVars, answerVars, thrashVars, verdictVars, waitVars,
              Stamps, UngroundedIsStamped, Flagged
<1> QED BY <1>1, <1>3, <1>4, <1>5, <1>6, <1>7 DEF Next, Step

\* An answer with nothing behind it carries its warning.
THEOREM UngroundedIsStampedAlways == Spec => []UngroundedIsStamped
<1>1. Init => Stamps BY DEF Init, Stamps, UngroundedIsStamped
<1>2. TypeInv /\ Stamps /\ [Next]_vars => (TypeInv /\ Stamps)'
  BY TypeStep, StampsStep
<1>3. Stamps => UngroundedIsStamped BY DEF Stamps
<1> QED BY <1>1, <1>2, <1>3, TypeInit, PTL DEF Spec

-----------------------------------------------------------------------------
(* Every step uses something up. *)

\* What is left of a turn: rounds, the question of this round, the calls of
\* its answer, and results that other turns can still push out.
RoundsLeft == IF at \in Ended THEN 0 ELSE MaxRounds - round
AskLeft == IF at = "top" THEN 1 ELSE 0
CallsLeft == Len(queue)
CachedLeft == Cardinality(cached)

\* The first of the four that changes goes down.
UsesUp ==
    \/ RoundsLeft' < RoundsLeft
    \/ /\ RoundsLeft' = RoundsLeft
       /\ \/ AskLeft' < AskLeft
          \/ /\ AskLeft' = AskLeft
             /\ \/ CallsLeft' < CallsLeft
                \/ CallsLeft' = CallsLeft /\ CachedLeft' < CachedLeft

CachedIsFinite == IsFiniteSet(cached)

LEMMA MeasureTypes ==
    ASSUME TypeInv, CachedIsFinite
    PROVE  RoundsLeft \in Nat /\ AskLeft \in Nat /\ CallsLeft \in Nat /\ CachedLeft \in Nat
<1>1. CachedLeft \in Nat BY FS_CardinalityType DEF CachedIsFinite, CachedLeft
<1>2. CallsLeft \in Nat BY DEF TypeInv, TypeOK, CallsLeft
<1>3. RoundsLeft \in Nat BY LoopAssumption DEF TypeInv, TypeOK, RoundsLeft
<1> QED BY <1>1, <1>2, <1>3 DEF AskLeft

\* A call takes its place at the head of the queue, whatever becomes of it.
LEMMA DispatchQueue ==
    ASSUME NEW c \in Call, Dispatch(c)
    PROVE  queue' = Tail(queue) /\ (cached' = cached \/ cached' = cached \cup {c})
<1> USE DEF Becomes, countVars
<1>1. CASE RefuseGuarded(c) BY <1>1 DEF RefuseGuarded
<1>2. CASE MintGuarded(c) BY <1>2 DEF MintGuarded
<1>3. CASE Unparseable(c) \/ Capped(c) \/ Duplicate(c)
  BY <1>3 DEF Unparseable, Capped, Duplicate
<1>4. CASE Refuse(c) \/ MintOrder(c) \/ Serve(c)
  BY <1>4 DEF Refuse, MintOrder, Serve
<1>5. CASE RunDone(c) \/ RunHollow(c) \/ RunFailed(c)
  BY <1>5 DEF RunDone, RunHollow, RunFailed
<1> QED BY <1>1, <1>2, <1>3, <1>4, <1>5 DEF Dispatch

LEMMA TopUsesUp ==
    ASSUME TypeInv, Top
    PROVE  UsesUp /\ cached' = cached
<1> USE DEF TypeInv, TypeOK, UsesUp, RoundsLeft, AskLeft, Ended, countVars
<1>1. CASE Replay BY <1>1, LoopAssumption DEF Replay
<1>2. CASE OverBudget \/ Fail BY <1>2, LoopAssumption DEF OverBudget, Fail
<1>3. ASSUME NEW body \in Text, NEW calls \in Answers, Ask(body, calls)
      PROVE  UsesUp /\ cached' = cached
  BY <1>3, LoopAssumption DEF Ask
<1>4. ASSUME NEW body \in Text, Correct(body)
      PROVE  UsesUp /\ cached' = cached
  BY <1>4, LoopAssumption, NextRoundTypes DEF Correct
<1>5. ASSUME NEW body \in Text, Finish(body)
      PROVE  UsesUp /\ cached' = cached
  BY <1>5, LoopAssumption DEF Finish
<1> QED BY <1>1, <1>2, <1>3, <1>4, <1>5 DEF Top

LEMMA DispatchUsesUp ==
    ASSUME TypeInv, NEW c \in Call, Dispatch(c)
    PROVE  UsesUp
<1>1. Here(c) /\ UNCHANGED <<at, round>> BY DispatchFrame
<1>2. queue \in Seq(Call) /\ queue # << >> BY <1>1 DEF TypeInv, TypeOK, Here
<1>3. Len(queue') < Len(queue) BY <1>2, DispatchQueue
<1> QED BY <1>1, <1>3 DEF UsesUp, RoundsLeft, AskLeft, CallsLeft

LEMMA LapseUsesUp ==
    ASSUME CachedIsFinite, NEW c \in Call, Lapse(c)
    PROVE  UsesUp /\ CachedIsFinite'
<1>1. /\ IsFiniteSet(cached \ {c})
      /\ Cardinality(cached \ {c}) = Cardinality(cached) - 1
  BY FS_RemoveElement DEF Lapse, CachedIsFinite
<1>2. Cardinality(cached) \in Nat BY FS_CardinalityType DEF CachedIsFinite
<1> QED BY <1>1, <1>2
        DEF Lapse, UsesUp, RoundsLeft, AskLeft, CallsLeft, CachedLeft, CachedIsFinite,
            roundVars

LEMMA CachedStep ==
    ASSUME CachedIsFinite, [Next]_vars
    PROVE  CachedIsFinite'
<1>1. ASSUME cached' = cached PROVE CachedIsFinite' BY <1>1 DEF CachedIsFinite
<1>2. CASE Top
  BY <1>1, <1>2 DEF Top, Replay, OverBudget, Fail, Ask, Correct, Finish, countVars
<1>3. ASSUME NEW c \in Call, Dispatch(c) PROVE CachedIsFinite'
  BY <1>1, <1>3, DispatchQueue, FS_AddElement DEF CachedIsFinite
<1>4. CASE EndForReader \/ GoOn BY <1>1, <1>4 DEF EndForReader, GoOn, Judged
<1>5. ASSUME NEW c \in Call, Lapse(c) PROVE CachedIsFinite' BY <1>5, LapseUsesUp
<1>6. CASE UNCHANGED vars BY <1>1, <1>6 DEF vars, countVars
<1> QED BY <1>2, <1>3, <1>4, <1>5, <1>6 DEF Next, Step

\* Every step of a turn uses something up: a round, the round's question, a call
\* of its answer, or a cached result.  Whatever the model says and the tools
\* answer, and however often results lapse, a turn is finitely many steps long.
THEOREM EveryStepUsesUp == Spec => [][UsesUp]_vars
<1>1. TypeInv /\ CachedIsFinite /\ [Next]_vars => (TypeInv /\ CachedIsFinite)'
  BY TypeStep, CachedStep
<1>2. Init => CachedIsFinite BY FS_EmptySet DEF Init, CachedIsFinite
<1>3. TypeInv /\ CachedIsFinite /\ [Next]_vars => [UsesUp]_vars
  <2> SUFFICES ASSUME TypeInv, CachedIsFinite, Next PROVE UsesUp OBVIOUS
  <2>1. CASE Top BY <2>1, TopUsesUp
  <2>2. ASSUME NEW c \in Call, Dispatch(c) PROVE UsesUp BY <2>2, DispatchUsesUp
  <2>3. CASE EndForReader
    BY <2>3, LoopAssumption
    DEF EndForReader, Judged, UsesUp, RoundsLeft, Ended, TypeInv, TypeOK
  <2>4. CASE GoOn
    BY <2>4, LoopAssumption, NextRoundTypes
    DEF GoOn, Judged, UsesUp, RoundsLeft, Ended, TypeInv, TypeOK
  <2>5. ASSUME NEW c \in Call, Lapse(c) PROVE UsesUp BY <2>5, LapseUsesUp
  <2> QED BY <2>1, <2>2, <2>3, <2>4, <2>5 DEF Next, Step
<1> QED BY <1>1, <1>2, <1>3, TypeInit, PTL DEF Spec
=============================================================================
