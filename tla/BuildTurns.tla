----------------------------- MODULE BuildTurns -----------------------------
(***************************************************************************)
(* Turns of the model over the build sessions: what ai.rs does at the      *)
(* start and at the end of a turn, and the tools start_build, advance_build*)
(* and cancel_build of tool_registry.rs that it may call in between.       *)
(*                                                                         *)
(* A turn begins with a message of the user, in a conversation of the      *)
(* admin or in the scope of a hub visitor.  Turns run concurrently, two of *)
(* one conversation among them (two devices).  No critical section of a    *)
(* turn is atomic with the next one.                                       *)
(***************************************************************************)
EXTENDS BuildSession

CONSTANTS
    Turn,       \* turns that can be under way at once
    MaxTurns,   \* bound: turns begun
    MaxCalls,   \* bound: calls of the three tools
    MaxCrashes  \* bound: crashes

ASSUME TurnAssumption == MaxTurns \in Nat /\ MaxCalls \in Nat /\ MaxCrashes \in Nat

VARIABLES
    turn,   \* where each turn is
    count   \* turns begun, tools called and crashes so far

vars == <<storeVars, turn, count>>

\* look, close: the start of a turn; work: the model; tier, auto, output: what
\* advance_build has stored; read, emit: it, and ai.rs, ask for the session;
\* file, merge: get_session's fallback; adopt: the end.
Place == {"idle", "look", "close", "work", "tier", "auto", "output", "read",
          "emit", "file", "merge", "adopt"}

TurnState == [at : Place, scope : Scope \cup {NoConv}, target : Session \cup {0},
              back : Place, snap : Store, open : Session \cup {0}]

Idle == [at |-> "idle", scope |-> NoConv, target |-> 0, back |-> "idle",
         snap |-> Empty, open |-> 0]

Init ==
    /\ StoreInit
    /\ turn = [t \in Turn |-> Idle]
    /\ count = [turns |-> 0, calls |-> 0, crashes |-> 0]

\* The ids the text of a conversation holds: of the builds started in it, and of
\* those bound to it, which its prompts and cards have named.
Known(t) == {s \in 1..created : turn[t].scope \in {home[s], shown[s].conv_id}}

\* Turn t goes on as st.  A gate another turn held open is no longer its own once
\* the session changes under it (history).
Go(t, st) ==
    turn' = [u \in Turn |->
                IF u = t THEN st
                ELSE IF turn[u].open # 0 /\ mem'[turn[u].open] # mem[turn[u].open]
                     THEN [turn[u] EXCEPT !.open = 0]
                ELSE turn[u]]

At(t, place) == [turn[t] EXCEPT !.at = place]

-----------------------------------------------------------------------------
(* The start of a turn. *)

\* The user's message opens the gate of the build in progress.
Begin(t, c) ==
    /\ turn[t].at = "idle" /\ count.turns < MaxTurns
    /\ count' = [count EXCEPT !.turns = @ + 1]
    /\ \E s \in AnyOf(Awaiting(c)) :
           /\ reset_awaiting_for_conv(c, s)
           /\ Go(t, [Idle EXCEPT !.at = "look", !.scope = c, !.open = s])

\* active_session_for_conv: a build at its last step is to be closed, any other
\* is named in the prompt.
Look(t) ==
    LET live  == Unexpired(store_lock)
        found == Latest(live, ActiveOf(live, turn[t].scope))
        last  == {s \in found : live[s].step = "implement"}
    IN  /\ turn[t].at = "look"
        /\ cleanup_expired
        /\ \E s \in AnyOf(last) :
               Go(t, [turn[t] EXCEPT
                         !.at = IF s = 0 THEN "work" ELSE "close", !.target = s,
                         !.open = IF s = 0 /\ @ \in found THEN @ ELSE 0])
        /\ UNCHANGED count

Close(t) ==
    /\ turn[t].at = "close"
    /\ finish_session(turn[t].target, "completed")
    /\ Go(t, At(t, "work"))
    /\ UNCHANGED count

-----------------------------------------------------------------------------
(* What the model may do. *)

\* A tool is called from here, or has been.
Calls(t) ==
    IF turn[t].at = "work"
    THEN count.calls < MaxCalls /\ count' = [count EXCEPT !.calls = @ + 1]
    ELSE UNCHANGED count

\* start_build.  If ai.rs makes the call (next is "emit") or for a hub, the scope is
\* put in; a model that calls over MCP may leave the conversation out.
StartBuild(t, c, mode, next) ==
    /\ turn[t].at = "work" /\ Calls(t)
    /\ c \in IF turn[t].scope \in Hub \/ next = "emit" THEN {turn[t].scope}
             ELSE {turn[t].scope, NoConv}
    /\ create_session(c, mode, turn[t].scope)
    /\ Go(t, [turn[t] EXCEPT !.at = next, !.target = created + 1])

\* advance_build for s: a tier and auto=true may come with the output.
SetTier(t, s) ==
    /\ turn[t].at = "work" /\ Calls(t)
    /\ set_tier(s)
    /\ Go(t, [turn[t] EXCEPT !.at = "tier", !.target = s])

SetAuto(t, s) ==
    /\ turn[t].at = "work" \/ (turn[t].at = "tier" /\ turn[t].target = s)
    /\ Calls(t)
    /\ set_auto_advance(s)
    /\ Go(t, [turn[t] EXCEPT !.at = "auto", !.target = s])

SetOutput(t, s) ==
    /\ turn[t].at = "work" \/ (turn[t].at \in {"tier", "auto"} /\ turn[t].target = s)
    /\ Calls(t)
    /\ set_step_output(s)
    /\ Go(t, [turn[t] EXCEPT !.at = "output", !.target = s])

\* The gate that was open is shut again, or passed.
AdvanceOk(t) ==
    /\ turn[t].at = "output"
    /\ advance_step(turn[t].target)
    /\ Go(t, [turn[t] EXCEPT !.at = "read",
                 !.open = IF @ = turn[t].target THEN 0 ELSE @])
    /\ UNCHANGED count

AdvanceErr(t) ==
    /\ turn[t].at = "output"
    /\ refuse_advance(turn[t].target)
    /\ Go(t, At(t, "work"))
    /\ UNCHANGED count

\* get_session: the session is in memory, or the file is asked.
GetSession(t, here, next) ==
    /\ turn[t].at = here
    /\ cleanup_expired
    /\ Go(t, IF Unexpired(store_lock)[turn[t].target] # NoSession
             THEN At(t, next)
             ELSE [turn[t] EXCEPT !.at = "file", !.back = next])
    /\ UNCHANGED count

\* advance_build's own look at the session, then that of ai.rs for the client
\* unless the call came over MCP.
Read(t) == \E next \in {"emit", "work"} : GetSession(t, "read", next)
Emit(t) == GetSession(t, "emit", "work")

\* The file is read with the mutex released.  One that does not parse ends it.
ReadFile(t) ==
    /\ turn[t].at = "file"
    /\ turn' = [turn EXCEPT ![t] =
                   IF flushing THEN At(t, turn[t].back)
                   ELSE [At(t, "merge") EXCEPT !.snap = file]]
    /\ UNCHANGED <<storeVars, count>>

MergeFile(t) ==
    /\ turn[t].at = "merge"
    /\ Merge(turn[t].snap)
    /\ Go(t, [turn[t] EXCEPT !.at = turn[t].back, !.snap = Empty])
    /\ UNCHANGED count

CancelBuild(t, s) ==
    /\ turn[t].at = "work" /\ Calls(t)
    /\ finish_session(s, "abandoned")
    /\ Go(t, [turn[t] EXCEPT !.open = IF @ = s THEN 0 ELSE @])

-----------------------------------------------------------------------------
(* The end of a turn. *)

Bug_HubAdopts(t) ==
    /\ turn[t].at = "work"
    /\ cleanup_expired
    /\ Go(t, IF ActiveOf(Unexpired(store_lock), turn[t].scope) # {}
             THEN Idle ELSE At(t, "adopt"))
    /\ UNCHANGED count

\* The answer carries the build in progress; only the admin's turn looks for an
\* orphan if there is none.
Respond(t) ==
    /\ turn[t].at = "work"
    /\ cleanup_expired
    /\ Go(t, IF turn[t].scope \in Hub
                \/ ActiveOf(Unexpired(store_lock), turn[t].scope) # {}
             THEN Idle ELSE At(t, "adopt"))
    /\ UNCHANGED count

Adopt(t) ==
    /\ turn[t].at = "adopt"
    /\ adopt_orphan_for_conv(turn[t].scope)
    /\ Go(t, Idle)
    /\ UNCHANGED count

\* The turn fails, is cancelled or its client goes away.
Leave(t) ==
    /\ turn[t].at = "work"
    /\ turn' = [turn EXCEPT ![t] = Idle]
    /\ UNCHANGED <<storeVars, count>>

Crash ==
    /\ count.crashes < MaxCrashes
    /\ count' = [count EXCEPT !.crashes = @ + 1]
    /\ CrashStore
    /\ turn' = [t \in Turn |-> Idle]

Start(t) == (\E c \in Scope : Begin(t, c)) \/ Look(t) \/ Close(t)

Tool(t) ==
    \/ \E c \in Scope \cup {NoConv}, mode \in Modes, next \in {"emit", "work"} :
           StartBuild(t, c, mode, next)
    \/ \E s \in Known(t) :
           SetTier(t, s) \/ SetAuto(t, s) \/ SetOutput(t, s) \/ CancelBuild(t, s)
    \/ AdvanceOk(t) \/ AdvanceErr(t)
    \/ Read(t) \/ Emit(t) \/ ReadFile(t) \/ MergeFile(t)

End(t) == Respond(t) \/ Adopt(t) \/ Leave(t)

Next ==
    \/ \E t \in Turn : Start(t) \/ Tool(t) \/ End(t)
    \/ EndFlush /\ UNCHANGED <<turn, count>>
    \/ Expire /\ UNCHANGED <<turn, count>>
    \/ Pause /\ UNCHANGED <<turn, count>>
    \/ Crash

Spec == Init /\ [][Next]_vars

-----------------------------------------------------------------------------
TypeOK ==
    /\ StoreTypeOK
    /\ turn \in [Turn -> TurnState]
    /\ count \in [turns : 0..MaxTurns, calls : 0..MaxCalls, crashes : 0..MaxCrashes]

\* The answers of the user it takes to get a build to r: one a step, and one for
\* the gate that is open.
Answers(r) ==
    Position(r) + (IF r.status = "active" /\ ~r.awaiting THEN 1 ELSE 0)

\* A build that was never told to run by itself has passed no more steps than
\* its user has answered: in the map, and in the file that a restart or a
\* fallback would read.
UserDecidesEachStep ==
    \A m \in {mem, file} : \A s \in Present(m) :
        ~m[s].auto => Answers(m[s]) <= replies[s]

\* With the mutex free every session in memory is on disk as it is, but for those
\* in "merged", which a fallback has overwritten with a record it read earlier.
SessionsOnDisk ==
    loaded /\ ~flushing => \A s \in Present(mem) \ merged : file[s] = mem[s]

\* What was once seen of a build holds for the rest of its life, through
\* restarts: it does not go back a step, is not active again, and stays with its
\* conversation.  Excepted are the sessions in "merged", where a fallback put an
\* older record over a newer one.
SeenIsKept ==
    \A s \in Present(store_lock) \ merged :
        LET r == store_lock[s]
        IN  /\ Position(r) >= shown[s].position
            /\ shown[s].over => r.status # "active"
            /\ shown[s].conv_id # NoConv => r.conv_id = shown[s].conv_id

\* A turn told that the user has answered a step can record the answer: the gate
\* its own start opened is still open when it comes to advance, unless another
\* turn, or it, has used or changed the build meanwhile ("open" is then cleared).
AnswerIsTaken ==
    \A t \in Turn :
        /\ turn[t].at = "output" /\ turn[t].target = turn[t].open
        /\ mem[turn[t].target] # NoSession
        => CanAdvance(mem[turn[t].target])

\* A visitor's build stays in the visitor's scope, and nobody else's gets there.
HubApart ==
    \A s \in Present(store_lock) :
        home[s] \in Hub \/ store_lock[s].conv_id \in Hub
            => store_lock[s].conv_id = home[s]
=============================================================================
