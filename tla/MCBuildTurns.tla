---------------------------- MODULE MCBuildTurns ----------------------------
(* Instances of BuildTurns for TLC. *)
EXTENDS BuildTurns, TLC

TurnSymmetry == Permutations(Turn)

Maps == {mem, file} \cup {turn[t].snap : t \in Turn}

\* Stamps are only compared within a conversation: what counts is their order.
Rank(r) == Cardinality({x \in UNION {{m[s].updated : s \in ActiveOf(m, r.conv_id)} : m \in Maps} :
                           x < r.updated})

\* The stamps by rank, the outputs by the one the gate looks at, and who is too
\* stale to be adopted.
Ranked(m) ==
    [s \in Session |->
        IF m[s] = NoSession THEN NoSession
        ELSE <<m[s].conv_id, m[s].mode, m[s].step, m[s].status, m[s].awaiting,
               m[s].auto, m[s].step \in m[s].outputs,
               IF m[s].status = "active" /\ m[s].conv_id # NoConv THEN Rank(m[s]) ELSE 0,
               s \in ActiveOf(m, NoConv) /\ m[s].updated <= spent>>]

\* The history of a session that is nowhere is never read again, nor is what the
\* last call of a turn was about.
Somewhere(s) == \E m \in Maps : m[s] # NoSession

Told(s) == IF Somewhere(s) THEN <<replies[s], shown[s], s \in merged>>
           ELSE <<shown[s].conv_id>>

Live(t) ==
    [turn[t] EXCEPT
        !.snap = Ranked(@),
        !.target = IF turn[t].at \in {"look", "work", "adopt"} THEN 0 ELSE @,
        !.back = IF turn[t].at \in {"file", "merge"} THEN @ ELSE "idle"]

View == <<Ranked(mem), loaded, Ranked(file), flushing, created, old, home,
          [s \in Session |-> Told(s)], [t \in Turn |-> Live(t)], count>>
=============================================================================
