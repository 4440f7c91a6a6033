------------------------- MODULE MCModuleSchedules -------------------------
(* Instances of ModuleSchedules for TLC. *)
EXTENDS ModuleSchedules

Nothing == {[f \in File |-> NoJob]}

(***************************************************************************)
(* What a reconciliation at each place still reads of what it holds.       *)
(***************************************************************************)
Held(t) ==
    LET w == work[t]
    IN  CASE at[t] \in {"enable", "save"} -> <<w.copy>>
          [] at[t] = "branch"             -> <<w.jobs, w.changed>>
          [] at[t] = "withdraw"           -> <<w.todo, w.changed>>
          [] at[t] = "look"               -> <<w.jobs, w.already, w.changed>>
          [] at[t] = "register"           ->
                <<w.jobs, w.seen, w.already, w.todo, w.changed>>
          [] at[t] = "orphans"            ->
                <<w.jobs, w.already, w.todo, w.changed>>
          [] at[t] = "record"             -> <<w.already>>
          [] OTHER                        -> <<>>

\* The screen is read by the requests that are still to come.
Shown == IF requests < MaxRequests THEN screen ELSE NoScreen

View == <<settings, Shown, disk, live, at, [t \in Task |-> Held(t)],
          history, counters>>
=============================================================================
