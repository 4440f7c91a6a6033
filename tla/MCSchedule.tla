------------------------------ MODULE MCSchedule ------------------------------
(* Instances of ScheduleManager for TLC. *)
EXTENDS ScheduleManager, TLC

Never == MaxTime + 2

\* In Away a time without an offset comes one later than at Home.
CONSTANTS Home, Away
HomeOnly  == [z \in {Home} |-> 0]
TwoZones  == (Home :> 0) @@ (Away :> 1)

Plain == [mode |-> "cron", at |-> 0, endAt |-> Never, zone |-> Unset,
          valid |-> TRUE, oneShot |-> FALSE, gate |-> FALSE, retry |-> 0,
          system |-> FALSE, owner |-> Admin]

Broken   == [Plain EXCEPT !.valid = FALSE]
OneShot  == [Plain EXCEPT !.oneShot = TRUE]
Gated    == [OneShot EXCEPT !.gate = TRUE, !.retry = 1, !.endAt = 1]
System   == [Plain EXCEPT !.system = TRUE]
Once     == [Plain EXCEPT !.mode = "once", !.at = 1]
OnceEnds == [Once EXCEPT !.endAt = 0, !.zone = Away]
Roaming  == [Once EXCEPT !.zone = Follows]
NoDate   == [Once EXCEPT !.valid = FALSE]
Delay    == [Plain EXCEPT !.mode = "delay", !.at = 1]
Hubs     == {[Delay EXCEPT !.owner = w] : w \in Owner}

Mixed     == {OneShot, Once}
Every     == {Broken, Gated, Once, OnceEnds, Roaming, NoDate} \cup Hubs
None      == {}
Systems   == {System}

Symmetry == Permutations(Loop) \cup Permutations(Caller)

\* An idle request has no state: what its last run asked for is never read.
RequestView == <<adapterVars, pc, [c \in Caller |->
                    IF pc[c] = "idle" THEN "none" ELSE req[c]], run,
                 calls, crashes, moves, fired, again, done, raced, stranded, retimed>>
=============================================================================
