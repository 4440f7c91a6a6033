-------------------------- MODULE MCStreamWatches --------------------------
(* Instances of StreamWatches for TLC. *)
EXTENDS StreamWatches, TLC

Private == [share |-> FALSE, replaces |-> FALSE, acks |-> TRUE, names |-> FALSE]
Shared  == [Private EXCEPT !.share = TRUE]
Silent  == [Shared EXCEPT !.acks = FALSE]
Declares == [Shared EXCEPT !.replaces = TRUE, !.names = TRUE]

\* korea-invest; kiwoom; binance and upbit; toss-invest.
Venues == {Private, Shared, Silent, Declares}
OnlyShared == {Shared}

Empty   == {{}}
AnyList == SUBSET Watch

Symmetry == Permutations(Watch) \cup Permutations(Caller \ {Boot})
=============================================================================
