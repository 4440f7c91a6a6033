---------------------------- MODULE ApprovalCards ----------------------------
(***************************************************************************)
(* What the approval system promises about a card, with no store, no       *)
(* mutex, no file and no clock: a card is minted once; its action is sent  *)
(* only while nobody has been told that it was approved or rejected; and a *)
(* settled card stays settled, across restarts.                            *)
(* The settled half of pending_tools.rs and of the commit and reject       *)
(* routes, seen from outside.                                              *)
(***************************************************************************)
EXTENDS Naturals

CONSTANT Card

VARIABLES status,  \* "unborn", "open" or "settled"
          sent     \* how often the card's action was sent

vars == <<status, sent>>

Init == /\ status = [c \in Card |-> "unborn"]
        /\ sent = [c \in Card |-> 0]

Mint(c) == /\ status[c] = "unborn"
           /\ status' = [status EXCEPT ![c] = "open"]
           /\ UNCHANGED sent

SendAction(c) == /\ status[c] = "open"
                 /\ sent' = [sent EXCEPT ![c] = @ + 1]
                 /\ UNCHANGED status

Settle(c) == /\ status[c] = "open"
             /\ status' = [status EXCEPT ![c] = "settled"]
             /\ UNCHANGED sent

Next == \E c \in Card : Mint(c) \/ SendAction(c) \/ Settle(c)

Spec == Init /\ [][Next]_vars
=============================================================================
