---------------------------- MODULE MessageStream ---------------------------
(***************************************************************************)
(* What the receive path of a node promises to the code that handles       *)
(* messages: the messages the router offers are numbered in the order it   *)
(* offers them, any of them may be missed, but none is handled twice and   *)
(* none is handled after a later one.                                      *)
(***************************************************************************)
EXTENDS Naturals

VARIABLES
  offered,   \* number of messages the router has offered so far
  last,      \* number of the message handled last, 0 before the first
  handled    \* number of messages handled

streamVars == <<offered, last, handled>>

Init == offered = 0 /\ last = 0 /\ handled = 0

Offer == offered' = offered + 1 /\ UNCHANGED <<last, handled>>

Handle == /\ last' \in (last + 1) .. offered
          /\ handled' = handled + 1
          /\ UNCHANGED offered

Next == Offer \/ Handle

Spec == Init /\ [][Next]_streamVars
=============================================================================
