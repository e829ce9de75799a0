---------------------------- MODULE OneTimeTicket -----------------------------
(***************************************************************************)
(* The abstract view of everything that is handed out to be redeemed once: *)
(* a challenge, a sign-on state, a one-time link.  A ticket is issued,     *)
(* perhaps taken off the books while it is being judged, and redeemed or   *)
(* voided, both for good.  One step may do so to several tickets.          *)
(***************************************************************************)
EXTENDS Naturals

CONSTANT Ticket

VARIABLES
    state,  \* where each ticket is
    uses    \* how many times it has been redeemed

State == {"fresh", "open", "taken", "used", "void"}

Move == {<<"fresh", "open">>, <<"open", "taken">>, <<"open", "used">>, <<"taken", "used">>,
         <<"open", "void">>, <<"taken", "void">>}

Init ==
    /\ state = [t \in Ticket |-> "fresh"]
    /\ uses = [t \in Ticket |-> 0]

Redeemed(t) == state[t] # "used" /\ state'[t] = "used"

Next ==
    /\ state' \in [Ticket -> State]
    /\ \A t \in Ticket : state'[t] # state[t] => <<state[t], state'[t]>> \in Move
    /\ uses' = [t \in Ticket |-> IF Redeemed(t) THEN uses[t] + 1 ELSE uses[t]]

Spec == Init /\ [][Next]_<<state, uses>>
=============================================================================
