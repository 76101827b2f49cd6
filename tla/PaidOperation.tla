--------------------------- MODULE PaidOperation ----------------------------
(***************************************************************************)
(* The promise behind one piece of paid work, whatever performs it: it is  *)
(* authorized once, it holds what is left of its budget while it runs, and *)
(* its charge only grows, up to the budget, however often it is settled    *)
(* and retried.                                                            *)
(***************************************************************************)
EXTENDS Integers

VARIABLES
  status,      \* "none", "reserved" or "settled"
  authorized,  \* the budget
  held,        \* credits set aside for the running attempt
  charged,     \* credits charged for delivered work so far
  generation   \* how many times the work was retried

vars == <<status, authorized, held, charged, generation>>

Init ==
  /\ status = "none"
  /\ authorized = 0 /\ held = 0 /\ charged = 0 /\ generation = 0

Reserve ==
  /\ status = "none"
  /\ status' = "reserved"
  /\ authorized' \in Nat
  /\ held' = authorized'
  /\ charged' = 0 /\ generation' = 0

Settle ==
  /\ status = "reserved"
  /\ status' = "settled"
  /\ charged' \in charged..authorized
  /\ held' = 0
  /\ UNCHANGED <<authorized, generation>>

Reopen ==
  /\ status = "settled"
  /\ status' = "reserved"
  /\ held' = authorized - charged
  /\ generation' = generation + 1
  /\ UNCHANGED <<authorized, charged>>

Next == Reserve \/ Settle \/ Reopen

Spec == Init /\ [][Next]_vars

=============================================================================
