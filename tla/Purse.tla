------------------------------- MODULE Purse --------------------------------
(***************************************************************************)
(* What the credit accounting promises to each account, with no statement, *)
(* no keys and no payments: one signed number of credits, the credits set  *)
(* aside for running work, and the credits spent on delivered work.        *)
(***************************************************************************)
EXTENDS Integers

CONSTANT Users

VARIABLES
  net,    \* available credits, negative when credits are owed
  held,   \* credits set aside for running work
  spent   \* credits charged for delivered work

vars == <<net, held, spent>>

Init ==
  /\ net \in [Users -> Nat]
  /\ held = [u \in Users |-> 0]
  /\ spent = [u \in Users |-> 0]

\* Nothing moves in any account but that of u.
Only(u) ==
  \A v \in Users \ {u} :
    net'[v] = net[v] /\ held'[v] = held[v] /\ spent'[v] = spent[v]

\* No credit appears or disappears between the three pockets of u.
Conserved(u) == net'[u] + held'[u] + spent'[u] = net[u] + held[u] + spent[u]

\* Work is admitted only on credits the account really has.
Hold(u) ==
  /\ net'[u] >= 0
  /\ held'[u] >= held[u]
  /\ spent'[u] = spent[u]
  /\ Conserved(u)

\* Settled work is paid from its hold, and the rest of the hold comes back.
Settle(u) ==
  /\ 0 <= held'[u] /\ held'[u] <= held[u]
  /\ spent'[u] >= spent[u]
  /\ net'[u] >= net[u]
  /\ Conserved(u)

\* Grants, refunds, reversals and adjustments never touch running work.
Transfer(u) == held'[u] = held[u] /\ spent'[u] = spent[u]

Next == \E u \in Users : Only(u) /\ (Hold(u) \/ Settle(u) \/ Transfer(u))

Spec == Init /\ [][Next]_vars

=============================================================================
