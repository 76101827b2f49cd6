---------------------------- MODULE MCPayments ------------------------------
(***************************************************************************)
(* Payments on their way to the account: the checkouts that lead to them   *)
(* and the grants, reversals and restorations that follow them.  The two   *)
(* parts share no variable, so one instance checks them side by side: a    *)
(* behaviour exercises one of them and leaves the other at rest.           *)
(***************************************************************************)
EXTENDS MCCreditLedger

CONSTANTS Shoppers, Plans, Packs, MaxTransactions

ASSUME CheckoutAssumption ==
  /\ MaxTransactions \in Nat
  /\ Plans \cap Packs = {}
  /\ None \notin Shoppers \cup Plans \cup Packs \cup 1..MaxTransactions

VARIABLES part, customer, transaction, created, shopper, handled

Checkouts == INSTANCE Checkout

checkout == <<customer, transaction, created, shopper, handled>>
allVars == <<part, vars, checkout>>

\* Ids are interchangeable in this part, too.
PartsSymmetry ==
  Symmetry \cup Permutations(Shoppers) \cup Permutations(Plans)

PartsInit == part \in {"ledger", "checkout"} /\ Init /\ Checkouts!Init

LedgerStep == part = "ledger" /\ Next /\ UNCHANGED <<part, checkout>>
CheckoutStep == part = "checkout" /\ Checkouts!Next /\ UNCHANGED <<part, vars>>

PartsNext == LedgerStep \/ CheckoutStep

PartsSpec == PartsInit /\ [][PartsNext]_allVars

-----------------------------------------------------------------------------
(* Property of the checkouts, stated and explained in their module *)

\* The documents keep their shape, and the customer never has two transactions
\* of an exclusive kind to pay (Checkout).
OneOpenCheckout == Checkouts!TypeOK /\ Checkouts!OneOpenCheckout

=============================================================================
