-------------------------- MODULE MCCreditLedger ----------------------------
(* CreditLedger with the sums of CreditLedgerAudit, for model checking.      *)
EXTENDS CreditLedgerAudit, TLC

\* Ids are interchangeable within their sets.
Symmetry == Permutations(Payments \ OldPayments) \cup Permutations(Adjustments)
              \cup Permutations(Operations)
              \cup Permutations(RefundKeys)

Kinds(u) == {wallet[u].entries[i].key[1] : i \in DOMAIN wallet[u].entries}

\* What an account had when it was opened, or has if it is not open yet.
Given(u) ==
  IF wallet[u].entries = <<>> THEN wallet[u].account.creditsBalance
  ELSE wallet[u].entries[1].amount

\* One new account with operations, retries and refunds.
OperationsOfOneAccount ==
  /\ \A u \in Users : wallet[u].account.isActive /\ Given(u) = 3
  /\ \A u \in LegacyUsers : wallet[u].entries = <<>>
  /\ \A u \in Users : Kinds(u) \cap {"adjust", "payment"} = {}

\* A new and a legacy account that share the ids of payments, adjustments and
\* operations, with one operation that is never retried.
IdsOfTwoAccounts ==
  /\ \A u \in Users : Given(u) = 1 /\ "refund" \notin Kinds(u)
  /\ \A o, other \in Operations :
       /\ operation[o].authorized \in {0, 1}
       /\ operation[o].generation = 0
       /\ operation[o].status # "none" /\ operation[other].status # "none"
            => o = other

\* MCOperations explores these two parts of its instance.
TwoScenarios == (OperationsOfOneAccount \/ IdsOfTwoAccounts)'

=============================================================================
