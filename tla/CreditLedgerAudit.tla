------------------------- MODULE CreditLedgerAudit --------------------------
(***************************************************************************)
(* The properties of CreditLedger that add up rows, operations or          *)
(* payments, with the folds of the community modules.                      *)
(***************************************************************************)
EXTENDS CreditLedger, FiniteSetsExt

\* What the sums range over besides the rows of a statement: a database holds
\* finitely many documents.
ASSUME FiniteAssumption ==
  IsFiniteSet(Operations) /\ IsFiniteSet(Payments) /\ IsFiniteSet(Adjustments)

\* The sum of f over the rows of an account's statement.
SumRows(u, f(_)) ==
  LET entries == wallet[u].entries
  IN SumFunction([i \in DOMAIN entries |-> f(entries[i])])

\* The sum of f over the operations of an account.
SumOperations(u, f(_)) ==
  LET owned == {o \in Operations : operation[o].userId = u}
  IN SumFunction([o \in owned |-> f(operation[o])])

\* The operations of an account explain its wallet: it holds what they hold, no
\* more and no less, so no hold leaks and none is released twice, and it has
\* used what they were charged, which is what the charge rows say.
OperationsBackWallet ==
  \A u \in Users :
    LET account == wallet[u].account
    IN /\ account.creditsReserved = SumOperations(u, LAMBDA op : op.held)
       /\ account.totalCreditsUsed = SumOperations(u, LAMBDA op : op.charged)
       /\ account.totalCreditsUsed =
            SumRows(u, LAMBDA row :
                      IF row.type = "charge" THEN row.amount ELSE 0)

\* The debt of an account is explained by its rows: reversals that exceeded
\* the available credits, less the recoveries since.
DebtExplained ==
  \A u \in Users :
    wallet[u].account.creditDebt = SumRows(u, LAMBDA row : row.debtDelta)

\* The rows that bring credits from outside or take them back by hand.
Inflow(row) ==
  IF row.key[1] \in {"opening", "payment", "adjust", "refund"}
  THEN row.availableDelta ELSE 0

\* The credits of the payments of u that are reversed at this point.
ReversedOf(u) ==
  SumFunction([p \in {q \in Payments : payment[q].userId = u} |-> reversed[p]])

\* Credits are conserved: what an account has available, held and used, less
\* what it owes, is what it was given less what was reversed.
CreditsConserved ==
  \A u \in Users :
    LET account == wallet[u].account
    IN account.creditLedgerInitialized =>
         account.creditsBalance + account.creditsReserved
           + account.totalCreditsUsed - account.creditDebt
         = SumRows(u, Inflow) - ReversedOf(u)

\* Payments of one cycle, in whatever order they are processed, bring together
\* at most the largest allocation among them.
CycleWithinLargestAllocation ==
  \A u \in Users, c \in Cycles :
    LET mine == {p \in Payments :
                   payment[p].userId = u /\ payment[p].cycle = c}
        brought(p) == SumRows(u, LAMBDA row :
                        IF row.key = <<"payment", p>>
                        THEN row.availableDelta ELSE 0)
    IN mine # {} =>
         SumFunction([p \in mine |-> brought(p)])
           <= Max({payment[p].allocation : p \in mine})

\* Service refunds never give back more than delivered work was charged.
RefundsWithinCharges ==
  \A u \in Users :
    SumRows(u, LAMBDA row :
              IF row.key[1] = "refund" THEN row.amount ELSE 0)
      <= SumRows(u, LAMBDA row :
                   IF row.type = "charge" THEN row.amount ELSE 0)

=============================================================================
