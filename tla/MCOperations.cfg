\* Two operations of one account settled, reopened and refunded;
\* and a new and a legacy account that share the id spaces.
CONSTANTS
  None = None
  Users = {u1, u2}
  LegacyUsers = {u2}
  Suspendable = {u1}
  Operations = {o1, o2}
  Payments = {p1, p2}
  OldPayments = {p1}
  Adjustments = {a1}
  Cycles = {c1}
  AdjustKeys = {k1}
  RefundKeys = {k2, k3}
  OpeningBalances = {1, 3}
  Budgets = {1, 2}
  Allocations = {1}
  PackSizes = {1}
  AdjustSizes = {1}
  RefundAmounts = {1}
  MaxGeneration = 1
SPECIFICATION Spec
ACTION_CONSTRAINT TwoScenarios
\* Every id is used once, so the instance comes to rest.
CHECK_DEADLOCK FALSE
SYMMETRY Symmetry
INVARIANTS
  StatementBalanced
  HoldIsRemainder
  OperationsBackWallet
  RefundsWithinCharges
  PaymentsCountOnce
PROPERTIES
  ChargesAreFinal
