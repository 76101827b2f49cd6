\* Payments, reversals and restorations around one running operation; and two
\* requests that prepare checkouts of two plans and a pack.
CONSTANTS
  None = None
  Users = {u1}
  LegacyUsers = {}
  Suspendable = {}
  Operations = {o1}
  Payments = {p1, p2}
  OldPayments = {}
  Adjustments = {a1, a2}
  Cycles = {c1}
  AdjustKeys = {}
  RefundKeys = {}
  OpeningBalances = {1}
  Budgets = {2}
  Allocations = {2, 3}
  PackSizes = {}
  AdjustSizes = {}
  RefundAmounts = {}
  MaxGeneration = 1
  Shoppers = {s1, s2}
  Plans = {pro, business}
  Packs = {pack}
  MaxTransactions = 2
SPECIFICATION PartsSpec
\* Every id is used once, so the instance comes to rest.
CHECK_DEADLOCK FALSE
SYMMETRY PartsSymmetry
INVARIANTS
  TypeOK
  OwesOnlyWhenEmpty
  ReversalsWithinGrant
  DebtExplained
  CreditsConserved
  CycleWithinLargestAllocation
  OneOpenCheckout
PROPERTIES
  HoldsMoveWithOperations
  ImplementsPurse
