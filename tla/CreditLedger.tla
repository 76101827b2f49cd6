---------------------------- MODULE CreditLedger ----------------------------
(***************************************************************************)
(* The credit accounting of CreditsService: for each account a cached      *)
(* wallet (available, reserved, owed, used) and an append-only statement,  *)
(* for each paid operation an authorization with its hold and its charge,  *)
(* and for each payment the credits it brought and those taken back.       *)
(*                                                                         *)
(* Every operation of the service runs inside one Mongo transaction, so    *)
(* every operation is one action.  Errors abort the transaction and leave  *)
(* no trace: the condition of an error is the negation of a guard.  A      *)
(* repeated call whose key is already in the ledger returns the recorded   *)
(* row, i.e. it stutters.                                                  *)
(***************************************************************************)
EXTENDS Integers, Sequences

CONSTANTS
  Users,           \* accounts
  Suspendable,     \* accounts an administrator may switch off
  LegacyUsers,     \* accounts older than the ledger, opened by migration
  Operations,      \* operation ids of paid work
  Payments,        \* Paddle transaction ids
  OldPayments,     \* those completed before the ledger was introduced
  Adjustments,     \* Paddle adjustment ids (refunds, chargebacks, credits)
  Cycles,          \* subscription billing cycles
  AdjustKeys,      \* keys of referral and admin adjustments
  RefundKeys,      \* keys of service refunds
  OpeningBalances, \* what an account may hold when it is opened
  Budgets,         \* credits an operation may authorize
  Allocations,     \* credits a subscription cycle may allocate
  PackSizes,       \* credits of a purchasable pack
  AdjustSizes,     \* sizes of referral bonuses and admin adjustments
  RefundAmounts,   \* amounts of service refunds
  MaxGeneration,   \* bound on the retries of one operation
  None             \* absence of a user, payment or cycle

ASSUME UsersAssumption ==
  /\ LegacyUsers \subseteq Users
  /\ Suspendable \subseteq Users
  /\ None \notin Users \cup Payments \cup Cycles
ASSUME PaymentsAssumption == OldPayments \subseteq Payments
ASSUME AmountsAssumption ==
  /\ OpeningBalances \subseteq Nat
  /\ Budgets \subseteq Nat
  /\ Allocations \subseteq Nat
  /\ PackSizes \subseteq Nat
  /\ AdjustSizes \subseteq Nat
  /\ RefundAmounts \subseteq Nat \ {0}
  /\ MaxGeneration \in Nat

VARIABLES
  wallet,        \* User document and CreditEntry rows, per account
  operation,     \* CreditOperation documents
  payment,       \* what the payment rows say of each payment
  adjustment,    \* what the paddle-adjustment rows say of each adjustment
  cycleGranted,  \* aggregate: credits granted to a user in a cycle
  reversed,      \* aggregate: credits reversed of a payment, net of restorations
  refunded       \* aggregate: credits refunded of the charge of an operation

vars == <<wallet, operation, payment, adjustment, cycleGranted, reversed,
          refunded>>

-----------------------------------------------------------------------------
(* Data *)

BaseKeys ==
  ({"opening"} \X Users)
    \cup ({"reserve", "charge", "release"} \X (Operations \X Nat))
    \cup ({"payment"} \X Payments)
    \cup ({"paddle-adjustment", "paddle-restoration"} \X Adjustments)
    \cup ({"adjust"} \X AdjustKeys)
    \cup ({"refund"} \X RefundKeys)

Keys == BaseKeys \cup ({"debt"} \X BaseKeys)

RowTypes ==
  {"opening", "grant", "reserve", "charge", "release", "refund", "adjustment"}

Account ==
  [creditsBalance : Nat, creditsReserved : Nat, creditDebt : Nat,
   totalCreditsUsed : Nat, creditLedgerInitialized : BOOLEAN,
   isActive : BOOLEAN]

CreditEntry ==
  [key : Keys, type : RowTypes, amount : Nat, availableDelta : Int,
   reservedDelta : Int, debtDelta : Int, availableAfter : Nat,
   reservedAfter : Nat]

Wallet == [account : Account, entries : Seq(CreditEntry)]

CreditOperation ==
  [userId : Users \cup {None}, status : {"none", "reserved", "settled"},
   authorized : Nat, held : Nat, charged : Nat, generation : Nat]

Payment ==
  [userId : Users \cup {None}, cycle : Cycles \cup {None}, allocation : Nat,
   granted : Nat]

Adjustment == [payment : Payments \cup {None}, reversedCredits : Nat]

Smaller(m, n) == IF m < n THEN m ELSE n
Larger(m, n) == IF m < n THEN n ELSE m

\* A statement row: the deltas it records and the balances it leaves.
Row(account, key, type, amount, available, held, debt) ==
  [key |-> key, type |-> type, amount |-> amount,
   availableDelta |-> available, reservedDelta |-> held, debtDelta |-> debt,
   availableAfter |-> account.creditsBalance,
   reservedAfter |-> account.creditsReserved]

\* The wallet w with its account replaced and one more row on its statement.
Post(w, account, row) ==
  [account |-> account, entries |-> Append(w.entries, row)]

-----------------------------------------------------------------------------
(* The building blocks every transaction is made of *)

\* Mutant: repeated calls are not recognised.
Mutant_Fresh(key) == key \in Keys

\* The unique index on CreditEntry.key, and every look-up by key.
Fresh(key) ==
  \A u \in Users : \A i \in DOMAIN wallet[u].entries :
    wallet[u].entries[i].key # key

\* An account exists once it was opened, or before that if it is a legacy one:
\* new accounts are inserted and opened in one transaction.
Exists(u) ==
  u \in LegacyUsers \/ wallet[u].account.creditLedgerInitialized

\* The wallet of u once its opening row is there.
Opened(u) ==
  LET w == wallet[u]
      account == [w.account EXCEPT !.creditLedgerInitialized = TRUE]
  IN IF w.account.creditLedgerInitialized
     THEN w
     ELSE Post(w, account,
               Row(account, <<"opening", u>>,
                   IF u \in LegacyUsers THEN "opening" ELSE "grant",
                   w.account.creditsBalance + w.account.creditsReserved,
                   w.account.creditsBalance, w.account.creditsReserved, 0))

\* Mutant: what comes in does not pay back what is owed.
Mutant_RecoverNothing(w, key) == w

\* Mutant: the debt is collected but stays on the account.
Mutant_RecoverKeepsDebt(w, key) ==
  LET amount == Smaller(w.account.creditDebt, w.account.creditsBalance)
      account == [w.account EXCEPT !.creditsBalance = @ - amount]
  IN IF amount = 0 THEN w
     ELSE Post(w, account, Row(account, <<"debt", key>>, "adjustment",
                               amount, -amount, 0, 0))

\* Mutant: the recovery is not explained on the statement.
Mutant_RecoverUnexplained(w, key) ==
  LET amount == Smaller(w.account.creditDebt, w.account.creditsBalance)
      account == [w.account EXCEPT !.creditsBalance = @ - amount,
                                   !.creditDebt = @ - amount]
  IN IF amount = 0 THEN w
     ELSE Post(w, account, Row(account, <<"debt", key>>, "adjustment",
                               amount, -amount, 0, 0))

\* Whatever becomes available first pays back what is owed.
RecoverDebt(w, key) ==
  LET amount == Smaller(w.account.creditDebt, w.account.creditsBalance)
      account == [w.account EXCEPT !.creditsBalance = @ - amount,
                                   !.creditDebt = @ - amount]
  IN IF amount = 0
     THEN w
     ELSE Post(w, account, Row(account, <<"debt", key>>, "adjustment",
                               amount, -amount, 0, -amount))

\* A new hold needs an active account that owes nothing.
MayHold(w) == w.account.isActive /\ w.account.creditDebt = 0

\* The guarded $inc of an operation's row: no balance may become negative.
Covers(w, available, held) ==
  /\ w.account.creditsBalance >= -available
  /\ w.account.creditsReserved >= -held

\* Mutant: the row shows the balances before the update.
Mutant_EntryShowsOld(w, type, amount, available, held, key) ==
  LET account ==
        [w.account EXCEPT !.creditsBalance = @ + available,
                          !.creditsReserved = @ + held,
                          !.totalCreditsUsed =
                             @ + (IF type = "charge" THEN amount ELSE 0)]
      posted == Post(w, account,
                     Row(w.account, key, type, amount, available, held, 0))
  IN IF available > 0 THEN RecoverDebt(posted, key) ELSE posted

\* One row of an operation, with the debt recovery that follows a release.
Entry(w, type, amount, available, held, key) ==
  LET account ==
        [w.account EXCEPT !.creditsBalance = @ + available,
                          !.creditsReserved = @ + held,
                          !.totalCreditsUsed =
                             @ + (IF type = "charge" THEN amount ELSE 0)]
      posted == Post(w, account,
                     Row(account, key, type, amount, available, held, 0))
  IN IF available > 0 THEN RecoverDebt(posted, key) ELSE posted

\* A signed change of the available credits outside any operation.
Adjusted(w, key, type, amount) ==
  LET account == [w.account EXCEPT !.creditsBalance = @ + amount]
      posted == Post(w, account,
                     Row(account, key, type,
                         IF amount < 0 THEN -amount ELSE amount,
                         amount, 0, 0))
  IN IF amount > 0 THEN RecoverDebt(posted, key) ELSE posted

-----------------------------------------------------------------------------
\* totalCreditsUsed counts from the opening on: what deductCredit spent before
\* stays in the field, which the ledger increments and never asks about.
Init ==
  /\ \E balance \in [Users -> OpeningBalances] :
       wallet = [u \in Users |->
         [account |-> [creditsBalance |-> balance[u], creditsReserved |-> 0,
                       creditDebt |-> 0, totalCreditsUsed |-> 0,
                       creditLedgerInitialized |-> FALSE, isActive |-> TRUE],
          entries |-> <<>>]]
  /\ operation = [o \in Operations |->
       [userId |-> None, status |-> "none", authorized |-> 0, held |-> 0,
        charged |-> 0, generation |-> 0]]
  /\ payment = [p \in Payments |->
       [userId |-> None, cycle |-> None, allocation |-> 0, granted |-> 0]]
  /\ adjustment = [a \in Adjustments |->
       [payment |-> None, reversedCredits |-> 0]]
  /\ cycleGranted = [u \in Users |-> [c \in Cycles |-> 0]]
  /\ reversed = [p \in Payments |-> 0]
  /\ refunded = [o \in Operations |-> [g \in 0..MaxGeneration |-> 0]]

-----------------------------------------------------------------------------
(* Accounts *)

\* Signup of a new account, migration or first use of a legacy one.
Opening(u) ==
  /\ ~wallet[u].account.creditLedgerInitialized
  /\ wallet' = [wallet EXCEPT ![u] = Opened(u)]
  /\ UNCHANGED <<operation, payment, adjustment, cycleGranted, reversed,
                 refunded>>

\* An administrator switches an account off or on again.
SetActive(u) ==
  /\ u \in Suspendable
  /\ Exists(u)
  /\ wallet' = [wallet EXCEPT ![u].account.isActive = ~@]
  /\ UNCHANGED <<operation, payment, adjustment, cycleGranted, reversed,
                 refunded>>

-----------------------------------------------------------------------------
(* Paid operations: reserve, then settle; a retry reopens the remainder *)

Reserve(u, o, amount) ==
  LET w == Opened(u)
  IN /\ Exists(u)
     /\ operation[o].status = "none"
     /\ MayHold(w)
     /\ Covers(w, -amount, amount)
     /\ operation' = [operation EXCEPT ![o] =
          [userId |-> u, status |-> "reserved", authorized |-> amount,
           held |-> amount, charged |-> 0, generation |-> 0]]
     /\ wallet' = [wallet EXCEPT ![u] =
          Entry(w, "reserve", amount, -amount, amount,
                <<"reserve", <<o, 0>>>>)]
     /\ UNCHANGED <<payment, adjustment, cycleGranted, reversed, refunded>>

\* Mutant: a retry holds the whole budget again.
Mutant_Remainder(op) == op.authorized

\* What a retry may hold: the budget less what was already charged.
Remainder(op) == op.authorized - op.charged

\* Bound: MaxGeneration reopenings of one operation.
Reopen(o) ==
  LET op == operation[o]
      w == wallet[op.userId]
      amount == Remainder(op)
      generation == op.generation + 1
  IN /\ op.status = "settled"
     /\ generation <= MaxGeneration
     /\ MayHold(w)
     /\ Covers(w, -amount, amount)
     /\ operation' = [operation EXCEPT ![o] =
          [op EXCEPT !.status = "reserved", !.held = amount,
                     !.generation = generation]]
     /\ wallet' = [wallet EXCEPT ![op.userId] =
          Entry(w, "reserve", amount, -amount, amount,
                <<"reserve", <<o, generation>>>>)]
     /\ UNCHANGED <<payment, adjustment, cycleGranted, reversed, refunded>>

\* Mutant: the charge is not taken from the hold.
Mutant_Charged(w, o, charge) ==
  IF charge = 0 THEN w
  ELSE Entry(w, "charge", charge, 0, 0,
             <<"charge", <<o, operation[o].generation>>>>)

\* The charge row, if anything is charged.
Charged(w, o, charge) ==
  IF charge = 0 THEN w
  ELSE Entry(w, "charge", charge, 0, -charge,
             <<"charge", <<o, operation[o].generation>>>>)

\* Mutant: the rest of the hold is forgotten.
Mutant_Released(w, o, release) == w

\* The release row, if anything of the hold is left.
Released(w, o, release) ==
  IF release = 0 THEN w
  ELSE Entry(w, "release", release, release, -release,
             <<"release", <<o, operation[o].generation>>>>)

\* Mutant: a settlement may take a charge back.
Mutant_Settles(op, cumulativeCharge) == cumulativeCharge <= op.authorized

\* A settlement stays within its authorization and never lowers the charge.
Settles(op, cumulativeCharge) ==
  op.charged <= cumulativeCharge /\ cumulativeCharge <= op.authorized

\* The settlement transaction past its gates.  Which caller may settle when
\* (the job that must be terminal, the fence of an execution) is the business
\* of the modules that compose this action.
Settle(o, cumulativeCharge) ==
  LET op == operation[o]
      w == wallet[op.userId]
      charge == cumulativeCharge - op.charged
      release == op.held - charge
  IN /\ op.status = "reserved"
     /\ Settles(op, cumulativeCharge)
     /\ charge <= op.held
     /\ Covers(w, 0, -charge)
     /\ Covers(Charged(w, o, charge), release, -release)
     /\ wallet' = [wallet EXCEPT ![op.userId] =
          Released(Charged(w, o, charge), o, release)]
     /\ operation' = [operation EXCEPT ![o] =
          [op EXCEPT !.status = "settled", !.held = 0,
                     !.charged = cumulativeCharge]]
     /\ UNCHANGED <<payment, adjustment, cycleGranted, reversed, refunded>>

-----------------------------------------------------------------------------
(* Credits that come in *)

\* A referral bonus or an administrator's signed adjustment.
AdjustCredits(u, k, amount) ==
  LET w == Opened(u)
  IN /\ Exists(u)
     /\ Fresh(<<"adjust", k>>)
     /\ w.account.creditsBalance >= -amount
     /\ wallet' = [wallet EXCEPT ![u] =
          Adjusted(w, <<"adjust", k>>,
                   IF amount < 0 THEN "adjustment" ELSE "grant", amount)]
     /\ UNCHANGED <<operation, payment, adjustment, cycleGranted, reversed,
                    refunded>>

\* A purchased pack of credits: an adjustment keyed by its payment.  Packs are
\* sold on the ledger only, so none is among the old payments.
PackPayment(u, p, credits) ==
  LET w == Opened(u)
  IN /\ Exists(u)
     /\ p \notin OldPayments
     /\ Fresh(<<"payment", p>>)
     /\ wallet' = [wallet EXCEPT ![u] =
          Adjusted(w, <<"payment", p>>, "grant", credits)]
     /\ payment' = [payment EXCEPT ![p] =
          [userId |-> u, cycle |-> None, allocation |-> 0,
           granted |-> credits]]
     /\ UNCHANGED <<operation, adjustment, cycleGranted, reversed, refunded>>

\* A payment a legacy account made before its opening row was written.
PreLedger(u, p) ==
  /\ u \in LegacyUsers
  /\ p \in OldPayments \/ ~wallet[u].account.creditLedgerInitialized

\* Mutant: every payment of a cycle brings the whole allocation.
Mutant_TopUp(u, c, allocation) == allocation

\* What an allocation adds to what its cycle was granted already.
TopUp(u, c, allocation) == Larger(0, allocation - cycleGranted[u][c])

\* A subscription payment grants what its cycle does not have yet.  Only a
\* legacy account can have made an old payment.
GrantSubscriptionCycle(u, p, allocation, c) ==
  LET w == Opened(u)
      amount == TopUp(u, c, allocation)
      account == [w.account EXCEPT !.creditsBalance = @ + amount]
      key == <<"payment", p>>
  IN /\ Exists(u)
     /\ p \in OldPayments => u \in LegacyUsers
     /\ Fresh(key)
     /\ ~PreLedger(u, p)
     /\ wallet' = [wallet EXCEPT ![u] =
          RecoverDebt(Post(w, account,
            Row(account, key, "grant", amount, amount, 0, 0)), key)]
     /\ payment' = [payment EXCEPT ![p] =
          [userId |-> u, cycle |-> c, allocation |-> allocation,
           granted |-> amount]]
     /\ cycleGranted' = [cycleGranted EXCEPT ![u][c] = @ + amount]
     /\ UNCHANGED <<operation, adjustment, reversed, refunded>>

\* Migration marks a payment whose credits the opening balance already holds.
AdoptLegacyPayment(u, p, allocation, c) ==
  LET w == Opened(u)
  IN /\ u \in LegacyUsers
     /\ p \in OldPayments
     /\ Fresh(<<"payment", p>>)
     /\ wallet' = [wallet EXCEPT ![u] =
          Post(w, w.account,
               Row(w.account, <<"payment", p>>, "grant", 0, 0, 0, 0))]
     /\ payment' = [payment EXCEPT ![p] =
          [userId |-> u, cycle |-> c, allocation |-> allocation,
           granted |-> allocation]]
     /\ cycleGranted' = IF c = None THEN cycleGranted
                        ELSE [cycleGranted EXCEPT ![u][c] = @ + allocation]
     /\ UNCHANGED <<operation, adjustment, reversed, refunded>>

-----------------------------------------------------------------------------
(* Payments that are taken back, restored, and services that are refunded *)

\* What Math.ceil(granted * fraction) can be for a fraction in (0, 1].
ReversalShares(granted) ==
  {share \in 0..granted : share = 0 <=> granted = 0}

\* Mutant: earlier reversals of the payment are forgotten.
Mutant_StillGranted(p) == payment[p].granted

\* What is left of the credits of a payment.
StillGranted(p) == Larger(0, payment[p].granted - reversed[p])

\* Mutant: the reversal is taken although it is not available.
Mutant_Debit(account, amount) == amount

\* The part of a reversal that available credits can pay.
Debit(account, amount) == Smaller(account.creditsBalance, amount)

\* Mutant: what is not available is taken from the running holds.
Mutant_TakenBack(account, amount) ==
  LET owed == amount - Debit(account, amount)
      fromHolds == Smaller(account.creditsReserved, owed)
  IN [account EXCEPT !.creditsBalance = @ - Debit(account, amount),
                     !.creditsReserved = @ - fromHolds,
                     !.creditDebt = @ + (owed - fromHolds)]

\* The account once a reversal took what is available and owes the rest.
TakenBack(account, amount) ==
  [account EXCEPT !.creditsBalance = @ - Debit(account, amount),
                  !.creditDebt = @ + (amount - Debit(account, amount))]

\* A refund or chargeback of a payment takes what is available, owes the rest
\* and leaves the running holds alone.
ReversePayment(p, a, share) ==
  LET u == payment[p].userId
      w == wallet[u]
      amount == Smaller(StillGranted(p), share)
      debit == Debit(w.account, amount)
      account == TakenBack(w.account, amount)
  IN /\ u # None
     /\ Fresh(<<"paddle-adjustment", a>>)
     /\ wallet' = [wallet EXCEPT ![u] =
          Post(w, account,
               Row(account, <<"paddle-adjustment", a>>, "adjustment",
                   debit, -debit, 0, amount - debit))]
     /\ adjustment' = [adjustment EXCEPT ![a] =
          [payment |-> p, reversedCredits |-> amount]]
     /\ reversed' = [reversed EXCEPT ![p] = @ + amount]
     /\ UNCHANGED <<operation, payment, cycleGranted, refunded>>

\* A dispute that was won gives the credits of its adjustment back.
RestorePaymentAdjustment(a) ==
  LET p == adjustment[a].payment
      u == payment[p].userId
      amount == adjustment[a].reversedCredits
  IN /\ p # None
     /\ Fresh(<<"paddle-restoration", a>>)
     /\ wallet' = [wallet EXCEPT ![u] =
          Adjusted(@, <<"paddle-restoration", a>>, "refund", amount)]
     /\ reversed' = [reversed EXCEPT ![p] = @ - amount]
     /\ UNCHANGED <<operation, payment, adjustment, cycleGranted, refunded>>

\* Mutant: earlier refunds of the charge are forgotten.
Mutant_Refundable(o, g, amount, charge) == amount <= charge

\* Together the refunds of a charge do not exceed it.
Refundable(o, g, amount, charge) == refunded[o][g] + amount <= charge

\* A service refund of the charge that generation g of operation o left.
Refund(o, g, k, amount) ==
  LET u == operation[o].userId
      w == wallet[u]
      account == [w.account EXCEPT !.creditsBalance = @ + amount]
      key == <<"refund", k>>
  IN /\ u # None
     /\ Fresh(key)
     /\ \E i \in DOMAIN w.entries :
          /\ w.entries[i].key = <<"charge", <<o, g>>>>
          /\ Refundable(o, g, amount, w.entries[i].amount)
     /\ wallet' = [wallet EXCEPT ![u] =
          RecoverDebt(Post(w, account,
            Row(account, key, "refund", amount, amount, 0, 0)), key)]
     /\ refunded' = [refunded EXCEPT ![o][g] = @ + amount]
     /\ UNCHANGED <<operation, payment, adjustment, cycleGranted, reversed>>

-----------------------------------------------------------------------------
Next ==
  \/ \E u \in Users : Opening(u) \/ SetActive(u)
  \/ \E u \in Users, o \in Operations, amount \in Budgets :
       Reserve(u, o, amount)
  \/ \E o \in Operations : Reopen(o)
  \/ \E o \in Operations :
       \E cumulativeCharge \in 0..operation[o].authorized :
         Settle(o, cumulativeCharge)
  \/ \E u \in Users, k \in AdjustKeys, size \in AdjustSizes :
       AdjustCredits(u, k, size) \/ AdjustCredits(u, k, -size)
  \/ \E u \in Users, p \in Payments, credits \in PackSizes :
       PackPayment(u, p, credits)
  \/ \E u \in Users, p \in Payments, allocation \in Allocations, c \in Cycles :
       GrantSubscriptionCycle(u, p, allocation, c)
  \/ \E u \in Users, p \in Payments, allocation \in Allocations,
        c \in Cycles \cup {None} :
       AdoptLegacyPayment(u, p, allocation, c)
  \/ \E p \in Payments, a \in Adjustments :
       \E share \in ReversalShares(payment[p].granted) :
         ReversePayment(p, a, share)
  \/ \E a \in Adjustments : RestorePaymentAdjustment(a)
  \/ \E o \in Operations, g \in 0..MaxGeneration, k \in RefundKeys,
        amount \in RefundAmounts : Refund(o, g, k, amount)

Spec == Init /\ [][Next]_vars

-----------------------------------------------------------------------------
(* Properties *)

\* Every variable has the shape of the documents it stands for.
TypeOK ==
  /\ wallet \in [Users -> Wallet]
  /\ operation \in [Operations -> CreditOperation]
  /\ payment \in [Payments -> Payment]
  /\ adjustment \in [Adjustments -> Adjustment]
  /\ cycleGranted \in [Users -> [Cycles -> Nat]]
  /\ reversed \in [Payments -> Int]
  /\ refunded \in [Operations -> [0..MaxGeneration -> Nat]]

\* What a statement says before its row i.
Before(entries, i) ==
  IF i = 1 THEN [available |-> 0, reserved |-> 0]
  ELSE [available |-> entries[i - 1].availableAfter,
        reserved |-> entries[i - 1].reservedAfter]

Balanced(w) ==
  /\ \A i \in DOMAIN w.entries :
       LET before == Before(w.entries, i)
           row == w.entries[i]
       IN /\ row.availableAfter = before.available + row.availableDelta
          /\ row.reservedAfter = before.reserved + row.reservedDelta
  /\ LET now == Before(w.entries, Len(w.entries) + 1)
     IN w.account.creditLedgerInitialized =>
          /\ w.entries # <<>>
          /\ w.account.creditsBalance = now.available
          /\ w.account.creditsReserved = now.reserved

\* Each row of a statement continues the row before it, and the last one
\* leaves the balances cached on the account: the deltas of the ledger add up
\* to the wallet, which is what audit() compares.
StatementBalanced == \A u \in Users : Balanced(wallet[u])

\* An account that owes credits has none available: every way credits come in
\* (grant, refund, restoration, released hold) pays the debt first.
OwesOnlyWhenEmpty ==
  \A u \in Users :
    wallet[u].account.creditDebt > 0 => wallet[u].account.creditsBalance = 0

\* No credit key appears twice in the ledger, whichever call is repeated: a
\* payment, reversal, restoration, refund or settlement counts once.
KeysUnique ==
  \A u, v \in Users :
    \A i \in DOMAIN wallet[u].entries, j \in DOMAIN wallet[v].entries :
      wallet[u].entries[i].key = wallet[v].entries[j].key => u = v /\ i = j

\* An operation holds exactly what is left of its original budget while it
\* runs and nothing once settled, however often it is settled and reopened.
HoldIsRemainder ==
  \A o \in Operations :
    /\ operation[o].charged <= operation[o].authorized
    /\ operation[o].held =
         IF operation[o].status = "reserved"
         THEN operation[o].authorized - operation[o].charged ELSE 0

\* Reversals of a payment never exceed what it brought, and restorations never
\* give back more than was reversed.
ReversalsWithinGrant ==
  \A p \in Payments : 0 <= reversed[p] /\ reversed[p] <= payment[p].granted

\* A payment whose credits an opening balance already holds never brings them
\* a second time, whether or not migration has marked it.
OldPaymentsNotRegranted ==
  \A u \in Users : \A i \in DOMAIN wallet[u].entries :
    LET row == wallet[u].entries[i]
    IN row.key \in {"payment"} \X OldPayments => row.availableDelta = 0

\* A payment brings its credits once: neither a repeated call, whichever it is,
\* nor the opening balance together with the payment's own row counts twice.
PaymentsCountOnce == KeysUnique /\ OldPaymentsNotRegranted

\* The credits held of an account move by exactly what one of its operations
\* holds more or less: no grant, reversal, refund or adjustment touches them.
HoldsMoveWithOperations ==
  [][\A u \in Users :
       LET moved == wallet'[u].account.creditsReserved
                      - wallet[u].account.creditsReserved
       IN moved # 0 =>
            \E o \in Operations :
              /\ operation'[o].userId = u
              /\ moved = operation'[o].held - operation[o].held]_vars

\* Delivered work stays charged and its budget stays what was authorized: once
\* an operation exists no step lowers its charge, moves it to another account
\* or changes its authorization.
ChargesAreFinal ==
  [][\A o \in Operations :
       operation[o].status # "none" =>
         /\ operation'[o].userId = operation[o].userId
         /\ operation'[o].authorized = operation[o].authorized
         /\ operation'[o].charged >= operation[o].charged]_vars

\* The accounting implements the purse: available less owed credits are its
\* one signed number.
Accounts == INSTANCE Purse WITH
  net <- [u \in Users |-> wallet[u].account.creditsBalance
                            - wallet[u].account.creditDebt],
  held <- [u \in Users |-> wallet[u].account.creditsReserved],
  spent <- [u \in Users |-> wallet[u].account.totalCreditsUsed]

ImplementsPurse == Accounts!Spec

=============================================================================
