------------------------- MODULE CreditLedgerProofs -------------------------
(***************************************************************************)
(* Proofs about CreditLedger for every set of accounts, operations,        *)
(* payments, adjustments and keys, and for every amount.                   *)
(***************************************************************************)
EXTENDS CreditLedger, SequenceTheorems, TLAPS

-----------------------------------------------------------------------------
(* What every building block does to one wallet *)

\* An opened wallet whose statement explains its balances.
Sound(w) ==
  /\ w \in Wallet
  /\ w.account.creditLedgerInitialized
  /\ Balanced(w)

\* Credits are owed only when none is available.
Clear(w) == w.account.creditDebt > 0 => w.account.creditsBalance = 0

\* Available less owed credits.
Net(w) == w.account.creditsBalance - w.account.creditDebt

\* A row that says what changed between two states of an account continues
\* the statement: the wallet stays balanced.
LEMMA PostSound ==
  ASSUME NEW w, Sound(w),
         NEW account \in Account, account.creditLedgerInitialized,
         NEW row \in CreditEntry,
         row.availableAfter = account.creditsBalance,
         row.reservedAfter = account.creditsReserved,
         row.availableDelta =
           account.creditsBalance - w.account.creditsBalance,
         row.reservedDelta =
           account.creditsReserved - w.account.creditsReserved
  PROVE  Sound(Post(w, account, row))
<1> DEFINE e == w.entries
           f == Append(e, row)
<1>1. /\ e \in Seq(CreditEntry)
      /\ w \in Wallet
      /\ w.account \in Account
  BY DEF Sound, Wallet
<1>2. /\ f \in Seq(CreditEntry)
      /\ Len(f) = Len(e) + 1
      /\ f[Len(e) + 1] = row
      /\ \A i \in 1..Len(e) : f[i] = e[i]
      /\ f # <<>>
  BY <1>1
<1>3. DOMAIN e = 1..Len(e) /\ DOMAIN f = 1..(Len(e) + 1) /\ Len(e) \in Nat
  BY <1>1, <1>2
<1>4. /\ e # <<>>
      /\ Len(e) > 0
      /\ e[Len(e)].availableAfter = w.account.creditsBalance
      /\ e[Len(e)].reservedAfter = w.account.creditsReserved
  <2>1. e # <<>>
    BY DEF Sound, Balanced
  <2>2. Len(e) > 0
    BY <2>1, <1>1
  <2>3. Before(e, Len(e) + 1) =
          [available |-> e[Len(e)].availableAfter,
           reserved |-> e[Len(e)].reservedAfter]
    BY <2>2, <1>3 DEF Before
  <2> QED
    BY <2>1, <2>2, <2>3 DEF Sound, Balanced
<1>5. \A i \in 1..(Len(e) + 1) :
        Before(f, i) = IF i = 1 THEN [available |-> 0, reserved |-> 0]
                       ELSE [available |-> e[i - 1].availableAfter,
                             reserved |-> e[i - 1].reservedAfter]
  BY <1>2, <1>3 DEF Before
<1>6. ASSUME NEW i \in DOMAIN f
      PROVE  /\ f[i].availableAfter =
                  Before(f, i).available + f[i].availableDelta
             /\ f[i].reservedAfter =
                  Before(f, i).reserved + f[i].reservedDelta
  <2>1. CASE i \in 1..Len(e)
    <3>1. Before(f, i) = Before(e, i) /\ f[i] = e[i]
      BY <2>1, <1>2, <1>3, <1>5 DEF Before
    <3> QED
      BY <2>1, <3>1, <1>3 DEF Sound, Balanced
  <2>2. CASE i = Len(e) + 1
    <3>1. /\ f[i] = row
          /\ Before(f, i).available = w.account.creditsBalance
          /\ Before(f, i).reserved = w.account.creditsReserved
      <4>1. i \in 1..(Len(e) + 1) /\ i # 1 /\ i - 1 = Len(e)
        BY <2>2, <1>3, <1>4
      <4>2. Before(f, i) = [available |-> e[Len(e)].availableAfter,
                            reserved |-> e[Len(e)].reservedAfter]
        BY <4>1, <1>5
      <4> QED
        BY <2>2, <4>2, <1>2, <1>4
    <3>2. /\ account.creditsBalance \in Nat /\ account.creditsReserved \in Nat
          /\ w.account.creditsBalance \in Nat
          /\ w.account.creditsReserved \in Nat
      BY <1>1 DEF Account
    <3> HIDE DEF f
    <3> QED
      BY <3>1, <3>2
  <2> QED
    BY <2>1, <2>2, <1>3
<1>7. /\ Before(f, Len(f) + 1).available = account.creditsBalance
      /\ Before(f, Len(f) + 1).reserved = account.creditsReserved
  BY <1>2, <1>3, <1>4 DEF Before
<1>8. /\ Post(w, account, row).account = account
      /\ Post(w, account, row).entries = f
      /\ Post(w, account, row) \in Wallet
  BY <1>2 DEF Post, Wallet
<1> QED
  BY <1>2, <1>6, <1>7, <1>8 DEF Sound, Balanced

\* How far a building block moves the three numbers of the purse.
Moves(w, r, net, held, spent) ==
  /\ Net(r) = Net(w) + net
  /\ r.account.creditsReserved = w.account.creditsReserved + held
  /\ r.account.totalCreditsUsed = w.account.totalCreditsUsed + spent

\* The flag only an administrator moves.
SameActive(w, r) == r.account.isActive = w.account.isActive

LEMMA KeysInBase ==
  ASSUME NEW key \in BaseKeys
  PROVE  key \in Keys /\ <<"debt", key>> \in Keys
BY DEF Keys

LEMMA RowType ==
  ASSUME NEW account \in Account, NEW key \in Keys, NEW type \in RowTypes,
         NEW amount \in Nat, NEW available \in Int, NEW held \in Int,
         NEW debt \in Int
  PROVE  /\ Row(account, key, type, amount, available, held, debt)
              \in CreditEntry
         /\ Row(account, key, type, amount, available, held, debt)
              .availableAfter = account.creditsBalance
         /\ Row(account, key, type, amount, available, held, debt)
              .reservedAfter = account.creditsReserved
         /\ Row(account, key, type, amount, available, held, debt)
              .availableDelta = available
         /\ Row(account, key, type, amount, available, held, debt)
              .reservedDelta = held
BY DEF Row, CreditEntry, Account

LEMMA SoundType ==
  ASSUME NEW w, Sound(w)
  PROVE  /\ w \in Wallet
         /\ w.account \in Account
         /\ w.account.creditsBalance \in Nat
         /\ w.account.creditsReserved \in Nat
         /\ w.account.creditDebt \in Nat
         /\ w.account.totalCreditsUsed \in Nat
         /\ w.account.creditLedgerInitialized = TRUE
BY DEF Sound, Wallet, Account

\* Debt recovery only moves credits from available to owed.
LEMMA RecoverDebtSound ==
  ASSUME NEW w, Sound(w), NEW key \in BaseKeys
  PROVE  /\ Sound(RecoverDebt(w, key))
         /\ Clear(RecoverDebt(w, key))
         /\ Moves(w, RecoverDebt(w, key), 0, 0, 0)
         /\ SameActive(w, RecoverDebt(w, key))
<1> DEFINE a == w.account
           amount == Smaller(a.creditDebt, a.creditsBalance)
           b == [a EXCEPT !.creditsBalance = @ - amount,
                          !.creditDebt = @ - amount]
           row == Row(b, <<"debt", key>>, "adjustment", amount, -amount, 0,
                      -amount)
<1>1. /\ a \in Account
      /\ a.creditsBalance \in Nat /\ a.creditDebt \in Nat
      /\ a.creditsReserved \in Nat /\ a.totalCreditsUsed \in Nat
      /\ a.creditLedgerInitialized = TRUE
  BY SoundType
<1>2. /\ amount \in Nat
      /\ amount <= a.creditDebt /\ amount <= a.creditsBalance
      /\ amount = a.creditDebt \/ amount = a.creditsBalance
  BY <1>1 DEF Smaller
<1>3. /\ b \in Account
      /\ b.creditsBalance = a.creditsBalance - amount
      /\ b.creditDebt = a.creditDebt - amount
      /\ b.creditsReserved = a.creditsReserved
      /\ b.totalCreditsUsed = a.totalCreditsUsed
      /\ b.creditLedgerInitialized = TRUE
      /\ b.isActive = a.isActive
  <2> HIDE DEF amount, a
  <2>1. a.creditsBalance - amount \in Nat /\ a.creditDebt - amount \in Nat
    BY <1>1, <1>2
  <2> QED BY <1>1, <2>1 DEF Account
<1>4. CASE amount = 0
  <2>1. RecoverDebt(w, key) = w
    BY <1>4 DEF RecoverDebt
  <2> QED
    BY <2>1, <1>1, <1>2, <1>4 DEF Clear, Moves, Net, SameActive
<1>5. CASE amount # 0
  <2>1. RecoverDebt(w, key) = Post(w, b, row)
    BY <1>5 DEF RecoverDebt
  <2>2. /\ row \in CreditEntry
        /\ row.availableAfter = b.creditsBalance
        /\ row.reservedAfter = b.creditsReserved
        /\ row.availableDelta = -amount
        /\ row.reservedDelta = 0
    <3>1. -amount \in Int /\ "adjustment" \in RowTypes
      BY <1>2 DEF RowTypes
    <3>2. <<"debt", key>> \in Keys
      BY KeysInBase
    <3> HIDE DEF amount, b
    <3> QED BY <3>1, <3>2, <1>2, <1>3, RowType
  <2> HIDE DEF amount, b, row
  <2>3. Sound(Post(w, b, row))
    <3>1. /\ row.availableDelta = b.creditsBalance - w.account.creditsBalance
          /\ row.reservedDelta = b.creditsReserved - w.account.creditsReserved
      BY <2>2, <1>1, <1>2, <1>3
    <3> QED BY <3>1, <2>2, <1>3, PostSound
  <2>4. Post(w, b, row).account = b
    BY DEF Post
  <2>5. Clear(Post(w, b, row))
    BY <2>4, <1>1, <1>2, <1>3 DEF Clear
  <2>6. Moves(w, Post(w, b, row), 0, 0, 0) /\ SameActive(w, Post(w, b, row))
    BY <2>4, <1>1, <1>2, <1>3 DEF Moves, Net, SameActive
  <2> QED BY <2>1, <2>3, <2>5, <2>6
<1> QED BY <1>4, <1>5

\* Moving a wallet twice adds up.
LEMMA MovesTwice ==
  ASSUME NEW w, NEW x, NEW y, Sound(w), Sound(x), Sound(y),
         NEW n \in Int, NEW h \in Int, NEW s \in Int,
         NEW m \in Int, NEW k \in Int, NEW t \in Int,
         Moves(w, x, n, h, s), Moves(x, y, m, k, t)
  PROVE  Moves(w, y, n + m, h + k, s + t)
<1>1. \A z \in {w, x, y} :
        /\ z.account.creditsBalance \in Nat
        /\ z.account.creditsReserved \in Nat
        /\ z.account.creditDebt \in Nat
        /\ z.account.totalCreditsUsed \in Nat
  BY SoundType
<1> QED BY <1>1 DEF Moves, Net

\* A row of an operation moves available and held credits as it says.
LEMMA EntrySound ==
  ASSUME NEW w, Sound(w), Clear(w), NEW key \in BaseKeys,
         NEW type \in {"reserve", "charge", "release"}, NEW amount \in Nat,
         NEW available \in Int, NEW held \in Int, Covers(w, available, held)
  PROVE  LET r == Entry(w, type, amount, available, held, key)
         IN /\ Sound(r)
            /\ Clear(r)
            /\ Moves(w, r, available, held,
                     IF type = "charge" THEN amount ELSE 0)
            /\ SameActive(w, r)
<1> DEFINE a == w.account
           spent == IF type = "charge" THEN amount ELSE 0
           b == [a EXCEPT !.creditsBalance = @ + available,
                          !.creditsReserved = @ + held,
                          !.totalCreditsUsed = @ + spent]
           row == Row(b, key, type, amount, available, held, 0)
           posted == Post(w, b, row)
           r == Entry(w, type, amount, available, held, key)
<1>1. /\ a \in Account
      /\ a.creditsBalance \in Nat /\ a.creditDebt \in Nat
      /\ a.creditsReserved \in Nat /\ a.totalCreditsUsed \in Nat
      /\ a.creditLedgerInitialized = TRUE
  BY SoundType
<1>2. /\ spent \in Nat
      /\ a.creditsBalance + available \in Nat
      /\ a.creditsReserved + held \in Nat
      /\ a.totalCreditsUsed + spent \in Nat
  <2> HIDE DEF a
  <2>1. a.creditsBalance >= -available /\ a.creditsReserved >= -held
    BY DEF Covers, a
  <2> QED BY <1>1, <2>1
<1> HIDE DEF spent
<1>3. /\ b \in Account
      /\ b.creditsBalance = a.creditsBalance + available
      /\ b.creditDebt = a.creditDebt
      /\ b.creditsReserved = a.creditsReserved + held
      /\ b.totalCreditsUsed = a.totalCreditsUsed + spent
      /\ b.creditLedgerInitialized = TRUE
      /\ b.isActive = a.isActive
  <2> HIDE DEF a
  <2> QED BY <1>1, <1>2 DEF Account
<1>4. /\ row \in CreditEntry
      /\ row.availableAfter = b.creditsBalance
      /\ row.reservedAfter = b.creditsReserved
      /\ row.availableDelta = available
      /\ row.reservedDelta = held
  <2>1. type \in RowTypes /\ key \in Keys
    BY KeysInBase DEF RowTypes
  <2> HIDE DEF b
  <2> QED BY <2>1, <1>3, RowType
<1>5. Sound(posted) /\ posted.account = b
  <2>1. posted.account = b
    BY DEF Post
  <2> HIDE DEF b, row
  <2>2. /\ row.availableDelta = b.creditsBalance - w.account.creditsBalance
        /\ row.reservedDelta = b.creditsReserved - w.account.creditsReserved
    BY <1>1, <1>3, <1>4
  <2> QED BY <2>1, <2>2, <1>3, <1>4, PostSound
<1>6. r = IF available > 0 THEN RecoverDebt(posted, key) ELSE posted
  BY DEF Entry, spent
<1> HIDE DEF posted, row, b, r
<1>7. Moves(w, posted, available, held, spent) /\ SameActive(w, posted)
  BY <1>1, <1>3, <1>5 DEF Moves, Net, SameActive
<1>8. CASE available > 0
  <2>1. /\ Sound(r) /\ Clear(r) /\ Moves(posted, r, 0, 0, 0)
        /\ SameActive(posted, r)
    BY <1>5, <1>6, <1>8, RecoverDebtSound
  <2>2. Moves(w, r, available + 0, held + 0, spent + 0)
    BY <2>1, <1>2, <1>5, <1>7, MovesTwice
  <2>3. available + 0 = available /\ held + 0 = held /\ spent + 0 = spent
    BY <1>2
  <2> QED BY <2>1, <2>2, <2>3, <1>7 DEF SameActive, r, spent
<1>9. CASE ~(available > 0)
  <2>1. r = posted
    BY <1>6, <1>9
  <2>2. Clear(posted)
    <3>1. a.creditsBalance >= -available
      BY DEF Covers
    <3>2. a.creditDebt > 0 => a.creditsBalance = 0
      BY DEF Clear
    <3> QED BY <3>1, <3>2, <1>1, <1>3, <1>5, <1>9 DEF Clear
  <2> QED BY <2>1, <2>2, <1>5, <1>7 DEF r, spent
<1> QED BY <1>8, <1>9

\* Credits that come in pay what is owed first.
LEMMA CreditSound ==
  ASSUME NEW w, Sound(w), NEW key \in BaseKeys, NEW type \in RowTypes,
         NEW amount \in Nat
  PROVE  LET b == [w.account EXCEPT !.creditsBalance = @ + amount]
             r == RecoverDebt(
                    Post(w, b, Row(b, key, type, amount, amount, 0, 0)), key)
         IN /\ Sound(r)
            /\ Clear(r)
            /\ Moves(w, r, amount, 0, 0)
            /\ SameActive(w, r)
<1> DEFINE a == w.account
           b == [a EXCEPT !.creditsBalance = @ + amount]
           row == Row(b, key, type, amount, amount, 0, 0)
           posted == Post(w, b, row)
           r == RecoverDebt(posted, key)
<1>1. /\ a \in Account
      /\ a.creditsBalance \in Nat /\ a.creditDebt \in Nat
      /\ a.creditsReserved \in Nat /\ a.totalCreditsUsed \in Nat
      /\ a.creditLedgerInitialized = TRUE
  BY SoundType
<1>2. /\ b \in Account
      /\ b.creditsBalance = a.creditsBalance + amount
      /\ b.creditDebt = a.creditDebt
      /\ b.creditsReserved = a.creditsReserved
      /\ b.totalCreditsUsed = a.totalCreditsUsed
      /\ b.creditLedgerInitialized = TRUE
      /\ b.isActive = a.isActive
  <2> HIDE DEF a
  <2>1. a.creditsBalance + amount \in Nat
    BY <1>1
  <2> QED BY <1>1, <2>1 DEF Account
<1>3. /\ row \in CreditEntry
      /\ row.availableAfter = b.creditsBalance
      /\ row.reservedAfter = b.creditsReserved
      /\ row.availableDelta = amount
      /\ row.reservedDelta = 0
  <2>1. key \in Keys
    BY KeysInBase
  <2> HIDE DEF b
  <2> QED BY <2>1, <1>2, RowType
<1>4. Sound(posted) /\ posted.account = b
  <2>1. posted.account = b
    BY DEF Post
  <2> HIDE DEF b, row
  <2>2. /\ row.availableDelta = b.creditsBalance - w.account.creditsBalance
        /\ row.reservedDelta = b.creditsReserved - w.account.creditsReserved
    BY <1>1, <1>2, <1>3
  <2> QED BY <2>1, <2>2, <1>2, <1>3, PostSound
<1> HIDE DEF posted, row, b
<1>5. Moves(w, posted, amount, 0, 0) /\ SameActive(w, posted)
  BY <1>1, <1>2, <1>4 DEF Moves, Net, SameActive
<1>6. /\ Sound(r) /\ Clear(r) /\ Moves(posted, r, 0, 0, 0)
      /\ SameActive(posted, r)
  BY <1>4, RecoverDebtSound
<1> HIDE DEF r
<1>7. Moves(w, r, amount + 0, 0 + 0, 0 + 0)
  BY <1>4, <1>5, <1>6, MovesTwice
<1>8. amount + 0 = amount /\ 0 + 0 = 0
  OBVIOUS
<1> QED BY <1>5, <1>6, <1>7, <1>8 DEF SameActive, r, posted, row, b

\* A signed adjustment that the available credits cover.
LEMMA AdjustedSound ==
  ASSUME NEW w, Sound(w), Clear(w), NEW key \in BaseKeys,
         NEW type \in RowTypes, NEW amount \in Int,
         w.account.creditsBalance >= -amount
  PROVE  LET r == Adjusted(w, key, type, amount)
         IN /\ Sound(r)
            /\ Clear(r)
            /\ Moves(w, r, amount, 0, 0)
            /\ SameActive(w, r)
<1> DEFINE a == w.account
           size == IF amount < 0 THEN -amount ELSE amount
           b == [a EXCEPT !.creditsBalance = @ + amount]
           row == Row(b, key, type, size, amount, 0, 0)
           posted == Post(w, b, row)
           r == Adjusted(w, key, type, amount)
<1>1. r = IF amount > 0 THEN RecoverDebt(posted, key) ELSE posted
  BY DEF Adjusted
<1>2. CASE amount > 0
  <2>1. size = amount /\ amount \in Nat
    BY <1>2
  <2>2. r = RecoverDebt(Post(w, b, Row(b, key, type, amount, amount, 0, 0)),
                        key)
    BY <1>1, <1>2, <2>1
  <2> HIDE DEF r
  <2> QED BY <2>1, <2>2, CreditSound DEF r
<1>3. CASE ~(amount > 0)
  <2>1. /\ a \in Account
        /\ a.creditsBalance \in Nat /\ a.creditDebt \in Nat
        /\ a.creditsReserved \in Nat /\ a.totalCreditsUsed \in Nat
        /\ a.creditLedgerInitialized = TRUE
    BY SoundType
  <2>2. size \in Nat /\ a.creditsBalance + amount \in Nat
    BY <1>3, <2>1
  <2>3. /\ b \in Account
        /\ b.creditsBalance = a.creditsBalance + amount
        /\ b.creditDebt = a.creditDebt
        /\ b.creditsReserved = a.creditsReserved
        /\ b.totalCreditsUsed = a.totalCreditsUsed
        /\ b.creditLedgerInitialized = TRUE
        /\ b.isActive = a.isActive
    <3> HIDE DEF a
    <3> QED BY <2>1, <2>2 DEF Account
  <2>4. /\ row \in CreditEntry
        /\ row.availableAfter = b.creditsBalance
        /\ row.reservedAfter = b.creditsReserved
        /\ row.availableDelta = amount
        /\ row.reservedDelta = 0
    <3>1. key \in Keys
      BY KeysInBase
    <3> HIDE DEF b, size
    <3> QED BY <3>1, <2>2, <2>3, RowType
  <2>5. Sound(posted) /\ posted.account = b
    <3>1. posted.account = b
      BY DEF Post
    <3> HIDE DEF b, row
    <3>2. /\ row.availableDelta = b.creditsBalance - w.account.creditsBalance
          /\ row.reservedDelta = b.creditsReserved - w.account.creditsReserved
      BY <2>1, <2>3, <2>4
    <3> QED BY <3>1, <3>2, <2>3, <2>4, PostSound
  <2>6. r = posted
    BY <1>1, <1>3
  <2> HIDE DEF posted, row, b, r
  <2>7. Moves(w, posted, amount, 0, 0) /\ SameActive(w, posted)
    BY <2>1, <2>3, <2>5 DEF Moves, Net, SameActive
  <2>8. Clear(posted)
    <3>1. a.creditDebt > 0 => a.creditsBalance = 0
      BY DEF Clear
    <3> QED BY <3>1, <1>3, <2>1, <2>3, <2>5 DEF Clear
  <2> QED BY <2>5, <2>6, <2>7, <2>8 DEF r
<1> QED BY <1>2, <1>3

\* A reversal lowers the purse by its amount, into debt if need be.
LEMMA TakenBackSound ==
  ASSUME NEW w, Sound(w), Clear(w), NEW key \in BaseKeys, NEW amount \in Nat
  PROVE  LET debit == Debit(w.account, amount)
             b == TakenBack(w.account, amount)
             r == Post(w, b, Row(b, key, "adjustment", debit, -debit, 0,
                                 amount - debit))
         IN /\ Sound(r)
            /\ Clear(r)
            /\ Moves(w, r, -amount, 0, 0)
            /\ SameActive(w, r)
<1> DEFINE a == w.account
           debit == Debit(a, amount)
           b == TakenBack(a, amount)
           row == Row(b, key, "adjustment", debit, -debit, 0, amount - debit)
           r == Post(w, b, row)
<1>1. /\ a \in Account
      /\ a.creditsBalance \in Nat /\ a.creditDebt \in Nat
      /\ a.creditsReserved \in Nat /\ a.totalCreditsUsed \in Nat
      /\ a.creditLedgerInitialized = TRUE
  BY SoundType
<1>2. /\ debit \in Nat
      /\ debit <= amount /\ debit <= a.creditsBalance
      /\ debit = amount \/ debit = a.creditsBalance
  BY <1>1 DEF Debit, Smaller
<1>3. /\ b \in Account
      /\ b.creditsBalance = a.creditsBalance - debit
      /\ b.creditDebt = a.creditDebt + (amount - debit)
      /\ b.creditsReserved = a.creditsReserved
      /\ b.totalCreditsUsed = a.totalCreditsUsed
      /\ b.creditLedgerInitialized = TRUE
      /\ b.isActive = a.isActive
  <2>1. b = [a EXCEPT !.creditsBalance = @ - debit,
                      !.creditDebt = @ + (amount - debit)]
    BY DEF TakenBack
  <2> HIDE DEF a, debit, b
  <2>2. /\ a.creditsBalance - debit \in Nat
        /\ a.creditDebt + (amount - debit) \in Nat
    BY <1>1, <1>2
  <2> QED BY <2>1, <2>2, <1>1 DEF Account
<1> HIDE DEF debit, b
<1>4. /\ row \in CreditEntry
      /\ row.availableAfter = b.creditsBalance
      /\ row.reservedAfter = b.creditsReserved
      /\ row.availableDelta = -debit
      /\ row.reservedDelta = 0
  <2> DEFINE less == -debit
             owed == amount - debit
  <2>1. /\ key \in Keys /\ "adjustment" \in RowTypes
        /\ less \in Int /\ owed \in Int
    <3>1. key \in Keys
      BY KeysInBase
    <3>2. "adjustment" \in RowTypes
      BY DEF RowTypes
    <3>3. less \in Int /\ owed \in Int
      BY <1>2
    <3> QED BY <3>1, <3>2, <3>3
  <2> HIDE DEF less, owed
  <2>2. row = Row(b, key, "adjustment", debit, less, 0, owed)
    BY DEF less, owed
  <2> HIDE DEF row
  <2>3. /\ row.availableDelta = less
        /\ row \in CreditEntry
        /\ row.availableAfter = b.creditsBalance
        /\ row.reservedAfter = b.creditsReserved
        /\ row.reservedDelta = 0
    BY <2>1, <2>2, <1>2, <1>3, RowType
  <2> QED BY <2>3 DEF less
<1>5. Sound(r) /\ r.account = b
  <2>1. r.account = b
    BY DEF Post
  <2> HIDE DEF row
  <2>2. /\ row.availableDelta = b.creditsBalance - w.account.creditsBalance
        /\ row.reservedDelta = b.creditsReserved - w.account.creditsReserved
    BY <1>1, <1>2, <1>3, <1>4
  <2> QED BY <2>1, <2>2, <1>3, <1>4, PostSound
<1> HIDE DEF r, row
<1>6. Moves(w, r, -amount, 0, 0) /\ SameActive(w, r)
  BY <1>1, <1>2, <1>3, <1>5 DEF Moves, Net, SameActive
<1>7. Clear(r)
  <2>1. a.creditDebt > 0 => a.creditsBalance = 0
    BY DEF Clear
  <2> QED BY <2>1, <1>1, <1>2, <1>3, <1>5 DEF Clear
<1> QED BY <1>5, <1>6, <1>7 DEF r, row, b, debit

\* A wallet in any state the program can leave it in: once opened its
\* statement explains it, before that it has no statement, hold or debt.
Accountable(w) ==
  /\ w \in Wallet
  /\ Clear(w)
  /\ IF w.account.creditLedgerInitialized
     THEN Balanced(w)
     ELSE /\ w.entries = <<>>
          /\ w.account.creditDebt = 0
          /\ w.account.creditsReserved = 0

\* Opening an account writes down what it has.
LEMMA OpenedSound ==
  ASSUME NEW u \in Users, Accountable(wallet[u])
  PROVE  /\ Sound(Opened(u))
         /\ Clear(Opened(u))
         /\ Moves(wallet[u], Opened(u), 0, 0, 0)
         /\ SameActive(wallet[u], Opened(u))
<1> DEFINE w == wallet[u]
           a == w.account
           b == [a EXCEPT !.creditLedgerInitialized = TRUE]
           type == IF u \in LegacyUsers THEN "opening" ELSE "grant"
           row == Row(b, <<"opening", u>>, type,
                      a.creditsBalance + a.creditsReserved,
                      a.creditsBalance, a.creditsReserved, 0)
           r == Post(w, b, row)
<1>1. /\ w \in Wallet
      /\ a \in Account
      /\ a.creditsBalance \in Nat /\ a.creditDebt \in Nat
      /\ a.creditsReserved \in Nat /\ a.totalCreditsUsed \in Nat
  BY DEF Accountable, Wallet, Account
<1>2. CASE a.creditLedgerInitialized
  <2>1. Opened(u) = w
    BY <1>2 DEF Opened
  <2> QED
    BY <2>1, <1>1, <1>2 DEF Accountable, Sound, Moves, Net, SameActive
<1>3. CASE ~a.creditLedgerInitialized
  <2>1. Opened(u) = r
    BY <1>3 DEF Opened
  <2>2. /\ w.entries = <<>> /\ a.creditDebt = 0 /\ a.creditsReserved = 0
    BY <1>3 DEF Accountable
  <2>3. /\ b \in Account
        /\ b.creditsBalance = a.creditsBalance
        /\ b.creditDebt = a.creditDebt
        /\ b.creditsReserved = a.creditsReserved
        /\ b.totalCreditsUsed = a.totalCreditsUsed
        /\ b.creditLedgerInitialized = TRUE
        /\ b.isActive = a.isActive
    <3> HIDE DEF a
    <3> QED BY <1>1 DEF Account
  <2>4. /\ row \in CreditEntry
        /\ row.availableAfter = b.creditsBalance
        /\ row.reservedAfter = b.creditsReserved
        /\ row.availableDelta = a.creditsBalance
        /\ row.reservedDelta = a.creditsReserved
    <3>1. <<"opening", u>> \in Keys
      BY DEF Keys, BaseKeys
    <3>2. type \in RowTypes
      BY DEF RowTypes
    <3> HIDE DEF b, type
    <3>3. /\ a.creditsBalance + a.creditsReserved \in Nat
          /\ a.creditsBalance \in Int /\ a.creditsReserved \in Int
      BY <1>1
    <3> HIDE DEF a
    <3> QED BY <3>1, <3>2, <3>3, <2>3, RowType
  <2> HIDE DEF b, row
  <2>5. /\ r.account = b
        /\ r.entries = <<row>>
        /\ r \in Wallet
    <3>1. Append(w.entries, row) = <<row>>
      BY <2>2
    <3>2. <<row>> \in Seq(CreditEntry)
      BY <2>4
    <3> QED BY <3>1, <3>2, <2>3 DEF Post, Wallet
  <2> HIDE DEF r
  <2>6. Balanced(r)
    <3> DEFINE f == <<row>>
    <3>1. DOMAIN f = {1} /\ Len(f) = 1 /\ f[1] = row /\ f # <<>>
      OBVIOUS
    <3> HIDE DEF f
    <3>2. Before(f, 1) = [available |-> 0, reserved |-> 0]
      BY DEF Before
    <3>3. Before(f, 2) = [available |-> row.availableAfter,
                          reserved |-> row.reservedAfter]
      BY <3>1 DEF Before
    <3>4. Before(f, Len(f) + 1) = Before(f, 2)
      BY <3>1
    <3>5. /\ f[1].availableAfter =
               Before(f, 1).available + f[1].availableDelta
          /\ f[1].reservedAfter =
               Before(f, 1).reserved + f[1].reservedDelta
      BY <3>1, <3>2, <1>1, <2>3, <2>4
    <3>6. r.entries = f
      BY <2>5 DEF f
    <3> QED
      BY <3>1, <3>3, <3>4, <3>5, <3>6, <2>3, <2>4, <2>5 DEF Balanced
  <2>7. Clear(r) /\ Moves(w, r, 0, 0, 0) /\ SameActive(w, r)
    BY <1>1, <2>2, <2>3, <2>5 DEF Clear, Moves, Net, SameActive
  <2> QED BY <2>1, <2>3, <2>5, <2>6, <2>7 DEF Sound
<1> QED BY <1>2, <1>3

-----------------------------------------------------------------------------
(* The inductive invariant *)

\* Whoever a document names has an opened account.
OperationsOwned ==
  \A o \in Operations :
    /\ operation[o].status = "none" <=> operation[o].userId = None
    /\ operation[o].userId # None =>
         wallet[operation[o].userId].account.creditLedgerInitialized

PaymentsOwned ==
  \A p \in Payments :
    payment[p].userId # None =>
      wallet[payment[p].userId].account.creditLedgerInitialized

AdjustmentsOwned ==
  \A a \in Adjustments :
    adjustment[a].payment # None => payment[adjustment[a].payment].userId # None

OwnersKnown == OperationsOwned /\ PaymentsOwned /\ AdjustmentsOwned

IInv ==
  /\ TypeOK
  /\ \A u \in Users : Accountable(wallet[u])
  /\ HoldIsRemainder
  /\ OwnersKnown

\* What every transaction leaves behind: one account moved, and soundly.
Transaction(u, net, held, spent) ==
  /\ u \in Users
  /\ wallet' = [wallet EXCEPT ![u] = wallet'[u]]
  /\ Sound(wallet'[u])
  /\ Clear(wallet'[u])
  /\ Moves(wallet[u], wallet'[u], net, held, spent)

\* An opened account of the invariant is sound.
LEMMA OpenIsSound ==
  ASSUME IInv, NEW u \in Users, wallet[u].account.creditLedgerInitialized
  PROVE  Sound(wallet[u]) /\ Clear(wallet[u])
<1>1. Accountable(wallet[u])
  BY DEF IInv
<1> QED BY <1>1 DEF Accountable, Sound

\* The owner of an operation is an account, and opened.
LEMMA OperationOwner ==
  ASSUME IInv, NEW o \in Operations, operation[o].status # "none"
  PROVE  /\ operation[o] \in CreditOperation
         /\ operation[o].userId \in Users
         /\ Sound(wallet[operation[o].userId])
         /\ Clear(wallet[operation[o].userId])
<1>1. operation[o] \in CreditOperation
  BY DEF IInv, TypeOK
<1>2. operation[o].userId # None
  BY DEF IInv, OwnersKnown, OperationsOwned
<1>3. operation[o].userId \in Users
  BY <1>1, <1>2 DEF CreditOperation
<1>4. wallet[operation[o].userId].account.creditLedgerInitialized
  BY <1>2 DEF IInv, OwnersKnown, OperationsOwned
<1> QED BY <1>1, <1>3, <1>4, OpenIsSound

\* The same for the owner of a payment.
LEMMA PaymentOwner ==
  ASSUME IInv, NEW p \in Payments, payment[p].userId # None
  PROVE  /\ payment[p].userId \in Users
         /\ Sound(wallet[payment[p].userId])
         /\ Clear(wallet[payment[p].userId])
<1>1. payment[p] \in Payment
  BY DEF IInv, TypeOK
<1>2. payment[p].userId \in Users
  BY <1>1 DEF Payment
<1>3. wallet[payment[p].userId].account.creditLedgerInitialized
  BY DEF IInv, OwnersKnown, PaymentsOwned
<1> QED BY <1>2, <1>3, OpenIsSound

LEMMA WalletFunction ==
  ASSUME IInv
  PROVE  wallet \in [Users -> Wallet]
BY DEF IInv, TypeOK

\* Replacing one wallet by a sound one is a transaction.
LEMMA ReplacedWallet ==
  ASSUME IInv, NEW u \in Users, NEW r, NEW net, NEW held, NEW spent,
         wallet' = [wallet EXCEPT ![u] = r],
         Sound(r), Clear(r), Moves(wallet[u], r, net, held, spent)
  PROVE  Transaction(u, net, held, spent) /\ wallet'[u] = r
<1>1. wallet'[u] = r
  BY WalletFunction
<1> QED BY <1>1 DEF Transaction

\* A transaction that opens the account on its way moves it no further.
LEMMA ThroughOpening ==
  ASSUME IInv, NEW u \in Users, NEW r,
         NEW n \in Int, NEW h \in Int, NEW s \in Int,
         Sound(r), Moves(Opened(u), r, n, h, s)
  PROVE  Moves(wallet[u], r, n, h, s)
<1>1. Accountable(wallet[u])
  BY DEF IInv
<1>2. Sound(Opened(u)) /\ Moves(wallet[u], Opened(u), 0, 0, 0)
  BY <1>1, OpenedSound
<1>3. /\ wallet[u].account.creditsBalance \in Nat
      /\ wallet[u].account.creditsReserved \in Nat
      /\ wallet[u].account.creditDebt \in Nat
      /\ wallet[u].account.totalCreditsUsed \in Nat
  BY <1>1 DEF Accountable, Wallet, Account
<1>4. \A z \in {Opened(u), r} :
        /\ z.account.creditsBalance \in Nat
        /\ z.account.creditsReserved \in Nat
        /\ z.account.creditDebt \in Nat
        /\ z.account.totalCreditsUsed \in Nat
  BY <1>2, SoundType
<1> QED BY <1>2, <1>3, <1>4 DEF Moves, Net

-----------------------------------------------------------------------------
(* Each operation is a transaction on one account *)

LEMMA OpeningStep ==
  ASSUME IInv, NEW u \in Users, Opening(u)
  PROVE  Transaction(u, 0, 0, 0)
<1>1. Accountable(wallet[u])
  BY DEF IInv
<1>2. wallet' = [wallet EXCEPT ![u] = Opened(u)]
  BY DEF Opening
<1> QED BY <1>1, <1>2, OpenedSound, ReplacedWallet

LEMMA ReserveStep ==
  ASSUME IInv, NEW u \in Users, NEW o \in Operations, NEW amount \in Budgets,
         Reserve(u, o, amount)
  PROVE  amount \in Nat /\ Transaction(u, -amount, amount, 0)
<1> DEFINE w == Opened(u)
           key == <<"reserve", <<o, 0>>>>
           less == -amount
           r == Entry(w, "reserve", amount, less, amount, key)
<1>1. Accountable(wallet[u])
  BY DEF IInv
<1>2. amount \in Nat /\ less \in Int
  BY AmountsAssumption
<1>3. key \in BaseKeys
  BY DEF BaseKeys
<1>4. Sound(w) /\ Clear(w)
  BY <1>1, OpenedSound
<1>5. Covers(w, less, amount) /\ wallet' = [wallet EXCEPT ![u] = r]
  BY DEF Reserve
<1> HIDE DEF w, less, key
<1>6. Sound(r) /\ Clear(r) /\ Moves(w, r, less, amount, 0)
  BY <1>2, <1>3, <1>4, <1>5, EntrySound
<1> HIDE DEF r
<1>7. Moves(wallet[u], r, less, amount, 0)
  <2>1. Moves(Opened(u), r, less, amount, 0)
    BY <1>6 DEF w
  <2> QED BY <2>1, <1>2, <1>6, ThroughOpening
<1> QED BY <1>2, <1>5, <1>6, <1>7, ReplacedWallet DEF less

LEMMA ReopenStep ==
  ASSUME IInv, NEW o \in Operations, Reopen(o)
  PROVE  LET amount == Remainder(operation[o])
         IN amount \in Nat
            /\ Transaction(operation[o].userId, -amount, amount, 0)
<1> DEFINE u == operation[o].userId
           w == wallet[u]
           amount == Remainder(operation[o])
           key == <<"reserve", <<o, operation[o].generation + 1>>>>
           less == -amount
           r == Entry(w, "reserve", amount, less, amount, key)
<1>1. /\ operation[o] \in CreditOperation
      /\ u \in Users /\ Sound(w) /\ Clear(w)
  <2>1. operation[o].status # "none"
    BY DEF Reopen
  <2> QED BY <2>1, OperationOwner
<1>2. amount \in Nat /\ less \in Int
  <2>1. /\ operation[o].charged \in Nat /\ operation[o].authorized \in Nat
        /\ operation[o].charged <= operation[o].authorized
    BY <1>1 DEF IInv, HoldIsRemainder, CreditOperation
  <2> QED BY <2>1 DEF Remainder
<1>3. key \in BaseKeys
  <2>1. operation[o].generation + 1 \in Nat
    BY <1>1 DEF CreditOperation
  <2> QED BY <2>1 DEF BaseKeys
<1>4. Covers(w, less, amount) /\ wallet' = [wallet EXCEPT ![u] = r]
  BY DEF Reopen
<1> HIDE DEF u, w, less, key, amount
<1>5. Sound(r) /\ Clear(r) /\ Moves(w, r, less, amount, 0)
  BY <1>1, <1>2, <1>3, <1>4, EntrySound
<1> HIDE DEF r
<1>6. Transaction(u, less, amount, 0)
  BY <1>1, <1>4, <1>5, ReplacedWallet DEF w
<1> QED BY <1>2, <1>6 DEF less, u, amount

\* A charge moves credits from held to used.
LEMMA ChargedSound ==
  ASSUME NEW w, Sound(w), Clear(w), NEW o \in Operations,
         operation[o].generation \in Nat, NEW charge \in Nat,
         Covers(w, 0, -charge)
  PROVE  /\ Sound(Charged(w, o, charge))
         /\ Clear(Charged(w, o, charge))
         /\ Moves(w, Charged(w, o, charge), 0, -charge, charge)
<1> DEFINE key == <<"charge", <<o, operation[o].generation>>>>
           less == -charge
           r == Charged(w, o, charge)
<1>1. CASE charge = 0
  <2>1. r = w
    BY <1>1 DEF Charged
  <2>2. /\ w.account.creditsBalance \in Nat /\ w.account.creditDebt \in Nat
        /\ w.account.creditsReserved \in Nat
        /\ w.account.totalCreditsUsed \in Nat
    BY SoundType
  <2> HIDE DEF r
  <2>3. Moves(w, r, 0, -charge, charge)
    BY <2>1, <2>2, <1>1 DEF Moves, Net
  <2> QED BY <2>1, <2>3 DEF r
<1>2. CASE charge # 0
  <2>1. r = Entry(w, "charge", charge, 0, less, key)
    BY <1>2 DEF Charged
  <2>2. key \in BaseKeys
    BY DEF BaseKeys
  <2>3. less \in Int
    OBVIOUS
  <2>4. Covers(w, 0, less)
    OBVIOUS
  <2> HIDE DEF key, less, r
  <2>5. Sound(r) /\ Clear(r) /\ Moves(w, r, 0, less, charge)
    BY <2>1, <2>2, <2>3, <2>4, EntrySound
  <2> QED BY <2>5 DEF less, r
<1> QED BY <1>1, <1>2

\* A release moves credits from held back to available.
LEMMA ReleasedSound ==
  ASSUME NEW w, Sound(w), Clear(w), NEW o \in Operations,
         operation[o].generation \in Nat, NEW release \in Nat,
         Covers(w, release, -release)
  PROVE  /\ Sound(Released(w, o, release))
         /\ Clear(Released(w, o, release))
         /\ Moves(w, Released(w, o, release), release, -release, 0)
<1> DEFINE key == <<"release", <<o, operation[o].generation>>>>
           less == -release
           r == Released(w, o, release)
<1>1. CASE release = 0
  <2>1. r = w
    BY <1>1 DEF Released
  <2>2. /\ w.account.creditsBalance \in Nat /\ w.account.creditDebt \in Nat
        /\ w.account.creditsReserved \in Nat
        /\ w.account.totalCreditsUsed \in Nat
    BY SoundType
  <2> HIDE DEF r
  <2>3. Moves(w, r, release, -release, 0)
    BY <2>1, <2>2, <1>1 DEF Moves, Net
  <2> QED BY <2>1, <2>3 DEF r
<1>2. CASE release # 0
  <2>1. r = Entry(w, "release", release, release, less, key)
    BY <1>2 DEF Released
  <2>2. key \in BaseKeys
    BY DEF BaseKeys
  <2>3. less \in Int
    OBVIOUS
  <2>4. Covers(w, release, less)
    OBVIOUS
  <2> HIDE DEF key, less, r
  <2>5. Sound(r) /\ Clear(r) /\ Moves(w, r, release, less, 0)
    BY <2>1, <2>2, <2>3, <2>4, EntrySound
  <2> QED BY <2>5 DEF less, r
<1> QED BY <1>1, <1>2

LEMMA SettleStep ==
  ASSUME IInv, NEW o \in Operations,
         NEW total \in 0..operation[o].authorized, Settle(o, total)
  PROVE  LET op == operation[o]
             charge == total - op.charged
         IN /\ charge \in Nat /\ op.held - charge \in Nat
            /\ Transaction(op.userId, op.held - charge, -op.held, charge)
<1> DEFINE op == operation[o]
           u == op.userId
           w == wallet[u]
           charge == total - op.charged
           release == op.held - charge
           x == Charged(w, o, charge)
           y == Released(x, o, release)
<1>1. op \in CreditOperation /\ u \in Users /\ Sound(w) /\ Clear(w)
  <2>1. op.status # "none"
    BY DEF Settle
  <2> QED BY <2>1, OperationOwner
<1>2. op.generation \in Nat /\ op.held \in Nat
  BY <1>1 DEF CreditOperation
<1>3. charge \in Nat /\ release \in Nat
  <2>1. op.charged \in Nat /\ op.authorized \in Nat
    BY <1>1 DEF CreditOperation
  <2>2. op.charged <= total /\ charge <= op.held
    BY DEF Settle, Settles
  <2>3. total \in Nat
    BY <2>1
  <2> QED BY <2>1, <2>2, <2>3, <1>2
<1>4. /\ Covers(w, 0, -charge)
      /\ Covers(x, release, -release)
      /\ wallet' = [wallet EXCEPT ![u] = y]
  BY DEF Settle
<1>5. charge - op.held = -release /\ release + charge = op.held
  BY <1>2, <1>3
<1> HIDE DEF u, w, charge, release
<1>6. Sound(x) /\ Clear(x) /\ Moves(w, x, 0, -charge, charge)
  BY <1>1, <1>2, <1>3, <1>4, ChargedSound
<1> HIDE DEF x
<1>7. Sound(y) /\ Clear(y) /\ Moves(x, y, release, -release, 0)
  BY <1>2, <1>3, <1>4, <1>6, ReleasedSound
<1> HIDE DEF y
<1>8. Moves(w, y, release, -op.held, charge)
  <2>1. \A z \in {w, x, y} :
          /\ z.account.creditsBalance \in Nat
          /\ z.account.creditsReserved \in Nat
          /\ z.account.creditDebt \in Nat
          /\ z.account.totalCreditsUsed \in Nat
    BY <1>1, <1>6, <1>7, SoundType
  <2> QED BY <2>1, <1>2, <1>3, <1>5, <1>6, <1>7 DEF Moves, Net
<1>9. Transaction(u, release, -op.held, charge)
  BY <1>1, <1>4, <1>7, <1>8, ReplacedWallet DEF w
<1> QED BY <1>3, <1>9 DEF u, release, charge

LEMMA AdjustStep ==
  ASSUME IInv, NEW u \in Users, NEW k \in AdjustKeys, NEW amount \in Int,
         AdjustCredits(u, k, amount)
  PROVE  Transaction(u, amount, 0, 0)
<1> DEFINE w == Opened(u)
           key == <<"adjust", k>>
           type == IF amount < 0 THEN "adjustment" ELSE "grant"
           r == Adjusted(w, key, type, amount)
<1>1. Accountable(wallet[u])
  BY DEF IInv
<1>2. Sound(w) /\ Clear(w)
  BY <1>1, OpenedSound
<1>3. key \in BaseKeys
  BY DEF BaseKeys
<1>4. type \in RowTypes
  BY DEF RowTypes
<1>5. /\ w.account.creditsBalance >= -amount
      /\ wallet' = [wallet EXCEPT ![u] = r]
  BY DEF AdjustCredits
<1> HIDE DEF w, key, type
<1>6. Sound(r) /\ Clear(r) /\ Moves(w, r, amount, 0, 0)
  BY <1>2, <1>3, <1>4, <1>5, AdjustedSound
<1> HIDE DEF r
<1>7. Moves(wallet[u], r, amount, 0, 0)
  BY <1>6, ThroughOpening DEF w
<1> QED BY <1>5, <1>6, <1>7, ReplacedWallet

LEMMA PackStep ==
  ASSUME IInv, NEW u \in Users, NEW p \in Payments, NEW credits \in PackSizes,
         PackPayment(u, p, credits)
  PROVE  credits \in Nat /\ Transaction(u, credits, 0, 0)
<1> DEFINE w == Opened(u)
           key == <<"payment", p>>
           r == Adjusted(w, key, "grant", credits)
<1>1. Accountable(wallet[u])
  BY DEF IInv
<1>2. Sound(w) /\ Clear(w)
  BY <1>1, OpenedSound
<1>3. key \in BaseKeys
  BY DEF BaseKeys
<1>4. "grant" \in RowTypes
  BY DEF RowTypes
<1>5. credits \in Nat
  BY AmountsAssumption
<1>6. w.account.creditsBalance >= -credits
  <2>1. w.account.creditsBalance \in Nat
    BY <1>2, SoundType
  <2> HIDE DEF w
  <2> QED BY <2>1, <1>5
<1>7. wallet' = [wallet EXCEPT ![u] = r]
  BY DEF PackPayment
<1> HIDE DEF w, key
<1>8. Sound(r) /\ Clear(r) /\ Moves(w, r, credits, 0, 0)
  BY <1>2, <1>3, <1>4, <1>5, <1>6, AdjustedSound
<1> HIDE DEF r
<1>9. Moves(wallet[u], r, credits, 0, 0)
  BY <1>5, <1>8, ThroughOpening DEF w
<1> QED BY <1>5, <1>7, <1>8, <1>9, ReplacedWallet

LEMMA TopUpType ==
  ASSUME IInv, NEW u \in Users, NEW c \in Cycles,
         NEW allocation \in Allocations
  PROVE  /\ TopUp(u, c, allocation) \in Nat
         /\ allocation \in Nat
         /\ cycleGranted[u][c] \in Nat
<1>1. allocation \in Nat
  BY AmountsAssumption
<1>2. cycleGranted[u][c] \in Nat
  BY DEF IInv, TypeOK
<1> QED BY <1>1, <1>2 DEF TopUp, Larger

LEMMA GrantStep ==
  ASSUME IInv, NEW u \in Users, NEW p \in Payments,
         NEW allocation \in Allocations, NEW c \in Cycles,
         GrantSubscriptionCycle(u, p, allocation, c)
  PROVE  Transaction(u, TopUp(u, c, allocation), 0, 0)
<1> DEFINE w == Opened(u)
           key == <<"payment", p>>
           amount == TopUp(u, c, allocation)
           b == [w.account EXCEPT !.creditsBalance = @ + amount]
           r == RecoverDebt(
                  Post(w, b, Row(b, key, "grant", amount, amount, 0, 0)), key)
<1>1. Accountable(wallet[u])
  BY DEF IInv
<1>2. Sound(w) /\ Clear(w)
  BY <1>1, OpenedSound
<1>3. key \in BaseKeys
  BY DEF BaseKeys
<1>4. "grant" \in RowTypes
  BY DEF RowTypes
<1>5. amount \in Nat
  BY TopUpType
<1>6. wallet' = [wallet EXCEPT ![u] = r]
  BY DEF GrantSubscriptionCycle
<1> HIDE DEF w, key, amount
<1>7. Sound(r) /\ Clear(r) /\ Moves(w, r, amount, 0, 0)
  BY <1>2, <1>3, <1>4, <1>5, CreditSound
<1> HIDE DEF b, r
<1>8. Moves(wallet[u], r, amount, 0, 0)
  BY <1>5, <1>7, ThroughOpening DEF w
<1> QED BY <1>5, <1>6, <1>7, <1>8, ReplacedWallet DEF amount

LEMMA AdoptStep ==
  ASSUME IInv, NEW u \in Users, NEW p \in Payments,
         NEW allocation \in Allocations, NEW c \in Cycles \cup {None},
         AdoptLegacyPayment(u, p, allocation, c)
  PROVE  Transaction(u, 0, 0, 0)
<1> DEFINE w == Opened(u)
           row == Row(w.account, <<"payment", p>>, "grant", 0, 0, 0, 0)
           r == Post(w, w.account, row)
<1>1. Accountable(wallet[u])
  BY DEF IInv
<1>2. Sound(w) /\ Clear(w)
  BY <1>1, OpenedSound
<1>3. <<"payment", p>> \in Keys
  BY DEF BaseKeys, Keys
<1>4. "grant" \in RowTypes
  BY DEF RowTypes
<1>5. wallet' = [wallet EXCEPT ![u] = r]
  BY DEF AdoptLegacyPayment
<1> HIDE DEF w
<1>6. /\ w.account \in Account /\ w.account.creditLedgerInitialized
      /\ w.account.creditsBalance \in Nat /\ w.account.creditDebt \in Nat
      /\ w.account.creditsReserved \in Nat
      /\ w.account.totalCreditsUsed \in Nat
  BY <1>2, SoundType
<1>7. /\ row \in CreditEntry
      /\ row.availableAfter = w.account.creditsBalance
      /\ row.reservedAfter = w.account.creditsReserved
      /\ row.availableDelta = 0
      /\ row.reservedDelta = 0
  BY <1>3, <1>4, <1>6, RowType
<1> HIDE DEF row
<1>8. Sound(r) /\ r.account = w.account
  <2>1. /\ row.availableDelta =
             w.account.creditsBalance - w.account.creditsBalance
        /\ row.reservedDelta =
             w.account.creditsReserved - w.account.creditsReserved
    BY <1>6, <1>7
  <2>2. Sound(r)
    BY <2>1, <1>2, <1>6, <1>7, PostSound
  <2> QED BY <2>2 DEF Post
<1> HIDE DEF r
<1>9. Clear(r) /\ Moves(w, r, 0, 0, 0)
  BY <1>2, <1>6, <1>8 DEF Clear, Moves, Net
<1>10. Moves(wallet[u], r, 0, 0, 0)
  BY <1>8, <1>9, ThroughOpening DEF w
<1> QED BY <1>5, <1>8, <1>9, <1>10, ReplacedWallet

\* What a reversal takes back of a payment.
Taken(p, share) == Smaller(StillGranted(p), share)

LEMMA TakenType ==
  ASSUME IInv, NEW p \in Payments,
         NEW share \in ReversalShares(payment[p].granted)
  PROVE  Taken(p, share) \in Nat /\ reversed[p] \in Int
<1>1. payment[p].granted \in Nat /\ reversed[p] \in Int
  BY DEF IInv, TypeOK, Payment
<1>2. share \in Nat
  BY <1>1 DEF ReversalShares
<1>3. StillGranted(p) \in Nat
  BY <1>1 DEF StillGranted, Larger
<1> QED BY <1>1, <1>2, <1>3 DEF Taken, Smaller

LEMMA ReverseStep ==
  ASSUME IInv, NEW p \in Payments, NEW a \in Adjustments,
         NEW share \in ReversalShares(payment[p].granted),
         ReversePayment(p, a, share)
  PROVE  Transaction(payment[p].userId, -Taken(p, share), 0, 0)
<1> DEFINE u == payment[p].userId
           w == wallet[u]
           key == <<"paddle-adjustment", a>>
           amount == Taken(p, share)
           debit == Debit(w.account, amount)
           b == TakenBack(w.account, amount)
           r == Post(w, b, Row(b, key, "adjustment", debit, -debit, 0,
                               amount - debit))
<1>1. u \in Users /\ Sound(w) /\ Clear(w)
  BY PaymentOwner DEF ReversePayment
<1>2. amount \in Nat
  BY TakenType
<1>3. key \in BaseKeys
  BY DEF BaseKeys
<1>4. wallet' = [wallet EXCEPT ![u] = r]
  BY DEF ReversePayment, Taken
<1> HIDE DEF w, key, amount, u
<1>5. Sound(r) /\ Clear(r) /\ Moves(w, r, -amount, 0, 0)
  BY <1>1, <1>2, <1>3, TakenBackSound
<1> HIDE DEF r
<1> QED BY <1>1, <1>4, <1>5, ReplacedWallet DEF w, u, amount

LEMMA RestoreStep ==
  ASSUME IInv, NEW a \in Adjustments, RestorePaymentAdjustment(a)
  PROVE  LET amount == adjustment[a].reversedCredits
         IN amount \in Nat
            /\ Transaction(payment[adjustment[a].payment].userId, amount, 0, 0)
<1> DEFINE p == adjustment[a].payment
           u == payment[p].userId
           w == wallet[u]
           key == <<"paddle-restoration", a>>
           amount == adjustment[a].reversedCredits
           r == Adjusted(w, key, "refund", amount)
<1>1. p \in Payments /\ amount \in Nat
  <2>1. adjustment[a] \in Adjustment
    BY DEF IInv, TypeOK
  <2> QED BY <2>1 DEF Adjustment, RestorePaymentAdjustment
<1>2. u # None
  BY DEF IInv, OwnersKnown, AdjustmentsOwned, RestorePaymentAdjustment
<1>3. u \in Users /\ Sound(w) /\ Clear(w)
  BY <1>1, <1>2, PaymentOwner
<1>4. key \in BaseKeys
  BY DEF BaseKeys
<1>5. "refund" \in RowTypes
  BY DEF RowTypes
<1>6. w.account.creditsBalance >= -amount
  <2>1. w.account.creditsBalance \in Nat
    BY <1>3, SoundType
  <2> HIDE DEF w, amount
  <2> QED BY <2>1, <1>1
<1>7. wallet' = [wallet EXCEPT ![u] = r]
  BY DEF RestorePaymentAdjustment
<1> HIDE DEF w, key, u, amount
<1>8. Sound(r) /\ Clear(r) /\ Moves(w, r, amount, 0, 0)
  BY <1>1, <1>3, <1>4, <1>5, <1>6, AdjustedSound
<1> HIDE DEF r
<1> QED BY <1>1, <1>3, <1>7, <1>8, ReplacedWallet DEF w, u, amount

LEMMA RefundStep ==
  ASSUME IInv, NEW o \in Operations, NEW g \in 0..MaxGeneration,
         NEW k \in RefundKeys, NEW amount \in RefundAmounts,
         Refund(o, g, k, amount)
  PROVE  amount \in Nat /\ Transaction(operation[o].userId, amount, 0, 0)
<1> DEFINE u == operation[o].userId
           w == wallet[u]
           key == <<"refund", k>>
           b == [w.account EXCEPT !.creditsBalance = @ + amount]
           r == RecoverDebt(
                  Post(w, b, Row(b, key, "refund", amount, amount, 0, 0)), key)
<1>1. u \in Users /\ Sound(w) /\ Clear(w)
  <2>1. operation[o].status # "none"
    BY DEF Refund, IInv, OwnersKnown, OperationsOwned
  <2> QED BY <2>1, OperationOwner
<1>2. amount \in Nat
  BY AmountsAssumption
<1>3. key \in BaseKeys
  BY DEF BaseKeys
<1>4. "refund" \in RowTypes
  BY DEF RowTypes
<1>5. wallet' = [wallet EXCEPT ![u] = r]
  BY DEF Refund
<1> HIDE DEF w, key, u
<1>6. Sound(r) /\ Clear(r) /\ Moves(w, r, amount, 0, 0)
  BY <1>1, <1>2, <1>3, <1>4, CreditSound
<1> HIDE DEF b, r
<1> QED BY <1>1, <1>2, <1>5, <1>6, ReplacedWallet DEF w, u

-----------------------------------------------------------------------------
(* The invariant is inductive *)

\* Accounts stay open.
StayOpen ==
  \A v \in Users : wallet[v].account.creditLedgerInitialized =>
                     wallet'[v].account.creditLedgerInitialized

LEMMA TransactionKeeps ==
  ASSUME IInv, NEW u, NEW n, NEW h, NEW s, Transaction(u, n, h, s)
  PROVE  /\ wallet' \in [Users -> Wallet]
         /\ \A v \in Users : Accountable(wallet'[v])
         /\ StayOpen
         /\ wallet'[u].account.creditLedgerInitialized
<1>1. /\ u \in Users
      /\ wallet' = [wallet EXCEPT ![u] = wallet'[u]]
      /\ Sound(wallet'[u]) /\ Clear(wallet'[u])
  BY DEF Transaction
<1>2. wallet'[u] \in Wallet /\ Accountable(wallet'[u])
  BY <1>1 DEF Sound, Accountable
<1>3. \A v \in Users : v # u => wallet'[v] = wallet[v]
  BY <1>1, WalletFunction
<1>4. \A v \in Users : Accountable(wallet[v])
  BY DEF IInv
<1>5. wallet'[u].account.creditLedgerInitialized
  BY <1>1 DEF Sound
<1>6. wallet' \in [Users -> Wallet]
  BY <1>1, <1>2, WalletFunction
<1>7. \A v \in Users : Accountable(wallet'[v])
  BY <1>2, <1>3, <1>4
<1>8. StayOpen
  BY <1>3, <1>5 DEF StayOpen
<1> QED BY <1>5, <1>6, <1>7, <1>8

\* Owners stay known when no document changes.
LEMMA OperationsStayOwned ==
  ASSUME IInv, StayOpen, operation' = operation
  PROVE  OperationsOwned'
<1> SUFFICES ASSUME NEW o \in Operations
             PROVE  /\ operation[o].status = "none"
                         <=> operation[o].userId = None
                    /\ operation[o].userId # None =>
                         wallet'[operation[o].userId]
                           .account.creditLedgerInitialized
  BY DEF OperationsOwned
<1>1. operation[o].status = "none" <=> operation[o].userId = None
  BY DEF IInv, OwnersKnown, OperationsOwned
<1>2. ASSUME operation[o].userId # None
      PROVE  wallet'[operation[o].userId].account.creditLedgerInitialized
  <2>1. operation[o].userId \in Users
    BY <1>2, <1>1, OperationOwner
  <2>2. wallet[operation[o].userId].account.creditLedgerInitialized
    BY <1>2 DEF IInv, OwnersKnown, OperationsOwned
  <2> QED BY <2>1, <2>2 DEF StayOpen
<1> QED BY <1>1, <1>2

\* A new or updated operation document of an opened account keeps them known.
LEMMA OperationWritten ==
  ASSUME IInv, StayOpen, NEW o \in Operations, NEW op \in CreditOperation,
         operation' = [operation EXCEPT ![o] = op],
         op.userId \in Users, op.status # "none",
         wallet'[op.userId].account.creditLedgerInitialized,
         op.charged <= op.authorized,
         op.held = IF op.status = "reserved" THEN op.authorized - op.charged
                   ELSE 0
  PROVE  /\ operation' \in [Operations -> CreditOperation]
         /\ OperationsOwned'
         /\ HoldIsRemainder'
<1>1. operation \in [Operations -> CreditOperation]
  BY DEF IInv, TypeOK
<1>2. /\ operation' \in [Operations -> CreditOperation]
      /\ operation'[o] = op
      /\ \A q \in Operations : q # o => operation'[q] = operation[q]
  BY <1>1
<1>3. OperationsOwned'
  <2> SUFFICES ASSUME NEW q \in Operations
               PROVE  /\ operation'[q].status = "none"
                           <=> operation'[q].userId = None
                      /\ operation'[q].userId # None =>
                           wallet'[operation'[q].userId]
                             .account.creditLedgerInitialized
    BY DEF OperationsOwned
  <2>1. CASE q = o
    BY <2>1, <1>2, UsersAssumption
  <2>2. CASE q # o
    <3>1. operation[q].status = "none" <=> operation[q].userId = None
      BY DEF IInv, OwnersKnown, OperationsOwned
    <3>2. ASSUME operation[q].userId # None
          PROVE  wallet'[operation[q].userId].account.creditLedgerInitialized
      <4>1. operation[q].userId \in Users
        BY <3>1, <3>2, OperationOwner
      <4>2. wallet[operation[q].userId].account.creditLedgerInitialized
        BY <3>2 DEF IInv, OwnersKnown, OperationsOwned
      <4> QED BY <4>1, <4>2 DEF StayOpen
    <3> QED BY <2>2, <1>2, <3>1, <3>2
  <2> QED BY <2>1, <2>2
<1>4. HoldIsRemainder'
  <2>1. \A q \in Operations :
          /\ operation[q].charged <= operation[q].authorized
          /\ operation[q].held =
               IF operation[q].status = "reserved"
               THEN operation[q].authorized - operation[q].charged ELSE 0
    BY DEF IInv, HoldIsRemainder
  <2> QED BY <2>1, <1>2 DEF HoldIsRemainder
<1> QED BY <1>2, <1>3, <1>4

LEMMA PaymentsStayOwned ==
  ASSUME IInv, StayOpen, payment' = payment
  PROVE  PaymentsOwned'
<1> SUFFICES ASSUME NEW p \in Payments, payment[p].userId # None
             PROVE  wallet'[payment[p].userId].account.creditLedgerInitialized
  BY DEF PaymentsOwned
<1>1. payment[p].userId \in Users
  BY PaymentOwner
<1>2. wallet[payment[p].userId].account.creditLedgerInitialized
  BY DEF IInv, OwnersKnown, PaymentsOwned
<1> QED BY <1>1, <1>2 DEF StayOpen

\* A payment recorded for an opened account keeps owners known.
LEMMA PaymentWritten ==
  ASSUME IInv, StayOpen, NEW p \in Payments, NEW row \in Payment,
         payment' = [payment EXCEPT ![p] = row], adjustment' = adjustment,
         row.userId \in Users,
         wallet'[row.userId].account.creditLedgerInitialized
  PROVE  /\ payment' \in [Payments -> Payment]
         /\ PaymentsOwned'
         /\ AdjustmentsOwned'
<1>1. payment \in [Payments -> Payment]
  BY DEF IInv, TypeOK
<1>2. /\ payment' \in [Payments -> Payment]
      /\ payment'[p] = row
      /\ \A q \in Payments : q # p => payment'[q] = payment[q]
  BY <1>1
<1>3. PaymentsOwned'
  <2> SUFFICES ASSUME NEW q \in Payments, payment'[q].userId # None
               PROVE  wallet'[payment'[q].userId]
                        .account.creditLedgerInitialized
    BY DEF PaymentsOwned
  <2>1. CASE q = p
    BY <2>1, <1>2
  <2>2. CASE q # p
    <3>1. payment'[q] = payment[q]
      BY <2>2, <1>2
    <3>2. payment[q].userId \in Users
      BY <3>1, PaymentOwner
    <3>3. wallet[payment[q].userId].account.creditLedgerInitialized
      BY <3>1 DEF IInv, OwnersKnown, PaymentsOwned
    <3> QED BY <3>1, <3>2, <3>3 DEF StayOpen
  <2> QED BY <2>1, <2>2
<1>4. AdjustmentsOwned'
  <2> SUFFICES ASSUME NEW a \in Adjustments, adjustment[a].payment # None
               PROVE  payment'[adjustment[a].payment].userId # None
    BY DEF AdjustmentsOwned
  <2>1. adjustment[a].payment \in Payments
    BY DEF IInv, TypeOK, Adjustment
  <2>2. payment[adjustment[a].payment].userId # None
    BY DEF IInv, OwnersKnown, AdjustmentsOwned
  <2>3. row.userId # None
    BY UsersAssumption
  <2> QED BY <2>1, <2>2, <2>3, <1>2
<1> QED BY <1>2, <1>3, <1>4

\* A transaction that writes no document keeps the invariant, whatever it
\* does to the aggregates, which must only stay numbers.
LEMMA WalletOnlyKeeps ==
  ASSUME IInv, NEW u, NEW n, NEW h, NEW s, Transaction(u, n, h, s),
         UNCHANGED <<operation, payment, adjustment, cycleGranted>>,
         reversed' \in [Payments -> Int],
         refunded' \in [Operations -> [0..MaxGeneration -> Nat]]
  PROVE  IInv'
<1>1. /\ wallet' \in [Users -> Wallet]
      /\ \A v \in Users : Accountable(wallet'[v])
      /\ StayOpen
  BY TransactionKeeps
<1>2. TypeOK'
  BY <1>1 DEF IInv, TypeOK
<1>3. HoldIsRemainder'
  BY DEF IInv, HoldIsRemainder
<1>4. OperationsOwned' /\ PaymentsOwned'
  BY <1>1, OperationsStayOwned, PaymentsStayOwned
<1>5. AdjustmentsOwned'
  BY DEF IInv, OwnersKnown, AdjustmentsOwned
<1> QED BY <1>1, <1>2, <1>3, <1>4, <1>5 DEF IInv, OwnersKnown

\* A transaction that writes one operation keeps the invariant.
LEMMA OperationStepKeeps ==
  ASSUME IInv, NEW u, NEW n, NEW h, NEW s, Transaction(u, n, h, s),
         NEW o \in Operations, NEW op \in CreditOperation,
         operation' = [operation EXCEPT ![o] = op],
         op.userId = u, op.status # "none", op.charged <= op.authorized,
         op.held = IF op.status = "reserved" THEN op.authorized - op.charged
                   ELSE 0,
         UNCHANGED <<payment, adjustment, cycleGranted, reversed, refunded>>
  PROVE  IInv'
<1>1. /\ wallet' \in [Users -> Wallet]
      /\ \A v \in Users : Accountable(wallet'[v])
      /\ StayOpen
      /\ wallet'[u].account.creditLedgerInitialized
      /\ u \in Users
  BY TransactionKeeps DEF Transaction
<1>2. /\ operation' \in [Operations -> CreditOperation]
      /\ OperationsOwned'
      /\ HoldIsRemainder'
  BY <1>1, OperationWritten
<1>3. TypeOK'
  BY <1>1, <1>2 DEF IInv, TypeOK
<1>4. PaymentsOwned'
  BY <1>1, PaymentsStayOwned
<1>5. AdjustmentsOwned'
  BY DEF IInv, OwnersKnown, AdjustmentsOwned
<1> QED BY <1>1, <1>2, <1>3, <1>4, <1>5 DEF IInv, OwnersKnown

\* A transaction that records one payment keeps the invariant.
LEMMA PaymentStepKeeps ==
  ASSUME IInv, NEW u, NEW n, NEW h, NEW s, Transaction(u, n, h, s),
         NEW p \in Payments, NEW row \in Payment,
         payment' = [payment EXCEPT ![p] = row], row.userId = u,
         cycleGranted' \in [Users -> [Cycles -> Nat]],
         UNCHANGED <<operation, adjustment, reversed, refunded>>
  PROVE  IInv'
<1>1. /\ wallet' \in [Users -> Wallet]
      /\ \A v \in Users : Accountable(wallet'[v])
      /\ StayOpen
      /\ wallet'[u].account.creditLedgerInitialized
      /\ u \in Users
  BY TransactionKeeps DEF Transaction
<1>2. /\ payment' \in [Payments -> Payment]
      /\ PaymentsOwned'
      /\ AdjustmentsOwned'
  BY <1>1, PaymentWritten
<1>3. TypeOK'
  BY <1>1, <1>2 DEF IInv, TypeOK
<1>4. HoldIsRemainder'
  BY DEF IInv, HoldIsRemainder
<1>5. OperationsOwned'
  BY <1>1, OperationsStayOwned
<1> QED BY <1>1, <1>2, <1>3, <1>4, <1>5 DEF IInv, OwnersKnown

LEMMA SetActiveStep ==
  ASSUME IInv, NEW u \in Users, SetActive(u)
  PROVE  /\ IInv'
         /\ \A v \in Users :
              /\ Moves(wallet[v], wallet'[v], 0, 0, 0)
              /\ wallet'[v].entries = wallet[v].entries
<1> DEFINE w == wallet[u]
           r == [w EXCEPT !.account.isActive = ~@]
<1>1. wallet' = [wallet EXCEPT ![u] = r]
  BY DEF SetActive
<1>2. w \in Wallet /\ w.account \in Account
  BY WalletFunction DEF Wallet
<1>3. /\ r \in Wallet
      /\ r.entries = w.entries
      /\ r.account.creditsBalance = w.account.creditsBalance
      /\ r.account.creditsReserved = w.account.creditsReserved
      /\ r.account.creditDebt = w.account.creditDebt
      /\ r.account.totalCreditsUsed = w.account.totalCreditsUsed
      /\ r.account.creditLedgerInitialized = w.account.creditLedgerInitialized
  <2> DEFINE x == w.account
             b == [x EXCEPT !.isActive = ~@]
  <2>1. /\ b \in Account
        /\ b.creditsBalance = x.creditsBalance
        /\ b.creditsReserved = x.creditsReserved
        /\ b.creditDebt = x.creditDebt
        /\ b.totalCreditsUsed = x.totalCreditsUsed
        /\ b.creditLedgerInitialized = x.creditLedgerInitialized
    <3>1. x \in Account
      BY <1>2
    <3> HIDE DEF x
    <3> QED BY <3>1 DEF Account
  <2>2. r.entries = w.entries /\ r.account = b /\ r \in Wallet
    <3> HIDE DEF w
    <3>1. w = [account |-> w.account, entries |-> w.entries]
          /\ w.entries \in Seq(CreditEntry)
      BY <1>2 DEF Wallet
    <3>2. r = [account |-> b, entries |-> w.entries]
      BY <3>1
    <3> HIDE DEF b, r
    <3> QED BY <3>1, <3>2, <2>1 DEF Wallet
  <2> HIDE DEF b, r, w
  <2> QED BY <2>1, <2>2
<1>4. Accountable(w)
  BY DEF IInv
<1> HIDE DEF r
<1>5. Accountable(r)
  BY <1>3, <1>4 DEF Accountable, Clear, Balanced
<1>6. \A v \in Users : wallet'[v] = IF v = u THEN r ELSE wallet[v]
  BY <1>1, WalletFunction
<1>7. /\ wallet' \in [Users -> Wallet]
      /\ \A v \in Users : Accountable(wallet'[v])
      /\ StayOpen
  <2>1. wallet' \in [Users -> Wallet]
    BY <1>1, <1>3, WalletFunction
  <2>2. \A v \in Users : Accountable(wallet[v])
    BY DEF IInv
  <2>3. \A v \in Users : Accountable(wallet'[v])
    BY <2>2, <1>5, <1>6
  <2>4. StayOpen
    BY <1>3, <1>6 DEF StayOpen
  <2> QED BY <2>1, <2>3, <2>4
<1>8. IInv'
  <2>1. UNCHANGED <<operation, payment, adjustment, cycleGranted, reversed,
                    refunded>>
    BY DEF SetActive
  <2>2. TypeOK'
    BY <1>7, <2>1 DEF IInv, TypeOK
  <2>3. HoldIsRemainder'
    BY <2>1 DEF IInv, HoldIsRemainder
  <2>4. OperationsOwned' /\ PaymentsOwned'
    BY <1>7, <2>1, OperationsStayOwned, PaymentsStayOwned
  <2>5. AdjustmentsOwned'
    BY <2>1 DEF IInv, OwnersKnown, AdjustmentsOwned
  <2> QED BY <1>7, <2>2, <2>3, <2>4, <2>5 DEF IInv, OwnersKnown
<1>9. ASSUME NEW v \in Users
      PROVE  /\ Moves(wallet[v], wallet'[v], 0, 0, 0)
             /\ wallet'[v].entries = wallet[v].entries
  <2>1. /\ wallet[v].account.creditsBalance \in Nat
        /\ wallet[v].account.creditsReserved \in Nat
        /\ wallet[v].account.creditDebt \in Nat
        /\ wallet[v].account.totalCreditsUsed \in Nat
    BY WalletFunction DEF Wallet, Account
  <2> QED BY <2>1, <1>3, <1>6 DEF Moves, Net
<1> QED BY <1>8, <1>9

LEMMA InitIInv == Init => IInv
<1> SUFFICES ASSUME Init PROVE IInv
  OBVIOUS
<1>1. PICK balance \in [Users -> OpeningBalances] :
        wallet = [u \in Users |->
          [account |-> [creditsBalance |-> balance[u], creditsReserved |-> 0,
                        creditDebt |-> 0, totalCreditsUsed |-> 0,
                        creditLedgerInitialized |-> FALSE, isActive |-> TRUE],
           entries |-> <<>>]]
  BY DEF Init
<1>2. ASSUME NEW u \in Users
      PROVE  wallet[u] \in Wallet /\ Accountable(wallet[u])
  <2>1. balance[u] \in Nat
    BY AmountsAssumption
  <2>2. <<>> \in Seq(CreditEntry)
    OBVIOUS
  <2>3. wallet[u] \in Wallet
    BY <1>1, <2>1, <2>2 DEF Wallet, Account
  <2> QED BY <1>1, <2>3 DEF Accountable, Clear
<1>3. wallet \in [Users -> Wallet]
  BY <1>1, <1>2
<1>4. TypeOK
  <2>1. operation \in [Operations -> CreditOperation]
    BY DEF Init, CreditOperation
  <2>2. payment \in [Payments -> Payment]
    BY DEF Init, Payment
  <2>3. adjustment \in [Adjustments -> Adjustment]
    BY DEF Init, Adjustment
  <2>4. /\ cycleGranted \in [Users -> [Cycles -> Nat]]
        /\ reversed \in [Payments -> Int]
        /\ refunded \in [Operations -> [0..MaxGeneration -> Nat]]
    BY DEF Init
  <2> QED BY <1>3, <2>1, <2>2, <2>3, <2>4 DEF TypeOK
<1>5. HoldIsRemainder
  BY DEF Init, HoldIsRemainder
<1>6. OwnersKnown
  BY DEF Init, OwnersKnown, OperationsOwned, PaymentsOwned, AdjustmentsOwned
<1> QED BY <1>2, <1>4, <1>5, <1>6 DEF IInv

LEMMA NextIInv == IInv /\ [Next]_vars => IInv'
<1> SUFFICES ASSUME IInv, [Next]_vars PROVE IInv'
  OBVIOUS
<1> USE DEF Next
<1>1. CASE UNCHANGED vars
  BY <1>1 DEF vars, IInv, TypeOK, HoldIsRemainder, OwnersKnown,
              OperationsOwned, PaymentsOwned, AdjustmentsOwned
<1>2. ASSUME NEW u \in Users, Opening(u)
      PROVE  IInv'
  <2>1. Transaction(u, 0, 0, 0)
    BY <1>2, OpeningStep
  <2>2. /\ UNCHANGED <<operation, payment, adjustment, cycleGranted>>
        /\ reversed' = reversed /\ refunded' = refunded
    BY <1>2 DEF Opening
  <2> QED BY <2>1, <2>2, WalletOnlyKeeps DEF IInv, TypeOK
<1>3. ASSUME NEW u \in Users, SetActive(u)
      PROVE  IInv'
  BY <1>3, SetActiveStep
<1>4. ASSUME NEW u \in Users, NEW o \in Operations, NEW amount \in Budgets,
             Reserve(u, o, amount)
      PROVE  IInv'
  <2> DEFINE op == [userId |-> u, status |-> "reserved",
                    authorized |-> amount, held |-> amount, charged |-> 0,
                    generation |-> 0]
  <2>1. amount \in Nat /\ Transaction(u, -amount, amount, 0)
    BY <1>4, ReserveStep
  <2>2. op \in CreditOperation
    BY <2>1 DEF CreditOperation
  <2>3. /\ operation' = [operation EXCEPT ![o] = op]
        /\ UNCHANGED <<payment, adjustment, cycleGranted, reversed, refunded>>
    BY <1>4 DEF Reserve
  <2>4. /\ op.userId = u /\ op.status = "reserved"
        /\ op.charged = 0 /\ op.authorized = amount /\ op.held = amount
    OBVIOUS
  <2> HIDE DEF op
  <2>5. op.charged <= op.authorized /\ op.held = op.authorized - op.charged
    BY <2>1, <2>4
  <2> QED BY <2>1, <2>2, <2>3, <2>4, <2>5, OperationStepKeeps
<1>5. ASSUME NEW o \in Operations, Reopen(o)
      PROVE  IInv'
  <2> DEFINE old == operation[o]
             amount == Remainder(old)
             op == [old EXCEPT !.status = "reserved", !.held = amount,
                               !.generation = old.generation + 1]
  <2>1. amount \in Nat /\ Transaction(old.userId, -amount, amount, 0)
    BY <1>5, ReopenStep
  <2>2. old \in CreditOperation /\ old.charged <= old.authorized
    BY DEF IInv, TypeOK, HoldIsRemainder
  <2>3. /\ op \in CreditOperation
        /\ op.userId = old.userId /\ op.status = "reserved"
        /\ op.charged = old.charged /\ op.authorized = old.authorized
        /\ op.held = amount
    <3> HIDE DEF old, amount
    <3>1. old.generation + 1 \in Nat
      BY <2>2 DEF CreditOperation
    <3> QED BY <2>1, <2>2, <3>1 DEF CreditOperation
  <2>4. /\ operation' = [operation EXCEPT ![o] = op]
        /\ UNCHANGED <<payment, adjustment, cycleGranted, reversed, refunded>>
    BY <1>5 DEF Reopen
  <2>5. amount = old.authorized - old.charged
    BY DEF Remainder
  <2> HIDE DEF op, amount, old
  <2> QED BY <2>1, <2>2, <2>3, <2>4, <2>5, OperationStepKeeps
<1>6. ASSUME NEW o \in Operations, NEW total \in 0..operation[o].authorized,
             Settle(o, total)
      PROVE  IInv'
  <2> DEFINE old == operation[o]
             op == [old EXCEPT !.status = "settled", !.held = 0,
                               !.charged = total]
  <2>1. Transaction(old.userId, old.held - (total - old.charged), -old.held,
                    total - old.charged)
    BY <1>6, SettleStep
  <2>2. old \in CreditOperation
    BY DEF IInv, TypeOK
  <2>3. total \in Nat /\ total <= old.authorized
    <3>1. old.authorized \in Nat
      BY <2>2 DEF CreditOperation
    <3> QED BY <3>1
  <2>4. /\ op \in CreditOperation
        /\ op.userId = old.userId /\ op.status = "settled"
        /\ op.charged = total /\ op.authorized = old.authorized
        /\ op.held = 0
    <3> HIDE DEF old
    <3> QED BY <2>2, <2>3 DEF CreditOperation
  <2>5. /\ operation' = [operation EXCEPT ![o] = op]
        /\ UNCHANGED <<payment, adjustment, cycleGranted, reversed, refunded>>
    BY <1>6 DEF Settle
  <2> HIDE DEF op, old
  <2> QED BY <2>1, <2>2, <2>3, <2>4, <2>5, OperationStepKeeps
<1>7. ASSUME NEW u \in Users, NEW k \in AdjustKeys, NEW amount \in Int,
             AdjustCredits(u, k, amount)
      PROVE  IInv'
  <2>1. Transaction(u, amount, 0, 0)
    BY <1>7, AdjustStep
  <2>2. /\ UNCHANGED <<operation, payment, adjustment, cycleGranted>>
        /\ reversed' = reversed /\ refunded' = refunded
    BY <1>7 DEF AdjustCredits
  <2> QED BY <2>1, <2>2, WalletOnlyKeeps DEF IInv, TypeOK
<1>8. ASSUME NEW u \in Users, NEW p \in Payments, NEW credits \in PackSizes,
             PackPayment(u, p, credits)
      PROVE  IInv'
  <2> DEFINE row == [userId |-> u, cycle |-> None, allocation |-> 0,
                     granted |-> credits]
  <2>1. credits \in Nat /\ Transaction(u, credits, 0, 0)
    BY <1>8, PackStep
  <2>2. row \in Payment /\ row.userId = u
    BY <2>1 DEF Payment
  <2>3. /\ payment' = [payment EXCEPT ![p] = row]
        /\ UNCHANGED <<operation, adjustment, reversed, refunded>>
        /\ cycleGranted' = cycleGranted
    BY <1>8 DEF PackPayment
  <2>4. cycleGranted \in [Users -> [Cycles -> Nat]]
    BY DEF IInv, TypeOK
  <2> HIDE DEF row
  <2> QED BY <2>1, <2>2, <2>3, <2>4, PaymentStepKeeps
<1>9. ASSUME NEW u \in Users, NEW p \in Payments,
             NEW allocation \in Allocations, NEW c \in Cycles,
             GrantSubscriptionCycle(u, p, allocation, c)
      PROVE  IInv'
  <2> DEFINE amount == TopUp(u, c, allocation)
             row == [userId |-> u, cycle |-> c, allocation |-> allocation,
                     granted |-> amount]
  <2>1. Transaction(u, amount, 0, 0)
    BY <1>9, GrantStep
  <2>2. /\ amount \in Nat /\ allocation \in Nat
        /\ cycleGranted[u][c] \in Nat
    BY TopUpType
  <2>3. row \in Payment /\ row.userId = u
    <3> HIDE DEF amount
    <3> QED BY <2>2 DEF Payment
  <2>4. /\ payment' = [payment EXCEPT ![p] = row]
        /\ UNCHANGED <<operation, adjustment, reversed, refunded>>
        /\ cycleGranted' = [cycleGranted EXCEPT ![u][c] = @ + amount]
    BY <1>9 DEF GrantSubscriptionCycle
  <2> HIDE DEF amount, row
  <2>5. cycleGranted' \in [Users -> [Cycles -> Nat]]
    <3>1. cycleGranted[u][c] + amount \in Nat
      BY <2>2
    <3>2. cycleGranted \in [Users -> [Cycles -> Nat]]
      BY DEF IInv, TypeOK
    <3> QED BY <2>4, <3>1, <3>2
  <2> QED BY <2>1, <2>3, <2>4, <2>5, PaymentStepKeeps
<1>10. ASSUME NEW u \in Users, NEW p \in Payments,
              NEW allocation \in Allocations, NEW c \in Cycles \cup {None},
              AdoptLegacyPayment(u, p, allocation, c)
       PROVE  IInv'
  <2> DEFINE row == [userId |-> u, cycle |-> c, allocation |-> allocation,
                     granted |-> allocation]
  <2>1. Transaction(u, 0, 0, 0)
    BY <1>10, AdoptStep
  <2>2. allocation \in Nat
    BY AmountsAssumption
  <2>3. row \in Payment /\ row.userId = u
    BY <2>2 DEF Payment
  <2>4. /\ payment' = [payment EXCEPT ![p] = row]
        /\ UNCHANGED <<operation, adjustment, reversed, refunded>>
        /\ cycleGranted' = IF c = None THEN cycleGranted
                           ELSE [cycleGranted EXCEPT ![u][c] = @ + allocation]
    BY <1>10 DEF AdoptLegacyPayment
  <2> HIDE DEF row
  <2>5. cycleGranted' \in [Users -> [Cycles -> Nat]]
    <3>1. cycleGranted \in [Users -> [Cycles -> Nat]]
      BY DEF IInv, TypeOK
    <3>2. CASE c = None
      BY <2>4, <3>1, <3>2
    <3>3. CASE c # None
      <4>1. c \in Cycles
        BY <3>3
      <4>2. cycleGranted[u][c] + allocation \in Nat
        BY <3>1, <4>1, <2>2
      <4> QED BY <2>4, <3>1, <3>3, <4>1, <4>2
    <3> QED BY <3>2, <3>3
  <2> QED BY <2>1, <2>3, <2>4, <2>5, PaymentStepKeeps
<1>11. ASSUME NEW p \in Payments, NEW a \in Adjustments,
              NEW share \in ReversalShares(payment[p].granted),
              ReversePayment(p, a, share)
       PROVE  IInv'
  <2> DEFINE amount == Taken(p, share)
             row == [payment |-> p, reversedCredits |-> amount]
  <2>1. Transaction(payment[p].userId, -amount, 0, 0)
    BY <1>11, ReverseStep
  <2>2. amount \in Nat /\ reversed[p] \in Int
    BY TakenType
  <2>3. row \in Adjustment /\ row.payment = p
    <3> HIDE DEF amount
    <3> QED BY <2>2 DEF Adjustment
  <2>4. /\ adjustment' = [adjustment EXCEPT ![a] = row]
        /\ reversed' = [reversed EXCEPT ![p] = @ + amount]
        /\ UNCHANGED <<operation, payment, cycleGranted, refunded>>
        /\ payment[p].userId # None
    BY <1>11 DEF ReversePayment, Taken
  <2> HIDE DEF amount, row
  <2>5. /\ wallet' \in [Users -> Wallet]
        /\ \A v \in Users : Accountable(wallet'[v])
        /\ StayOpen
    BY <2>1, TransactionKeeps
  <2>6. /\ adjustment \in [Adjustments -> Adjustment]
        /\ reversed \in [Payments -> Int]
    BY DEF IInv, TypeOK
  <2>7. TypeOK'
    <3>1. adjustment' \in [Adjustments -> Adjustment]
      BY <2>3, <2>4, <2>6
    <3>2. reversed[p] + amount \in Int
      BY <2>2
    <3>3. reversed' \in [Payments -> Int]
      BY <2>4, <2>6, <3>2
    <3> QED BY <2>4, <2>5, <3>1, <3>3 DEF IInv, TypeOK
  <2>8. HoldIsRemainder'
    BY <2>4 DEF IInv, HoldIsRemainder
  <2>9. OperationsOwned' /\ PaymentsOwned'
    BY <2>4, <2>5, OperationsStayOwned, PaymentsStayOwned
  <2>10. AdjustmentsOwned'
    BY <2>3, <2>4, <2>6 DEF IInv, OwnersKnown, AdjustmentsOwned
  <2> QED BY <2>5, <2>7, <2>8, <2>9, <2>10 DEF IInv, OwnersKnown
<1>12. ASSUME NEW a \in Adjustments, RestorePaymentAdjustment(a)
       PROVE  IInv'
  <2> DEFINE amount == adjustment[a].reversedCredits
             p == adjustment[a].payment
  <2>1. amount \in Nat /\ Transaction(payment[p].userId, amount, 0, 0)
    BY <1>12, RestoreStep
  <2>2. /\ reversed' = [reversed EXCEPT ![p] = @ - amount]
        /\ UNCHANGED <<operation, payment, adjustment, cycleGranted>>
        /\ refunded' = refunded /\ p # None
    BY <1>12 DEF RestorePaymentAdjustment
  <2>3. p \in Payments /\ reversed \in [Payments -> Int]
    BY <2>2 DEF IInv, TypeOK, Adjustment
  <2> HIDE DEF amount, p
  <2>4. reversed' \in [Payments -> Int]
    <3>1. reversed[p] - amount \in Int
      BY <2>1, <2>3
    <3> QED BY <2>2, <2>3, <3>1
  <2> QED BY <2>1, <2>2, <2>4, WalletOnlyKeeps DEF IInv, TypeOK
<1>13. ASSUME NEW o \in Operations, NEW g \in 0..MaxGeneration,
              NEW k \in RefundKeys, NEW amount \in RefundAmounts,
              Refund(o, g, k, amount)
       PROVE  IInv'
  <2>1. amount \in Nat /\ Transaction(operation[o].userId, amount, 0, 0)
    BY <1>13, RefundStep
  <2>2. /\ refunded' = [refunded EXCEPT ![o][g] = @ + amount]
        /\ UNCHANGED <<operation, payment, adjustment, cycleGranted>>
        /\ reversed' = reversed
    BY <1>13 DEF Refund
  <2>3. refunded \in [Operations -> [0..MaxGeneration -> Nat]]
    BY DEF IInv, TypeOK
  <2>4. refunded' \in [Operations -> [0..MaxGeneration -> Nat]]
    <3>1. refunded[o] \in [0..MaxGeneration -> Nat]
      BY <2>3
    <3>2. refunded[o][g] \in Nat
      BY <3>1
    <3>3. refunded[o][g] + amount \in Nat
      BY <2>1, <3>2
    <3>4. [refunded[o] EXCEPT ![g] = @ + amount] \in [0..MaxGeneration -> Nat]
      BY <3>1, <3>3
    <3> QED BY <2>2, <2>3, <3>4
  <2> QED BY <2>1, <2>2, <2>4, WalletOnlyKeeps DEF IInv, TypeOK
<1>14. \A size \in AdjustSizes : size \in Int /\ -size \in Int
  BY AmountsAssumption
<1> QED
  BY <1>1, <1>2, <1>3, <1>4, <1>5, <1>6, <1>7, <1>8, <1>9, <1>10, <1>11,
     <1>12, <1>13, <1>14

LEMMA Invariance == Spec => []IInv
<1> QED BY InitIInv, NextIInv, PTL DEF Spec

-----------------------------------------------------------------------------
(* Theorems *)

\* Whatever happens to the accounts, every document keeps its shape; above
\* all no balance, hold, debt or charge ever becomes negative.
THEOREM TypeCorrect == Spec => []TypeOK
<1>1. IInv => TypeOK
  BY DEF IInv
<1> QED BY <1>1, Invariance, PTL

\* The deltas of every statement add up to the wallet it explains.
THEOREM StatementsBalance == Spec => []StatementBalanced
<1>1. IInv => StatementBalanced
  <2> SUFFICES ASSUME IInv, NEW u \in Users PROVE Balanced(wallet[u])
    BY DEF StatementBalanced
  <2>1. Accountable(wallet[u])
    BY DEF IInv
  <2>2. CASE wallet[u].account.creditLedgerInitialized
    BY <2>1, <2>2 DEF Accountable
  <2>3. CASE ~wallet[u].account.creditLedgerInitialized
    <3>1. wallet[u].entries = <<>>
      BY <2>1, <2>3 DEF Accountable
    <3>2. DOMAIN wallet[u].entries = {}
      BY <3>1
    <3> QED BY <2>3, <3>2 DEF Balanced
  <2> QED BY <2>2, <2>3
<1> QED BY <1>1, Invariance, PTL

\* Credits are never owed and available at once.
THEOREM DebtComesFirst == Spec => []OwesOnlyWhenEmpty
<1>1. IInv => OwesOnlyWhenEmpty
  BY DEF IInv, Accountable, OwesOnlyWhenEmpty, Clear
<1> QED BY <1>1, Invariance, PTL

\* However often an operation is settled and reopened, it holds what is left
\* of its one budget.
THEOREM HoldsAreRemainders == Spec => []HoldIsRemainder
<1>1. IInv => HoldIsRemainder
  BY DEF IInv
<1> QED BY <1>1, Invariance, PTL

-----------------------------------------------------------------------------
(* What a step may never do *)

\* A transaction moves the three numbers of its own account only.
LEMMA TransactionMoves ==
  ASSUME IInv, NEW u, NEW n \in Int, NEW h \in Int, NEW s \in Int,
         Transaction(u, n, h, s)
  PROVE  /\ u \in Users
         /\ Net(wallet'[u]) = Net(wallet[u]) + n
         /\ wallet'[u].account.creditsReserved =
              wallet[u].account.creditsReserved + h
         /\ wallet'[u].account.totalCreditsUsed =
              wallet[u].account.totalCreditsUsed + s
         /\ \A v \in Users \ {u} : wallet'[v] = wallet[v]
BY WalletFunction DEF Transaction, Moves

LEMMA WalletNumbers ==
  ASSUME IInv, NEW u \in Users
  PROVE  /\ wallet[u].account.creditsBalance \in Nat
         /\ wallet[u].account.creditsReserved \in Nat
         /\ wallet[u].account.creditDebt \in Nat
         /\ wallet[u].account.totalCreditsUsed \in Nat
         /\ Net(wallet[u]) \in Int
BY WalletFunction DEF Wallet, Account, Net

\* The next-state part of HoldsMoveWithOperations.
HoldsMove ==
  \A u \in Users :
    LET moved == wallet'[u].account.creditsReserved
                   - wallet[u].account.creditsReserved
    IN moved # 0 =>
         \E o \in Operations :
           /\ operation'[o].userId = u
           /\ moved = operation'[o].held - operation[o].held

\* A transaction that moves no hold cannot break it.
LEMMA NoHoldMoves ==
  ASSUME IInv, NEW u, NEW n \in Int, NEW s \in Int, Transaction(u, n, 0, s)
  PROVE  HoldsMove
<1>1. ASSUME NEW v \in Users
      PROVE  wallet'[v].account.creditsReserved
               - wallet[v].account.creditsReserved = 0
  BY TransactionMoves, WalletNumbers
<1> QED BY <1>1 DEF HoldsMove

\* One that moves it by what its operation holds more or less does not either.
LEMMA OwnHoldMoves ==
  ASSUME IInv, NEW u, NEW n \in Int, NEW h \in Int, NEW s \in Int,
         Transaction(u, n, h, s), NEW o \in Operations,
         operation'[o].userId = u,
         h = operation'[o].held - operation[o].held
  PROVE  HoldsMove
<1>1. ASSUME NEW v \in Users \ {u}
      PROVE  wallet'[v].account.creditsReserved
               - wallet[v].account.creditsReserved = 0
  BY TransactionMoves, WalletNumbers
<1>2. wallet'[u].account.creditsReserved
        - wallet[u].account.creditsReserved = h
  BY TransactionMoves, WalletNumbers
<1> QED BY <1>1, <1>2 DEF HoldsMove

\* The next-state part of ChargesAreFinal.
ChargesStay ==
  \A o \in Operations :
    operation[o].status # "none" =>
      /\ operation'[o].userId = operation[o].userId
      /\ operation'[o].authorized = operation[o].authorized
      /\ operation'[o].charged >= operation[o].charged

LEMMA ChargesUntouched ==
  ASSUME IInv, operation' = operation
  PROVE  ChargesStay
<1>1. ASSUME NEW o \in Operations
      PROVE  operation[o].charged \in Nat
  BY DEF IInv, TypeOK, CreditOperation
<1> QED BY <1>1 DEF ChargesStay

-----------------------------------------------------------------------------
(* Every step is a step of the purse *)

LEMMA OnlyOwner ==
  ASSUME IInv, NEW u, NEW n \in Int, NEW h \in Int, NEW s \in Int,
         Transaction(u, n, h, s)
  PROVE  Accounts!Only(u)
<1>1. \A v \in Users \ {u} : wallet'[v] = wallet[v]
  BY TransactionMoves
<1> QED BY <1>1 DEF Accounts!Only

\* A transaction without work is a transfer.
LEMMA TransferStep ==
  ASSUME IInv, NEW u, NEW n \in Int, Transaction(u, n, 0, 0)
  PROVE  Accounts!Next
<1>1. u \in Users /\ Accounts!Only(u)
  BY TransactionMoves, OnlyOwner
<1>2. /\ wallet'[u].account.creditsReserved = wallet[u].account.creditsReserved
      /\ wallet'[u].account.totalCreditsUsed =
           wallet[u].account.totalCreditsUsed
  BY TransactionMoves, WalletNumbers, <1>1
<1>3. Accounts!Transfer(u)
  BY <1>1, <1>2 DEF Accounts!Transfer
<1> QED BY <1>1, <1>3 DEF Accounts!Next

\* A transaction that sets available credits aside is a hold.
LEMMA HoldStep ==
  ASSUME IInv, NEW u, NEW amount \in Nat, Net(wallet[u]) >= amount,
         Transaction(u, -amount, amount, 0)
  PROVE  Accounts!Next
<1> DEFINE less == -amount
<1>1. less \in Int /\ Transaction(u, less, amount, 0)
  OBVIOUS
<1> HIDE DEF less
<1>2. u \in Users /\ Accounts!Only(u)
  BY <1>1, TransactionMoves, OnlyOwner
<1>3. /\ Net(wallet'[u]) = Net(wallet[u]) + less
      /\ wallet'[u].account.creditsReserved =
           wallet[u].account.creditsReserved + amount
      /\ wallet'[u].account.totalCreditsUsed =
           wallet[u].account.totalCreditsUsed + 0
  BY <1>1, TransactionMoves
<1>4. /\ Net(wallet'[u]) >= 0
      /\ wallet'[u].account.creditsReserved >=
           wallet[u].account.creditsReserved
      /\ wallet'[u].account.totalCreditsUsed =
           wallet[u].account.totalCreditsUsed
      /\ Net(wallet'[u]) + wallet'[u].account.creditsReserved
           + wallet'[u].account.totalCreditsUsed
         = Net(wallet[u]) + wallet[u].account.creditsReserved
             + wallet[u].account.totalCreditsUsed
  BY <1>2, <1>3, WalletNumbers DEF less
<1>5. Accounts!Hold(u)
  BY <1>2, <1>4 DEF Accounts!Hold, Accounts!Conserved, Net
<1> QED BY <1>2, <1>5 DEF Accounts!Next

\* A transaction that pays from the hold and frees its rest is a settlement.
LEMMA SettlementStep ==
  ASSUME IInv, NEW u, NEW release \in Nat, NEW held \in Nat, NEW charge \in Nat,
         held = release + charge, Transaction(u, release, -held, charge),
         wallet'[u].account.creditsReserved \in Nat
  PROVE  Accounts!Next
<1> DEFINE less == -held
<1>1. less \in Int /\ Transaction(u, release, less, charge)
  OBVIOUS
<1> HIDE DEF less
<1>2. u \in Users /\ Accounts!Only(u)
  BY <1>1, TransactionMoves, OnlyOwner
<1>3. /\ Net(wallet'[u]) = Net(wallet[u]) + release
      /\ wallet'[u].account.creditsReserved =
           wallet[u].account.creditsReserved + less
      /\ wallet'[u].account.totalCreditsUsed =
           wallet[u].account.totalCreditsUsed + charge
  BY <1>1, TransactionMoves
<1>4. /\ 0 <= wallet'[u].account.creditsReserved
      /\ wallet'[u].account.creditsReserved <=
           wallet[u].account.creditsReserved
      /\ wallet'[u].account.totalCreditsUsed >=
           wallet[u].account.totalCreditsUsed
      /\ Net(wallet'[u]) >= Net(wallet[u])
      /\ Net(wallet'[u]) + wallet'[u].account.creditsReserved
           + wallet'[u].account.totalCreditsUsed
         = Net(wallet[u]) + wallet[u].account.creditsReserved
             + wallet[u].account.totalCreditsUsed
  BY <1>2, <1>3, WalletNumbers DEF less
<1>5. Accounts!Settle(u)
  BY <1>2, <1>4 DEF Accounts!Settle, Accounts!Conserved, Net
<1> QED BY <1>2, <1>5 DEF Accounts!Next

\* New holds are admitted on credits the account has.
LEMMA AdmittedOnNet ==
  ASSUME NEW w, Sound(w), NEW amount \in Nat, MayHold(w),
         Covers(w, -amount, amount)
  PROVE  Net(w) >= amount
<1>1. w.account.creditsBalance \in Nat /\ w.account.creditDebt \in Nat
  BY SoundType
<1>2. w.account.creditDebt = 0 /\ w.account.creditsBalance >= -(-amount)
  BY DEF MayHold, Covers
<1> QED BY <1>1, <1>2 DEF Net

\* What every step of the accounting does.
StepSound == HoldsMove /\ ChargesStay /\ Accounts!Next

\* A transaction that leaves the operations alone moves credits only.
LEMMA TransferSound ==
  ASSUME IInv, NEW u, NEW n \in Int, Transaction(u, n, 0, 0),
         operation' = operation
  PROVE  StepSound
BY NoHoldMoves, ChargesUntouched, TransferStep DEF StepSound

LEMMA StepIsSound == IInv /\ IInv' /\ Next => StepSound
<1> SUFFICES ASSUME IInv, IInv', Next PROVE StepSound
  OBVIOUS
<1>1. ASSUME NEW u \in Users, Opening(u)
      PROVE  StepSound
  <2>1. Transaction(u, 0, 0, 0) /\ operation' = operation
    BY <1>1, OpeningStep DEF Opening
  <2> QED BY <2>1, TransferSound
<1>2. ASSUME NEW u \in Users, SetActive(u)
      PROVE  StepSound
  <2>1. operation' = operation
    BY <1>2 DEF SetActive
  <2>2. ASSUME NEW v \in Users
        PROVE  /\ Net(wallet'[v]) = Net(wallet[v])
               /\ wallet'[v].account.creditsReserved =
                    wallet[v].account.creditsReserved
               /\ wallet'[v].account.totalCreditsUsed =
                    wallet[v].account.totalCreditsUsed
    <3>1. Moves(wallet[v], wallet'[v], 0, 0, 0)
      BY <1>2, SetActiveStep
    <3> QED BY <3>1, WalletNumbers DEF Moves
  <2>3. HoldsMove
    <3>1. ASSUME NEW v \in Users
          PROVE  wallet'[v].account.creditsReserved
                   - wallet[v].account.creditsReserved = 0
      BY <2>2, WalletNumbers
    <3> QED BY <3>1 DEF HoldsMove
  <2>4. Accounts!Only(u) /\ Accounts!Transfer(u)
    BY <2>2 DEF Accounts!Only, Accounts!Transfer, Net
  <2>5. Accounts!Next
    BY <2>4 DEF Accounts!Next
  <2> QED BY <2>1, <2>3, <2>5, ChargesUntouched DEF StepSound
<1>3. ASSUME NEW u \in Users, NEW o \in Operations, NEW amount \in Budgets,
             Reserve(u, o, amount)
      PROVE  StepSound
  <2> DEFINE less == -amount
  <2>1. amount \in Nat /\ less \in Int /\ Transaction(u, less, amount, 0)
    BY <1>3, ReserveStep
  <2>2. operation \in [Operations -> CreditOperation]
    BY DEF IInv, TypeOK
  <2>3. /\ operation'[o].userId = u
        /\ operation'[o].held = amount
        /\ \A q \in Operations : q # o => operation'[q] = operation[q]
    BY <1>3, <2>2 DEF Reserve
  <2>4. operation[o].status = "none" /\ operation[o].held = 0
    BY <1>3 DEF Reserve, IInv, HoldIsRemainder
  <2>5. HoldsMove
    <3> HIDE DEF less
    <3>1. amount = operation'[o].held - operation[o].held
      BY <2>1, <2>3, <2>4
    <3> QED BY <2>1, <2>3, <3>1, OwnHoldMoves
  <2>6. ChargesStay
    <3>1. ASSUME NEW q \in Operations, operation[q].status # "none"
          PROVE  operation'[q] = operation[q] /\ operation[q].charged \in Nat
      BY <3>1, <2>2, <2>3, <2>4 DEF CreditOperation
    <3> QED BY <3>1 DEF ChargesStay
  <2>7. Accounts!Next
    <3>1. Accountable(wallet[u])
      BY DEF IInv
    <3>2. /\ Sound(Opened(u))
          /\ Moves(wallet[u], Opened(u), 0, 0, 0)
      BY <3>1, OpenedSound
    <3>3. Net(Opened(u)) >= amount
      BY <3>2, <2>1, <1>3, AdmittedOnNet DEF Reserve
    <3>4. Net(Opened(u)) = Net(wallet[u])
      BY <3>2, WalletNumbers DEF Moves
    <3> QED BY <2>1, <3>3, <3>4, HoldStep
  <2> QED BY <2>5, <2>6, <2>7 DEF StepSound
<1>4. ASSUME NEW o \in Operations, Reopen(o)
      PROVE  StepSound
  <2> DEFINE u == operation[o].userId
             amount == Remainder(operation[o])
             less == -amount
  <2>1. amount \in Nat /\ Transaction(u, -amount, amount, 0)
    BY <1>4, ReopenStep
  <2>2. operation \in [Operations -> CreditOperation]
    BY DEF IInv, TypeOK
  <2>3. operation[o].status = "settled" /\ operation[o].held = 0
    BY <1>4 DEF Reopen, IInv, HoldIsRemainder
  <2>4. /\ operation'[o].userId = u
        /\ operation'[o].held = amount
        /\ operation'[o].authorized = operation[o].authorized
        /\ operation'[o].charged = operation[o].charged
        /\ \A q \in Operations : q # o => operation'[q] = operation[q]
    BY <1>4, <2>2 DEF Reopen
  <2>5. ChargesStay
    <3>1. \A q \in Operations : operation[q].charged \in Nat
      BY <2>2 DEF CreditOperation
    <3>2. ASSUME NEW q \in Operations
          PROVE  /\ operation'[q].userId = operation[q].userId
                 /\ operation'[q].authorized = operation[q].authorized
                 /\ operation'[q].charged = operation[q].charged
      BY <2>4 DEF u
    <3> QED BY <3>1, <3>2 DEF ChargesStay
  <2>6. Net(wallet[u]) >= amount
    <3>1. Sound(wallet[u])
      BY <2>3, OperationOwner
    <3> QED BY <3>1, <2>1, <1>4, AdmittedOnNet DEF Reopen
  <2> HIDE DEF u, amount
  <2>7. Accounts!Next
    BY <2>1, <2>6, HoldStep
  <2>8. HoldsMove
    <3>1. less \in Int /\ Transaction(u, less, amount, 0)
      BY <2>1
    <3>2. amount = operation'[o].held - operation[o].held
      BY <2>1, <2>3, <2>4
    <3> HIDE DEF less
    <3> QED BY <2>1, <2>4, <3>1, <3>2, OwnHoldMoves
  <2> QED BY <2>5, <2>7, <2>8 DEF StepSound
<1>5. ASSUME NEW o \in Operations, NEW total \in 0..operation[o].authorized,
             Settle(o, total)
      PROVE  StepSound
  <2> DEFINE u == operation[o].userId
             held == operation[o].held
             charge == total - operation[o].charged
             release == held - charge
             less == -held
  <2>1. charge \in Nat /\ release \in Nat /\ Transaction(u, release, less, charge)
    BY <1>5, SettleStep
  <2>2. operation \in [Operations -> CreditOperation]
    BY DEF IInv, TypeOK
  <2>3. held \in Nat /\ less \in Int
    BY <2>2 DEF CreditOperation
  <2>4. /\ operation'[o].userId = u
        /\ operation'[o].held = 0
        /\ operation'[o].authorized = operation[o].authorized
        /\ operation'[o].charged = total
        /\ \A q \in Operations : q # o => operation'[q] = operation[q]
    BY <1>5, <2>2 DEF Settle
  <2>5. ChargesStay
    <3>1. \A q \in Operations : operation[q].charged \in Nat
      BY <2>2 DEF CreditOperation
    <3>2. operation[o].charged <= total
      BY <1>5 DEF Settle, Settles
    <3>3. ASSUME NEW q \in Operations
          PROVE  /\ operation'[q].userId = operation[q].userId
                 /\ operation'[q].authorized = operation[q].authorized
                 /\ operation'[q].charged >= operation[q].charged
      <4>1. CASE q = o
        BY <4>1, <3>2, <2>4 DEF u
      <4>2. CASE q # o
        BY <4>2, <3>1, <2>4
      <4> QED BY <4>1, <4>2
    <3> QED BY <3>3 DEF ChargesStay
  <2>6. held = release + charge
    BY <2>1, <2>3
  <2>7. u \in Users
    BY <2>1 DEF Transaction
  <2>8. wallet'[u].account.creditsReserved \in Nat
    <3>1. Sound(wallet'[u])
      BY <2>1 DEF Transaction
    <3> QED BY <3>1, SoundType
  <2> HIDE DEF u, charge, release
  <2>9. Accounts!Next
    <3> HIDE DEF held
    <3> QED BY <2>1, <2>3, <2>6, <2>8, SettlementStep
  <2>10. HoldsMove
    <3>1. less = operation'[o].held - operation[o].held
      BY <2>3, <2>4
    <3> HIDE DEF held, less
    <3>2. release \in Int /\ charge \in Int
      BY <2>1
    <3> QED BY <2>1, <2>3, <2>4, <3>1, <3>2, OwnHoldMoves
  <2> QED BY <2>5, <2>9, <2>10 DEF StepSound
<1>6. ASSUME NEW u \in Users, NEW k \in AdjustKeys, NEW amount \in Int,
             AdjustCredits(u, k, amount)
      PROVE  StepSound
  <2>1. Transaction(u, amount, 0, 0) /\ operation' = operation
    BY <1>6, AdjustStep DEF AdjustCredits
  <2> QED BY <2>1, TransferSound
<1>7. ASSUME NEW u \in Users, NEW p \in Payments, NEW credits \in PackSizes,
             PackPayment(u, p, credits)
      PROVE  StepSound
  <2>1. credits \in Nat /\ Transaction(u, credits, 0, 0)
    BY <1>7, PackStep
  <2>2. operation' = operation
    BY <1>7 DEF PackPayment
  <2>3. credits \in Int
    BY <2>1
  <2> QED BY <2>1, <2>2, <2>3, TransferSound
<1>8. ASSUME NEW u \in Users, NEW p \in Payments,
             NEW allocation \in Allocations, NEW c \in Cycles,
             GrantSubscriptionCycle(u, p, allocation, c)
      PROVE  StepSound
  <2> DEFINE amount == TopUp(u, c, allocation)
  <2>1. Transaction(u, amount, 0, 0)
    BY <1>8, GrantStep
  <2>2. operation' = operation
    BY <1>8 DEF GrantSubscriptionCycle
  <2>3. amount \in Nat
    BY TopUpType
  <2> HIDE DEF amount
  <2>4. amount \in Int
    BY <2>3
  <2> QED BY <2>1, <2>2, <2>4, TransferSound
<1>9. ASSUME NEW u \in Users, NEW p \in Payments,
             NEW allocation \in Allocations, NEW c \in Cycles \cup {None},
             AdoptLegacyPayment(u, p, allocation, c)
      PROVE  StepSound
  <2>1. Transaction(u, 0, 0, 0) /\ operation' = operation
    BY <1>9, AdoptStep DEF AdoptLegacyPayment
  <2> QED BY <2>1, TransferSound
<1>10. ASSUME NEW p \in Payments, NEW a \in Adjustments,
              NEW share \in ReversalShares(payment[p].granted),
              ReversePayment(p, a, share)
       PROVE  StepSound
  <2> DEFINE less == -Taken(p, share)
  <2>1. less \in Int
    BY TakenType
  <2>2. Transaction(payment[p].userId, less, 0, 0) /\ operation' = operation
    BY <1>10, ReverseStep DEF ReversePayment
  <2> HIDE DEF less
  <2> QED BY <2>1, <2>2, TransferSound
<1>11. ASSUME NEW a \in Adjustments, RestorePaymentAdjustment(a)
       PROVE  StepSound
  <2> DEFINE amount == adjustment[a].reversedCredits
  <2>1. /\ amount \in Nat
        /\ Transaction(payment[adjustment[a].payment].userId, amount, 0, 0)
    BY <1>11, RestoreStep
  <2>2. operation' = operation
    BY <1>11 DEF RestorePaymentAdjustment
  <2> HIDE DEF amount
  <2>3. amount \in Int
    BY <2>1
  <2> QED BY <2>1, <2>2, <2>3, TransferSound
<1>12. ASSUME NEW o \in Operations, NEW g \in 0..MaxGeneration,
              NEW k \in RefundKeys, NEW amount \in RefundAmounts,
              Refund(o, g, k, amount)
       PROVE  StepSound
  <2>1. amount \in Nat /\ Transaction(operation[o].userId, amount, 0, 0)
    BY <1>12, RefundStep
  <2>2. operation' = operation
    BY <1>12 DEF Refund
  <2>3. amount \in Int
    BY <2>1
  <2> QED BY <2>1, <2>2, <2>3, TransferSound
<1>13. \A size \in AdjustSizes : size \in Int /\ -size \in Int
  BY AmountsAssumption
<1> QED
  BY <1>1, <1>2, <1>3, <1>4, <1>5, <1>6, <1>7, <1>8, <1>9, <1>10, <1>11,
     <1>12, <1>13 DEF Next

LEMMA InitPurse == Init => Accounts!Init
<1> SUFFICES ASSUME Init PROVE Accounts!Init
  OBVIOUS
<1>1. PICK balance \in [Users -> OpeningBalances] :
        wallet = [u \in Users |->
          [account |-> [creditsBalance |-> balance[u], creditsReserved |-> 0,
                        creditDebt |-> 0, totalCreditsUsed |-> 0,
                        creditLedgerInitialized |-> FALSE, isActive |-> TRUE],
           entries |-> <<>>]]
  BY DEF Init
<1>2. ASSUME NEW u \in Users
      PROVE  /\ wallet[u].account.creditsBalance
                  - wallet[u].account.creditDebt \in Nat
             /\ wallet[u].account.creditsReserved = 0
             /\ wallet[u].account.totalCreditsUsed = 0
  <2>1. balance[u] \in Nat
    BY AmountsAssumption
  <2> QED BY <1>1, <2>1
<1> QED BY <1>2 DEF Accounts!Init

\* No step moves the holds of an account but through one of its operations.
THEOREM HoldsAreOperations == Spec => HoldsMoveWithOperations
<1>1. IInv /\ IInv' /\ [Next]_vars => [HoldsMove]_vars
  BY StepIsSound DEF StepSound
<1>2. Spec => [][HoldsMove]_vars
  BY <1>1, Invariance, PTL DEF Spec
<1> QED BY <1>2 DEF HoldsMoveWithOperations, HoldsMove

\* No step lowers a charge, or moves an operation to another account or budget.
THEOREM ChargesStand == Spec => ChargesAreFinal
<1>1. IInv /\ IInv' /\ [Next]_vars => [ChargesStay]_vars
  BY StepIsSound DEF StepSound
<1>2. Spec => [][ChargesStay]_vars
  BY <1>1, Invariance, PTL DEF Spec
<1> QED BY <1>2 DEF ChargesAreFinal, ChargesStay

\* The accounting of statements, keys and payments implements the purse.
THEOREM PurseImplemented == Spec => ImplementsPurse
<1>1. IInv /\ IInv' /\ [Next]_vars => [Accounts!Next]_(Accounts!vars)
  <2>1. CASE UNCHANGED vars
    BY <2>1 DEF vars, Accounts!vars
  <2>2. CASE Next
    BY <2>2, StepIsSound DEF StepSound
  <2> QED BY <2>1, <2>2
<1> QED BY <1>1, InitPurse, Invariance, PTL DEF Spec, ImplementsPurse, Accounts!Spec

=============================================================================
