--------------------------- MODULE PaymentsProofs ----------------------------
(***************************************************************************)
(* Proofs about the checkouts of MCPayments, for any number of requests,   *)
(* plans, packs and transactions.                                          *)
(***************************************************************************)
EXTENDS MCPayments, FiniteSetTheorems, TLAPS

(***************************************************************************)
(* What makes two open transactions of a kind impossible is the pending    *)
(* entry of the customer: everything that can still be paid or comes to    *)
(* something is the pending transaction of its kind, or was never handed   *)
(* out.  The holder of the lease replaces the entry only after it has seen *)
(* that nothing stands behind it any more; a request that outlived its     *)
(* lease cannot save, and what it read as pending stays pending as long as *)
(* it stands.                                                              *)
(***************************************************************************)
NoneEnded == \A t \in Checkouts!Transactions : transaction[t].status # "ended"

\* A transaction that can be paid, or whose payment is being settled.
Standing(t) ==
  transaction[t].status = "draft" \/ (NoneEnded /\ Checkouts!Settling(t))

KindOf(t) == Checkouts!Kind(transaction[t].key)

PendingIfStanding(t) ==
  Checkouts!Exclusive(KindOf(t)) /\ Standing(t) => customer.pending[KindOf(t)] = t

\* What a request r knows, whoever holds the lease by now.
Knows(r) ==
  /\ r.pc \in {"get", "cancel", "check", "create", "save"} => r.key \in Checkouts!Keys
  /\ r.pc \in {"get", "cancel", "save"} =>
       r.id # None /\ KindOf(r.id) = Checkouts!Kind(r.key)
  /\ r.pc \in {"cancel", "check"} => r.key \in Plans
  /\ r.pc = "answer" => r.id # None
  /\ r.id # None => r.id <= created
  /\ r.read = "canceled" => ~NoneEnded
  /\ r.pc # "save" /\ r.id # None => PendingIfStanding(r.id)

\* What it knows of the pending entry, which the holder of the lease alone writes.
Sees(r) ==
  LET pending == customer.pending[Checkouts!Kind(r.key)]
  IN /\ r.pc \in {"get", "cancel"} => r.id = pending
     /\ r.pc \in {"check", "create", "save"}
          /\ Checkouts!Exclusive(Checkouts!Kind(r.key)) =>
        pending = None \/ ~Standing(pending)

RequestKnows(s) == Knows(shopper[s])
HolderSees(s) == customer.lease = s => Sees(shopper[s])

PendingExists ==
  \A k \in Checkouts!Kinds : customer.pending[k] # None =>
    customer.pending[k] <= created /\ KindOf(customer.pending[k]) = k

TransactionKnown(t) ==
  /\ t > created => transaction[t].status = "none" /\ ~transaction[t].offered
  /\ t <= created => transaction[t].status # "none" /\ transaction[t].key \in Checkouts!Keys
  /\ transaction[t].status \in {"paid", "completed", "ended"} => transaction[t].offered
  /\ transaction[t].offered => PendingIfStanding(t)

CheckoutInv ==
  /\ Checkouts!TypeOK
  /\ \A s \in Shoppers : RequestKnows(s) /\ HolderSees(s)
  /\ PendingExists
  /\ \A t \in Checkouts!Transactions : TransactionKnown(t)
  /\ customer.subscription = "canceled" => ~NoneEnded

-----------------------------------------------------------------------------
(* What every step keeps *)

\* Transactions keep their key, and one that no longer stands never will.
TransactionsGrow ==
  /\ created' \in Nat /\ created <= created'
  /\ \A t \in Checkouts!Transactions : t <= created =>
       transaction'[t].key = transaction[t].key /\ (Standing(t)' => Standing(t))
  /\ NoneEnded' => NoneEnded

PendingKept ==
  \A t \in Checkouts!Transactions :
    t <= created /\ PendingIfStanding(t) => PendingIfStanding(t)'

\* What a request knows, in which it takes no step, stays true.
LEMMA BystandersKnow ==
  ASSUME CheckoutInv, TransactionsGrow, PendingKept,
         NEW u \in Shoppers, shopper'[u] = shopper[u],
         customer'.lease = u =>
           customer.lease = u /\ customer'.pending = customer.pending
  PROVE  RequestKnows(u)' /\ HolderSees(u)'
<1> USE CheckoutAssumption
<1>1. /\ shopper[u].id \in Checkouts!Transactions \cup {None}
      /\ created \in Nat /\ None \notin Checkouts!Transactions
      /\ shopper[u].key \in Checkouts!Keys \cup {None}
  BY DEF CheckoutInv, Checkouts!TypeOK, Checkouts!Transactions
<1>2. RequestKnows(u) /\ HolderSees(u)
  BY DEF CheckoutInv
<1>3. ASSUME shopper[u].id # None
      PROVE  /\ shopper[u].id <= created'
             /\ KindOf(shopper[u].id)' = KindOf(shopper[u].id)
             /\ PendingIfStanding(shopper[u].id) => PendingIfStanding(shopper[u].id)'
  <2>1. shopper[u].id \in Checkouts!Transactions /\ shopper[u].id <= created
    BY <1>1, <1>2, <1>3 DEF RequestKnows, Knows
  <2>2. shopper[u].id \in Nat
    BY <2>1 DEF Checkouts!Transactions
  <2> QED
    BY <1>1, <2>1, <2>2 DEF TransactionsGrow, PendingKept, KindOf
<1>4. RequestKnows(u)'
  <2>1. ~NoneEnded => ~NoneEnded'
    BY DEF TransactionsGrow
  <2> QED
    BY <1>1, <1>2, <1>3, <2>1 DEF RequestKnows, Knows
<1>5. HolderSees(u)'
  <2>0. PICK p : p = customer.pending[Checkouts!Kind(shopper[u].key)]
    OBVIOUS
  <2>1. p # None => p \in Checkouts!Transactions /\ p <= created
    BY <2>0 DEF CheckoutInv, Checkouts!TypeOK, PendingExists, Checkouts!Kind,
                Checkouts!Kinds
  <2>2. p # None /\ ~Standing(p) => ~Standing(p)'
    BY <2>1 DEF TransactionsGrow
  <2> QED
    BY <1>2, <2>0, <2>2 DEF HolderSees, Sees
<1> QED
  BY <1>4, <1>5

\* A step keeps the invariant when one request at most takes part in it.
LEMMA OneRequest ==
  ASSUME CheckoutInv, TransactionsGrow, PendingKept, Checkouts!TypeOK',
         NEW s \in Shoppers, RequestKnows(s)', HolderSees(s)',
         \A u \in Shoppers \ {s} :
           /\ shopper'[u] = shopper[u]
           /\ customer'.lease = u =>
                customer.lease = u /\ customer'.pending = customer.pending,
         PendingExists', \A t \in Checkouts!Transactions : TransactionKnown(t)',
         customer'.subscription = "canceled" => ~NoneEnded'
  PROVE  CheckoutInv'
<1>1. \A u \in Shoppers : RequestKnows(u)' /\ HolderSees(u)'
  BY BystandersKnow
<1> QED
  BY <1>1 DEF CheckoutInv, Checkouts!Transactions

\* A step of the user, of Paddle or of a webhook takes no entry away and lets
\* nothing stand anew.
LEMMA NoRequest ==
  ASSUME CheckoutInv, Checkouts!TypeOK',
         shopper' = shopper, created' = created,
         customer'.lease = customer.lease, customer'.pending = customer.pending,
         \A t \in Checkouts!Transactions :
           /\ transaction'[t].key = transaction[t].key
           /\ transaction'[t].offered = transaction[t].offered
           /\ Standing(t)' => Standing(t)
           /\ transaction'[t].status = "none" <=> transaction[t].status = "none"
           /\ transaction'[t].status \in {"paid", "completed", "ended"} =>
                transaction[t].offered,
         NoneEnded' => NoneEnded,
         customer'.subscription = "canceled" => ~NoneEnded'
  PROVE  CheckoutInv'
<1>1. created \in Nat
  BY CheckoutAssumption DEF CheckoutInv, Checkouts!TypeOK
<1>2. TransactionsGrow
  BY <1>1 DEF TransactionsGrow
<1>3. \A t \in Checkouts!Transactions : PendingIfStanding(t) => PendingIfStanding(t)'
  BY DEF PendingIfStanding, KindOf, Checkouts!Exclusive, Checkouts!Kind
<1>4. PendingKept
  BY <1>3 DEF PendingKept
<1>5. \A u \in Shoppers : RequestKnows(u)' /\ HolderSees(u)'
  <2> TAKE u \in Shoppers
  <2> QED
    BY <1>2, <1>4, BystandersKnow
<1>6. PendingExists'
  BY CheckoutAssumption DEF CheckoutInv, Checkouts!TypeOK, PendingExists, KindOf
<1>7. \A t \in Checkouts!Transactions : TransactionKnown(t)'
  BY <1>3 DEF CheckoutInv, TransactionKnown, Checkouts!Transactions
<1> QED
  BY <1>5, <1>6, <1>7 DEF CheckoutInv, Checkouts!Transactions

-----------------------------------------------------------------------------
(* The steps of the user, of Paddle and of the webhooks *)

LEMMA LeaseExpiresStep ==
  ASSUME CheckoutInv, Checkouts!LeaseExpires PROVE CheckoutInv'
<1>1. /\ customer' = [customer EXCEPT !.over = TRUE]
      /\ UNCHANGED <<transaction, created, shopper, handled>>
  BY DEF Checkouts!LeaseExpires
<1>2. Checkouts!TypeOK'
  BY <1>1 DEF CheckoutInv, Checkouts!TypeOK, Checkouts!Transactions, Checkouts!Events, Checkouts!SubscriptionStatuses,Checkouts!TransactionStatuses, Checkouts!Kinds, Checkouts!Keys
<1>3. /\ customer'.lease = customer.lease /\ customer'.pending = customer.pending
      /\ customer'.subscription = customer.subscription
  BY <1>1 DEF CheckoutInv, Checkouts!TypeOK
<1>4. \A t \in Checkouts!Transactions : Standing(t)' => Standing(t)
  BY <1>1 DEF Standing, NoneEnded, Checkouts!Settling, Checkouts!Transactions
<1>5. NoneEnded' <=> NoneEnded
  BY <1>1 DEF NoneEnded, Checkouts!Transactions
<1>6. \A t \in Checkouts!Transactions :
        transaction[t].status \in {"paid", "completed", "ended"} => transaction[t].offered
  BY DEF CheckoutInv, TransactionKnown
<1> HIDE DEF Standing, NoneEnded
<1> QED
  BY <1>1, <1>2, <1>3, <1>4, <1>5, <1>6, NoRequest DEF CheckoutInv

\* The three steps of a transaction's status.
LEMMA StatusStep ==
  ASSUME CheckoutInv, NEW t \in Checkouts!Transactions,
         Checkouts!Pay(t) \/ Checkouts!Complete(t) \/ Checkouts!Unsubscribe(t)
  PROVE  CheckoutInv'
<1>1. PICK status \in {"paid", "completed", "ended"} :
        /\ transaction' = [transaction EXCEPT ![t].status = status]
        /\ UNCHANGED <<customer, created, shopper, handled>>
        /\ status = "paid" => transaction[t].status = "draft" /\ transaction[t].offered
        /\ status = "completed" => transaction[t].status = "paid"
        /\ status = "ended" => transaction[t].status = "completed"
  BY DEF Checkouts!Pay, Checkouts!Complete, Checkouts!Unsubscribe, Checkouts!SetStatus
<1>2. transaction[t] \in [status : Checkouts!TransactionStatuses,
        key : Checkouts!Keys \cup {None}, offered : BOOLEAN, granted : BOOLEAN]
  BY DEF CheckoutInv, Checkouts!TypeOK
<1> DEFINE new == [transaction[t] EXCEPT !.status = status]
<1>3. /\ new \in [status : Checkouts!TransactionStatuses,
           key : Checkouts!Keys \cup {None}, offered : BOOLEAN, granted : BOOLEAN]
      /\ new.status = status /\ new.key = transaction[t].key
      /\ new.offered = transaction[t].offered /\ new.granted = transaction[t].granted
  BY <1>2 DEF Checkouts!TransactionStatuses
<1>4. transaction' = [transaction EXCEPT ![t] = new]
  BY <1>1
<1> HIDE DEF new
<1>5. /\ transaction'[t] = new
      /\ \A v \in Checkouts!Transactions \ {t} : transaction'[v] = transaction[v]
  BY <1>4 DEF CheckoutInv, Checkouts!TypeOK
<1>6. Checkouts!TypeOK'
  BY <1>1, <1>3, <1>4 DEF CheckoutInv, Checkouts!TypeOK, Checkouts!Transactions,
     Checkouts!Events, Checkouts!SubscriptionStatuses,
     Checkouts!TransactionStatuses, Checkouts!Kinds, Checkouts!Keys
<1>7. NoneEnded' => NoneEnded
  BY <1>1, <1>3, <1>5 DEF NoneEnded, Checkouts!Transactions
<1>8. \A v \in Checkouts!Transactions : Standing(v)' => Standing(v)
  <2> TAKE v \in Checkouts!Transactions
  <2>1. CASE v = t
    <3>1. CASE status = "paid"
      BY <1>1, <2>1, <3>1 DEF Standing
    <3>2. CASE status = "completed"
      BY <1>1, <1>3, <1>5, <1>7, <2>1, <3>2 DEF Standing, Checkouts!Settling
    <3>3. CASE status = "ended"
      BY <1>3, <1>5, <2>1, <3>3 DEF Standing, Checkouts!Settling
    <3> QED
      BY <3>1, <3>2, <3>3
  <2>2. CASE v # t
    BY <1>5, <1>7, <2>2 DEF Standing, Checkouts!Settling
  <2> QED
    BY <2>1, <2>2
<1>9. \A v \in Checkouts!Transactions :
        /\ transaction'[v].key = transaction[v].key
        /\ transaction'[v].offered = transaction[v].offered
        /\ transaction'[v].status = "none" <=> transaction[v].status = "none"
        /\ transaction'[v].status \in {"paid", "completed", "ended"} =>
             transaction[v].offered
  BY <1>1, <1>3, <1>5 DEF CheckoutInv, TransactionKnown
<1> QED
  BY <1>1, <1>6, <1>7, <1>8, <1>9, NoRequest DEF CheckoutInv

\* The three webhooks.
LEMMA WebhookStep ==
  ASSUME CheckoutInv, NEW t \in Checkouts!Transactions,
         \/ Checkouts!HandleCompleted(t)
         \/ Checkouts!HandleUpdated(t) \/ Checkouts!HandleCanceled(t)
  PROVE  CheckoutInv'
<1>1. transaction[t] \in [status : Checkouts!TransactionStatuses,
        key : Checkouts!Keys \cup {None}, offered : BOOLEAN, granted : BOOLEAN]
  BY DEF CheckoutInv, Checkouts!TypeOK
<1>2. PICK granted \in BOOLEAN :
        /\ transaction' = [transaction EXCEPT ![t] = [transaction[t] EXCEPT !.granted = granted]]
        /\ transaction[t].granted => granted
  <2>1. CASE Checkouts!HandleCompleted(t)
    BY <2>1 DEF Checkouts!HandleCompleted
  <2>2. CASE Checkouts!HandleUpdated(t) \/ Checkouts!HandleCanceled(t)
    <3>1. transaction' = transaction
      BY <2>2 DEF Checkouts!HandleUpdated, Checkouts!HandleCanceled
    <3>2. [transaction[t] EXCEPT !.granted = transaction[t].granted] = transaction[t]
      BY <1>1
    <3>3. transaction[t].granted \in BOOLEAN
      BY <1>1
    <3> QED
      BY <3>1, <3>2, <3>3 DEF CheckoutInv, Checkouts!TypeOK
  <2> QED
    BY <2>1, <2>2
<1>3. PICK subscription \in {"active", "canceled", customer.subscription} :
        /\ customer' = [customer EXCEPT !.subscription = subscription]
        /\ subscription = "canceled" =>
             customer.subscription = "canceled" \/ transaction[t].status = "ended"
  <2>1. customer = [customer EXCEPT !.subscription = customer.subscription]
    BY DEF CheckoutInv, Checkouts!TypeOK
  <2>2. CASE Checkouts!HandleCompleted(t) /\ transaction[t].key \in Plans
    BY <2>2 DEF Checkouts!HandleCompleted
  <2>3. CASE Checkouts!HandleCompleted(t) /\ transaction[t].key \notin Plans
    BY <2>1, <2>3 DEF Checkouts!HandleCompleted
  <2>4. CASE Checkouts!HandleUpdated(t)
    BY <2>4 DEF Checkouts!HandleUpdated
  <2>5. CASE Checkouts!HandleCanceled(t)
    BY <2>5 DEF Checkouts!HandleCanceled
  <2> QED
    BY <2>2, <2>3, <2>4, <2>5
<1>4. handled' \subseteq Checkouts!Events /\ UNCHANGED <<created, shopper>>
  BY DEF Checkouts!HandleCompleted, Checkouts!HandleUpdated, Checkouts!HandleCanceled,
         Checkouts!Processed, Checkouts!Events, CheckoutInv, Checkouts!TypeOK
<1> DEFINE new == [transaction[t] EXCEPT !.granted = granted]
<1>5. /\ new \in [status : Checkouts!TransactionStatuses,
           key : Checkouts!Keys \cup {None}, offered : BOOLEAN, granted : BOOLEAN]
      /\ new.status = transaction[t].status /\ new.key = transaction[t].key
      /\ new.offered = transaction[t].offered /\ new.granted = granted
  BY <1>1
<1>6. transaction' = [transaction EXCEPT ![t] = new]
  BY <1>2
<1> HIDE DEF new
<1>7. /\ transaction'[t] = new
      /\ \A v \in Checkouts!Transactions \ {t} : transaction'[v] = transaction[v]
  BY <1>6 DEF CheckoutInv, Checkouts!TypeOK
<1>8. /\ customer'.lease = customer.lease /\ customer'.pending = customer.pending
      /\ customer'.subscription = subscription
  BY <1>3 DEF CheckoutInv, Checkouts!TypeOK
<1>9. Checkouts!TypeOK'
  <2>1. customer' \in [lease : Shoppers \cup {None}, over : BOOLEAN,
          pending : [Checkouts!Kinds -> Checkouts!Transactions \cup {None}],
          subscription : Checkouts!SubscriptionStatuses]
    BY <1>3 DEF CheckoutInv, Checkouts!TypeOK, Checkouts!SubscriptionStatuses
  <2>2. transaction' \in [Checkouts!Transactions ->
          [status : Checkouts!TransactionStatuses,
           key : Checkouts!Keys \cup {None}, offered : BOOLEAN, granted : BOOLEAN]]
    BY <1>5, <1>6 DEF CheckoutInv, Checkouts!TypeOK
  <2> QED
    BY <1>4, <2>1, <2>2 DEF CheckoutInv, Checkouts!TypeOK, Checkouts!Transactions,
       Checkouts!Events, Checkouts!SubscriptionStatuses,
       Checkouts!TransactionStatuses, Checkouts!Kinds, Checkouts!Keys
<1>10. NoneEnded' <=> NoneEnded
  BY <1>5, <1>7 DEF NoneEnded, Checkouts!Transactions
<1>11. \A v \in Checkouts!Transactions : Standing(v)' => Standing(v)
  <2> TAKE v \in Checkouts!Transactions
  <2>1. CASE v = t
    BY <1>2, <1>5, <1>7, <1>10, <2>1 DEF Standing, Checkouts!Settling
  <2>2. CASE v # t
    BY <1>7, <1>10, <2>2 DEF Standing, Checkouts!Settling
  <2> QED
    BY <2>1, <2>2
<1>12. \A v \in Checkouts!Transactions :
         /\ transaction'[v].key = transaction[v].key
         /\ transaction'[v].offered = transaction[v].offered
         /\ transaction'[v].status = transaction[v].status
         /\ transaction[v].status \in {"paid", "completed", "ended"} =>
              transaction[v].offered
  BY <1>5, <1>7 DEF CheckoutInv, TransactionKnown
<1>13. customer'.subscription = "canceled" => ~NoneEnded'
  BY <1>3, <1>8, <1>10 DEF NoneEnded, CheckoutInv
<1> QED
  BY <1>4, <1>8, <1>9, <1>10, <1>11, <1>12, <1>13, NoRequest

-----------------------------------------------------------------------------
(* The steps of a request *)

RequestType ==
  [pc : {"idle", "get", "cancel", "check", "create", "save", "release", "answer"},
   key : Checkouts!Keys \cup {None}, read : Checkouts!SubscriptionStatuses,
   id : Checkouts!Transactions \cup {None}]

\* A step of a request that leaves Paddle's transactions alone, and the pending
\* entries too, keeps the invariant if the request itself knows enough.
LEMMA Reads ==
  ASSUME CheckoutInv, NEW s \in Shoppers, NEW r \in RequestType,
         shopper' = [shopper EXCEPT ![s] = r],
         UNCHANGED <<transaction, created, handled>>,
         customer' \in [lease : Shoppers \cup {None}, over : BOOLEAN,
           pending : [Checkouts!Kinds -> Checkouts!Transactions \cup {None}],
           subscription : Checkouts!SubscriptionStatuses],
         customer'.lease \in {customer.lease, s, None},
         customer'.pending = customer.pending,
         customer'.subscription = customer.subscription,
         Knows(r), customer'.lease = s => Sees(r)
  PROVE  CheckoutInv'
<1>1. Checkouts!TypeOK'
  BY DEF CheckoutInv, Checkouts!TypeOK, RequestType, Checkouts!Transactions,
     Checkouts!Events, Checkouts!SubscriptionStatuses,
     Checkouts!TransactionStatuses, Checkouts!Kinds, Checkouts!Keys
<1>2. NoneEnded' <=> NoneEnded
  BY DEF NoneEnded, Checkouts!Transactions
<1>3. \A t \in Checkouts!Transactions : Standing(t)' <=> Standing(t)
  BY <1>2 DEF Standing, Checkouts!Settling
<1>4. created \in Nat
  BY CheckoutAssumption DEF CheckoutInv, Checkouts!TypeOK
<1>5. TransactionsGrow
  BY <1>2, <1>3, <1>4 DEF TransactionsGrow
<1>6. \A t \in Checkouts!Transactions : PendingIfStanding(t) => PendingIfStanding(t)'
  BY <1>3 DEF PendingIfStanding, KindOf, Checkouts!Exclusive, Checkouts!Kind
<1>7. PendingKept
  BY <1>6 DEF PendingKept
<1>8. \A u \in Shoppers \ {s} :
        /\ shopper'[u] = shopper[u]
        /\ customer'.lease = u =>
             customer.lease = u /\ customer'.pending = customer.pending
  BY CheckoutAssumption DEF CheckoutInv, Checkouts!TypeOK
<1>9. PendingExists'
  BY DEF CheckoutInv, PendingExists, KindOf
<1>10. \A t \in Checkouts!Transactions : TransactionKnown(t)'
  BY <1>6 DEF CheckoutInv, TransactionKnown, Checkouts!Transactions
<1>11. shopper'[s] = r
  BY DEF CheckoutInv, Checkouts!TypeOK
<1>12. RequestKnows(s)'
  <2>1. KindOf(r.id)' = KindOf(r.id)
    BY DEF KindOf, Checkouts!Kind
  <2>2. r.id # None => (PendingIfStanding(r.id)' <=> PendingIfStanding(r.id))
    BY <1>3, <2>1 DEF PendingIfStanding, Checkouts!Exclusive, RequestType
  <2> QED
    BY <1>2, <1>11, <2>1, <2>2 DEF RequestKnows, Knows, Checkouts!Kind, Checkouts!Keys
<1>13. HolderSees(s)'
  <2>1. PICK p : p = customer.pending[Checkouts!Kind(r.key)]
    OBVIOUS
  <2>2. p # None => (Standing(p)' <=> Standing(p))
    BY <1>3, <2>1 DEF CheckoutInv, Checkouts!TypeOK, Checkouts!Kind, Checkouts!Kinds
  <2>3. customer'.pending[Checkouts!Kind(r.key)] = p
    BY <2>1 DEF Checkouts!Kind
  <2> QED
    BY <1>11, <2>1, <2>2, <2>3 DEF HolderSees, Sees, Checkouts!Exclusive, Checkouts!Kind
<1> QED
  BY <1>1, <1>2, <1>5, <1>7, <1>8, <1>9, <1>10, <1>12, <1>13, OneRequest
  DEF CheckoutInv

\* A customer whose lease alone changes.
LEMMA LeaseOnly ==
  ASSUME CheckoutInv, NEW lease \in Shoppers \cup {None}, NEW over \in BOOLEAN,
         NEW c, c = [customer EXCEPT !.lease = lease, !.over = over]
  PROVE  /\ c \in [lease : Shoppers \cup {None}, over : BOOLEAN,
              pending : [Checkouts!Kinds -> Checkouts!Transactions \cup {None}],
              subscription : Checkouts!SubscriptionStatuses]
         /\ c.lease = lease /\ c.pending = customer.pending
         /\ c.subscription = customer.subscription
BY DEF CheckoutInv, Checkouts!TypeOK

LEMMA AcquireStep ==
  ASSUME CheckoutInv, NEW s \in Shoppers, NEW key \in Checkouts!Keys,
         Checkouts!Acquire(s, key)
  PROVE  CheckoutInv'
<1>1. PICK kind : kind = Checkouts!Kind(key)
  OBVIOUS
<1>2. kind \in Checkouts!Kinds
  BY <1>1 DEF Checkouts!Kind, Checkouts!Kinds
<1>3. PICK refused \in BOOLEAN :
        refused = (key \in Plans /\ customer.subscription = "active")
  OBVIOUS
<1>4. PICK pending \in Checkouts!Transactions \cup {None} :
        pending = IF refused THEN None ELSE customer.pending[kind]
  BY <1>2 DEF CheckoutInv, Checkouts!TypeOK
<1> DEFINE r == [pc |-> IF refused THEN "release"
                        ELSE IF pending # None THEN "get" ELSE Checkouts!Afresh(key),
                 key |-> IF refused THEN None ELSE key,
                 read |-> IF pending = None THEN "none" ELSE customer.subscription,
                 id |-> pending]
<1>5. /\ shopper' = [shopper EXCEPT ![s] = r]
      /\ customer' = [customer EXCEPT !.lease = s, !.over = FALSE]
      /\ UNCHANGED <<transaction, created, handled>>
  BY <1>1, <1>3, <1>4 DEF Checkouts!Acquire
<1>6. /\ customer' \in [lease : Shoppers \cup {None}, over : BOOLEAN,
           pending : [Checkouts!Kinds -> Checkouts!Transactions \cup {None}],
           subscription : Checkouts!SubscriptionStatuses]
      /\ customer'.lease = s /\ customer'.pending = customer.pending
      /\ customer'.subscription = customer.subscription
  BY <1>5, LeaseOnly
<1>7. r \in RequestType
  BY DEF RequestType, Checkouts!Afresh, CheckoutInv, Checkouts!TypeOK,
         Checkouts!SubscriptionStatuses
<1>8. pending # None => /\ pending = customer.pending[kind] /\ pending <= created
                        /\ KindOf(pending) = kind
  BY <1>2, <1>4 DEF CheckoutInv, PendingExists
<1>9. pending # None => PendingIfStanding(pending)
  BY <1>8 DEF PendingIfStanding
<1>10. /\ r.pc = IF refused THEN "release"
                 ELSE IF pending # None THEN "get" ELSE Checkouts!Afresh(key)
       /\ r.key = IF refused THEN None ELSE key
       /\ r.read = IF pending = None THEN "none" ELSE customer.subscription
       /\ r.id = pending
  OBVIOUS
<1> HIDE DEF r
<1>11. Knows(r)
  <2>1. r.read = "canceled" => ~NoneEnded
    BY <1>10 DEF CheckoutInv
  <2>2. CASE refused
    BY <1>4, <1>10, <2>1, <2>2 DEF Knows
  <2>3. CASE ~refused
    BY <1>1, <1>8, <1>9, <1>10, <2>1, <2>3 DEF Knows, Checkouts!Afresh
  <2> QED
    BY <2>2, <2>3
<1>12. Sees(r)
  BY <1>1, <1>4, <1>10 DEF Sees, Checkouts!Afresh
<1> QED
  BY <1>5, <1>6, <1>7, <1>11, <1>12, Reads


LEMMA GetStep ==
  ASSUME CheckoutInv, NEW s \in Shoppers, Checkouts!Get(s)
  PROVE  CheckoutInv'
<1>1. PICK t, key : t = shopper[s].id /\ key = shopper[s].key
  OBVIOUS
<1>2. /\ shopper[s].pc = "get" /\ key \in Checkouts!Keys
      /\ t # None /\ KindOf(t) = Checkouts!Kind(key) /\ t <= created
      /\ shopper[s].read = "canceled" => ~NoneEnded
      /\ PendingIfStanding(t)
  BY <1>1 DEF Checkouts!Get, Checkouts!At, CheckoutInv, RequestKnows, Knows
<1>3. t \in Checkouts!Transactions
  BY <1>1, <1>2 DEF CheckoutInv, Checkouts!TypeOK
<1>4. transaction[t].key \in Checkouts!Keys
  BY <1>2, <1>3 DEF CheckoutInv, TransactionKnown
<1>5. customer.lease = s => t = customer.pending[Checkouts!Kind(key)]
  BY <1>1, <1>2 DEF CheckoutInv, HolderSees, Sees
<1>6. PICK place \in {"check", "create", "cancel", "release"}, id \in {None, t} :
        /\ Checkouts!Go(s, place, id)
        /\ place \in {"check", "create"} =>
             /\ place = Checkouts!Afresh(key) /\ id = None
             /\ Checkouts!Exclusive(Checkouts!Kind(key)) => ~Standing(t)
        /\ place = "cancel" => id = t /\ key \in Plans
  <2> DEFINE same == transaction[t].key = key
             status == transaction[t].status
             resubscribing == /\ key \in Plans /\ shopper[s].read = "canceled"
                              /\ status \in {"completed", "ended"}
             bought == /\ key \in Packs /\ status = "completed"
                       /\ transaction[t].granted
             forgotten == \/ key \in Packs /\ ~same
                          \/ resubscribing \/ bought \/ status = "canceled"
  <2>1. CASE forgotten
    <3>1. Checkouts!Go(s, Checkouts!Afresh(key), None)
      BY <1>1, <2>1 DEF Checkouts!Get
    <3>2. ASSUME Checkouts!Exclusive(Checkouts!Kind(key)), key \in Packs
          PROVE  same
      BY <1>2, <1>4, <3>2, CheckoutAssumption
      DEF Checkouts!Exclusive, Checkouts!Kind, KindOf, Checkouts!Keys
    <3>3. bought => transaction[t].key \in Packs
      BY <1>2, <1>4, CheckoutAssumption DEF Checkouts!Kind, KindOf, Checkouts!Keys
    <3>4. Checkouts!Exclusive(Checkouts!Kind(key)) => ~Standing(t)
      BY <1>2, <2>1, <3>2, <3>3 DEF Standing, Checkouts!Settling
    <3>5. Checkouts!Afresh(key) \in {"check", "create"}
      BY DEF Checkouts!Afresh
    <3> QED
      BY <3>1, <3>4, <3>5
  <2>2. CASE ~forgotten
    <3>1. \/ /\ status = "draft"
             /\ Checkouts!Go(s, IF same THEN "release" ELSE "cancel", t)
          \/ Checkouts!Go(s, "release", None)
      BY <1>1, <2>2 DEF Checkouts!Get
    <3>2. ~same => key \in Plans
      BY <1>2, <2>2 DEF Checkouts!Keys
    <3> QED
      BY <3>1, <3>2
  <2> QED
    BY <2>1, <2>2
<1> DEFINE r == [pc |-> place, key |-> IF place = "release" THEN None ELSE key,
                 read |-> "none", id |-> id]
<1>7. /\ shopper' = [shopper EXCEPT ![s] = r]
      /\ UNCHANGED <<customer, transaction, created, handled>>
  BY <1>1, <1>6 DEF Checkouts!Go, Checkouts!Get
<1>8. r \in RequestType
  BY <1>2, <1>3 DEF RequestType, Checkouts!SubscriptionStatuses
<1>9. /\ r.pc = place /\ r.key = (IF place = "release" THEN None ELSE key)
      /\ r.read = "none" /\ r.id = id
  OBVIOUS
<1> HIDE DEF r
<1>10. Knows(r)
  BY <1>2, <1>6, <1>9 DEF Knows, Checkouts!Afresh
<1>11. customer.lease = s => Sees(r)
  BY <1>5, <1>6, <1>9 DEF Sees
<1> QED
  BY <1>7, <1>8, <1>10, <1>11, Reads DEF CheckoutInv, Checkouts!TypeOK

LEMMA CheckStep ==
  ASSUME CheckoutInv, NEW s \in Shoppers, Checkouts!Check(s)
  PROVE  CheckoutInv'
<1>1. PICK key : key = shopper[s].key
  OBVIOUS
<1>2. shopper[s].pc = "check" /\ key \in Checkouts!Keys
  BY <1>1 DEF Checkouts!Check, Checkouts!At, CheckoutInv, RequestKnows, Knows
<1>3. PICK place \in {"release", "create"} : Checkouts!Go(s, place, None)
  BY DEF Checkouts!Check
<1> DEFINE r == [pc |-> place, key |-> IF place = "release" THEN None ELSE key,
                 read |-> "none", id |-> None]
<1>4. /\ shopper' = [shopper EXCEPT ![s] = r]
      /\ UNCHANGED <<customer, transaction, created, handled>>
  BY <1>1, <1>3 DEF Checkouts!Go, Checkouts!Check
<1>5. r \in RequestType
  BY <1>2 DEF RequestType, Checkouts!SubscriptionStatuses
<1>6. /\ r.pc = place /\ r.key = (IF place = "release" THEN None ELSE key)
      /\ r.read = "none" /\ r.id = None
  OBVIOUS
<1> HIDE DEF r
<1>7. Knows(r)
  BY <1>2, <1>6 DEF Knows
<1>8. customer.lease = s => Sees(r)
  BY <1>1, <1>2, <1>6 DEF Sees, CheckoutInv, HolderSees
<1> QED
  BY <1>4, <1>5, <1>7, <1>8, Reads DEF CheckoutInv, Checkouts!TypeOK

LEMMA ReleaseStep ==
  ASSUME CheckoutInv, NEW s \in Shoppers, Checkouts!Release(s)
  PROVE  CheckoutInv'
<1>1. PICK id : id = shopper[s].id
  OBVIOUS
<1>2. /\ shopper[s].pc = "release" /\ id \in Checkouts!Transactions \cup {None}
      /\ id # None => id <= created /\ PendingIfStanding(id)
  BY <1>1 DEF Checkouts!Release, Checkouts!At, CheckoutInv, RequestKnows, Knows,
              Checkouts!TypeOK
<1>3. PICK r \in RequestType :
        /\ shopper' = [shopper EXCEPT ![s] = r]
        /\ r.pc \in {"idle", "answer"} /\ r.read = "none" /\ r.id = id
        /\ r.pc = "answer" => id # None
  <2> DEFINE away == Checkouts!Away
             answer == [away EXCEPT !.pc = "answer", !.id = id]
  <2>1. away \in RequestType /\ away.pc = "idle" /\ away.read = "none" /\ away.id = None
    BY DEF RequestType, Checkouts!Away, Checkouts!SubscriptionStatuses
  <2>2. shopper' = [shopper EXCEPT ![s] = IF id = None THEN away ELSE answer]
    BY <1>1 DEF Checkouts!Release
  <2> HIDE DEF away
  <2>3. /\ answer \in RequestType
        /\ answer.pc = "answer" /\ answer.read = "none" /\ answer.id = id
    BY <1>2, <2>1 DEF RequestType
  <2> QED
    BY <2>1, <2>2, <2>3
<1>4. UNCHANGED <<transaction, created, handled>>
  BY DEF Checkouts!Release
<1>5. /\ customer' \in [lease : Shoppers \cup {None}, over : BOOLEAN,
           pending : [Checkouts!Kinds -> Checkouts!Transactions \cup {None}],
           subscription : Checkouts!SubscriptionStatuses]
      /\ customer'.lease \in {customer.lease, None}
      /\ customer'.pending = customer.pending
      /\ customer'.subscription = customer.subscription
  <2>1. CASE customer.lease = s
    <3>1. customer' = [customer EXCEPT !.lease = None, !.over = FALSE]
      BY <2>1 DEF Checkouts!Release
    <3> QED
      BY <3>1, LeaseOnly
  <2>2. CASE customer.lease # s
    BY <2>2 DEF Checkouts!Release, CheckoutInv, Checkouts!TypeOK
  <2> QED
    BY <2>1, <2>2
<1>6. Knows(r) /\ Sees(r)
  BY <1>2, <1>3 DEF Knows, Sees
<1> QED
  BY <1>3, <1>4, <1>5, <1>6, Reads

LEMMA CrashStep ==
  ASSUME CheckoutInv, NEW s \in Shoppers, Checkouts!Crash(s)
  PROVE  CheckoutInv'
<1> DEFINE r == Checkouts!Away
<1>1. /\ shopper' = [shopper EXCEPT ![s] = r]
      /\ UNCHANGED <<customer, transaction, created, handled>>
  BY DEF Checkouts!Crash
<1>2. r \in RequestType /\ r.pc = "idle" /\ r.read = "none" /\ r.id = None
  BY DEF RequestType, Checkouts!Away, Checkouts!SubscriptionStatuses
<1> HIDE DEF r
<1>3. Knows(r) /\ Sees(r)
  BY <1>2 DEF Knows, Sees
<1> QED
  BY <1>1, <1>2, <1>3, Reads DEF CheckoutInv, Checkouts!TypeOK

LEMMA CancelPendingStep ==
  ASSUME CheckoutInv, NEW s \in Shoppers, Checkouts!CancelPending(s)
  PROVE  CheckoutInv'
<1>1. PICK t, key : t = shopper[s].id /\ key = shopper[s].key
  OBVIOUS
<1>2. /\ shopper[s].pc = "cancel" /\ key \in Plans
      /\ t \in Checkouts!Transactions /\ t <= created
      /\ KindOf(t) = Checkouts!Kind(key)
      /\ customer.lease = s => t = customer.pending[Checkouts!Kind(key)]
  BY <1>1 DEF Checkouts!CancelPending, Checkouts!At, CheckoutInv, RequestKnows, Knows,
              HolderSees, Sees, Checkouts!TypeOK
<1>3. UNCHANGED <<customer, created, handled>>
  BY DEF Checkouts!CancelPending
<1>4. CASE transaction[t].status # "draft"
  <2> DEFINE r == [pc |-> "release", key |-> None, read |-> "none", id |-> None]
  <2>1. shopper' = [shopper EXCEPT ![s] = r] /\ UNCHANGED transaction
    BY <1>1, <1>4 DEF Checkouts!CancelPending, Checkouts!Go
  <2>2. /\ r \in RequestType
        /\ r.pc = "release" /\ r.read = "none" /\ r.id = None
    BY DEF RequestType, Checkouts!SubscriptionStatuses
  <2> HIDE DEF r
  <2>3. Knows(r) /\ Sees(r)
    BY <2>2 DEF Knows, Sees
  <2> QED
    BY <1>3, <2>1, <2>2, <2>3, Reads DEF CheckoutInv, Checkouts!TypeOK
<1>5. CASE transaction[t].status = "draft"
  <2> DEFINE r == [pc |-> "check", key |-> key, read |-> "none", id |-> None]
             new == [transaction[t] EXCEPT !.status = "canceled"]
  <2>1. /\ shopper' = [shopper EXCEPT ![s] = r]
        /\ transaction' = [transaction EXCEPT ![t] = new]
    BY <1>1, <1>5 DEF Checkouts!CancelPending, Checkouts!Go, Checkouts!SetStatus
  <2>2. /\ r \in RequestType
        /\ r.pc = "check" /\ r.key = key /\ r.read = "none" /\ r.id = None
    BY <1>2 DEF RequestType, Checkouts!SubscriptionStatuses, Checkouts!Keys
  <2>3. /\ new \in [status : Checkouts!TransactionStatuses,
             key : Checkouts!Keys \cup {None}, offered : BOOLEAN, granted : BOOLEAN]
        /\ new.status = "canceled" /\ new.key = transaction[t].key
        /\ new.offered = transaction[t].offered /\ new.granted = transaction[t].granted
    BY <1>2 DEF CheckoutInv, Checkouts!TypeOK, Checkouts!TransactionStatuses
  <2> HIDE DEF r, new
  <2>4. /\ transaction'[t] = new /\ shopper'[s] = r
        /\ \A v \in Checkouts!Transactions \ {t} : transaction'[v] = transaction[v]
        /\ \A u \in Shoppers \ {s} : shopper'[u] = shopper[u]
    BY <1>2, <2>1 DEF CheckoutInv, Checkouts!TypeOK
  <2>5. Checkouts!TypeOK'
    <3>1. /\ transaction' \in [Checkouts!Transactions ->
               [status : Checkouts!TransactionStatuses,
                key : Checkouts!Keys \cup {None}, offered : BOOLEAN, granted : BOOLEAN]]
          /\ shopper' \in [Shoppers -> RequestType]
      BY <2>1, <2>2, <2>3 DEF CheckoutInv, Checkouts!TypeOK, RequestType
    <3> QED
      BY <1>3, <3>1 DEF CheckoutInv, Checkouts!TypeOK, Checkouts!Transactions,
         Checkouts!Events, Checkouts!SubscriptionStatuses, RequestType,
         Checkouts!TransactionStatuses, Checkouts!Kinds, Checkouts!Keys
  <2>6. NoneEnded' <=> NoneEnded
    BY <1>5, <2>3, <2>4 DEF NoneEnded, Checkouts!Transactions
  <2>7. \A v \in Checkouts!Transactions :
          /\ transaction'[v].key = transaction[v].key
          /\ transaction'[v].offered = transaction[v].offered
          /\ v = t \/ transaction'[v].status = transaction[v].status
    BY <2>3, <2>4
  <2>8. ~Standing(t)'
    BY <2>3, <2>4 DEF Standing, Checkouts!Settling
  <2>9. \A v \in Checkouts!Transactions : Standing(v)' => Standing(v)
    BY <2>4, <2>6, <2>8 DEF Standing, Checkouts!Settling
  <2>10. \A v \in Checkouts!Transactions : PendingIfStanding(v) => PendingIfStanding(v)'
    BY <1>3, <2>7, <2>9 DEF PendingIfStanding, KindOf, Checkouts!Exclusive, Checkouts!Kind
  <2>11. created \in Nat
    BY CheckoutAssumption DEF CheckoutInv, Checkouts!TypeOK
  <2>12. TransactionsGrow
    BY <1>3, <2>6, <2>7, <2>9, <2>11 DEF TransactionsGrow
  <2>13. PendingKept
    BY <2>10 DEF PendingKept
  <2>14. PendingExists'
    BY <1>3, <2>7 DEF CheckoutInv, PendingExists, KindOf, Checkouts!TypeOK, Checkouts!Kind,
       Checkouts!Kinds
  <2>15. \A v \in Checkouts!Transactions : TransactionKnown(v)'
    BY <1>3, <1>5, <2>3, <2>4, <2>7, <2>10
    DEF CheckoutInv, TransactionKnown, Checkouts!Transactions, Checkouts!Keys
  <2>16. RequestKnows(s)'
    BY <1>2, <2>2, <2>4 DEF RequestKnows, Knows, Checkouts!Keys
  <2>17. HolderSees(s)'
    BY <1>2, <1>3, <2>2, <2>4, <2>8 DEF HolderSees, Sees, Checkouts!Kind
  <2> QED
    BY <1>3, <2>4, <2>5, <2>6, <2>12, <2>13, <2>14, <2>15, <2>16, <2>17, OneRequest
    DEF CheckoutInv
<1> QED
  BY <1>4, <1>5

LEMMA CreateStep ==
  ASSUME CheckoutInv, NEW s \in Shoppers, Checkouts!Create(s)
  PROVE  CheckoutInv'
<1> USE CheckoutAssumption
<1>1. PICK t, key : t = created + 1 /\ key = shopper[s].key
  OBVIOUS
<1>2. /\ shopper[s].pc = "create" /\ key \in Checkouts!Keys
      /\ customer.lease = s => Sees(shopper[s])
  BY <1>1 DEF Checkouts!Create, Checkouts!At, CheckoutInv, RequestKnows, Knows, HolderSees
<1>3. /\ created \in Nat /\ created < MaxTransactions
      /\ t \in Checkouts!Transactions /\ t > created /\ t # None
  BY <1>1 DEF Checkouts!Create, CheckoutInv, Checkouts!TypeOK, Checkouts!Transactions
<1> DEFINE draft == [transaction[t] EXCEPT !.status = "draft"]
           new == [draft EXCEPT !.key = key]
<1>4. PICK place \in {"save", "release"}, id \in {t, None} :
        /\ Checkouts!Go(s, place, id)
        /\ place = "save" <=> id = t
        /\ created' = t
        /\ transaction' = [transaction EXCEPT ![t] = new]
        /\ UNCHANGED <<customer, handled>>
  <2>1. transaction[t] \in [status : Checkouts!TransactionStatuses,
          key : Checkouts!Keys \cup {None}, offered : BOOLEAN, granted : BOOLEAN]
    BY <1>3 DEF CheckoutInv, Checkouts!TypeOK
  <2>2. transaction' = [transaction EXCEPT ![t] = new]
    BY <1>1, <1>3, <2>1 DEF Checkouts!Create, CheckoutInv, Checkouts!TypeOK
  <2> HIDE DEF new
  <2> QED
    BY <1>1, <1>3, <2>2 DEF Checkouts!Create
<1> DEFINE r == [pc |-> place, key |-> IF place = "release" THEN None ELSE key,
                 read |-> "none", id |-> id]
<1>5. shopper' = [shopper EXCEPT ![s] = r]
  BY <1>1, <1>4 DEF Checkouts!Go
<1>6. /\ r \in RequestType
      /\ r.pc = place /\ r.key = (IF place = "release" THEN None ELSE key)
      /\ r.read = "none" /\ r.id = id
  BY <1>2, <1>3 DEF RequestType, Checkouts!SubscriptionStatuses
<1>7. /\ new \in [status : Checkouts!TransactionStatuses,
           key : Checkouts!Keys \cup {None}, offered : BOOLEAN, granted : BOOLEAN]
      /\ new.status = "draft" /\ new.key = key
      /\ new.offered = transaction[t].offered
  <2>1. /\ draft \in [status : Checkouts!TransactionStatuses,
             key : Checkouts!Keys \cup {None}, offered : BOOLEAN, granted : BOOLEAN]
        /\ draft.status = "draft" /\ draft.offered = transaction[t].offered
    BY <1>3 DEF CheckoutInv, Checkouts!TypeOK, Checkouts!TransactionStatuses
  <2> HIDE DEF draft
  <2> QED
    BY <1>2, <2>1
<1> HIDE DEF r, new
<1>8. /\ transaction'[t] = new /\ shopper'[s] = r
      /\ \A v \in Checkouts!Transactions \ {t} : transaction'[v] = transaction[v]
      /\ \A u \in Shoppers \ {s} : shopper'[u] = shopper[u]
  BY <1>3, <1>4, <1>5 DEF CheckoutInv, Checkouts!TypeOK
<1>9. Checkouts!TypeOK'
  <2>1. /\ transaction' \in [Checkouts!Transactions ->
             [status : Checkouts!TransactionStatuses,
              key : Checkouts!Keys \cup {None}, offered : BOOLEAN, granted : BOOLEAN]]
        /\ shopper' \in [Shoppers -> RequestType]
    BY <1>4, <1>5, <1>6, <1>7 DEF CheckoutInv, Checkouts!TypeOK, RequestType
  <2>2. created' \in 0..MaxTransactions
    BY <1>1, <1>3, <1>4
  <2> QED
    BY <1>4, <2>1, <2>2 DEF CheckoutInv, Checkouts!TypeOK, Checkouts!Transactions,
       Checkouts!Events, Checkouts!SubscriptionStatuses, RequestType,
       Checkouts!TransactionStatuses, Checkouts!Kinds, Checkouts!Keys
<1>10. transaction[t].status = "none" /\ ~transaction[t].offered
  BY <1>3 DEF CheckoutInv, TransactionKnown
<1>11. NoneEnded' <=> NoneEnded
  BY <1>7, <1>8, <1>10 DEF NoneEnded, Checkouts!Transactions
<1>12. \A v \in Checkouts!Transactions \ {t} :
         /\ Standing(v)' <=> Standing(v)
         /\ KindOf(v)' = KindOf(v)
         /\ PendingIfStanding(v)' <=> PendingIfStanding(v)
  <2> TAKE v \in Checkouts!Transactions \ {t}
  <2>1. Standing(v)' <=> Standing(v)
    BY <1>8, <1>11 DEF Standing, Checkouts!Settling
  <2>2. KindOf(v)' = KindOf(v)
    BY <1>8 DEF KindOf, Checkouts!Kind
  <2> QED
    BY <1>4, <2>1, <2>2 DEF PendingIfStanding, Checkouts!Exclusive
<1>13. \A v \in Checkouts!Transactions : v <= created => v # t
  BY <1>3 DEF Checkouts!Transactions
<1>14. TransactionsGrow
  BY <1>1, <1>3, <1>4, <1>8, <1>11, <1>12, <1>13 DEF TransactionsGrow
<1>15. PendingKept
  BY <1>12, <1>13 DEF PendingKept
<1>16. PendingExists'
  <2> SUFFICES ASSUME NEW k \in Checkouts!Kinds, customer.pending[k] # None
               PROVE  /\ customer.pending[k] <= created'
                      /\ KindOf(customer.pending[k])' = k
    BY <1>4 DEF PendingExists, Checkouts!Kinds
  <2>1. PICK p \in Checkouts!Transactions : p = customer.pending[k]
    BY DEF CheckoutInv, Checkouts!TypeOK
  <2>2. p <= created /\ KindOf(p) = k
    BY <2>1 DEF CheckoutInv, PendingExists
  <2>3. p # t /\ p <= created'
    BY <1>1, <1>3, <1>4, <1>13, <2>2 DEF Checkouts!Transactions
  <2> QED
    BY <1>4, <1>12, <2>1, <2>2, <2>3 DEF KindOf
<1>17. \A v \in Checkouts!Transactions : TransactionKnown(v)'
  <2> TAKE v \in Checkouts!Transactions
  <2>1. CASE v = t
    BY <1>2, <1>3, <1>4, <1>7, <1>8, <1>10, <2>1
    DEF TransactionKnown, Checkouts!Keys, Checkouts!Transactions
  <2>2. CASE v # t
    <3>1. v <= created' <=> v <= created
      BY <1>1, <1>3, <1>4, <2>2 DEF Checkouts!Transactions
    <3>2. v > created' => v > created
      BY <1>1, <1>3, <1>4 DEF Checkouts!Transactions
    <3> QED
      BY <1>8, <1>12, <2>2, <3>1, <3>2 DEF CheckoutInv, TransactionKnown, Checkouts!Keys
  <2> QED
    BY <2>1, <2>2
<1>18. RequestKnows(s)'
  <2>1. KindOf(t)' = Checkouts!Kind(key)
    BY <1>7, <1>8 DEF KindOf, Checkouts!Kind
  <2> QED
    BY <1>1, <1>2, <1>3, <1>4, <1>6, <1>8, <2>1
    DEF RequestKnows, Knows, Checkouts!Keys, Checkouts!Kind
<1>19. HolderSees(s)'
  <2> SUFFICES ASSUME customer.lease = s PROVE Sees(r)'
    BY <1>4, <1>8 DEF HolderSees, Sees, Checkouts!Kind, Checkouts!Exclusive
  <2>1. CASE place = "release"
    BY <1>6, <2>1 DEF Sees
  <2>2. CASE place = "save"
    <3>1. PICK p : p = customer.pending[Checkouts!Kind(key)]
      OBVIOUS
    <3>2. Checkouts!Exclusive(Checkouts!Kind(key)) => p = None \/ ~Standing(p)
      BY <1>1, <1>2, <3>1 DEF Sees
    <3>3. p # None => p \in Checkouts!Transactions \ {t}
      BY <1>13, <3>1 DEF CheckoutInv, PendingExists, Checkouts!TypeOK, Checkouts!Kind,
         Checkouts!Kinds
    <3>4. Checkouts!Exclusive(Checkouts!Kind(key)) => p = None \/ ~Standing(p)'
      BY <1>12, <3>2, <3>3
    <3> QED
      BY <1>4, <1>6, <2>2, <3>1, <3>4 DEF Sees, Checkouts!Kind, Checkouts!Exclusive
  <2> QED
    BY <2>1, <2>2
<1>20. customer'.subscription = "canceled" => ~NoneEnded'
  BY <1>4, <1>11 DEF CheckoutInv
<1> QED
  BY <1>4, <1>8, <1>9, <1>14, <1>15, <1>16, <1>17, <1>18, <1>19, <1>20, OneRequest

\* Only the holder of the lease saves, and it has seen that nothing stands behind
\* the entry it replaces.
LEMMA SaveStep ==
  ASSUME CheckoutInv, NEW s \in Shoppers, Checkouts!Save(s)
  PROVE  CheckoutInv'
<1> USE CheckoutAssumption
<1>1. PICK t, kind : t = shopper[s].id /\ kind = Checkouts!Kind(shopper[s].key)
  OBVIOUS
<1>2. /\ shopper[s].pc = "save" /\ kind \in Checkouts!Kinds
      /\ t \in Checkouts!Transactions /\ t # None /\ t <= created /\ KindOf(t) = kind
  BY <1>1 DEF Checkouts!Save, Checkouts!At, CheckoutInv, RequestKnows, Knows,
              Checkouts!TypeOK, Checkouts!Kind, Checkouts!Kinds
<1>3. UNCHANGED <<transaction, created, handled>>
  BY DEF Checkouts!Save
<1>4. CASE customer.lease # s
  <2> DEFINE r == [pc |-> "release", key |-> None, read |-> "none", id |-> None]
  <2>1. shopper' = [shopper EXCEPT ![s] = r] /\ UNCHANGED customer
    BY <1>4 DEF Checkouts!Save, Checkouts!Holds, Checkouts!Go
  <2>2. r \in RequestType /\ r.pc = "release" /\ r.read = "none" /\ r.id = None
    BY DEF RequestType, Checkouts!SubscriptionStatuses
  <2> HIDE DEF r
  <2>3. Knows(r) /\ Sees(r)
    BY <2>2 DEF Knows, Sees
  <2> QED
    BY <1>3, <2>1, <2>2, <2>3, Reads DEF CheckoutInv, Checkouts!TypeOK
<1>5. CASE customer.lease = s
  <2> DEFINE r == [pc |-> "release", key |-> None, read |-> "none", id |-> t]
             pending == [customer.pending EXCEPT ![kind] = t]
  <2>1. /\ shopper' = [shopper EXCEPT ![s] = r]
        /\ customer' = [customer EXCEPT !.pending = pending]
    BY <1>1, <1>5 DEF Checkouts!Save, Checkouts!Holds, Checkouts!Go
  <2>2. r \in RequestType /\ r.pc = "release" /\ r.read = "none" /\ r.id = t
    BY <1>2 DEF RequestType, Checkouts!SubscriptionStatuses
  <2>3. /\ pending \in [Checkouts!Kinds -> Checkouts!Transactions \cup {None}]
        /\ pending[kind] = t
        /\ \A k \in Checkouts!Kinds \ {kind} : pending[k] = customer.pending[k]
    BY <1>2 DEF CheckoutInv, Checkouts!TypeOK
  <2> HIDE DEF r, pending
  <2>4. /\ shopper'[s] = r /\ \A u \in Shoppers \ {s} : shopper'[u] = shopper[u]
        /\ customer'.lease = s /\ customer'.pending = pending
        /\ customer'.subscription = customer.subscription
    BY <1>5, <2>1 DEF CheckoutInv, Checkouts!TypeOK
  <2>5. Checkouts!TypeOK'
    <3>1. /\ customer' \in [lease : Shoppers \cup {None}, over : BOOLEAN,
               pending : [Checkouts!Kinds -> Checkouts!Transactions \cup {None}],
               subscription : Checkouts!SubscriptionStatuses]
          /\ shopper' \in [Shoppers -> RequestType]
      BY <2>1, <2>2, <2>3 DEF CheckoutInv, Checkouts!TypeOK, RequestType
    <3> QED
      BY <1>3, <3>1 DEF CheckoutInv, Checkouts!TypeOK, Checkouts!Transactions,
         Checkouts!Events, Checkouts!SubscriptionStatuses, RequestType,
         Checkouts!TransactionStatuses, Checkouts!Kinds, Checkouts!Keys
  <2>6. NoneEnded' <=> NoneEnded
    BY <1>3 DEF NoneEnded, Checkouts!Transactions
  <2>7. \A v \in Checkouts!Transactions :
          (Standing(v)' <=> Standing(v)) /\ KindOf(v)' = KindOf(v)
    BY <1>3, <2>6 DEF Standing, Checkouts!Settling, KindOf, Checkouts!Kind
  <2>8. created \in Nat
    BY DEF CheckoutInv, Checkouts!TypeOK
  <2>9. TransactionsGrow
    BY <1>3, <2>6, <2>7, <2>8 DEF TransactionsGrow
  <2>10. Checkouts!Exclusive(kind) =>
           customer.pending[kind] = None \/ ~Standing(customer.pending[kind])
    BY <1>1, <1>2, <1>5 DEF CheckoutInv, HolderSees, Sees
  <2>11. \A v \in Checkouts!Transactions : PendingIfStanding(v) => PendingIfStanding(v)'
    <3> SUFFICES ASSUME NEW v \in Checkouts!Transactions, PendingIfStanding(v),
                        Checkouts!Exclusive(KindOf(v)), Standing(v)
                 PROVE  pending[KindOf(v)] = v
      BY <2>4, <2>7 DEF PendingIfStanding, Checkouts!Exclusive
    <3>1. customer.pending[KindOf(v)] = v
      BY DEF PendingIfStanding
    <3>2. KindOf(v) # kind
      BY <2>10, <3>1 DEF Checkouts!Transactions
    <3>3. KindOf(v) \in Checkouts!Kinds
      BY DEF KindOf, Checkouts!Kind, Checkouts!Kinds
    <3> QED
      BY <2>3, <3>1, <3>2, <3>3
  <2>12. PendingKept
    BY <2>11 DEF PendingKept
  <2>13. PendingExists'
    <3>1. ASSUME NEW k \in Checkouts!Kinds, NEW p, p = pending[k], p # None
          PROVE  p <= created /\ KindOf(p)' = k
      <4>1. p \in Checkouts!Transactions
        BY <2>3, <3>1
      <4>2. p <= created /\ KindOf(p) = k
        BY <1>2, <2>3, <3>1 DEF CheckoutInv, PendingExists
      <4> QED
        BY <2>7, <4>1, <4>2
    <3> QED
      BY <1>3, <2>4, <3>1 DEF PendingExists, Checkouts!Kinds, KindOf
  <2>14. \A v \in Checkouts!Transactions : TransactionKnown(v)'
    BY <1>3, <2>11 DEF CheckoutInv, TransactionKnown, Checkouts!Keys
  <2>15. PendingIfStanding(t)'
    BY <1>2, <2>3, <2>4, <2>7 DEF PendingIfStanding
  <2>16. RequestKnows(s)'
    BY <1>2, <1>3, <2>2, <2>4, <2>15 DEF RequestKnows, Knows
  <2>17. HolderSees(s)'
    BY <2>2, <2>4 DEF HolderSees, Sees
  <2>18. \A u \in Shoppers \ {s} :
           /\ shopper'[u] = shopper[u]
           /\ customer'.lease = u =>
                customer.lease = u /\ customer'.pending = customer.pending
    BY <2>4
  <2> QED
    BY <2>4, <2>5, <2>6, <2>9, <2>12, <2>13, <2>14, <2>16, <2>17, <2>18, OneRequest
    DEF CheckoutInv
<1> QED
  BY <1>4, <1>5

\* A transaction is offered as the pending one, if it stands at all.
LEMMA AnswerStep ==
  ASSUME CheckoutInv, NEW s \in Shoppers, Checkouts!Answer(s)
  PROVE  CheckoutInv'
<1> USE CheckoutAssumption
<1>1. PICK t : t = shopper[s].id
  OBVIOUS
<1>2. /\ shopper[s].pc = "answer"
      /\ t \in Checkouts!Transactions /\ t # None /\ t <= created
      /\ PendingIfStanding(t)
  BY <1>1 DEF Checkouts!Answer, Checkouts!At, CheckoutInv, RequestKnows, Knows,
              Checkouts!TypeOK
<1> DEFINE r == Checkouts!Away
           new == [transaction[t] EXCEPT !.offered = TRUE]
<1>3. /\ shopper' = [shopper EXCEPT ![s] = r]
      /\ transaction' = [transaction EXCEPT ![t] = new]
      /\ UNCHANGED <<customer, created, handled>>
  BY <1>1 DEF Checkouts!Answer
<1>4. r \in RequestType /\ r.pc = "idle" /\ r.read = "none" /\ r.id = None
  BY DEF RequestType, Checkouts!Away, Checkouts!SubscriptionStatuses
<1>5. /\ new \in [status : Checkouts!TransactionStatuses,
           key : Checkouts!Keys \cup {None}, offered : BOOLEAN, granted : BOOLEAN]
      /\ new.status = transaction[t].status /\ new.key = transaction[t].key
      /\ new.granted = transaction[t].granted /\ new.offered = TRUE
  <2>1. transaction[t] \in [status : Checkouts!TransactionStatuses,
          key : Checkouts!Keys \cup {None}, offered : BOOLEAN, granted : BOOLEAN]
    BY <1>2 DEF CheckoutInv, Checkouts!TypeOK
  <2> QED
    BY <2>1
<1> HIDE DEF r, new
<1>6. /\ transaction'[t] = new /\ shopper'[s] = r
      /\ \A v \in Checkouts!Transactions \ {t} : transaction'[v] = transaction[v]
      /\ \A u \in Shoppers \ {s} : shopper'[u] = shopper[u]
  BY <1>2, <1>3 DEF CheckoutInv, Checkouts!TypeOK
<1>7. Checkouts!TypeOK'
  <2>1. /\ transaction' \in [Checkouts!Transactions ->
             [status : Checkouts!TransactionStatuses,
              key : Checkouts!Keys \cup {None}, offered : BOOLEAN, granted : BOOLEAN]]
        /\ shopper' \in [Shoppers -> RequestType]
    BY <1>3, <1>4, <1>5 DEF CheckoutInv, Checkouts!TypeOK, RequestType
  <2> QED
    BY <1>3, <2>1 DEF CheckoutInv, Checkouts!TypeOK, Checkouts!Transactions,
       Checkouts!Events, Checkouts!SubscriptionStatuses, RequestType,
       Checkouts!TransactionStatuses, Checkouts!Kinds, Checkouts!Keys
<1>8. NoneEnded' <=> NoneEnded
  BY <1>5, <1>6 DEF NoneEnded, Checkouts!Transactions
<1>9. \A v \in Checkouts!Transactions :
        /\ transaction'[v].key = transaction[v].key
        /\ transaction'[v].status = transaction[v].status
        /\ v # t => transaction'[v].offered = transaction[v].offered
  BY <1>5, <1>6
<1>10. \A v \in Checkouts!Transactions : Standing(v)' <=> Standing(v)
  BY <1>5, <1>6, <1>8 DEF Standing, Checkouts!Settling
<1>11. \A v \in Checkouts!Transactions :
         KindOf(v)' = KindOf(v) /\ (PendingIfStanding(v)' <=> PendingIfStanding(v))
  BY <1>3, <1>9, <1>10 DEF PendingIfStanding, KindOf, Checkouts!Exclusive, Checkouts!Kind
<1>12. created \in Nat
  BY DEF CheckoutInv, Checkouts!TypeOK
<1>13. TransactionsGrow
  BY <1>3, <1>8, <1>9, <1>10, <1>12 DEF TransactionsGrow
<1>14. PendingKept
  BY <1>11 DEF PendingKept
<1>15. PendingExists'
  BY <1>3, <1>11 DEF CheckoutInv, PendingExists, Checkouts!TypeOK, Checkouts!Kinds
<1>16. \A v \in Checkouts!Transactions : TransactionKnown(v)'
  <2> TAKE v \in Checkouts!Transactions
  <2>1. CASE v = t
    <3>1. v \in Nat /\ ~(v > created)
      BY <1>2, <1>12, <2>1 DEF Checkouts!Transactions
    <3>2. transaction'[v].status # "none" /\ transaction'[v].key \in Checkouts!Keys
      BY <1>2, <1>9, <2>1 DEF CheckoutInv, TransactionKnown
    <3>3. transaction'[v].offered = TRUE
      BY <1>5, <1>6, <2>1
    <3>4. PendingIfStanding(v)'
      BY <1>2, <1>11, <2>1
    <3> QED
      BY <1>3, <3>1, <3>2, <3>3, <3>4 DEF TransactionKnown, Checkouts!Keys
  <2>2. CASE v # t
    BY <1>3, <1>9, <1>11, <2>2 DEF CheckoutInv, TransactionKnown, Checkouts!Keys
  <2> QED
    BY <2>1, <2>2
<1>17. RequestKnows(s)' /\ HolderSees(s)'
  BY <1>4, <1>6 DEF RequestKnows, Knows, HolderSees, Sees
<1>18. customer'.subscription = "canceled" => ~NoneEnded'
  BY <1>3, <1>8 DEF CheckoutInv
<1> QED
  BY <1>3, <1>6, <1>7, <1>13, <1>14, <1>15, <1>16, <1>17, <1>18, OneRequest

-----------------------------------------------------------------------------
(* The theorem *)

LEMMA CheckoutInit ==
  ASSUME Checkouts!Init PROVE CheckoutInv
<1> USE CheckoutAssumption
<1>1. Checkouts!TypeOK
  BY DEF Checkouts!Init, Checkouts!TypeOK, Checkouts!Away, Checkouts!Events,
     Checkouts!SubscriptionStatuses, Checkouts!TransactionStatuses
<1>2. \A s \in Shoppers : shopper[s].pc = "idle" /\ shopper[s].id = None
                          /\ shopper[s].read = "none"
  BY DEF Checkouts!Init, Checkouts!Away
<1>3. \A s \in Shoppers : RequestKnows(s) /\ HolderSees(s)
  BY <1>2 DEF RequestKnows, Knows, HolderSees, Sees
<1>4. PendingExists
  BY DEF Checkouts!Init, PendingExists
<1>5. \A t \in Checkouts!Transactions :
        t > created /\ t \in Nat /\ transaction[t].status = "none"
        /\ transaction[t].offered = FALSE
  BY DEF Checkouts!Init, Checkouts!Transactions
<1>6. created = 0 /\ customer.subscription = "none"
  BY DEF Checkouts!Init
<1>7. \A t \in Checkouts!Transactions : TransactionKnown(t)
  BY <1>5, <1>6 DEF TransactionKnown
<1> QED
  BY <1>1, <1>3, <1>4, <1>6, <1>7 DEF CheckoutInv

LEMMA CheckoutStays ==
  ASSUME CheckoutInv, UNCHANGED checkout PROVE CheckoutInv'
<1>1. Checkouts!TypeOK'
  BY DEF CheckoutInv, checkout, Checkouts!TypeOK, Checkouts!Transactions,
     Checkouts!Events, Checkouts!SubscriptionStatuses,
     Checkouts!TransactionStatuses, Checkouts!Kinds, Checkouts!Keys
<1>2. NoneEnded' <=> NoneEnded
  BY DEF checkout, NoneEnded, Checkouts!Transactions
<1>3. \A t \in Checkouts!Transactions : Standing(t)' <=> Standing(t)
  BY <1>2 DEF checkout, Standing, Checkouts!Settling
<1> QED
  BY <1>1, <1>2, <1>3, NoRequest DEF checkout, CheckoutInv, TransactionKnown

\* The invariant of the checkouts holds of the parts the run checks together.
THEOREM CheckoutInvariance == PartsSpec => []CheckoutInv
<1>1. PartsInit => CheckoutInv
  BY CheckoutInit DEF PartsInit
<1>2. CheckoutInv /\ [PartsNext]_allVars => CheckoutInv'
  <2> SUFFICES ASSUME CheckoutInv, [PartsNext]_allVars
               PROVE  CheckoutInv'
    OBVIOUS
  <2>1. CASE UNCHANGED checkout
    BY <2>1, CheckoutStays
  <2>2. CASE Checkouts!Next
    <3>1. CASE \E s \in Shoppers : \E key \in Checkouts!Keys : Checkouts!Acquire(s, key)
      BY <3>1, AcquireStep
    <3>2. CASE \E s \in Shoppers : \/ Checkouts!Get(s) \/ Checkouts!CancelPending(s)
                                   \/ Checkouts!Check(s) \/ Checkouts!Create(s)
      BY <3>2, GetStep, CancelPendingStep, CheckStep, CreateStep
    <3>3. CASE \E s \in Shoppers : \/ Checkouts!Save(s) \/ Checkouts!Release(s)
                                   \/ Checkouts!Answer(s) \/ Checkouts!Crash(s)
      BY <3>3, SaveStep, ReleaseStep, AnswerStep, CrashStep
    <3>4. CASE Checkouts!LeaseExpires
      BY <3>4, LeaseExpiresStep
    <3>5. CASE \E t \in Checkouts!Transactions :
                 Checkouts!Pay(t) \/ Checkouts!Complete(t) \/ Checkouts!Unsubscribe(t)
      BY <3>5, StatusStep
    <3>6. CASE \E t \in Checkouts!Transactions :
                 \/ Checkouts!HandleCompleted(t)
                 \/ Checkouts!HandleUpdated(t) \/ Checkouts!HandleCanceled(t)
      BY <3>6, WebhookStep
    <3> QED
      BY <2>2, <3>1, <3>2, <3>3, <3>4, <3>5, <3>6 DEF Checkouts!Next
  <2> QED
    BY <2>1, <2>2 DEF PartsNext, LedgerStep, CheckoutStep, allVars
<1> QED
  BY <1>1, <1>2, PTL DEF PartsSpec

LEMMA SameCardinality ==
  ASSUME NEW S PROVE Checkouts!Cardinality(S) = Cardinality(S)
BY DEF Checkouts!Cardinality, Cardinality, Checkouts!IsFiniteSet, IsFiniteSet

\* What is open of an exclusive kind is the pending transaction of the kind.
LEMMA AtMostOne ==
  ASSUME NEW p, NEW S, S \subseteq {p}
  PROVE  Checkouts!Cardinality(S) <= 1
<1>1. CASE S = {}
  BY <1>1, SameCardinality, FS_EmptySet
<1>2. CASE S = {p}
  <2>1. Cardinality({p}) = 1
    BY FS_Singleton
  <2> QED
    BY <1>2, <2>1, SameCardinality
<1> QED
  BY <1>1, <1>2

\* Checkout: whatever requests outlive their lease or die, and however late the
\* events of the provider arrive, the user never has two transactions of a kind to
\* pay, and before the first cancellation of a subscription neither one to pay
\* beside one whose payment is being settled.
THEOREM CustomersPayOnce == PartsSpec => []OneOpenCheckout
<1>1. CheckoutInv => OneOpenCheckout
  <2> SUFFICES ASSUME CheckoutInv
               PROVE  Checkouts!OneOpenCheckout
    BY DEF OneOpenCheckout, CheckoutInv
  <2>1. ASSUME NEW k \in Checkouts!Kinds, Checkouts!Exclusive(k)
        PROVE  /\ Checkouts!Cardinality({t \in Checkouts!OfKind(k) : Checkouts!Payable(t)}) <= 1
               /\ NoneEnded =>
                    Checkouts!Cardinality({t \in Checkouts!OfKind(k) :
                      Checkouts!Payable(t) \/ Checkouts!Settling(t)}) <= 1
    <3> USE <2>1
    <3>1. ASSUME NEW t \in Checkouts!OfKind(k), Standing(t), transaction[t].offered
          PROVE  t = customer.pending[k]
      BY <3>1 DEF CheckoutInv, TransactionKnown, PendingIfStanding, Checkouts!OfKind, KindOf
    <3>2. {t \in Checkouts!OfKind(k) : Checkouts!Payable(t)} \subseteq {customer.pending[k]}
      BY <3>1 DEF Checkouts!Payable, Standing
    <3>3. ASSUME NoneEnded
          PROVE  {t \in Checkouts!OfKind(k) : Checkouts!Payable(t) \/ Checkouts!Settling(t)}
                   \subseteq {customer.pending[k]}
      <4> SUFFICES ASSUME NEW t \in Checkouts!OfKind(k),
                          Checkouts!Payable(t) \/ Checkouts!Settling(t)
                   PROVE  t = customer.pending[k]
        OBVIOUS
      <4>1. Standing(t)
        BY <3>3 DEF Checkouts!Payable, Standing
      <4>2. transaction[t].offered
        BY DEF CheckoutInv, TransactionKnown, Checkouts!Payable, Checkouts!Settling,
           Checkouts!OfKind
      <4> QED
        BY <3>1, <4>1, <4>2
    <3>4. Checkouts!Cardinality({t \in Checkouts!OfKind(k) : Checkouts!Payable(t)}) <= 1
      BY <3>2, AtMostOne
    <3>5. NoneEnded => Checkouts!Cardinality({t \in Checkouts!OfKind(k) :
                         Checkouts!Payable(t) \/ Checkouts!Settling(t)}) <= 1
      BY <3>3, AtMostOne
    <3> QED
      BY <3>4, <3>5
  <2> QED
    BY <2>1, Zenon DEF NoneEnded, Checkouts!OneOpenCheckout
<1> QED
  BY <1>1, CheckoutInvariance, PTL

=============================================================================
