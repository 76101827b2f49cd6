------------------------------ MODULE Checkout -------------------------------
(***************************************************************************)
(* Checkouts of one customer: requests prepare a Paddle transaction under  *)
(* a durable lease of five minutes, remember it as pending and hand it to  *)
(* the user, who pays or not; Paddle tells of payments and of the end of   *)
(* subscriptions by events that arrive late and in any order.  A slow      *)
(* request may outlive its lease, and any request may die.                 *)
(***************************************************************************)
EXTENDS Naturals, FiniteSets

CONSTANTS
  None,
  Shoppers,        \* requests of the customer under way at the same time
  Plans,           \* keys of plan checkouts
  Packs,           \* keys of credit packs
  MaxTransactions  \* bound on the transactions ever created

VARIABLES
  customer,        \* Customer: lease, whether it is over, pending checkouts,
                   \* and the status of the subscription
  transaction,     \* Paddle's transactions
  created,         \* how many there are
  shopper,         \* where a request is, its key, and what it read
  handled          \* events that are marked as processed

vars == <<customer, transaction, created, shopper, handled>>

Transactions == 1..MaxTransactions
Kinds == {"plan", "pack"}
Kind(key) == IF key \in Plans THEN "plan" ELSE "pack"
Keys == Plans \cup Packs

\* "draft" is draft or ready, "paid" is paid or billed; "ended" is completed,
\* and the subscription it started was cancelled since.  A subscription is
\* "active" with every status of Paddle's but "canceled".
TransactionStatuses ==
  {"none", "draft", "canceled", "paid", "completed", "ended"}
SubscriptionStatuses == {"none", "active", "canceled"}
Events == {"completed", "canceled"} \X Transactions

TypeOK ==
  /\ customer \in [lease : Shoppers \cup {None}, over : BOOLEAN,
                   pending : [Kinds -> Transactions \cup {None}],
                   subscription : SubscriptionStatuses]
  /\ transaction \in [Transactions ->
       [status : TransactionStatuses, key : Keys \cup {None},
        offered : BOOLEAN, granted : BOOLEAN]]
  /\ created \in 0..MaxTransactions
  /\ shopper \in [Shoppers ->
       [pc : {"idle", "get", "cancel", "check", "create", "save", "release",
              "answer"},
        key : Keys \cup {None}, read : SubscriptionStatuses,
        id : Transactions \cup {None}]]
  /\ handled \subseteq Events

Away == [pc |-> "idle", key |-> None, read |-> "none", id |-> None]

Init ==
  /\ customer = [lease |-> None, over |-> FALSE,
                 pending |-> [k \in Kinds |-> None], subscription |-> "none"]
  /\ transaction = [t \in Transactions |->
       [status |-> "none", key |-> None, offered |-> FALSE, granted |-> FALSE]]
  /\ created = 0
  /\ shopper = [s \in Shoppers |-> Away]
  /\ handled = {}

At(s, place) == shopper[s].pc = place

\* What a request no longer needs is forgotten.
Go(s, place, t) ==
  shopper' = [shopper EXCEPT ![s] =
    [pc |-> place, key |-> IF place = "release" THEN None ELSE shopper[s].key,
     read |-> "none", id |-> t]]

Afresh(key) == IF key \in Plans THEN "check" ELSE "create"
SetStatus(t, status) == transaction' = [transaction EXCEPT ![t].status = status]

-----------------------------------------------------------------------------
(* checkout *)

\* The lease, and with it the customer as it is now.  A running subscription
\* refuses another plan; a pending checkout of the kind is looked up.
Acquire(s, key) ==
  /\ At(s, "idle") /\ (customer.lease = None \/ customer.over)
  /\ customer' = [customer EXCEPT !.lease = s, !.over = FALSE]
  /\ LET refused == key \in Plans /\ customer.subscription = "active"
         pending == IF refused THEN None ELSE customer.pending[Kind(key)]
     IN shopper' = [shopper EXCEPT ![s] =
          [pc |-> IF refused THEN "release"
                  ELSE IF pending # None THEN "get" ELSE Afresh(key),
           key |-> IF refused THEN None ELSE key,
           read |-> IF pending = None THEN "none" ELSE customer.subscription,
           id |-> pending]]
  /\ UNCHANGED <<transaction, created, handled>>

\* What to do about the pending transaction: forget it when it was cancelled, is
\* a pack of another key, the pack was granted, or the subscription that it
\* started has been cancelled; while it can be paid, hand it out again or cancel
\* it for another plan; refuse while it is being paid or verified.
Get(s) ==
  /\ At(s, "get")
  /\ LET t == shopper[s].id
         key == shopper[s].key
         same == transaction[t].key = key
         status == transaction[t].status
         resubscribing == /\ key \in Plans /\ shopper[s].read = "canceled"
                          /\ status \in {"completed", "ended"}
         bought == /\ key \in Packs /\ status = "completed"
                   /\ transaction[t].granted
     IN IF \/ key \in Packs /\ ~same
           \/ resubscribing \/ bought \/ status = "canceled"
        THEN Go(s, Afresh(key), None)
        ELSE IF status = "draft"
        THEN Go(s, IF same THEN "release" ELSE "cancel", t)
        ELSE Go(s, "release", None)
  /\ UNCHANGED <<customer, transaction, created, handled>>

\* Paddle refuses to cancel what is no longer a draft, and the request fails.
CancelPending(s) ==
  /\ At(s, "cancel")
  /\ LET t == shopper[s].id
     IN IF transaction[t].status = "draft"
        THEN SetStatus(t, "canceled") /\ Go(s, "check", None)
        ELSE Go(s, "release", None) /\ UNCHANGED transaction
  /\ UNCHANGED <<customer, created, handled>>

\* A plan asks once more for a subscription.
Check(s) ==
  /\ At(s, "check")
  /\ Go(s, IF customer.subscription = "active" THEN "release" ELSE "create", None)
  /\ UNCHANGED <<customer, transaction, created, handled>>

\* The new transaction; Paddle's answer may be lost, and the request fails.
Create(s) ==
  /\ At(s, "create") /\ created < MaxTransactions
  /\ LET t == created + 1
     IN /\ created' = t
        /\ transaction' = [transaction EXCEPT
             ![t].status = "draft", ![t].key = shopper[s].key]
        /\ Go(s, "save", t) \/ Go(s, "release", None)
  /\ UNCHANGED <<customer, handled>>

\* Mutant: the checkout is saved whoever holds the lease.
Mutant_Holds(s) == TRUE

\* The filter of the save: the token, not the time.
Holds(s) == customer.lease = s

\* Only a transaction that was saved as pending is handed out.
Save(s) ==
  /\ At(s, "save")
  /\ IF Holds(s)
     THEN /\ customer' = [customer EXCEPT
               !.pending[Kind(shopper[s].key)] = shopper[s].id]
          /\ Go(s, "release", shopper[s].id)
     ELSE Go(s, "release", None) /\ UNCHANGED customer
  /\ UNCHANGED <<transaction, created, handled>>

Release(s) ==
  /\ At(s, "release")
  /\ customer' = IF customer.lease = s
                 THEN [customer EXCEPT !.lease = None, !.over = FALSE]
                 ELSE customer
  /\ shopper' = [shopper EXCEPT ![s] =
       IF shopper[s].id = None THEN Away
       ELSE [Away EXCEPT !.pc = "answer", !.id = shopper[s].id]]
  /\ UNCHANGED <<transaction, created, handled>>

\* The answer reaches the user.
Answer(s) ==
  /\ At(s, "answer")
  /\ transaction' = [transaction EXCEPT ![shopper[s].id].offered = TRUE]
  /\ shopper' = [shopper EXCEPT ![s] = Away]
  /\ UNCHANGED <<customer, created, handled>>

\* The process dies, or a call of the request fails with nothing to repair.
Crash(s) ==
  /\ ~At(s, "idle")
  /\ shopper' = [shopper EXCEPT ![s] = Away]
  /\ UNCHANGED <<customer, transaction, created, handled>>

\* Five minutes pass, whatever the holder of the lease does.
LeaseExpires ==
  /\ customer.lease # None /\ ~customer.over
  /\ customer' = [customer EXCEPT !.over = TRUE]
  /\ UNCHANGED <<transaction, created, shopper, handled>>

-----------------------------------------------------------------------------
(* The user and Paddle *)

Pay(t) ==
  /\ transaction[t].status = "draft" /\ transaction[t].offered
  /\ SetStatus(t, "paid")
  /\ UNCHANGED <<customer, created, shopper, handled>>

Complete(t) ==
  /\ transaction[t].status = "paid"
  /\ SetStatus(t, "completed")
  /\ UNCHANGED <<customer, created, shopper, handled>>

\* The subscription that a plan's transaction started is cancelled.
Unsubscribe(t) ==
  /\ transaction[t].status = "completed" /\ transaction[t].key \in Plans
  /\ SetStatus(t, "ended")
  /\ UNCHANGED <<customer, created, shopper, handled>>

-----------------------------------------------------------------------------
(* Webhooks: handled, then marked as processed, with a crash in between *)

Processed(event) == handled' = handled \/ handled' = handled \cup {event}

\* transaction.completed grants the credits, and makes the customer's
\* subscription that of the transaction.
HandleCompleted(t) ==
  /\ transaction[t].status \in {"completed", "ended"}
  /\ <<"completed", t>> \notin handled
  /\ transaction' = [transaction EXCEPT ![t].granted = TRUE]
  /\ customer' = IF transaction[t].key \in Plans
                 THEN [customer EXCEPT !.subscription = "active"] ELSE customer
  /\ Processed(<<"completed", t>>)
  /\ UNCHANGED <<created, shopper>>

\* subscription.created, activated or updated: any number of events, sent while
\* the subscription was running.
HandleUpdated(t) ==
  /\ transaction[t].status \in {"completed", "ended"}
  /\ transaction[t].key \in Plans
  /\ customer' = [customer EXCEPT !.subscription = "active"]
  /\ UNCHANGED <<transaction, created, shopper, handled>>

\* subscription.canceled, of whichever subscription the customer had.
HandleCanceled(t) ==
  /\ transaction[t].status = "ended"
  /\ <<"canceled", t>> \notin handled
  /\ customer' = [customer EXCEPT !.subscription = "canceled"]
  /\ Processed(<<"canceled", t>>)
  /\ UNCHANGED <<transaction, created, shopper>>

Next ==
  \/ \E s \in Shoppers :
       \/ \E key \in Keys : Acquire(s, key)
       \/ Get(s) \/ CancelPending(s) \/ Check(s) \/ Create(s) \/ Save(s)
       \/ Release(s) \/ Answer(s) \/ Crash(s)
  \/ LeaseExpires
  \/ \E t \in Transactions :
       \/ Pay(t) \/ Complete(t) \/ Unsubscribe(t)
       \/ HandleCompleted(t) \/ HandleUpdated(t) \/ HandleCanceled(t)

Spec == Init /\ [][Next]_vars

-----------------------------------------------------------------------------
(* Properties *)

Payable(t) == transaction[t].status = "draft" /\ transaction[t].offered

\* Paid for, and nothing has come of it yet that would allow another one.
Settling(t) ==
  \/ transaction[t].status = "paid"
  \/ transaction[t].status = "completed"
       /\ (transaction[t].key \in Packs => ~transaction[t].granted)

OfKind(k) == {t \in Transactions : transaction[t].key # None
                                     /\ Kind(transaction[t].key) = k}

\* A checkout of another plan finds the pending one, a checkout of another pack
\* does not: packs exclude each other only when there is one.
Exclusive(k) == k = "plan" \/ \A a, b \in Packs : a = b

\* The user never has two transactions of an exclusive kind to pay, although
\* requests outlive their lease; and until the first cancellation of a
\* subscription, neither one to pay beside one paid, however late the events
\* arrive: the customer is not charged twice for one wish.
OneOpenCheckout ==
  \A k \in Kinds : Exclusive(k) =>
    /\ Cardinality({t \in OfKind(k) : Payable(t)}) <= 1
    /\ (\A t \in Transactions : transaction[t].status # "ended") =>
         Cardinality({t \in OfKind(k) : Payable(t) \/ Settling(t)}) <= 1

=============================================================================
