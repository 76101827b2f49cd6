------------------------- MODULE AiExecutionProofs --------------------------
(***************************************************************************)
(* Proofs about AiExecution, for any number of requests, any price and any *)
(* bound on the retries.                                                   *)
(*                                                                         *)
(* What is promised rests on three facts that no action checks: a token    *)
(* is set once in a generation, so a request that still runs in the        *)
(* current generation owns the operation; a result is never erased, so a   *)
(* listing of the cron that shows one is not stale in that respect; and a  *)
(* result that is not charged belongs to a request about to settle, so no  *)
(* other can fail the operation under it.                                  *)
(***************************************************************************)
EXTENDS AiExecution, TLAPS

-----------------------------------------------------------------------------
(* The inductive invariant *)

\* Requests between their claim and their settlement.
Running(c) == pc[c] \in {"work", "publish", "fail", "settle"}

\* The charge is all or nothing, and the hold is what is left of the budget.
Budget ==
  /\ op.charged \in {0, op.authorized}
  /\ op.status = "none" =>
       /\ op.generation = 0 /\ op.charged = 0
       /\ op.executionToken = None /\ op.result = None
  /\ op.status = "reserved" => op.held = op.authorized - op.charged
  /\ op.status = "settled" => op.held = 0

\* Nothing is charged without a result, and a result no execution is in charge
\* of is charged already.
ResultCharged ==
  /\ op.charged > 0 => op.result # None
  /\ op.result # None /\ (op.status = "settled" \/ op.executionToken = None)
       => op.charged = op.authorized

\* A running request carries its own token of a generation that was reached,
\* and owns the operation if that generation is the current one.
FencesHold ==
  \A c \in Callers : Running(c) =>
    /\ op.status # "none"
    /\ fence[c].executionToken = <<c, fence[c].generation>>
    /\ fence[c].generation <= op.generation
    /\ fence[c].generation = op.generation => Fenced(fence[c])

\* Only the request that is about to settle it owns an uncharged result.
PublisherSettles ==
  \A c \in Callers :
    /\ Running(c) /\ Fenced(fence[c]) /\ pc[c] # "settle" /\ op.result # None
         => op.charged = op.authorized
    /\ pc[c] = "settle" =>
         /\ op.result # None
         /\ Fenced(fence[c]) \/ op.charged = op.authorized

\* A request that has an answer saw a durable result, and one that is done has
\* an answer that is paid.
AnswersPaid ==
  \A c \in Callers :
    /\ pc[c] = "replay" => op.result # None
    /\ answer[c] # None =>
         /\ op.result # None
         /\ pc[c] \in {"replay", "settle", "idle"}
         /\ pc[c] = "idle" => op.charged = op.authorized

\* What the cron read is out of date in one direction only.
SnapshotHolds == snapshot # None /\ snapshot.result # None => op.result # None

Inv ==
  /\ TypeOK /\ Budget /\ ResultCharged /\ FencesHold /\ PublisherSettles
  /\ AnswersPaid /\ SnapshotHolds /\ OneExecutionPerGeneration

-----------------------------------------------------------------------------
(* The transactions *)

\* A settlement at nothing or at the whole budget changes only the status, the
\* hold and the charge, and never lowers the charge.
LEMMA SettledOperation ==
  ASSUME TypeOK, Budget, NEW x \in {0, op.authorized}
  PROVE  /\ Settled(x) \in AiOperation
         /\ Settled(x).authorized = op.authorized
         /\ Settled(x).generation = op.generation
         /\ Settled(x).executionToken = op.executionToken
         /\ Settled(x).result = op.result
         /\ Settled(x).status = "none" <=> op.status = "none"
         /\ \/ Settled(x) = op
            \/ /\ op.status = "reserved" /\ op.charged <= x
               /\ Settled(x).status = "settled"
               /\ Settled(x).charged = x /\ Settled(x).held = 0
<1>1. op \in AiOperation /\ x \in Nat
  BY DEF TypeOK, AiOperation
<1>2. CASE op.status = "reserved" /\ op.charged <= x
  <2> DEFINE r == [op EXCEPT !.status = "settled", !.held = 0, !.charged = x]
  <2>1. Settled(x) = r
    BY <1>2 DEF Settled
  <2>2. /\ r.status = "settled" /\ r.held = 0 /\ r.charged = x
        /\ r.authorized = op.authorized /\ r.generation = op.generation
        /\ r.executionToken = op.executionToken /\ r.result = op.result
    BY <1>1 DEF AiOperation
  <2>3. r \in AiOperation
    BY <1>1 DEF AiOperation
  <2> HIDE DEF r
  <2>4. QED
    BY <1>2, <2>1, <2>2, <2>3
<1>3. CASE ~(op.status = "reserved" /\ op.charged <= x)
  BY <1>1, <1>3 DEF Settled
<1>4. QED
  BY <1>2, <1>3

\* An operation with a result settles at its whole budget, or has been.
LEMMA SettledInFull ==
  ASSUME TypeOK, Budget, ResultCharged, op.result # None
  PROVE  Settled(op.authorized).charged = op.authorized
BY DEF TypeOK, AiOperation, Settled, Budget, ResultCharged

\* What a settlement means for the conjuncts about the document alone: it is
\* at nothing where there is no result, and in full where there is one.
LEMMA SettlementKeeps ==
  ASSUME TypeOK, Budget, ResultCharged, NEW x \in {0, op.authorized},
         op' = Settled(x), op.result = None => x = 0,
         op.result # None => x = op.authorized \/ op.charged = op.authorized
  PROVE  /\ Budget'
         /\ ResultCharged'
         /\ op' \in AiOperation /\ op'.authorized = op.authorized
         /\ op'.generation = op.generation /\ op'.result = op.result
         /\ op'.executionToken = op.executionToken
         /\ op'.status = "none" <=> op.status = "none"
         /\ op.charged = op.authorized => op'.charged = op.authorized
<1>1. /\ op' \in AiOperation
      /\ op'.authorized = op.authorized /\ op'.generation = op.generation
      /\ op'.executionToken = op.executionToken /\ op'.result = op.result
      /\ op'.status = "none" <=> op.status = "none"
      /\ \/ op' = op
         \/ /\ op.status = "reserved" /\ op.charged <= x
            /\ op'.status = "settled" /\ op'.charged = x /\ op'.held = 0
  BY SettledOperation
<1>2. op \in AiOperation
  BY DEF TypeOK
<1>3. Budget' /\ (op.charged = op.authorized => op'.charged = op.authorized)
  BY <1>1, <1>2 DEF Budget, AiOperation
<1>4. ResultCharged'
  BY <1>1, <1>2 DEF ResultCharged, Budget, AiOperation
<1> QED BY <1>1, <1>3, <1>4

-----------------------------------------------------------------------------
(* Every action preserves the invariant *)

LEMMA InvInit == Init => Inv
<1> SUFFICES ASSUME Init PROVE Inv
  OBVIOUS
<1>1. TypeOK
  BY PriceAssumption DEF Init, TypeOK, AiOperation, Fence, Places
<1>2. Budget /\ ResultCharged /\ SnapshotHolds
  BY DEF Init, Budget, ResultCharged, SnapshotHolds
<1>3. FencesHold /\ PublisherSettles /\ AnswersPaid
      /\ OneExecutionPerGeneration
  BY DEF Init, FencesHold, PublisherSettles, AnswersPaid, Running,
         OneExecutionPerGeneration
<1> QED BY <1>1, <1>2, <1>3 DEF Inv

LEMMA InvPropose ==
  ASSUME Inv, NEW c \in Callers, Propose(c)
  PROVE  Inv'
<1>1. /\ op' \in AiOperation /\ op'.status # "none"
      /\ op'.generation = op.generation /\ op'.charged = op.charged
      /\ op'.executionToken = op.executionToken /\ op'.result = op.result
      /\ \/ op' = op
         \/ /\ op.status = "none" /\ op'.status = "reserved"
            /\ op'.authorized = Price /\ op'.held = Price
  BY PriceAssumption DEF Inv, TypeOK, AiOperation, Propose
<1>2. /\ pc' = [pc EXCEPT ![c] = "read"] /\ pc[c] = "idle"
      /\ answer' = [answer EXCEPT ![c] = None]
      /\ fence' = fence /\ snapshot' = snapshot
  BY DEF Propose
<1>3. TypeOK'
  BY <1>1, <1>2 DEF Inv, TypeOK, Places
<1>4. Budget' /\ ResultCharged' /\ SnapshotHolds'
  BY <1>1, <1>2 DEF Inv, TypeOK, AiOperation, Budget, ResultCharged, SnapshotHolds
<1>5. FencesHold'
  BY <1>1, <1>2 DEF Inv, TypeOK, FencesHold, Running, Fenced
<1>6. PublisherSettles'
  BY <1>1, <1>2 DEF Inv, TypeOK, PublisherSettles, FencesHold, Running, Fenced
<1>7. AnswersPaid'
  BY <1>1, <1>2 DEF Inv, TypeOK, AnswersPaid, Budget
<1>8. OneExecutionPerGeneration'
  BY <1>2 DEF Inv, TypeOK, OneExecutionPerGeneration
<1> QED BY <1>3, <1>4, <1>5, <1>6, <1>7, <1>8 DEF Inv

LEMMA InvRead ==
  ASSUME Inv, NEW c \in Callers, ReadOperation(c)
  PROVE  Inv'
<1>1. /\ op' = op /\ fence' = fence /\ snapshot' = snapshot
      /\ pc[c] = "read" /\ pc' = [pc EXCEPT ![c] = pc'[c]]
      /\ pc'[c] \in {"replay", "reopen", "claim"}
      /\ answer' = [answer EXCEPT ![c] = op.result]
      /\ op.result # None <=> pc'[c] = "replay"
  BY DEF Inv, TypeOK, ReadOperation
<1>2. TypeOK'
  BY <1>1 DEF Inv, TypeOK, AiOperation, Places
<1>3. Budget' /\ ResultCharged' /\ SnapshotHolds'
  BY <1>1 DEF Inv, Budget, ResultCharged, SnapshotHolds
<1>4. FencesHold' /\ PublisherSettles'
  BY <1>1 DEF Inv, TypeOK, FencesHold, PublisherSettles, Running, Fenced
<1>5. AnswersPaid'
  BY <1>1 DEF Inv, TypeOK, AnswersPaid
<1>6. OneExecutionPerGeneration'
  BY <1>1 DEF Inv, TypeOK, OneExecutionPerGeneration
<1> QED BY <1>2, <1>3, <1>4, <1>5, <1>6 DEF Inv

\* A request that comes to rest by a settlement leaves the invariant to what
\* the settlement does to the document.
LEMMA InvSettled ==
  ASSUME Inv, NEW c \in Callers, NEW x \in {0, op.authorized},
         op' = Settled(x), op.result = None => x = 0,
         op.result # None => x = op.authorized \/ op.charged = op.authorized,
         pc' = [pc EXCEPT ![c] = "idle"],
         answer[c] # None => op'.charged = op'.authorized,
         UNCHANGED <<fence, answer, snapshot>>
  PROVE  Inv'
<1>1. /\ Budget' /\ ResultCharged'
      /\ op' \in AiOperation /\ op'.authorized = op.authorized
      /\ op'.generation = op.generation /\ op'.result = op.result
      /\ op'.executionToken = op.executionToken
      /\ op'.status = "none" <=> op.status = "none"
      /\ op.charged = op.authorized => op'.charged = op.authorized
  BY SettlementKeeps DEF Inv
<1>2. TypeOK'
  BY <1>1 DEF Inv, TypeOK, Places
<1>3. FencesHold'
  BY <1>1 DEF Inv, TypeOK, FencesHold, Running, Fenced
<1>4. PublisherSettles'
  BY <1>1 DEF Inv, TypeOK, PublisherSettles, Running, Fenced
<1>5. AnswersPaid'
  BY <1>1 DEF Inv, TypeOK, AnswersPaid
<1>6. SnapshotHolds' /\ OneExecutionPerGeneration'
  BY <1>1 DEF Inv, TypeOK, SnapshotHolds, OneExecutionPerGeneration
<1> QED BY <1>1, <1>2, <1>3, <1>4, <1>5, <1>6 DEF Inv

\* So does one that stops without a change, if what it answered is paid.
LEMMA InvStopped ==
  ASSUME Inv, NEW c \in Callers, op' = op,
         pc' = [pc EXCEPT ![c] = "idle"],
         \/ answer' = answer /\ (answer[c] # None => op.charged = op.authorized)
         \/ answer' = [answer EXCEPT ![c] = None],
         UNCHANGED <<fence, snapshot>>
  PROVE  Inv'
<1>1. TypeOK'
  BY DEF Inv, TypeOK, Places
<1>2. Budget' /\ ResultCharged' /\ SnapshotHolds'
  BY DEF Inv, Budget, ResultCharged, SnapshotHolds
<1>3. FencesHold' /\ PublisherSettles' /\ OneExecutionPerGeneration'
  BY DEF Inv, TypeOK, FencesHold, PublisherSettles, Running, Fenced,
         OneExecutionPerGeneration
<1>4. AnswersPaid'
  BY DEF Inv, TypeOK, AnswersPaid
<1> QED BY <1>1, <1>2, <1>3, <1>4 DEF Inv

LEMMA InvReplay ==
  ASSUME Inv, NEW c \in Callers, Replay(c)
  PROVE  Inv'
<1>1. op.result # None
  BY DEF Inv, AnswersPaid, Replay
<1>2. op' = Settled(op.authorized) /\ op'.charged = op.authorized
  BY <1>1, SettledInFull DEF Inv, Replay
<1>3. op'.authorized = op.authorized
  BY <1>2, SettledOperation DEF Inv
<1> QED BY <1>1, <1>2, <1>3, InvSettled DEF Replay

\* A failing request that still owns the operation finds no result under it
\* that is not paid, and its settlement at nothing cannot lower a charge.
LEMMA InvFail ==
  ASSUME Inv, NEW c \in Callers, Fail(c)
  PROVE  Inv'
<1>1. /\ pc[c] = "fail" /\ answer[c] = None
      /\ pc' = [pc EXCEPT ![c] = "idle"] /\ UNCHANGED <<fence, answer, snapshot>>
  BY DEF Inv, AnswersPaid, Fail
<1>2. CASE Fenced(fence[c])
  <2>1. op.result # None => op.charged = op.authorized
    BY <1>1, <1>2 DEF Inv, PublisherSettles, Running
  <2>2. op' = Settled(0)
    BY <1>2 DEF Fail
  <2> QED BY <1>1, <2>1, <2>2, InvSettled
<1>3. CASE ~Fenced(fence[c])
  <2>1. op' = op
    BY <1>3 DEF Fail
  <2> QED BY <1>1, <2>1, InvStopped
<1> QED BY <1>2, <1>3

LEMMA InvSettleWork ==
  ASSUME Inv, NEW c \in Callers, SettleWork(c)
  PROVE  Inv'
<1>1. /\ op.result # None
      /\ Fenced(fence[c]) \/ op.charged = op.authorized
      /\ pc' = [pc EXCEPT ![c] = "idle"] /\ UNCHANGED <<fence, answer, snapshot>>
  BY DEF Inv, PublisherSettles, SettleWork
<1>2. CASE Fenced(fence[c])
  <2>1. op' = Settled(op.authorized) /\ op'.charged = op.authorized
    BY <1>1, <1>2, SettledInFull DEF Inv, SettleWork
  <2>2. op'.authorized = op.authorized
    BY <2>1, SettledOperation DEF Inv
  <2> QED BY <1>1, <2>1, <2>2, InvSettled
<1>3. CASE ~Fenced(fence[c])
  <2>1. op' = op /\ op.charged = op.authorized
    BY <1>1, <1>3 DEF SettleWork
  <2> QED BY <1>1, <2>1, InvStopped
<1> QED BY <1>2, <1>3

\* A request that reopens may have read the operation before another one
\* published and settled it: the result it then finds is paid.
LEMMA InvReopen ==
  ASSUME Inv, NEW c \in Callers, Reopen(c)
  PROVE  Inv'
<1>1. /\ pc' = [pc EXCEPT ![c] = "claim"] /\ pc[c] = "reopen"
      /\ answer[c] = None /\ UNCHANGED <<fence, answer, snapshot>>
  BY DEF Inv, AnswersPaid, Reopen
<1>2. /\ op' \in AiOperation /\ op'.authorized = op.authorized
      /\ op'.charged = op.charged /\ op'.result = op.result
      /\ op'.status = "none" <=> op.status = "none"
      /\ \/ op' = op
         \/ /\ op.status = "settled" /\ op'.status = "reserved"
            /\ op'.held = op.authorized - op.charged
            /\ op'.generation = op.generation + 1 /\ op'.executionToken = None
  <2>1. op \in AiOperation /\ op.authorized - op.charged \in Nat
    BY DEF Inv, TypeOK, Budget, AiOperation
  <2>2. CASE op.status = "settled"
    <3> DEFINE r == [op EXCEPT !.status = "reserved",
                               !.held = op.authorized - op.charged,
                               !.generation = @ + 1, !.executionToken = None,
                               !.aged = FALSE]
    <3>1. op' = r
      BY <2>2 DEF Reopen, Reopened
    <3>2. r \in AiOperation
      <4>1. op.generation + 1 \in Nat
        BY <2>1 DEF AiOperation
      <4>2. None \in Tokens \cup {None}
        OBVIOUS
      <4> QED BY <2>1, <4>1, <4>2 DEF AiOperation
    <3>3. /\ r.status = "reserved" /\ r.held = op.authorized - op.charged
          /\ r.generation = op.generation + 1 /\ r.executionToken = None
          /\ r.authorized = op.authorized /\ r.charged = op.charged
          /\ r.result = op.result
      BY <2>1 DEF AiOperation
    <3> HIDE DEF r
    <3> QED BY <2>2, <3>1, <3>2, <3>3
  <2>3. CASE op.status # "settled"
    BY <2>1, <2>3 DEF Reopen, Reopened
  <2> QED BY <2>2, <2>3
<1>3. TypeOK'
  BY <1>1, <1>2 DEF Inv, TypeOK, Places
<1>4. Budget'
  BY <1>2 DEF Inv, TypeOK, AiOperation, Budget
<1>5. ResultCharged' /\ SnapshotHolds'
  BY <1>1, <1>2 DEF Inv, ResultCharged, SnapshotHolds
<1>6. FencesHold'
  BY <1>1, <1>2 DEF Inv, TypeOK, AiOperation, Fence, FencesHold, Running, Fenced
<1>7. PublisherSettles'
  BY <1>1, <1>2 DEF Inv, TypeOK, AiOperation, Fence, FencesHold, ResultCharged,
                    PublisherSettles, Running, Fenced
<1>8. AnswersPaid' /\ OneExecutionPerGeneration'
  BY <1>1, <1>2 DEF Inv, TypeOK, AnswersPaid, OneExecutionPerGeneration
<1> QED BY <1>3, <1>4, <1>5, <1>6, <1>7, <1>8 DEF Inv

\* No token is set yet in this generation, so no other request runs in it.
LEMMA InvClaim ==
  ASSUME Inv, NEW c \in Callers, Claim(c)
  PROVE  Inv'
<1> DEFINE token == <<c, op.generation>>
<1>1. /\ op.status = "reserved" /\ op.executionToken = None
      /\ op' = [op EXCEPT !.executionToken = token, !.aged = FALSE]
      /\ fence' = [fence EXCEPT ![c] =
                    [generation |-> op.generation, executionToken |-> token]]
      /\ pc' = [pc EXCEPT ![c] = "work"] /\ pc[c] = "claim"
      /\ answer[c] = None /\ UNCHANGED <<answer, snapshot>>
  BY DEF Inv, AnswersPaid, Claim, Claimable
<1>2. op \in AiOperation /\ op.generation \in Nat
  BY DEF Inv, TypeOK, AiOperation
<1>3. token \in Tokens /\ token # None
  BY <1>2, CallersAssumption DEF Tokens
<1>4. \A d \in Callers : Running(d) => fence[d].generation # op.generation
  BY <1>1, CallersAssumption DEF Inv, TypeOK, Fence, FencesHold, Fenced
<1>5. /\ op' \in AiOperation /\ op'.executionToken = token
      /\ op'.status = op.status /\ op'.generation = op.generation
      /\ op'.authorized = op.authorized /\ op'.charged = op.charged
      /\ op'.held = op.held /\ op'.result = op.result
  <2> HIDE DEF token
  <2> QED BY <1>1, <1>2, <1>3 DEF AiOperation
<1>6. TypeOK'
  <2>1. [generation |-> op.generation, executionToken |-> token] \in Fence
    BY <1>2, <1>3 DEF Fence
  <2> HIDE DEF token
  <2> QED BY <1>1, <1>5, <2>1 DEF Inv, TypeOK, Places
<1>7. Budget' /\ ResultCharged' /\ SnapshotHolds'
  BY <1>1, <1>5 DEF Inv, Budget, ResultCharged, SnapshotHolds
<1>8. /\ fence'[c].generation = op.generation
      /\ fence'[c].executionToken = token
      /\ \A d \in Callers \ {c} : fence'[d] = fence[d] /\ pc'[d] = pc[d]
      /\ pc'[c] = "work"
  BY <1>1 DEF Inv, TypeOK
<1>9. FencesHold'
  BY <1>1, <1>2, <1>4, <1>5, <1>8 DEF Inv, FencesHold, Running, Fenced
<1>10. PublisherSettles'
  <2>1. op.result # None => op.charged = op.authorized
    BY <1>1 DEF Inv, ResultCharged
  <2> QED BY <1>4, <1>5, <1>8, <2>1 DEF Inv, PublisherSettles, Running, Fenced
<1>11. AnswersPaid'
  BY <1>1, <1>5, <1>8 DEF Inv, AnswersPaid
<1>12. OneExecutionPerGeneration'
  BY <1>4, <1>8 DEF Inv, OneExecutionPerGeneration, Running
<1> QED BY <1>6, <1>7, <1>9, <1>10, <1>11, <1>12 DEF Inv

LEMMA InvPublish ==
  ASSUME Inv, NEW c \in Callers, Publish(c)
  PROVE  Inv'
<1> DEFINE token == fence[c].executionToken
<1>1. /\ op.status = "reserved" /\ Fenced(fence[c])
      /\ op' = [op EXCEPT !.result = token]
      /\ answer' = [answer EXCEPT ![c] = token]
      /\ pc' = [pc EXCEPT ![c] = "settle"] /\ pc[c] = "publish"
      /\ UNCHANGED <<fence, snapshot>>
  BY DEF Publish, Publishable
<1>2. op \in AiOperation /\ fence[c] \in Fence
  BY DEF Inv, TypeOK
<1>3. token = <<c, op.generation>> /\ token \in Tokens /\ token # None
  <2>1. token = <<c, op.generation>>
    BY <1>1 DEF Inv, FencesHold, Running, Fenced
  <2>2. op.generation \in Nat
    BY <1>2 DEF AiOperation
  <2>3. <<c, op.generation>> \in Tokens
    BY <2>2 DEF Tokens
  <2> QED BY <2>1, <2>3, CallersAssumption DEF Tokens
<1>4. /\ op' \in AiOperation /\ op'.result = token
      /\ op'.status = op.status /\ op'.generation = op.generation
      /\ op'.authorized = op.authorized /\ op'.charged = op.charged
      /\ op'.held = op.held /\ op'.executionToken = op.executionToken
  <2> HIDE DEF token
  <2> QED BY <1>1, <1>2, <1>3 DEF AiOperation
<1>5. op.executionToken = token
  BY <1>1 DEF Fenced
<1>6. /\ pc'[c] = "settle" /\ answer'[c] = token
      /\ \A d \in Callers \ {c} : pc'[d] = pc[d] /\ answer'[d] = answer[d]
  BY <1>1 DEF Inv, TypeOK
<1>7. TypeOK'
  <2> HIDE DEF token
  <2> QED BY <1>1, <1>3, <1>4 DEF Inv, TypeOK, Places
<1>8. Budget' /\ ResultCharged' /\ SnapshotHolds'
  BY <1>1, <1>3, <1>4, <1>5 DEF Inv, Budget, ResultCharged, SnapshotHolds
<1>9. FencesHold' /\ OneExecutionPerGeneration'
  BY <1>1, <1>4, <1>6
     DEF Inv, FencesHold, OneExecutionPerGeneration, Running, Fenced
<1>10. PublisherSettles'
  <2>1. \A d \in Callers \ {c} : Running(d) => ~Fenced(fence[d])
    <3> SUFFICES ASSUME NEW d \in Callers, Running(d), Fenced(fence[d])
                 PROVE  d = c
      OBVIOUS
    <3>1. op.executionToken = <<d, op.generation>>
      BY DEF Inv, FencesHold, Fenced
    <3> QED BY <1>3, <1>5, <3>1
  <2> QED BY <1>1, <1>3, <1>4, <1>6, <2>1
             DEF Inv, PublisherSettles, Running, Fenced
<1>11. AnswersPaid'
  BY <1>1, <1>3, <1>4, <1>6 DEF Inv, AnswersPaid
<1> QED BY <1>7, <1>8, <1>9, <1>10, <1>11 DEF Inv

LEMMA InvAge ==
  ASSUME Inv, Age
  PROVE  Inv'
<1>1. /\ op' \in AiOperation /\ op'.result = op.result
      /\ op'.status = op.status /\ op'.generation = op.generation
      /\ op'.authorized = op.authorized /\ op'.charged = op.charged
      /\ op'.held = op.held /\ op'.executionToken = op.executionToken
      /\ UNCHANGED <<pc, fence, answer, snapshot>>
  BY DEF Inv, TypeOK, AiOperation, Age
<1>2. TypeOK' /\ Budget' /\ ResultCharged' /\ SnapshotHolds'
  BY <1>1 DEF Inv, TypeOK, Budget, ResultCharged, SnapshotHolds
<1>3. FencesHold' /\ OneExecutionPerGeneration'
  BY <1>1 DEF Inv, FencesHold, OneExecutionPerGeneration, Running, Fenced
<1>4. PublisherSettles' /\ AnswersPaid'
  BY <1>1 DEF Inv, PublisherSettles, AnswersPaid, Running, Fenced
<1> QED BY <1>2, <1>3, <1>4 DEF Inv

\* Steps that leave the document and the requests alone.
LEMMA InvUnchanged ==
  ASSUME Inv, UNCHANGED <<op, pc, fence, answer>>,
         snapshot' \in {op, None, snapshot}
  PROVE  Inv'
<1>1. TypeOK' /\ Budget' /\ ResultCharged' /\ SnapshotHolds'
  BY DEF Inv, TypeOK, Budget, ResultCharged, SnapshotHolds
<1>2. FencesHold' /\ OneExecutionPerGeneration'
  BY DEF Inv, FencesHold, OneExecutionPerGeneration, Running, Fenced
<1>3. PublisherSettles' /\ AnswersPaid'
  BY DEF Inv, PublisherSettles, AnswersPaid, Running, Fenced
<1> QED BY <1>1, <1>2, <1>3 DEF Inv

\* The listing may be old: an operation that has a result by now is charged or
\* left alone, never released.
LEMMA InvRecover ==
  ASSUME Inv, Recover
  PROVE  Inv'
<1>1. PICK x \in {0, op.authorized} :
        /\ op' \in {Settled(x), op}
        /\ op.result = None => x = 0
        /\ op.result # None => x = op.authorized
  BY DEF Inv, SnapshotHolds, Recover, Recovered, Expired
<1>2. snapshot' = None /\ UNCHANGED <<pc, fence, answer>>
  BY DEF Recover
<1>3. CASE op' = op
  BY <1>2, <1>3, InvUnchanged
<1>4. CASE op' = Settled(x)
  <2>1. /\ Budget' /\ ResultCharged'
        /\ op' \in AiOperation /\ op'.authorized = op.authorized
        /\ op'.generation = op.generation /\ op'.result = op.result
        /\ op'.executionToken = op.executionToken
        /\ op'.status = "none" <=> op.status = "none"
        /\ op.charged = op.authorized => op'.charged = op.authorized
    BY <1>1, <1>4, SettlementKeeps DEF Inv
  <2>2. TypeOK' /\ SnapshotHolds'
    BY <1>2, <2>1 DEF Inv, TypeOK, SnapshotHolds
  <2>3. FencesHold' /\ OneExecutionPerGeneration'
    BY <1>2, <2>1 DEF Inv, FencesHold, OneExecutionPerGeneration, Running, Fenced
  <2>4. PublisherSettles' /\ AnswersPaid'
    BY <1>2, <2>1 DEF Inv, PublisherSettles, AnswersPaid, Running, Fenced
  <2> QED BY <2>1, <2>2, <2>3, <2>4 DEF Inv
<1> QED BY <1>1, <1>3, <1>4

LEMMA InvWork ==
  ASSUME Inv, NEW c \in Callers, Work(c)
  PROVE  Inv'
<1>1. /\ pc[c] = "work" /\ pc'[c] \in {"publish", "fail"}
      /\ pc' = [pc EXCEPT ![c] = pc'[c]]
      /\ UNCHANGED <<op, fence, answer, snapshot>>
  BY DEF Inv, TypeOK, Work
<1>2. TypeOK' /\ Budget' /\ ResultCharged' /\ SnapshotHolds'
  BY <1>1 DEF Inv, TypeOK, Places, Budget, ResultCharged, SnapshotHolds
<1>3. FencesHold' /\ OneExecutionPerGeneration'
  BY <1>1 DEF Inv, TypeOK, FencesHold, OneExecutionPerGeneration, Running, Fenced
<1>4. PublisherSettles' /\ AnswersPaid'
  BY <1>1 DEF Inv, TypeOK, PublisherSettles, AnswersPaid, Running, Fenced
<1> QED BY <1>2, <1>3, <1>4 DEF Inv

LEMMA InvNext == Inv /\ [Next]_vars => Inv'
<1> SUFFICES ASSUME Inv, [Next]_vars PROVE Inv'
  OBVIOUS
<1>1. ASSUME NEW c \in Callers, End(c) PROVE Inv'
  BY <1>1, InvStopped DEF End
<1>2. CASE List
  BY <1>2, InvUnchanged DEF List
<1>3. CASE UNCHANGED vars
  BY <1>3, InvUnchanged DEF vars
<1> QED
  BY <1>1, <1>2, <1>3, InvPropose, InvRead, InvReplay, InvReopen, InvClaim,
     InvWork, InvFail, InvPublish, InvSettleWork, InvAge, InvRecover DEF Next

-----------------------------------------------------------------------------
(* The theorems *)

\* The operation and its requests satisfy the invariant at any time.
THEOREM Invariance == Spec => []Inv
BY InvInit, InvNext, PTL DEF Spec

\* The document, the requests and the listing of the cron keep their shape.
THEOREM TypeCorrect == Spec => []TypeOK
<1>1. Inv => TypeOK
  BY DEF Inv
<1> QED BY Invariance, <1>1, PTL

\* A charge and a durable result go together, and every answer a request ends
\* with is paid, however many requests share the operation and die.
THEOREM ChargesAreForResults == Spec => []ChargedForResult
<1>1. Inv => ChargedForResult
  BY DEF Inv, ResultCharged, AnswersPaid, ChargedForResult
<1> QED BY Invariance, <1>1, PTL

\* The provider runs at most once per generation.
THEOREM ExecutionsAreExclusive == Spec => []OneExecutionPerGeneration
<1>1. Inv => OneExecutionPerGeneration
  BY DEF Inv
<1> QED BY Invariance, <1>1, PTL

\* Every settlement is one of the paid operation: it charges no less than
\* before, no more than the budget, and gives the hold back.
LEMMA SettlementImplements ==
  ASSUME Inv, NEW x \in {0, op.authorized}, op' = Settled(x)
  PROVE  [Operation!Next]_Operation!vars
<1>1. /\ op'.authorized = op.authorized /\ op'.generation = op.generation
      /\ \/ op' = op
         \/ /\ op.status = "reserved" /\ op.charged <= x
            /\ op'.status = "settled" /\ op'.charged = x /\ op'.held = 0
  BY SettledOperation DEF Inv
<1>2. /\ op.charged \in Nat /\ op.authorized \in Nat /\ x \in Nat
      /\ x <= op.authorized
  BY DEF Inv, TypeOK, AiOperation
<1>3. CASE op' = op
  BY <1>3 DEF Operation!vars
<1>4. CASE op' # op
  BY <1>1, <1>2, <1>4 DEF Operation!Next, Operation!Settle
<1> QED BY <1>3, <1>4

\* Every step is one of the paid operation, or none.
LEMMA NextImplements ==
  Inv /\ [Next]_vars => [Operation!Next]_Operation!vars
<1> SUFFICES ASSUME Inv, [Next]_vars
             PROVE  [Operation!Next]_Operation!vars
  OBVIOUS
<1>1. op \in AiOperation
  BY DEF Inv, TypeOK
<1>2. ASSUME op' = op PROVE [Operation!Next]_Operation!vars
  BY <1>2 DEF Operation!vars
<1>3. ASSUME NEW c \in Callers, Propose(c)
      PROVE  [Operation!Next]_Operation!vars
  <2>1. CASE op.status = "none"
    <3>1. /\ op'.status = "reserved" /\ op'.authorized = Price
          /\ op'.held = Price /\ op'.charged = op.charged
          /\ op'.generation = op.generation
      BY <1>1, <1>3, <2>1 DEF Propose, AiOperation
    <3> QED BY <2>1, <3>1, PriceAssumption
               DEF Inv, Budget, Operation!Next, Operation!Reserve
  <2>2. CASE op.status # "none"
    BY <1>2, <1>3, <2>2 DEF Propose
  <2> QED BY <2>1, <2>2
<1>4. ASSUME NEW c \in Callers, Reopen(c)
      PROVE  [Operation!Next]_Operation!vars
  <2>1. CASE op.status = "settled"
    <3>1. /\ op'.status = "reserved" /\ op'.authorized = op.authorized
          /\ op'.held = op.authorized - op.charged
          /\ op'.charged = op.charged /\ op'.generation = op.generation + 1
      BY <1>1, <1>4, <2>1 DEF Reopen, Reopened, AiOperation
    <3> QED BY <2>1, <3>1 DEF Operation!Next, Operation!Reopen
  <2>2. CASE op.status # "settled"
    BY <1>2, <1>4, <2>2 DEF Reopen, Reopened
  <2> QED BY <2>1, <2>2
<1>5. ASSUME NEW c \in Callers, Replay(c) \/ Fail(c) \/ SettleWork(c)
      PROVE  [Operation!Next]_Operation!vars
  BY <1>2, <1>5, SettlementImplements DEF Replay, Fail, SettleWork
<1>6. CASE Recover
  BY <1>2, <1>6, SettlementImplements DEF Recover, Recovered
<1>7. ASSUME op'.status = op.status, op'.authorized = op.authorized,
             op'.held = op.held, op'.charged = op.charged,
             op'.generation = op.generation
      PROVE  [Operation!Next]_Operation!vars
  BY <1>7 DEF Operation!vars
<1>8. ASSUME NEW c \in Callers, Claim(c) \/ Publish(c)
      PROVE  [Operation!Next]_Operation!vars
  BY <1>1, <1>7, <1>8 DEF Claim, Publish, AiOperation
<1>9. CASE Age
  BY <1>1, <1>7, <1>9 DEF Age, AiOperation
<1>10. ASSUME NEW c \in Callers, ReadOperation(c) \/ Work(c) \/ End(c)
       PROVE  [Operation!Next]_Operation!vars
  BY <1>2, <1>10 DEF ReadOperation, Work, End
<1>11. CASE List \/ UNCHANGED vars
  BY <1>2, <1>11 DEF List, vars
<1> QED
  BY <1>3, <1>4, <1>5, <1>6, <1>8, <1>9, <1>10, <1>11 DEF Next

\* An AI execution keeps the promise of every paid operation: authorized once,
\* held while it runs, charged at most its budget and never less than before.
THEOREM ExecutionsArePaidOperations == Spec => ImplementsPaidOperation
<1>1. Init => Operation!Init
  BY DEF Init, Operation!Init
<1> QED
  BY <1>1, InvInit, InvNext, NextImplements, PTL
     DEF Spec, ImplementsPaidOperation, Operation!Spec

=============================================================================
