---------------------------- MODULE AiExecution -----------------------------
(***************************************************************************)
(* One paid AI proposal of the studio: requests that carry the same        *)
(* operation id run CreditsService.executeAi concurrently, in one or more  *)
(* API processes that may crash, while the recovery cron settles what they *)
(* leave behind.                                                           *)
(*                                                                         *)
(* Each database call of executeAi is one action; between two of them      *)
(* anything may happen.  The account is left to CreditLedger: all that is  *)
(* visible of it here is that it may refuse a reservation, which a request *)
(* that never makes the step stands for.                                   *)
(***************************************************************************)
EXTENDS Integers

CONSTANTS
  Callers,        \* requests with the same operation id
  Price,          \* credits of one proposal
  MaxGeneration,  \* bound on the retries of the operation
  None            \* absence of a token or a result

ASSUME CallersAssumption == None \notin Callers \X Nat
ASSUME PriceAssumption == Price \in Nat /\ MaxGeneration \in Nat

VARIABLES
  op,        \* the CreditOperation document
  pc,        \* where each request is: "idle" or its next database call
  fence,     \* generation and token of the execution a request claimed
  answer,    \* the proposal a request has for its client, or None
  snapshot   \* the operation as the cron read it, or None

vars == <<op, pc, fence, answer, snapshot>>

-----------------------------------------------------------------------------
(* Data *)

\* The randomUUID of a claim, told apart by who claims and when; it also
\* stands for the proposal that this execution generates.
Tokens == Callers \X Nat

Places ==
  {"idle", "read", "replay", "reopen", "claim", "work", "fail", "publish",
   "settle"}

\* aged: more than five minutes since it was reserved or its execution started.
AiOperation ==
  [status : {"none", "reserved", "settled"}, authorized : Nat, held : Nat,
   charged : Nat, generation : Nat, executionToken : Tokens \cup {None},
   result : Tokens \cup {None}, aged : BOOLEAN]

Fence == [generation : Nat, executionToken : Tokens \cup {None}]

TypeOK ==
  /\ op \in AiOperation
  /\ pc \in [Callers -> Places]
  /\ fence \in [Callers -> Fence]
  /\ answer \in [Callers -> Tokens \cup {None}]
  /\ snapshot \in AiOperation \cup {None}

Init ==
  /\ op = [status |-> "none", authorized |-> 0, held |-> 0, charged |-> 0,
           generation |-> 0, executionToken |-> None, result |-> None,
           aged |-> FALSE]
  /\ pc = [c \in Callers |-> "idle"]
  /\ fence = [c \in Callers |-> [generation |-> 0, executionToken |-> None]]
  /\ answer = [c \in Callers |-> None]
  /\ snapshot = None

-----------------------------------------------------------------------------
(* Settlement, reopening and the claim, as single transactions *)

\* Mutant: the whole price is taken from the hold at every settlement.
Mutant_Settled(cumulativeCharge) ==
  IF op.status = "reserved" /\ op.charged <= cumulativeCharge
  THEN [op EXCEPT !.status = "settled", !.held = @ - cumulativeCharge,
                  !.charged = cumulativeCharge]
  ELSE op

\* The operation after settle(): a settled one stays as it is, and so does one
\* whose charge the settlement would lower.
Settled(cumulativeCharge) ==
  IF op.status = "reserved" /\ op.charged <= cumulativeCharge
  THEN [op EXCEPT !.status = "settled", !.held = 0,
                  !.charged = cumulativeCharge]
  ELSE op

\* The fence of an execution still holds for the operation.
Fenced(f) ==
  op.generation = f.generation /\ op.executionToken = f.executionToken

\* Mutant: a retry holds the whole price again.
Mutant_Reopened ==
  IF op.status = "settled"
  THEN [op EXCEPT !.status = "reserved", !.held = op.authorized,
                  !.generation = @ + 1, !.executionToken = None,
                  !.aged = FALSE]
  ELSE op

\* The operation after reopen(): a reserved one stays as it is.  The result
\* of an earlier generation is not looked at.
Reopened ==
  IF op.status = "settled"
  THEN [op EXCEPT !.status = "reserved", !.held = op.authorized - op.charged,
                  !.generation = @ + 1, !.executionToken = None,
                  !.aged = FALSE]
  ELSE op

\* Mutant: a running execution may be claimed again.
Mutant_Claimable == op.status = "reserved"

\* What the claim's update filter asks for; executionStartedAt is set and
\* cleared together with the token.
Claimable == op.status = "reserved" /\ op.executionToken = None

-----------------------------------------------------------------------------
(* A request *)

\* The request arrives: StudioService.propose reserves under the operation id,
\* which returns the existing operation if there is one.
Propose(c) ==
  /\ pc[c] = "idle"
  /\ op' = IF op.status = "none"
           THEN [op EXCEPT !.status = "reserved", !.authorized = Price,
                           !.held = Price]
           ELSE op
  /\ pc' = [pc EXCEPT ![c] = "read"]
  /\ answer' = [answer EXCEPT ![c] = None]
  /\ UNCHANGED <<fence, snapshot>>

\* The operation is read, and this reading decides which way to go.
ReadOperation(c) ==
  /\ pc[c] = "read"
  /\ pc' = [pc EXCEPT ![c] =
       IF op.result # None THEN "replay"
       ELSE IF op.status = "settled" /\ op.charged = 0 THEN "reopen"
       ELSE "claim"]
  /\ answer' = [answer EXCEPT ![c] = op.result]
  /\ UNCHANGED <<op, fence, snapshot>>

\* The result that was read is charged, if it is not yet, and returned.
Replay(c) ==
  /\ pc[c] = "replay"
  /\ op' = Settled(op.authorized)
  /\ pc' = [pc EXCEPT ![c] = "idle"]
  /\ UNCHANGED <<fence, answer, snapshot>>

\* Bound: MaxGeneration retries.
Reopen(c) ==
  /\ pc[c] = "reopen"
  /\ op.generation < MaxGeneration
  /\ op' = Reopened
  /\ pc' = [pc EXCEPT ![c] = "claim"]
  /\ UNCHANGED <<fence, answer, snapshot>>

Claim(c) ==
  /\ pc[c] = "claim"
  /\ Claimable
  /\ LET token == <<c, op.generation>>
     IN /\ op' = [op EXCEPT !.executionToken = token, !.aged = FALSE]
        /\ fence' = [fence EXCEPT ![c] =
             [generation |-> op.generation, executionToken |-> token]]
  /\ pc' = [pc EXCEPT ![c] = "work"]
  /\ UNCHANGED <<answer, snapshot>>

\* The provider answers, or fails.
Work(c) ==
  /\ pc[c] = "work"
  /\ \E next \in {"publish", "fail"} : pc' = [pc EXCEPT ![c] = next]
  /\ UNCHANGED <<op, fence, answer, snapshot>>

\* A failed execution gives its hold back, if it is still its own.
Fail(c) ==
  /\ pc[c] = "fail"
  /\ op' = IF Fenced(fence[c]) THEN Settled(0) ELSE op
  /\ pc' = [pc EXCEPT ![c] = "idle"]
  /\ UNCHANGED <<fence, answer, snapshot>>

\* What the filter of the publishing update asks for.
Publishable(f) == op.status = "reserved" /\ Fenced(f)

\* The result becomes durable before it is charged.
Publish(c) ==
  /\ pc[c] = "publish"
  /\ Publishable(fence[c])
  /\ op' = [op EXCEPT !.result = fence[c].executionToken]
  /\ answer' = [answer EXCEPT ![c] = fence[c].executionToken]
  /\ pc' = [pc EXCEPT ![c] = "settle"]
  /\ UNCHANGED <<fence, snapshot>>

\* The claimed authorization is charged and the request answered.
SettleWork(c) ==
  /\ pc[c] = "settle"
  /\ op' = IF Fenced(fence[c]) THEN Settled(op.authorized) ELSE op
  /\ pc' = [pc EXCEPT ![c] = "idle"]
  /\ UNCHANGED <<fence, answer, snapshot>>

\* A request ends with an error: the claim or the publication finds nothing to
\* update, the account refuses the new hold, or the process dies on its way.
End(c) ==
  /\ pc[c] # "idle"
  /\ pc' = [pc EXCEPT ![c] = "idle"]
  /\ answer' = [answer EXCEPT ![c] = None]
  /\ UNCHANGED <<op, fence, snapshot>>

-----------------------------------------------------------------------------
(* The recovery cron *)

\* Five minutes pass.
Age ==
  /\ op.status = "reserved"
  /\ ~op.aged
  /\ op' = [op EXCEPT !.aged = TRUE]
  /\ UNCHANGED <<pc, fence, answer, snapshot>>

\* The cron lists the reserved operations.
List ==
  /\ op.status = "reserved"
  /\ snapshot = None
  /\ snapshot' = op
  /\ UNCHANGED <<op, pc, fence, answer>>

\* Mutant: a result published since the listing is not looked at.
Mutant_Expired(read) == Fenced(read)

\* An execution that was silent for five minutes has not published meanwhile.
Expired(read) == Fenced(read) /\ op.result = None

\* Mutant: only operations with a result are recovered.
Mutant_RecoverResults(read) ==
  IF read.result # None THEN Settled(op.authorized) ELSE op

\* What the cron's settlement makes of an operation it read.
Recovered(read) ==
  IF read.result # None THEN Settled(op.authorized)
  ELSE IF read.aged /\ Expired(read) THEN Settled(0)
  ELSE op

\* The cron settles what it listed: charged if it has a result, released if it
\* has none and is old.
Recover ==
  /\ snapshot # None
  /\ op' = Recovered(snapshot)
  /\ snapshot' = None
  /\ UNCHANGED <<pc, fence, answer>>

-----------------------------------------------------------------------------
Next ==
  \/ \E c \in Callers :
       \/ Propose(c) \/ ReadOperation(c) \/ Replay(c) \/ Reopen(c) \/ Claim(c)
       \/ Work(c) \/ Fail(c) \/ Publish(c) \/ SettleWork(c) \/ End(c)
  \/ Age \/ List \/ Recover

\* Time passes and the cron runs every minute; no request need ever go on.
Fairness == WF_vars(Age) /\ WF_vars(List) /\ WF_vars(Recover)

Spec == Init /\ [][Next]_vars /\ Fairness

-----------------------------------------------------------------------------
(* Properties *)

\* A charge and a durable result go together: a failed, abandoned or superseded
\* execution costs nothing, a durable result is charged in full once the
\* operation settles, whoever settles it, and no request is answered with a
\* proposal before.
ChargedForResult ==
  /\ op.charged > 0 => op.result # None
  /\ op.status = "settled" /\ op.result # None => op.charged = op.authorized
  /\ \A c \in Callers :
       pc[c] = "idle" /\ answer[c] # None => op.charged = op.authorized

\* Two requests never run the provider for the same generation.
OneExecutionPerGeneration ==
  \A c, d \in Callers :
    /\ {pc[c], pc[d]} \subseteq {"work", "publish", "fail", "settle"}
    /\ fence[c].generation = fence[d].generation
    => c = d

\* The operation keeps the promise of every paid operation.
Operation == INSTANCE PaidOperation WITH
  status <- op.status, authorized <- op.authorized, held <- op.held,
  charged <- op.charged, generation <- op.generation

ImplementsPaidOperation == Operation!Spec

\* Whatever requests do or stop doing, the cron ends the operation: no hold is
\* kept for ever, and a result that became durable is charged in the end,
\* although every request may have died right after publishing it.
OperationsEnd ==
  /\ op.status = "reserved" ~> op.status = "settled"
  /\ op.result # None ~> op.charged = op.authorized

\* docs/unified-billing.md: results are "persisted before settlement and
\* replayed without another generation".  Read as: the current execution is
\* never one of an operation that already has a result.
ReplayedNotRegenerated ==
  \A c \in Callers :
    pc[c] = "work" /\ op.executionToken = fence[c].executionToken
      => op.result = None

=============================================================================
