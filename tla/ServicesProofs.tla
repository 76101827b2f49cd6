--------------------------- MODULE ServicesProofs ---------------------------
(***************************************************************************)
(* Proofs about BatchRender and EditProposal, for any number of            *)
(* deliveries, remote jobs, proposals and requests, and of the composition *)
(* that the run MCServices checks.                                         *)
(*                                                                         *)
(* Batch: the claim hands the right to submit to one delivery, and nobody  *)
(* gets it back, so nobody may submit once anything was submitted.         *)
(*                                                                         *)
(* Editing: the plan's revision leaves the base of a proposal for good     *)
(* when the edit enters the plan, so nothing enters twice; and a proposal  *)
(* goes back to pending only when its base is gone.                        *)
(***************************************************************************)
EXTENDS MCServices, AiExecutionProofs, FiniteSetTheorems

-----------------------------------------------------------------------------
(* AWS Batch: the inductive invariant *)

\* Remote jobs that were submitted.
Submitted == {j \in AwsJobs : remote[j] # "none"}

\* Deliveries between the claim and the submission.
Submitting(d) == delivery[d].pc \in {"prepare", "submit"}

Claimed == execution \in Batch!Execution /\ execution.state # "PREPARING"

\* Whoever is past the creation has a record to write to.
RecordExists ==
  /\ \A d \in Deliveries :
       delivery[d].pc \notin {"idle", "create"} => execution \in Batch!Execution
  /\ sweep.pc # "idle" => execution \in Batch!Execution

\* The right to submit: one delivery has it, before any submission.
RightToSubmit ==
  /\ \A d \in Deliveries : Submitting(d) => Claimed /\ Submitted = {}
  /\ \A d, e \in Deliveries : Submitting(d) /\ Submitting(e) => d = e

\* A submission is the only one, and its claim is never undone.
SubmittedOnce ==
  /\ Submitted # {} => Claimed
  /\ \A j, k \in Submitted : j = k

BatchInv == Batch!TypeOK /\ RecordExists /\ RightToSubmit /\ SubmittedOnce

-----------------------------------------------------------------------------
(* AWS Batch: every step preserves it *)

LEMMA BatchInit == Batch!Init => BatchInv
<1> SUFFICES ASSUME Batch!Init PROVE BatchInv
  OBVIOUS
<1>1. Batch!TypeOK
  BY DEF Batch!Init, Batch!TypeOK, Batch!Idle, Batch!Places
<1>2. Submitted = {} /\ sweep.pc = "idle"
      /\ \A d \in Deliveries : delivery[d].pc = "idle"
  BY DEF Batch!Init, Batch!Idle, Submitted
<1> QED BY <1>1, <1>2 DEF BatchInv, RecordExists, RightToSubmit, SubmittedOnce,
                          Submitting

\* Where a delivery goes.
LEMMA DeliveryGoes ==
  ASSUME Batch!TypeOK, NEW d \in Deliveries, NEW place \in Batch!Places,
         NEW j \in AwsJobs \cup {None}, Batch!Go(d, place, j)
  PROVE  /\ delivery' \in [Deliveries -> [pc : Batch!Places,
                                          jobId : AwsJobs \cup {None}]]
         /\ delivery'[d].pc = place
         /\ \A e \in Deliveries \ {d} : delivery'[e] = delivery[e]
BY DEF Batch!TypeOK, Batch!Go

\* A step that gives no right to submit, submits nothing and takes no record
\* back.
LEMMA BatchKept ==
  ASSUME BatchInv, Batch!TypeOK', RecordExists', Submitted' = Submitted,
         Claimed => Claimed',
         \A d \in Deliveries : Submitting(d)' => Submitting(d)
  PROVE  BatchInv'
BY DEF BatchInv, RightToSubmit, SubmittedOnce

\* A delivery that neither claims nor submits, whatever it writes.
LEMMA DeliveryKept ==
  ASSUME BatchInv, NEW d \in Deliveries,
         NEW place \in Batch!Places \ {"prepare", "submit"},
         NEW j \in AwsJobs \cup {None}, Batch!Go(d, place, j),
         execution' \in Batch!Execution \cup {None},
         execution \in Batch!Execution => execution' \in Batch!Execution,
         Claimed => Claimed', Submitted' = Submitted,
         remote' \in [AwsJobs -> {"none", "running", "succeeded", "failed"}],
         place \in {"idle", "create"} \/ execution' \in Batch!Execution,
         UNCHANGED <<overdue, unwanted, sweep>>
  PROVE  BatchInv'
<1>1. Batch!TypeOK
  BY DEF BatchInv
<1>2. /\ delivery' \in [Deliveries -> [pc : Batch!Places,
                                       jobId : AwsJobs \cup {None}]]
      /\ delivery'[d].pc = place
      /\ \A e \in Deliveries \ {d} : delivery'[e] = delivery[e]
  BY <1>1, DeliveryGoes
<1>3. Batch!TypeOK'
  BY <1>1, <1>2 DEF Batch!TypeOK
<1>4. RecordExists'
  BY <1>2 DEF BatchInv, RecordExists
<1>5. \A e \in Deliveries : Submitting(e)' => Submitting(e)
  BY <1>2 DEF Submitting
<1> QED BY <1>3, <1>4, <1>5, BatchKept

\* A delivery that writes the record: it stays claimed.
LEMMA DeliveryWrites ==
  ASSUME BatchInv, NEW d \in Deliveries,
         delivery[d].pc \notin {"idle", "create"},
         NEW place \in Batch!Places \ {"prepare", "submit"},
         Batch!Go(d, place, None),
         NEW state \in Batch!States \ {"PREPARING"},
         \/ execution' = [execution EXCEPT !.state = state]
         \/ \E retryable \in {execution.retryable, FALSE} :
              execution' = [execution EXCEPT !.state = state,
                                             !.retryable = retryable]
         \/ \E j \in AwsJobs \cup {None} :
              execution' = [execution EXCEPT !.jobId = j, !.state = state],
         UNCHANGED <<overdue, unwanted, sweep, remote>>
  PROVE  BatchInv'
<1>1. execution \in Batch!Execution
  BY DEF BatchInv, RecordExists
<1>2. {execution.retryable, FALSE} \subseteq BOOLEAN
  BY <1>1 DEF Batch!Execution
<1>3. execution' \in Batch!Execution /\ execution'.state = state
  <2>1. CASE execution' = [execution EXCEPT !.state = state]
    BY <1>1, <2>1 DEF Batch!Execution
  <2>2. ASSUME NEW retryable \in {execution.retryable, FALSE},
               execution' = [execution EXCEPT !.state = state,
                                              !.retryable = retryable]
        PROVE  execution' \in Batch!Execution /\ execution'.state = state
    <3>1. retryable \in BOOLEAN
      BY <1>2
    <3> QED BY <1>1, <2>2, <3>1 DEF Batch!Execution
  <2>3. ASSUME NEW j \in AwsJobs \cup {None},
               execution' = [execution EXCEPT !.jobId = j, !.state = state]
        PROVE  execution' \in Batch!Execution /\ execution'.state = state
    BY <1>1, <2>3 DEF Batch!Execution
  <2> QED BY <2>1, <2>2, <2>3
<1>4. Claimed' /\ Submitted' = Submitted
  BY <1>3 DEF Claimed, Submitted
<1>5. remote' \in [AwsJobs -> {"none", "running", "succeeded", "failed"}]
  BY DEF BatchInv, Batch!TypeOK
<1> QED BY <1>1, <1>3, <1>4, <1>5, DeliveryKept

\* A delivery that reads or dies.
LEMMA DeliveryReads ==
  ASSUME BatchInv, NEW d \in Deliveries,
         NEW place \in Batch!Places \ {"prepare", "submit"},
         NEW j \in AwsJobs \cup {None}, Batch!Go(d, place, j),
         place \in {"idle", "create"} \/ execution \in Batch!Execution,
         UNCHANGED <<execution, overdue, unwanted, sweep, remote>>
  PROVE  BatchInv'
BY DeliveryKept DEF BatchInv, Batch!TypeOK, Claimed, Submitted

\* The creation finds no record, and the claim finds it not claimed: nobody
\* has the right to submit, and nothing was submitted.
LEMMA BatchCreate ==
  ASSUME BatchInv, NEW d \in Deliveries, Batch!Create(d)
  PROVE  BatchInv'
<1> DEFINE place == IF execution'.state = "PREPARING" THEN "claim" ELSE "poll"
           fresh == [state |-> "PREPARING", jobId |-> None, retryable |-> TRUE]
<1>1. /\ execution' = IF execution = None THEN fresh ELSE execution
      /\ Batch!Go(d, place, None)
      /\ UNCHANGED <<overdue, unwanted, remote, sweep>>
  BY DEF Batch!Create
<1>2. fresh \in Batch!Execution
  BY DEF Batch!Execution, Batch!States
<1>3. /\ execution' \in Batch!Execution
      /\ execution \in Batch!Execution => execution' = execution
  BY <1>1, <1>2, NoneAssumption DEF BatchInv, Batch!TypeOK
<1>4. Claimed => Claimed'
  BY <1>3 DEF Claimed
<1>5. place \in Batch!Places \ {"prepare", "submit"}
  BY DEF Batch!Places
<1>6. /\ remote' \in [AwsJobs -> {"none", "running", "succeeded", "failed"}]
      /\ Submitted' = Submitted
  BY <1>1 DEF BatchInv, Batch!TypeOK, Submitted
<1> HIDE DEF place
<1> QED BY <1>1, <1>3, <1>4, <1>5, <1>6, DeliveryKept

LEMMA BatchClaim ==
  ASSUME BatchInv, NEW d \in Deliveries, Batch!Claim(d)
  PROVE  BatchInv'
<1>1. execution \in Batch!Execution
  BY DEF BatchInv, RecordExists, Batch!Claim
<1>2. CASE ~Batch!Claimable
  <2>1. Batch!Go(d, "poll", None)
        /\ UNCHANGED <<execution, overdue, unwanted, remote, sweep>>
    BY <1>2 DEF Batch!Claim
  <2>2. "poll" \in Batch!Places \ {"prepare", "submit"}
    BY DEF Batch!Places
  <2> QED BY <1>1, <2>1, <2>2, DeliveryReads
<1>3. CASE Batch!Claimable
  <2>1. /\ Batch!Go(d, "prepare", None)
        /\ execution' = [execution EXCEPT !.state = "SUBMITTING"]
        /\ UNCHANGED <<overdue, unwanted, remote, sweep>>
    BY <1>3 DEF Batch!Claim
  <2>2. /\ execution' \in Batch!Execution /\ execution'.state = "SUBMITTING"
        /\ execution.state = "PREPARING"
    BY <1>1, <1>3, <2>1 DEF Batch!Execution, Batch!States, Batch!Claimable
  <2>3. "prepare" \in Batch!Places
    BY DEF Batch!Places
  <2>4. /\ delivery' \in [Deliveries -> [pc : Batch!Places,
                                         jobId : AwsJobs \cup {None}]]
        /\ delivery'[d].pc = "prepare"
        /\ \A e \in Deliveries \ {d} : delivery'[e] = delivery[e]
    BY <2>1, <2>3, DeliveryGoes DEF BatchInv
  <2>5. Submitted = {} /\ \A e \in Deliveries : ~Submitting(e)
    BY <2>2 DEF BatchInv, RightToSubmit, SubmittedOnce, Claimed
  <2>6. Batch!TypeOK'
    BY <2>1, <2>2, <2>4 DEF BatchInv, Batch!TypeOK
  <2>7. RecordExists'
    BY <2>1, <2>2, <2>4 DEF BatchInv, RecordExists
  <2>8. Claimed' /\ Submitted' = {}
    BY <2>1, <2>2, <2>5 DEF Claimed, Submitted
  <2>9. \A e \in Deliveries : Submitting(e)' => e = d
    BY <2>4, <2>5 DEF Submitting
  <2> QED BY <2>6, <2>7, <2>8, <2>9 DEF BatchInv, RightToSubmit, SubmittedOnce
<1> QED BY <1>2, <1>3

LEMMA BatchPrepare ==
  ASSUME BatchInv, NEW d \in Deliveries, Batch!Prepare(d)
  PROVE  BatchInv'
<1>1. /\ Batch!Go(d, "submit", None) /\ delivery[d].pc = "prepare"
      /\ UNCHANGED <<execution, overdue, unwanted, remote, sweep>>
  BY DEF Batch!Prepare
<1>2. /\ delivery' \in [Deliveries -> [pc : Batch!Places,
                                       jobId : AwsJobs \cup {None}]]
      /\ delivery'[d].pc = "submit"
      /\ \A e \in Deliveries \ {d} : delivery'[e] = delivery[e]
  BY <1>1, DeliveryGoes DEF BatchInv, Batch!Places
<1>3. Batch!TypeOK' /\ RecordExists'
  BY <1>1, <1>2 DEF BatchInv, Batch!TypeOK, RecordExists
<1>4. Submitted' = Submitted /\ (Claimed => Claimed')
  BY <1>1 DEF Submitted, Claimed
<1>5. \A e \in Deliveries : Submitting(e)' => Submitting(e)
  BY <1>1, <1>2 DEF Submitting
<1> QED BY <1>3, <1>4, <1>5, BatchKept

\* The submission uses the right up: the job it makes is the only one.
LEMMA BatchSubmit ==
  ASSUME BatchInv, NEW d \in Deliveries, Batch!Submit(d)
  PROVE  BatchInv'
<1>1. /\ delivery[d].pc = "submit"
      /\ UNCHANGED <<execution, overdue, unwanted, sweep>>
  BY DEF Batch!Submit
<1>2. PICK place \in {"record", "doubt"}, j \in AwsJobs \cup {None} :
        Batch!Go(d, place, j)
  BY DEF Batch!Submit
<1>3. /\ delivery' \in [Deliveries -> [pc : Batch!Places,
                                       jobId : AwsJobs \cup {None}]]
      /\ delivery'[d].pc = place
      /\ \A e \in Deliveries \ {d} : delivery'[e] = delivery[e]
  BY <1>2, DeliveryGoes DEF BatchInv, Batch!Places
<1>4. /\ Claimed /\ Submitted = {}
      /\ \A e \in Deliveries : Submitting(e) => e = d
  BY <1>1 DEF BatchInv, RightToSubmit, Submitting
<1>5. \A e \in Deliveries : ~Submitting(e)'
  BY <1>3, <1>4 DEF Submitting
<1>6. /\ remote' \in [AwsJobs -> {"none", "running", "succeeded", "failed"}]
      /\ \A k, l \in Submitted' : k = l
  <2>1. CASE UNCHANGED remote
    BY <1>4, <2>1 DEF BatchInv, Batch!TypeOK, Submitted
  <2>2. CASE ~UNCHANGED remote
    <3>1. PICK k \in AwsJobs : remote' = [remote EXCEPT ![k] = "running"]
      BY <2>2 DEF Batch!Submit
    <3>2. \A l \in Submitted' : l = k
      BY <1>4, <3>1 DEF BatchInv, Batch!TypeOK, Submitted
    <3> QED BY <3>1, <3>2 DEF BatchInv, Batch!TypeOK
  <2> QED BY <2>1, <2>2
<1>7. Batch!TypeOK' /\ RecordExists' /\ Claimed'
  BY <1>1, <1>3, <1>4, <1>6
     DEF BatchInv, Batch!TypeOK, RecordExists, Claimed
<1> QED BY <1>5, <1>6, <1>7 DEF BatchInv, RightToSubmit, SubmittedOnce

\* TerminateJob ends what runs, and does not change what was submitted.
LEMMA TerminatedKeeps ==
  ASSUME BatchInv, NEW j, remote' = Batch!Terminated(j)
  PROVE  /\ remote' \in [AwsJobs -> {"none", "running", "succeeded", "failed"}]
         /\ Submitted' = Submitted
BY DEF BatchInv, Batch!TypeOK, Batch!Terminated, Submitted

LEMMA BatchTerminate ==
  ASSUME BatchInv, NEW d \in Deliveries, Batch!Terminate(d)
  PROVE  BatchInv'
<1>1. /\ execution \in Batch!Execution
      /\ delivery[d].jobId \in AwsJobs \cup {None}
      /\ UNCHANGED <<execution, overdue, unwanted, sweep>>
  BY DEF BatchInv, Batch!TypeOK, RecordExists, Batch!Terminate
<1>2. Claimed => Claimed'
  BY <1>1 DEF Claimed
<1>3. {"idle", "cancel"} \subseteq Batch!Places \ {"prepare", "submit"}
  BY DEF Batch!Places
<1>4. CASE remote' = Batch!Terminated(delivery[d].jobId)
           /\ Batch!Go(d, "cancel", delivery[d].jobId)
  BY <1>1, <1>2, <1>3, <1>4, TerminatedKeeps, DeliveryKept
<1>5. CASE Batch!Go(d, "idle", None) /\ UNCHANGED remote
  BY <1>1, <1>3, <1>5, DeliveryReads
<1> QED BY <1>4, <1>5 DEF Batch!Terminate

\* The readings of a delivery, and its death.
LEMMA BatchReads ==
  ASSUME BatchInv, NEW d \in Deliveries,
         Batch!Attach(d) \/ Batch!Poll(d) \/ Batch!Status(d) \/ Batch!Crash(d)
  PROVE  BatchInv'
<1>1. UNCHANGED <<execution, overdue, unwanted, sweep, remote>>
  BY DEF Batch!Attach, Batch!Poll, Batch!Status, Batch!Crash
<1>2. delivery[d].pc \notin {"idle", "create"} => execution \in Batch!Execution
  BY DEF BatchInv, RecordExists
<1>3. execution \in Batch!Execution \cup {None}
      /\ delivery[d].jobId \in AwsJobs \cup {None}
  BY DEF BatchInv, Batch!TypeOK
<1>4. PICK place \in Batch!Places \ {"prepare", "submit"},
           j \in AwsJobs \cup {None} :
        /\ Batch!Go(d, place, j)
        /\ place \in {"idle", "create"} \/ execution \in Batch!Execution
  <2>1. CASE Batch!Attach(d)
    BY <1>3, <2>1 DEF Batch!Attach, Batch!Places
  <2>2. CASE Batch!Poll(d)
    <3>1. execution \in Batch!Execution /\ execution.jobId \in AwsJobs \cup {None}
      BY <1>2, <2>2 DEF Batch!Poll, Batch!Execution
    <3> QED BY <2>2, <3>1 DEF Batch!Poll, Batch!Places
  <2>3. CASE Batch!Status(d)
    <3>1. execution \in Batch!Execution
      BY <1>2, <2>3 DEF Batch!Status
    <3> QED BY <1>3, <2>3, <3>1 DEF Batch!Status, Batch!Places
  <2>4. CASE Batch!Crash(d)
    BY <2>4 DEF Batch!Crash, Batch!Places
  <2> QED BY <2>1, <2>2, <2>3, <2>4
<1> QED BY <1>1, <1>4, DeliveryReads

\* The writes of a delivery.
LEMMA BatchWrites ==
  ASSUME BatchInv, NEW d \in Deliveries,
         \/ Batch!PrepareFails(d) \/ Batch!Record(d) \/ Batch!Doubt(d)
         \/ Batch!Cancel(d) \/ Batch!Fail(d) \/ Batch!Succeed(d)
  PROVE  BatchInv'
<1>1. {"FAILED", "SUBMITTED", "UNKNOWN", "CANCELLED", "SUCCEEDED"}
        \subseteq Batch!States \ {"PREPARING"}
  BY DEF Batch!States
<1>2. {"idle", "poll", "doubt"} \subseteq Batch!Places \ {"prepare", "submit"}
  BY DEF Batch!Places
<1>3. delivery[d].jobId \in AwsJobs \cup {None}
  BY DEF BatchInv, Batch!TypeOK
<1>4. CASE Batch!PrepareFails(d)
  BY <1>1, <1>2, <1>4, DeliveryWrites DEF Batch!PrepareFails
<1>5. CASE Batch!Fail(d)
  BY <1>1, <1>2, <1>5, DeliveryWrites DEF Batch!Fail
<1>6. CASE Batch!Record(d)
  <2>1. PICK place \in {"poll", "doubt"} : Batch!Go(d, place, None)
    BY <1>6 DEF Batch!Record
  <2> QED BY <1>1, <1>2, <1>3, <1>6, <2>1, DeliveryWrites DEF Batch!Record
<1>7. CASE Batch!Doubt(d)
  BY <1>1, <1>2, <1>7, DeliveryWrites DEF Batch!Doubt
<1>8. CASE Batch!Cancel(d)
  BY <1>1, <1>2, <1>8, DeliveryWrites DEF Batch!Cancel
<1>9. CASE Batch!Succeed(d)
  BY <1>1, <1>2, <1>9, DeliveryWrites DEF Batch!Succeed
<1> QED BY <1>4, <1>5, <1>6, <1>7, <1>8, <1>9

\* The reconciliation gives nobody the right to submit, whatever it writes.
LEMMA BatchSweeps ==
  ASSUME BatchInv,
         \/ Batch!List \/ Batch!SweepDoubt \/ Batch!SweepTerminate
         \/ Batch!SweepCancel \/ Batch!SweepFails
  PROVE  BatchInv'
<1>1. UNCHANGED <<overdue, unwanted, delivery>>
  BY DEF Batch!List, Batch!SweepDoubt, Batch!SweepTerminate,
         Batch!SweepCancel, Batch!SweepFails
<1>2. Batch!TypeOK
  BY DEF BatchInv
<1>3. execution \in Batch!Execution
  BY <1>2 DEF BatchInv, RecordExists, Batch!TypeOK, Batch!List,
              Batch!SweepDoubt, Batch!SweepTerminate, Batch!SweepCancel,
              Batch!SweepFails
<1>4. /\ execution' \in Batch!Execution
      /\ Claimed => Claimed'
  <2>1. CASE execution' = execution
    BY <1>3, <2>1 DEF Claimed
  <2>2. CASE execution' # execution
    <3>1. PICK state \in {"UNKNOWN", "CANCELLED"} :
            execution' = [execution EXCEPT !.state = state]
      BY <2>2 DEF Batch!List, Batch!SweepDoubt, Batch!SweepTerminate,
                  Batch!SweepCancel, Batch!SweepFails
    <3> QED BY <1>3, <3>1 DEF Claimed, Batch!Execution, Batch!States
  <2> QED BY <2>1, <2>2
<1>5. /\ remote' \in [AwsJobs -> {"none", "running", "succeeded", "failed"}]
      /\ Submitted' = Submitted
  <2>1. CASE remote' = remote
    BY <1>2, <2>1 DEF Batch!TypeOK, Submitted
  <2>2. CASE remote' # remote
    BY <2>2, TerminatedKeeps DEF Batch!List, Batch!SweepDoubt,
         Batch!SweepTerminate, Batch!SweepCancel, Batch!SweepFails
  <2> QED BY <2>1, <2>2
<1>6. sweep' \in [pc : {"idle", "doubt", "terminate", "cancel"},
                  jobId : AwsJobs \cup {None}]
  <2>1. sweep.jobId \in AwsJobs \cup {None}
        /\ execution.jobId \in AwsJobs \cup {None}
    BY <1>2, <1>3 DEF Batch!TypeOK, Batch!Execution
  <2> QED BY <2>1 DEF Batch!List, Batch!SweepDoubt, Batch!SweepTerminate,
                      Batch!SweepCancel, Batch!SweepFails, Batch!Sweep
<1>7. Batch!TypeOK' /\ RecordExists'
  BY <1>1, <1>2, <1>4, <1>5, <1>6 DEF Batch!TypeOK, RecordExists
<1>8. \A d \in Deliveries : Submitting(d)' => Submitting(d)
  BY <1>1 DEF Submitting
<1> QED BY <1>4, <1>5, <1>7, <1>8, BatchKept

LEMMA BatchEnvironment ==
  ASSUME BatchInv,
         \/ \E j \in AwsJobs : Batch!RemoteEnds(j)
         \/ Batch!Expire \/ Batch!Withdraw \/ UNCHANGED batch
  PROVE  BatchInv'
<1>1. UNCHANGED <<execution, delivery, sweep>>
  BY DEF Batch!RemoteEnds, Batch!Expire, Batch!Withdraw, batch
<1>2. /\ remote' \in [AwsJobs -> {"none", "running", "succeeded", "failed"}]
      /\ Submitted' = Submitted
  BY DEF BatchInv, Batch!TypeOK, Submitted, Batch!RemoteEnds, Batch!Expire,
         Batch!Withdraw, batch
<1>3. overdue' \in BOOLEAN /\ unwanted' \in BOOLEAN
  BY DEF BatchInv, Batch!TypeOK, Batch!RemoteEnds, Batch!Expire,
         Batch!Withdraw, batch
<1>4. Batch!TypeOK' /\ RecordExists' /\ (Claimed => Claimed')
  BY <1>1, <1>2, <1>3 DEF BatchInv, Batch!TypeOK, RecordExists, Claimed
<1>5. \A d \in Deliveries : Submitting(d)' => Submitting(d)
  BY <1>1 DEF Submitting
<1> QED BY <1>2, <1>4, <1>5, BatchKept

LEMMA BatchNext == BatchInv /\ [Batch!Next]_batch => BatchInv'
BY BatchCreate, BatchClaim, BatchPrepare, BatchSubmit, BatchTerminate,
   BatchReads, BatchWrites, BatchSweeps, BatchEnvironment DEF Batch!Next

\* BatchRender's Cardinality is the one of the theorems.
LEMMA SameCardinality ==
  ASSUME NEW S
  PROVE  Batch!Cardinality(S) = Cardinality(S)
BY Zenon DEF Batch!Cardinality, Cardinality

LEMMA BatchSubmitsOnce == BatchInv => OneSubmission
<1> SUFFICES ASSUME BatchInv PROVE Cardinality(Submitted) <= 1
  BY SameCardinality DEF OneSubmission, Batch!OneSubmission, Submitted
<1>1. CASE Submitted = {}
  <2>1. Cardinality(Submitted) = 0
    BY <1>1, FS_EmptySet
  <2> QED BY <2>1
<1>2. ASSUME NEW j \in Submitted PROVE Cardinality(Submitted) <= 1
  <2>1. \A k \in Submitted : k = j
    BY <1>2 DEF BatchInv, SubmittedOnce
  <2>2. Submitted = {j}
    BY <1>2, <2>1
  <2>3. Cardinality(Submitted) = 1
    BY <2>2, FS_Singleton, Zenon
  <2> QED BY <2>3
<1> QED BY <1>1, <1>2

-----------------------------------------------------------------------------
(* Editing: the inductive invariant *)

\* The edit is in the plan, or changes nothing.
Delivered(p) == edits[p] = 1 \/ proposal[p].noChanges

\* The plan left the revision that the proposal was made for.
BaseGone(p) == proposal[p].baseRevision < plan.revision

\* A request works on a proposal that was generated.
RequestsKnown ==
  \A r \in Approvals : request[r].pc # "idle" =>
    /\ request[r].id \in Proposals
    /\ Editing!Status(request[r].id)
         \in {"pending", "applying", "applied", "rejected"}
    /\ request[r].pc = "plan" =>
         request[r].status \in {"pending", "applying", "applied"}

\* An edit enters the plan at its base revision, and the base is gone for good.
EditsOnce ==
  \A p \in Proposals :
    /\ edits[p] <= 1
    /\ edits[p] > 0 => BaseGone(p)
    /\ proposal[p].baseRevision <= plan.revision
    /\ plan.lastAppliedProposalId = p => edits[p] = 1
    /\ Editing!Status(p)
         \in {"none", "generating", "clarification", "failed", "cancelled"}
         => edits[p] = 0

\* What is applied, or about to be marked as such, is delivered.
AppliedDelivered ==
  /\ \A p \in Proposals : Editing!Status(p) = "applied" => Delivered(p)
  /\ \A r \in Approvals :
       /\ \/ request[r].pc = "mark"
          \/ request[r].pc = "plan" /\ request[r].status = "applied"
          => Delivered(request[r].id)
       /\ request[r].pc = "finish" => edits[request[r].id] = 1

\* Where no database call fails: a proposal returns to pending only when its
\* base is gone, so whoever may still update the plan for it finds it claimed.
ResetsAreLate ==
  /\ \A p \in Proposals :
       Editing!Status(p) \in {"pending", "rejected"}
         => plan.lastAppliedProposalId # p
  /\ \A r \in Approvals :
       /\ request[r].pc \in {"durable", "reset"} => BaseGone(request[r].id)
       /\ request[r].pc = "reset"
            => plan.lastAppliedProposalId # request[r].id
       /\ \/ request[r].pc = "update"
          \/ request[r].pc = "plan" /\ request[r].status = "applying"
          => \/ Editing!Status(request[r].id) \in {"applying", "applied"}
             \/ BaseGone(request[r].id)

EditInv ==
  /\ Editing!TypeOK /\ RequestsKnown /\ EditsOnce /\ AppliedDelivered
  /\ Faulty = {} => ResetsAreLate

-----------------------------------------------------------------------------
(* Editing: every step preserves it *)

LEMMA EditInit == Editing!Init => EditInv
<1> SUFFICES ASSUME Editing!Init PROVE EditInv
  OBVIOUS
<1>1. Editing!TypeOK
  BY RevisionAssumption DEF Editing!Init, Editing!TypeOK, Editing!Idle,
     Editing!Places, Editing!Statuses
<1>2. /\ \A p \in Proposals : /\ Editing!Status(p) = "none" /\ edits[p] = 0
                              /\ proposal[p].baseRevision = 0
      /\ plan.revision = 1 /\ plan.lastAppliedProposalId = None
      /\ \A r \in Approvals : request[r].pc = "idle"
  BY DEF Editing!Init, Editing!Idle, Editing!Status
<1>3. EditsOnce
  BY <1>2, NoneAssumption DEF EditsOnce
<1> QED BY <1>1, <1>2, <1>3 DEF EditInv, RequestsKnown, AppliedDelivered,
                                ResetsAreLate

Documents == [status : Editing!Statuses, baseRevision : 0..MaxRevision,
              noChanges : BOOLEAN]

ReadRequest == [pc : Editing!Places, id : Proposals \cup {None},
                status : Editing!Statuses]

\* The status of one proposal is written, and noChanges is never taken back.
StatusWritten(p, status) ==
  /\ proposal' \in [Proposals -> Documents]
  /\ Editing!Status(p)' = status
  /\ proposal[p].noChanges => proposal'[p].noChanges
  /\ proposal'[p].baseRevision = proposal[p].baseRevision
  /\ \A q \in Proposals \ {p} : proposal'[q] = proposal[q]

LEMMA StatusWrite ==
  ASSUME Editing!TypeOK, NEW p \in Proposals, NEW status \in Editing!Statuses,
         \/ proposal' = [proposal EXCEPT ![p].status = status]
         \/ proposal' = [proposal EXCEPT ![p].status = status,
                                         ![p].noChanges = TRUE]
  PROVE  StatusWritten(p, status)
<1>1. proposal \in [Proposals -> Documents]
  BY DEF Editing!TypeOK, Documents
<1>2. CASE proposal' = [proposal EXCEPT ![p].status = status]
  BY <1>1, <1>2 DEF Documents, StatusWritten, Editing!Status
<1>3. CASE proposal' = [proposal EXCEPT ![p].status = status,
                                        ![p].noChanges = TRUE]
  BY <1>1, <1>3 DEF Documents, StatusWritten, Editing!Status
<1> QED BY <1>2, <1>3

\* A request goes on, for the proposal it read, or ends.
RequestAt(r, place) ==
  /\ request' \in [Approvals -> ReadRequest]
  /\ request'[r].pc = place
  /\ place # "idle" => /\ request'[r].id = request[r].id
                       /\ request'[r].status = request[r].status
  /\ \A s \in Approvals \ {r} : request'[s] = request[s]

LEMMA RequestGoes ==
  ASSUME Editing!TypeOK, NEW r \in Approvals, NEW place \in Editing!Places,
         Editing!Go(r, place)
  PROVE  RequestAt(r, place)
BY DEF Editing!TypeOK, Editing!Go, RequestAt, ReadRequest

LEMMA RequestDone ==
  ASSUME Editing!TypeOK, NEW r \in Approvals, Editing!End(r)
  PROVE  RequestAt(r, "idle")
BY DEF Editing!TypeOK, Editing!End, Editing!Idle, Editing!Places,
       Editing!Statuses, RequestAt, ReadRequest

\* A request that goes on without a write keeps the invariant, if what its new
\* place asks for holds.
LEMMA EditReads ==
  ASSUME EditInv, NEW r \in Approvals, NEW place \in Editing!Places,
         RequestAt(r, place), request[r].pc # "idle",
         place = "mark" => Delivered(request[r].id),
         place = "finish" => edits[request[r].id] = 1,
         place # "plan",
         Faulty = {} =>
           /\ place \in {"durable", "reset"} => BaseGone(request[r].id)
           /\ place = "reset" => plan.lastAppliedProposalId # request[r].id
           /\ place = "update" =>
                \/ Editing!Status(request[r].id) \in {"applying", "applied"}
                \/ BaseGone(request[r].id),
         UNCHANGED <<proposal, plan, edits>>
  PROVE  EditInv'
<1>1. Editing!TypeOK'
  BY DEF EditInv, Editing!TypeOK, RequestAt, ReadRequest
<1>2. RequestsKnown'
  BY DEF EditInv, RequestsKnown, RequestAt, Editing!Status
<1>3. EditsOnce'
  BY DEF EditInv, EditsOnce, BaseGone, Editing!Status
<1>4. AppliedDelivered'
  BY DEF EditInv, AppliedDelivered, Delivered, RequestAt, Editing!Status
<1>5. (Faulty = {} => ResetsAreLate)'
  BY DEF EditInv, ResetsAreLate, BaseGone, RequestAt, Editing!Status
<1> QED BY <1>1, <1>2, <1>3, <1>4, <1>5 DEF EditInv

\* So does one that writes the status of its proposal and ends, or claims it
\* and goes on: what it marks as applied is delivered, and what it hands back
\* or rejects is not in the plan and can no longer get there.
LEMMA EditMarks ==
  ASSUME EditInv, NEW r \in Approvals, NEW p \in Proposals,
         NEW place \in {"idle", "update"}, RequestAt(r, place),
         request[r].id = p, request[r].pc # "idle",
         NEW status \in {"applying", "applied", "pending", "rejected"},
         StatusWritten(p, status),
         place = "update" => status = "applying",
         status = "applied" => Delivered(p)',
         Faulty = {} /\ status \in {"pending", "rejected"} =>
           /\ plan.lastAppliedProposalId # p
           /\ BaseGone(p) \/ Editing!Status(p) \notin {"applying", "applied"},
         UNCHANGED <<plan, edits>>
  PROVE  EditInv'
<1>1. Editing!TypeOK'
  BY DEF EditInv, Editing!TypeOK, RequestAt, ReadRequest, StatusWritten,
         Documents
<1>2. RequestsKnown'
  BY DEF EditInv, RequestsKnown, RequestAt, StatusWritten, Editing!Status
<1>3. EditsOnce'
  BY DEF EditInv, EditsOnce, BaseGone, StatusWritten, Editing!Status
<1>4. \A q \in Proposals : Delivered(q) => Delivered(q)'
  BY DEF Delivered, StatusWritten
<1>5. AppliedDelivered'
  <2>1. \A q \in Proposals : Editing!Status(q)' = "applied" => Delivered(q)'
    BY <1>4 DEF EditInv, AppliedDelivered, StatusWritten, Editing!Status
  <2>2. \A s \in Approvals :
          /\ \/ request'[s].pc = "mark"
             \/ request'[s].pc = "plan" /\ request'[s].status = "applied"
             => /\ s # r /\ request'[s] = request[s] /\ request[s].id \in Proposals
                /\ Delivered(request[s].id)
          /\ request'[s].pc = "finish" =>
               s # r /\ request'[s] = request[s] /\ edits[request[s].id] = 1
    BY DEF EditInv, AppliedDelivered, RequestsKnown, RequestAt
  <2> QED BY <1>4, <2>1, <2>2 DEF AppliedDelivered, Delivered
<1>6. ASSUME Faulty = {} PROVE ResetsAreLate'
  <2>1. \A q \in Proposals : BaseGone(q) <=> BaseGone(q)'
    BY DEF StatusWritten, BaseGone
  <2>2. \A q \in Proposals :
          Editing!Status(q)' \in {"pending", "rejected"}
            => plan.lastAppliedProposalId # q
    BY <1>6 DEF EditInv, ResetsAreLate, StatusWritten, Editing!Status
  <2>3. \A q \in Proposals :
          Editing!Status(q) \in {"applying", "applied"} \/ BaseGone(q)
            => Editing!Status(q)' \in {"applying", "applied"} \/ BaseGone(q)
    BY <1>6 DEF StatusWritten, Editing!Status
  <2>4. \A s \in Approvals \ {r} :
          request'[s] = request[s]
          /\ (request[s].pc # "idle" => request[s].id \in Proposals)
    BY DEF EditInv, RequestsKnown, RequestAt
  <2> QED BY <1>6, <2>1, <2>2, <2>3, <2>4
             DEF EditInv, ResetsAreLate, RequestAt, StatusWritten
<1> QED BY <1>1, <1>2, <1>3, <1>5, <1>6 DEF EditInv

LEMMA EditWithoutWrite ==
  ASSUME EditInv, NEW r \in Approvals, request[r].pc # "idle",
         Editing!End(r), UNCHANGED <<proposal, plan, edits>>
  PROVE  EditInv'
BY RequestDone, EditReads DEF EditInv, Editing!Places

\* An update of a status with a filter, by which a request ends.
LEMMA EditFilter ==
  ASSUME EditInv, NEW r \in Approvals, NEW p \in Proposals,
         request[r].id = p, request[r].pc # "idle", Editing!End(r),
         NEW statuses, NEW status \in {"applied", "pending", "rejected"},
         Editing!SetStatusIf(p, statuses, status),
         status = "applied" => Delivered(p),
         Faulty = {} /\ Editing!Status(p) \in statuses
                     /\ status \in {"pending", "rejected"} =>
           /\ plan.lastAppliedProposalId # p
           /\ BaseGone(p) \/ Editing!Status(p) \notin {"applying", "applied"},
         UNCHANGED <<plan, edits>>
  PROVE  EditInv'
<1>1. RequestAt(r, "idle")
  BY RequestDone DEF EditInv
<1>2. CASE Editing!Status(p) \in statuses
  <2>1. StatusWritten(p, status)
    BY <1>2, StatusWrite
       DEF EditInv, Editing!SetStatusIf, Editing!Statuses
  <2>2. status = "applied" => Delivered(p)'
    BY <2>1 DEF Delivered, StatusWritten
  <2> QED BY <1>1, <1>2, <2>1, <2>2, EditMarks
<1>3. CASE Editing!Status(p) \notin statuses
  <2>1. proposal' = proposal
    BY <1>3 DEF Editing!SetStatusIf
  <2> QED BY <2>1, EditWithoutWrite
<1> QED BY <1>2, <1>3

LEMMA EditMark ==
  ASSUME EditInv, NEW r \in Approvals, Editing!Mark(r)
  PROVE  EditInv'
<1>1. PICK p \in Proposals : p = request[r].id
  BY DEF EditInv, RequestsKnown, Editing!Mark
<1>2. /\ Delivered(p) /\ RequestAt(r, "idle") /\ request[r].pc # "idle"
      /\ Editing!SetStatus(p, "applied") /\ UNCHANGED <<plan, edits>>
  BY <1>1, RequestDone DEF EditInv, AppliedDelivered, Editing!Mark
<1>3. StatusWritten(p, "applied")
  BY <1>2, StatusWrite DEF EditInv, Editing!SetStatus, Editing!Statuses
<1>4. Delivered(p)'
  BY <1>2, <1>3 DEF Delivered, StatusWritten
<1> QED BY <1>1, <1>2, <1>3, <1>4, EditMarks

LEMMA EditNoChanges ==
  ASSUME EditInv, NEW r \in Approvals, Editing!NoChanges(r)
  PROVE  EditInv'
<1>1. PICK p \in Proposals : p = request[r].id
  BY DEF EditInv, RequestsKnown, Editing!NoChanges
<1>2. /\ RequestAt(r, "idle") /\ request[r].pc # "idle"
      /\ Editing!End(r) /\ UNCHANGED <<plan, edits>>
  BY RequestDone DEF EditInv, Editing!NoChanges
<1>3. CASE Editing!Status(p) \in {"pending", "applying"}
  <2>1. proposal' = [proposal EXCEPT ![p].status = "applied",
                                     ![p].noChanges = TRUE]
    BY <1>1, <1>3 DEF Editing!NoChanges
  <2>2. StatusWritten(p, "applied")
    BY <2>1, StatusWrite DEF EditInv, Editing!Statuses
  <2>3. proposal'[p].noChanges = TRUE
    BY <2>1 DEF EditInv, Editing!TypeOK
  <2>4. Delivered(p)'
    BY <2>3 DEF Delivered
  <2> QED BY <1>1, <1>2, <2>2, <2>4, EditMarks
<1>4. CASE Editing!Status(p) \notin {"pending", "applying"}
  BY <1>1, <1>2, <1>4, EditWithoutWrite DEF Editing!NoChanges
<1> QED BY <1>3, <1>4

LEMMA EditClaim ==
  ASSUME EditInv, NEW r \in Approvals, Editing!Claim(r)
  PROVE  EditInv'
<1>1. PICK p \in Proposals : p = request[r].id
  BY DEF EditInv, RequestsKnown, Editing!Claim
<1>2. request[r].pc # "idle" /\ UNCHANGED <<plan, edits>>
      /\ Editing!SetStatusIf(p, {"pending"}, "applying")
  BY <1>1 DEF Editing!Claim
<1>3. CASE Editing!Status(p) = "pending"
  <2>1. RequestAt(r, "update")
    BY <1>1, <1>3, RequestGoes DEF EditInv, Editing!Claim, Editing!Places
  <2>2. StatusWritten(p, "applying")
    BY <1>2, <1>3, StatusWrite
       DEF EditInv, Editing!SetStatusIf, Editing!Statuses
  <2> QED BY <1>1, <1>2, <2>1, <2>2, EditMarks
<1>4. CASE Editing!Status(p) # "pending"
  <2>1. Editing!End(r) /\ proposal' = proposal
    BY <1>1, <1>2, <1>4 DEF Editing!Claim, Editing!SetStatusIf
  <2> QED BY <1>2, <2>1, EditWithoutWrite
<1> QED BY <1>3, <1>4

LEMMA EditReset ==
  ASSUME EditInv, NEW r \in Approvals, Editing!Reset(r)
  PROVE  EditInv'
<1>1. PICK p \in Proposals : p = request[r].id
  BY DEF EditInv, RequestsKnown, Editing!Reset
<1>2. Faulty = {} => BaseGone(p) /\ plan.lastAppliedProposalId # p
  BY <1>1 DEF EditInv, ResetsAreLate, Editing!Reset
<1> QED BY <1>1, <1>2, EditFilter DEF Editing!Reset

LEMMA EditFinish ==
  ASSUME EditInv, NEW r \in Approvals, Editing!Finish(r)
  PROVE  EditInv'
<1>1. PICK p \in Proposals : p = request[r].id
  BY DEF EditInv, RequestsKnown, Editing!Finish
<1>2. Delivered(p)
  BY <1>1 DEF EditInv, AppliedDelivered, Delivered, Editing!Finish
<1> QED BY <1>1, <1>2, EditFilter DEF Editing!Finish

LEMMA EditReject ==
  ASSUME EditInv, NEW r \in Approvals, Editing!Reject(r)
  PROVE  EditInv'
<1>1. PICK p \in Proposals : p = request[r].id
  BY DEF EditInv, RequestsKnown, Editing!Reject
<1>2. Faulty = {} /\ Editing!Status(p) = "pending" =>
        plan.lastAppliedProposalId # p
  BY DEF EditInv, ResetsAreLate
<1> QED BY <1>1, <1>2, EditFilter DEF Editing!Reject

\* The update meets the base revision only if nothing entered before, and
\* finds the proposal claimed, so neither pending nor rejected.
LEMMA EditUpdate ==
  ASSUME EditInv, NEW r \in Approvals, Editing!Update(r)
  PROVE  EditInv'
<1>1. PICK p \in Proposals : p = request[r].id
  BY DEF EditInv, RequestsKnown, Editing!Update
<1>2. request[r].pc = "update" /\ proposal' = proposal
  BY DEF Editing!Update
<1>3. /\ plan.revision \in 1..MaxRevision
      /\ proposal[p].baseRevision \in 0..MaxRevision
      /\ proposal[p].baseRevision <= plan.revision
  BY DEF EditInv, Editing!TypeOK, EditsOnce
<1>4. CASE /\ plan.revision # proposal[p].baseRevision \/ r \in Faulty
           /\ Editing!Go(r, "durable") /\ UNCHANGED <<plan, edits>>
  <2>1. RequestAt(r, "durable")
    BY <1>4, RequestGoes DEF EditInv, Editing!Places
  <2>2. Faulty = {} => BaseGone(p)
    BY <1>3, <1>4 DEF BaseGone
  <2> QED BY <1>1, <1>2, <1>4, <2>1, <2>2, EditReads DEF Editing!Places
<1>5. CASE /\ plan.revision = proposal[p].baseRevision
           /\ plan.revision < MaxRevision
           /\ plan' = [revision |-> plan.revision + 1,
                       lastAppliedProposalId |-> p]
           /\ edits' = [edits EXCEPT ![p] = @ + 1]
           /\ \E place \in {"finish", "durable"} : Editing!Go(r, place)
  <2>1. PICK place \in {"finish", "durable"} : RequestAt(r, place)
    BY <1>5, RequestGoes DEF EditInv, Editing!Places
  <2>2. edits \in [Proposals -> Nat] /\ edits[p] = 0 /\ ~BaseGone(p)
    <3>1. ~BaseGone(p)
      BY <1>3, <1>5 DEF BaseGone
    <3> QED BY <3>1 DEF EditInv, Editing!TypeOK, EditsOnce
  <2>3. /\ plan'.revision = plan.revision + 1
        /\ plan'.lastAppliedProposalId = p
        /\ edits'[p] = 1 /\ \A q \in Proposals \ {p} : edits'[q] = edits[q]
    BY <1>5, <2>2
  <2>4. BaseGone(p)' /\ \A q \in Proposals : BaseGone(q) => BaseGone(q)'
    BY <1>2, <1>3, <1>5, <2>3 DEF BaseGone, EditInv, Editing!TypeOK
  <2>5. Editing!TypeOK'
    <3>1. plan' \in [revision : 1..MaxRevision,
                     lastAppliedProposalId : Proposals \cup {None}]
      BY <1>3, <1>5, RevisionAssumption
    <3>2. edits' \in [Proposals -> Nat]
      BY <1>5, <2>2
    <3> QED BY <1>2, <2>1, <3>1, <3>2
               DEF EditInv, Editing!TypeOK, RequestAt, ReadRequest
  <2>6. RequestsKnown'
    BY <1>2, <2>1 DEF EditInv, RequestsKnown, RequestAt, Editing!Status
  <2>7. EditsOnce'
    <3>1. \A q \in Proposals : proposal'[q].baseRevision <= plan'.revision
      BY <1>2, <1>3, <2>3 DEF EditInv, Editing!TypeOK, EditsOnce
    <3>2. Editing!Status(p)
            \in {"pending", "applying", "applied", "rejected"}
      BY <1>1, <1>2 DEF EditInv, RequestsKnown
    <3> QED BY <1>2, <2>3, <2>4, <3>1, <3>2
               DEF EditInv, EditsOnce, Editing!Status
  <2>8. AppliedDelivered'
    <3>1. \A q \in Proposals : Delivered(q) => Delivered(q)'
      BY <1>2, <2>3 DEF Delivered
    <3>2. \A s \in Approvals \ {r} : request'[s] = request[s]
            /\ (request[s].pc # "idle" => request[s].id \in Proposals)
      BY <2>1 DEF EditInv, RequestsKnown, RequestAt
    <3>3. \A q \in Proposals : edits[q] = 1 => edits'[q] = 1
      BY <2>2, <2>3
    <3> QED BY <1>1, <1>2, <2>1, <2>3, <3>1, <3>2, <3>3
               DEF EditInv, AppliedDelivered, RequestAt, Editing!Status
  <2>9. ASSUME Faulty = {} PROVE ResetsAreLate'
    <3>1. Editing!Status(p) \in {"applying", "applied"}
      BY <1>1, <1>2, <2>2, <2>9 DEF EditInv, ResetsAreLate
    <3>2. \A s \in Approvals \ {r} : request'[s] = request[s]
            /\ (request[s].pc # "idle" => request[s].id \in Proposals)
      BY <2>1 DEF EditInv, RequestsKnown, RequestAt
    <3>3. \A s \in Approvals \ {r} :
            request[s].pc = "reset" => request[s].id # p
      BY <2>2, <2>9 DEF EditInv, ResetsAreLate
    <3> QED BY <1>1, <1>2, <2>1, <2>3, <2>4, <2>9, <3>1, <3>2, <3>3
               DEF EditInv, ResetsAreLate, RequestAt, Editing!Status
  <2> QED BY <2>5, <2>6, <2>7, <2>8, <2>9 DEF EditInv
<1> QED BY <1>1, <1>4, <1>5 DEF Editing!Update

\* A request starts: it knows its proposal, in the status it read.
LEMMA EditStarts ==
  ASSUME EditInv, NEW r \in Approvals, NEW p \in Proposals,
         Editing!ApplyRead(r, p) \/ Editing!RejectRead(r, p)
  PROVE  EditInv'
<1>1. PICK place \in {"plan", "check"} :
        /\ request' = [request EXCEPT ![r] =
             [pc |-> place, id |-> p, status |-> Editing!Status(p)]]
        /\ Editing!Status(p) \in {"pending", "applying", "applied"}
  BY DEF Editing!ApplyRead, Editing!RejectRead
<1>2. UNCHANGED <<proposal, plan, edits>>
  BY DEF Editing!ApplyRead, Editing!RejectRead
<1>3. /\ request'[r].pc = place /\ request'[r].id = p
      /\ request'[r].status = Editing!Status(p)
      /\ \A s \in Approvals \ {r} : request'[s] = request[s]
  BY <1>1 DEF EditInv, Editing!TypeOK
<1>4. Editing!TypeOK'
  BY <1>1, <1>2 DEF EditInv, Editing!TypeOK, Editing!Places, Editing!Status
<1>5. RequestsKnown' /\ EditsOnce'
  BY <1>1, <1>2, <1>3 DEF EditInv, RequestsKnown, EditsOnce, BaseGone,
                          Editing!Status
<1>6. AppliedDelivered'
  BY <1>1, <1>2, <1>3 DEF EditInv, AppliedDelivered, Delivered, Editing!Status
<1>7. (Faulty = {} => ResetsAreLate)'
  BY <1>1, <1>2, <1>3 DEF EditInv, ResetsAreLate, BaseGone, Editing!Status
<1> QED BY <1>4, <1>5, <1>6, <1>7 DEF EditInv

\* A request reads the plan and decides.
LEMMA EditReadsPlan ==
  ASSUME EditInv, NEW r \in Approvals,
         \/ Editing!ApplyReadPlan(r) \/ Editing!CheckDurable(r)
         \/ Editing!RejectCheck(r)
  PROVE  EditInv'
<1>1. PICK p \in Proposals : p = request[r].id
  BY DEF EditInv, RequestsKnown, Editing!ApplyReadPlan, Editing!CheckDurable,
         Editing!RejectCheck
<1>2. request[r].pc # "idle" /\ UNCHANGED <<proposal, plan, edits>>
  BY DEF Editing!ApplyReadPlan, Editing!CheckDurable, Editing!RejectCheck
<1>3. {"mark", "reset", "no changes", "claim", "update", "finish", "reject"}
        \subseteq Editing!Places \ {"plan"}
  BY DEF Editing!Places
<1>4. plan.lastAppliedProposalId = p => Delivered(p) /\ edits[p] = 1
  BY DEF EditInv, EditsOnce, Delivered
<1>5. CASE Editing!End(r)
  BY <1>2, <1>5, EditWithoutWrite
<1>6. CASE ~Editing!End(r) /\ Editing!ApplyReadPlan(r)
  <2>1. CASE request[r].status = "applied" \/ plan.lastAppliedProposalId = p
    <3>1. Editing!Go(r, "mark") /\ Delivered(p)
      BY <1>1, <1>4, <1>6, <2>1
         DEF EditInv, AppliedDelivered, Editing!ApplyReadPlan
    <3> QED BY <1>1, <1>2, <1>3, <3>1, RequestGoes, EditReads DEF EditInv
  <2>2. CASE /\ request[r].status # "applied"
             /\ plan.lastAppliedProposalId # p
             /\ plan.revision # proposal[p].baseRevision
    <3>1. Editing!Go(r, "reset")
      BY <1>1, <1>6, <2>2 DEF Editing!ApplyReadPlan
    <3>2. BaseGone(p)
      <4>1. /\ plan.revision \in Nat /\ proposal[p].baseRevision \in Nat
            /\ proposal[p].baseRevision <= plan.revision
        BY RevisionAssumption DEF EditInv, Editing!TypeOK, EditsOnce
      <4> QED BY <2>2, <4>1 DEF BaseGone
    <3>3. RequestAt(r, "reset") /\ "reset" \in Editing!Places
      BY <1>3, <3>1, RequestGoes DEF EditInv
    <3> QED BY <1>1, <1>2, <2>2, <3>2, <3>3, EditReads
  <2>3. CASE /\ request[r].status # "applied"
             /\ plan.lastAppliedProposalId # p
             /\ plan.revision = proposal[p].baseRevision
    <3>1. PICK place \in {"no changes", "claim", "update"} :
            /\ Editing!Go(r, place)
            /\ place = "update" => request[r].status # "pending"
      BY <1>1, <1>6, <2>3 DEF Editing!ApplyReadPlan
    <3>2. request[r].status \in {"pending", "applying", "applied"}
      BY <1>6 DEF EditInv, RequestsKnown, Editing!ApplyReadPlan
    <3>3. Faulty = {} /\ place = "update" =>
            Editing!Status(p) \in {"applying", "applied"} \/ BaseGone(p)
      BY <1>1, <1>6, <2>3, <3>1, <3>2
         DEF EditInv, ResetsAreLate, Editing!ApplyReadPlan
    <3> QED BY <1>1, <1>2, <1>3, <3>1, <3>3, RequestGoes, EditReads DEF EditInv
  <2> QED BY <2>1, <2>2, <2>3
<1>7. CASE Editing!CheckDurable(r)
  <2>1. CASE plan.lastAppliedProposalId = p
    <3>1. Editing!Go(r, "finish")
      BY <1>1, <1>7, <2>1 DEF Editing!CheckDurable, Editing!Durable
    <3> QED BY <1>1, <1>2, <1>3, <1>4, <2>1, <3>1, RequestGoes, EditReads
               DEF EditInv
  <2>2. CASE plan.lastAppliedProposalId # p
    <3>1. Editing!Go(r, "reset")
      BY <1>1, <1>7, <2>2 DEF Editing!CheckDurable, Editing!Durable
    <3>2. Faulty = {} => BaseGone(p)
      BY <1>1, <1>7 DEF EditInv, ResetsAreLate, Editing!CheckDurable
    <3> QED BY <1>1, <1>2, <1>3, <2>2, <3>1, <3>2, RequestGoes, EditReads
               DEF EditInv
  <2> QED BY <2>1, <2>2
<1>8. CASE ~Editing!End(r) /\ Editing!RejectCheck(r)
  <2>1. Editing!Go(r, "reject")
    BY <1>8 DEF Editing!RejectCheck
  <2> QED BY <1>2, <1>3, <2>1, RequestGoes, EditReads DEF EditInv
<1> QED BY <1>5, <1>6, <1>7, <1>8

\* Proposals are generated before any request works on them.
LEMMA EditGenerates ==
  ASSUME EditInv, NEW p \in Proposals,
         Editing!Propose(p) \/ Editing!EndGeneration(p)
  PROVE  EditInv'
<1>1. /\ Editing!Status(p) \in {"none", "generating"} /\ edits[p] = 0
      /\ plan.lastAppliedProposalId # p
      /\ UNCHANGED <<plan, edits, request>>
  BY DEF EditInv, EditsOnce, Editing!Propose, Editing!EndGeneration
<1>2. /\ proposal' \in [Proposals -> Documents]
      /\ Editing!Status(p)' \in {"generating", "pending", "clarification",
                                 "failed", "cancelled"}
      /\ proposal'[p].baseRevision <= plan.revision
      /\ \A q \in Proposals \ {p} : proposal'[q] = proposal[q]
  <2>1. plan.revision \in 1..MaxRevision
        /\ proposal[p].baseRevision \in 0..MaxRevision
        /\ proposal[p].baseRevision <= plan.revision
        /\ proposal \in [Proposals -> Documents]
    BY DEF EditInv, Editing!TypeOK, EditsOnce, Documents
  <2>2. CASE Editing!Propose(p)
    <3>1. PICK base \in 1..plan.revision :
            proposal' = [proposal EXCEPT ![p].status = "generating",
                                         ![p].baseRevision = base]
      BY <2>2 DEF Editing!Propose
    <3>2. base \in 0..MaxRevision /\ base <= plan.revision
      BY <2>1, RevisionAssumption
    <3> QED BY <2>1, <3>1, <3>2
               DEF Documents, Editing!Statuses, Editing!Status
  <2>3. CASE Editing!EndGeneration(p)
    <3>1. PICK status \in {"pending", "clarification", "failed", "cancelled"} :
            proposal' = [proposal EXCEPT ![p].status = status]
      BY <2>3 DEF Editing!EndGeneration, Editing!SetStatus
    <3> QED BY <2>1, <3>1 DEF Documents, Editing!Statuses, Editing!Status
  <2> QED BY <2>2, <2>3
<1>3. \A r \in Approvals : request[r].pc # "idle" =>
        request[r].id \in Proposals \ {p}
  BY <1>1 DEF EditInv, RequestsKnown
<1>4. \A q \in Proposals \ {p} : /\ Editing!Status(q)' = Editing!Status(q)
                                 /\ BaseGone(q)' <=> BaseGone(q)
                                 /\ Delivered(q)' <=> Delivered(q)
  BY <1>1, <1>2 DEF Editing!Status, BaseGone, Delivered
<1>5. Editing!TypeOK'
  BY <1>1, <1>2 DEF EditInv, Editing!TypeOK, Documents
<1>6. RequestsKnown'
  BY <1>1, <1>3, <1>4 DEF EditInv, RequestsKnown
<1>7. EditsOnce'
  BY <1>1, <1>2, <1>4 DEF EditInv, EditsOnce
<1>8. AppliedDelivered'
  BY <1>1, <1>2, <1>3, <1>4 DEF EditInv, AppliedDelivered
<1>9. (Faulty = {} => ResetsAreLate)'
  BY <1>1, <1>2, <1>3, <1>4 DEF EditInv, ResetsAreLate
<1> QED BY <1>5, <1>6, <1>7, <1>8, <1>9 DEF EditInv

LEMMA EditSaves ==
  ASSUME EditInv, Editing!SavePlan
  PROVE  EditInv'
<1>1. /\ plan.revision \in 1..MaxRevision /\ plan.revision < MaxRevision
      /\ plan' = [plan EXCEPT !.revision = @ + 1]
      /\ UNCHANGED <<proposal, edits, request>>
  BY DEF EditInv, Editing!TypeOK, Editing!SavePlan
<1>2. /\ plan' \in [revision : 1..MaxRevision,
                    lastAppliedProposalId : Proposals \cup {None}]
      /\ plan'.revision = plan.revision + 1
      /\ plan'.lastAppliedProposalId = plan.lastAppliedProposalId
  BY <1>1, RevisionAssumption DEF EditInv, Editing!TypeOK
<1>3. \A q \in Proposals : /\ Editing!Status(q)' = Editing!Status(q)
                           /\ BaseGone(q) => BaseGone(q)'
                           /\ proposal[q].baseRevision \in 0..MaxRevision
  BY <1>1, <1>2 DEF EditInv, Editing!TypeOK, Editing!Status, BaseGone
<1>4. Editing!TypeOK' /\ RequestsKnown'
  BY <1>1, <1>2, <1>3 DEF EditInv, Editing!TypeOK, RequestsKnown
<1>5. EditsOnce'
  BY <1>1, <1>2, <1>3 DEF EditInv, EditsOnce
<1>6. AppliedDelivered'
  BY <1>1 DEF EditInv, AppliedDelivered, Delivered, Editing!Status
<1>7. \A r \in Approvals : request[r].pc # "idle" =>
        request[r].id \in Proposals
  BY DEF EditInv, RequestsKnown
<1>8. (Faulty = {} => ResetsAreLate)'
  BY <1>1, <1>2, <1>3, <1>7 DEF EditInv, ResetsAreLate
<1> QED BY <1>4, <1>5, <1>6, <1>8 DEF EditInv

LEMMA EditRests ==
  ASSUME EditInv, UNCHANGED editing
  PROVE  EditInv'
<1>1. Editing!TypeOK' /\ RequestsKnown' /\ EditsOnce'
  BY DEF editing, EditInv, Editing!TypeOK, RequestsKnown, EditsOnce, BaseGone,
         Editing!Status
<1>2. AppliedDelivered' /\ (Faulty = {} => ResetsAreLate)'
  BY DEF editing, EditInv, AppliedDelivered, Delivered, ResetsAreLate,
         BaseGone, Editing!Status
<1> QED BY <1>1, <1>2 DEF EditInv

LEMMA EditNext == EditInv /\ [Editing!Next]_editing => EditInv'
<1>1. ASSUME EditInv, NEW r \in Approvals, Editing!Crash(r) PROVE EditInv'
  BY <1>1, EditWithoutWrite DEF Editing!Crash
<1> QED
  BY <1>1, EditMark, EditNoChanges, EditClaim, EditReset, EditFinish,
     EditReject, EditUpdate, EditStarts, EditReadsPlan, EditGenerates,
     EditSaves, EditRests DEF Editing!Next

-----------------------------------------------------------------------------
(* The composition and its theorems *)

\* A behaviour exercises one part and leaves the others at rest.
LEMMA PartsStep ==
  [PartsNext]_allVars =>
    [Next]_vars /\ [Batch!Next]_batch /\ [Editing!Next]_editing
BY DEF PartsNext, allVars, StudioStep, BatchStep, EditingStep, studio

\* Every part satisfies its invariant at any time.
THEOREM PartsInvariance == PartsSpec => [](Inv /\ BatchInv /\ EditInv)
<1>1. PartsInit => Inv /\ BatchInv /\ EditInv
  BY InvInit, BatchInit, EditInit DEF PartsInit
<1>2. Inv /\ BatchInv /\ EditInv /\ [PartsNext]_allVars
        => (Inv /\ BatchInv /\ EditInv)'
  BY PartsStep, InvNext, BatchNext, EditNext
<1> QED BY <1>1, <1>2, PTL DEF PartsSpec

\* The documents, requests and processes of all parts keep their shape.
THEOREM PartsTypeCorrect == PartsSpec => []PartsTypeOK
<1>1. Inv /\ BatchInv /\ EditInv => PartsTypeOK
  BY DEF PartsTypeOK, Inv, BatchInv, EditInv
<1> QED BY PartsInvariance, <1>1, PTL

\* However many deliveries ask for a render, and wherever they die, it is
\* submitted to AWS Batch at most once.
THEOREM RendersAreSubmittedOnce == PartsSpec => []OneSubmission
<1> QED BY PartsInvariance, BatchSubmitsOnce, PTL

\* However often and from wherever a proposal is applied, and whichever calls
\* fail: no edit enters the plan twice, and what is shown as applied is in the
\* plan or changes nothing.
THEOREM EditsEnterOnce ==
  PartsSpec => []\A p \in Proposals :
    /\ edits[p] <= 1
    /\ Editing!Status(p) = "applied" => edits[p] = 1 \/ proposal[p].noChanges
<1>1. EditInv => \A p \in Proposals :
        /\ edits[p] <= 1
        /\ Editing!Status(p) = "applied"
             => edits[p] = 1 \/ proposal[p].noChanges
  BY DEF EditInv, EditsOnce, AppliedDelivered, Delivered
<1> QED BY PartsInvariance, <1>1, PTL

\* Where database calls do not fail by themselves, every outcome that a
\* proposal shows is what happened to the plan, although requests interleave
\* and die anywhere.
THEOREM OutcomesAreTrue ==
  ASSUME Faulty = {}
  PROVE  PartsSpec => []ProposalOutcomeIsTrue
<1>1. EditInv => ProposalOutcomeIsTrue
  <2> SUFFICES ASSUME EditInv, NEW p \in Proposals
               PROVE  /\ edits[p] <= 1
                      /\ Editing!Status(p) = "applied"
                           => edits[p] = 1 \/ proposal[p].noChanges
                      /\ Editing!Status(p) \in {"rejected", "failed", "cancelled"}
                           => plan.lastAppliedProposalId # p
    BY DEF ProposalOutcomeIsTrue, Editing!ProposalOutcomeIsTrue
  <2> QED BY DEF EditInv, EditsOnce, AppliedDelivered, Delivered, ResetsAreLate
<1> QED BY PartsInvariance, <1>1, PTL

=============================================================================
