---------------------------- MODULE BatchRender -----------------------------
(***************************************************************************)
(* One render handed to AWS Batch by BatchRenderService: `execute' called  *)
(* for one identity by any number of deliveries of its queue entry, the    *)
(* record they share, the remote jobs, and the reconciliation that runs    *)
(* every 30 seconds.  SubmitJob has no client token, so it must not be     *)
(* called twice, and its answer may be lost.                               *)
(***************************************************************************)
EXTENDS Naturals, FiniteSets

CONSTANTS
  None,
  Deliveries,     \* calls of `execute' with the identity of the render
  AwsJobs         \* ids AWS Batch may give to remote jobs

VARIABLES
  execution,      \* the BatchExecution document: [state, jobId, retryable]
  overdue,        \* its deadline has passed
  unwanted,       \* the owner was cancelled, deleted or reset
  remote,         \* status of every remote job
  delivery,       \* where every delivery is, and the job id it read or got
  sweep           \* where the reconciliation is, and the job id it read

vars == <<execution, overdue, unwanted, remote, delivery, sweep>>

States == {"PREPARING", "SUBMITTING", "SUBMITTED", "UNKNOWN", "FAILED",
           "CANCELLED", "SUCCEEDED"}
Execution == [state : States, jobId : AwsJobs \cup {None},
              retryable : BOOLEAN]
Places == {"idle", "create", "claim", "prepare", "submit", "record", "doubt",
           "poll", "terminate", "cancel", "status", "fail", "succeed"}

TypeOK ==
  /\ execution \in Execution \cup {None}
  /\ overdue \in BOOLEAN /\ unwanted \in BOOLEAN
  /\ remote \in [AwsJobs -> {"none", "running", "succeeded", "failed"}]
  /\ delivery \in [Deliveries -> [pc : Places, jobId : AwsJobs \cup {None}]]
  /\ sweep \in [pc : {"idle", "doubt", "terminate", "cancel"},
                jobId : AwsJobs \cup {None}]

Idle == [pc |-> "idle", jobId |-> None]

Init ==
  /\ execution = None
  /\ overdue = FALSE /\ unwanted = FALSE
  /\ remote = [j \in AwsJobs |-> "none"]
  /\ delivery = [d \in Deliveries |-> Idle]
  /\ sweep = Idle

Go(d, place, j) == delivery' = [delivery EXCEPT ![d] = [pc |-> place, jobId |-> j]]

-----------------------------------------------------------------------------
(* execute *)

Attach(d) ==
  /\ delivery[d].pc = "idle"
  /\ Go(d, IF execution = None THEN "create" ELSE "poll", None)
  /\ UNCHANGED <<execution, overdue, unwanted, remote, sweep>>

\* The record's id is the identity's hash: a delivery that loses the race
\* reads the other's record.
Create(d) ==
  /\ delivery[d].pc = "create"
  /\ execution' = IF execution = None
                  THEN [state |-> "PREPARING", jobId |-> None,
                        retryable |-> TRUE]
                  ELSE execution
  /\ Go(d, IF execution'.state = "PREPARING" THEN "claim" ELSE "poll", None)
  /\ UNCHANGED <<overdue, unwanted, remote, sweep>>

\* Mutant: the claim does not ask for the state it leaves.
Mutant_Claimable == TRUE

\* The filter of the claim.
Claimable == execution.state = "PREPARING"

\* PREPARING becomes SUBMITTING for one delivery only.
Claim(d) ==
  /\ delivery[d].pc = "claim"
  /\ execution' = IF Claimable THEN [execution EXCEPT !.state = "SUBMITTING"]
                  ELSE execution
  /\ Go(d, IF Claimable THEN "prepare" ELSE "poll", None)
  /\ UNCHANGED <<overdue, unwanted, remote, sweep>>

\* Preparation, upload of the task, and the last checks before the submission.
Prepare(d) ==
  /\ delivery[d].pc = "prepare"
  /\ ~overdue
  /\ Go(d, "submit", None)
  /\ UNCHANGED <<execution, overdue, unwanted, remote, sweep>>

PrepareFails(d) ==
  /\ delivery[d].pc = "prepare"
  /\ \E retryable \in {execution.retryable, FALSE} :
       execution' = [execution EXCEPT !.state = "FAILED",
                                      !.retryable = retryable]
  /\ Go(d, "idle", None)
  /\ UNCHANGED <<overdue, unwanted, remote, sweep>>

\* AWS takes the job, and its answer may be lost; or it refuses.
Submit(d) ==
  /\ delivery[d].pc = "submit"
  /\ \/ \E j \in AwsJobs :
          /\ remote[j] = "none"
          /\ remote' = [remote EXCEPT ![j] = "running"]
          /\ \/ Go(d, "record", j)
             \/ Go(d, "doubt", None)
     \/ Go(d, "doubt", None) /\ UNCHANGED remote
  /\ UNCHANGED <<execution, overdue, unwanted, sweep>>

\* The write of the job id, whose own answer may be lost.
Record(d) ==
  /\ delivery[d].pc = "record"
  /\ execution' = [execution EXCEPT !.jobId = delivery[d].jobId,
                                    !.state = "SUBMITTED"]
  /\ \E place \in {"poll", "doubt"} : Go(d, place, None)
  /\ UNCHANGED <<overdue, unwanted, remote, sweep>>

\* After `submitted' any error leaves an ambiguous submission.
Doubt(d) ==
  /\ delivery[d].pc = "doubt"
  /\ execution' = [execution EXCEPT !.state = "UNKNOWN"]
  /\ Go(d, "idle", None)
  /\ UNCHANGED <<overdue, unwanted, remote, sweep>>

\* One reading of the record in the poll loop.  A cancelled delivery notices
\* it by its own signal, so it may still pass.
Poll(d) ==
  /\ delivery[d].pc = "poll"
  /\ LET j == execution.jobId
     IN \/ execution.state \in {"UNKNOWN", "FAILED", "CANCELLED"}
             /\ Go(d, "idle", None)
        \/ execution.state \notin {"UNKNOWN", "FAILED", "CANCELLED"}
             /\ \/ overdue \/ unwanted
             /\ Go(d, IF j = None THEN "cancel" ELSE "terminate", j)
        \/ execution.state \notin {"UNKNOWN", "FAILED", "CANCELLED"}
             /\ ~overdue /\ j # None
             /\ Go(d, "status", j)
  /\ UNCHANGED <<execution, overdue, unwanted, remote, sweep>>

Terminated(j) ==
  [remote EXCEPT ![j] = IF @ = "running" THEN "failed" ELSE @]

\* CancelJob and TerminateJob, or a call that fails and ends the delivery.
Terminate(d) ==
  /\ delivery[d].pc = "terminate"
  /\ \/ remote' = Terminated(delivery[d].jobId)
          /\ Go(d, "cancel", delivery[d].jobId)
     \/ Go(d, "idle", None) /\ UNCHANGED remote
  /\ UNCHANGED <<execution, overdue, unwanted, sweep>>

\* Written without a condition, over whatever the record says by now.
Cancel(d) ==
  /\ delivery[d].pc = "cancel"
  /\ execution' = [execution EXCEPT !.state = "CANCELLED"]
  /\ Go(d, "idle", None)
  /\ UNCHANGED <<overdue, unwanted, remote, sweep>>

\* DescribeJobs; a result must be whole and the delivery still wanted.
Status(d) ==
  /\ delivery[d].pc = "status"
  /\ LET j == delivery[d].jobId
     IN \/ remote[j] = "running" /\ Go(d, "poll", None)
        \/ remote[j] = "failed" /\ Go(d, "fail", j)
        \/ remote[j] = "succeeded"
             /\ \E place \in {"succeed", "idle"} : Go(d, place, j)
  /\ UNCHANGED <<execution, overdue, unwanted, remote, sweep>>

Fail(d) ==
  /\ delivery[d].pc = "fail"
  /\ \E retryable \in {execution.retryable, FALSE} :
       execution' = [execution EXCEPT !.state = "FAILED",
                                      !.retryable = retryable]
  /\ Go(d, "idle", None)
  /\ UNCHANGED <<overdue, unwanted, remote, sweep>>

Succeed(d) ==
  /\ delivery[d].pc = "succeed"
  /\ execution' = [execution EXCEPT !.state = "SUCCEEDED"]
  /\ Go(d, "idle", None)
  /\ UNCHANGED <<overdue, unwanted, remote, sweep>>

\* The worker dies anywhere, between SubmitJob and Record above all.
Crash(d) ==
  /\ delivery[d].pc # "idle"
  /\ Go(d, "idle", None)
  /\ UNCHANGED <<execution, overdue, unwanted, remote, sweep>>

-----------------------------------------------------------------------------
(* reconcile *)

\* Mutant: ambiguous submissions are left alone.
Mutant_Reconciled == {"PREPARING", "SUBMITTING", "SUBMITTED"}

\* The states that the reconciliation lists.
Reconciled == {"PREPARING", "SUBMITTING", "SUBMITTED", "UNKNOWN"}

Sweep(place, j) == sweep' = [pc |-> place, jobId |-> j]

List ==
  /\ sweep.pc = "idle"
  /\ execution # None /\ (overdue \/ unwanted)
  /\ execution.state \in Reconciled
  \* A submission in doubt that has no id stays in doubt: nothing to do.
  /\ ~(execution.state = "UNKNOWN" /\ execution.jobId = None)
  /\ Sweep(IF execution.jobId = None THEN "doubt" ELSE "terminate",
           execution.jobId)
  /\ UNCHANGED <<execution, overdue, unwanted, remote, delivery>>

\* Nobody knows whether AWS has the job: only an operator can tell.
SweepDoubt ==
  /\ sweep.pc = "doubt"
  /\ execution' = IF execution.jobId = None
                  THEN [execution EXCEPT !.state = "UNKNOWN"] ELSE execution
  /\ Sweep("idle", None)
  /\ UNCHANGED <<overdue, unwanted, remote, delivery>>

SweepTerminate ==
  /\ sweep.pc = "terminate"
  /\ remote' = Terminated(sweep.jobId)
  /\ Sweep("cancel", sweep.jobId)
  /\ UNCHANGED <<execution, overdue, unwanted, delivery>>

SweepCancel ==
  /\ sweep.pc = "cancel"
  /\ execution' = [execution EXCEPT !.state = "CANCELLED"]
  /\ Sweep("idle", None)
  /\ UNCHANGED <<overdue, unwanted, remote, delivery>>

\* AWS does not answer or the process dies; 30 seconds later all is read anew.
SweepFails ==
  /\ sweep.pc # "idle"
  /\ Sweep("idle", None)
  /\ UNCHANGED <<execution, overdue, unwanted, remote, delivery>>

-----------------------------------------------------------------------------
(* AWS, the clock and the owner *)

RemoteEnds(j) ==
  /\ remote[j] = "running"
  /\ \E status \in {"succeeded", "failed"} :
       remote' = [remote EXCEPT ![j] = status]
  /\ UNCHANGED <<execution, overdue, unwanted, delivery, sweep>>

Expire ==
  /\ execution # None /\ ~overdue
  /\ overdue' = TRUE
  /\ UNCHANGED <<execution, unwanted, remote, delivery, sweep>>

Withdraw ==
  /\ execution # None /\ ~unwanted
  /\ unwanted' = TRUE
  /\ UNCHANGED <<execution, overdue, remote, delivery, sweep>>

Next ==
  \/ \E d \in Deliveries :
       \/ Attach(d) \/ Create(d) \/ Claim(d) \/ Prepare(d) \/ PrepareFails(d)
       \/ Submit(d) \/ Record(d) \/ Doubt(d) \/ Poll(d) \/ Terminate(d)
       \/ Cancel(d) \/ Status(d) \/ Fail(d) \/ Succeed(d) \/ Crash(d)
  \/ List \/ SweepDoubt \/ SweepTerminate \/ SweepCancel \/ SweepFails
  \/ \E j \in AwsJobs : RemoteEnds(j)
  \/ Expire \/ Withdraw

\* The reconciliation comes back every 30 seconds and gets through to AWS if
\* it tries for ever.  No delivery owes anything, and AWS need not end a job.
Fairness ==
  /\ WF_vars(List)
  /\ SF_vars(SweepTerminate)
  /\ WF_vars(SweepDoubt \/ SweepCancel)

Spec == Init /\ [][Next]_vars /\ Fairness

-----------------------------------------------------------------------------
(* Properties *)

\* However many deliveries there are, and wherever they die, the render is
\* submitted to AWS at most once.
OneSubmission == Cardinality({j \in AwsJobs : remote[j] # "none"}) <= 1

\* A delivery that read the record before it had a job id, and is about to
\* mark it as cancelled.
Blind(d) == delivery[d].pc = "cancel" /\ delivery[d].jobId = None

Runs == execution # None /\ execution.jobId # None
        /\ remote[execution.jobId] = "running"

\* Work whose id is known does not outlive its deadline or its owner: the
\* record is overdue or unwanted, nobody has closed it, and nobody is about to
\* close it by a reading from before the id: then the remote job ends.
RemoteWorkEnds ==
  (/\ Runs /\ (overdue \/ unwanted)
   /\ execution.state \notin {"FAILED", "CANCELLED", "SUCCEEDED"}
   /\ \A d \in Deliveries : ~Blind(d))
    ~> ~Runs

=============================================================================
