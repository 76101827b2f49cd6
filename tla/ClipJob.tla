------------------------------ MODULE ClipJob -------------------------------
(***************************************************************************)
(* The render stage of one AI-clips job: from the manifest of clips to the *)
(* settlement of its credits, with cancellation, retries and deletion.     *)
(*                                                                         *)
(* The job document, the render queue, the object store and the credit     *)
(* operation change one database call at a time; render workers, the       *)
(* dispatchers that fill the queue, the users' requests and the            *)
(* reconciliation crons run between any two calls, and workers and         *)
(* dispatchers may die anywhere.                                           *)
(*                                                                         *)
(* The queue itself (BullMQ) is external: an entry per clip, locked by the *)
(* worker that took it, which may be handed out again once its lock is     *)
(* lost.                                                                   *)
(***************************************************************************)
EXTENDS Integers, FiniteSets

CONSTANTS
  Clips,        \* clips of the manifest
  Workers,      \* render workers
  Dispatchers,  \* concurrent calls of dispatchMediaJobs
  Settlers,     \* concurrent calls of finalizeCredits
  Mortal,       \* workers that may crash; dispatchers do if any may
  Stallable,    \* workers that may lose lock and lease while they live on
  Requests,     \* what the user may ask for in this instance
  MaxRetries,   \* bound on the retries of one clip and of the whole job
  SourcePrice,  \* credits for the analysis of the source
  Batch,        \* whether clips are rendered by AWS Batch
  None          \* absence of a clip

ASSUME ClipsAssumption == IsFiniteSet(Clips) /\ None \notin Clips
ASSUME WorkersAssumption ==
  /\ Mortal \subseteq Workers
  /\ Stallable \subseteq Workers
  /\ Workers \cap Dispatchers = {}
  /\ "lost" \notin Workers \cup Dispatchers
  /\ Workers \cap {"none", "waiting", "orphaned", "completed", "failed"} = {}
ASSUME ParametersAssumption ==
  /\ Requests \subseteq
       {"cancel", "retry-job", "retry-clip", "delete-clip", "delete-job"}
  /\ MaxRetries \in Nat /\ SourcePrice \in Nat /\ Batch \in BOOLEAN

VARIABLES
  job,         \* the Job document
  op,          \* the CreditOperation document of the job
  queue,       \* the render queue entry of each clip
  stored,      \* clips whose object is in the store
  restarted,   \* clips whose entry was handed out again after a stall
  worker,      \* where each worker is, with which clip
  dispatch,    \* each dispatcher: what it will do with each clip
  review,      \* the outcome finalizeRenderState is about to write
  doubts,      \* the failures calls of failUnfinishedClip may write
  settlement,  \* what each call of finalizeCredits is about to settle
  fenced,      \* finalizeCancellation has removed the queue entries
  deletion     \* the deletion under way

vars == <<job, op, queue, stored, restarted, worker, dispatch, review, doubts,
          settlement, fenced, deletion>>

kept == <<stored, restarted>>

\* Everything but the documents and the queue.
calls == <<worker, dispatch, doubts, settlement, fenced, deletion>>

-----------------------------------------------------------------------------
(* Data *)

Terminal == {"COMPLETED", "FAILED", "CANCELLED"}

Clip ==
  [status : {"PENDING", "CUTTING_CLIPS", "COMPLETED", "FAILED", "CANCELLED",
             "gone"},
   retryRequested : BOOLEAN, retryCount : 0..MaxRetries]

\* The token of a crashed worker or dispatcher is "lost".
Tokens == Workers \cup Dispatchers \cup {"lost"}

Job ==
  [exists : BOOLEAN,
   status : {"CUTTING_CLIPS", "CANCELLING"} \cup Terminal,
   cancellationRequested : BOOLEAN, deletionRequested : BOOLEAN,
   renderRetryRequested : BOOLEAN, executions : SUBSET Tokens,
   clips : [Clips -> Clip]]

\* deliveredOutputs are the ids of the charged clips, each of one credit.
Operation ==
  [status : {"reserved", "settled"}, charged : Nat,
   deliveredOutputs : SUBSET Clips, retries : 0..MaxRetries]

\* "orphaned" is active under a lock that nobody renews.
Entries ==
  {"none", "waiting", "orphaned", "completed", "failed"} \cup Workers

Places ==
  {"idle", "taken", "read", "start", "recover", "work", "upload", "complete",
   "error", "reset", "thrown", "returned", "ended", "failed"}

Phases == {"idle", "called", "claimed", "sending", "queueing", "clearing"}

Steps == {"settle", "claim", "check", "entries", "objects", "document"}

TypeOK ==
  /\ job \in Job
  /\ op \in Operation
  /\ queue \in [Clips -> Entries]
  /\ stored \subseteq Clips
  /\ restarted \subseteq Clips
  /\ worker \in [Workers ->
       [pc : Places, clip : Clips \cup {None}, retryCount : 0..MaxRetries]]
  /\ dispatch \in [Dispatchers ->
       [phase : Phases, retryFailed : BOOLEAN, clip : Clips \cup {None},
        plan : [Clips -> {"skip", "add", "retry"}],
        retryCount : [Clips -> 0..MaxRetries]]]
  /\ review \in {"none", "COMPLETED", "FAILED"}
  /\ doubts \subseteq [clip : Clips, retryCount : 0..MaxRetries]
  /\ settlement \in [Settlers ->
       [due : BOOLEAN, deliveredOutputs : SUBSET Clips, charge : Nat]]
  /\ fenced \in BOOLEAN
  /\ deletion \in
       [kind : {"none", "clip", "job"}, phase : Steps,
        clip : Clips \cup {None}, status : Terminal]

NoDispatch ==
  [phase |-> "idle", retryFailed |-> FALSE, clip |-> None,
   plan |-> [c \in Clips |-> "skip"], retryCount |-> [c \in Clips |-> 0]]
NoSettlement == [due |-> FALSE, deliveredOutputs |-> {}, charge |-> 0]
NoDeletion ==
  [kind |-> "none", phase |-> "settle", clip |-> None, status |-> "FAILED"]
NoClip == [pc |-> "idle", clip |-> None, retryCount |-> 0]

\* prepareRenderManifest has just written the clips; nothing is queued yet.
Init ==
  /\ job = [exists |-> TRUE, status |-> "CUTTING_CLIPS",
            cancellationRequested |-> FALSE, deletionRequested |-> FALSE,
            renderRetryRequested |-> FALSE, executions |-> {},
            clips |-> [c \in Clips |->
              [status |-> "PENDING", retryRequested |-> FALSE,
               retryCount |-> 0]]]
  /\ op = [status |-> "reserved", charged |-> 0, deliveredOutputs |-> {},
           retries |-> 0]
  /\ queue = [c \in Clips |-> "none"]
  /\ stored = {}
  /\ restarted = {}
  /\ worker = [w \in Workers |-> NoClip]
  /\ dispatch = [d \in Dispatchers |-> NoDispatch]
  /\ review = "none"
  /\ doubts = {}
  /\ settlement = [s \in Settlers |-> NoSettlement]
  /\ fenced = FALSE
  /\ deletion = NoDeletion

-----------------------------------------------------------------------------
(* The job document and its guards *)

\* Mutant: the outcome is written although the document has changed since.
Mutant_Reviewed(j) == review

\* Every write renews updatedAt, which finalizeRenderState compares.
Reviewed(j) == IF j = job THEN review ELSE "none"

Write(j) == job' = j /\ review' = Reviewed(j)

\* Mutant: a cancellation does not fence.
Mutant_Open == job.exists /\ ~job.deletionRequested

\* The filter of all starts, dispatches and ordinary writes.
Open ==
  /\ job.exists
  /\ ~job.cancellationRequested
  /\ ~job.deletionRequested

Present(c) == job.exists /\ job.clips[c].status # "gone"

Delivered == {c \in Clips : job.clips[c].status = "COMPLETED"}

Active(c) == queue[c] \in Workers \cup {"orphaned"}

\* activeMediaJobIds does not know the job.
QueueQuiet == \A c \in Clips : ~Active(c)

-----------------------------------------------------------------------------
(* Settlement *)

\* Source analysis once, if anything is delivered, and the delivered output.
Price(outputs) ==
  IF outputs = {} THEN 0 ELSE SourcePrice + Cardinality(outputs)

\* Mutant: settlement does not look at the job.
Mutant_MaySettle == TRUE

\* The gate inside the settlement transaction.
MaySettle == job.exists => job.status \in Terminal /\ job.executions = {}

\* Mutant: the charge is taken with the sign of the ledger row.
Mutant_Settled(charge, outputs) ==
  IF op.status = "reserved" /\ MaySettle
  THEN [op EXCEPT !.status = "settled", !.charged = @ - charge] ELSE op

\* The operation after settle().  What it refuses besides, a charge above the
\* authorization, no caller asks for: none charges more than all clips cost.
Settled(charge, outputs) ==
  IF op.status = "reserved" /\ MaySettle /\ charge >= op.charged
  THEN [op EXCEPT !.status = "settled", !.charged = charge,
                  !.deliveredOutputs = outputs]
  ELSE op

\* Delivered output stays charged although its clip is deleted.
Outputs == op.deliveredOutputs \cup Delivered

\* finalizeCredits has work to do.
Finalizable ==
  /\ job.exists
  /\ job.status \in Terminal
  /\ job.executions = {}
  /\ op.status = "reserved"

Larger(m, n) == IF m < n THEN n ELSE m

\* finalizeCredits reads the job and the operation.  The worker at its end,
\* finalizeRenderState, the deletions and the cron call it.
FinalizeCreditsRead(s) ==
  /\ Finalizable
  /\ settlement[s] = NoSettlement
  /\ settlement' = [settlement EXCEPT ![s] =
       [due |-> TRUE, deliveredOutputs |-> Outputs,
        charge |-> Larger(op.charged, Price(Outputs))]]
  /\ UNCHANGED <<job, op, queue, kept, worker, dispatch, review, doubts,
                 fenced, deletion>>

\* It settles what it read.
FinalizeCreditsSettle(s) ==
  /\ settlement[s].due
  /\ op' = Settled(settlement[s].charge, settlement[s].deliveredOutputs)
  /\ settlement' = [settlement EXCEPT ![s] = NoSettlement]
  /\ UNCHANGED <<job, queue, kept, worker, dispatch, review, doubts, fenced,
                 deletion>>

\* The recovery cron settles an operation whose job is gone for the charge it
\* has.
SettleOrphan ==
  /\ ~job.exists
  /\ op.status = "reserved"
  /\ op' = Settled(op.charged, op.deliveredOutputs)
  /\ UNCHANGED <<job, queue, kept, review, calls>>

-----------------------------------------------------------------------------
(* Dispatch: filling the render queue, under a token of its own *)

\* The pipeline and the reconciliation dispatch on their own account, a retry
\* after its claim.
Called(d) == dispatch[d].phase \in {"idle", "called"}

\* dispatchMediaJobs claims its token.  The dispatch of one clip's retry has
\* read the clip before.
DispatchClaim(d) ==
  /\ Called(d)
  /\ Open
  /\ Write([job EXCEPT !.executions = @ \cup {d}])
  /\ dispatch' = [dispatch EXCEPT ![d].phase =
       IF \A c \in Clips : dispatch[d].plan[c] = "skip"
       THEN "claimed" ELSE "sending"]
  /\ UNCHANGED <<op, queue, kept, worker, doubts, settlement, fenced,
                 deletion>>

\* What dispatchRenders does with a clip it reads.
Plan(c, retryFailed) ==
  LET clip == job.clips[c]
  IN IF \/ ~Open
        \/ clip.status \in {"COMPLETED", "gone"}
        \/ clip.status = "FAILED" /\ ~retryFailed
     THEN "skip"
     ELSE IF clip.retryRequested THEN "retry" ELSE "add"

DispatchRead(d) ==
  /\ dispatch[d].phase = "claimed"
  /\ LET retryFailed == dispatch[d].retryFailed \/ job.renderRetryRequested
     IN dispatch' = [dispatch EXCEPT ![d] =
          [phase |-> "sending", retryFailed |-> Open /\ retryFailed,
           clip |-> None, plan |-> [c \in Clips |-> Plan(c, retryFailed)],
           retryCount |-> [c \in Clips |->
             IF Plan(c, retryFailed) = "retry"
             THEN job.clips[c].retryCount ELSE 0]]]
  /\ UNCHANGED <<job, op, queue, kept, worker, review, doubts, settlement,
                 fenced, deletion>>

\* Before each clip the job is read again.
DispatchCheck(d, c) ==
  /\ dispatch[d].phase = "sending"
  /\ dispatch[d].plan[c] # "skip"
  /\ ~job.cancellationRequested
  /\ dispatch' = [dispatch EXCEPT ![d] =
       IF dispatch[d].plan[c] = "retry" /\ ~Open
       THEN [@ EXCEPT !.plan[c] = "skip"]
       ELSE [@ EXCEPT !.phase = "queueing", !.clip = c]]
  /\ UNCHANGED <<job, op, queue, kept, worker, review, doubts, settlement,
                 fenced, deletion>>

\* The clip is queued: its entry is created, or retried if it has ended.
DispatchSend(d) ==
  /\ dispatch[d].phase = "queueing"
  /\ LET c == dispatch[d].clip
         retry == dispatch[d].plan[c] = "retry"
     IN /\ queue' = IF \/ queue[c] = "none"
                       \/ /\ queue[c] \in {"completed", "failed"}
                          /\ dispatch[d].retryFailed \/ retry
                    THEN [queue EXCEPT ![c] = "waiting"] ELSE queue
        /\ dispatch' = [dispatch EXCEPT
             ![d].phase = IF retry THEN "clearing" ELSE "sending",
             ![d].clip = IF retry THEN c ELSE None,
             ![d].plan[c] = "skip"]
  /\ UNCHANGED <<job, op, kept, worker, review, doubts, settlement, fenced,
                 deletion>>

\* The durable intent of a clip's retry is done.
DispatchClear(d) ==
  /\ dispatch[d].phase = "clearing"
  /\ LET c == dispatch[d].clip
     IN Write(IF job.clips[c].retryCount = dispatch[d].retryCount[c]
              THEN [job EXCEPT !.clips[c].retryRequested = FALSE] ELSE job)
  /\ dispatch' = [dispatch EXCEPT
       ![d].phase = "sending", ![d].clip = None,
       ![d].retryCount[dispatch[d].clip] = 0]
  /\ UNCHANGED <<op, queue, kept, worker, doubts, settlement, fenced,
                 deletion>>

\* dispatchRenders is through with all clips.
Sent(d) ==
  /\ dispatch[d].phase = "sending"
  /\ \A c \in Clips : dispatch[d].plan[c] = "skip"

\* The token goes back when all clips are queued, when the job is being
\* cancelled, or because a call has failed.
DispatchEnd(d) ==
  /\ ~Called(d)
  /\ \E done \in {FALSE, Sent(d)} :
       Write([job EXCEPT !.executions = @ \ {d},
                         !.renderRetryRequested =
                            @ /\ ~(done /\ dispatch[d].retryFailed)])
  /\ dispatch' = [dispatch EXCEPT ![d] = NoDispatch]
  /\ UNCHANGED <<op, queue, kept, worker, doubts, settlement, fenced,
                 deletion>>

\* A retry that was claimed is not dispatched: the job was stopped meanwhile,
\* or the request dies.
DispatchGivesUp(d) ==
  /\ dispatch[d].phase = "called"
  /\ dispatch' = [dispatch EXCEPT ![d] = NoDispatch]
  /\ UNCHANGED <<job, op, queue, kept, worker, review, doubts, settlement,
                 fenced, deletion>>

\* The dispatching process dies; its token stays.
DispatchCrash(d) ==
  /\ Mortal # {}
  /\ ~Called(d)
  /\ Write(IF d \in job.executions
           THEN [job EXCEPT !.executions = (@ \ {d}) \cup {"lost"}] ELSE job)
  /\ dispatch' = [dispatch EXCEPT ![d] = NoDispatch]
  /\ UNCHANGED <<op, queue, kept, worker, doubts, settlement, fenced,
                 deletion>>

-----------------------------------------------------------------------------
(* A render worker *)

Goes(w, pc) == worker' = [worker EXCEPT ![w].pc = pc]

\* What a step of a worker leaves alone beside its own variables.
others == <<op, dispatch, doubts, settlement, fenced, deletion>>

\* The queue hands an entry out and locks it.
Take(w, c) ==
  /\ worker[w].pc = "idle"
  /\ queue[c] = "waiting"
  /\ queue' = [queue EXCEPT ![c] = w]
  /\ worker' = [worker EXCEPT ![w] =
       [pc |-> "taken", clip |-> c, retryCount |-> 0]]
  /\ UNCHANGED <<job, kept, review, others>>

\* What the claim of an execution asks for.
MayStart == Open

\* runMediaExecution registers its token, or returns at once.
ClaimExecution(w) ==
  /\ worker[w].pc = "taken"
  /\ IF MayStart
     THEN Write([job EXCEPT !.executions = @ \cup {w}]) /\ Goes(w, "read")
     ELSE Write(job) /\ Goes(w, "ended")
  /\ UNCHANGED <<queue, kept, others>>

\* The clip is read.  One that is gone or durable needs no work, but telling
\* the world of the durable one may still fail.
ReadClip(w) ==
  /\ worker[w].pc = "read"
  /\ LET c == worker[w].clip
     IN \E pc \in IF ~Present(c) THEN {"returned"}
                 ELSE IF c \in Delivered THEN {"returned", "thrown"}
                 ELSE {"start"} :
          worker' = [worker EXCEPT ![w] =
            [pc |-> pc, clip |-> c, retryCount |-> job.clips[c].retryCount]]
  /\ UNCHANGED <<job, queue, kept, review, others>>

\* The attempt is counted, and an object that an earlier attempt left in the
\* store is looked for.
StartAttempt(w) ==
  /\ worker[w].pc = "start"
  /\ LET c == worker[w].clip
     IN Goes(w, IF ~(Open /\ Present(c)) THEN "error"
                ELSE IF c \in stored THEN "recover" ELSE "work")
  /\ UNCHANGED <<job, queue, kept, review, others>>

\* updateClip to COMPLETED is let through while a cancellation is pending.
\* A clip that Batch rendered needs an open job and the same retry instead.
MayComplete(w, requireNotCancelled) ==
  LET c == worker[w].clip
  IN /\ Present(c)
     /\ ~job.deletionRequested
     /\ requireNotCancelled =>
          /\ ~job.cancellationRequested
          /\ job.clips[c].retryCount = worker[w].retryCount

\* The clip is durable even if the publication that follows fails.
CompletedBy(w, requireNotCancelled) ==
  IF MayComplete(w, requireNotCancelled)
  THEN /\ Write([job EXCEPT !.clips[worker[w].clip].status = "COMPLETED"])
       /\ \E end \in {"returned", "thrown"} : Goes(w, end)
  ELSE Write(job) /\ Goes(w, "error")

\* The object is there already: only the document is brought up to date.
RecoverOutput(w) ==
  /\ worker[w].pc = "recover"
  /\ CompletedBy(w, FALSE)
  /\ UNCHANGED <<queue, kept, others>>

\* A stage begins: queued, cutting, captioning and at last uploading.
Transition(w) ==
  /\ worker[w].pc = "work"
  /\ LET c == worker[w].clip
     IN IF Open /\ Present(c)
        THEN /\ Write([job EXCEPT !.clips[c].status = "CUTTING_CLIPS"])
             /\ \E next \in {"work", "upload"} : Goes(w, next)
        ELSE Write(job) /\ Goes(w, "error")
  /\ UNCHANGED <<queue, kept, others>>

Upload(w) ==
  /\ worker[w].pc = "upload"
  /\ stored' = stored \cup {worker[w].clip}
  /\ Goes(w, "complete")
  /\ UNCHANGED <<job, queue, restarted, review, others>>

\* The clip becomes durable in the document.
Complete(w) ==
  /\ worker[w].pc = "complete"
  /\ CompletedBy(w, Batch)
  /\ UNCHANGED <<queue, kept, others>>

\* The poll notices the cancellation, or that the token is gone, and aborts.
Abort(w) ==
  /\ worker[w].pc \in {"recover", "work", "upload", "complete", "error"}
  /\ \/ ~job.exists
     \/ job.cancellationRequested
     \/ w \notin job.executions
  /\ Goes(w, "thrown")
  /\ UNCHANGED <<job, queue, kept, review, others>>

\* The source, the encoder or the store fails.
Error(w) ==
  /\ worker[w].pc \in {"start", "recover", "work", "upload", "complete"}
  /\ Goes(w, "error")
  /\ UNCHANGED <<job, queue, kept, review, others>>

\* A failed attempt first reads whether the clip became durable meanwhile.
ReadAfterError(w) ==
  /\ worker[w].pc = "error"
  /\ Goes(w, IF worker[w].clip \in Delivered THEN "thrown" ELSE "reset")
  /\ UNCHANGED <<job, queue, kept, review, others>>

\* If it was not, the clip is pending again.
ResetClip(w) ==
  /\ worker[w].pc = "reset"
  /\ LET c == worker[w].clip
     IN Write(IF Open /\ Present(c)
              THEN [job EXCEPT !.clips[c].status = "PENDING"] ELSE job)
  /\ Goes(w, "thrown")
  /\ UNCHANGED <<queue, kept, others>>

\* The execution ends: its token goes, and an error is passed on to the queue
\* unless the job is being cancelled.
ReleaseExecution(w) ==
  /\ worker[w].pc \in {"thrown", "returned"}
  /\ Write([job EXCEPT !.executions = @ \ {w}])
  /\ Goes(w, IF /\ worker[w].pc = "thrown"
                /\ ~(job.exists /\ job.cancellationRequested)
             THEN "failed" ELSE "ended")
  /\ UNCHANGED <<queue, kept, others>>

\* The queue records the end if the worker still has the lock.  A failed
\* attempt is tried again, or is the last one.
EndEntry(w) ==
  /\ worker[w].pc \in {"ended", "failed"}
  /\ LET c == worker[w].clip
         ends == IF worker[w].pc = "ended" THEN {"completed"}
                 ELSE {"waiting", "failed"}
     IN IF queue[c] = w
        THEN \E end \in ends : queue' = [queue EXCEPT ![c] = end]
        ELSE UNCHANGED queue
  /\ worker' = [worker EXCEPT ![w] = NoClip]
  /\ UNCHANGED <<job, kept, review, others>>

\* The worker process dies: its token and its locked entry stay.
Crash(w) ==
  /\ w \in Mortal
  /\ worker[w].pc # "idle"
  /\ Write(IF w \in job.executions
           THEN [job EXCEPT !.executions = (@ \ {w}) \cup {"lost"}] ELSE job)
  /\ queue' = [c \in Clips |-> IF queue[c] = w THEN "orphaned" ELSE queue[c]]
  /\ worker' = [worker EXCEPT ![w] = NoClip]
  /\ UNCHANGED <<kept, others>>

\* A worker whose event loop is blocked lives on without its lock.
LoseLock(w) ==
  /\ w \in Stallable
  /\ worker[w].pc # "idle"
  /\ queue[worker[w].clip] = w
  /\ queue' = [queue EXCEPT ![worker[w].clip] = "orphaned"]
  /\ UNCHANGED <<job, kept, worker, review, others>>

\* The queue finds a stalled entry: it is handed out once more, and failed
\* the next time.
Stalled(c) ==
  /\ queue[c] = "orphaned"
  /\ queue' = [queue EXCEPT ![c] =
       IF c \in restarted THEN "failed" ELSE "waiting"]
  /\ restarted' = restarted \cup {c}
  /\ UNCHANGED <<job, stored, worker, review, others>>

-----------------------------------------------------------------------------
(* The outcome of the job *)

\* The failed handler of the worker sees an entry that has failed without a
\* durable clip, or the reconciliation one that has ended although its own
\* dispatch just retried what there was to retry.  Several may see the same,
\* and each writes it when it gets to it.
Doubt(c) ==
  /\ job.exists
  /\ ~job.cancellationRequested
  /\ \/ /\ queue[c] = "failed"
        /\ ~job.clips[c].retryRequested
        /\ job.clips[c].status \notin {"COMPLETED", "gone"}
     \/ /\ queue[c] \in {"completed", "failed"}
        /\ job.status = "CUTTING_CLIPS"
        /\ job.clips[c].status \notin {"COMPLETED", "FAILED", "gone"}
        /\ ~job.renderRetryRequested
        /\ ~job.clips[c].retryRequested
  /\ doubts' = doubts \cup
       {[clip |-> c, retryCount |-> job.clips[c].retryCount]}
  /\ UNCHANGED <<job, op, queue, kept, worker, dispatch, review, settlement,
                 fenced, deletion>>

\* Mutant: a durable clip may be marked as failed.
Mutant_MayFail(c, retryCount) == Open /\ Present(c)

\* A clip is only failed if it is neither durable nor retried since.
MayFail(c, retryCount) ==
  /\ Open
  /\ job.clips[c].status \notin {"COMPLETED", "gone"}
  /\ ~job.clips[c].retryRequested
  /\ job.clips[c].retryCount = retryCount

FailUnfinishedClip ==
  \E d \in doubts :
    /\ MayFail(d.clip, d.retryCount)
    /\ Write([job EXCEPT !.clips[d.clip].status = "FAILED"])
    /\ UNCHANGED <<op, queue, kept, calls>>

Remaining == {c \in Clips : job.clips[c].status # "gone"}

\* finalizeRenderState reads a job whose clips have all ended.
FinalizeRenderStateRead ==
  /\ job.exists
  /\ job.status = "CUTTING_CLIPS"
  /\ \A c \in Remaining : job.clips[c].status \in {"COMPLETED", "FAILED"}
  /\ review' = IF Remaining # {} /\ Remaining \subseteq Delivered
               THEN "COMPLETED" ELSE "FAILED"
  /\ UNCHANGED <<job, op, queue, kept, calls>>

\* It writes the outcome if the document is still the one it read.
FinalizeRenderState ==
  /\ review # "none"
  /\ review' = "none"
  /\ job' = IF /\ job.status = "CUTTING_CLIPS"
               /\ ~job.cancellationRequested
               /\ \A c \in Remaining :
                    job.clips[c].status \in {"COMPLETED", "FAILED"}
            THEN [job EXCEPT !.status = review] ELSE job
  /\ UNCHANGED <<op, queue, kept, calls>>

-----------------------------------------------------------------------------
(* Retries *)

\* The account may refuse the new hold; then nothing happens.
Reopened ==
  IF op.status = "settled"
  THEN [op EXCEPT !.status = "reserved", !.retries = @ + 1] ELSE op

\* retryJob reopens the operation and claims the job in one transaction.  Then
\* it dispatches what has failed.
RetryJob(d) ==
  /\ "retry-job" \in Requests
  /\ dispatch[d] = NoDispatch
  /\ Open
  /\ job.status = "FAILED"
  /\ op.retries < MaxRetries
  /\ op' = Reopened
  /\ Write([job EXCEPT
       !.status = "CUTTING_CLIPS", !.renderRetryRequested = TRUE,
       !.clips = [c \in Clips |->
          IF job.clips[c].status = "FAILED"
          THEN [job.clips[c] EXCEPT !.status = "PENDING"]
          ELSE job.clips[c]]])
  /\ dispatch' = [dispatch EXCEPT ![d].phase = "called",
                                  ![d].retryFailed = TRUE]
  /\ UNCHANGED <<queue, kept, worker, doubts, settlement, fenced, deletion>>

\* A dispatch of the retry of one clip.
Redispatch(c, retryCount) ==
  [NoDispatch EXCEPT !.phase = "called", !.plan[c] = "retry",
                     !.retryCount[c] = retryCount]

\* retryClip does the same for one failed clip that no worker holds, whatever
\* the job is doing with the others.
RetryClip(c, d) ==
  /\ "retry-clip" \in Requests
  /\ dispatch[d] = NoDispatch
  /\ Open
  /\ job.clips[c].status = "FAILED"
  /\ ~job.clips[c].retryRequested
  /\ job.clips[c].retryCount < MaxRetries
  /\ op.retries < MaxRetries
  /\ ~Active(c)
  /\ op' = Reopened
  /\ Write([job EXCEPT
       !.status = "CUTTING_CLIPS",
       !.clips[c] = [status |-> "PENDING", retryRequested |-> TRUE,
                     retryCount |-> @.retryCount + 1]])
  /\ dispatch' = [dispatch EXCEPT ![d] =
       Redispatch(c, job.clips[c].retryCount + 1)]
  /\ UNCHANGED <<queue, kept, worker, doubts, settlement, fenced, deletion>>

\* Asked again, it only dispatches the retry that is still pending.
RetryClipAgain(c, d) ==
  /\ "retry-clip" \in Requests
  /\ dispatch[d] = NoDispatch
  /\ Open
  /\ job.clips[c].retryRequested
  /\ dispatch' = [dispatch EXCEPT ![d] =
       Redispatch(c, job.clips[c].retryCount)]
  /\ UNCHANGED <<job, op, queue, kept, worker, review, doubts, settlement,
                 fenced, deletion>>

-----------------------------------------------------------------------------
(* Cancellation *)

\* A completed job is only cancelled while an execution is unconfirmed.
CancelJob ==
  /\ "cancel" \in Requests
  /\ Open
  /\ job.status # "CANCELLED"
  /\ job.status = "COMPLETED" => job.executions # {}
  /\ Write([job EXCEPT
       !.status = "CANCELLING", !.cancellationRequested = TRUE,
       !.renderRetryRequested = FALSE,
       !.clips = [c \in Clips |->
          [job.clips[c] EXCEPT !.retryRequested = FALSE]]])
  /\ UNCHANGED <<op, queue, kept, calls>>

\* What finalizeCancellation asks for before it removes the queue entries.
Stoppable ==
  /\ job.exists
  /\ job.status = "CANCELLING"
  /\ job.executions = {}
  /\ QueueQuiet

\* It removes one after the other, each atomically, and gives up if a worker
\* takes one meanwhile.
RemoveEntry(c) ==
  /\ Stoppable
  /\ queue' = [queue EXCEPT ![c] = "none"]
  /\ restarted' = restarted \ {c}
  /\ UNCHANGED <<job, op, stored, review, calls>>

\* It has removed them all.
FenceQueue ==
  /\ Stoppable
  /\ queue' = [c \in Clips |-> "none"]
  /\ fenced' = TRUE
  /\ restarted' = {}
  /\ UNCHANGED <<job, op, stored, worker, dispatch, review, doubts, settlement,
                 deletion>>

\* What the final update asks for.
MayConfirm == job.exists /\ job.status = "CANCELLING" /\ job.executions = {}

FinalizeCancellation ==
  /\ fenced
  /\ fenced' = FALSE
  /\ Write(IF MayConfirm
           THEN [job EXCEPT !.status = "CANCELLED",
                   !.clips = [c \in Clips |->
                     IF job.clips[c].status \in
                          {"COMPLETED", "FAILED", "gone"}
                     THEN job.clips[c]
                     ELSE [job.clips[c] EXCEPT !.status = "CANCELLED",
                                               !.retryRequested = FALSE]]]
           ELSE job)
  /\ UNCHANGED <<op, queue, kept, worker, dispatch, doubts, settlement,
                 deletion>>

\* Mutant: leases are never recovered.
Mutant_Expired(t) == FALSE

\* A lease that nobody renews: its owner died or is blocked.  That of a
\* dispatcher is never renewed, however long it takes.
Expired(t) ==
  \/ t = "lost"
  \/ t \in Dispatchers
  \/ /\ t \in Stallable
     /\ worker[t].pc # "idle"
     /\ queue[worker[t].clip] # t

\* The recovery cron pulls the expired leases of a job whose operation is
\* still reserved, if the queue has no active entry for it.
RecoverExecutionLease(t) ==
  /\ t \in job.executions
  /\ op.status = "reserved"
  /\ QueueQuiet
  /\ Expired(t)
  /\ Write([job EXCEPT !.executions = @ \ {t}])
  /\ UNCHANGED <<op, queue, kept, calls>>

\* The script recover-cancellation.cjs: an operator who has seen the host of a
\* lost token confirms that its processes have stopped.
AcknowledgeShutdown ==
  /\ job.exists
  /\ job.status = "CANCELLING"
  /\ "lost" \in job.executions
  /\ QueueQuiet
  /\ Write([job EXCEPT !.executions = @ \ {"lost"}])
  /\ UNCHANGED <<op, queue, kept, calls>>

-----------------------------------------------------------------------------
(* Deletion *)

\* deleteClip and deleteJob read the job first; the later checks look at this
\* reading.
DeleteClipRead(c) ==
  /\ "delete-clip" \in Requests
  /\ deletion = NoDeletion
  /\ job.exists
  /\ job.status \in Terminal
  /\ ~job.deletionRequested
  /\ job.executions = {}
  /\ Present(c)
  /\ deletion' = [kind |-> "clip", phase |-> "settle", clip |-> c,
                  status |-> job.status]
  /\ UNCHANGED <<job, op, queue, kept, worker, dispatch, review, doubts,
                 settlement, fenced>>

DeleteJobRead ==
  /\ "delete-job" \in Requests
  /\ deletion = NoDeletion
  /\ job.exists
  /\ job.status \in Terminal
  /\ deletion' = [kind |-> "job", phase |-> "settle", clip |-> None,
                  status |-> job.status]
  /\ UNCHANGED <<job, op, queue, kept, worker, dispatch, review, doubts,
                 settlement, fenced>>

\* Then they finalize the credits.
DeletionFinalizesCredits ==
  /\ deletion.kind # "none"
  /\ deletion.phase = "settle"
  /\ op' = IF Finalizable
           THEN Settled(Larger(op.charged, Price(Outputs)), Outputs) ELSE op
  /\ deletion' = [deletion EXCEPT !.phase =
       IF deletion.kind = "job" THEN "claim" ELSE "check"]
  /\ UNCHANGED <<job, queue, kept, worker, dispatch, review, doubts,
                 settlement, fenced>>

\* The durable claim of the deletion, which fences all starts; a deletion that
\* failed half-way goes on from here.
DeleteJobClaim ==
  /\ deletion.kind = "job"
  /\ deletion.phase = "claim"
  /\ job.exists
  /\ job.status = deletion.status
  /\ job.executions = {}
  /\ Write([job EXCEPT !.deletionRequested = TRUE])
  /\ deletion' = [deletion EXCEPT !.phase = "check"]
  /\ UNCHANGED <<op, queue, kept, worker, dispatch, doubts, settlement,
                 fenced>>

\* No worker holds an entry of the job.
DeletionChecksQueue ==
  /\ deletion.phase = "check"
  /\ QueueQuiet
  /\ deletion' = [deletion EXCEPT !.phase =
       IF deletion.kind = "job" THEN "entries" ELSE "objects"]
  /\ UNCHANGED <<job, op, queue, kept, worker, dispatch, review, doubts,
                 settlement, fenced>>

\* The entries of the job are removed one after the other, unless a worker
\* takes one.
DeleteEntry(c) ==
  /\ deletion.phase = "entries"
  /\ ~Active(c)
  /\ queue' = [queue EXCEPT ![c] = "none"]
  /\ restarted' = restarted \ {c}
  /\ UNCHANGED <<job, op, stored, worker, dispatch, review, doubts,
                 settlement, fenced, deletion>>

DeleteEntries ==
  /\ deletion.phase = "entries"
  /\ \A c \in Clips : queue[c] = "none"
  /\ deletion' = [deletion EXCEPT !.phase = "objects"]
  /\ UNCHANGED <<job, op, queue, kept, worker, dispatch, review, doubts,
                 settlement, fenced>>

\* Objects that the studio shares stay.  One that the store does not delete
\* ends the deletion of a job, but not that of a clip.
DeleteObjects ==
  /\ deletion.phase = "objects"
  /\ \E objects \in SUBSET
         IF deletion.kind = "clip" THEN {deletion.clip} ELSE stored :
       stored' = stored \ objects
  /\ \E next \in {[deletion EXCEPT !.phase = "document"]} \cup
                   (IF deletion.kind = "job" THEN {NoDeletion} ELSE {}) :
       deletion' = next
  /\ UNCHANGED <<job, op, queue, restarted, worker, dispatch, review, doubts,
                 settlement, fenced>>

\* Last comes the document, or the clip in it.
DeleteClip ==
  /\ deletion.kind = "clip"
  /\ deletion.phase = "document"
  /\ Write(IF job.exists
           THEN [job EXCEPT !.clips[deletion.clip] =
                  [status |-> "gone", retryRequested |-> FALSE,
                   retryCount |-> 0]]
           ELSE job)
  /\ deletion' = NoDeletion
  /\ UNCHANGED <<op, queue, kept, worker, dispatch, doubts, settlement,
                 fenced>>

DeleteJob ==
  /\ deletion.kind = "job"
  /\ deletion.phase = "document"
  /\ Write([job EXCEPT !.exists = FALSE])
  /\ deletion' = NoDeletion
  /\ UNCHANGED <<op, queue, kept, worker, dispatch, doubts, settlement,
                 fenced>>

\* A deletion is refused or its request dies.
DeletionEnds ==
  /\ deletion # NoDeletion
  /\ deletion' = NoDeletion
  /\ UNCHANGED <<job, op, queue, kept, worker, dispatch, review, doubts,
                 settlement, fenced>>

-----------------------------------------------------------------------------
\* What a dispatcher does once it is at work.
DispatcherGoesOn(d) ==
  \/ DispatchRead(d) \/ DispatchSend(d) \/ DispatchClear(d) \/ DispatchEnd(d)

DispatcherStep(d) ==
  \/ DispatchClaim(d) \/ DispatchGivesUp(d) \/ DispatcherGoesOn(d)
  \/ \E c \in Clips : DispatchCheck(d, c)

WorkerStep(w) ==
  \/ ClaimExecution(w) \/ ReadClip(w) \/ StartAttempt(w) \/ RecoverOutput(w)
  \/ Transition(w) \/ Upload(w) \/ Complete(w) \/ Abort(w) \/ Error(w)
  \/ ReadAfterError(w) \/ ResetClip(w) \/ ReleaseExecution(w) \/ EndEntry(w)

CronStep ==
  \/ \E s \in Settlers : FinalizeCreditsRead(s) \/ FinalizeCreditsSettle(s)
  \/ SettleOrphan
  \/ \E c \in Clips : Doubt(c)
  \/ FailUnfinishedClip \/ FinalizeRenderStateRead \/ FinalizeRenderState
  \/ \E c \in Clips : RemoveEntry(c)
  \/ FenceQueue \/ FinalizeCancellation
  \/ \E t \in Tokens : RecoverExecutionLease(t)

UserStep ==
  \/ CancelJob \/ AcknowledgeShutdown
  \/ \E d \in Dispatchers :
       RetryJob(d) \/ \E c \in Clips : RetryClip(c, d) \/ RetryClipAgain(c, d)
  \/ \E c \in Clips : DeleteClipRead(c) \/ DeleteEntry(c)
  \/ DeleteJobRead \/ DeletionFinalizesCredits \/ DeleteJobClaim
  \/ DeletionChecksQueue \/ DeleteEntries \/ DeleteObjects \/ DeleteClip
  \/ DeleteJob \/ DeletionEnds

Failure ==
  \/ \E d \in Dispatchers : DispatchCrash(d)
  \/ \E w \in Workers : Crash(w) \/ LoseLock(w)

QueueStep ==
  \/ \E w \in Workers, c \in Clips : Take(w, c)
  \/ \E c \in Clips : Stalled(c)

Next ==
  \/ CronStep \/ UserStep \/ Failure \/ QueueStep
  \/ \E d \in Dispatchers : DispatcherStep(d)
  \/ \E w \in Workers : WorkerStep(w)

\* Workers and dispatchers go on, the queue looks for stalled entries, and
\* the crons of a minute finalize, recover and settle.  Nobody need start
\* anything new, and nothing forces a render to come to an end by itself.
Fairness ==
  /\ \A w \in Workers : WF_vars(WorkerStep(w))
  /\ \A d \in Dispatchers : WF_vars(DispatcherGoesOn(d))
  /\ \A c \in Clips : WF_vars(Stalled(c))
  /\ WF_vars(FenceQueue) /\ WF_vars(FinalizeCancellation)
  /\ \A t \in Tokens : WF_vars(RecoverExecutionLease(t))
  /\ \A s \in Settlers :
       WF_vars(FinalizeCreditsRead(s)) /\ WF_vars(FinalizeCreditsSettle(s))
  /\ WF_vars(SettleOrphan)

Spec == Init /\ [][Next]_vars /\ Fairness

-----------------------------------------------------------------------------
(* Properties *)

\* The places between the claim of a token and its release.
Executing ==
  {"read", "start", "recover", "work", "upload", "complete", "error", "reset",
   "thrown", "returned"}

\* Executions under the lock of the queue.
Running == {w \in Workers : /\ worker[w].pc \in Executing
                            /\ queue[worker[w].clip] = w}

\* A job only fails when it lacks a clip at that moment, and one that has
\* completed has every clip it lists for as long as it is completed.
\* finalizeRenderState counts a reading that retries, late failures and
\* deletions may have overtaken, and failures are inferred from older readings
\* still.
OutcomeIsTrue ==
  [][/\ job'.status = "COMPLETED" => Remaining' \subseteq Delivered'
     /\ job'.status = "FAILED" /\ job.status # "FAILED" =>
          Remaining = {} \/ ~(Remaining \subseteq Delivered)]_vars

\* A clip that is durable stays so until it is deleted: no failed handler, no
\* reconciliation, cancellation or redelivered attempt takes it back.
DurableStays ==
  [][\A c \in Delivered :
       job'.exists /\ job'.clips[c].status # "gone" => c \in Delivered']_vars

\* From the request of a cancellation on, the job can only become cancelled:
\* no retry, late outcome or completion revives it.
CancellationIsFinal ==
  [][job.cancellationRequested /\ job'.exists =>
       /\ job'.cancellationRequested
       /\ job'.status \in {job.status, "CANCELLED"}]_vars

\* Once a job is cancelled, or claimed for deletion however often that fails
\* half-way, no token is left, nothing executes under a lock of the queue, and
\* a cancelled job has no unfinished clip left to run.
StoppedIsQuiet ==
  job.exists /\ (job.status = "CANCELLED" \/ job.deletionRequested) =>
    /\ job.executions = {}
    /\ Running = {}
    /\ job.status = "CANCELLED" => \A c \in Clips :
         job.clips[c].status \in {"COMPLETED", "FAILED", "CANCELLED", "gone"}

\* The hold of a job is only released when its work has ended: settlements
\* that read the job earlier are stopped by the gate inside settle.
SettledWhenQuiet ==
  [][op.status = "reserved" /\ op'.status = "settled" =>
       /\ Running = {}
       /\ job.exists => job.status \in Terminal]_vars

\* A token that crashed after its operation was settled is recovered by nobody
\* but an operator.
NeedsOperator == "lost" \in job.executions /\ op.status = "settled"

\* A requested cancellation ends and releases the hold, whatever crashed or
\* stalled, unless an operator has to confirm the shutdown.
CancellationEnds ==
  job.cancellationRequested ~>
    \/ NeedsOperator
    \/ op.status = "settled" /\ (job.exists => job.status = "CANCELLED")

\* What was delivered is charged, as src/docs/credit-management.md says, once
\* the job has ended and its operation is settled.  A settlement that read the
\* job before a retry, and is applied after it, breaks this.
DeliveredIsCharged ==
  op.status = "settled" /\ job.exists /\ job.status \in Terminal
    /\ job.executions = {}
    => Delivered \subseteq op.deliveredOutputs

=============================================================================
