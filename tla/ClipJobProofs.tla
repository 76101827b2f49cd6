---------------------------- MODULE ClipJobProofs ----------------------------
(***************************************************************************)
(* Proofs about ClipJob, for any number of clips, workers, dispatchers     *)
(* and settlers.                                                           *)
(*                                                                         *)
(* Whatever crashes, stalls or is asked for: an execution under the lock   *)
(* of the queue has its token in the job, so a job without tokens that     *)
(* admits nobody is quiet, be it cancelled, settled or deleted.            *)
(*                                                                         *)
(* While no worker lives on without its lock, a lock is one execution, so  *)
(* nobody takes a durable clip back; and the outcome of the job is written *)
(* of the document as it is.                                               *)
(*                                                                         *)
(* Whoever settles, and by however old a reading, charges the price of     *)
(* what was delivered: the operation keeps the promise of PaidOperation.   *)
(***************************************************************************)
EXTENDS ClipJob, FiniteSetTheorems, TLAPS

-----------------------------------------------------------------------------
(* The inductive invariant, for every instance *)

Ended == {"COMPLETED", "FAILED", "CANCELLED", "gone"}

\* A job that is cancelled, or claimed for deletion, admits nobody: it is
\* fenced and without tokens.  Every clip of a cancelled one has ended.
JobFenced ==
  /\ job.cancellationRequested <=> job.status \in {"CANCELLING", "CANCELLED"}
  /\ job.status = "CANCELLED" \/ job.deletionRequested => job.executions = {}
  /\ job.status = "CANCELLED" =>
       \A c \in Clips : job.clips[c].status \in Ended

WorkersHaveClips ==
  \A w \in Workers : worker[w].pc # "idle" => worker[w].clip \in Clips

\* An execution under the lock of the queue has its token in the job, which is
\* there.
TokensHeld == \A w \in Running : job.exists /\ w \in job.executions

JobInv == TypeOK /\ WorkersHaveClips /\ TokensHeld /\ JobFenced

-----------------------------------------------------------------------------
(* Writes to the job document *)

\* A deletion that has passed its claim has fenced the job.
DeletionFences ==
  deletion.kind = "job" /\ deletion.phase \notin {"settle", "claim"}
    => job.deletionRequested

Statuses == {"CUTTING_CLIPS", "CANCELLING"} \cup Terminal

DoubtSet == [clip : Clips, retryCount : 0..MaxRetries]

DeletionSet ==
  [kind : {"none", "clip", "job"}, phase : Steps, clip : Clips \cup {None},
   status : Terminal]

DispatchState ==
  [phase : Phases, retryFailed : BOOLEAN, clip : Clips \cup {None},
   plan : [Clips -> {"skip", "add", "retry"}],
   retryCount : [Clips -> 0..MaxRetries]]

DispatchSet == [Dispatchers -> DispatchState]

\* Steps of a dispatcher, requests that retry, and steps of a deletion.
DispatcherReads(d) ==
  \/ DispatchRead(d) \/ DispatchSend(d) \/ DispatchGivesUp(d)
  \/ \E c \in Clips : DispatchCheck(d, c)

DispatcherWrites(d) ==
  DispatchClaim(d) \/ DispatchClear(d) \/ DispatchEnd(d) \/ DispatchCrash(d)

Retries(d) ==
  RetryJob(d) \/ \E c \in Clips : RetryClip(c, d) \/ RetryClipAgain(c, d)

DeletionReads ==
  \/ \E c \in Clips : DeleteClipRead(c)
  \/ DeleteJobRead \/ DeletionChecksQueue \/ DeleteEntries \/ DeleteObjects
  \/ DeletionEnds

\* What a write that only concerns tokens and the dispatcher's mark leaves.
TokensWritten(tokens) ==
  /\ job' \in Job /\ job'.executions = tokens
  /\ job'.exists = job.exists /\ job'.status = job.status
  /\ job'.cancellationRequested = job.cancellationRequested
  /\ job'.deletionRequested = job.deletionRequested
  /\ job'.clips = job.clips

\* What a write to one clip leaves.
ClipWritten(c, clip) ==
  /\ job' \in Job /\ job'.clips = [job.clips EXCEPT ![c] = clip]
  /\ job'.exists = job.exists /\ job'.status = job.status
  /\ job'.cancellationRequested = job.cancellationRequested
  /\ job'.deletionRequested = job.deletionRequested
  /\ job'.renderRetryRequested = job.renderRetryRequested
  /\ job'.executions = job.executions

LEMMA TokensWrite ==
  ASSUME TypeOK, NEW tokens \in SUBSET Tokens,
         job' = [job EXCEPT !.executions = tokens]
  PROVE  /\ TokensWritten(tokens)
         /\ job'.renderRetryRequested = job.renderRetryRequested
BY DEF TypeOK, Job, TokensWritten

LEMMA ClipWrite ==
  ASSUME TypeOK, NEW c \in Clips, NEW clip \in Clip,
         job' = [job EXCEPT !.clips[c] = clip]
  PROVE  ClipWritten(c, clip)
<1>1. job \in Job /\ job.clips \in [Clips -> Clip]
  BY DEF TypeOK, Job
<1> DEFINE clips == [job.clips EXCEPT ![c] = clip]
<1>2. clips \in [Clips -> Clip]
  BY <1>1
<1>3. job' = [job EXCEPT !.clips = clips]
  OBVIOUS
<1> HIDE DEF clips
<1>4. job' \in Job /\ job'.clips = clips
      /\ job'.exists = job.exists /\ job'.status = job.status
      /\ job'.cancellationRequested = job.cancellationRequested
      /\ job'.deletionRequested = job.deletionRequested
      /\ job'.renderRetryRequested = job.renderRetryRequested
      /\ job'.executions = job.executions
  BY <1>1, <1>2, <1>3 DEF Job
<1> QED BY <1>4 DEF ClipWritten, clips

\* The status of one clip is set.
LEMMA ClipStatusWrite ==
  ASSUME TypeOK, NEW c \in Clips,
         NEW status \in {"PENDING", "CUTTING_CLIPS", "COMPLETED", "FAILED"},
         job' = [job EXCEPT !.clips[c].status = status]
  PROVE  \E clip \in Clip :
           /\ clip.status = status
           /\ clip.retryRequested = job.clips[c].retryRequested
           /\ clip.retryCount = job.clips[c].retryCount
           /\ ClipWritten(c, clip)
<1> DEFINE clip == [job.clips[c] EXCEPT !.status = status]
<1>1. job.clips[c] \in Clip
  BY DEF TypeOK, Job
<1>2. /\ clip \in Clip /\ clip.status = status
      /\ clip.retryRequested = job.clips[c].retryRequested
      /\ clip.retryCount = job.clips[c].retryCount
  BY <1>1 DEF Clip
<1>3. job' = [job EXCEPT !.clips[c] = clip]
  OBVIOUS
<1> HIDE DEF clip
<1>4. ClipWritten(c, clip)
  BY <1>2, <1>3, ClipWrite
<1> QED BY <1>2, <1>4

\* A write of a clip that may follow a cancellation only ends it.
LEMMA ClipKeepsFence ==
  ASSUME JobFenced, NEW c \in Clips, NEW clip \in Clip, ClipWritten(c, clip),
         job.status = "CANCELLED" => clip.status \in Ended,
         job.clips \in [Clips -> Clip]
  PROVE  JobFenced'
BY DEF JobFenced, ClipWritten

LEMMA TokensKeepFence ==
  ASSUME JobFenced, NEW tokens \in SUBSET Tokens, TokensWritten(tokens),
         job.status = "CANCELLED" \/ job.deletionRequested => tokens = {}
  PROVE  JobFenced'
BY DEF JobFenced, TokensWritten

\* The outcome under review is kept or forgotten.
LEMMA WriteReviews ==
  ASSUME TypeOK, NEW j, Write(j)
  PROVE  /\ job' = j
         /\ review' \in {"none", "COMPLETED", "FAILED"}
         /\ review' # "none" => review' = review /\ job' = job
BY DEF TypeOK, Write, Reviewed

-----------------------------------------------------------------------------
(* Steps beside the job *)

\* Neither the job nor a process that has a token is concerned.
LEMMA StepsAside ==
  ASSUME JobInv, TypeOK', UNCHANGED <<job, queue, worker>>
  PROVE  JobInv'
BY DEF JobInv, WorkersHaveClips, TokensHeld, JobFenced, Running

LEMMA PriceIsCredits ==
  ASSUME NEW outputs \in SUBSET Clips
  PROVE  Price(outputs) \in Nat
<1>1. IsFiniteSet(outputs)
  BY ClipsAssumption, FS_Subset
<1>2. Cardinality(outputs) \in Nat
  BY <1>1, FS_CardinalityType
<1> QED BY <1>2, ParametersAssumption DEF Price

LEMMA SettlesOperation ==
  ASSUME TypeOK, NEW charge \in Nat, NEW outputs \in SUBSET Clips
  PROVE  Settled(charge, outputs) \in Operation
BY DEF TypeOK, Settled, Operation

LEMMA ChargesCredits ==
  ASSUME TypeOK
  PROVE  Outputs \in SUBSET Clips /\ Larger(op.charged, Price(Outputs)) \in Nat
<1>1. Outputs \in SUBSET Clips
  BY DEF TypeOK, Operation, Outputs, Delivered
<1>2. Price(Outputs) \in Nat /\ op.charged \in Nat
  BY <1>1, PriceIsCredits DEF TypeOK, Operation
<1> QED BY <1>1, <1>2 DEF Larger

LEMMA SettlementSteps ==
  ASSUME JobInv,
         \/ \E s \in Settlers : FinalizeCreditsRead(s) \/ FinalizeCreditsSettle(s)
         \/ SettleOrphan \/ DeletionFinalizesCredits
  PROVE  JobInv'
<1>1. TypeOK /\ UNCHANGED <<job, queue, stored, restarted, worker, dispatch,
                            review, doubts, fenced>>
  BY DEF JobInv, FinalizeCreditsRead, FinalizeCreditsSettle, SettleOrphan,
     DeletionFinalizesCredits, kept, calls
<1>2. ASSUME NEW s \in Settlers, FinalizeCreditsRead(s) PROVE TypeOK'
  <2> DEFINE read == [due |-> TRUE, deliveredOutputs |-> Outputs,
                      charge |-> Larger(op.charged, Price(Outputs))]
  <2>1. read \in [due : BOOLEAN, deliveredOutputs : SUBSET Clips, charge : Nat]
    BY <1>1, ChargesCredits
  <2>2. settlement' = [settlement EXCEPT ![s] = read]
    BY <1>2 DEF FinalizeCreditsRead
  <2> HIDE DEF read
  <2>3. UNCHANGED <<op, deletion>>
    BY <1>2 DEF FinalizeCreditsRead
  <2> QED BY <1>1, <2>1, <2>2, <2>3 DEF TypeOK
<1>3. ASSUME NEW s \in Settlers, FinalizeCreditsSettle(s) PROVE TypeOK'
  <2>1. settlement[s].charge \in Nat
        /\ settlement[s].deliveredOutputs \in SUBSET Clips
    BY <1>1 DEF TypeOK
  <2>2. op' \in Operation
    BY <1>1, <1>3, <2>1, SettlesOperation DEF FinalizeCreditsSettle
  <2>3. settlement' \in
          [Settlers -> [due : BOOLEAN, deliveredOutputs : SUBSET Clips,
                        charge : Nat]]
    BY <1>1, <1>3 DEF TypeOK, FinalizeCreditsSettle, NoSettlement
  <2>4. UNCHANGED deletion
    BY <1>3 DEF FinalizeCreditsSettle
  <2> QED BY <1>1, <2>2, <2>3, <2>4 DEF TypeOK
<1>4. CASE SettleOrphan
  <2>1. op.charged \in Nat /\ op.deliveredOutputs \in SUBSET Clips
    BY <1>1 DEF TypeOK, Operation
  <2>2. op' \in Operation /\ UNCHANGED <<settlement, deletion>>
    BY <1>1, <1>4, <2>1, SettlesOperation DEF SettleOrphan, calls
  <2>3. TypeOK'
    BY <1>1, <2>2 DEF TypeOK
  <2> QED BY <1>1, <2>3, StepsAside
<1>5. CASE DeletionFinalizesCredits
  <2>1. op' \in Operation
    <3>1. Settled(Larger(op.charged, Price(Outputs)), Outputs) \in Operation
      BY <1>1, ChargesCredits, SettlesOperation
    <3> QED BY <1>1, <1>5, <3>1 DEF TypeOK, DeletionFinalizesCredits
  <2>2. deletion' \in
          [kind : {"none", "clip", "job"}, phase : Steps,
           clip : Clips \cup {None}, status : Terminal]
    BY <1>1, <1>5 DEF TypeOK, DeletionFinalizesCredits, Steps
  <2>3. UNCHANGED settlement
    BY <1>5 DEF DeletionFinalizesCredits
  <2>4. TypeOK'
    BY <1>1, <2>1, <2>2, <2>3 DEF TypeOK
  <2> QED BY <1>1, <2>4, StepsAside
<1> QED BY <1>1, <1>2, <1>3, <1>4, <1>5, StepsAside

\* Readings, and steps of a deletion that remove no entry and no document.
LEMMA ReadingSteps ==
  ASSUME JobInv,
         \/ FinalizeRenderStateRead \/ DeletionReads
         \/ \E c \in Clips : Doubt(c)
  PROVE  JobInv'
<1>1. TypeOK /\ UNCHANGED <<job, op, queue, restarted, worker, dispatch,
                            settlement, fenced>>
  BY DEF JobInv, FinalizeRenderStateRead, Doubt, DeletionReads, DeleteClipRead,
     DeleteJobRead, DeletionChecksQueue, DeleteEntries, DeleteObjects,
     DeletionEnds, kept, calls
<1>2. /\ stored' \subseteq Clips
      /\ review' \in {"none", "COMPLETED", "FAILED"}
      /\ doubts' \subseteq DoubtSet
      /\ deletion' \in DeletionSet
  <2>1. /\ stored \subseteq Clips /\ review \in {"none", "COMPLETED", "FAILED"}
        /\ doubts \subseteq DoubtSet /\ deletion \in DeletionSet
    BY <1>1 DEF TypeOK, DoubtSet, DeletionSet
  <2>2. CASE FinalizeRenderStateRead
    BY <2>1, <2>2 DEF FinalizeRenderStateRead, calls, kept
  <2>3. ASSUME NEW c \in Clips, Doubt(c)
        PROVE  doubts' \subseteq DoubtSet /\ UNCHANGED <<stored, review, deletion>>
    <3>1. job.clips[c].retryCount \in 0..MaxRetries
      BY <1>1 DEF TypeOK, Job, Clip
    <3> QED BY <2>1, <2>3, <3>1 DEF Doubt, DoubtSet, kept
  <2>4. ASSUME NEW c \in Clips, DeleteClipRead(c)
        PROVE  deletion' \in DeletionSet /\ UNCHANGED <<stored, review, doubts>>
    BY <2>4 DEF DeleteClipRead, DeletionSet, Steps, kept
  <2>5. CASE DeleteJobRead \/ DeletionChecksQueue \/ DeleteEntries
             \/ DeletionEnds
    BY <2>1, <2>5 DEF DeleteJobRead, DeletionChecksQueue, DeleteEntries,
       DeletionEnds, NoDeletion, DeletionSet, Steps, Terminal, kept
  <2>6. CASE DeleteObjects
    BY <2>1, <2>6 DEF DeleteObjects, NoDeletion, DeletionSet, Steps, Terminal
  <2> QED BY <2>1, <2>2, <2>3, <2>4, <2>5, <2>6 DEF DeletionReads
<1>3. TypeOK'
  BY <1>1, <1>2 DEF TypeOK, DoubtSet, DeletionSet
<1> QED BY <1>1, <1>3, StepsAside

-----------------------------------------------------------------------------
(* Steps that write the job and move no process *)

LEMMA JobSteps ==
  ASSUME JobInv, TypeOK', JobFenced', UNCHANGED <<queue, worker>>,
         job'.exists = job.exists,
         \A w \in Running : w \in job'.executions
  PROVE  JobInv'
<1>1. Running' = Running
  BY DEF Running
<1>2. WorkersHaveClips' /\ TokensHeld'
  BY <1>1 DEF JobInv, WorkersHaveClips, TokensHeld
<1> QED BY <1>2 DEF JobInv

\* The same with the tokens as they are.
LEMMA JobSameTokens ==
  ASSUME JobInv, TypeOK', JobFenced', UNCHANGED <<queue, worker>>,
         job'.exists = job.exists, job'.executions = job.executions
  PROVE  JobInv'
BY JobSteps DEF JobInv, TokensHeld

LEMMA UnfinishedClipFails ==
  ASSUME JobInv, FailUnfinishedClip
  PROVE  JobInv'
<1>1. /\ TypeOK /\ JobFenced /\ job.clips \in [Clips -> Clip]
      /\ UNCHANGED <<op, queue, stored, restarted, worker, dispatch, doubts,
                     settlement, fenced, deletion>>
  BY DEF JobInv, TypeOK, Job, FailUnfinishedClip, kept, calls
<1>2. PICK c \in Clips :
        /\ ~job.cancellationRequested
        /\ Write([job EXCEPT !.clips[c].status = "FAILED"])
  BY <1>1 DEF TypeOK, FailUnfinishedClip, MayFail, Open
<1>3. job' = [job EXCEPT !.clips[c].status = "FAILED"]
      /\ review' \in {"none", "COMPLETED", "FAILED"}
  BY <1>1, <1>2, WriteReviews
<1>4. PICK clip \in Clip : clip.status = "FAILED" /\ ClipWritten(c, clip)
  BY <1>1, <1>3, ClipStatusWrite
<1>5. JobFenced'
  BY <1>1, <1>4, ClipKeepsFence DEF Ended
<1>6. TypeOK'
  BY <1>1, <1>3, <1>4 DEF TypeOK, ClipWritten
<1> QED BY <1>1, <1>4, <1>5, <1>6, JobSameTokens DEF ClipWritten

LEMMA OutcomeWritten ==
  ASSUME JobInv, FinalizeRenderState
  PROVE  JobInv'
<1>1. TypeOK /\ JobFenced /\ review' = "none"
      /\ UNCHANGED <<op, queue, stored, restarted, worker, dispatch, doubts,
                     settlement, fenced, deletion>>
  BY DEF JobInv, FinalizeRenderState, kept, calls
<1>2. /\ job' \in Job /\ job'.exists = job.exists
      /\ job'.executions = job.executions /\ JobFenced'
  <2>1. CASE job' = job
    BY <1>1, <2>1 DEF TypeOK, JobFenced
  <2>2. CASE job' = [job EXCEPT !.status = review]
             /\ ~job.cancellationRequested
    <3>1. review \in {"COMPLETED", "FAILED"}
      BY <1>1 DEF TypeOK, FinalizeRenderState
    <3>2. /\ job' \in Job /\ job'.exists = job.exists
          /\ job'.executions = job.executions /\ job'.status = review
          /\ job'.cancellationRequested = job.cancellationRequested
          /\ job'.deletionRequested = job.deletionRequested
      BY <1>1, <2>2, <3>1 DEF TypeOK, Job, Terminal
    <3> QED BY <1>1, <2>2, <3>1, <3>2 DEF JobFenced
  <2> QED BY <2>1, <2>2 DEF FinalizeRenderState
<1>3. TypeOK'
  BY <1>1, <1>2 DEF TypeOK
<1> QED BY <1>1, <1>2, <1>3, JobSameTokens

LEMMA ReopensOperation ==
  ASSUME TypeOK, op.retries < MaxRetries
  PROVE  Reopened \in Operation
<1>1. op \in Operation /\ op.retries \in 0..MaxRetries
  BY DEF TypeOK, Operation
<1>2. op.retries + 1 \in 0..MaxRetries
  BY <1>1, ParametersAssumption
<1> QED BY <1>1, <1>2 DEF Reopened, Operation

LEMMA RetriesKeep ==
  ASSUME JobInv, NEW d \in Dispatchers, Retries(d)
  PROVE  JobInv'
<1>1. /\ TypeOK /\ JobFenced /\ ~job.cancellationRequested
      /\ dispatch \in DispatchSet
      /\ UNCHANGED <<queue, stored, restarted, worker, doubts, settlement,
                     fenced, deletion>>
  BY DEF JobInv, TypeOK, Retries, RetryJob, RetryClip, RetryClipAgain, Open, kept,
     DispatchSet, DispatchState
<1>2. ASSUME NEW c \in Clips, NEW n \in 0..MaxRetries
      PROVE  [dispatch EXCEPT ![d] = Redispatch(c, n)] \in DispatchSet
  <2> DEFINE plan == [NoDispatch.plan EXCEPT ![c] = "retry"]
             counts == [NoDispatch.retryCount EXCEPT ![c] = n]
  <2>1. Redispatch(c, n) \in DispatchState
    <3>1. plan \in [Clips -> {"skip", "add", "retry"}]
      BY DEF NoDispatch
    <3>2. 0 \in 0..MaxRetries
      BY ParametersAssumption
    <3>3. counts \in [Clips -> 0..MaxRetries]
      BY <3>2 DEF NoDispatch
    <3>4. Redispatch(c, n) = [NoDispatch EXCEPT
            !.phase = "called", !.plan = plan, !.retryCount = counts]
      BY DEF Redispatch
    <3>5. NoDispatch \in DispatchState
      BY <3>2 DEF NoDispatch, DispatchState, Phases
    <3> HIDE DEF plan, counts
    <3> QED BY <3>1, <3>3, <3>4, <3>5 DEF DispatchState, Phases
  <2> QED BY <1>1, <2>1 DEF DispatchSet
<1>3. CASE \E c \in Clips : RetryClipAgain(c, d)
  <2>1. PICK c \in Clips : RetryClipAgain(c, d)
    BY <1>3
  <2>2. job.clips[c].retryCount \in 0..MaxRetries
    BY <1>1 DEF TypeOK, Job, Clip
  <2>3. dispatch' \in DispatchSet /\ UNCHANGED <<job, op, review>>
    BY <1>2, <2>1, <2>2 DEF RetryClipAgain
  <2>4. TypeOK'
    BY <1>1, <2>3 DEF TypeOK, DispatchSet, DispatchState
  <2> QED BY <1>1, <2>3, <2>4, StepsAside
<1>4. CASE RetryJob(d) \/ \E c \in Clips : RetryClip(c, d)
  <2>1. op' = Reopened /\ op.retries < MaxRetries
    BY <1>4 DEF RetryJob, RetryClip
  <2>2. op' \in Operation
    BY <1>1, <2>1, ReopensOperation
  <2>3. /\ job' \in Job /\ job'.exists = job.exists
        /\ job'.executions = job.executions /\ job'.status = "CUTTING_CLIPS"
        /\ job'.cancellationRequested = job.cancellationRequested
        /\ job'.deletionRequested = job.deletionRequested
        /\ review' \in {"none", "COMPLETED", "FAILED"}
        /\ dispatch' \in DispatchSet
    <3>1. CASE RetryJob(d)
      <4> DEFINE clips == [c \in Clips |->
                   IF job.clips[c].status = "FAILED"
                   THEN [job.clips[c] EXCEPT !.status = "PENDING"]
                   ELSE job.clips[c]]
      <4>1. clips \in [Clips -> Clip]
        <5>1. job.clips \in [Clips -> Clip]
          BY <1>1 DEF TypeOK, Job
        <5> QED BY <5>1 DEF Clip
      <4>2. job' = [job EXCEPT !.status = "CUTTING_CLIPS",
                               !.renderRetryRequested = TRUE, !.clips = clips]
            /\ review' \in {"none", "COMPLETED", "FAILED"}
        BY <1>1, <3>1, WriteReviews DEF RetryJob
      <4> HIDE DEF clips
      <4>3. dispatch' \in DispatchSet
        <5> DEFINE state == [dispatch[d] EXCEPT !.phase = "called",
                                                !.retryFailed = TRUE]
        <5>1. dispatch[d] \in DispatchState
          BY <1>1 DEF DispatchSet
        <5>2. state \in DispatchState
          BY <5>1 DEF DispatchState, Phases
        <5>3. dispatch' = [dispatch EXCEPT ![d] = state]
          BY <1>1, <3>1, <5>1 DEF RetryJob, DispatchSet, DispatchState
        <5> HIDE DEF state
        <5> QED BY <1>1, <5>2, <5>3 DEF DispatchSet
      <4> QED BY <1>1, <4>1, <4>2, <4>3 DEF TypeOK, Job
    <3>2. CASE \E c \in Clips : RetryClip(c, d)
      <4>0. PICK c \in Clips : RetryClip(c, d)
        BY <3>2
      <4> DEFINE clip == [status |-> "PENDING", retryRequested |-> TRUE,
                          retryCount |-> job.clips[c].retryCount + 1]
                 clips == [job.clips EXCEPT ![c] = clip]
      <4>1. job.clips \in [Clips -> Clip]
        BY <1>1 DEF TypeOK, Job
      <4>2. job.clips[c].retryCount + 1 \in 0..MaxRetries
        <5>1. job.clips[c].retryCount \in 0..MaxRetries
              /\ job.clips[c].retryCount < MaxRetries
          BY <4>0, <4>1 DEF RetryClip, Clip
        <5> QED BY <5>1, ParametersAssumption
      <4>3. clip \in Clip
        BY <4>2 DEF Clip
      <4>4. job' = [job EXCEPT !.status = "CUTTING_CLIPS", !.clips[c] = clip]
            /\ review' \in {"none", "COMPLETED", "FAILED"}
        BY <1>1, <4>0, WriteReviews DEF RetryClip
      <4>5. dispatch' \in DispatchSet
        BY <1>2, <4>0, <4>2 DEF RetryClip
      <4> HIDE DEF clip
      <4>6. clips \in [Clips -> Clip]
        BY <4>1, <4>3
      <4>7. job' = [job EXCEPT !.status = "CUTTING_CLIPS", !.clips = clips]
        BY <4>4
      <4> HIDE DEF clips
      <4> QED BY <1>1, <4>4, <4>5, <4>6, <4>7 DEF TypeOK, Job
    <3> QED BY <1>4, <3>1, <3>2
  <2>4. TypeOK'
    BY <1>1, <2>2, <2>3 DEF TypeOK, DispatchSet, DispatchState
  <2>5. JobFenced'
    BY <1>1, <2>3 DEF JobFenced
  <2> QED BY <1>1, <2>3, <2>4, <2>5, JobSameTokens
<1> QED BY <1>3, <1>4 DEF Retries

LEMMA CancellationStarts ==
  ASSUME JobInv, CancelJob
  PROVE  JobInv'
<1>1. /\ TypeOK /\ JobFenced
      /\ UNCHANGED <<op, queue, stored, restarted, worker, dispatch, doubts,
                     settlement, fenced, deletion>>
  BY DEF JobInv, CancelJob, kept, calls
<1> DEFINE clips == [c \in Clips |->
                       [job.clips[c] EXCEPT !.retryRequested = FALSE]]
<1>2. clips \in [Clips -> Clip]
  <2>1. job.clips \in [Clips -> Clip]
    BY <1>1 DEF TypeOK, Job
  <2> QED BY <2>1 DEF Clip
<1>3. /\ job' = [job EXCEPT !.status = "CANCELLING",
                            !.cancellationRequested = TRUE,
                            !.renderRetryRequested = FALSE, !.clips = clips]
      /\ review' \in {"none", "COMPLETED", "FAILED"}
  BY <1>1, WriteReviews DEF CancelJob
<1> HIDE DEF clips
<1>4. /\ job' \in Job /\ job'.exists = job.exists
      /\ job'.executions = job.executions /\ job'.status = "CANCELLING"
      /\ job'.cancellationRequested
  BY <1>1, <1>2, <1>3 DEF TypeOK, Job
<1>5. TypeOK' /\ JobFenced'
  BY <1>1, <1>3, <1>4 DEF TypeOK, JobFenced
<1> QED BY <1>1, <1>4, <1>5, JobSameTokens

LEMMA CancellationConfirmed ==
  ASSUME JobInv, FinalizeCancellation
  PROVE  JobInv'
<1>1. /\ TypeOK /\ JobFenced /\ fenced' = FALSE
      /\ UNCHANGED <<op, queue, stored, restarted, worker, dispatch, doubts,
                     settlement, deletion>>
  BY DEF JobInv, FinalizeCancellation, kept
<1> DEFINE clips == [c \in Clips |->
              IF job.clips[c].status \in {"COMPLETED", "FAILED", "gone"}
              THEN job.clips[c]
              ELSE [job.clips[c] EXCEPT !.status = "CANCELLED",
                                        !.retryRequested = FALSE]]
<1>2. clips \in [Clips -> Clip] /\ \A c \in Clips : clips[c].status \in Ended
  <2>1. job.clips \in [Clips -> Clip]
    BY <1>1 DEF TypeOK, Job
  <2>2. ASSUME NEW c \in Clips PROVE clips[c] \in Clip /\ clips[c].status \in Ended
    <3>1. job.clips[c] \in Clip
      BY <2>1
    <3> QED BY <3>1 DEF Clip, Ended
  <2> QED BY <2>2
<1>3. /\ job' = IF MayConfirm
                THEN [job EXCEPT !.status = "CANCELLED", !.clips = clips]
                ELSE job
      /\ review' \in {"none", "COMPLETED", "FAILED"}
  BY <1>1, WriteReviews DEF FinalizeCancellation
<1> HIDE DEF clips
<1>4. /\ job' \in Job /\ job'.exists = job.exists
      /\ job'.executions = job.executions /\ JobFenced'
  <2>1. CASE MayConfirm
    <3>1. /\ job' \in Job /\ job'.exists = job.exists
          /\ job'.executions = job.executions /\ job'.status = "CANCELLED"
          /\ job'.cancellationRequested = job.cancellationRequested
          /\ job'.clips = clips
      BY <1>1, <1>2, <1>3, <2>1 DEF TypeOK, Job, Terminal
    <3> QED BY <1>1, <1>2, <2>1, <3>1 DEF JobFenced, MayConfirm
  <2>2. CASE ~MayConfirm
    BY <1>1, <1>3, <2>2 DEF TypeOK, JobFenced
  <2> QED BY <2>1, <2>2
<1>5. TypeOK'
  BY <1>1, <1>3, <1>4 DEF TypeOK
<1> QED BY <1>1, <1>4, <1>5, JobSameTokens

\* A recovered or acknowledged token is that of no execution under a lock.
LEMMA TokensReturn ==
  ASSUME JobInv,
         AcknowledgeShutdown \/ \E t \in Tokens : RecoverExecutionLease(t)
  PROVE  JobInv'
<1>1. /\ TypeOK /\ JobFenced
      /\ UNCHANGED <<op, queue, stored, restarted, worker, dispatch, doubts,
                     settlement, fenced, deletion>>
  BY DEF JobInv, AcknowledgeShutdown, RecoverExecutionLease, kept, calls
<1>2. PICK t \in Tokens :
        /\ Write([job EXCEPT !.executions = @ \ {t}])
        /\ t = "lost" \/ Expired(t)
  BY DEF AcknowledgeShutdown, RecoverExecutionLease, Tokens
<1>3. t \notin Running
  BY <1>2, WorkersAssumption DEF Expired, Running
<1>4. job' = [job EXCEPT !.executions = job.executions \ {t}]
      /\ review' \in {"none", "COMPLETED", "FAILED"}
  BY <1>1, <1>2, WriteReviews
<1>5. job.executions \ {t} \in SUBSET Tokens
  BY <1>1 DEF TypeOK, Job
<1>6. TokensWritten(job.executions \ {t})
  BY <1>1, <1>4, <1>5, TokensWrite
<1>7. JobFenced'
  BY <1>1, <1>5, <1>6, TokensKeepFence DEF JobFenced
<1>8. TypeOK'
  BY <1>1, <1>4, <1>6 DEF TypeOK, TokensWritten
<1>9. \A w \in Running : w \in job.executions
  BY DEF JobInv, TokensHeld
<1> QED BY <1>1, <1>3, <1>6, <1>7, <1>8, <1>9, JobSteps DEF TokensWritten

LEMMA DeletionsWrite ==
  ASSUME JobInv, DeleteClip \/ DeleteJobClaim
  PROVE  JobInv'
<1>1. /\ TypeOK /\ JobFenced
      /\ UNCHANGED <<op, queue, stored, restarted, worker, dispatch, doubts,
                     settlement, fenced>>
  BY DEF JobInv, DeleteClip, DeleteJobClaim, kept
<1>2. CASE DeleteClip
  <2>1. deletion' = NoDeletion /\ review' \in {"none", "COMPLETED", "FAILED"}
    BY <1>1, <1>2, WriteReviews DEF DeleteClip
  <2> DEFINE gone == [status |-> "gone", retryRequested |-> FALSE,
                      retryCount |-> 0]
  <2>2. /\ job' \in Job /\ job'.exists = job.exists
        /\ job'.executions = job.executions /\ JobFenced'
    <3>1. CASE job.exists /\ deletion.clip \in Clips
      <4>1. job' = [job EXCEPT !.clips[deletion.clip] = gone]
        BY <1>1, <1>2, <3>1, WriteReviews DEF DeleteClip
      <4>2. gone \in Clip /\ gone.status \in Ended
        BY ParametersAssumption DEF Clip, Ended
      <4> HIDE DEF gone
      <4>3. ClipWritten(deletion.clip, gone)
        BY <1>1, <3>1, <4>1, <4>2, ClipWrite
      <4>4. job.clips \in [Clips -> Clip]
        BY <1>1 DEF TypeOK, Job
      <4>5. JobFenced'
        BY <1>1, <3>1, <4>2, <4>3, <4>4, ClipKeepsFence
      <4> QED BY <4>3, <4>5 DEF ClipWritten
    <3>2. CASE ~(job.exists /\ deletion.clip \in Clips)
      <4>1. job' = job
        <5>1. CASE ~job.exists
          BY <1>1, <1>2, <5>1, WriteReviews DEF DeleteClip
        <5>2. CASE job.exists /\ deletion.clip \notin Clips
          <6>1. job' = [job EXCEPT !.clips[deletion.clip] = gone]
            BY <1>1, <1>2, <5>2, WriteReviews DEF DeleteClip
          <6> QED BY <1>1, <5>2, <6>1 DEF TypeOK, Job
        <5> QED BY <3>2, <5>1, <5>2
      <4> QED BY <1>1, <4>1 DEF TypeOK, JobFenced
    <3> QED BY <3>1, <3>2
  <2>3. TypeOK'
    BY <1>1, <2>1, <2>2 DEF TypeOK, NoDeletion, Steps, Terminal
  <2> QED BY <1>1, <2>2, <2>3, JobSameTokens
<1>3. CASE DeleteJobClaim
  <2>1. job' = [job EXCEPT !.deletionRequested = TRUE]
        /\ review' \in {"none", "COMPLETED", "FAILED"}
        /\ deletion' = [deletion EXCEPT !.phase = "check"]
        /\ job.executions = {}
    BY <1>1, <1>3, WriteReviews DEF DeleteJobClaim
  <2>2. /\ job' \in Job /\ job'.exists = job.exists
        /\ job'.executions = job.executions /\ JobFenced'
    BY <1>1, <2>1 DEF TypeOK, Job, JobFenced
  <2>3. TypeOK'
    BY <1>1, <2>1, <2>2 DEF TypeOK, Steps
  <2> QED BY <1>1, <2>2, <2>3, JobSameTokens
<1> QED BY <1>2, <1>3

-----------------------------------------------------------------------------
(* The dispatcher *)

\* A step of a dispatcher, which may take or give back its own token.
LEMMA DispatchSteps ==
  ASSUME JobInv, NEW d \in Dispatchers,
         dispatch' \in DispatchSet, queue' \in [Clips -> Entries],
         \A c \in Clips : queue'[c] \in Workers => queue'[c] = queue[c],
         job' \in Job, JobFenced', job'.exists = job.exists,
         job.executions \ {d} \subseteq job'.executions,
         review' \in {"none", "COMPLETED", "FAILED"},
         UNCHANGED <<op, stored, restarted, worker, doubts, settlement, fenced,
                     deletion>>
  PROVE  JobInv'
<1>1. TypeOK'
  BY DEF JobInv, TypeOK, DispatchSet, DispatchState
<1>2. WorkersHaveClips'
  BY DEF JobInv, WorkersHaveClips
<1>3. TokensHeld'
  <2>1. ASSUME NEW w \in Running' PROVE w \in Running
    <3>1. w \in Workers /\ worker[w].pc \in Executing
          /\ queue'[worker[w].clip] = w
      BY <2>1 DEF Running
    <3>2. worker[w].clip \in Clips
      BY <3>1 DEF JobInv, WorkersHaveClips, Executing
    <3> QED BY <3>1, <3>2 DEF Running
  <2>2. d \notin Running
    BY WorkersAssumption DEF Running
  <2>3. \A w \in Running : job.exists /\ w \in job.executions
    BY DEF JobInv, TokensHeld
  <2> QED BY <2>1, <2>2, <2>3 DEF TokensHeld
<1> QED BY <1>1, <1>2, <1>3 DEF JobInv

\* What the steps of a dispatcher leave alone.
LEMMA DispatcherFrame ==
  ASSUME NEW d \in Dispatchers, DispatcherReads(d) \/ DispatcherWrites(d)
  PROVE  /\ UNCHANGED <<op, stored, restarted, worker, doubts, settlement,
                        fenced, deletion>>
         /\ DispatcherReads(d) => UNCHANGED <<job, review>>
         /\ DispatcherWrites(d) => UNCHANGED queue
<1>1. DispatcherReads(d)
        => UNCHANGED <<job, review, op, stored, restarted, worker, doubts,
                       settlement, fenced, deletion>>
  BY DEF DispatcherReads, DispatchRead, DispatchSend, DispatchGivesUp,
     DispatchCheck, kept
<1>2. DispatcherWrites(d)
        => UNCHANGED <<queue, op, stored, restarted, worker, doubts,
                       settlement, fenced, deletion>>
  BY DEF DispatcherWrites, DispatchClaim, DispatchClear, DispatchEnd,
     DispatchCrash, kept
<1> QED BY <1>1, <1>2

LEMMA DispatcherStates ==
  ASSUME TypeOK, NEW d \in Dispatchers, DispatcherReads(d) \/ DispatcherWrites(d)
  PROVE  dispatch' \in DispatchSet
<1>1. dispatch \in DispatchSet
  BY DEF TypeOK, DispatchSet, DispatchState
<1>2. NoDispatch \in DispatchState
  BY ParametersAssumption DEF NoDispatch, DispatchState, Phases
<1>3. CASE DispatchRead(d)
  <2>1. \A retryFailed, c : Plan(c, retryFailed) \in {"skip", "add", "retry"}
    BY DEF Plan
  <2>2. \A c \in Clips : job.clips[c].retryCount \in 0..MaxRetries
    BY DEF TypeOK, Job, Clip
  <2> DEFINE failed == dispatch[d].retryFailed \/ job.renderRetryRequested
             plan == [c \in Clips |-> Plan(c, failed)]
             counts == [c \in Clips |-> IF Plan(c, failed) = "retry"
                                        THEN job.clips[c].retryCount ELSE 0]
             state == [phase |-> "sending", retryFailed |-> Open /\ failed,
                       clip |-> None, plan |-> plan, retryCount |-> counts]
  <2>3. dispatch' = [dispatch EXCEPT ![d] = state]
    BY <1>3 DEF DispatchRead
  <2>4. plan \in [Clips -> {"skip", "add", "retry"}]
    BY <2>1
  <2>5. counts \in [Clips -> 0..MaxRetries]
    BY <2>2, ParametersAssumption
  <2> HIDE DEF plan, counts
  <2>6. state \in DispatchState
    BY <2>4, <2>5 DEF DispatchState, Phases
  <2> HIDE DEF state
  <2> QED BY <1>1, <2>3, <2>6 DEF DispatchSet
<1>4. CASE DispatchGivesUp(d) \/ DispatchEnd(d) \/ DispatchCrash(d)
  <2>1. dispatch' = [dispatch EXCEPT ![d] = NoDispatch]
    BY <1>4 DEF DispatchGivesUp, DispatchEnd, DispatchCrash
  <2> QED BY <1>1, <1>2, <2>1 DEF DispatchSet
<1>5. ASSUME NEW c \in Clips, DispatchCheck(d, c) PROVE dispatch' \in DispatchSet
  <2> DEFINE ready == [dispatch[d] EXCEPT !.phase = "queueing", !.clip = c]
             skipped == [dispatch[d] EXCEPT !.plan[c] = "skip"]
  <2>1. dispatch' \in {[dispatch EXCEPT ![d] = ready],
                       [dispatch EXCEPT ![d] = skipped]}
    BY <1>1, <1>5 DEF DispatchCheck, DispatchSet
  <2>2. dispatch[d] \in DispatchState
    BY <1>1 DEF DispatchSet
  <2>3. ready \in DispatchState /\ skipped \in DispatchState
    BY <2>2 DEF DispatchState, Phases
  <2> HIDE DEF ready, skipped
  <2> QED BY <1>1, <2>1, <2>3 DEF DispatchSet
<1>6. CASE DispatchClaim(d)
  <2>1. PICK phase \in Phases :
          dispatch' = [dispatch EXCEPT ![d].phase = phase]
    BY <1>6 DEF DispatchClaim, Phases
  <2> QED BY <1>1, <2>1 DEF DispatchSet, DispatchState
<1>7. CASE DispatchSend(d)
  <2> DEFINE c == dispatch[d].clip
             retry == dispatch[d].plan[c] = "retry"
             plan == [dispatch[d].plan EXCEPT ![c] = "skip"]
             state == [dispatch[d] EXCEPT
                         !.phase = IF retry THEN "clearing" ELSE "sending",
                         !.clip = IF retry THEN c ELSE None, !.plan = plan]
  <2>1. dispatch[d] \in DispatchState
    BY <1>1 DEF DispatchSet
  <2>2. plan \in [Clips -> {"skip", "add", "retry"}]
    BY <2>1 DEF DispatchState
  <2>3. dispatch' = [dispatch EXCEPT ![d] = state]
    BY <1>1, <1>7, <2>1 DEF DispatchSend, DispatchSet, DispatchState
  <2> HIDE DEF retry, plan
  <2>4. state \in DispatchState
    BY <2>1, <2>2 DEF DispatchState, Phases
  <2> HIDE DEF state
  <2> QED BY <1>1, <2>3, <2>4 DEF DispatchSet
<1>8. CASE DispatchClear(d)
  <2> DEFINE counts == [dispatch[d].retryCount EXCEPT ![dispatch[d].clip] = 0]
             state == [dispatch[d] EXCEPT !.phase = "sending", !.clip = None,
                                          !.retryCount = counts]
  <2>1. dispatch[d] \in DispatchState
    BY <1>1 DEF DispatchSet
  <2>0. 0 \in 0..MaxRetries
    BY ParametersAssumption
  <2>2. counts \in [Clips -> 0..MaxRetries]
    BY <2>0, <2>1 DEF DispatchState
  <2>3. dispatch' = [dispatch EXCEPT ![d] = state]
    BY <1>1, <1>8, <2>1 DEF DispatchClear, DispatchSet, DispatchState
  <2> HIDE DEF counts
  <2>4. state \in DispatchState
    BY <2>1, <2>2 DEF DispatchState, Phases
  <2> HIDE DEF state
  <2> QED BY <1>1, <2>3, <2>4 DEF DispatchSet
<1> QED BY <1>3, <1>4, <1>5, <1>6, <1>7, <1>8
        DEF DispatcherReads, DispatcherWrites

LEMMA DispatcherKeeps ==
  ASSUME JobInv, NEW d \in Dispatchers, DispatcherReads(d) \/ DispatcherWrites(d)
  PROVE  JobInv'
<1>1. /\ TypeOK /\ JobFenced /\ job \in Job /\ queue \in [Clips -> Entries]
      /\ review \in {"none", "COMPLETED", "FAILED"}
      /\ job.executions \in SUBSET Tokens /\ d \in Tokens
  BY DEF JobInv, TypeOK, Job, Tokens
<1>2. /\ UNCHANGED <<op, stored, restarted, worker, doubts, settlement, fenced,
                     deletion>>
      /\ DispatcherReads(d) => UNCHANGED <<job, review>>
      /\ DispatcherWrites(d) => UNCHANGED queue
      /\ dispatch' \in DispatchSet
  BY <1>1, DispatcherFrame, DispatcherStates
<1>3. CASE DispatcherReads(d)
  <2>1. queue' = queue
        \/ \E c \in Clips : queue' = [queue EXCEPT ![c] = "waiting"]
    <3>1. CASE DispatchSend(d)
      <4>1. queue' = queue
            \/ queue' = [queue EXCEPT ![dispatch[d].clip] = "waiting"]
        BY <3>1 DEF DispatchSend
      <4> QED BY <1>1, <4>1
    <3>2. CASE ~DispatchSend(d)
      BY <1>3, <3>2 DEF DispatcherReads, DispatchRead, DispatchGivesUp,
         DispatchCheck
    <3> QED BY <3>1, <3>2
  <2>2. /\ queue' \in [Clips -> Entries]
        /\ \A c \in Clips : queue'[c] \in Workers => queue'[c] = queue[c]
    <3>1. "waiting" \in Entries \ Workers
      BY WorkersAssumption DEF Entries
    <3> QED BY <1>1, <2>1, <3>1
  <2>3. JobFenced'
    BY <1>1, <1>2, <1>3 DEF JobFenced
  <2> QED BY <1>1, <1>2, <1>3, <2>2, <2>3, DispatchSteps
<1>4. ASSUME DispatcherWrites(d),
             job' \in Job, JobFenced', job'.exists = job.exists,
             job.executions \ {d} \subseteq job'.executions,
             review' \in {"none", "COMPLETED", "FAILED"}
      PROVE  JobInv'
  BY <1>1, <1>2, <1>4, DispatchSteps
<1>5. CASE DispatchClaim(d)
  <2>1. job' = [job EXCEPT !.executions = job.executions \cup {d}]
        /\ review' \in {"none", "COMPLETED", "FAILED"}
    BY <1>1, <1>5, WriteReviews DEF DispatchClaim
  <2>2. TokensWritten(job.executions \cup {d})
    BY <1>1, <2>1, TokensWrite
  <2>3. JobFenced'
    BY <1>1, <1>5, <2>2, TokensKeepFence DEF JobFenced, DispatchClaim, Open
  <2> QED BY <1>4, <1>5, <2>1, <2>2, <2>3 DEF TokensWritten, DispatcherWrites
<1>6. CASE DispatchClear(d)
  <2> DEFINE c == dispatch[d].clip
             clip == [job.clips[c] EXCEPT !.retryRequested = FALSE]
  <2>1. job' \in {job, [job EXCEPT !.clips[c] = clip]}
        /\ review' \in {"none", "COMPLETED", "FAILED"}
    BY <1>1, <1>6, WriteReviews DEF DispatchClear
  <2>2. /\ job' \in Job /\ JobFenced' /\ job'.exists = job.exists
        /\ job'.executions = job.executions
    <3>1. CASE job' = job
      BY <1>1, <3>1 DEF JobFenced
    <3>2. CASE c \notin Clips
      <4>1. job' = job
        BY <1>1, <2>1, <3>2 DEF Job
      <4> QED BY <3>1, <4>1
    <3>3. CASE c \in Clips /\ job' = [job EXCEPT !.clips[c] = clip]
      <4>1. job.clips[c] \in Clip /\ job.clips \in [Clips -> Clip]
        BY <1>1, <3>3 DEF Job
      <4>2. clip \in Clip /\ clip.status = job.clips[c].status
        BY <4>1 DEF Clip
      <4> HIDE DEF clip, c
      <4>3. ClipWritten(c, clip)
        BY <1>1, <3>3, <4>2, ClipWrite
      <4>4. JobFenced'
        BY <1>1, <3>3, <4>1, <4>2, <4>3, ClipKeepsFence DEF JobFenced
      <4> QED BY <4>3, <4>4 DEF ClipWritten
    <3> QED BY <2>1, <3>1, <3>2, <3>3
  <2> QED BY <1>4, <1>6, <2>1, <2>2 DEF DispatcherWrites
<1>7. CASE DispatchEnd(d)
  <2> DEFINE tokens == job.executions \ {d}
  <2>1. PICK done \in {FALSE, Sent(d)} :
          Write([job EXCEPT
            !.executions = tokens,
            !.renderRetryRequested = @ /\ ~(done /\ dispatch[d].retryFailed)])
    BY <1>7 DEF DispatchEnd
  <2> DEFINE mark == job.renderRetryRequested
                       /\ ~(done /\ dispatch[d].retryFailed)
  <2>2. job' = [job EXCEPT !.executions = tokens, !.renderRetryRequested = mark]
        /\ review' \in {"none", "COMPLETED", "FAILED"}
    BY <1>1, <2>1, WriteReviews
  <2>3. mark \in BOOLEAN /\ tokens \in SUBSET Tokens
    BY <1>1
  <2> HIDE DEF mark
  <2>4. TokensWritten(tokens)
    BY <1>1, <2>2, <2>3 DEF TokensWritten, Job
  <2>5. JobFenced'
    BY <1>1, <2>3, <2>4, TokensKeepFence DEF JobFenced
  <2> QED BY <1>4, <1>7, <2>2, <2>4, <2>5 DEF TokensWritten, DispatcherWrites
<1>8. CASE DispatchCrash(d)
  <2> DEFINE tokens == (job.executions \ {d}) \cup {"lost"}
  <2>1. CASE d \in job.executions
    <3>1. job' = [job EXCEPT !.executions = tokens]
          /\ review' \in {"none", "COMPLETED", "FAILED"}
      BY <1>1, <1>8, <2>1, WriteReviews DEF DispatchCrash
    <3>2. tokens \in SUBSET Tokens
      BY <1>1 DEF Tokens
    <3>3. TokensWritten(tokens)
      BY <1>1, <3>1, <3>2, TokensWrite
    <3>4. JobFenced'
      BY <1>1, <2>1, <3>2, <3>3, TokensKeepFence DEF JobFenced
    <3> QED BY <1>4, <1>8, <3>1, <3>3, <3>4 DEF TokensWritten, DispatcherWrites
  <2>2. CASE d \notin job.executions
    <3>1. job' = job /\ review' \in {"none", "COMPLETED", "FAILED"}
      BY <1>1, <1>8, <2>2, WriteReviews DEF DispatchCrash
    <3> QED BY <1>1, <1>4, <1>8, <3>1 DEF JobFenced, DispatcherWrites
  <2> QED BY <2>1, <2>2
<1> QED BY <1>2, <1>3, <1>5, <1>6, <1>7, <1>8 DEF DispatcherWrites

-----------------------------------------------------------------------------
(* Workers and the queue *)

WorkerSet == [pc : Places, clip : Clips \cup {None}, retryCount : 0..MaxRetries]

\* A worker is at a place, with its clip, and the others stay.
WorkerAt(w, place, clip) ==
  /\ worker' \in [Workers -> WorkerSet]
  /\ worker'[w].pc = place /\ worker'[w].clip = clip
  /\ \A v \in Workers \ {w} : worker'[v] = worker[v]

LEMMA GoesTo ==
  ASSUME TypeOK, NEW w \in Workers, NEW place \in Places, Goes(w, place)
  PROVE  WorkerAt(w, place, worker[w].clip)
BY DEF TypeOK, Goes, WorkerAt, WorkerSet

LEMMA SetTo ==
  ASSUME TypeOK, NEW w \in Workers, NEW state \in WorkerSet,
         worker' = [worker EXCEPT ![w] = state]
  PROVE  WorkerAt(w, state.pc, state.clip)
BY DEF TypeOK, WorkerAt, WorkerSet

LEMMA FreedAt ==
  ASSUME TypeOK, NEW w \in Workers, worker' = [worker EXCEPT ![w] = NoClip]
  PROVE  WorkerAt(w, "idle", None)
<1>1. NoClip \in WorkerSet /\ NoClip.pc = "idle" /\ NoClip.clip = None
  BY ParametersAssumption DEF NoClip, WorkerSet, Places
<1> QED BY <1>1, SetTo

\* A step of a worker that goes on with its clip: it keeps its token, unless it
\* has ended, and takes nobody else's.
LEMMA WorkerSteps ==
  ASSUME JobInv, NEW w \in Workers, NEW place,
         worker[w].pc # "idle", WorkerAt(w, place, worker[w].clip),
         job' \in Job, JobFenced', job'.exists = job.exists,
         job.executions \ {w} \subseteq job'.executions,
         place \in Executing =>
           \/ job.exists /\ w \in job'.executions
           \/ worker[w].pc \in Executing /\ job'.executions = job.executions,
         stored' \subseteq Clips, review' \in {"none", "COMPLETED", "FAILED"},
         UNCHANGED <<op, queue, restarted, dispatch, doubts, settlement, fenced,
                     deletion>>
  PROVE  JobInv'
<1>1. TypeOK'
  BY DEF JobInv, TypeOK, WorkerAt, WorkerSet
<1>2. WorkersHaveClips'
  BY DEF JobInv, WorkersHaveClips, WorkerAt
<1>3. TokensHeld'
  <2>1. \A v \in Running : job.exists /\ v \in job.executions
    BY DEF JobInv, TokensHeld
  <2>2. ASSUME NEW v \in Running' PROVE job.exists /\ v \in job'.executions
    <3>1. CASE v = w
      <4>1. place \in Executing /\ queue[worker[w].clip] = w
        BY <2>2, <3>1 DEF Running, WorkerAt
      <4>2. worker[w].pc \in Executing => w \in Running
        BY <4>1 DEF Running
      <4> QED BY <2>1, <3>1, <4>1, <4>2
    <3>2. CASE v # w
      <4>1. v \in Running
        BY <2>2, <3>2 DEF Running, WorkerAt
      <4> QED BY <2>1, <3>2, <4>1
    <3> QED BY <3>1, <3>2
  <2> QED BY <2>2 DEF TokensHeld
<1> QED BY <1>1, <1>2, <1>3 DEF JobInv

\* The same without a write to the job.
LEMMA WorkerMoves ==
  ASSUME JobInv, NEW w \in Workers, NEW place,
         worker[w].pc \in Executing, WorkerAt(w, place, worker[w].clip),
         stored' \subseteq Clips,
         UNCHANGED <<job, op, queue, restarted, dispatch, review, doubts,
                     settlement, fenced, deletion>>
  PROVE  JobInv'
<1>1. job \in Job /\ JobFenced' /\ review \in {"none", "COMPLETED", "FAILED"}
      /\ worker[w].pc # "idle"
  BY DEF JobInv, TypeOK, JobFenced, Executing
<1> QED BY <1>1, WorkerSteps

LEMMA WorkersMove ==
  ASSUME JobInv, NEW w \in Workers,
         \/ ReadClip(w) \/ StartAttempt(w) \/ Upload(w) \/ Abort(w) \/ Error(w)
         \/ ReadAfterError(w)
  PROVE  JobInv'
<1>1. TypeOK /\ worker[w].pc \in Executing /\ stored \subseteq Clips
  BY DEF JobInv, TypeOK, Executing, ReadClip, StartAttempt, Upload, Abort, Error,
     ReadAfterError
<1>2. worker[w].clip \in Clips
  BY <1>1 DEF JobInv, WorkersHaveClips, Executing
<1>3. /\ stored' \subseteq Clips
      /\ UNCHANGED <<job, op, queue, restarted, dispatch, review, doubts,
                     settlement, fenced, deletion>>
  BY <1>1, <1>2 DEF ReadClip, StartAttempt, Upload, Abort, Error, ReadAfterError,
     kept, others
<1>4. \E place \in Places : WorkerAt(w, place, worker[w].clip)
  <2>1. CASE ReadClip(w)
    <3>1. PICK place \in {"returned", "thrown", "start"} :
            worker' = [worker EXCEPT ![w] =
              [pc |-> place, clip |-> worker[w].clip,
               retryCount |-> job.clips[worker[w].clip].retryCount]]
      BY <2>1 DEF ReadClip
    <3> DEFINE state == [pc |-> place, clip |-> worker[w].clip,
                         retryCount |-> job.clips[worker[w].clip].retryCount]
    <3>2. job.clips[worker[w].clip].retryCount \in 0..MaxRetries
      BY <1>1, <1>2 DEF TypeOK, Job, Clip
    <3>3. /\ state \in WorkerSet /\ state.pc = place
          /\ state.clip = worker[w].clip
      BY <1>2, <3>2 DEF WorkerSet, Places
    <3>4. worker' = [worker EXCEPT ![w] = state]
      BY <3>1
    <3> HIDE DEF state
    <3>5. WorkerAt(w, place, worker[w].clip)
      BY <1>1, <3>3, <3>4, SetTo
    <3> QED BY <3>5 DEF Places
  <2>2. CASE ~ReadClip(w)
    <3>1. PICK place \in Places : Goes(w, place)
      BY <2>2 DEF StartAttempt, Upload, Abort, Error, ReadAfterError, Places
    <3> QED BY <1>1, <3>1, GoesTo
  <2> QED BY <2>1, <2>2
<1> QED BY <1>1, <1>3, <1>4, WorkerMoves

\* Writes of a worker to its clip.
LEMMA WorkersWriteClips ==
  ASSUME JobInv, NEW w \in Workers,
         RecoverOutput(w) \/ Transition(w) \/ Complete(w) \/ ResetClip(w)
  PROVE  JobInv'
<1>1. TypeOK /\ JobFenced /\ worker[w].pc \in Executing \ {"idle"}
      /\ job \in Job /\ job.clips \in [Clips -> Clip]
  BY DEF JobInv, TypeOK, Job, Executing, RecoverOutput, Transition, Complete,
     ResetClip
<1>2. worker[w].clip \in Clips
  BY <1>1 DEF JobInv, WorkersHaveClips
<1>3. /\ stored' \subseteq Clips
      /\ UNCHANGED <<op, queue, restarted, dispatch, doubts, settlement, fenced,
                     deletion>>
  BY <1>1 DEF TypeOK, RecoverOutput, Transition, Complete, ResetClip, kept, others
<1>4. /\ \E j : Write(j)
      /\ job' \in {job, [job EXCEPT !.clips[worker[w].clip].status = "COMPLETED"]}
         \/ (job' = [job EXCEPT !.clips[worker[w].clip].status = "CUTTING_CLIPS"]
              /\ ~job.cancellationRequested)
         \/ (job' = [job EXCEPT !.clips[worker[w].clip].status = "PENDING"]
              /\ ~job.cancellationRequested)
      /\ \E place \in Places : Goes(w, place)
  BY DEF RecoverOutput, Transition, Complete, ResetClip, CompletedBy, Open,
     Write, Places
<1>5. review' \in {"none", "COMPLETED", "FAILED"}
  BY <1>1, <1>4, WriteReviews
<1>6. /\ job' \in Job /\ JobFenced' /\ job'.exists = job.exists
      /\ job'.executions = job.executions
  <2>1. CASE job' = job
    BY <1>1, <2>1 DEF JobFenced
  <2>2. ASSUME NEW status \in {"COMPLETED", "CUTTING_CLIPS", "PENDING"},
               job' = [job EXCEPT !.clips[worker[w].clip].status = status],
               status = "COMPLETED" \/ ~job.cancellationRequested
        PROVE  /\ job' \in Job /\ JobFenced' /\ job'.exists = job.exists
               /\ job'.executions = job.executions
    <3> DEFINE c == worker[w].clip
    <3> HIDE DEF c
    <3>0. c \in Clips /\ job' = [job EXCEPT !.clips[c].status = status]
      BY <1>2, <2>2 DEF c
    <3>1. PICK clip \in Clip :
            clip.status = status /\ ClipWritten(worker[w].clip, clip)
      <4>1. PICK clip \in Clip : clip.status = status /\ ClipWritten(c, clip)
        BY <1>1, <3>0, ClipStatusWrite
      <4> QED BY <4>1 DEF c
    <3>2. job.status = "CANCELLED" => clip.status \in Ended
      BY <1>1, <2>2, <3>1 DEF JobFenced, Ended
    <3>3. JobFenced'
      BY <1>1, <1>2, <3>1, <3>2, ClipKeepsFence
    <3> QED BY <3>1, <3>3 DEF ClipWritten
  <2> QED BY <1>4, <2>1, <2>2
<1>7. PICK place \in Places : WorkerAt(w, place, worker[w].clip)
  BY <1>1, <1>4, GoesTo
<1> QED BY <1>1, <1>3, <1>5, <1>6, <1>7, WorkerSteps

\* A token is taken by a job that is open, and given back at the end.
LEMMA WorkersClaim ==
  ASSUME JobInv, NEW w \in Workers, ClaimExecution(w) \/ ReleaseExecution(w)
  PROVE  JobInv'
<1>1. TypeOK /\ JobFenced /\ worker[w].pc # "idle" /\ job \in Job
      /\ job.executions \in SUBSET Tokens /\ w \in Tokens
  BY DEF JobInv, TypeOK, Job, Tokens, ClaimExecution, ReleaseExecution
<1>2. /\ stored' \subseteq Clips
      /\ UNCHANGED <<op, queue, restarted, dispatch, doubts, settlement, fenced,
                     deletion>>
  BY <1>1 DEF TypeOK, ClaimExecution, ReleaseExecution, kept, others
<1>3. review' \in {"none", "COMPLETED", "FAILED"}
  BY <1>1, WriteReviews DEF ClaimExecution, ReleaseExecution
<1>4. CASE ClaimExecution(w) /\ MayStart
  <2>1. job' = [job EXCEPT !.executions = job.executions \cup {w}]
    BY <1>1, <1>4, WriteReviews DEF ClaimExecution
  <2>2. TokensWritten(job.executions \cup {w})
    BY <1>1, <2>1, TokensWrite
  <2>3. JobFenced'
    BY <1>1, <1>4, <2>2, TokensKeepFence DEF JobFenced, MayStart, Open
  <2>4. WorkerAt(w, "read", worker[w].clip) /\ job.exists
    BY <1>1, <1>4, GoesTo DEF ClaimExecution, MayStart, Open, Places
  <2> QED BY <1>1, <1>2, <1>3, <2>2, <2>3, <2>4, WorkerSteps DEF TokensWritten
<1>5. CASE ClaimExecution(w) /\ ~MayStart
  <2>1. job' = job /\ WorkerAt(w, "ended", worker[w].clip)
    BY <1>1, <1>5, WriteReviews, GoesTo DEF ClaimExecution, Places
  <2>2. JobFenced' /\ "ended" \notin Executing
    BY <1>1, <2>1 DEF JobFenced, Executing
  <2> QED BY <1>1, <1>2, <1>3, <2>1, <2>2, WorkerSteps
<1>6. CASE ReleaseExecution(w)
  <2>1. job' = [job EXCEPT !.executions = job.executions \ {w}]
    BY <1>1, <1>6, WriteReviews DEF ReleaseExecution
  <2>2. TokensWritten(job.executions \ {w})
    BY <1>1, <2>1, TokensWrite
  <2>3. JobFenced'
    BY <1>1, <2>2, TokensKeepFence DEF JobFenced
  <2>4. PICK place \in {"failed", "ended"} : Goes(w, place)
    BY <1>6 DEF ReleaseExecution
  <2>5. WorkerAt(w, place, worker[w].clip) /\ place \notin Executing
    BY <1>1, <2>4, GoesTo DEF Executing, Places
  <2> QED BY <1>1, <1>2, <1>3, <2>2, <2>3, <2>5, WorkerSteps DEF TokensWritten
<1> QED BY <1>4, <1>5, <1>6

\* Nobody runs who did not run, and those who do keep their tokens.
LEMMA NobodyStarts ==
  ASSUME JobInv, TypeOK', WorkersHaveClips', JobFenced',
         \A w \in Running' :
           w \in Running /\ (w \in job.executions => w \in job'.executions),
         Running' # {} => job'.exists = job.exists
  PROVE  JobInv'
BY DEF JobInv, TokensHeld

LEMMA QueueKeeps ==
  ASSUME JobInv,
         \/ \E w \in Workers, c \in Clips : Take(w, c)
         \/ \E w \in Workers : EndEntry(w) \/ LoseLock(w)
         \/ \E c \in Clips : Stalled(c) \/ RemoveEntry(c) \/ DeleteEntry(c)
         \/ FenceQueue
  PROVE  JobInv'
<1>1. TypeOK /\ queue \in [Clips -> Entries] /\ worker \in [Workers -> WorkerSet]
      /\ {"none", "waiting", "orphaned", "completed", "failed"}
            \subseteq Entries \ Workers
      /\ Workers \subseteq Entries
  BY WorkersAssumption DEF JobInv, TypeOK, WorkerSet, Entries
<1>2. UNCHANGED <<job, op, stored, dispatch, review, doubts, settlement, deletion>>
      /\ restarted' \subseteq Clips /\ fenced' \in BOOLEAN
  BY <1>1 DEF TypeOK, Take, EndEntry, LoseLock, Stalled, RemoveEntry, DeleteEntry,
     FenceQueue, others, kept, calls
<1>3. ASSUME NEW w \in Workers, NEW c \in Clips, Take(w, c) PROVE JobInv'
  <2> DEFINE state == [pc |-> "taken", clip |-> c, retryCount |-> 0]
  <2>1. state \in WorkerSet
    BY ParametersAssumption DEF WorkerSet, Places
  <2>2. /\ worker' = [worker EXCEPT ![w] = state]
        /\ queue' = [queue EXCEPT ![c] = w] /\ queue[c] = "waiting"
    BY <1>3 DEF Take
  <2>3. worker' \in [Workers -> WorkerSet] /\ queue' \in [Clips -> Entries]
    BY <1>1, <2>1, <2>2
  <2>4. WorkersHaveClips'
    BY <1>1, <2>2 DEF JobInv, WorkersHaveClips
  <2>5. \A v \in Running' : v \in Running
    BY <1>1, <2>2, <2>4 DEF Running, Executing, WorkersHaveClips
  <2>6. TypeOK' /\ JobFenced'
    BY <1>1, <1>2, <2>3 DEF JobInv, TypeOK, WorkerSet, JobFenced
  <2> QED BY <1>2, <2>4, <2>5, <2>6, NobodyStarts
<1>4. ASSUME NEW w \in Workers, EndEntry(w) PROVE JobInv'
  <2>1. /\ WorkerAt(w, "idle", None)
        /\ \/ queue' = queue
           \/ \E end \in {"completed", "waiting", "failed"} :
                queue' = [queue EXCEPT ![worker[w].clip] = end]
    BY <1>1, <1>4, FreedAt DEF EndEntry
  <2>2. queue' \in [Clips -> Entries]
        /\ \A c \in Clips : queue'[c] \in Workers => queue'[c] = queue[c]
    BY <1>1, <2>1
  <2>3. WorkersHaveClips'
    BY <2>1 DEF JobInv, WorkersHaveClips, WorkerAt
  <2>4. \A v \in Running' : v \in Running
    BY <2>1, <2>2, <2>3 DEF Running, Executing, WorkerAt, WorkersHaveClips
  <2>5. TypeOK' /\ JobFenced'
    BY <1>1, <1>2, <2>1, <2>2 DEF JobInv, TypeOK, WorkerAt, WorkerSet, JobFenced
  <2> QED BY <1>2, <2>3, <2>4, <2>5, NobodyStarts
<1>5. ASSUME \/ \E w \in Workers : LoseLock(w)
             \/ \E c \in Clips : Stalled(c) \/ RemoveEntry(c) \/ DeleteEntry(c)
             \/ FenceQueue
      PROVE  JobInv'
  <2>1. UNCHANGED worker
    BY <1>5 DEF LoseLock, Stalled, RemoveEntry, DeleteEntry, FenceQueue, others,
       calls
  <2>2. queue' \in [Clips -> Entries]
        /\ \A c \in Clips : queue'[c] \in Workers => queue'[c] = queue[c]
    <3>1. ASSUME NEW w \in Workers, LoseLock(w)
          PROVE  queue' = [queue EXCEPT ![worker[w].clip] = "orphaned"]
      BY <3>1 DEF LoseLock
    <3>2. ASSUME NEW c \in Clips, Stalled(c) \/ RemoveEntry(c) \/ DeleteEntry(c)
          PROVE  \E end \in {"none", "waiting", "failed"} :
                   queue' = [queue EXCEPT ![c] = end]
      BY <3>2 DEF Stalled, RemoveEntry, DeleteEntry
    <3>3. FenceQueue => queue' = [c \in Clips |-> "none"]
      BY DEF FenceQueue
    <3> QED BY <1>1, <1>5, <3>1, <3>2, <3>3
  <2>3. WorkersHaveClips'
    BY <2>1 DEF JobInv, WorkersHaveClips
  <2>4. \A v \in Running' : v \in Running
    BY <2>1, <2>2, <2>3 DEF Running, Executing, WorkersHaveClips
  <2>5. TypeOK' /\ JobFenced'
    BY <1>1, <1>2, <2>1, <2>2 DEF JobInv, TypeOK, JobFenced
  <2> QED BY <1>2, <2>3, <2>4, <2>5, NobodyStarts
<1> QED BY <1>3, <1>4, <1>5

\* A crashed worker's token is lost, and its lock renewed by nobody.
LEMMA WorkersCrash ==
  ASSUME JobInv, NEW w \in Workers, Crash(w)
  PROVE  JobInv'
<1>1. TypeOK /\ JobFenced /\ job \in Job /\ job.executions \in SUBSET Tokens
      /\ queue \in [Clips -> Entries]
      /\ UNCHANGED <<op, stored, restarted, dispatch, doubts, settlement, fenced,
                     deletion>>
  BY DEF JobInv, TypeOK, Job, Crash, kept, others
<1>2. WorkerAt(w, "idle", None) /\ review' \in {"none", "COMPLETED", "FAILED"}
  BY <1>1, FreedAt, WriteReviews DEF Crash
<1>3. /\ job' \in Job /\ JobFenced' /\ job'.exists = job.exists
      /\ job.executions \ {w} \subseteq job'.executions
  <2>1. CASE w \in job.executions
    <3> DEFINE tokens == (job.executions \ {w}) \cup {"lost"}
    <3>1. job' = [job EXCEPT !.executions = tokens]
      BY <1>1, <2>1, WriteReviews DEF Crash
    <3>2. tokens \in SUBSET Tokens
      BY <1>1 DEF Tokens
    <3>3. TokensWritten(tokens)
      BY <1>1, <3>1, <3>2, TokensWrite
    <3>4. JobFenced'
      BY <1>1, <2>1, <3>2, <3>3, TokensKeepFence DEF JobFenced
    <3> QED BY <3>3, <3>4 DEF TokensWritten
  <2>2. CASE w \notin job.executions
    <3>1. job' = job
      BY <1>1, <2>2, WriteReviews DEF Crash
    <3> QED BY <1>1, <3>1 DEF JobFenced
  <2> QED BY <2>1, <2>2
<1>4. /\ queue' \in [Clips -> Entries]
      /\ \A c \in Clips : queue'[c] \in Workers => queue'[c] = queue[c]
  BY <1>1, WorkersAssumption DEF Crash, Entries
<1>5. WorkersHaveClips'
  BY <1>2 DEF JobInv, WorkersHaveClips, WorkerAt
<1>6. \A v \in Running' : v \in Running \ {w}
  BY <1>2, <1>4, <1>5 DEF Running, Executing, WorkerAt, WorkersHaveClips
<1>7. TypeOK'
  BY <1>1, <1>2, <1>3, <1>4 DEF TypeOK, WorkerAt, WorkerSet
<1> QED BY <1>1, <1>3, <1>5, <1>6, <1>7, NobodyStarts

-----------------------------------------------------------------------------
(* Who writes what *)

\* The steps of a job, dispatchers, retries and deletions taken together.
LEMMA NextSteps ==
  ASSUME Next
  PROVE  \/ \E d \in Dispatchers :
              DispatcherReads(d) \/ DispatcherWrites(d) \/ Retries(d)
         \/ CronStep \/ QueueStep
         \/ \E w \in Workers : WorkerStep(w) \/ Crash(w) \/ LoseLock(w)
         \/ CancelJob \/ AcknowledgeShutdown \/ DeletionReads
         \/ DeletionFinalizesCredits \/ DeleteJobClaim \/ DeleteClip
         \/ DeleteJob \/ \E c \in Clips : DeleteEntry(c)
<1>1. ASSUME NEW d \in Dispatchers, DispatcherStep(d) \/ DispatchCrash(d)
      PROVE  DispatcherReads(d) \/ DispatcherWrites(d)
  BY <1>1 DEF DispatcherStep, DispatcherGoesOn, DispatcherReads, DispatcherWrites
<1>2. CASE UserStep
  BY <1>2 DEF UserStep, Retries, DeletionReads
<1> QED BY <1>1, <1>2 DEF Next, Failure

\* What else the groups leave alone.
LEMMA RetryFrame ==
  ASSUME NEW d \in Dispatchers, Retries(d)
  PROVE  /\ UNCHANGED <<queue, stored, restarted, worker, doubts, settlement,
                        fenced, deletion>>
         /\ \/ UNCHANGED <<job, op, review>>
            \/ RetryJob(d) \/ \E c \in Clips : RetryClip(c, d)
BY DEF Retries, RetryJob, RetryClip, RetryClipAgain, kept

LEMMA DeletionFrame ==
  ASSUME DeletionReads
  PROVE  UNCHANGED <<job, op, queue, restarted, worker, dispatch, review, doubts,
                     settlement, fenced>>
BY DEF DeletionReads, DeleteClipRead, DeleteJobRead, DeletionChecksQueue,
   DeleteEntries, DeleteObjects, DeletionEnds, kept

\* The actions that may change the job document.
LEMMA JobWriters ==
  ASSUME Next
  PROVE  \/ UNCHANGED job
         \/ \E d \in Dispatchers :
              \/ DispatcherWrites(d) \/ RetryJob(d)
              \/ \E c \in Clips : RetryClip(c, d)
         \/ \E w \in Workers :
              \/ ClaimExecution(w) \/ ReleaseExecution(w) \/ Crash(w)
              \/ RecoverOutput(w) \/ Transition(w) \/ Complete(w) \/ ResetClip(w)
         \/ FailUnfinishedClip \/ FinalizeRenderState \/ CancelJob
         \/ FinalizeCancellation \/ AcknowledgeShutdown
         \/ \E t \in Tokens : RecoverExecutionLease(t)
         \/ DeleteClip \/ DeleteJobClaim \/ DeleteJob
<1>1. ASSUME NEW w \in Workers,
             \/ ReadClip(w) \/ StartAttempt(w) \/ Upload(w) \/ Abort(w)
             \/ Error(w) \/ ReadAfterError(w) \/ EndEntry(w) \/ LoseLock(w)
             \/ \E c \in Clips : Take(w, c)
      PROVE  UNCHANGED job
  BY <1>1 DEF ReadClip, StartAttempt, Upload, Abort, Error, ReadAfterError,
     EndEntry, LoseLock, Take
<1>2. ASSUME NEW c \in Clips,
             Stalled(c) \/ Doubt(c) \/ RemoveEntry(c) \/ DeleteEntry(c)
      PROVE  UNCHANGED job
  BY <1>2 DEF Stalled, Doubt, RemoveEntry, DeleteEntry
<1>3. ASSUME NEW s \in Settlers, FinalizeCreditsRead(s) \/ FinalizeCreditsSettle(s)
      PROVE  UNCHANGED job
  BY <1>3 DEF FinalizeCreditsRead, FinalizeCreditsSettle
<1>4. SettleOrphan \/ FinalizeRenderStateRead \/ FenceQueue
      \/ DeletionFinalizesCredits \/ DeletionReads
        => UNCHANGED job
  BY DeletionFrame
     DEF SettleOrphan, FinalizeRenderStateRead, FenceQueue,
         DeletionFinalizesCredits
<1>5. ASSUME NEW d \in Dispatchers, DispatcherReads(d) PROVE UNCHANGED job
  BY <1>5, DispatcherFrame
<1> QED BY <1>1, <1>2, <1>3, <1>4, <1>5, NextSteps, RetryFrame
        DEF CronStep, QueueStep, WorkerStep

\* The actions that may change the operation.
LEMMA OperationWriters ==
  ASSUME Next
  PROVE  \/ UNCHANGED op
         \/ \E s \in Settlers : FinalizeCreditsSettle(s)
         \/ SettleOrphan \/ DeletionFinalizesCredits
         \/ \E d \in Dispatchers :
              RetryJob(d) \/ \E c \in Clips : RetryClip(c, d)
<1>1. ASSUME NEW w \in Workers,
             \/ WorkerStep(w) \/ Crash(w) \/ LoseLock(w)
             \/ \E c \in Clips : Take(w, c)
      PROVE  UNCHANGED op
  BY <1>1 DEF WorkerStep, ClaimExecution, ReadClip, StartAttempt, RecoverOutput,
     Transition, Upload, Complete, Abort, Error, ReadAfterError, ResetClip,
     ReleaseExecution, EndEntry, Crash, LoseLock, Take, others
<1>2. ASSUME NEW c \in Clips,
             Stalled(c) \/ Doubt(c) \/ RemoveEntry(c) \/ DeleteEntry(c)
      PROVE  UNCHANGED op
  BY <1>2 DEF Stalled, Doubt, RemoveEntry, DeleteEntry, others
<1>3. ASSUME NEW s \in Settlers, FinalizeCreditsRead(s) PROVE UNCHANGED op
  BY <1>3 DEF FinalizeCreditsRead
<1>4. ASSUME NEW t \in Tokens, RecoverExecutionLease(t) PROVE UNCHANGED op
  BY <1>4 DEF RecoverExecutionLease
<1>5. FailUnfinishedClip \/ FinalizeRenderStateRead \/ FinalizeRenderState
      \/ FenceQueue \/ FinalizeCancellation \/ CancelJob \/ AcknowledgeShutdown
      \/ DeletionReads \/ DeleteClip \/ DeleteJobClaim \/ DeleteJob
        => UNCHANGED op
  BY DeletionFrame
     DEF FailUnfinishedClip, FinalizeRenderStateRead, FinalizeRenderState,
         FenceQueue, FinalizeCancellation, CancelJob, AcknowledgeShutdown,
         DeleteClip, DeleteJobClaim, DeleteJob
<1>6. ASSUME NEW d \in Dispatchers, DispatcherReads(d) \/ DispatcherWrites(d)
      PROVE  UNCHANGED op
  BY <1>6, DispatcherFrame
<1> QED BY <1>1, <1>2, <1>3, <1>4, <1>5, <1>6, NextSteps, RetryFrame
        DEF CronStep, QueueStep

\* What a step may do to the job as a whole.
JobChange ==
  /\ job'.exists => job.exists
  /\ job.deletionRequested => job'.deletionRequested
  /\ \/ job'.status = job.status
     \/ job'.status \in {"CUTTING_CLIPS", "CANCELLING", "CANCELLED"}
     \/ FinalizeRenderState /\ job'.status = review /\ job'.clips = job.clips

LEMMA JobChanges ==
  ASSUME TypeOK, Next
  PROVE  JobChange
<1>1. job \in Job /\ \A j : Write(j) => job' = j
  BY DEF TypeOK, Write
<1>2. CASE UNCHANGED job
  BY <1>2 DEF JobChange
<1>3. ASSUME NEW d \in Dispatchers, DispatcherWrites(d) PROVE JobChange
  BY <1>1, <1>3 DEF Job, DispatcherWrites, DispatchClaim, DispatchClear,
     DispatchEnd, DispatchCrash, JobChange
<1>4. ASSUME NEW d \in Dispatchers, RetryJob(d) PROVE JobChange
  BY <1>1, <1>4 DEF Job, RetryJob, JobChange
<1>5. ASSUME NEW d \in Dispatchers, NEW c \in Clips, RetryClip(c, d)
      PROVE  JobChange
  BY <1>1, <1>5 DEF Job, RetryClip, JobChange
<1>6. ASSUME NEW w \in Workers,
             ClaimExecution(w) \/ ReleaseExecution(w) \/ Crash(w)
      PROVE  JobChange
  BY <1>1, <1>6 DEF Job, ClaimExecution, ReleaseExecution, Crash, JobChange
<1>7. ASSUME NEW w \in Workers,
             RecoverOutput(w) \/ Transition(w) \/ Complete(w) \/ ResetClip(w)
      PROVE  JobChange
  BY <1>1, <1>7
     DEF Job, RecoverOutput, Transition, Complete, ResetClip, CompletedBy,
         JobChange
<1>8. CASE FailUnfinishedClip
  BY <1>1, <1>8 DEF Job, FailUnfinishedClip, JobChange
<1>9. CASE FinalizeRenderState
  BY <1>1, <1>9 DEF Job, FinalizeRenderState, JobChange
<1>10. CASE CancelJob \/ FinalizeCancellation
  BY <1>1, <1>10 DEF Job, CancelJob, FinalizeCancellation, JobChange
<1>11. CASE AcknowledgeShutdown \/ \E t \in Tokens : RecoverExecutionLease(t)
  BY <1>1, <1>11 DEF Job, AcknowledgeShutdown, RecoverExecutionLease, JobChange
<1>12. CASE DeleteClip \/ DeleteJobClaim \/ DeleteJob
  BY <1>1, <1>12 DEF Job, DeleteClip, DeleteJobClaim, DeleteJob, JobChange
<1> QED BY <1>2, <1>3, <1>4, <1>5, <1>6, <1>7, <1>8, <1>9, <1>10, <1>11, <1>12,
           JobWriters

-----------------------------------------------------------------------------
(* Deletion, and every step *)

LEMMA DeletionWriters ==
  ASSUME Next
  PROVE  \/ UNCHANGED deletion
         \/ DeletionReads \/ DeletionFinalizesCredits \/ DeleteJobClaim
         \/ DeleteClip \/ DeleteJob
<1>1. ASSUME NEW w \in Workers,
             \/ WorkerStep(w) \/ Crash(w) \/ LoseLock(w)
             \/ \E c \in Clips : Take(w, c)
      PROVE  UNCHANGED deletion
  BY <1>1 DEF WorkerStep, ClaimExecution, ReadClip, StartAttempt, RecoverOutput,
     Transition, Upload, Complete, Abort, Error, ReadAfterError, ResetClip,
     ReleaseExecution, EndEntry, Crash, LoseLock, Take, others
<1>2. ASSUME NEW c \in Clips,
             Stalled(c) \/ Doubt(c) \/ RemoveEntry(c) \/ DeleteEntry(c)
      PROVE  UNCHANGED deletion
  BY <1>2 DEF Stalled, Doubt, RemoveEntry, DeleteEntry, others, calls
<1>3. ASSUME NEW s \in Settlers, FinalizeCreditsRead(s) \/ FinalizeCreditsSettle(s)
      PROVE  UNCHANGED deletion
  BY <1>3 DEF FinalizeCreditsRead, FinalizeCreditsSettle
<1>4. ASSUME NEW t \in Tokens, RecoverExecutionLease(t) PROVE UNCHANGED deletion
  BY <1>4 DEF RecoverExecutionLease, calls
<1>5. FailUnfinishedClip \/ FinalizeRenderStateRead \/ FinalizeRenderState
      \/ FenceQueue \/ FinalizeCancellation \/ CancelJob \/ AcknowledgeShutdown
      \/ SettleOrphan
        => UNCHANGED deletion
  BY DEF FailUnfinishedClip, FinalizeRenderStateRead, FinalizeRenderState,
     FenceQueue, FinalizeCancellation, CancelJob, AcknowledgeShutdown,
     SettleOrphan, calls
<1>6. ASSUME NEW d \in Dispatchers,
             DispatcherReads(d) \/ DispatcherWrites(d) \/ Retries(d)
      PROVE  UNCHANGED deletion
  BY <1>6, DispatcherFrame, RetryFrame
<1> QED BY <1>1, <1>2, <1>3, <1>4, <1>5, <1>6, NextSteps
        DEF CronStep, QueueStep

LEMMA FencesKept ==
  ASSUME TypeOK, DeletionFences, [Next]_vars
  PROVE  DeletionFences'
<1>1. CASE UNCHANGED vars
  BY <1>1 DEF vars, DeletionFences
<1>2. CASE Next
  <2>1. job.deletionRequested => job'.deletionRequested
    BY <1>2, JobChanges DEF JobChange
  <2>2. deletion \in DeletionSet
    BY DEF TypeOK, DeletionSet
  <2>3. CASE UNCHANGED deletion
    BY <2>1, <2>3 DEF DeletionFences
  <2>4. CASE DeletionReads
    BY <2>1, <2>2, <2>4
       DEF DeletionReads, DeleteClipRead, DeleteJobRead, DeletionChecksQueue,
           DeleteEntries, DeleteObjects, DeletionEnds, NoDeletion,
           DeletionFences, DeletionSet
  <2>5. CASE DeletionFinalizesCredits
    BY <2>2, <2>5 DEF DeletionFinalizesCredits, DeletionFences, DeletionSet
  <2>6. CASE DeleteJobClaim
    <3>1. job'.deletionRequested
      BY <2>6 DEF DeleteJobClaim, Write, TypeOK, Job
    <3> QED BY <3>1 DEF DeletionFences
  <2>7. CASE DeleteClip \/ DeleteJob
    BY <2>7 DEF DeleteClip, DeleteJob, NoDeletion, DeletionFences
  <2> QED BY <1>2, <2>3, <2>4, <2>5, <2>6, <2>7, DeletionWriters
<1> QED BY <1>1, <1>2

LEMMA JobDeleted ==
  ASSUME JobInv, DeletionFences, DeleteJob
  PROVE  JobInv'
<1>1. TypeOK /\ JobFenced /\ job \in Job
      /\ UNCHANGED <<op, queue, stored, restarted, worker, dispatch, doubts,
                     settlement, fenced>>
      /\ deletion' = NoDeletion
  BY DEF JobInv, TypeOK, DeleteJob, kept
<1>2. job' = [job EXCEPT !.exists = FALSE]
      /\ review' \in {"none", "COMPLETED", "FAILED"}
  BY <1>1, WriteReviews DEF DeleteJob
<1>3. job' \in Job /\ JobFenced'
  BY <1>1, <1>2 DEF Job, JobFenced
<1>4. TypeOK'
  BY <1>1, <1>2, <1>3 DEF TypeOK, NoDeletion, Steps, Terminal
<1>5. WorkersHaveClips'
  BY <1>1 DEF JobInv, WorkersHaveClips
<1>6. job.executions = {}
  BY <1>1 DEF DeleteJob, DeletionFences, JobFenced
<1>7. Running' = {}
  BY <1>1, <1>6 DEF Running, JobInv, TokensHeld
<1> QED BY <1>3, <1>4, <1>5, <1>7, NobodyStarts

LEMMA JobNext ==
  ASSUME JobInv, DeletionFences, [Next]_vars
  PROVE  JobInv'
<1>1. CASE UNCHANGED vars
  <2>1. TypeOK'
    BY <1>1 DEF JobInv, TypeOK, vars
  <2> QED BY <1>1, <2>1, StepsAside DEF vars
<1>2. ASSUME NEW d \in Dispatchers,
             DispatcherReads(d) \/ DispatcherWrites(d) \/ Retries(d)
      PROVE  JobInv'
  BY <1>2, DispatcherKeeps, RetriesKeep
<1>3. CASE CronStep
  BY <1>3, SettlementSteps, ReadingSteps, UnfinishedClipFails, OutcomeWritten,
     QueueKeeps, CancellationConfirmed, TokensReturn DEF CronStep
<1>4. CASE \/ CancelJob \/ AcknowledgeShutdown \/ DeletionReads
           \/ DeletionFinalizesCredits \/ DeleteJobClaim \/ DeleteClip
           \/ DeleteJob \/ \E c \in Clips : DeleteEntry(c)
  BY <1>4, CancellationStarts, TokensReturn, ReadingSteps, SettlementSteps,
     DeletionsWrite, JobDeleted, QueueKeeps
<1>5. ASSUME NEW w \in Workers, WorkerStep(w) \/ Crash(w) \/ LoseLock(w)
      PROVE  JobInv'
  BY <1>5, WorkersClaim, WorkersMove, WorkersWriteClips, WorkersCrash, QueueKeeps
     DEF WorkerStep
<1>6. CASE QueueStep
  BY <1>6, QueueKeeps DEF QueueStep
<1> QED BY <1>1, <1>2, <1>3, <1>4, <1>5, <1>6, NextSteps

LEMMA JobStarts ==
  ASSUME Init
  PROVE  JobInv /\ DeletionFences
<1> DEFINE first == [c \in Clips |-> [status |-> "PENDING",
                                      retryRequested |-> FALSE, retryCount |-> 0]]
<1>1. first \in [Clips -> Clip]
  BY ParametersAssumption DEF Clip
<1>2. job = [exists |-> TRUE, status |-> "CUTTING_CLIPS",
             cancellationRequested |-> FALSE, deletionRequested |-> FALSE,
             renderRetryRequested |-> FALSE, executions |-> {}, clips |-> first]
  BY DEF Init
<1> HIDE DEF first
<1>3. job \in Job /\ JobFenced
  BY <1>1, <1>2 DEF Job, JobFenced
<1>4. op \in Operation
  BY ParametersAssumption DEF Init, Operation
<1>5. dispatch \in DispatchSet
  <2>1. NoDispatch \in DispatchState
    BY ParametersAssumption DEF NoDispatch, DispatchState, Phases
  <2> QED BY <2>1 DEF Init, DispatchSet
<1>6. worker \in [Workers -> WorkerSet]
  BY ParametersAssumption DEF Init, NoClip, WorkerSet, Places
<1>7. TypeOK
  <2>1. queue \in [Clips -> Entries]
    BY DEF Init, Entries
  <2>2. /\ stored \subseteq Clips /\ restarted \subseteq Clips /\ fenced \in BOOLEAN
        /\ review \in {"none", "COMPLETED", "FAILED"}
        /\ doubts \subseteq DoubtSet
    BY DEF Init
  <2>3. settlement \in [Settlers ->
          [due : BOOLEAN, deliveredOutputs : SUBSET Clips, charge : Nat]]
    BY DEF Init, NoSettlement
  <2>4. deletion \in DeletionSet
    BY DEF Init, NoDeletion, DeletionSet, Steps, Terminal
  <2> QED BY <1>3, <1>4, <1>5, <1>6, <2>1, <2>2, <2>3, <2>4
          DEF TypeOK, DispatchSet, DispatchState, DoubtSet, DeletionSet, WorkerSet
<1>8. WorkersHaveClips /\ TokensHeld /\ DeletionFences
  BY DEF Init, WorkersHaveClips, TokensHeld, Running, Executing, NoClip,
     NoDeletion, DeletionFences
<1> QED BY <1>3, <1>7, <1>8 DEF JobInv

-----------------------------------------------------------------------------
(* What the invariant is for *)

\* The writes that are let through while a cancellation is pending.
LEMMA CancelledJobWritten ==
  ASSUME TypeOK, Next, job.cancellationRequested
  PROVE  job'.cancellationRequested /\ job'.status \in {job.status, "CANCELLED"}
<1> DEFINE Goal == /\ job'.cancellationRequested
                   /\ job'.status \in {job.status, "CANCELLED"}
<1>1. job \in Job /\ \A j : Write(j) => job' = j
  BY DEF TypeOK, Write
<1>2. CASE UNCHANGED job
  BY <1>2
<1>3. ASSUME NEW d \in Dispatchers, DispatcherWrites(d) PROVE Goal
  BY <1>1, <1>3 DEF Job, DispatcherWrites, DispatchClaim, DispatchClear,
     DispatchEnd, DispatchCrash
<1>4. ASSUME NEW d \in Dispatchers,
             RetryJob(d) \/ \E c \in Clips : RetryClip(c, d)
      PROVE  FALSE
  BY <1>4 DEF RetryJob, RetryClip, Open
<1>5. ASSUME NEW w \in Workers,
             ClaimExecution(w) \/ ReleaseExecution(w) \/ Crash(w)
      PROVE  Goal
  BY <1>1, <1>5 DEF Job, ClaimExecution, ReleaseExecution, Crash
<1>6. ASSUME NEW w \in Workers,
             RecoverOutput(w) \/ Transition(w) \/ Complete(w) \/ ResetClip(w)
      PROVE  Goal
  BY <1>1, <1>6
     DEF Job, RecoverOutput, Transition, Complete, ResetClip, CompletedBy, Open
<1>7. CASE FailUnfinishedClip \/ FinalizeRenderState
  BY <1>1, <1>7 DEF Job, FailUnfinishedClip, FinalizeRenderState, MayFail, Open
<1>8. ~CancelJob
  BY DEF CancelJob, Open
<1>9. CASE FinalizeCancellation
  <2>1. CASE MayConfirm
    BY <1>1, <1>9, <2>1 DEF Job, FinalizeCancellation
  <2>2. CASE ~MayConfirm
    BY <1>1, <1>9, <2>2 DEF FinalizeCancellation
  <2> QED BY <2>1, <2>2
<1>10. CASE AcknowledgeShutdown \/ \E t \in Tokens : RecoverExecutionLease(t)
  BY <1>1, <1>10 DEF Job, AcknowledgeShutdown, RecoverExecutionLease
<1>11. CASE DeleteClip \/ DeleteJobClaim \/ DeleteJob
  BY <1>1, <1>11 DEF Job, DeleteClip, DeleteJobClaim, DeleteJob
<1> QED BY <1>2, <1>3, <1>4, <1>5, <1>6, <1>7, <1>8, <1>9, <1>10, <1>11,
           JobWriters

\* An operation is settled only through the gate of settle.
LEMMA SettledThroughGate ==
  ASSUME TypeOK, Next, op.status = "reserved", op'.status = "settled"
  PROVE  MaySettle
<1>1. op' # op
  OBVIOUS
<1>2. \A charge, outputs : op' = Settled(charge, outputs) => MaySettle
  BY <1>1 DEF Settled
<1>3. ASSUME NEW s \in Settlers, FinalizeCreditsSettle(s) PROVE MaySettle
  BY <1>2, <1>3 DEF FinalizeCreditsSettle
<1>4. CASE SettleOrphan \/ DeletionFinalizesCredits
  BY <1>1, <1>2, <1>4 DEF SettleOrphan, DeletionFinalizesCredits
<1>5. ASSUME NEW d \in Dispatchers,
             RetryJob(d) \/ \E c \in Clips : RetryClip(c, d)
      PROVE  op' = op
  BY <1>5 DEF RetryJob, RetryClip, Reopened
<1> QED BY <1>1, <1>3, <1>4, <1>5, OperationWriters

LEMMA QuietWithoutTokens ==
  ASSUME JobInv, job.exists => job.executions = {}
  PROVE  Running = {}
BY DEF JobInv, TokensHeld

\* The invariant holds of every instance, whatever fairness is assumed.
THEOREM Invariance == Spec => []JobInv
<1>1. JobInv /\ DeletionFences /\ [Next]_vars => (JobInv /\ DeletionFences)'
  BY JobNext, FencesKept DEF JobInv
<1> QED BY JobStarts, <1>1, PTL DEF Spec

\* Every document, queue entry and process of the render stage keeps its shape.
THEOREM TypeCorrect == Spec => []TypeOK
<1>1. JobInv => TypeOK
  BY DEF JobInv
<1> QED BY <1>1, Invariance, PTL

\* finalizeCancellation leaves nothing running and no clip to run, and the
\* claim of deleteJob nothing running, wherever workers and dispatchers crashed
\* or stalled before, and however far the deletion came.
THEOREM StoppedJobsAreQuiet == Spec => []StoppedIsQuiet
<1>1. JobInv => StoppedIsQuiet
  BY QuietWithoutTokens DEF JobInv, JobFenced, StoppedIsQuiet, Ended
<1> QED BY <1>1, Invariance, PTL

\* No retry, late outcome or completion revives a job once cancelJob has fenced
\* it.
THEOREM CancellationsAreFinal == Spec => CancellationIsFinal
<1>1. JobInv /\ [Next]_vars
        => [job.cancellationRequested /\ job'.exists =>
              /\ job'.cancellationRequested
              /\ job'.status \in {job.status, "CANCELLED"}]_vars
  BY CancelledJobWritten DEF JobInv
<1> QED BY <1>1, Invariance, PTL DEF Spec, CancellationIsFinal

\* settle releases the hold of a job only when its work has ended, although
\* every caller read the job some time before.
THEOREM HoldsReleasedWhenQuiet == Spec => SettledWhenQuiet
<1>1. JobInv /\ [Next]_vars
        => [op.status = "reserved" /\ op'.status = "settled" =>
              /\ Running = {}
              /\ job.exists => job.status \in Terminal]_vars
  <2> SUFFICES ASSUME JobInv, Next, op.status = "reserved",
                      op'.status = "settled"
               PROVE  Running = {} /\ (job.exists => job.status \in Terminal)
    OBVIOUS
  <2>1. MaySettle
    BY SettledThroughGate DEF JobInv
  <2> QED BY <2>1, QuietWithoutTokens DEF MaySettle
<1> QED BY <1>1, Invariance, PTL DEF Spec, SettledWhenQuiet

-----------------------------------------------------------------------------
(* What a step does to one clip and to one queue entry *)

StatusSet(c, status) ==
  /\ job'.clips[c].status = status
  /\ job'.clips[c].retryRequested = job.clips[c].retryRequested
  /\ job'.clips[c].retryCount = job.clips[c].retryCount

Completes(w, c) == (RecoverOutput(w) \/ Complete(w)) /\ worker[w].clip = c
Restarts(w, c) == (Transition(w) \/ ResetClip(w)) /\ worker[w].clip = c

\* All that may happen to a clip.
ClipChange(c) ==
  \/ job'.clips[c] = job.clips[c]
  \/ \E w \in Workers : Completes(w, c) /\ StatusSet(c, "COMPLETED")
                          /\ job.clips[c].status # "gone"
  \/ \E w \in Workers : /\ Restarts(w, c) /\ Open
                        /\ job.clips[c].status # "gone"
                        /\ \E status \in {"CUTTING_CLIPS", "PENDING"} :
                             StatusSet(c, status)
  \/ /\ job.clips[c].status \notin {"COMPLETED", "gone"}
     /\ StatusSet(c, "FAILED")
  \/ job.clips[c].status = "FAILED" /\ job'.clips[c].status = "PENDING"
  \/ job'.clips[c].status = job.clips[c].status
  \/ /\ job.clips[c].status \notin {"COMPLETED", "FAILED", "gone"}
     /\ job'.clips[c].status = "CANCELLED"
  \/ DeleteClip /\ job'.clips[c].status = "gone"

LEMMA ClipChanges ==
  ASSUME JobInv, Next, NEW c \in Clips
  PROVE  ClipChange(c)
<1>1. TypeOK /\ job \in Job /\ job.clips \in [Clips -> Clip] /\ WorkersHaveClips
  BY DEF JobInv, TypeOK, Job
<1>2. \A j : Write(j) => job' = j
  BY DEF Write
<1>3. \/ UNCHANGED job.clips
      \/ \E d \in Dispatchers :
           DispatchClear(d) \/ RetryJob(d) \/ \E e \in Clips : RetryClip(e, d)
      \/ \E w \in Workers :
           RecoverOutput(w) \/ Transition(w) \/ Complete(w) \/ ResetClip(w)
      \/ FailUnfinishedClip \/ CancelJob \/ FinalizeCancellation \/ DeleteClip
  <2>1. FinalizeRenderState \/ AcknowledgeShutdown \/ DeleteJobClaim
        \/ DeleteJob
          => UNCHANGED job.clips
    BY <1>1, <1>2 DEF Job, FinalizeRenderState, AcknowledgeShutdown,
       DeleteJobClaim, DeleteJob
  <2>2. ASSUME NEW w \in Workers,
               ClaimExecution(w) \/ ReleaseExecution(w) \/ Crash(w)
        PROVE  UNCHANGED job.clips
    BY <1>1, <1>2, <2>2 DEF Job, ClaimExecution, ReleaseExecution, Crash
  <2>3. ASSUME NEW t \in Tokens, RecoverExecutionLease(t)
        PROVE  UNCHANGED job.clips
    BY <1>1, <1>2, <2>3 DEF Job, RecoverExecutionLease
  <2>4. ASSUME NEW d \in Dispatchers,
               DispatchClaim(d) \/ DispatchEnd(d) \/ DispatchCrash(d)
        PROVE  UNCHANGED job.clips
    BY <1>1, <1>2, <2>4 DEF Job, DispatchClaim, DispatchEnd, DispatchCrash
  <2> QED BY <2>1, <2>2, <2>3, <2>4, JobWriters DEF DispatcherWrites
<1>4. CASE UNCHANGED job.clips
  BY <1>4 DEF ClipChange
<1>5. ASSUME NEW d \in Dispatchers, DispatchClear(d) PROVE ClipChange(c)
  <2> DEFINE e == dispatch[d].clip
             clip == [job.clips[e] EXCEPT !.retryRequested = FALSE]
             clips == [job.clips EXCEPT ![e] = clip]
  <2>1. job' = job \/ job' = [job EXCEPT !.clips = clips]
    BY <1>2, <1>5 DEF DispatchClear
  <2>2. job.clips[c] \in Clip
    BY <1>1
  <2>3. clips[c].status = job.clips[c].status
    BY <1>1, <2>2 DEF Clip
  <2> HIDE DEF clips
  <2>4. job' = job \/ job'.clips = clips
    BY <1>1, <2>1 DEF Job
  <2> QED BY <2>3, <2>4 DEF ClipChange
<1>6. ASSUME NEW d \in Dispatchers, NEW e \in Clips, RetryClip(e, d)
      PROVE  ClipChange(c)
  <2> DEFINE clip == [status |-> "PENDING", retryRequested |-> TRUE,
                      retryCount |-> job.clips[e].retryCount + 1]
             clips == [job.clips EXCEPT ![e] = clip]
  <2>1. job' = [job EXCEPT !.status = "CUTTING_CLIPS", !.clips = clips]
        /\ job.clips[e].status = "FAILED"
    BY <1>2, <1>6 DEF RetryClip
  <2>2. clip.status = "PENDING"
    OBVIOUS
  <2> HIDE DEF clip
  <2>3. job'.clips = clips
    <3> HIDE DEF clips
    <3> QED BY <1>1, <2>1 DEF Job
  <2> QED BY <1>1, <2>1, <2>2, <2>3 DEF ClipChange
<1>7. ASSUME NEW w \in Workers, RecoverOutput(w) \/ Complete(w)
      PROVE  ClipChange(c)
  <2> DEFINE d == worker[w].clip
  <2>1. d \in Clips
    BY <1>1, <1>7 DEF WorkersHaveClips, RecoverOutput, Complete
  <2>2. \/ job' = job
        \/ job' = [job EXCEPT !.clips[d].status = "COMPLETED"]
             /\ job.clips[d].status # "gone"
    BY <1>2, <1>7 DEF RecoverOutput, Complete, CompletedBy, MayComplete, Present
  <2>3. CASE job' = job
    BY <2>3 DEF ClipChange
  <2>4. CASE job' = [job EXCEPT !.clips[d].status = "COMPLETED"]
             /\ job.clips[d].status # "gone"
    <3>1. Completes(w, d)
      BY <1>7 DEF Completes
    <3> HIDE DEF d
    <3>2. PICK clip \in Clip :
            /\ clip.status = "COMPLETED"
            /\ clip.retryRequested = job.clips[d].retryRequested
            /\ clip.retryCount = job.clips[d].retryCount
            /\ ClipWritten(d, clip)
      BY <1>1, <2>1, <2>4, ClipStatusWrite
    <3>3. c # d => job'.clips[c] = job.clips[c]
      BY <1>1, <2>1, <3>2 DEF ClipWritten
    <3>4. c = d => StatusSet(c, "COMPLETED")
      BY <1>1, <2>1, <3>2 DEF ClipWritten, StatusSet
    <3> QED BY <2>4, <3>1, <3>3, <3>4 DEF ClipChange
  <2> QED BY <2>2, <2>3, <2>4
<1>8. ASSUME NEW w \in Workers, Transition(w) \/ ResetClip(w)
      PROVE  ClipChange(c)
  <2> DEFINE d == worker[w].clip
  <2>1. d \in Clips
    BY <1>1, <1>8 DEF WorkersHaveClips, Transition, ResetClip
  <2>2. \/ job' = job
        \/ \E status \in {"CUTTING_CLIPS", "PENDING"} :
             /\ job' = [job EXCEPT !.clips[d].status = status]
             /\ Open /\ job.clips[d].status # "gone"
    BY <1>2, <1>8 DEF Transition, ResetClip, Present
  <2>3. CASE job' = job
    BY <2>3 DEF ClipChange
  <2>4. ASSUME NEW status \in {"CUTTING_CLIPS", "PENDING"},
               job' = [job EXCEPT !.clips[d].status = status],
               Open, job.clips[d].status # "gone"
        PROVE  ClipChange(c)
    <3>1. Restarts(w, d)
      BY <1>8 DEF Restarts
    <3> HIDE DEF d
    <3>2. PICK clip \in Clip :
            /\ clip.status = status
            /\ clip.retryRequested = job.clips[d].retryRequested
            /\ clip.retryCount = job.clips[d].retryCount
            /\ ClipWritten(d, clip)
      <4>1. status \in {"PENDING", "CUTTING_CLIPS", "COMPLETED", "FAILED"}
        OBVIOUS
      <4>2. job' = [job EXCEPT !.clips[d].status = status]
        BY <2>4
      <4> QED BY <1>1, <2>1, <4>1, <4>2, ClipStatusWrite
    <3>3. c # d => job'.clips[c] = job.clips[c]
      BY <1>1, <2>1, <3>2 DEF ClipWritten
    <3>4. c = d => StatusSet(c, status)
      BY <1>1, <2>1, <3>2 DEF ClipWritten, StatusSet
    <3> QED BY <2>4, <3>1, <3>3, <3>4 DEF ClipChange
  <2> QED BY <2>2, <2>3, <2>4
<1>9. CASE FailUnfinishedClip
  <2>1. PICK d \in Clips :
          /\ job.clips[d].status \notin {"COMPLETED", "gone"}
          /\ job' = [job EXCEPT !.clips[d].status = "FAILED"]
    BY <1>1, <1>2, <1>9 DEF FailUnfinishedClip, MayFail, TypeOK
  <2>2. PICK clip \in Clip :
          /\ clip.status = "FAILED"
          /\ clip.retryRequested = job.clips[d].retryRequested
          /\ clip.retryCount = job.clips[d].retryCount
          /\ ClipWritten(d, clip)
    BY <1>1, <2>1, ClipStatusWrite
  <2>3. c # d => job'.clips[c] = job.clips[c]
    BY <1>1, <2>1, <2>2 DEF ClipWritten
  <2>4. c = d => StatusSet(c, "FAILED")
    BY <1>1, <2>1, <2>2 DEF ClipWritten, StatusSet
  <2> QED BY <2>1, <2>3, <2>4 DEF ClipChange
<1>10. ASSUME NEW r \in Dispatchers, RetryJob(r) PROVE ClipChange(c)
  <2> DEFINE clips == [d \in Clips |->
                 IF job.clips[d].status = "FAILED"
                 THEN [job.clips[d] EXCEPT !.status = "PENDING"]
                 ELSE job.clips[d]]
  <2>1. job' = [job EXCEPT !.status = "CUTTING_CLIPS",
                           !.renderRetryRequested = TRUE, !.clips = clips]
    BY <1>2, <1>10 DEF RetryJob
  <2>2. job'.clips[c] = clips[c]
    <3> HIDE DEF clips
    <3> QED BY <1>1, <2>1 DEF Job
  <2>3. job.clips[c] \in Clip
    BY <1>1
  <2>4. CASE job.clips[c].status = "FAILED"
    <3>1. job'.clips[c].status = "PENDING"
      BY <2>2, <2>3, <2>4 DEF Clip
    <3> QED BY <2>4, <3>1 DEF ClipChange
  <2>5. CASE job.clips[c].status # "FAILED"
    BY <2>2, <2>5 DEF ClipChange
  <2> QED BY <2>4, <2>5
<1>11. CASE CancelJob
  <2> DEFINE clips == [d \in Clips |->
                         [job.clips[d] EXCEPT !.retryRequested = FALSE]]
  <2>1. job' = [job EXCEPT !.status = "CANCELLING",
                           !.cancellationRequested = TRUE,
                           !.renderRetryRequested = FALSE, !.clips = clips]
    BY <1>2, <1>11 DEF CancelJob
  <2>2. job'.clips[c] = clips[c]
    <3> HIDE DEF clips
    <3> QED BY <1>1, <2>1 DEF Job
  <2>3. clips[c].status = job.clips[c].status
    BY <1>1 DEF Clip
  <2> QED BY <2>2, <2>3 DEF ClipChange
<1>12. CASE FinalizeCancellation
  <2> DEFINE clips == [d \in Clips |->
                IF job.clips[d].status \in {"COMPLETED", "FAILED", "gone"}
                THEN job.clips[d]
                ELSE [job.clips[d] EXCEPT !.status = "CANCELLED",
                                          !.retryRequested = FALSE]]
  <2>1. CASE MayConfirm
    <3>1. job' = [job EXCEPT !.status = "CANCELLED", !.clips = clips]
      BY <1>2, <1>12, <2>1 DEF FinalizeCancellation
    <3>2. job'.clips[c] = clips[c]
      <4> HIDE DEF clips
      <4> QED BY <1>1, <3>1 DEF Job
    <3>3. clips[c].status = "CANCELLED" \/ clips[c] = job.clips[c]
      BY <1>1 DEF Clip
    <3> QED BY <1>12, <2>1, <3>2, <3>3 DEF ClipChange
  <2>2. CASE ~MayConfirm
    BY <1>2, <1>12, <2>2 DEF FinalizeCancellation, ClipChange
  <2> QED BY <2>1, <2>2
<1>13. CASE DeleteClip
  <2> DEFINE gone == [status |-> "gone", retryRequested |-> FALSE,
                      retryCount |-> 0]
             clips == [job.clips EXCEPT ![deletion.clip] = gone]
  <2>1. job' = job \/ job' = [job EXCEPT !.clips = clips]
    BY <1>2, <1>13 DEF DeleteClip
  <2>2. gone.status = "gone"
    OBVIOUS
  <2> HIDE DEF gone
  <2>3. job' = job \/ job'.clips = clips
    <3> HIDE DEF clips
    <3> QED BY <1>1, <2>1 DEF Job
  <2> QED BY <1>1, <1>13, <2>2, <2>3 DEF ClipChange
<1> QED BY <1>3, <1>4, <1>5, <1>6, <1>7, <1>8, <1>9, <1>10, <1>11, <1>12, <1>13

\* All that may happen to a queue entry.
EntryChange(c) ==
  \/ queue'[c] = queue[c]
  \/ \E d \in Dispatchers :
       DispatchSend(d) /\ queue[c] \in {"none", "completed", "failed"}
  \/ \E w \in Workers : Take(w, c) /\ queue[c] = "waiting"
  \/ \E w \in Workers :
       queue[c] = w /\ (EndEntry(w) \/ Crash(w) \/ LoseLock(w))
  \/ Stalled(c) /\ queue[c] = "orphaned"
  \/ Stoppable
  \/ DeleteEntry(c)

LEMMA EntryChanges ==
  ASSUME JobInv, Next, NEW c \in Clips
  PROVE  EntryChange(c)
<1>1. queue \in [Clips -> Entries]
  BY DEF JobInv, TypeOK
<1>2. ASSUME NEW w \in Workers,
             \/ ClaimExecution(w) \/ ReadClip(w) \/ StartAttempt(w)
             \/ RecoverOutput(w) \/ Transition(w) \/ Upload(w) \/ Complete(w)
             \/ Abort(w) \/ Error(w) \/ ReadAfterError(w) \/ ResetClip(w)
             \/ ReleaseExecution(w)
      PROVE  UNCHANGED queue
  BY <1>2 DEF ClaimExecution, ReadClip, StartAttempt, RecoverOutput, Transition,
     Upload, Complete, Abort, Error, ReadAfterError, ResetClip, ReleaseExecution
<1>3. ASSUME NEW w \in Workers, EndEntry(w) \/ Crash(w) \/ LoseLock(w)
      PROVE  EntryChange(c)
  BY <1>1, <1>3 DEF EndEntry, Crash, LoseLock, EntryChange
<1>4. ASSUME NEW w \in Workers, NEW d \in Clips, Take(w, d)
      PROVE  EntryChange(c)
  BY <1>1, <1>4 DEF Take, EntryChange
<1>5. ASSUME NEW d \in Dispatchers, DispatchSend(d) PROVE EntryChange(c)
  BY <1>1, <1>5 DEF DispatchSend, EntryChange
<1>6. ASSUME NEW d \in Clips, Stalled(d) PROVE EntryChange(c)
  BY <1>1, <1>6 DEF Stalled, EntryChange
<1>7. ASSUME NEW d \in Clips, RemoveEntry(d) PROVE EntryChange(c)
  BY <1>7 DEF RemoveEntry, EntryChange
<1>8. CASE FenceQueue
  BY <1>8 DEF FenceQueue, EntryChange
<1>9. ASSUME NEW d \in Clips, DeleteEntry(d) PROVE EntryChange(c)
  BY <1>1, <1>9 DEF DeleteEntry, EntryChange
<1>10. ASSUME NEW s \in Settlers, FinalizeCreditsRead(s) \/ FinalizeCreditsSettle(s)
       PROVE  UNCHANGED queue
  BY <1>10 DEF FinalizeCreditsRead, FinalizeCreditsSettle
<1>11. ASSUME NEW t \in Tokens, RecoverExecutionLease(t) PROVE UNCHANGED queue
  BY <1>11 DEF RecoverExecutionLease
<1>12. SettleOrphan \/ FailUnfinishedClip \/ FinalizeRenderStateRead
       \/ FinalizeRenderState \/ FinalizeCancellation \/ CancelJob
       \/ AcknowledgeShutdown \/ DeletionReads \/ DeletionFinalizesCredits
       \/ DeleteClip \/ DeleteJobClaim \/ DeleteJob
         => UNCHANGED queue
  BY DeletionFrame
     DEF SettleOrphan, FailUnfinishedClip, FinalizeRenderStateRead,
         FinalizeRenderState, FinalizeCancellation, CancelJob,
         AcknowledgeShutdown, DeletionFinalizesCredits, DeleteClip,
         DeleteJobClaim, DeleteJob
<1>13. ASSUME NEW d \in Clips, Doubt(d) PROVE UNCHANGED queue
  BY <1>13 DEF Doubt
<1>14. ASSUME NEW d \in Dispatchers, ~DispatchSend(d),
              DispatcherReads(d) \/ DispatcherWrites(d) \/ Retries(d)
       PROVE  UNCHANGED queue
  BY <1>14, DispatcherFrame, RetryFrame
     DEF DispatcherReads, DispatchRead, DispatchGivesUp, DispatchCheck
<1>15. UNCHANGED queue => EntryChange(c)
  BY DEF EntryChange
<1> QED BY <1>2, <1>3, <1>4, <1>5, <1>6, <1>7, <1>8, <1>9, <1>10, <1>11, <1>12,
           <1>13, <1>14, <1>15, NextSteps
        DEF CronStep, QueueStep, WorkerStep

\* The places where a worker takes its clip not to be durable yet.
Working == {"start", "recover", "work", "upload", "complete", "reset"}

\* All that may happen to a worker.
WorkerChange(w) ==
  \/ worker'[w] = worker[w]
  \/ \E c \in Clips : /\ Take(w, c) /\ worker'[w].clip = c
                      /\ worker'[w].pc = "taken" /\ queue'[c] = w
  \/ worker'[w].pc = "idle"
  \/ /\ worker[w].pc # "idle" /\ worker'[w].clip = worker[w].clip
     /\ UNCHANGED queue
     /\ worker'[w].pc \in Working =>
          /\ worker[w].pc \in Working \/ worker[w].clip \notin Delivered
          /\ ~RecoverOutput(w) /\ ~Complete(w)

LEMMA WorkerChanges ==
  ASSUME JobInv, Next, NEW w \in Workers
  PROVE  WorkerChange(w)
<1>1. TypeOK /\ queue \in [Clips -> Entries] /\ worker \in [Workers -> WorkerSet]
      /\ WorkersHaveClips
  BY DEF JobInv, TypeOK, WorkerSet
<1>2. ASSUME NEW v \in Workers, WorkerStep(v), v # w PROVE worker'[w] = worker[w]
  BY <1>1, <1>2 DEF WorkerStep, ClaimExecution, ReadClip, StartAttempt,
     RecoverOutput, Transition, Upload, Complete, CompletedBy, Abort, Error,
     ReadAfterError, ResetClip, ReleaseExecution, EndEntry, Goes
<1>3. CASE WorkerStep(w)
  <2>1. CASE EndEntry(w)
    BY <1>1, <2>1, FreedAt DEF EndEntry, WorkerAt, WorkerChange
  <2>2. CASE ReadClip(w)
    <3>1. worker[w].clip \in Clips
      BY <1>1, <2>2 DEF WorkersHaveClips, ReadClip
    <3>2. \/ worker[w].clip \notin Delivered
          \/ \E place \in {"returned", "thrown"} :
               worker' = [worker EXCEPT ![w] =
                 [pc |-> place, clip |-> worker[w].clip,
                  retryCount |-> job.clips[worker[w].clip].retryCount]]
      BY <2>2, <3>1 DEF ReadClip, Present
    <3>3. /\ UNCHANGED queue /\ worker[w].pc = "read"
          /\ worker'[w].clip = worker[w].clip
          /\ worker'[w].pc \in Working => worker[w].clip \notin Delivered
      BY <1>1, <2>2, <3>2 DEF ReadClip, Working
    <3>4. ~RecoverOutput(w) /\ ~Complete(w)
      BY <3>3 DEF RecoverOutput, Complete
    <3> QED BY <3>3, <3>4 DEF WorkerChange
  <2>3. CASE RecoverOutput(w) \/ Complete(w)
    <3>1. PICK place \in {"returned", "thrown", "error"} : Goes(w, place)
      BY <2>3 DEF RecoverOutput, Complete, CompletedBy
    <3>2. WorkerAt(w, place, worker[w].clip) /\ place \notin Working
      BY <1>1, <3>1, GoesTo DEF Places, Working
    <3>3. worker[w].pc # "idle" /\ UNCHANGED queue
      BY <2>3 DEF RecoverOutput, Complete
    <3> QED BY <3>2, <3>3 DEF WorkerAt, WorkerChange
  <2>4. CASE ReadAfterError(w)
    <3>1. PICK place \in {"thrown", "reset"} :
            /\ Goes(w, place)
            /\ place = "reset" => worker[w].clip \notin Delivered
      BY <2>4 DEF ReadAfterError
    <3>2. WorkerAt(w, place, worker[w].clip)
      BY <1>1, <3>1, GoesTo DEF Places
    <3>3. worker[w].pc = "error" /\ UNCHANGED queue
      BY <2>4 DEF ReadAfterError
    <3>4. ~RecoverOutput(w) /\ ~Complete(w)
      BY <3>3 DEF RecoverOutput, Complete
    <3> QED BY <3>1, <3>2, <3>3, <3>4 DEF WorkerAt, WorkerChange, Working
  <2>5. CASE StartAttempt(w) \/ Transition(w) \/ Upload(w)
    <3>1. PICK place \in {"error", "recover", "work", "upload", "complete"} :
            Goes(w, place)
      BY <2>5 DEF StartAttempt, Transition, Upload
    <3>2. WorkerAt(w, place, worker[w].clip)
      BY <1>1, <3>1, GoesTo DEF Places
    <3>3. worker[w].pc \in {"start", "work", "upload"} /\ UNCHANGED queue
      BY <2>5 DEF StartAttempt, Transition, Upload
    <3>4. ~RecoverOutput(w) /\ ~Complete(w)
      BY <3>3 DEF RecoverOutput, Complete
    <3> QED BY <3>2, <3>3, <3>4 DEF WorkerAt, WorkerChange, Working
  <2>6. CASE ClaimExecution(w) \/ Abort(w) \/ Error(w) \/ ResetClip(w)
             \/ ReleaseExecution(w)
    <3>1. PICK place \in {"read", "ended", "thrown", "error", "failed"} :
            Goes(w, place)
      BY <2>6 DEF ClaimExecution, Abort, Error, ResetClip, ReleaseExecution
    <3>2. WorkerAt(w, place, worker[w].clip) /\ place \notin Working
      BY <1>1, <3>1, GoesTo DEF Places, Working
    <3>3. worker[w].pc # "idle" /\ UNCHANGED queue
      BY <2>6 DEF ClaimExecution, Abort, Error, ResetClip, ReleaseExecution
    <3> QED BY <3>2, <3>3 DEF WorkerAt, WorkerChange
  <2> QED BY <1>3, <2>1, <2>2, <2>3, <2>4, <2>5, <2>6 DEF WorkerStep
<1>4. ASSUME NEW v \in Workers, NEW c \in Clips, Take(v, c) PROVE WorkerChange(w)
  <2>1. v # w => worker'[w] = worker[w]
    BY <1>1, <1>4 DEF Take
  <2>2. v = w => worker'[w].clip = c /\ worker'[w].pc = "taken" /\ queue'[c] = w
    BY <1>1, <1>4 DEF Take
  <2> QED BY <1>4, <2>1, <2>2 DEF WorkerChange
<1>5. ASSUME NEW v \in Workers, Crash(v) PROVE WorkerChange(w)
  <2>1. WorkerAt(v, "idle", None)
    BY <1>1, <1>5, FreedAt DEF Crash
  <2> QED BY <2>1 DEF WorkerAt, WorkerChange
<1>6. ASSUME NEW v \in Workers, LoseLock(v) PROVE UNCHANGED worker
  BY <1>6 DEF LoseLock
<1>7. ASSUME NEW c \in Clips,
             Doubt(c) \/ RemoveEntry(c) \/ DeleteEntry(c) \/ Stalled(c)
      PROVE  UNCHANGED worker
  BY <1>7 DEF Doubt, RemoveEntry, DeleteEntry, Stalled, calls
<1>8. ASSUME NEW s \in Settlers, FinalizeCreditsRead(s) \/ FinalizeCreditsSettle(s)
      PROVE  UNCHANGED worker
  BY <1>8 DEF FinalizeCreditsRead, FinalizeCreditsSettle
<1>9. ASSUME NEW t \in Tokens, RecoverExecutionLease(t) PROVE UNCHANGED worker
  BY <1>9 DEF RecoverExecutionLease, calls
<1>10. SettleOrphan \/ FailUnfinishedClip \/ FinalizeRenderStateRead
       \/ FinalizeRenderState \/ FenceQueue \/ FinalizeCancellation
       \/ CancelJob \/ AcknowledgeShutdown \/ DeletionReads
       \/ DeletionFinalizesCredits \/ DeleteClip \/ DeleteJobClaim \/ DeleteJob
         => UNCHANGED worker
  BY DeletionFrame
     DEF SettleOrphan, FailUnfinishedClip, FinalizeRenderStateRead,
         FinalizeRenderState, FenceQueue, FinalizeCancellation, CancelJob,
         AcknowledgeShutdown, DeletionFinalizesCredits, DeleteClip,
         DeleteJobClaim, DeleteJob, calls
<1>11. ASSUME NEW d \in Dispatchers,
              DispatcherReads(d) \/ DispatcherWrites(d) \/ Retries(d)
       PROVE  UNCHANGED worker
  BY <1>11, DispatcherFrame, RetryFrame
<1>12. worker'[w] = worker[w] => WorkerChange(w)
  BY DEF WorkerChange
<1> QED BY <1>2, <1>3, <1>4, <1>5, <1>6, <1>7, <1>8, <1>9, <1>10, <1>11, <1>12,
           NextSteps
        DEF CronStep, QueueStep

-----------------------------------------------------------------------------
(* One execution per lock *)

\* Without stalled workers, a worker that has a clip holds its lock, and what
\* it works on is not durable yet.
LockInv ==
  /\ \A w \in Workers : worker[w].pc # "idle" => queue[worker[w].clip] = w
  /\ \A w \in Workers :
       worker[w].pc \in Working => worker[w].clip \notin Delivered

LEMMA LocksKept ==
  ASSUME Stallable = {}, JobInv, LockInv, Next, NEW w \in Workers,
         worker'[w].pc # "idle"
  PROVE  queue'[worker'[w].clip] = w
<1>1. CASE worker'[w] = worker[w]
  <2> DEFINE c == worker[w].clip
  <2>1. c \in Clips /\ queue[c] = w
    BY <1>1 DEF JobInv, WorkersHaveClips, LockInv
  <2> HIDE DEF c
  <2>2. EntryChange(c)
    BY <2>1, EntryChanges
  <2>3. queue[c] \notin {"none", "waiting", "orphaned", "completed", "failed"}
    BY <2>1, WorkersAssumption
  <2>4. ~Stoppable /\ ~DeleteEntry(c)
    BY <2>1 DEF Stoppable, DeleteEntry, QueueQuiet, Active
  <2>5. ~EndEntry(w) /\ ~Crash(w) /\ ~LoseLock(w)
    <3>1. ASSUME EndEntry(w) \/ Crash(w) PROVE FALSE
      <4>1. WorkerAt(w, "idle", None)
        BY <3>1, FreedAt DEF JobInv, EndEntry, Crash
      <4> QED BY <4>1 DEF WorkerAt
    <3>2. ~LoseLock(w)
      BY DEF LoseLock
    <3> QED BY <3>1, <3>2
  <2>6. queue'[c] = queue[c]
    BY <2>1, <2>2, <2>3, <2>4, <2>5 DEF EntryChange
  <2> QED BY <1>1, <2>1, <2>6 DEF c
<1>2. CASE worker'[w] # worker[w]
  BY <1>2, WorkerChanges DEF WorkerChange, LockInv
<1> QED BY <1>1, <1>2

LEMMA WorkKept ==
  ASSUME JobInv, LockInv, Next, NEW w \in Workers, worker'[w].pc \in Working
  PROVE  worker'[w].clip \notin Delivered'
<1> DEFINE c == worker[w].clip
<1>1. /\ worker'[w].clip = c /\ worker[w].pc # "idle" /\ c \notin Delivered
      /\ ~RecoverOutput(w) /\ ~Complete(w)
  <2>1. CASE worker'[w] = worker[w]
    <3>1. c \notin Delivered /\ worker[w].pc # "idle"
      BY <2>1 DEF LockInv, Working
    <3>2. ~RecoverOutput(w) /\ ~Complete(w)
      <4>1. ASSUME RecoverOutput(w) \/ Complete(w) PROVE FALSE
        <5>1. PICK place \in {"returned", "thrown", "error"} : Goes(w, place)
          BY <4>1 DEF RecoverOutput, Complete, CompletedBy
        <5>2. WorkerAt(w, place, worker[w].clip)
          BY <5>1, GoesTo DEF JobInv, Places
        <5> QED BY <5>2 DEF WorkerAt, Working
      <4> QED BY <4>1
    <3> QED BY <2>1, <3>1, <3>2
  <2>2. CASE worker'[w] # worker[w]
    BY <2>2, WorkerChanges DEF WorkerChange, LockInv, Working
  <2> QED BY <2>1, <2>2
<1>2. c \in Clips /\ queue[c] = w
  BY <1>1 DEF JobInv, WorkersHaveClips, LockInv
<1>3. ASSUME NEW v \in Workers, Completes(v, c) PROVE FALSE
  <2>1. worker[v].pc # "idle" /\ worker[v].clip = c
    BY <1>3 DEF Completes, RecoverOutput, Complete
  <2>2. v = w
    BY <1>2, <2>1 DEF LockInv
  <2> QED BY <1>1, <1>3, <2>2 DEF Completes
<1> HIDE DEF c
<1>4. ClipChange(c)
  BY <1>2, ClipChanges
<1>5. job'.clips[c].status # "COMPLETED"
  BY <1>1, <1>2, <1>3, <1>4 DEF ClipChange, StatusSet, Delivered
<1> QED BY <1>1, <1>5 DEF Delivered

LEMMA LockNext ==
  ASSUME Stallable = {}, JobInv, LockInv, [Next]_vars
  PROVE  LockInv'
<1>1. CASE UNCHANGED vars
  BY <1>1 DEF vars, LockInv, Delivered
<1>2. CASE Next
  BY <1>2, LocksKept, WorkKept DEF LockInv
<1> QED BY <1>1, <1>2

LEMMA DurableClipKept ==
  ASSUME JobInv, LockInv, Next, NEW c \in Delivered,
         job'.clips[c].status # "gone"
  PROVE  c \in Delivered'
<1>1. c \in Clips /\ job.clips[c].status = "COMPLETED"
  BY DEF Delivered
<1>2. ~\E w \in Workers : Restarts(w, c)
  BY DEF Restarts, Transition, ResetClip, LockInv, Working
<1>3. ClipChange(c)
  BY <1>1, ClipChanges
<1>4. job'.clips[c].status = "COMPLETED"
  BY <1>1, <1>2, <1>3 DEF ClipChange, StatusSet
<1> QED BY <1>1, <1>4 DEF Delivered

\* Without workers that live on without their lock, what is durable stays so
\* until it is deleted, whatever fails late, crashes or is cancelled.  (With
\* one, the zombie may write over its successor: no run claims more.)
THEOREM DurableClipsStay ==
  ASSUME Stallable = {}
  PROVE  Spec => DurableStays
<1>1. Init => LockInv
  BY DEF Init, LockInv, NoClip, Working
<1>2. JobInv /\ LockInv /\ [Next]_vars => LockInv'
  BY LockNext
<1>3. JobInv /\ LockInv /\ [Next]_vars
        => [\A c \in Delivered :
              job'.exists /\ job'.clips[c].status # "gone"
                => c \in Delivered']_vars
  BY DurableClipKept
<1> QED BY <1>1, <1>2, <1>3, Invariance, PTL DEF Spec, DurableStays

-----------------------------------------------------------------------------
(* The outcome is true *)

\* The outcome about to be written is that of the document as it is.
ReviewTrue ==
  review # "none" =>
    /\ job.exists /\ job.status = "CUTTING_CLIPS"
    /\ \A c \in Remaining : job.clips[c].status \in {"COMPLETED", "FAILED"}
    /\ review = "COMPLETED" <=> Remaining # {} /\ Remaining \subseteq Delivered

CompletedHasClips == job.status = "COMPLETED" => Remaining \subseteq Delivered

\* The outcome under review is forgotten with every write to the job.
LEMMA ReviewChanges ==
  ASSUME TypeOK, Next
  PROVE  \/ review' = "none"
         \/ review' = review /\ job' = job
         \/ FinalizeRenderStateRead
<1> DEFINE Goal == review' = "none" \/ (review' = review /\ job' = job)
<1>1. \A j : Write(j) => Goal
  BY DEF Write, Reviewed
<1>2. ASSUME NEW w \in Workers,
             \/ WorkerStep(w) \/ Crash(w) \/ LoseLock(w)
             \/ \E c \in Clips : Take(w, c)
      PROVE  Goal
  BY <1>1, <1>2 DEF WorkerStep, ClaimExecution, ReadClip, StartAttempt,
     RecoverOutput, Transition, Upload, Complete, CompletedBy, Abort, Error,
     ReadAfterError, ResetClip, ReleaseExecution, EndEntry, Crash, LoseLock, Take
<1>3. ASSUME NEW c \in Clips,
             Stalled(c) \/ Doubt(c) \/ RemoveEntry(c) \/ DeleteEntry(c)
      PROVE  Goal
  BY <1>3 DEF Stalled, Doubt, RemoveEntry, DeleteEntry
<1>4. ASSUME NEW s \in Settlers, FinalizeCreditsRead(s) \/ FinalizeCreditsSettle(s)
      PROVE  Goal
  BY <1>4 DEF FinalizeCreditsRead, FinalizeCreditsSettle
<1>5. ASSUME NEW t \in Tokens, RecoverExecutionLease(t) PROVE Goal
  BY <1>1, <1>5 DEF RecoverExecutionLease
<1>6. SettleOrphan \/ FenceQueue \/ DeletionReads \/ DeletionFinalizesCredits
        => Goal
  BY DeletionFrame DEF SettleOrphan, FenceQueue, DeletionFinalizesCredits
<1>7. FailUnfinishedClip \/ CancelJob \/ FinalizeCancellation
      \/ AcknowledgeShutdown \/ DeleteClip \/ DeleteJobClaim \/ DeleteJob
        => Goal
  BY <1>1 DEF FailUnfinishedClip, CancelJob, FinalizeCancellation,
     AcknowledgeShutdown, DeleteClip, DeleteJobClaim, DeleteJob
<1>8. FinalizeRenderState => Goal
  BY DEF FinalizeRenderState
<1>9. ASSUME NEW d \in Dispatchers, DispatcherReads(d) \/ DispatcherWrites(d)
      PROVE  Goal
  BY <1>1, <1>9, DispatcherFrame
     DEF DispatcherWrites, DispatchClaim, DispatchClear, DispatchEnd,
         DispatchCrash
<1>10. ASSUME NEW d \in Dispatchers, Retries(d) PROVE Goal
  BY <1>1, <1>10 DEF Retries, RetryJob, RetryClip, RetryClipAgain
<1> QED BY <1>2, <1>3, <1>4, <1>5, <1>6, <1>7, <1>8, <1>9, <1>10, NextSteps
        DEF CronStep, QueueStep

LEMMA ReviewTrueNext ==
  ASSUME TypeOK, ReviewTrue, [Next]_vars
  PROVE  ReviewTrue'
<1>1. CASE review' = "none"
  BY <1>1 DEF ReviewTrue
<1>2. CASE review' = review /\ job' = job
  BY <1>2 DEF ReviewTrue, Remaining, Delivered
<1>3. CASE FinalizeRenderStateRead
  BY <1>3 DEF FinalizeRenderStateRead, ReviewTrue, Remaining, Delivered
<1> QED BY <1>1, <1>2, <1>3, ReviewChanges DEF vars

LEMMA GoneStays ==
  ASSUME JobInv, Next, NEW c \in Clips, job.clips[c].status = "gone"
  PROVE  job'.clips[c].status = "gone"
<1>1. ClipChange(c)
  BY ClipChanges
<1> QED BY <1>1 DEF ClipChange, StatusSet

LEMMA CompletedKept ==
  ASSUME JobInv, LockInv, ReviewTrue, CompletedHasClips, [Next]_vars
  PROVE  CompletedHasClips'
<1>1. CASE UNCHANGED vars
  BY <1>1 DEF vars, CompletedHasClips, Remaining, Delivered
<1>2. ASSUME Next, job'.status = "COMPLETED"
      PROVE  Remaining' \subseteq Delivered'
  <2>1. Remaining' \subseteq Remaining
    BY <1>2, GoneStays DEF Remaining
  <2>2. Remaining \subseteq Delivered
    <3>1. CASE job'.status = job.status
      BY <1>2, <3>1 DEF CompletedHasClips
    <3>2. CASE FinalizeRenderState /\ job'.status = review
      BY <1>2, <3>2 DEF ReviewTrue
    <3> QED BY <1>2, <3>1, <3>2, JobChanges DEF JobInv, JobChange
  <2>3. \A c \in Delivered : job'.clips[c].status # "gone" => c \in Delivered'
    BY <1>2, DurableClipKept
  <2> QED BY <2>1, <2>2, <2>3 DEF Remaining
<1> QED BY <1>1, <1>2 DEF CompletedHasClips

LEMMA FailureWritten ==
  ASSUME TypeOK, ReviewTrue, Next, job'.status = "FAILED", job.status # "FAILED"
  PROVE  Remaining = {} \/ ~(Remaining \subseteq Delivered)
<1>1. review = "FAILED"
  BY JobChanges DEF JobChange
<1> QED BY <1>1 DEF ReviewTrue

\* finalizeRenderState only writes that a job failed when it lacks a clip at
\* that moment, and a job that completed has every clip it still lists, however
\* many dispatchers, retries of the whole job or of a clip and late failures
\* run beside.  No worker lives on without its lock.
THEOREM OutcomesAreTrue ==
  ASSUME Stallable = {}
  PROVE  Spec => OutcomeIsTrue
<1>1. Init => LockInv /\ ReviewTrue /\ CompletedHasClips
  BY DEF Init, LockInv, NoClip, Working, ReviewTrue, CompletedHasClips
<1>2. JobInv /\ LockInv /\ [Next]_vars => LockInv'
  BY LockNext
<1>3. JobInv /\ ReviewTrue /\ [Next]_vars => ReviewTrue'
  BY ReviewTrueNext DEF JobInv
<1>4. JobInv /\ LockInv /\ ReviewTrue /\ CompletedHasClips /\ [Next]_vars
        => CompletedHasClips'
  BY CompletedKept
<1>5. JobInv /\ LockInv /\ ReviewTrue /\ CompletedHasClips /\ [Next]_vars
        => [/\ job'.status = "COMPLETED" => Remaining' \subseteq Delivered'
            /\ job'.status = "FAILED" /\ job.status # "FAILED" =>
                 Remaining = {} \/ ~(Remaining \subseteq Delivered)]_vars
  BY CompletedKept, FailureWritten DEF JobInv, CompletedHasClips
<1> QED BY <1>1, <1>2, <1>3, <1>4, <1>5, Invariance, PTL DEF Spec, OutcomeIsTrue

-----------------------------------------------------------------------------
(* What the operation is charged *)

\* What is charged, and what a call of finalizeCredits is about to charge, is
\* the price of the outputs it is charged for.
ChargesPriced ==
  /\ op.charged = Price(op.deliveredOutputs)
  /\ \A s \in Settlers :
       settlement[s].charge = Price(settlement[s].deliveredOutputs)

\* The job's operation as a piece of paid work.  What createJob reserves pays
\* for the source and for more output than the manifest is planned with, so the
\* least budget it can have is the price of all clips.
Work == INSTANCE PaidOperation WITH
  status <- op.status,
  authorized <- Price(Clips),
  held <- IF op.status = "reserved" THEN Price(Clips) - op.charged ELSE 0,
  charged <- op.charged,
  generation <- op.retries

LEMMA MoreCostsMore ==
  ASSUME NEW more \in SUBSET Clips, NEW some \in SUBSET more
  PROVE  Price(some) <= Price(more)
<1>1. IsFiniteSet(more) /\ IsFiniteSet(some)
  BY ClipsAssumption, FS_Subset
<1>2. Cardinality(some) <= Cardinality(more)
  BY <1>1, FS_Subset
<1>3. Cardinality(some) \in Nat /\ Cardinality(more) \in Nat
  BY <1>1, FS_CardinalityType
<1> QED BY <1>2, <1>3, ParametersAssumption DEF Price

\* What finalizeCredits charges is the price of what was charged for before
\* and of what is delivered now.
LEMMA PriceOfOutputs ==
  ASSUME TypeOK, ChargesPriced
  PROVE  /\ Outputs \in SUBSET Clips
         /\ Larger(op.charged, Price(Outputs)) = Price(Outputs)
<1>1. Outputs \in SUBSET Clips /\ op.deliveredOutputs \in SUBSET Outputs
  BY DEF TypeOK, Operation, Outputs, Delivered
<1>2. op.charged <= Price(Outputs)
  BY <1>1, MoreCostsMore DEF ChargesPriced
<1>3. op.charged \in Nat /\ Price(Outputs) \in Nat
  BY <1>1, PriceIsCredits DEF TypeOK, Operation
<1> QED BY <1>1, <1>2, <1>3 DEF Larger

\* Settling for the price of some clips settles a piece of paid work, or
\* nothing.
LEMMA SettlesWork ==
  ASSUME TypeOK, ChargesPriced, NEW outputs \in SUBSET Clips,
         op' = Settled(Price(outputs), outputs)
  PROVE  /\ op'.charged = Price(op'.deliveredOutputs)
         /\ Work!Settle \/ UNCHANGED op
<1>1. op \in Operation /\ op.charged \in Nat
  BY DEF TypeOK, Operation
<1>2. Price(outputs) <= Price(Clips)
      /\ Price(outputs) \in Nat /\ Price(Clips) \in Nat
  BY MoreCostsMore, PriceIsCredits
<1>3. CASE op.status = "reserved" /\ MaySettle /\ Price(outputs) >= op.charged
  <2>1. op' = [op EXCEPT !.status = "settled", !.charged = Price(outputs),
                         !.deliveredOutputs = outputs]
    BY <1>3 DEF Settled
  <2>2. /\ op'.status = "settled" /\ op'.charged = Price(outputs)
        /\ op'.deliveredOutputs = outputs /\ op'.retries = op.retries
    BY <1>1, <2>1 DEF Operation
  <2>3. op'.charged \in op.charged .. Price(Clips)
    BY <1>1, <1>2, <1>3, <2>2
  <2>4. Price(Clips)' = Price(Clips)
    BY DEF Price
  <2> QED BY <1>3, <2>2, <2>3, <2>4 DEF Work!Settle
<1>4. CASE ~(op.status = "reserved" /\ MaySettle /\ Price(outputs) >= op.charged)
  BY <1>4 DEF Settled, ChargesPriced
<1> QED BY <1>3, <1>4

\* A retry reopens the operation, or finds it running.
LEMMA ReopensWork ==
  ASSUME TypeOK, ChargesPriced, op' = Reopened
  PROVE  /\ op'.charged = Price(op'.deliveredOutputs)
         /\ Work!Reopen \/ UNCHANGED op
<1>1. op \in Operation
  BY DEF TypeOK
<1>2. CASE op.status = "settled"
  <2>1. /\ op'.status = "reserved" /\ op'.charged = op.charged
        /\ op'.deliveredOutputs = op.deliveredOutputs
        /\ op'.retries = op.retries + 1
    BY <1>1, <1>2 DEF Operation, Reopened
  <2>2. Price(Clips)' = Price(Clips)
    BY DEF Price
  <2> QED BY <1>2, <2>1, <2>2 DEF Work!Reopen, ChargesPriced
<1>3. CASE op.status # "settled"
  BY <1>3 DEF Reopened, ChargesPriced
<1> QED BY <1>2, <1>3

\* Every step of the job is a step of its piece of paid work, or none.
LEMMA WorkSteps ==
  ASSUME TypeOK, ChargesPriced, Next
  PROVE  /\ op'.charged = Price(op'.deliveredOutputs)
         /\ Work!Settle \/ Work!Reopen \/ UNCHANGED op
<1>1. ASSUME NEW s \in Settlers, FinalizeCreditsSettle(s)
      PROVE  /\ op'.charged = Price(op'.deliveredOutputs)
             /\ Work!Settle \/ UNCHANGED op
  <2>1. settlement[s].deliveredOutputs \in SUBSET Clips
    BY DEF TypeOK
  <2>2. op' = Settled(Price(settlement[s].deliveredOutputs),
                      settlement[s].deliveredOutputs)
    BY <1>1 DEF FinalizeCreditsSettle, ChargesPriced
  <2> QED BY <2>1, <2>2, SettlesWork
<1>2. CASE SettleOrphan
  <2>1. op.deliveredOutputs \in SUBSET Clips
    BY DEF TypeOK, Operation
  <2>2. op' = Settled(Price(op.deliveredOutputs), op.deliveredOutputs)
    BY <1>2 DEF SettleOrphan, ChargesPriced
  <2> QED BY <2>1, <2>2, SettlesWork
<1>3. CASE DeletionFinalizesCredits
  <2>1. op' = IF Finalizable THEN Settled(Price(Outputs), Outputs) ELSE op
    BY <1>3, PriceOfOutputs DEF DeletionFinalizesCredits
  <2>2. CASE Finalizable
    BY <2>1, <2>2, PriceOfOutputs, SettlesWork
  <2>3. CASE ~Finalizable
    BY <2>1, <2>3 DEF ChargesPriced
  <2> QED BY <2>2, <2>3
<1>4. ASSUME NEW d \in Dispatchers,
             RetryJob(d) \/ \E c \in Clips : RetryClip(c, d)
      PROVE  /\ op'.charged = Price(op'.deliveredOutputs)
             /\ Work!Reopen \/ UNCHANGED op
  BY <1>4, ReopensWork DEF RetryJob, RetryClip
<1>5. CASE UNCHANGED op
  BY <1>5 DEF ChargesPriced
<1> QED BY <1>1, <1>2, <1>3, <1>4, <1>5, OperationWriters

\* What is about to be settled is computed by FinalizeCreditsRead alone.
LEMMA SettlementWriters ==
  ASSUME Next
  PROVE  \/ UNCHANGED settlement
         \/ \E s \in Settlers : FinalizeCreditsRead(s) \/ FinalizeCreditsSettle(s)
<1>1. ASSUME NEW w \in Workers,
             \/ WorkerStep(w) \/ Crash(w) \/ LoseLock(w)
             \/ \E c \in Clips : Take(w, c)
      PROVE  UNCHANGED settlement
  BY <1>1 DEF WorkerStep, ClaimExecution, ReadClip, StartAttempt, RecoverOutput,
     Transition, Upload, Complete, Abort, Error, ReadAfterError, ResetClip,
     ReleaseExecution, EndEntry, Crash, LoseLock, Take, others
<1>2. ASSUME NEW c \in Clips,
             Stalled(c) \/ Doubt(c) \/ RemoveEntry(c) \/ DeleteEntry(c)
      PROVE  UNCHANGED settlement
  BY <1>2 DEF Stalled, Doubt, RemoveEntry, DeleteEntry, others, calls
<1>3. ASSUME NEW t \in Tokens, RecoverExecutionLease(t)
      PROVE  UNCHANGED settlement
  BY <1>3 DEF RecoverExecutionLease, calls
<1>4. FailUnfinishedClip \/ FinalizeRenderStateRead \/ FinalizeRenderState
      \/ FenceQueue \/ FinalizeCancellation \/ CancelJob \/ AcknowledgeShutdown
      \/ DeletionReads \/ DeleteClip \/ DeleteJobClaim \/ DeleteJob
      \/ SettleOrphan \/ DeletionFinalizesCredits
        => UNCHANGED settlement
  BY DeletionFrame
     DEF FailUnfinishedClip, FinalizeRenderStateRead, FinalizeRenderState,
         FenceQueue, FinalizeCancellation, CancelJob, AcknowledgeShutdown,
         DeleteClip, DeleteJobClaim, DeleteJob, SettleOrphan,
         DeletionFinalizesCredits, calls
<1>5. ASSUME NEW d \in Dispatchers,
             DispatcherReads(d) \/ DispatcherWrites(d) \/ Retries(d)
      PROVE  UNCHANGED settlement
  BY <1>5, DispatcherFrame, RetryFrame
<1> QED BY <1>1, <1>2, <1>3, <1>4, <1>5, NextSteps DEF CronStep, QueueStep

LEMMA ChargesPricedNext ==
  ASSUME TypeOK, ChargesPriced, [Next]_vars
  PROVE  ChargesPriced'
<1>1. CASE UNCHANGED vars
  BY <1>1 DEF vars, ChargesPriced, Price
<1>2. CASE Next
  <2>1. op'.charged = Price(op'.deliveredOutputs)
    BY <1>2, WorkSteps
  <2>2. ASSUME NEW s \in Settlers, FinalizeCreditsRead(s)
        PROVE  \A t \in Settlers :
                 settlement'[t].charge = Price(settlement'[t].deliveredOutputs)
    BY <2>2, PriceOfOutputs DEF TypeOK, ChargesPriced, FinalizeCreditsRead
  <2>3. ASSUME NEW s \in Settlers, FinalizeCreditsSettle(s)
        PROVE  \A t \in Settlers :
                 settlement'[t].charge = Price(settlement'[t].deliveredOutputs)
    <3>1. NoSettlement.charge = Price(NoSettlement.deliveredOutputs)
      BY DEF NoSettlement, Price
    <3> QED BY <2>3, <3>1 DEF TypeOK, ChargesPriced, FinalizeCreditsSettle
  <2>4. ASSUME UNCHANGED settlement
        PROVE  \A t \in Settlers :
                 settlement'[t].charge = Price(settlement'[t].deliveredOutputs)
    BY <2>4 DEF ChargesPriced
  <2>5. \A t \in Settlers :
          settlement'[t].charge = Price(settlement'[t].deliveredOutputs)
    BY <1>2, <2>2, <2>3, <2>4, SettlementWriters DEF ChargesPriced
  <2> QED BY <2>1, <2>5 DEF ChargesPriced, Price
<1> QED BY <1>1, <1>2

\* The account pays exactly the price of the outputs it is charged for,
\* however old the reading a settlement was computed from, and however often
\* the job is retried, settled again and deleted.
THEOREM ChargesArePrices == Spec => []ChargesPriced
<1>1. Init => ChargesPriced
  BY DEF Init, ChargesPriced, Price, NoSettlement
<1> QED BY <1>1, ChargesPricedNext, TypeCorrect, PTL DEF Spec

\* The operation of a job only takes the steps of a piece of paid work: what
\* is charged never shrinks and never exceeds the price of all its clips, and
\* a retry holds exactly what is left.
THEOREM JobsArePaidOperations == Spec => [][Work!Next]_(Work!vars)
<1>1. TypeOK /\ ChargesPriced /\ [Next]_vars => [Work!Next]_(Work!vars)
  <2> SUFFICES ASSUME TypeOK, ChargesPriced, [Next]_vars
               PROVE  [Work!Next]_(Work!vars)
    OBVIOUS
  <2>1. UNCHANGED op => UNCHANGED Work!vars
    BY DEF Work!vars, Price
  <2>2. CASE UNCHANGED vars
    BY <2>1, <2>2 DEF vars
  <2>3. CASE Next
    BY <2>1, <2>3, WorkSteps DEF Work!Next
  <2> QED BY <2>2, <2>3
<1> QED BY <1>1, ChargesArePrices, TypeCorrect, PTL DEF Spec

=============================================================================
