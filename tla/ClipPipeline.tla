---------------------------- MODULE ClipPipeline ----------------------------
(***************************************************************************)
(* A clips job from its authorization to its manifest: createJob in its    *)
(* three steps, the durable intent `pipelineRetryRequested' and the queue  *)
(* entry it asks for, the pipeline worker, retryJob, reconciliation, the   *)
(* recovery cron, and the publication of the outcome.  What happens after  *)
(* the manifest is ClipJob's; here a rendering job simply ends.            *)
(***************************************************************************)
EXTENDS Naturals, FiniteSets

CONSTANTS
  None,
  Workers,        \* pipeline workers
  Requests,       \* requests and event handlers, which may die anywhere
  Crons,          \* runs of the crons: only those that get through
  MaxRedeliveries, \* bound on the redeliveries of an entry, which stands
                  \* for its three attempts and its one stall
  MaxRetries      \* bound on the calls of retryJob

\* Bounds are numbers; ids, tokens and the mark of what is absent differ.
ASSUME BoundsAssumption == MaxRedeliveries \in Nat /\ MaxRetries \in Nat
ASSUME IdsAssumption ==
  /\ Workers \cap (Requests \cup Crons) = {}
  /\ "lost" \notin Workers /\ None \notin Workers

VARIABLES
  op,             \* CreditOperation: status, and whether it is ten minutes old
  clips,          \* the Job document, or None
  entry,          \* the queue entry of the pipeline: state, owner, counters
  worker,         \* where a worker is, and the status it read
  caller,         \* where a caller is, what it read, and where it goes on
  notified,       \* outcomes that the user was told
  retries

Callers == Requests \cup Crons

vars == <<op, clips, entry, worker, caller, notified, retries>>

Terminal == {"completed", "failed"}
\* "pending" also stands for the statuses of transcription and detection.
JobStatuses == {"pending", "cutting"} \cup Terminal

\* Execution tokens; those of dead processes merge into "lost".
Tokens == Workers \cup Callers \cup {"lost"}

Job == [status : JobStatuses,
        pipelineRetryRequested : BOOLEAN,
        renderManifestReady : BOOLEAN,
        completionPublished : BOOLEAN,
        activeExecutions : SUBSET Tokens]

ASSUME JobAssumption == None \notin Job

TypeOK ==
  /\ op \in [status : {"none", "reserved", "settled"}, aged : BOOLEAN]
  /\ clips \in Job \cup {None}
  /\ entry \in [state : {"none", "waiting", "active", "failed", "completed"},
                owner : Workers \cup {None},
                redeliveries : 0..MaxRedeliveries]
  /\ entry.owner # None => entry.state = "active"
  /\ worker \in [Workers -> [pc : {"idle", "start", "budget", "work",
                                   "fan out", "error", "write", "release",
                                   "end", "event"},
                             read : JobStatuses \cup {None},
                             ends : {None, "waiting", "failed", "completed"}]]
  /\ caller \in [Callers -> [pc : {"idle", "save", "claim", "read", "add",
                                   "retry", "clear", "pull", "check", "fail",
                                   "notify", "mark", "reopen"},
                             read : {None} \cup JobStatuses
                                      \cup {"reserved", "settled"},
                             then : {"idle", "check"}]]
  /\ notified \subseteq Terminal
  /\ retries \in 0..MaxRetries

Rest == [pc |-> "idle", read |-> None, then |-> "idle"]
Free == [pc |-> "idle", read |-> None, ends |-> None]

Init ==
  /\ op = [status |-> "none", aged |-> FALSE]
  /\ clips = None
  /\ entry = [state |-> "none", owner |-> None, redeliveries |-> 0]
  /\ worker = [w \in Workers |-> Free]
  /\ caller = [c \in Callers |-> Rest]
  /\ notified = {}
  /\ retries = 0

Exists == clips # None
At(c, place) == caller[c].pc = place
Goto(c, place) == caller' = [caller EXCEPT ![c].pc = place]
Done(c) == caller' = [caller EXCEPT ![c] = Rest]
Here(w, place) == worker[w].pc = place
Step(w, place) == worker' = [worker EXCEPT ![w].pc = place]

\* The document with a token taken or given back.
Holding(token) == [clips EXCEPT !.activeExecutions = @ \cup {token}]
Returned(token) == [clips EXCEPT !.activeExecutions = @ \ {token}]

-----------------------------------------------------------------------------
(* createJob *)

\* The reservation; a repeated request finds the operation, and its job.
Reserve(c) ==
  /\ At(c, "idle") /\ c \in Requests
  /\ ~Exists
  /\ op' = IF op.status = "none" THEN [op EXCEPT !.status = "reserved"] ELSE op
  /\ op'.status = "reserved"
  /\ Goto(c, "save")
  /\ UNCHANGED <<clips, entry, worker, notified, retries>>

\* The job's id is the operation's relatedId: a second insertion fails.  The
\* age of an operation that has its job is nobody's concern.
Save(c) ==
  /\ At(c, "save")
  /\ op' = [op EXCEPT !.aged = FALSE]
  /\ IF Exists THEN Done(c) /\ UNCHANGED clips
     ELSE /\ clips' = [status |-> "pending", pipelineRetryRequested |-> TRUE,
                       renderManifestReady |-> FALSE,
                       completionPublished |-> FALSE,
                       activeExecutions |-> {}]
          /\ Goto(c, "claim")
  /\ UNCHANGED <<entry, worker, notified, retries>>

-----------------------------------------------------------------------------
(* enqueuePipeline, called by createJob, retryJob and both crons *)

DispatchClaim(c) ==
  /\ At(c, "claim")
  /\ clips' = Holding(c)
  /\ Goto(c, "read")
  /\ UNCHANGED <<op, entry, worker, notified, retries>>

\* It reads the job once: later it knows whether a retry was requested then.
DispatchRead(c) ==
  /\ At(c, "read")
  /\ Goto(c, IF clips.renderManifestReady THEN "pull"
             ELSE IF clips.pipelineRetryRequested THEN "retry" ELSE "add")
  /\ UNCHANGED <<op, clips, entry, worker, notified, retries>>

Waiting == [state |-> "waiting", owner |-> None, redeliveries |-> 0]

\* Mutant: a requested retry does not ask whether the entry has ended.
Mutant_Added(retryRequested) ==
  IF entry.state = "none" THEN Waiting
  ELSE IF retryRequested
  THEN [entry EXCEPT !.state = "waiting", !.redeliveries = 0] ELSE entry

\* A new entry, or a requested retry of one that has ended.
Added(retryRequested) ==
  IF entry.state = "none" THEN Waiting
  ELSE IF retryRequested /\ entry.state \in {"failed", "completed"}
  THEN Waiting ELSE entry

DispatchAdd(c) ==
  /\ At(c, "add") \/ At(c, "retry")
  /\ entry' = Added(At(c, "retry"))
  /\ Goto(c, "clear")
  /\ UNCHANGED <<op, clips, worker, notified, retries>>

\* Cleared without a condition, whoever has set it again since.
DispatchClear(c) ==
  /\ At(c, "clear")
  /\ clips' = [clips EXCEPT !.pipelineRetryRequested = FALSE]
  /\ Goto(c, "pull")
  /\ UNCHANGED <<op, entry, worker, notified, retries>>

DispatchPull(c) ==
  /\ At(c, "pull")
  /\ clips' = Returned(c)
  /\ caller' = [caller EXCEPT ![c] =
       [pc |-> caller[c].then, read |-> None, then |-> "idle"]]
  /\ UNCHANGED <<op, entry, worker, notified, retries>>

-----------------------------------------------------------------------------
(* The pipeline worker *)

Take(w) ==
  /\ Here(w, "idle") /\ entry.state = "waiting"
  /\ entry' = [entry EXCEPT !.state = "active", !.owner = w]
  /\ clips' = Holding(w)
  /\ Step(w, "start")
  /\ UNCHANGED <<op, caller, notified, retries>>

\* An error, and what BullMQ makes of the entry once it is thrown.
Raise(w, ends) == worker' = [worker EXCEPT ![w].pc = "error", ![w].ends = ends]

Start(w) ==
  /\ Here(w, "start")
  /\ IF clips.renderManifestReady
     THEN Step(w, "fan out") /\ UNCHANGED clips
     ELSE Step(w, "budget") /\ clips' = [clips EXCEPT !.status = "pending"]
  /\ UNCHANGED <<op, entry, caller, notified, retries>>

\* Mutant: the source is inspected, its authorization is not asked for.
Mutant_Authorized == TRUE

\* What prepareSource asks of the operation before anything expensive.
Authorized == op.status = "reserved"

Budget(w) ==
  /\ Here(w, "budget")
  /\ IF Authorized
     THEN Step(w, "work")
     ELSE Raise(w, "failed")
  /\ UNCHANGED <<op, clips, entry, caller, notified, retries>>

\* Transcription and detection announce themselves, whatever the status was.
Progress(w) ==
  /\ Here(w, "work") /\ clips.status # "pending"
  /\ clips' = [clips EXCEPT !.status = "pending"]
  /\ UNCHANGED <<op, entry, worker, caller, notified, retries>>

PrepareRenderManifest(w) ==
  /\ Here(w, "work")
  /\ clips' = IF clips.renderManifestReady THEN clips
              ELSE [clips EXCEPT !.renderManifestReady = TRUE,
                                 !.status = "cutting"]
  /\ Step(w, "fan out")
  /\ UNCHANGED <<op, entry, caller, notified, retries>>

\* The renders are queued (ClipJob).
FanOut(w) ==
  /\ Here(w, "fan out")
  /\ worker' = [worker EXCEPT ![w].pc = "release", ![w].ends = "completed"]
  /\ UNCHANGED <<op, clips, entry, caller, notified, retries>>

WorkFails(w) ==
  /\ worker[w].pc \in {"budget", "work", "fan out"}
  /\ \/ Raise(w, "failed")
     \/ entry.redeliveries < MaxRedeliveries /\ Raise(w, "waiting")
  /\ UNCHANGED <<op, clips, entry, caller, notified, retries>>

\* The error is recorded together with the status that was read before.
ErrorRead(w) ==
  /\ Here(w, "error")
  /\ worker' = [worker EXCEPT ![w].pc = "write", ![w].read = clips.status]
  /\ UNCHANGED <<op, clips, entry, caller, notified, retries>>

ErrorWrite(w) ==
  /\ Here(w, "write")
  /\ clips' = [clips EXCEPT !.status = worker[w].read]
  /\ worker' = [worker EXCEPT ![w].pc = "release", ![w].read = None]
  /\ UNCHANGED <<op, entry, caller, notified, retries>>

\* The token goes back first; then BullMQ moves the entry.
Release(w) ==
  /\ Here(w, "release")
  /\ clips' = Returned(w)
  /\ Step(w, "end")
  /\ UNCHANGED <<op, entry, caller, notified, retries>>

EndEntry(w) ==
  /\ Here(w, "end")
  /\ LET ends == worker[w].ends
     IN /\ entry' = [entry EXCEPT !.state = ends, !.owner = None,
                       !.redeliveries =
                         IF ends = "waiting" THEN @ + 1 ELSE @]
        /\ worker' = [worker EXCEPT ![w] =
             IF ends = "failed" THEN [Free EXCEPT !.pc = "event"] ELSE Free]
  /\ UNCHANGED <<op, clips, caller, notified, retries>>

\* The failed handler looks at the entry, not at the job it fails.  Its
\* publication is that of any caller.
OnFailed(w) ==
  /\ Here(w, "event")
  /\ clips' = IF entry.state = "failed" THEN [clips EXCEPT !.status = "failed"]
              ELSE clips
  /\ worker' = [worker EXCEPT ![w] = Free]
  /\ UNCHANGED <<op, entry, caller, notified, retries>>

\* A worker dies with its token in the job and the entry's lock running out.
Crash(w) ==
  /\ ~Here(w, "idle")
  /\ clips' = IF w \in clips.activeExecutions
              THEN [Returned(w) EXCEPT !.activeExecutions = @ \cup {"lost"}]
              ELSE clips
  /\ worker' = [worker EXCEPT ![w] = Free]
  /\ entry' = IF entry.owner = w THEN [entry EXCEPT !.owner = None] ELSE entry
  /\ UNCHANGED <<op, caller, notified, retries>>

\* BullMQ hands a stalled entry out again, or gives it up and tells a worker.
Stalled ==
  /\ entry.state = "active" /\ entry.owner = None
  /\ \/ /\ entry.redeliveries < MaxRedeliveries
        /\ entry' = [entry EXCEPT !.state = "waiting", !.redeliveries = @ + 1]
        /\ UNCHANGED worker
     \/ /\ entry' = [entry EXCEPT !.state = "failed"]
        /\ \/ UNCHANGED worker
           \/ \E w \in Workers :
                Here(w, "idle") /\ Step(w, "event")
  /\ UNCHANGED <<op, clips, caller, notified, retries>>

-----------------------------------------------------------------------------
(* retryJob, reconciliation, publication *)

\* retryJob reads a failed job, and with it where the job is to go on.
RetryRead(c) ==
  /\ At(c, "idle") /\ c \in Requests /\ retries < MaxRetries
  /\ Exists /\ clips.status = "failed"
  /\ caller' = [caller EXCEPT ![c] =
       [pc |-> "reopen",
        read |-> IF clips.renderManifestReady THEN "cutting" ELSE "pending",
        then |-> "idle"]]
  /\ UNCHANGED <<op, clips, entry, worker, notified, retries>>

\* One transaction reopens the operation and claims the job, which has failed
\* still or again.
RetryJob(c) ==
  /\ At(c, "reopen")
  /\ clips.status = "failed" /\ retries < MaxRetries
  /\ op' = [op EXCEPT !.status = "reserved"]
  /\ clips' = [clips EXCEPT
       !.status = caller[c].read,
       !.completionPublished = FALSE,
       !.pipelineRetryRequested = caller[c].read = "pending"]
  /\ caller' = [caller EXCEPT ![c] =
       IF caller[c].read = "pending" THEN [Rest EXCEPT !.pc = "claim"] ELSE Rest]
  /\ retries' = retries + 1
  /\ UNCHANGED <<entry, worker, notified>>

\* A job before its manifest, as reconcileMediaJobs lists it.
Unfinished == Exists /\ clips.status = "pending"

Reconcile(c) ==
  /\ At(c, "idle") /\ c \in Crons /\ Unfinished
  /\ caller' = [caller EXCEPT ![c] =
       IF clips.pipelineRetryRequested
       THEN [pc |-> "claim", read |-> None, then |-> "check"]
       ELSE [pc |-> "check", read |-> None, then |-> "idle"]]
  /\ UNCHANGED <<op, clips, entry, worker, notified, retries>>

\* Mutant: only entries that disappeared are looked for.
Mutant_Dead == entry.state = "none"

\* The entry has failed, or there has been none for half an hour.
Dead == entry.state \in {"failed", "none"}

ReconcileCheck(c) ==
  /\ At(c, "check")
  /\ IF Dead THEN Goto(c, "fail") ELSE Done(c)
  /\ UNCHANGED <<op, clips, entry, worker, notified, retries>>

\* Written without asking for the status that was listed.
ReconcileFail(c) ==
  /\ At(c, "fail")
  /\ clips' = [clips EXCEPT !.status = "failed"]
  /\ Done(c)
  /\ UNCHANGED <<op, entry, worker, notified, retries>>

\* The recovery cron asks again for a pipeline that was requested.
RecoverRequest(c) ==
  /\ At(c, "idle") /\ c \in Crons
  /\ op.status = "reserved" /\ Unfinished /\ clips.pipelineRetryRequested
  /\ Goto(c, "claim")
  /\ UNCHANGED <<op, clips, entry, worker, notified, retries>>

\* JobsCompletionService.publish, of the crons and of the handlers alike.
PublishRead(c) ==
  /\ At(c, "idle") /\ c \in Crons
  /\ Exists /\ clips.status \in Terminal /\ ~clips.completionPublished
  /\ caller' = [caller EXCEPT ![c] =
       [pc |-> "notify", read |-> clips.status, then |-> "idle"]]
  /\ UNCHANGED <<op, clips, entry, worker, notified, retries>>

\* Keyed by the outcome, so telling it twice is telling it once.
Notify(c) ==
  /\ At(c, "notify")
  /\ notified' = notified \cup {caller[c].read}
  /\ Goto(c, "mark")
  /\ UNCHANGED <<op, clips, entry, worker, retries>>

\* Mutant: the mark does not ask for the outcome that was told.
Mutant_Markable(status) == TRUE

\* The filter of markCompletionPublished.
Markable(status) == clips.status = status

MarkCompletionPublished(c) ==
  /\ At(c, "mark")
  /\ clips' = IF Markable(caller[c].read)
              THEN [clips EXCEPT !.completionPublished = TRUE] ELSE clips
  /\ Done(c)
  /\ UNCHANGED <<op, entry, worker, notified, retries>>

\* A call of a dispatch fails: its token goes back, its caller gives up.
DispatchFails(c) ==
  /\ caller[c].pc \in {"read", "add", "retry", "clear"} /\ c \in Requests
  /\ caller' = [caller EXCEPT ![c] =
       [pc |-> "pull", read |-> None, then |-> "idle"]]
  /\ UNCHANGED <<op, clips, entry, worker, notified, retries>>

\* A request dies, or is refused because the job was retried meanwhile.
CallerDies(c) ==
  /\ ~At(c, "idle") /\ c \in Requests
  /\ clips' = IF Exists /\ c \in clips.activeExecutions
              THEN [Returned(c) EXCEPT !.activeExecutions = @ \cup {"lost"}]
              ELSE clips
  /\ Done(c)
  /\ UNCHANGED <<op, entry, worker, notified, retries>>

-----------------------------------------------------------------------------
(* The recovery cron on the operation, and rendering *)

\* Ten minutes pass.
Age ==
  /\ op.status = "reserved" /\ ~op.aged /\ ~Exists
  /\ op' = [op EXCEPT !.aged = TRUE]
  /\ UNCHANGED <<clips, entry, worker, caller, notified, retries>>

Settled == [op EXCEPT !.status = "settled"]

\* An authorization whose job was not created in ten minutes.
Orphaned == ~Exists /\ op.aged

\* The gate of settle: the job is missing, or has ended with nothing running.
Settle ==
  /\ op.status = "reserved"
  /\ \/ Orphaned
     \/ Exists /\ clips.status \in Terminal /\ clips.activeExecutions = {}
  /\ op' = Settled
  /\ UNCHANGED <<clips, entry, worker, caller, notified, retries>>

\* recoverExecutionLeases, while the operation is reserved.
RecoverLease ==
  /\ op.status = "reserved" /\ Exists
  /\ "lost" \in clips.activeExecutions /\ entry.state # "active"
  /\ clips' = Returned("lost")
  /\ UNCHANGED <<op, entry, worker, caller, notified, retries>>

\* What ClipJob models: the renders end the job, and its publication is owed.
RenderingEnds ==
  /\ Exists /\ clips.status = "cutting"
  /\ \E status \in Terminal :
       clips' = [clips EXCEPT !.status = status, !.completionPublished = FALSE]
  /\ UNCHANGED <<op, entry, worker, caller, notified, retries>>

Next ==
  \/ \E c \in Callers :
       \/ Reserve(c) \/ Save(c)
       \/ DispatchClaim(c) \/ DispatchRead(c) \/ DispatchAdd(c)
       \/ DispatchClear(c) \/ DispatchPull(c)
       \/ RetryRead(c) \/ RetryJob(c) \/ RecoverRequest(c)
       \/ Reconcile(c) \/ ReconcileCheck(c) \/ ReconcileFail(c)
       \/ PublishRead(c) \/ Notify(c) \/ MarkCompletionPublished(c)
       \/ DispatchFails(c) \/ CallerDies(c)
  \/ \E w \in Workers :
       \/ Take(w) \/ Start(w) \/ Budget(w) \/ Progress(w)
       \/ PrepareRenderManifest(w) \/ FanOut(w) \/ WorkFails(w)
       \/ ErrorRead(w) \/ ErrorWrite(w) \/ Release(w) \/ EndEntry(w)
       \/ OnFailed(w) \/ Crash(w)
  \/ Stalled \/ Age \/ Settle \/ RecoverLease \/ RenderingEnds

\* A caller goes on with what it has begun.
Advance(c) ==
  \/ Save(c) \/ DispatchClaim(c) \/ DispatchRead(c) \/ DispatchAdd(c)
  \/ DispatchClear(c) \/ DispatchPull(c) \/ ReconcileCheck(c)
  \/ ReconcileFail(c) \/ Notify(c) \/ MarkCompletionPublished(c)

\* A worker goes on with its entry, however long it takes, or dies.
Work(w) ==
  \/ Take(w) \/ Start(w) \/ Budget(w) \/ PrepareRenderManifest(w) \/ FanOut(w)
  \/ WorkFails(w) \/ ErrorRead(w) \/ ErrorWrite(w) \/ Release(w) \/ EndEntry(w)
  \/ OnFailed(w) \/ Crash(w)

\* What the crons, the queue and the clock do, and nothing a user does.  Of
\* the runs of a cron, one gets through.
Fairness ==
  /\ \A c \in Callers : WF_vars(Advance(c))
  /\ \A c \in Crons : SF_vars(Reconcile(c)) /\ SF_vars(PublishRead(c))
  /\ \A w \in Workers : WF_vars(Work(w))
  /\ WF_vars(Stalled) /\ WF_vars(Age) /\ WF_vars(Settle) /\ WF_vars(RecoverLease)

Spec == Init /\ [][Next]_vars /\ Fairness

-----------------------------------------------------------------------------
(* Properties *)

Rendering == Exists /\ clips.status = "cutting"
Untold ==
  Exists /\ clips.status \in Terminal /\ ~clips.completionPublished

\* Expensive work and rendering only happen on credits that are held, although
\* a hold may be released while its job is being created, and a failed job be
\* reopened, reconciled and redelivered at the same time.
WorkIsAuthorized ==
  (\E w \in Workers : Here(w, "work")) \/ Rendering => op.status = "reserved"

\* No outcome is marked as published but one that the user was told, although
\* the job may be retried and end otherwise while it is being published.
PublishedWasTold ==
  [][Exists /\ ~clips.completionPublished /\ clips'.completionPublished
       => clips'.status \in notified]_vars

\* retryJob has put a job back before the manifest that was written since it
\* read the job.  Neither a worker nor a cron goes on with it.
Misplaced ==
  Exists /\ clips.status = "pending" /\ clips.renderManifestReady

\* Wherever requests and workers die, held credits come to an end: the job
\* reaches its manifest, or the hold is released, unless a stale retry lost
\* the job; and the user is told of a job that ended, unless it is retried.
AdmissionEnds ==
  /\ (op.status = "reserved" /\ ~Rendering)
       ~> (op.status = "settled" \/ Rendering \/ Misplaced)
  /\ Untold ~> ~Untold

=============================================================================
