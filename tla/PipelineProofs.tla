--------------------------- MODULE PipelineProofs ---------------------------
(***************************************************************************)
(* Proofs about ClipPipeline and PipelineCache, for any number of workers, *)
(* requests, crons and jobs that share a source, and of the composition    *)
(* that the run MCPipeline checks.                                         *)
(*                                                                         *)
(* Pipeline: a hold is released only under a job that has ended and that   *)
(* nobody executes; a worker gives its token back after the last write it  *)
(* may make, so the status it read before an error cannot bring back a     *)
(* rendering whose hold is gone.                                           *)
(*                                                                         *)
(* Cache: whatever a job found wanting stays unusable, and what is stored  *)
(* later has another id, so no deletion meets a usable artifact.           *)
(***************************************************************************)
EXTENDS MCPipeline, TLAPS

-----------------------------------------------------------------------------
(* The pipeline: the inductive invariant *)

\* A worker between its token's claim and its return.
BusyPlaces ==
  {"start", "budget", "work", "fan out", "error", "write", "release"}
Busy(w) == worker[w].pc \in BusyPlaces

\* Whoever is past the creation has a document to read and write.
JobExists ==
  /\ \A c \in Callers : caller[c].pc \notin {"idle", "save"} => Exists
  /\ \A w \in Workers : worker[w].pc # "idle" => Exists
  /\ entry.state # "none" => Exists

\* A busy worker's token is in the document, and the entry is its own until it
\* has ended, one way or another.
WorkersHold ==
  \A w \in Workers :
    /\ Busy(w) => w \in clips.activeExecutions
    /\ Busy(w) \/ Here(w, "end") => entry.state = "active" /\ entry.owner = w
    /\ worker[w].pc \in {"error", "write", "release", "end"} =>
         /\ worker[w].ends \in {"waiting", "failed", "completed"}
         /\ worker[w].ends = "waiting" => entry.redeliveries < MaxRedeliveries

\* The status a worker is about to write back was read under its token.
WritesAuthorized ==
  \A w \in Workers :
    Here(w, "write") =>
      /\ worker[w].read \in JobStatuses
      /\ worker[w].read = "cutting" => op.status = "reserved"

\* An outcome that is about to be told is one, one that is about to be marked
\* was told, and a retry knows where its job is to go on.
CallersRead ==
  \A c \in Callers :
    /\ At(c, "notify") => caller[c].read \in Terminal
    /\ At(c, "mark") => caller[c].read \in notified
    /\ At(c, "reopen") => caller[c].read \in {"cutting", "pending"}

PipelineInv ==
  /\ TypeOK /\ JobExists /\ WorkersHold /\ WritesAuthorized /\ CallersRead
  /\ WorkIsAuthorized

-----------------------------------------------------------------------------
(* The pipeline: what a step does to each document *)

OpSet == [status : {"none", "reserved", "settled"}, aged : BOOLEAN]

EntrySet == [state : {"none", "waiting", "active", "failed", "completed"},
             owner : Workers \cup {None}, redeliveries : 0..MaxRedeliveries]

CallerPlaces == {"idle", "save", "claim", "read", "add", "retry", "clear",
                 "pull", "check", "fail", "notify", "mark", "reopen"}

Readings == {None} \cup JobStatuses \cup {"reserved", "settled"}

CallerSet == [pc : CallerPlaces, read : Readings, then : {"idle", "check"}]

\* A caller is at a place with what it read, and the others stay.
CallerAt(c, place, read) ==
  /\ caller' \in [Callers -> CallerSet]
  /\ caller'[c].pc = place /\ caller'[c].read = read
  /\ \A d \in Callers \ {c} : caller'[d] = caller[d]

\* The job stays there, with the tokens of the workers.
JobKept ==
  /\ clips' \in Job \cup {None}
  /\ Exists => /\ clips' # None
               /\ Workers \cap clips.activeExecutions
                    \subseteq clips'.activeExecutions

LEMMA GotoAt ==
  ASSUME TypeOK, NEW c \in Callers, NEW place \in CallerPlaces, Goto(c, place)
  PROVE  CallerAt(c, place, caller[c].read)
BY DEF TypeOK, Goto, CallerAt, CallerSet, CallerPlaces, Readings

LEMMA DoneAt ==
  ASSUME TypeOK, NEW c \in Callers, Done(c)
  PROVE  CallerAt(c, "idle", None)
BY DEF TypeOK, Done, Rest, CallerAt, CallerSet, CallerPlaces, Readings

LEMMA ResumesAt ==
  ASSUME TypeOK, NEW c \in Callers, NEW place \in CallerPlaces,
         NEW read \in Readings, NEW then \in {"idle", "check"},
         caller' = [caller EXCEPT ![c] =
                      [pc |-> place, read |-> read, then |-> then]]
  PROVE  CallerAt(c, place, read)
BY DEF TypeOK, CallerAt, CallerSet, CallerPlaces, Readings

\* Taking a token, and giving back one that is no worker's.
LEMMA TokensKept ==
  ASSUME TypeOK, Exists, NEW t \in Tokens,
         clips' = Holding(t) \/ (t \notin Workers /\ clips' = Returned(t))
  PROVE  JobKept /\ Exists' /\ clips'.status = clips.status
                 /\ clips'.completionPublished = clips.completionPublished
<1>1. clips \in Job
  BY DEF TypeOK, Exists
<1>2. CASE clips' = Holding(t)
  <2>1. /\ clips' \in Job /\ clips'.status = clips.status
        /\ clips'.completionPublished = clips.completionPublished
        /\ clips'.activeExecutions = clips.activeExecutions \cup {t}
    BY <1>1, <1>2 DEF Holding, Job
  <2> QED BY <2>1, JobAssumption DEF JobKept, Exists
<1>3. CASE t \notin Workers /\ clips' = Returned(t)
  <2>1. /\ clips' \in Job /\ clips'.status = clips.status
        /\ clips'.completionPublished = clips.completionPublished
        /\ clips'.activeExecutions = clips.activeExecutions \ {t}
    BY <1>1, <1>3 DEF Returned, Job
  <2> QED BY <1>3, <2>1, JobAssumption DEF JobKept, Exists
<1> QED BY <1>2, <1>3

\* Writes to the job that leave its tokens alone.
LEMMA FieldsKept ==
  ASSUME TypeOK, Exists, clips' \in Job,
         clips'.activeExecutions = clips.activeExecutions
  PROVE  JobKept /\ Exists'
BY JobAssumption DEF JobKept, Exists

LEMMA JobUntouched ==
  ASSUME TypeOK, UNCHANGED clips
  PROVE  JobKept /\ (Exists' <=> Exists) /\ (Rendering' <=> Rendering)
BY DEF TypeOK, JobKept, Exists, Rendering

\* A step of a caller keeps the invariant if it takes no token of a worker and
\* no entry of one, and starts no rendering without a hold.
LEMMA CallerSteps ==
  ASSUME PipelineInv, NEW c \in Callers, NEW place, NEW read,
         CallerAt(c, place, read), JobKept,
         place \notin {"idle", "save"} => Exists',
         place = "notify" => read \in Terminal,
         place = "mark" => read \in notified',
         place = "reopen" => read \in {"cutting", "pending"},
         notified \subseteq notified', notified' \subseteq Terminal,
         entry' \in EntrySet, entry.state = "active" => entry' = entry,
         entry'.owner # None => entry'.state = "active",
         entry'.state # "none" => Exists',
         op' \in OpSet, op.status = "reserved" => op'.status = "reserved",
         Rendering' => Rendering \/ op'.status = "reserved",
         retries' \in 0..MaxRetries, UNCHANGED worker
  PROVE  PipelineInv'
<1>1. TypeOK'
  BY DEF PipelineInv, TypeOK, CallerAt, CallerSet, CallerPlaces, Readings,
         EntrySet, OpSet, JobKept
<1>2. JobExists'
  BY DEF PipelineInv, JobExists, CallerAt, JobKept, Exists
<1>3. WorkersHold'
  BY DEF PipelineInv, WorkersHold, JobExists, JobKept, Busy, BusyPlaces, Here,
         Exists
<1>4. WritesAuthorized'
  BY DEF PipelineInv, WritesAuthorized, Here
<1>5. CallersRead'
  BY DEF PipelineInv, CallersRead, CallerAt, At
<1>6. WorkIsAuthorized'
  BY DEF PipelineInv, WorkIsAuthorized, Here
<1> QED BY <1>1, <1>2, <1>3, <1>4, <1>5, <1>6 DEF PipelineInv

-----------------------------------------------------------------------------
(* The pipeline: the steps of callers *)

\* A caller that leaves the job, the entry and the operation alone.
LEMMA CallerMoves ==
  ASSUME PipelineInv, NEW c \in Callers, NEW place, NEW read,
         CallerAt(c, place, read), place \notin {"idle", "save"} => Exists,
         place = "notify" => read \in Terminal,
         place = "mark" => read \in notified,
         place = "reopen" => read \in {"cutting", "pending"},
         UNCHANGED <<op, clips, entry, worker, notified, retries>>
  PROVE  PipelineInv'
<1>1. JobKept /\ (Exists' <=> Exists) /\ (Rendering' <=> Rendering)
  BY JobUntouched DEF PipelineInv
<1>2. op \in OpSet /\ entry \in EntrySet /\ notified \subseteq Terminal
      /\ retries \in 0..MaxRetries
      /\ (entry.owner # None => entry.state = "active")
  BY DEF PipelineInv, TypeOK, OpSet, EntrySet
<1>3. entry.state # "none" => Exists
  BY DEF PipelineInv, JobExists
<1> QED BY <1>1, <1>2, <1>3, CallerSteps

\* A caller that writes the job.
LEMMA CallerWrites ==
  ASSUME PipelineInv, NEW c \in Callers, NEW place, NEW read,
         CallerAt(c, place, read), JobKept, Exists',
         place \notin {"notify", "mark", "reopen"},
         Rendering' => Rendering \/ op.status = "reserved",
         UNCHANGED <<op, entry, worker, notified, retries>>
  PROVE  PipelineInv'
<1>1. op \in OpSet /\ entry \in EntrySet /\ notified \subseteq Terminal
      /\ retries \in 0..MaxRetries
      /\ (entry.owner # None => entry.state = "active")
  BY DEF PipelineInv, TypeOK, OpSet, EntrySet
<1> QED BY <1>1, CallerSteps

LEMMA PipelineReserve ==
  ASSUME PipelineInv, NEW c \in Callers, Reserve(c)
  PROVE  PipelineInv'
<1>1. /\ CallerAt(c, "save", caller[c].read)
      /\ UNCHANGED <<clips, entry, worker, notified, retries>>
  BY GotoAt DEF PipelineInv, Reserve, CallerPlaces
<1>2. op' \in OpSet /\ op'.status = "reserved"
  BY DEF PipelineInv, TypeOK, Reserve, OpSet
<1>3. JobKept /\ (Exists' <=> Exists) /\ (Rendering' <=> Rendering)
  BY <1>1, JobUntouched DEF PipelineInv
<1>4. entry \in EntrySet /\ notified \subseteq Terminal
      /\ retries \in 0..MaxRetries
      /\ (entry.owner # None => entry.state = "active")
      /\ (entry.state # "none" => Exists)
  BY DEF PipelineInv, TypeOK, EntrySet, JobExists
<1> QED BY <1>1, <1>2, <1>3, <1>4, CallerSteps

LEMMA PipelineSave ==
  ASSUME PipelineInv, NEW c \in Callers, Save(c)
  PROVE  PipelineInv'
<1>1. UNCHANGED <<entry, worker, notified, retries>>
  BY DEF Save
<1>2. op' \in OpSet /\ op'.status = op.status
  BY DEF PipelineInv, TypeOK, Save, OpSet
<1>3. entry \in EntrySet /\ notified \subseteq Terminal
      /\ retries \in 0..MaxRetries
      /\ (entry.owner # None => entry.state = "active")
      /\ (entry.state # "none" => Exists)
  BY DEF PipelineInv, TypeOK, EntrySet, JobExists
<1>4. CASE Exists
  <2>1. CallerAt(c, "idle", None) /\ UNCHANGED clips
    BY <1>4, DoneAt DEF PipelineInv, Save
  <2>2. JobKept /\ (Exists' <=> Exists) /\ (Rendering' <=> Rendering)
    BY <2>1, JobUntouched DEF PipelineInv
  <2> QED BY <1>1, <1>2, <1>3, <2>1, <2>2, CallerSteps
<1>5. CASE ~Exists
  <2>1. CallerAt(c, "claim", caller[c].read)
    BY <1>5, GotoAt DEF PipelineInv, Save, CallerPlaces
  <2>2. clips' \in Job /\ clips'.status = "pending"
    <3> DEFINE fresh == [status |-> "pending", pipelineRetryRequested |-> TRUE,
                         renderManifestReady |-> FALSE,
                         completionPublished |-> FALSE,
                         activeExecutions |-> {}]
    <3>1. clips' = fresh
      BY <1>5 DEF Save
    <3>2. fresh \in Job /\ fresh.status = "pending"
      BY DEF Job, JobStatuses
    <3> QED BY <3>1, <3>2
  <2>3. JobKept /\ Exists' /\ ~Rendering'
    BY <1>5, <2>2, JobAssumption DEF JobKept, Exists, Rendering
  <2> QED BY <1>1, <1>2, <1>3, <2>1, <2>3, CallerSteps
<1> QED BY <1>4, <1>5

LEMMA PipelineDispatch ==
  ASSUME PipelineInv, NEW c \in Callers,
         \/ DispatchClaim(c) \/ DispatchRead(c) \/ DispatchClear(c)
         \/ DispatchPull(c)
  PROVE  PipelineInv'
<1>1. Exists /\ c \in Tokens \ Workers /\ clips \in Job
  BY IdsAssumption DEF PipelineInv, TypeOK, JobExists, Exists, At, Callers,
     Tokens, DispatchClaim, DispatchRead, DispatchClear, DispatchPull
<1>2. UNCHANGED <<op, entry, worker, notified, retries>>
  BY DEF DispatchClaim, DispatchRead, DispatchClear, DispatchPull
<1>3. CASE DispatchClaim(c)
  <2>1. CallerAt(c, "read", caller[c].read)
    BY <1>3, GotoAt DEF PipelineInv, DispatchClaim, CallerPlaces
  <2>2. JobKept /\ Exists' /\ (Rendering' => Rendering)
    <3>1. clips' = Holding(c)
      BY <1>3 DEF DispatchClaim
    <3>2. TypeOK /\ c \in Tokens
      BY <1>1 DEF PipelineInv
    <3>3. JobKept /\ Exists' /\ clips'.status = clips.status
      BY <1>1, <3>1, <3>2, TokensKept
    <3> QED BY <1>1, <3>3 DEF Rendering
  <2> QED BY <1>2, <2>1, <2>2, CallerWrites
<1>4. CASE DispatchRead(c)
  <2>1. PICK place \in {"pull", "retry", "add"} : Goto(c, place)
    BY <1>4 DEF DispatchRead
  <2>2. CallerAt(c, place, caller[c].read)
    BY <2>1, GotoAt DEF PipelineInv, CallerPlaces
  <2>3. UNCHANGED clips
    BY <1>4 DEF DispatchRead
  <2> QED BY <1>1, <1>2, <2>2, <2>3, CallerMoves
<1>5. CASE DispatchClear(c)
  <2>1. CallerAt(c, "pull", caller[c].read)
    BY <1>5, GotoAt DEF PipelineInv, DispatchClear, CallerPlaces
  <2>2. /\ clips' \in Job /\ clips'.status = clips.status
        /\ clips'.activeExecutions = clips.activeExecutions
    BY <1>1, <1>5 DEF DispatchClear, Job
  <2>3. JobKept /\ Exists' /\ (Rendering' => Rendering)
    BY <1>1, <2>2, FieldsKept DEF PipelineInv, Rendering
  <2> QED BY <1>2, <2>1, <2>3, CallerWrites
<1>6. CASE DispatchPull(c)
  <2>1. CallerAt(c, caller[c].then, None) /\ caller[c].then \in {"idle", "check"}
    <3>1. caller[c].then \in {"idle", "check"}
      BY DEF PipelineInv, TypeOK
    <3> QED BY <1>6, <3>1, ResumesAt
               DEF PipelineInv, DispatchPull, CallerPlaces, Readings
  <2>2. JobKept /\ Exists' /\ (Rendering' => Rendering)
    BY <1>1, <1>6, TokensKept DEF PipelineInv, DispatchPull, Rendering
  <2> QED BY <1>2, <2>1, <2>2, CallerWrites
<1> QED BY <1>3, <1>4, <1>5, <1>6

\* A dispatch changes only an entry that no worker holds.
LEMMA PipelineAdd ==
  ASSUME PipelineInv, NEW c \in Callers, DispatchAdd(c)
  PROVE  PipelineInv'
<1>1. /\ CallerAt(c, "clear", caller[c].read) /\ Exists
      /\ UNCHANGED <<op, clips, worker, notified, retries>>
  BY GotoAt DEF PipelineInv, JobExists, At, DispatchAdd, CallerPlaces
<1>2. JobKept /\ (Exists' <=> Exists) /\ (Rendering' <=> Rendering)
  BY <1>1, JobUntouched DEF PipelineInv
<1>3. /\ entry' \in EntrySet /\ (entry.state = "active" => entry' = entry)
      /\ entry'.owner # None => entry'.state = "active"
  <2>1. entry \in EntrySet /\ (entry.owner # None => entry.state = "active")
    BY DEF PipelineInv, TypeOK, EntrySet
  <2>2. Waiting \in EntrySet /\ Waiting.owner = None
    BY BoundsAssumption DEF Waiting, EntrySet
  <2>3. entry' = entry \/ (entry' = Waiting /\ entry.state # "active")
    <3>1. entry' = Added(At(c, "retry"))
      BY DEF DispatchAdd
    <3>2. CASE entry.state = "none"
      BY <3>1, <3>2 DEF Added
    <3>3. CASE entry.state # "none"
      BY <3>1, <3>3 DEF Added
    <3> QED BY <3>2, <3>3
  <2>4. CASE entry' = entry
    BY <2>1, <2>4
  <2>5. CASE entry' = Waiting /\ entry.state # "active"
    <3> HIDE DEF Waiting
    <3> QED BY <2>2, <2>5
  <2> QED BY <2>3, <2>4, <2>5
<1>4. op \in OpSet /\ notified \subseteq Terminal /\ retries \in 0..MaxRetries
  BY DEF PipelineInv, TypeOK, OpSet
<1> QED BY <1>1, <1>2, <1>3, <1>4, CallerSteps

\* A retry reads the job that failed ...
LEMMA PipelineRetryRead ==
  ASSUME PipelineInv, NEW c \in Callers, RetryRead(c)
  PROVE  PipelineInv'
<1>1. Exists /\ UNCHANGED <<op, clips, entry, worker, notified, retries>>
  BY DEF RetryRead
<1>2. PICK read \in {"cutting", "pending"} :
        caller' = [caller EXCEPT ![c] =
                     [pc |-> "reopen", read |-> read, then |-> "idle"]]
  BY DEF RetryRead
<1>3. CallerAt(c, "reopen", read)
  BY <1>2, ResumesAt DEF PipelineInv, CallerPlaces, Readings, JobStatuses
<1> QED BY <1>1, <1>3, CallerMoves

\* ... and reopens it where that reading says.
LEMMA PipelineRetry ==
  ASSUME PipelineInv, NEW c \in Callers, RetryJob(c)
  PROVE  PipelineInv'
<1>1. /\ Exists /\ clips \in Job /\ UNCHANGED <<entry, worker, notified>>
      /\ caller[c].read \in {"cutting", "pending"}
  BY DEF PipelineInv, TypeOK, JobExists, CallersRead, Exists, At, RetryJob
<1>2. /\ clips' \in Job
      /\ clips'.activeExecutions = clips.activeExecutions
  <2>1. PICK status \in {"cutting", "pending"}, requested \in BOOLEAN :
          clips' = [clips EXCEPT !.status = status,
                                 !.completionPublished = FALSE,
                                 !.pipelineRetryRequested = requested]
    BY <1>1 DEF RetryJob
  <2> QED BY <1>1, <2>1 DEF Job, JobStatuses
<1>3. JobKept /\ Exists'
  BY <1>1, <1>2, FieldsKept DEF PipelineInv
<1>4. op' \in OpSet /\ op'.status = "reserved"
  BY DEF PipelineInv, TypeOK, RetryJob, OpSet
<1>5. retries' \in 0..MaxRetries
  <2>1. retries \in 0..MaxRetries /\ retries < MaxRetries
        /\ retries' = retries + 1
    BY DEF PipelineInv, TypeOK, RetryJob
  <2> QED BY <2>1, BoundsAssumption
<1>6. PICK place \in {"idle", "claim"} : CallerAt(c, place, None)
  <2>1. CASE caller[c].read = "pending"
    <3>1. caller' = [caller EXCEPT ![c] = [Rest EXCEPT !.pc = "claim"]]
      BY <2>1 DEF RetryJob
    <3>2. [Rest EXCEPT !.pc = "claim"]
            = [pc |-> "claim", read |-> None, then |-> "idle"]
      BY DEF Rest
    <3>3. CallerAt(c, "claim", None)
      BY <3>1, <3>2, ResumesAt DEF PipelineInv, CallerPlaces, Readings
    <3> QED BY <3>3
  <2>2. CASE caller[c].read # "pending"
    <3>1. CallerAt(c, "idle", None)
      BY <2>2, ResumesAt DEF PipelineInv, RetryJob, Rest, CallerPlaces, Readings
    <3> QED BY <3>1
  <2> QED BY <2>1, <2>2
<1>7. entry \in EntrySet /\ notified \subseteq Terminal
      /\ (entry.owner # None => entry.state = "active")
  BY DEF PipelineInv, TypeOK, EntrySet
<1> QED BY <1>1, <1>3, <1>4, <1>5, <1>6, <1>7, CallerSteps

\* Reconciliation, and what the crons ask for.
LEMMA PipelineReconcile ==
  ASSUME PipelineInv, NEW c \in Callers,
         \/ Reconcile(c) \/ ReconcileCheck(c) \/ ReconcileFail(c)
         \/ RecoverRequest(c) \/ DispatchFails(c)
  PROVE  PipelineInv'
<1>1. TypeOK /\ Exists /\ clips \in Job
  BY DEF PipelineInv, TypeOK, JobExists, Exists, At, Unfinished, Reconcile,
     ReconcileCheck, ReconcileFail, RecoverRequest, DispatchFails
<1>2. UNCHANGED <<op, entry, worker, notified, retries>>
  BY DEF Reconcile, ReconcileCheck, ReconcileFail, RecoverRequest, DispatchFails
<1>3. CASE Reconcile(c)
  <2>1. CASE clips.pipelineRetryRequested
    <3>1. CallerAt(c, "claim", None)
      BY <1>1, <1>3, <2>1, ResumesAt DEF Reconcile, CallerPlaces, Readings
    <3> QED BY <1>1, <1>3, <3>1, CallerMoves DEF Reconcile
  <2>2. CASE ~clips.pipelineRetryRequested
    <3>1. CallerAt(c, "check", None)
      BY <1>1, <1>3, <2>2, ResumesAt DEF Reconcile, CallerPlaces, Readings
    <3> QED BY <1>1, <1>3, <3>1, CallerMoves DEF Reconcile
  <2> QED BY <2>1, <2>2
<1>4. CASE ReconcileCheck(c)
  <2>1. CASE Dead
    <3>1. CallerAt(c, "fail", caller[c].read)
      BY <1>1, <1>4, <2>1, GotoAt DEF ReconcileCheck, CallerPlaces
    <3> QED BY <1>1, <1>4, <3>1, CallerMoves DEF ReconcileCheck
  <2>2. CASE ~Dead
    <3>1. CallerAt(c, "idle", None)
      BY <1>1, <1>4, <2>2, DoneAt DEF ReconcileCheck
    <3> QED BY <1>4, <3>1, CallerMoves DEF ReconcileCheck
  <2> QED BY <2>1, <2>2
<1>5. CASE ReconcileFail(c)
  <2>1. CallerAt(c, "idle", None)
    BY <1>1, <1>5, DoneAt DEF ReconcileFail
  <2>2. /\ clips' \in Job /\ clips'.status = "failed"
        /\ clips'.activeExecutions = clips.activeExecutions
    BY <1>1, <1>5 DEF ReconcileFail, Job, JobStatuses, Terminal
  <2>3. JobKept /\ Exists' /\ ~Rendering'
    BY <1>1, <2>2, FieldsKept DEF Rendering
  <2> QED BY <1>2, <2>1, <2>3, CallerWrites
<1>6. CASE RecoverRequest(c)
  <2>1. CallerAt(c, "claim", caller[c].read)
    BY <1>1, <1>6, GotoAt DEF RecoverRequest, CallerPlaces
  <2> QED BY <1>1, <1>6, <2>1, CallerMoves DEF RecoverRequest
<1>7. CASE DispatchFails(c)
  <2>1. CallerAt(c, "pull", None)
    BY <1>1, <1>7, ResumesAt DEF DispatchFails, CallerPlaces, Readings
  <2> QED BY <1>1, <1>7, <2>1, CallerMoves DEF DispatchFails
<1> QED BY <1>3, <1>4, <1>5, <1>6, <1>7

\* Publication: an outcome is read, told, and marked as told.
LEMMA PipelinePublish ==
  ASSUME PipelineInv, NEW c \in Callers,
         PublishRead(c) \/ Notify(c) \/ MarkCompletionPublished(c)
  PROVE  PipelineInv'
<1>1. TypeOK /\ Exists /\ clips \in Job
  BY DEF PipelineInv, TypeOK, JobExists, Exists, At, PublishRead, Notify,
     MarkCompletionPublished
<1>2. UNCHANGED <<op, entry, worker, retries>>
  BY DEF PublishRead, Notify, MarkCompletionPublished
<1>3. CASE PublishRead(c)
  <2>1. clips.status \in Terminal /\ clips.status \in Readings
    BY <1>3 DEF PublishRead, Readings, JobStatuses
  <2>2. CallerAt(c, "notify", clips.status)
    BY <1>1, <1>3, <2>1, ResumesAt DEF PublishRead, CallerPlaces
  <2> QED BY <1>1, <1>3, <2>1, <2>2, CallerMoves DEF PublishRead
<1>4. CASE Notify(c)
  <2>1. CallerAt(c, "mark", caller[c].read) /\ UNCHANGED clips
    BY <1>1, <1>4, GotoAt DEF Notify, CallerPlaces
  <2>2. caller[c].read \in Terminal
    BY <1>4 DEF PipelineInv, CallersRead, Notify
  <2>3. notified' = notified \cup {caller[c].read}
    BY <1>4 DEF Notify
  <2>4. op \in OpSet /\ entry \in EntrySet /\ notified \subseteq Terminal
        /\ retries \in 0..MaxRetries
        /\ (entry.owner # None => entry.state = "active")
        /\ (entry.state # "none" => Exists)
    BY DEF PipelineInv, TypeOK, OpSet, EntrySet, JobExists
  <2>5. JobKept /\ (Exists' <=> Exists) /\ (Rendering' <=> Rendering)
    BY <1>1, <2>1, JobUntouched
  <2> QED BY <1>1, <1>2, <2>1, <2>2, <2>3, <2>4, <2>5, CallerSteps
<1>5. CASE MarkCompletionPublished(c)
  <2>1. CallerAt(c, "idle", None)
    BY <1>1, <1>5, DoneAt DEF MarkCompletionPublished
  <2>2. /\ clips' \in Job /\ clips'.status = clips.status
        /\ clips'.activeExecutions = clips.activeExecutions
    BY <1>1, <1>5 DEF MarkCompletionPublished, Job
  <2>3. JobKept /\ Exists' /\ (Rendering' => Rendering)
    BY <1>1, <2>2, FieldsKept DEF Rendering
  <2>4. UNCHANGED notified
    BY <1>5 DEF MarkCompletionPublished
  <2> QED BY <1>2, <2>1, <2>3, <2>4, CallerWrites
<1> QED BY <1>3, <1>4, <1>5

\* A request that dies leaves its token behind as a lost one.
LEMMA PipelineDies ==
  ASSUME PipelineInv, NEW c \in Callers, CallerDies(c)
  PROVE  PipelineInv'
<1>1. TypeOK /\ c \notin Workers /\ "lost" \notin Workers
  BY IdsAssumption DEF PipelineInv, CallerDies, Callers
<1>2. CallerAt(c, "idle", None)
      /\ UNCHANGED <<op, entry, worker, notified, retries>>
  BY <1>1, DoneAt DEF CallerDies
<1>3. CASE Exists /\ c \in clips.activeExecutions
  <2>1. clips \in Job
    BY <1>1, <1>3 DEF TypeOK, Exists
  <2>2. clips' = [Returned(c) EXCEPT !.activeExecutions = @ \cup {"lost"}]
    BY <1>3 DEF CallerDies
  <2>3. /\ clips' \in Job /\ clips'.status = clips.status
        /\ clips'.activeExecutions
             = (clips.activeExecutions \ {c}) \cup {"lost"}
    BY <2>1, <2>2 DEF Job, Returned, Tokens
  <2>4. JobKept /\ Exists'
    BY <1>1, <2>1, <2>3, JobAssumption DEF JobKept, Exists
  <2>5. Rendering' => Rendering
    BY <1>3, <2>3 DEF Rendering
  <2> QED BY <1>2, <2>4, <2>5, CallerWrites
<1>4. CASE ~(Exists /\ c \in clips.activeExecutions)
  <2>1. UNCHANGED clips
    BY <1>4 DEF CallerDies
  <2> QED BY <1>2, <2>1, CallerMoves
<1> QED BY <1>3, <1>4

-----------------------------------------------------------------------------
(* The pipeline: the steps of workers *)

WorkerSet == [pc : {"idle", "start", "budget", "work", "fan out", "error",
                    "write", "release", "end", "event"},
              read : JobStatuses \cup {None},
              ends : {None, "waiting", "failed", "completed"}]

\* A worker is at a place with what it read and what its entry will be, and the
\* others stay.
WorkerAt(w, place, read, ends) ==
  /\ worker' \in [Workers -> WorkerSet]
  /\ worker'[w].pc = place /\ worker'[w].read = read /\ worker'[w].ends = ends
  /\ \A v \in Workers \ {w} : worker'[v] = worker[v]

\* The job stays there, with the tokens of the other workers.
OthersKept(w) ==
  /\ clips' \in Job \cup {None}
  /\ Exists => /\ clips' # None
               /\ (Workers \ {w}) \cap clips.activeExecutions
                    \subseteq clips'.activeExecutions

Raised == {"error", "write", "release", "end"}

\* What a worker that gets to a place has to find in the documents.
Holds(w, place, read, ends) ==
  /\ place # "idle" => Exists'
  /\ place \in BusyPlaces => w \in clips'.activeExecutions
  /\ place \in BusyPlaces \cup {"end"} =>
       entry'.state = "active" /\ entry'.owner = w
  /\ place \in Raised =>
       /\ ends \in {"waiting", "failed", "completed"}
       /\ ends = "waiting" => entry'.redeliveries < MaxRedeliveries
  /\ place = "write" =>
       read \in JobStatuses /\ (read = "cutting" => op.status = "reserved")
  /\ place = "work" => op.status = "reserved"

\* A step of a worker keeps the invariant if it meets what its new place asks
\* for, takes no token of another worker, and changes no entry of another.
LEMMA WorkerSteps ==
  ASSUME PipelineInv, NEW w \in Workers, NEW place, NEW read, NEW ends,
         WorkerAt(w, place, read, ends), OthersKept(w),
         Holds(w, place, read, ends),
         entry' \in EntrySet,
         entry'.owner # None => entry'.state = "active",
         entry'.state # "none" => Exists',
         entry' = entry \/ entry.owner \in {None, w},
         Rendering' => op.status = "reserved",
         UNCHANGED <<op, caller, notified, retries>>
  PROVE  PipelineInv'
<1>1. TypeOK'
  BY DEF PipelineInv, TypeOK, WorkerAt, WorkerSet, EntrySet, OthersKept
<1>2. JobExists'
  <2>1. Exists => Exists'
    BY DEF OthersKept, Exists
  <2>2. \A v \in Workers : worker'[v].pc # "idle" => Exists'
    BY <2>1 DEF PipelineInv, JobExists, WorkerAt, Holds
  <2> QED BY <2>1, <2>2 DEF PipelineInv, JobExists
<1>3. \A v \in Workers \ {w} :
        /\ Busy(v) => v \in clips.activeExecutions /\ Exists
        /\ Busy(v) \/ Here(v, "end") => entry' = entry
  <2> SUFFICES ASSUME NEW v \in Workers \ {w}
               PROVE  /\ Busy(v) => v \in clips.activeExecutions /\ Exists
                      /\ Busy(v) \/ Here(v, "end") => entry' = entry
    OBVIOUS
  <2>1. Busy(v) \/ Here(v, "end") => entry.state = "active" /\ entry.owner = v
    BY DEF PipelineInv, WorkersHold
  <2>2. v # None
    BY IdsAssumption
  <2>3. Busy(v) => v \in clips.activeExecutions /\ Exists
    BY DEF PipelineInv, WorkersHold, JobExists, Busy, BusyPlaces
  <2> QED BY <2>1, <2>2, <2>3
<1>4. WorkersHold'
  <2> SUFFICES ASSUME NEW v \in Workers
               PROVE  /\ Busy(v)' => v \in clips'.activeExecutions
                      /\ Busy(v)' \/ Here(v, "end")'
                           => entry'.state = "active" /\ entry'.owner = v
                      /\ worker'[v].pc \in {"error", "write", "release", "end"}
                           => /\ worker'[v].ends
                                   \in {"waiting", "failed", "completed"}
                              /\ worker'[v].ends = "waiting"
                                   => entry'.redeliveries < MaxRedeliveries
    BY DEF WorkersHold
  <2>1. CASE v = w
    BY <2>1 DEF WorkerAt, Holds, Busy, BusyPlaces, Raised, Here
  <2>2. CASE v # w
    <3>1. worker'[v] = worker[v] /\ (Busy(v)' <=> Busy(v))
          /\ (Here(v, "end")' <=> Here(v, "end"))
      BY <2>2 DEF WorkerAt, Busy, Here
    <3>2. Busy(v) => v \in clips'.activeExecutions
      BY <1>3, <2>2 DEF OthersKept
    <3>3. worker[v].pc \in {"error", "write", "release", "end"}
            => Busy(v) \/ Here(v, "end")
      BY DEF Busy, BusyPlaces, Here
    <3> QED BY <1>3, <2>2, <3>1, <3>2, <3>3 DEF PipelineInv, WorkersHold
  <2> QED BY <2>1, <2>2
<1>5. WritesAuthorized'
  <2> SUFFICES ASSUME NEW v \in Workers, Here(v, "write")'
               PROVE  /\ worker'[v].read \in JobStatuses
                      /\ worker'[v].read = "cutting" => op'.status = "reserved"
    BY DEF WritesAuthorized
  <2>1. CASE v = w
    BY <2>1 DEF WorkerAt, Holds, Here
  <2>2. CASE v # w
    BY <2>2 DEF PipelineInv, WritesAuthorized, WorkerAt, Here
  <2> QED BY <2>1, <2>2
<1>6. CallersRead'
  BY DEF PipelineInv, CallersRead, At
<1>7. WorkIsAuthorized'
  <2>1. ASSUME NEW v \in Workers, Here(v, "work")'
        PROVE  op'.status = "reserved"
    <3>1. CASE v = w
      BY <2>1, <3>1 DEF WorkerAt, Holds, Here
    <3>2. CASE v # w
      BY <2>1, <3>2 DEF PipelineInv, WorkIsAuthorized, WorkerAt, Here
    <3> QED BY <3>1, <3>2
  <2> QED BY <2>1 DEF WorkIsAuthorized
<1> QED BY <1>1, <1>2, <1>4, <1>5, <1>6, <1>7 DEF PipelineInv

LEMMA StepsTo ==
  ASSUME TypeOK, NEW w \in Workers, NEW place, Step(w, place),
         place \in BusyPlaces \cup {"idle", "end", "event"}
  PROVE  WorkerAt(w, place, worker[w].read, worker[w].ends)
BY DEF TypeOK, Step, WorkerAt, WorkerSet, BusyPlaces

LEMMA RaisesTo ==
  ASSUME TypeOK, NEW w \in Workers, NEW place \in {"error", "release"},
         NEW ends \in {"waiting", "failed", "completed"},
         worker' = [worker EXCEPT ![w].pc = place, ![w].ends = ends]
  PROVE  WorkerAt(w, place, worker[w].read, ends)
<1> DEFINE moved == [worker EXCEPT ![w].pc = place]
<1>1. /\ moved \in [Workers -> WorkerSet]
      /\ moved[w].pc = place /\ moved[w].read = worker[w].read
      /\ \A v \in Workers \ {w} : moved[v] = worker[v]
  BY DEF TypeOK, WorkerSet
<1>2. worker' = [moved EXCEPT ![w].ends = ends]
  OBVIOUS
<1> HIDE DEF moved
<1> DEFINE state == [moved[w] EXCEPT !.ends = ends]
<1>3. /\ state \in WorkerSet /\ state.pc = place /\ state.ends = ends
      /\ state.read = worker[w].read
  BY <1>1 DEF WorkerSet
<1>4. worker' = [moved EXCEPT ![w] = state]
  BY <1>2
<1> HIDE DEF state
<1> QED BY <1>1, <1>3, <1>4 DEF WorkerAt

LEMMA ReadsTo ==
  ASSUME TypeOK, NEW w \in Workers, NEW place \in {"write", "release"},
         NEW read \in JobStatuses \cup {None},
         worker' = [worker EXCEPT ![w].pc = place, ![w].read = read]
  PROVE  WorkerAt(w, place, read, worker[w].ends)
<1> DEFINE moved == [worker EXCEPT ![w].pc = place]
<1>1. /\ moved \in [Workers -> WorkerSet]
      /\ moved[w].pc = place /\ moved[w].ends = worker[w].ends
      /\ \A v \in Workers \ {w} : moved[v] = worker[v]
  BY DEF TypeOK, WorkerSet
<1>2. worker' = [moved EXCEPT ![w].read = read]
  OBVIOUS
<1> HIDE DEF moved
<1> DEFINE state == [moved[w] EXCEPT !.read = read]
<1>3. /\ state \in WorkerSet /\ state.pc = place /\ state.read = read
      /\ state.ends = worker[w].ends
  BY <1>1 DEF WorkerSet
<1>4. worker' = [moved EXCEPT ![w] = state]
  BY <1>2
<1> HIDE DEF state
<1> QED BY <1>1, <1>3, <1>4 DEF WorkerAt

LEMMA FreedAt ==
  ASSUME TypeOK, NEW w \in Workers, NEW place \in {"idle", "event"},
         worker' = [worker EXCEPT ![w] = [Free EXCEPT !.pc = place]]
  PROVE  WorkerAt(w, place, None, None)
BY DEF TypeOK, Free, WorkerAt, WorkerSet

\* What a busy worker has, whatever its place.
LEMMA BusyWorker ==
  ASSUME PipelineInv, NEW w \in Workers, worker[w].pc \in BusyPlaces \cup {"end"}
  PROVE  /\ clips \in Job /\ Exists
         /\ worker[w].pc \in BusyPlaces => w \in clips.activeExecutions
         /\ entry.state = "active" /\ entry.owner = w
         /\ entry \in EntrySet
         /\ worker[w].pc \in Raised =>
              /\ worker[w].ends \in {"waiting", "failed", "completed"}
              /\ worker[w].ends = "waiting"
                   => entry.redeliveries < MaxRedeliveries
<1>1. clips \in Job /\ Exists
  BY DEF PipelineInv, TypeOK, JobExists, Exists, BusyPlaces
<1>2. entry \in EntrySet
  BY DEF PipelineInv, TypeOK, EntrySet
<1> QED BY <1>1, <1>2 DEF PipelineInv, WorkersHold, Busy, BusyPlaces, Here, Raised

\* A worker that goes on with its entry, and at most writes to the job.
LEMMA WorkerMoves ==
  ASSUME PipelineInv, NEW w \in Workers, Busy(w),
         NEW place \in BusyPlaces, NEW read, NEW ends,
         WorkerAt(w, place, read, ends),
         clips' \in Job, clips'.activeExecutions = clips.activeExecutions,
         Rendering' => op.status = "reserved",
         place \in Raised =>
           /\ ends \in {"waiting", "failed", "completed"}
           /\ ends = "waiting" => entry.redeliveries < MaxRedeliveries,
         place = "write" =>
           read \in JobStatuses /\ (read = "cutting" => op.status = "reserved"),
         place = "work" => op.status = "reserved",
         UNCHANGED <<op, entry, caller, notified, retries>>
  PROVE  PipelineInv'
<1>1. /\ clips \in Job /\ Exists /\ w \in clips.activeExecutions
      /\ entry.state = "active" /\ entry.owner = w /\ entry \in EntrySet
  BY BusyWorker DEF Busy
<1>2. Exists' /\ OthersKept(w)
  BY JobAssumption DEF Exists, OthersKept
<1>3. Holds(w, place, read, ends)
  BY <1>1, <1>2 DEF Holds, BusyPlaces
<1> QED BY <1>1, <1>2, <1>3, WorkerSteps

LEMMA RenderingReserved ==
  ASSUME PipelineInv
  PROVE  Rendering => op.status = "reserved"
BY DEF PipelineInv, WorkIsAuthorized

LEMMA PipelineWork ==
  ASSUME PipelineInv, NEW w \in Workers,
         \/ Start(w) \/ Budget(w) \/ PrepareRenderManifest(w) \/ FanOut(w)
         \/ WorkFails(w) \/ ErrorRead(w) \/ ErrorWrite(w)
  PROVE  PipelineInv'
<1>1. TypeOK /\ Busy(w)
  BY DEF PipelineInv, Busy, BusyPlaces, Here, Start, Budget,
     PrepareRenderManifest, FanOut, WorkFails, ErrorRead, ErrorWrite
<1>2. UNCHANGED <<op, entry, caller, notified, retries>>
  BY DEF Start, Budget, PrepareRenderManifest, FanOut, WorkFails, ErrorRead,
     ErrorWrite
<1>3. clips \in Job /\ Exists
  BY <1>1, BusyWorker DEF Busy
<1>4. UNCHANGED clips => (Rendering' => op.status = "reserved")
  BY RenderingReserved DEF Rendering, Exists
<1>5. CASE Start(w)
  <2>1. CASE clips.renderManifestReady
    <3>1. WorkerAt(w, "fan out", worker[w].read, worker[w].ends)
          /\ UNCHANGED clips
      BY <1>1, <1>5, <2>1, StepsTo DEF Start, BusyPlaces
    <3> QED BY <1>1, <1>2, <1>3, <1>4, <3>1, WorkerMoves DEF BusyPlaces, Raised
  <2>2. CASE ~clips.renderManifestReady
    <3>1. WorkerAt(w, "budget", worker[w].read, worker[w].ends)
      BY <1>1, <1>5, <2>2, StepsTo DEF Start, BusyPlaces
    <3>2. /\ clips' \in Job /\ clips'.status = "pending"
          /\ clips'.activeExecutions = clips.activeExecutions
      BY <1>3, <1>5, <2>2 DEF Start, Job, JobStatuses
    <3> QED BY <1>1, <1>2, <3>1, <3>2, WorkerMoves
            DEF BusyPlaces, Raised, Rendering
  <2> QED BY <2>1, <2>2
<1>6. CASE Budget(w)
  <2>1. UNCHANGED clips
    BY <1>6 DEF Budget
  <2>2. CASE Authorized
    <3>1. WorkerAt(w, "work", worker[w].read, worker[w].ends)
      BY <1>1, <1>6, <2>2, StepsTo DEF Budget, BusyPlaces
    <3> QED BY <1>1, <1>2, <1>3, <1>4, <2>1, <2>2, <3>1, WorkerMoves
            DEF BusyPlaces, Raised, Authorized
  <2>3. CASE ~Authorized
    <3>1. WorkerAt(w, "error", worker[w].read, "failed")
      BY <1>1, <1>6, <2>3, RaisesTo DEF Budget, Raise
    <3> QED BY <1>1, <1>2, <1>3, <1>4, <2>1, <3>1, WorkerMoves DEF BusyPlaces
  <2> QED BY <2>2, <2>3
<1>7. CASE PrepareRenderManifest(w)
  <2>1. WorkerAt(w, "fan out", worker[w].read, worker[w].ends)
    BY <1>1, <1>7, StepsTo DEF PrepareRenderManifest, BusyPlaces
  <2>2. op.status = "reserved"
    BY <1>7 DEF PipelineInv, WorkIsAuthorized, PrepareRenderManifest
  <2>3. /\ clips' \in Job
        /\ clips'.activeExecutions = clips.activeExecutions
    <3>1. CASE clips.renderManifestReady
      BY <1>3, <1>7, <3>1 DEF PrepareRenderManifest
    <3>2. CASE ~clips.renderManifestReady
      BY <1>3, <1>7, <3>2 DEF PrepareRenderManifest, Job, JobStatuses
    <3> QED BY <3>1, <3>2
  <2> QED BY <1>1, <1>2, <2>1, <2>2, <2>3, WorkerMoves DEF BusyPlaces, Raised
<1>8. CASE FanOut(w)
  <2>1. WorkerAt(w, "release", worker[w].read, "completed") /\ UNCHANGED clips
    BY <1>1, <1>8, RaisesTo DEF FanOut
  <2> QED BY <1>1, <1>2, <1>3, <1>4, <2>1, WorkerMoves DEF BusyPlaces
<1>9. CASE WorkFails(w)
  <2>1. PICK ends \in {"failed", "waiting"} :
          /\ Raise(w, ends)
          /\ ends = "waiting" => entry.redeliveries < MaxRedeliveries
    BY <1>9 DEF WorkFails
  <2>2. WorkerAt(w, "error", worker[w].read, ends)
    BY <1>1, <2>1, RaisesTo DEF Raise
  <2>3. UNCHANGED clips
    BY <1>9 DEF WorkFails
  <2> QED BY <1>1, <1>2, <1>3, <1>4, <2>1, <2>2, <2>3, WorkerMoves
          DEF BusyPlaces
<1>10. CASE ErrorRead(w)
  <2>1. WorkerAt(w, "write", clips.status, worker[w].ends)
    BY <1>1, <1>3, <1>10, ReadsTo DEF ErrorRead, Job
  <2>2. UNCHANGED clips /\ worker[w].pc = "error"
    BY <1>10 DEF ErrorRead, Here
  <2>3. /\ worker[w].ends \in {"waiting", "failed", "completed"}
        /\ worker[w].ends = "waiting" => entry.redeliveries < MaxRedeliveries
    BY <1>1, <2>2, BusyWorker DEF Busy, Raised
  <2>4. /\ clips.status \in JobStatuses
        /\ clips.status = "cutting" => op.status = "reserved"
    BY <1>3, RenderingReserved DEF Rendering, Job
  <2> QED BY <1>1, <1>2, <1>3, <1>4, <2>1, <2>2, <2>3, <2>4, WorkerMoves
          DEF BusyPlaces
<1>11. CASE ErrorWrite(w)
  <2>1. WorkerAt(w, "release", None, worker[w].ends)
    BY <1>1, <1>11, ReadsTo DEF ErrorWrite
  <2>2. /\ worker[w].read \in JobStatuses /\ worker[w].pc = "write"
        /\ worker[w].read = "cutting" => op.status = "reserved"
    BY <1>11 DEF PipelineInv, WritesAuthorized, ErrorWrite, Here
  <2>3. /\ worker[w].ends \in {"waiting", "failed", "completed"}
        /\ worker[w].ends = "waiting" => entry.redeliveries < MaxRedeliveries
    BY <1>1, <2>2, BusyWorker DEF Busy, Raised
  <2>4. /\ clips' \in Job /\ clips'.status = worker[w].read
        /\ clips'.activeExecutions = clips.activeExecutions
    BY <1>3, <1>11, <2>2 DEF ErrorWrite, Job
  <2>5. Rendering' => op.status = "reserved"
    BY <2>2, <2>4 DEF Rendering
  <2> QED BY <1>1, <1>2, <2>1, <2>3, <2>4, <2>5, WorkerMoves DEF BusyPlaces
<1> QED BY <1>5, <1>6, <1>7, <1>8, <1>9, <1>10, <1>11

\* Take, Progress, and the end of a worker's hold.
LEMMA PipelineTake ==
  ASSUME PipelineInv, NEW w \in Workers, Take(w)
  PROVE  PipelineInv'
<1>1. TypeOK /\ Exists /\ w \in Tokens /\ entry \in EntrySet
      /\ entry.state = "waiting" /\ entry.owner = None
  BY DEF PipelineInv, TypeOK, JobExists, Take, Tokens, EntrySet
<1>2. WorkerAt(w, "start", worker[w].read, worker[w].ends)
  BY <1>1, StepsTo DEF Take, BusyPlaces
<1>3. clips' = Holding(w)
  BY DEF Take
<1>4. JobKept /\ Exists' /\ clips'.status = clips.status
  BY <1>1, <1>3, TokensKept
<1>5. w \in clips'.activeExecutions
  <2>1. clips \in Job
    BY <1>1 DEF TypeOK, Exists
  <2> QED BY <1>3, <2>1 DEF Holding, Job
<1>6. OthersKept(w)
  BY <1>4 DEF JobKept, OthersKept
<1>7. /\ entry' \in EntrySet /\ entry'.state = "active" /\ entry'.owner = w
  BY <1>1 DEF Take, EntrySet
<1>8. Holds(w, "start", worker[w].read, worker[w].ends)
  BY <1>4, <1>5, <1>7 DEF Holds, BusyPlaces, Raised
<1>9. Rendering' => op.status = "reserved"
  BY <1>1, <1>4, RenderingReserved DEF Rendering
<1>10. UNCHANGED <<op, caller, notified, retries>>
  BY DEF Take
<1> QED BY <1>1, <1>2, <1>4, <1>6, <1>7, <1>8, <1>9, <1>10, WorkerSteps

LEMMA PipelineProgress ==
  ASSUME PipelineInv, NEW w \in Workers, Progress(w)
  PROVE  PipelineInv'
<1>1. TypeOK /\ Busy(w) /\ worker[w].pc = "work"
  BY DEF PipelineInv, Busy, BusyPlaces, Here, Progress
<1>2. clips \in Job
  BY <1>1, BusyWorker DEF Busy
<1>3. WorkerAt(w, "work", worker[w].read, worker[w].ends)
  BY <1>1 DEF Progress, TypeOK, WorkerAt, WorkerSet
<1>4. /\ clips' \in Job /\ clips'.status = "pending"
      /\ clips'.activeExecutions = clips.activeExecutions
  BY <1>2 DEF Progress, Job, JobStatuses
<1>5. op.status = "reserved"
  BY DEF PipelineInv, WorkIsAuthorized, Progress
<1>6. UNCHANGED <<op, entry, caller, notified, retries>>
  BY DEF Progress
<1> QED BY <1>1, <1>3, <1>4, <1>5, <1>6, WorkerMoves DEF BusyPlaces, Raised

LEMMA PipelineRelease ==
  ASSUME PipelineInv, NEW w \in Workers, Release(w)
  PROVE  PipelineInv'
<1>1. TypeOK /\ Busy(w) /\ worker[w].pc = "release"
  BY DEF PipelineInv, Busy, BusyPlaces, Here, Release
<1>2. /\ clips \in Job /\ Exists
      /\ entry.state = "active" /\ entry.owner = w /\ entry \in EntrySet
      /\ worker[w].ends \in {"waiting", "failed", "completed"}
      /\ worker[w].ends = "waiting" => entry.redeliveries < MaxRedeliveries
  BY <1>1, BusyWorker DEF Busy, Raised
<1>3. WorkerAt(w, "end", worker[w].read, worker[w].ends)
  BY <1>1, StepsTo DEF Release
<1>4. /\ clips' \in Job /\ clips'.status = clips.status
      /\ clips'.activeExecutions = clips.activeExecutions \ {w}
  BY <1>2 DEF Release, Returned, Job
<1>5. Exists' /\ OthersKept(w)
  BY <1>4, JobAssumption DEF Exists, OthersKept
<1>6. Rendering' => op.status = "reserved"
  BY <1>2, <1>4, RenderingReserved DEF Rendering
<1>7. UNCHANGED <<op, entry, caller, notified, retries>>
  BY DEF Release
<1>8. Holds(w, "end", worker[w].read, worker[w].ends)
  BY <1>2, <1>5, <1>7 DEF Holds, BusyPlaces, Raised
<1> QED BY <1>2, <1>3, <1>5, <1>6, <1>7, <1>8, WorkerSteps

LEMMA PipelineEndEntry ==
  ASSUME PipelineInv, NEW w \in Workers, EndEntry(w)
  PROVE  PipelineInv'
<1>1. TypeOK /\ worker[w].pc = "end"
  BY DEF PipelineInv, EndEntry, Here
<1> DEFINE ends == worker[w].ends
<1>2. /\ clips \in Job /\ Exists /\ entry.owner = w /\ entry \in EntrySet
      /\ ends \in {"waiting", "failed", "completed"}
      /\ ends = "waiting" => entry.redeliveries < MaxRedeliveries
  BY <1>1, BusyWorker DEF Raised
<1>3. UNCHANGED <<op, clips, caller, notified, retries>>
  BY DEF EndEntry
<1>4. entry' \in EntrySet /\ entry'.owner = None
  <2>1. CASE ends = "waiting"
    <3>1. entry' = [entry EXCEPT !.state = "waiting", !.owner = None,
                                 !.redeliveries = entry.redeliveries + 1]
      BY <2>1 DEF EndEntry
    <3>2. entry.redeliveries + 1 \in 0..MaxRedeliveries
      BY <1>2, <2>1, BoundsAssumption DEF EntrySet
    <3> QED BY <1>2, <3>1, <3>2 DEF EntrySet
  <2>2. CASE ends # "waiting"
    <3>1. entry' = [entry EXCEPT !.state = ends, !.owner = None,
                                 !.redeliveries = entry.redeliveries]
      BY <2>2 DEF EndEntry
    <3> HIDE DEF ends
    <3> QED BY <1>2, <3>1 DEF EntrySet
  <2> QED BY <2>1, <2>2
<1>5. PICK place \in {"idle", "event"} : WorkerAt(w, place, None, None)
  <2>1. CASE ends = "failed"
    <3>1. worker' = [worker EXCEPT ![w] = [Free EXCEPT !.pc = "event"]]
      BY <2>1 DEF EndEntry
    <3> QED BY <1>1, <3>1, FreedAt
  <2>2. CASE ends # "failed"
    <3>1. worker' = [worker EXCEPT ![w] = [Free EXCEPT !.pc = "idle"]]
      BY <2>2 DEF EndEntry, Free
    <3> QED BY <1>1, <3>1, FreedAt
  <2> QED BY <2>1, <2>2
<1>6. Holds(w, place, None, None) /\ OthersKept(w) /\ Exists'
  BY <1>2, <1>3 DEF Holds, BusyPlaces, Raised, OthersKept, Exists
<1>7. Rendering' => op.status = "reserved"
  BY <1>3, RenderingReserved DEF Rendering, Exists
<1> QED BY <1>2, <1>3, <1>4, <1>5, <1>6, <1>7, WorkerSteps

LEMMA PipelineOnFailed ==
  ASSUME PipelineInv, NEW w \in Workers, OnFailed(w)
  PROVE  PipelineInv'
<1>1. TypeOK /\ Exists /\ clips \in Job /\ entry \in EntrySet
      /\ (entry.owner # None => entry.state = "active")
  BY DEF PipelineInv, TypeOK, JobExists, OnFailed, Here, Exists, EntrySet
<1>2. WorkerAt(w, "idle", None, None)
  <2>1. worker' = [worker EXCEPT ![w] = [Free EXCEPT !.pc = "idle"]]
    BY DEF OnFailed, Free
  <2> QED BY <1>1, <2>1, FreedAt
<1>3. /\ clips' \in Job
      /\ clips'.activeExecutions = clips.activeExecutions
      /\ clips'.status = "failed" \/ clips'.status = clips.status
  <2>1. CASE entry.state = "failed"
    BY <1>1, <2>1 DEF OnFailed, Job, JobStatuses, Terminal
  <2>2. CASE entry.state # "failed"
    BY <1>1, <2>2 DEF OnFailed
  <2> QED BY <2>1, <2>2
<1>4. OthersKept(w) /\ Exists'
  BY <1>3, JobAssumption DEF OthersKept, Exists
<1>5. Rendering' => op.status = "reserved"
  BY <1>1, <1>3, RenderingReserved DEF Rendering
<1>6. UNCHANGED <<op, entry, caller, notified, retries>>
  BY DEF OnFailed
<1>7. Holds(w, "idle", None, None)
  BY <1>4 DEF Holds, BusyPlaces, Raised
<1> QED BY <1>1, <1>2, <1>4, <1>5, <1>6, <1>7, WorkerSteps

LEMMA PipelineCrash ==
  ASSUME PipelineInv, NEW w \in Workers, Crash(w)
  PROVE  PipelineInv'
<1>1. TypeOK /\ Exists /\ clips \in Job /\ entry \in EntrySet
      /\ (entry.owner # None => entry.state = "active")
  BY DEF PipelineInv, TypeOK, JobExists, Crash, Here, Exists, EntrySet
<1>2. WorkerAt(w, "idle", None, None)
  <2>1. worker' = [worker EXCEPT ![w] = [Free EXCEPT !.pc = "idle"]]
    BY DEF Crash, Free
  <2> QED BY <1>1, <2>1, FreedAt
<1>3. /\ clips' \in Job /\ clips'.status = clips.status
      /\ clips.activeExecutions \ {w} \subseteq clips'.activeExecutions
  <2>1. CASE w \in clips.activeExecutions
    <3>1. clips' = [Returned(w) EXCEPT !.activeExecutions = @ \cup {"lost"}]
      BY <2>1 DEF Crash
    <3> QED BY <1>1, <3>1 DEF Returned, Job, Tokens
  <2>2. CASE w \notin clips.activeExecutions
    BY <1>1, <2>2 DEF Crash
  <2> QED BY <2>1, <2>2
<1>4. OthersKept(w) /\ Exists'
  BY <1>3, JobAssumption DEF OthersKept, Exists
<1>5. Rendering' => op.status = "reserved"
  BY <1>1, <1>3, RenderingReserved DEF Rendering
<1>6. /\ entry' \in EntrySet /\ entry'.state = entry.state
      /\ entry'.owner # None => entry'.state = "active"
      /\ entry' = entry \/ entry.owner \in {None, w}
  <2>1. CASE entry.owner = w
    BY <1>1, <2>1 DEF Crash, EntrySet
  <2>2. CASE entry.owner # w
    BY <1>1, <2>2 DEF Crash
  <2> QED BY <2>1, <2>2
<1>7. Holds(w, "idle", None, None) /\ UNCHANGED <<op, caller, notified, retries>>
  BY <1>4 DEF Holds, BusyPlaces, Raised, Crash
<1> QED BY <1>2, <1>4, <1>5, <1>6, <1>7, WorkerSteps

\* A stalled entry is handed out again, or given up and a worker told of it.
LEMMA PipelineStalled ==
  ASSUME PipelineInv, Stalled
  PROVE  PipelineInv'
<1>1. /\ TypeOK /\ Exists /\ clips \in Job /\ entry \in EntrySet
      /\ entry.state = "active" /\ entry.owner = None
      /\ UNCHANGED <<op, clips, caller, notified, retries>>
  BY DEF PipelineInv, TypeOK, JobExists, Stalled, Exists, EntrySet
<1>2. entry' \in EntrySet /\ entry'.owner = None
  <2>1. CASE entry.redeliveries < MaxRedeliveries
             /\ entry' = [entry EXCEPT !.state = "waiting", !.redeliveries = @ + 1]
    <3>1. entry.redeliveries + 1 \in 0..MaxRedeliveries
      BY <1>1, <2>1, BoundsAssumption DEF EntrySet
    <3> QED BY <1>1, <2>1, <3>1 DEF EntrySet
  <2>2. CASE entry' = [entry EXCEPT !.state = "failed"]
    BY <1>1, <2>2 DEF EntrySet
  <2> QED BY <2>1, <2>2 DEF Stalled
<1>3. Exists' /\ (Rendering' => op.status = "reserved")
  BY <1>1, RenderingReserved DEF Rendering, Exists
<1>4. CASE UNCHANGED worker
  <2>1. \A w \in Workers : ~Busy(w) /\ ~Here(w, "end")
    BY <1>1, IdsAssumption DEF PipelineInv, WorkersHold
  <2>2. TypeOK'
    BY <1>1, <1>2, <1>4 DEF TypeOK, EntrySet
  <2>3. JobExists' /\ CallersRead' /\ WorkIsAuthorized' /\ WritesAuthorized'
    BY <1>1, <1>3, <1>4 DEF PipelineInv, JobExists, CallersRead, WorkIsAuthorized,
       WritesAuthorized, At, Here, Rendering
  <2>4. WorkersHold'
    BY <1>4, <2>1 DEF WorkersHold, Busy, BusyPlaces, Here
  <2> QED BY <2>2, <2>3, <2>4 DEF PipelineInv
<1>5. ASSUME NEW w \in Workers, Here(w, "idle"), Step(w, "event")
      PROVE  PipelineInv'
  <2>1. WorkerAt(w, "event", worker[w].read, worker[w].ends)
    BY <1>1, <1>5, StepsTo
  <2>2. Holds(w, "event", worker[w].read, worker[w].ends) /\ OthersKept(w)
    BY <1>1, <1>3 DEF Holds, BusyPlaces, Raised, OthersKept, Exists
  <2> QED BY <1>1, <1>2, <1>3, <2>1, <2>2, WorkerSteps
<1> QED BY <1>4, <1>5 DEF Stalled

\* The crons' view of the operation, and the renders.
LEMMA PipelineSettle ==
  ASSUME PipelineInv, Settle
  PROVE  PipelineInv'
<1>1. /\ TypeOK /\ op.status = "reserved"
      /\ UNCHANGED <<clips, entry, worker, caller, notified, retries>>
  BY DEF PipelineInv, Settle
<1>2. op' \in OpSet
  BY <1>1 DEF TypeOK, Settle, Settled, OpSet
<1>3. TypeOK' /\ JobExists' /\ WorkersHold' /\ CallersRead'
  BY <1>1, <1>2 DEF PipelineInv, TypeOK, OpSet, JobExists, WorkersHold,
     CallersRead, Exists, Busy, At, Here
<1>4. ~Rendering
  BY DEF Settle, Orphaned, Rendering, Terminal
<1>5. \A w \in Workers : ~Busy(w)
  <2>1. CASE ~Exists
    BY <2>1 DEF PipelineInv, JobExists, Busy, BusyPlaces
  <2>2. CASE Exists /\ clips.activeExecutions = {}
    BY <2>2 DEF PipelineInv, WorkersHold
  <2> QED BY <2>1, <2>2 DEF Settle, Orphaned
<1>6. WritesAuthorized' /\ WorkIsAuthorized'
  BY <1>1, <1>4, <1>5 DEF WritesAuthorized, WorkIsAuthorized, Rendering, Exists,
     Busy, BusyPlaces, Here
<1> QED BY <1>3, <1>6 DEF PipelineInv

LEMMA PipelineAge ==
  ASSUME PipelineInv, Age
  PROVE  PipelineInv'
<1>1. /\ op' \in OpSet /\ op'.status = op.status
      /\ UNCHANGED <<clips, entry, worker, caller, notified, retries>>
  BY DEF PipelineInv, TypeOK, Age, OpSet
<1> QED BY <1>1 DEF PipelineInv, TypeOK, OpSet, JobExists, WorkersHold,
        CallersRead, WritesAuthorized, WorkIsAuthorized, Rendering, Exists, Busy,
        At, Here

\* The job is written by neither a caller nor a worker.
LEMMA PipelineJobWrite ==
  ASSUME PipelineInv, JobKept, Exists', Rendering' => Rendering,
         UNCHANGED <<op, entry, worker, caller, notified, retries>>
  PROVE  PipelineInv'
<1>1. TypeOK'
  BY DEF PipelineInv, TypeOK, JobKept
<1>2. JobExists' /\ CallersRead' /\ WritesAuthorized' /\ WorkIsAuthorized'
  BY DEF PipelineInv, JobExists, CallersRead, WritesAuthorized, WorkIsAuthorized,
     At, Here
<1>3. WorkersHold'
  BY DEF PipelineInv, WorkersHold, JobExists, JobKept, Busy, BusyPlaces, Here
<1> QED BY <1>1, <1>2, <1>3 DEF PipelineInv

LEMMA PipelineOutside ==
  ASSUME PipelineInv, RecoverLease \/ RenderingEnds
  PROVE  PipelineInv'
<1>1. TypeOK /\ Exists /\ clips \in Job
      /\ UNCHANGED <<op, entry, worker, caller, notified, retries>>
  BY DEF PipelineInv, TypeOK, Exists, RecoverLease, RenderingEnds
<1>2. CASE RecoverLease
  <2>1. "lost" \in Tokens \ Workers /\ clips' = Returned("lost")
    BY <1>2, IdsAssumption DEF Tokens, RecoverLease
  <2>2. JobKept /\ Exists' /\ clips'.status = clips.status
    BY <1>1, <2>1, TokensKept
  <2> QED BY <1>1, <2>2, PipelineJobWrite DEF Rendering
<1>3. CASE RenderingEnds
  <2>1. /\ clips' \in Job /\ clips'.status \in Terminal
        /\ clips'.activeExecutions = clips.activeExecutions
    BY <1>1, <1>3 DEF RenderingEnds, Job, JobStatuses
  <2>2. JobKept /\ Exists' /\ ~Rendering'
    BY <1>1, <2>1, FieldsKept DEF Rendering, Terminal
  <2> QED BY <1>1, <2>2, PipelineJobWrite
<1> QED BY <1>2, <1>3

LEMMA PipelineStays ==
  ASSUME PipelineInv, UNCHANGED vars
  PROVE  PipelineInv'
BY DEF PipelineInv, TypeOK, JobExists, WorkersHold, CallersRead, WritesAuthorized,
   WorkIsAuthorized, Rendering, Exists, Busy, At, Here, vars

LEMMA PipelineNext ==
  ASSUME PipelineInv, [Next]_vars
  PROVE  PipelineInv'
<1>1. CASE UNCHANGED vars
  BY <1>1, PipelineStays
<1>2. ASSUME NEW c \in Callers,
             \/ Reserve(c) \/ Save(c)
             \/ DispatchClaim(c) \/ DispatchRead(c) \/ DispatchAdd(c)
             \/ DispatchClear(c) \/ DispatchPull(c)
             \/ RetryRead(c) \/ RetryJob(c) \/ Reconcile(c)
             \/ ReconcileCheck(c) \/ ReconcileFail(c) \/ RecoverRequest(c)
             \/ PublishRead(c) \/ Notify(c) \/ MarkCompletionPublished(c)
             \/ DispatchFails(c) \/ CallerDies(c)
      PROVE  PipelineInv'
  BY <1>2, PipelineReserve, PipelineSave, PipelineDispatch, PipelineAdd,
     PipelineRetryRead, PipelineRetry, PipelineReconcile, PipelinePublish,
     PipelineDies
<1>3. ASSUME NEW w \in Workers,
             \/ Take(w) \/ Start(w) \/ Budget(w) \/ Progress(w)
             \/ PrepareRenderManifest(w) \/ FanOut(w) \/ WorkFails(w)
             \/ ErrorRead(w) \/ ErrorWrite(w) \/ Release(w) \/ EndEntry(w)
             \/ OnFailed(w) \/ Crash(w)
      PROVE  PipelineInv'
  BY <1>3, PipelineTake, PipelineProgress, PipelineWork, PipelineRelease,
     PipelineEndEntry, PipelineOnFailed, PipelineCrash
<1>4. CASE Stalled \/ Age \/ Settle \/ RecoverLease \/ RenderingEnds
  BY <1>4, PipelineStalled, PipelineAge, PipelineSettle, PipelineOutside
<1> QED BY <1>1, <1>2, <1>3, <1>4 DEF Next

LEMMA PipelineStarts ==
  ASSUME Init
  PROVE  PipelineInv
<1>1. TypeOK
  BY BoundsAssumption DEF Init, TypeOK, Rest, Free
<1> QED BY <1>1 DEF Init, PipelineInv, JobExists, WorkersHold, CallersRead,
        WritesAuthorized, WorkIsAuthorized, Rendering, Exists, Busy, BusyPlaces,
        At, Here, Rest, Free

-----------------------------------------------------------------------------
(* The cache *)

\* Ids grow, and a job's finding that an artifact is not usable stays true.
CacheInv ==
  /\ Cache!TypeOK
  /\ artifact # None => artifact.id <= inserted
  /\ \A c \in Creators :
       /\ creator[c].read <= inserted
       /\ creator[c].read # 0 /\ artifact # None /\ artifact.id = creator[c].read
            => ~artifact.usable

Artifact == [id : Cache!Ids, usable : BOOLEAN]

CreatorSet ==
  [pc : {"idle", "find", "create", "assert", "delete", "insert", "leave",
         "release"},
   read : Cache!Ids \cup {0}, lost : BOOLEAN]

\* A job moves on with what it read; nothing is stored or removed.
LEMMA CacheMoves ==
  ASSUME CacheInv, NEW c \in Creators,
         creator' \in [Creators -> CreatorSet],
         \A d \in Creators : creator'[d].read \in {creator[d].read, 0},
         lease' \in Creators \cup {None}, UNCHANGED <<artifact, inserted>>
  PROVE  CacheInv'
<1>1. Cache!TypeOK'
  BY DEF CacheInv, Cache!TypeOK, CreatorSet, Cache!Absent
<1>2. inserted \in Nat
  BY ArtifactsAssumption DEF CacheInv, Cache!TypeOK
<1>3. ASSUME NEW d \in Creators
      PROVE  /\ creator'[d].read <= inserted
             /\ creator'[d].read # 0 /\ artifact # None
                  /\ artifact.id = creator'[d].read => ~artifact.usable
  BY <1>2 DEF CacheInv
<1> QED BY <1>1, <1>3 DEF CacheInv

\* A place is changed, and what was read with it forgotten or kept.
LEMMA CacheGoes ==
  ASSUME CacheInv, NEW c \in Creators,
         \/ Cache!Acquire(c) \/ Cache!Create(c) \/ Cache!Assert(c)
         \/ Cache!Leave(c) \/ Cache!Release(c) \/ Cache!Notice(c)
         \/ Cache!Crash(c)
  PROVE  CacheInv'
<1>1. creator \in [Creators -> CreatorSet] /\ lease \in Creators \cup {None}
  BY DEF CacheInv, Cache!TypeOK, CreatorSet, Cache!Absent
<1>2. UNCHANGED <<artifact, inserted>> /\ lease' \in Creators \cup {None}
  BY <1>1 DEF Cache!Acquire, Cache!Create, Cache!Assert, Cache!Leave,
     Cache!Release, Cache!Notice, Cache!Crash
<1>3. CASE Cache!Acquire(c) \/ Cache!Create(c) \/ Cache!Assert(c)
  <2>1. PICK place \in {"find", "assert", "leave", "release", "delete"} :
          creator' = [creator EXCEPT ![c].pc = place]
    BY <1>3 DEF Cache!Acquire, Cache!Create, Cache!Assert, Cache!Go
  <2>2. /\ creator' \in [Creators -> CreatorSet]
        /\ \A d \in Creators : creator'[d].read = creator[d].read
    BY <1>1, <2>1 DEF CreatorSet
  <2> QED BY <1>2, <2>2, CacheMoves
<1>4. CASE Cache!Leave(c) \/ Cache!Notice(c)
  <2>1. PICK state \in CreatorSet :
          /\ state.read = creator[c].read
          /\ creator' = [creator EXCEPT ![c] = state]
    <3>1. CASE Cache!Leave(c)
      <4> DEFINE told == ~Cache!Owns(c)
                 state == [creator[c] EXCEPT !.pc = "release", !.lost = told]
      <4>1. creator' = [creator EXCEPT ![c] = state]
        BY <1>1, <3>1 DEF Cache!Leave
      <4>2. told \in BOOLEAN
        BY DEF Cache!Owns
      <4> HIDE DEF told
      <4>3. state \in CreatorSet /\ state.read = creator[c].read
        BY <1>1, <4>2 DEF CreatorSet
      <4> QED BY <4>1, <4>3
    <3>2. CASE Cache!Notice(c)
      <4> DEFINE state == [creator[c] EXCEPT !.lost = TRUE]
      <4>1. creator' = [creator EXCEPT ![c] = state]
        BY <1>1, <3>2 DEF Cache!Notice
      <4>2. state \in CreatorSet /\ state.read = creator[c].read
        BY <1>1 DEF CreatorSet
      <4> QED BY <4>1, <4>2
    <3> QED BY <1>4, <3>1, <3>2
  <2>2. /\ creator' \in [Creators -> CreatorSet]
        /\ \A d \in Creators : creator'[d].read = creator[d].read
    BY <1>1, <2>1 DEF CreatorSet
  <2> QED BY <1>2, <2>2, CacheMoves
<1>5. CASE Cache!Release(c) \/ Cache!Crash(c)
  <2>1. creator' = [creator EXCEPT ![c] =
                      [pc |-> "idle", read |-> 0, lost |-> FALSE]]
    BY <1>5 DEF Cache!Release, Cache!Crash, Cache!Idle, Cache!Absent
  <2>2. /\ creator' \in [Creators -> CreatorSet]
        /\ \A d \in Creators : creator'[d].read \in {creator[d].read, 0}
    BY <1>1, <2>1 DEF CreatorSet
  <2> QED BY <1>2, <2>2, CacheMoves
<1> QED BY <1>3, <1>4, <1>5

\* A job reads the id of an artifact only if it cannot be used.
LEMMA CacheFind ==
  ASSUME CacheInv, NEW c \in Creators, Cache!Find(c)
  PROVE  CacheInv'
<1>1. /\ creator \in [Creators -> CreatorSet]
      /\ artifact \in Artifact \cup {None}
      /\ UNCHANGED <<lease, artifact, inserted>>
  BY DEF CacheInv, Cache!TypeOK, CreatorSet, Cache!Absent, Artifact, Cache!Find
<1>2. CASE artifact # None /\ artifact.usable
  <2>1. creator' = [creator EXCEPT ![c].pc = "leave"]
    BY <1>2 DEF Cache!Find, Cache!Go
  <2>2. /\ creator' \in [Creators -> CreatorSet]
        /\ \A d \in Creators : creator'[d].read = creator[d].read
    BY <1>1, <2>1 DEF CreatorSet
  <2>3. lease' \in Creators \cup {None}
    BY <1>1 DEF CacheInv, Cache!TypeOK
  <2> QED BY <1>1, <2>2, <2>3, CacheMoves
<1>3. CASE ~(artifact # None /\ artifact.usable)
  <2> DEFINE read == IF artifact = None THEN Cache!Absent ELSE artifact.id
             state == [creator[c] EXCEPT !.pc = "create", !.read = read]
  <2>1. /\ read \in Cache!Ids \cup {0}
        /\ read = IF artifact = None THEN 0 ELSE artifact.id
        /\ creator' = [creator EXCEPT ![c] = state]
    BY <1>1, <1>3 DEF Artifact, Cache!Absent, Cache!Find
  <2> HIDE DEF read
  <2>2. /\ creator' \in [Creators -> CreatorSet]
        /\ creator'[c].read = read
        /\ \A d \in Creators \ {c} : creator'[d] = creator[d]
    <3>1. state \in CreatorSet /\ state.read = read
      BY <1>1, <2>1 DEF CreatorSet
    <3> HIDE DEF state
    <3> QED BY <1>1, <2>1, <3>1
  <2>3. Cache!TypeOK'
    BY <1>1, <2>2 DEF CacheInv, Cache!TypeOK, CreatorSet, Cache!Absent
  <2>4. inserted \in Nat
    BY ArtifactsAssumption DEF CacheInv, Cache!TypeOK
  <2>5. /\ read <= inserted
        /\ read # 0 /\ artifact # None => ~artifact.usable
    BY <1>3, <2>1, <2>4 DEF CacheInv
  <2>6. ASSUME NEW d \in Creators
        PROVE  /\ creator'[d].read <= inserted
               /\ creator'[d].read # 0 /\ artifact # None
                    /\ artifact.id = creator'[d].read => ~artifact.usable
    <3>1. CASE d = c
      BY <2>2, <2>5, <3>1
    <3>2. CASE d # c
      BY <2>2, <3>2 DEF CacheInv
    <3> QED BY <3>1, <3>2
  <2> QED BY <1>1, <2>3, <2>6 DEF CacheInv
<1> QED BY <1>2, <1>3

\* What a deletion meets is not usable.
LEMMA NothingUsableDeleted ==
  ASSUME CacheInv, NEW c \in Creators, artifact # None, Cache!Replaceable(c)
  PROVE  ~artifact.usable
BY DEF CacheInv, Cache!Replaceable, Cache!Absent

\* The document is written, and jobs keep what they read.
LEMMA CacheStores ==
  ASSUME CacheInv, creator' \in [Creators -> CreatorSet],
         \A d \in Creators : creator'[d].read = creator[d].read,
         lease' \in Creators \cup {None},
         \/ artifact' = None /\ inserted' = inserted
         \/ artifact' = artifact /\ inserted' = inserted
         \/ /\ artifact # None /\ inserted' = inserted
            /\ artifact' = [artifact EXCEPT !.usable = FALSE]
         \/ /\ inserted < MaxArtifacts /\ inserted' = inserted + 1
            /\ artifact' = [id |-> inserted + 1, usable |-> TRUE]
  PROVE  CacheInv'
<1>1. /\ inserted \in 0..MaxArtifacts /\ artifact \in Artifact \cup {None}
      /\ None \notin Artifact /\ MaxArtifacts \in Nat
  BY ArtifactsAssumption DEF CacheInv, Cache!TypeOK, Artifact
<1>2. \A d \in Creators : creator[d].read \in Nat
  BY ArtifactsAssumption DEF CacheInv, Cache!TypeOK, Cache!Ids, Cache!Absent
<1>3. CASE artifact' \in {None, artifact} /\ inserted' = inserted
  <2>1. Cache!TypeOK'
    BY <1>1, <1>3 DEF Cache!TypeOK, CreatorSet, Cache!Absent, Artifact
  <2> QED BY <1>3, <2>1 DEF CacheInv
<1>4. CASE /\ artifact # None /\ inserted' = inserted
           /\ artifact' = [artifact EXCEPT !.usable = FALSE]
  <2>1. /\ artifact' \in Artifact /\ artifact'.id = artifact.id
        /\ ~artifact'.usable
    BY <1>1, <1>4 DEF Artifact
  <2>2. Cache!TypeOK'
    BY <1>1, <1>4, <2>1 DEF Cache!TypeOK, CreatorSet, Cache!Absent, Artifact
  <2> QED BY <1>4, <2>1, <2>2 DEF CacheInv
<1>5. CASE /\ inserted < MaxArtifacts /\ inserted' = inserted + 1
           /\ artifact' = [id |-> inserted + 1, usable |-> TRUE]
  <2>1. inserted + 1 \in Cache!Ids /\ inserted' \in 0..MaxArtifacts
    BY <1>1, <1>5 DEF Cache!Ids
  <2>2. artifact' \in Artifact /\ artifact'.id = inserted'
    BY <1>5, <2>1 DEF Artifact
  <2>3. Cache!TypeOK'
    BY <2>1, <2>2 DEF Cache!TypeOK, CreatorSet, Cache!Absent, Artifact
  <2>4. ASSUME NEW d \in Creators
        PROVE  /\ creator'[d].read <= inserted'
               /\ artifact'.id # creator'[d].read
    BY <1>1, <1>2, <1>5, <2>2 DEF CacheInv
  <2>5. artifact'.id <= inserted'
    BY <1>1, <1>5, <2>2
  <2> QED BY <2>3, <2>4, <2>5 DEF CacheInv
<1> QED BY <1>3, <1>4, <1>5

LEMMA CacheNext ==
  ASSUME CacheInv, [Cache!Next]_(Cache!vars)
  PROVE  CacheInv'
<1>1. creator \in [Creators -> CreatorSet] /\ lease \in Creators \cup {None}
  BY DEF CacheInv, Cache!TypeOK, CreatorSet, Cache!Absent
<1>2. CASE UNCHANGED Cache!vars
  BY <1>1, <1>2, CacheStores DEF Cache!vars
<1>3. ASSUME NEW c \in Creators, Cache!Delete(c) \/ Cache!Insert(c)
      PROVE  CacheInv'
  <2>1. PICK place \in {"insert", "leave"} :
          creator' = [creator EXCEPT ![c].pc = place]
    BY <1>3 DEF Cache!Delete, Cache!Insert, Cache!Go
  <2>2. /\ creator' \in [Creators -> CreatorSet]
        /\ \A d \in Creators : creator'[d].read = creator[d].read
    BY <1>1, <2>1 DEF CreatorSet
  <2>3. lease' \in Creators \cup {None}
    BY <1>1, <1>3 DEF Cache!Delete, Cache!Insert
  <2>4. CASE Cache!Delete(c)
    <3>1. artifact' \in {None, artifact} /\ inserted' = inserted
      BY <2>4 DEF Cache!Delete
    <3> QED BY <2>2, <2>3, <3>1, CacheStores
  <2>5. CASE Cache!Insert(c)
    <3>1. \/ artifact' = artifact /\ inserted' = inserted
          \/ /\ inserted < MaxArtifacts /\ inserted' = inserted + 1
             /\ artifact' = [id |-> inserted + 1, usable |-> TRUE]
      BY <2>5 DEF Cache!Insert
    <3> QED BY <2>2, <2>3, <3>1, CacheStores
  <2> QED BY <1>3, <2>4, <2>5
<1>4. CASE Cache!LoseLease \/ Cache!Expire \/ Cache!Remove
  <2>1. creator' = creator /\ lease' \in Creators \cup {None}
    BY <1>1, <1>4 DEF Cache!LoseLease, Cache!Expire, Cache!Remove
  <2>2. /\ inserted' = inserted
        /\ \/ artifact' \in {None, artifact}
           \/ artifact # None /\ artifact' = [artifact EXCEPT !.usable = FALSE]
    BY <1>4 DEF Cache!LoseLease, Cache!Expire, Cache!Remove
  <2> QED BY <1>1, <2>1, <2>2, CacheStores
<1> QED BY <1>2, <1>3, <1>4, CacheGoes, CacheFind DEF Cache!Next

LEMMA CacheStarts ==
  ASSUME Cache!Init
  PROVE  CacheInv
<1>1. Cache!TypeOK
  BY ArtifactsAssumption DEF Cache!Init, Cache!TypeOK, Cache!Idle, Cache!Absent
<1>2. ASSUME NEW c \in Creators
      PROVE  creator[c].read = 0
  BY DEF Cache!Init, Cache!Idle, Cache!Absent
<1> QED BY <1>1, <1>2 DEF Cache!Init, CacheInv

-----------------------------------------------------------------------------
(* Theorems *)

\* The invariants of both parts hold of the composition the run checks.
THEOREM PartsInvariance == PartsSpec => [](PipelineInv /\ CacheInv)
<1>1. PartsInit => PipelineInv /\ CacheInv
  BY PipelineStarts, CacheStarts DEF PartsInit
<1>2. PipelineInv /\ CacheInv /\ [PartsNext]_allVars
        => (PipelineInv /\ CacheInv)'
  <2> SUFFICES ASSUME PipelineInv, CacheInv, [PartsNext]_allVars
               PROVE  PipelineInv' /\ CacheInv'
    OBVIOUS
  <2>1. [Next]_vars
    BY DEF PartsNext, PipelineStep, CacheStep, allVars, pipeline
  <2>2. [Cache!Next]_(Cache!vars)
    BY DEF PartsNext, PipelineStep, CacheStep, allVars, cache, Cache!vars
  <2> QED BY <2>1, <2>2, PipelineNext, CacheNext
<1> QED BY <1>1, <1>2, PTL DEF PartsSpec

\* Every document and process of the pipeline and of the cache keeps its shape.
THEOREM PartsTypeCorrect == PartsSpec => []PartsTypeOK
<1>1. PipelineInv /\ CacheInv => PartsTypeOK
  BY DEF PipelineInv, CacheInv, PartsTypeOK
<1> QED BY <1>1, PartsInvariance, PTL

\* The pipeline alone keeps its invariant, with any fairness.
THEOREM PipelineInvariance == Spec => []PipelineInv
<1> QED BY PipelineStarts, PipelineNext, PTL DEF Spec

\* Expensive work and rendering happen only while the credits are held, in
\* every interleaving of admission, retries, reconciliation and redelivery.
THEOREM WorkIsPaidFor == Spec => []WorkIsAuthorized
<1>1. PipelineInv => WorkIsAuthorized
  BY DEF PipelineInv
<1> QED BY <1>1, PipelineInvariance, PTL

\* markCompletionPublished marks only an outcome that the user was told, even
\* if the job was retried and ended otherwise since it was read.
THEOREM OutcomesWereTold == Spec => PublishedWasTold
<1>1. PipelineInv /\ [Next]_vars
        => [Exists /\ ~clips.completionPublished /\ clips'.completionPublished
              => clips'.status \in notified]_vars
  <2> SUFFICES ASSUME PipelineInv, Next, Exists, ~clips.completionPublished,
                      clips'.completionPublished
               PROVE  clips'.status \in notified
    OBVIOUS
  <2>1. clips \in Job
    BY DEF PipelineInv, TypeOK, Exists
  <2>2. PICK c \in Callers : MarkCompletionPublished(c)
    <3>1. clips' # clips
      OBVIOUS
    <3>2. ASSUME NEW c \in Callers,
                 Save(c) \/ DispatchClaim(c) \/ DispatchClear(c)
                 \/ DispatchPull(c) \/ RetryJob(c) \/ ReconcileFail(c)
                 \/ CallerDies(c)
          PROVE  ~clips'.completionPublished
      BY <2>1, <3>2 DEF Save, DispatchClaim, DispatchClear, DispatchPull,
         RetryJob, ReconcileFail, CallerDies, Holding, Returned, Job
    <3>3. ASSUME NEW w \in Workers,
                 Take(w) \/ Start(w) \/ Progress(w) \/ PrepareRenderManifest(w)
                 \/ ErrorWrite(w) \/ Release(w) \/ OnFailed(w) \/ Crash(w)
          PROVE  ~clips'.completionPublished
      BY <2>1, <3>3 DEF Take, Start, Progress, PrepareRenderManifest,
         ErrorWrite, Release, OnFailed, Crash, Holding, Returned, Job
    <3>4. CASE RecoverLease \/ RenderingEnds
      BY <2>1, <3>4 DEF RecoverLease, RenderingEnds, Returned, Job
    <3>5. CASE Stalled \/ Age \/ Settle
      BY <3>1, <3>5 DEF Stalled, Age, Settle
    <3>6. ASSUME NEW c \in Callers,
                 Reserve(c) \/ DispatchRead(c) \/ DispatchAdd(c) \/ Reconcile(c)
                 \/ ReconcileCheck(c) \/ RecoverRequest(c) \/ PublishRead(c)
                 \/ Notify(c) \/ DispatchFails(c) \/ RetryRead(c)
          PROVE  FALSE
      BY <3>1, <3>6 DEF Reserve, DispatchRead, DispatchAdd, Reconcile,
         ReconcileCheck, RecoverRequest, PublishRead, Notify, DispatchFails,
         RetryRead
    <3>7. ASSUME NEW w \in Workers,
                 Budget(w) \/ FanOut(w) \/ WorkFails(w) \/ ErrorRead(w)
                 \/ EndEntry(w)
          PROVE  FALSE
      BY <3>1, <3>7 DEF Budget, FanOut, WorkFails, ErrorRead, EndEntry
    <3> QED BY <3>2, <3>3, <3>4, <3>5, <3>6, <3>7 DEF Next
  <2>3. clips.status \in notified /\ clips'.status = clips.status
    BY <2>1, <2>2 DEF MarkCompletionPublished, Markable, PipelineInv, CallersRead,
       Job
  <2> QED BY <2>3
<1> QED BY <1>1, PipelineInvariance, PTL DEF Spec, PublishedWasTold

\* While it is usable, a shared artifact is neither removed nor replaced, by
\* however many owners whose lease ran out.
THEOREM ArtifactsAreImmutable == PartsSpec => ArtifactsStay
<1>1. CacheInv /\ [PartsNext]_allVars
        => [artifact # None /\ artifact.usable
              => artifact' # None /\ artifact'.id = artifact.id]_(Cache!vars)
  <2> SUFFICES ASSUME CacheInv, Cache!Next, artifact # None, artifact.usable
               PROVE  artifact' # None /\ artifact'.id = artifact.id
    BY DEF PartsNext, PipelineStep, CacheStep, allVars, cache, Cache!vars
  <2>1. ASSUME NEW c \in Creators, Cache!Delete(c) PROVE artifact' = artifact
    BY <2>1, NothingUsableDeleted DEF Cache!Delete
  <2>2. ASSUME NEW c \in Creators,
               \/ Cache!Acquire(c) \/ Cache!Find(c) \/ Cache!Create(c)
               \/ Cache!Assert(c) \/ Cache!Insert(c) \/ Cache!Leave(c)
               \/ Cache!Release(c) \/ Cache!Notice(c) \/ Cache!Crash(c)
        PROVE  artifact' = artifact
    BY <2>2 DEF Cache!Acquire, Cache!Find, Cache!Create, Cache!Assert,
       Cache!Insert, Cache!Leave, Cache!Release, Cache!Notice, Cache!Crash
  <2>3. CASE Cache!LoseLease \/ Cache!Remove
    BY <2>3 DEF Cache!LoseLease, Cache!Remove
  <2>4. CASE Cache!Expire
    <3>1. artifact \in Artifact /\ None \notin Artifact
      BY ArtifactsAssumption DEF CacheInv, Cache!TypeOK, Artifact
    <3>2. artifact' = [artifact EXCEPT !.usable = FALSE]
      BY <2>4 DEF Cache!Expire
    <3>3. artifact' \in Artifact /\ artifact'.id = artifact.id
      BY <3>1, <3>2 DEF Artifact
    <3> QED BY <3>1, <3>3
  <2> QED BY <2>1, <2>2, <2>3, <2>4 DEF Cache!Next
<1>2. PartsSpec => []CacheInv
  BY PartsInvariance, PTL
<1> QED BY <1>1, <1>2, PTL DEF PartsSpec, ArtifactsStay, Cache!ArtifactsStay

=============================================================================
