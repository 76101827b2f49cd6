-------------------------- MODULE EditRenderProofs --------------------------
(***************************************************************************)
(* Proofs about EditRender, for any number of versions, workers and API    *)
(* requests, whoever crashes or stalls.                                    *)
(*                                                                         *)
(* A token belongs to one execution for ever, and an output that somebody  *)
(* may remove is one that nobody can publish any more; so what a version   *)
(* publishes is in the store, and a completed version is final.            *)
(***************************************************************************)
EXTENDS EditRender, TLAPS

-----------------------------------------------------------------------------
(* The inductive invariant: what the processes are about *)

CallerSet ==
  [pc : {"idle", "acquire", "write", "release", "add", "remove"},
   request : Requests \cup {None}, v : Versions \cup {None},
   generation : Generations]

WorkerSet ==
  [pc : {"idle", "claim", "acquire", "render", "upload", "publish", "release",
         "caught", "cleanup", "fail", "unslot", "rethrow", "returned"},
   v : Versions \cup {None}, generation : Generations,
   token : Tokens \cup {None},
   final : BOOLEAN, permanent : BOOLEAN, uploaded : BOOLEAN,
   status : {"none", "queued", "failed", "cancelled"}]

ReconcilerSet ==
  [task : {"none", "slot", "entry", "output"},
   v : Versions \cup {None}, generation : Generations,
   token : Tokens \cup {None}]

\* The places where an execution has claimed its version.
Executing ==
  {"acquire", "render", "upload", "publish", "release", "caught", "cleanup",
   "fail", "unslot"}

RequestsHaveVersions ==
  \A c \in Callers : caller[c].pc # "idle" => caller[c].v \in Versions

WorkersHaveVersions ==
  \A w \in Workers :
    /\ worker[w].pc # "idle" => worker[w].v \in Versions
    /\ worker[w].pc \in Executing => worker[w].token \in Tokens

TasksHaveVersions ==
  /\ reconciler.task # "none" => reconciler.v \in Versions
  /\ reconciler.task = "output" => reconciler.token \in Tokens

\* A worker that has the lock of an entry is at this entry, and knows whether
\* it is the last attempt.
LocksKnown ==
  \A v \in Versions, g \in Generations, w \in Workers :
    queue[v][g].state = w =>
      /\ worker[w].pc # "idle" /\ worker[w].v = v /\ worker[w].generation = g
      /\ worker[w].final <=> queue[v][g].attemptsMade + 1 >= Attempts

\* An entry that stalled too often has failed.
StallsBounded ==
  \A v \in Versions, g \in Generations :
    queue[v][g].state # "failed" => queue[v][g].stalls <= MaxStalls

ShapeInv ==
  /\ TypeOK
  /\ RequestsHaveVersions /\ WorkersHaveVersions /\ TasksHaveVersions
  /\ LocksKnown /\ StallsBounded

-----------------------------------------------------------------------------
(* Who writes what *)

LEMMA VersionWriters ==
  ASSUME Next
  PROVE  \/ UNCHANGED version
         \/ \E c \in Callers :
              \/ RenderWrite(c) \/ RetryWrite(c)
              \/ \E v \in Versions : CancelWrite(c, v)
         \/ \E w \in Workers :
              \/ Claim(w) \/ Intend(w) \/ Publish(w) \/ Cleanup(w)
              \/ WriteFailure(w)
         \/ \E v \in Versions : ExpireLease(v)
         \/ MarkFailed \/ RemoveOutput
<1>1. ASSUME NEW c \in Callers,
             \/ \E v \in Versions : RenderRead(c, v) \/ RetryRead(c, v)
             \/ Acquire(c) \/ CancelRelease(c) \/ Enqueue(c) \/ CancelRemove(c)
             \/ CallerDies(c)
      PROVE  UNCHANGED version
  BY <1>1 DEF RenderRead, RetryRead, Acquire, CancelRelease, Enqueue,
     CancelRemove, CallerDies
<1>2. ASSUME NEW w \in Workers,
             \/ Skip(w) \/ Delay(w) \/ Readmit(w) \/ RenderFails(w) \/ Upload(w)
             \/ Release(w) \/ Throw(w) \/ Caught(w) \/ ReleaseFailed(w)
             \/ ThrowAgain(w) \/ EndDelivery(w) \/ Crash(w) \/ LoseLock(w)
             \/ \E v \in Versions, g \in Generations : Take(w, v, g)
      PROVE  UNCHANGED version
  BY <1>2 DEF Skip, Delay, Readmit, RenderFails, Upload, Release, Throw, Caught,
     ReleaseFailed, ThrowAgain, EndDelivery, Crash, LoseLock, Take
<1>3. ASSUME NEW v \in Versions,
             \/ ReadPending(v)
             \/ \E g \in Generations : Stalled(v, g) \/ ReadSlot(v, g)
             \/ \E key \in Tokens : ReadOutput(v, key)
      PROVE  UNCHANGED version
  BY <1>3 DEF ReadPending, Stalled, ReadSlot, ReadOutput, Reads
<1>4. FreeSlot \/ QueueAgain => UNCHANGED version
  BY DEF FreeSlot, QueueAgain
<1> QED BY <1>1, <1>2, <1>3, <1>4
        DEF Next, CallerStep, WorkerStep, QueueStep, ReconcilerReads,
            ReconcilerRepairs, Failure

LEMMA SlotsWriters ==
  ASSUME Next
  PROVE  \/ UNCHANGED slots
         \/ \E c \in Callers : Acquire(c) \/ CancelRelease(c)
         \/ \E w \in Workers : Readmit(w) \/ Release(w) \/ ReleaseFailed(w)
         \/ FreeSlot
<1>1. ASSUME NEW c \in Callers,
             \/ \E v \in Versions :
                  RenderRead(c, v) \/ RetryRead(c, v) \/ CancelWrite(c, v)
             \/ RenderWrite(c) \/ RetryWrite(c) \/ Enqueue(c) \/ CancelRemove(c)
             \/ CallerDies(c)
      PROVE  UNCHANGED slots
  BY <1>1 DEF RenderRead, RetryRead, CancelWrite, RenderWrite, RetryWrite,
     Enqueue, CancelRemove, CallerDies
<1>2. ASSUME NEW w \in Workers,
             \/ Claim(w) \/ Skip(w) \/ Delay(w) \/ RenderFails(w) \/ Intend(w)
             \/ Upload(w) \/ Publish(w) \/ Throw(w) \/ Caught(w) \/ Cleanup(w)
             \/ WriteFailure(w) \/ ThrowAgain(w) \/ EndDelivery(w) \/ Crash(w)
             \/ LoseLock(w)
             \/ \E v \in Versions, g \in Generations : Take(w, v, g)
      PROVE  UNCHANGED slots
  BY <1>2 DEF Claim, Skip, Delay, RenderFails, Intend, Upload, Publish, Throw,
     Caught, Cleanup, WriteFailure, ThrowAgain, EndDelivery, Crash, LoseLock, Take
<1>3. ASSUME NEW v \in Versions,
             \/ ReadPending(v) \/ ExpireLease(v)
             \/ \E g \in Generations : Stalled(v, g) \/ ReadSlot(v, g)
             \/ \E key \in Tokens : ReadOutput(v, key)
      PROVE  UNCHANGED slots
  BY <1>3 DEF ReadPending, ExpireLease, Stalled, ReadSlot, ReadOutput, Reads
<1>4. MarkFailed \/ QueueAgain \/ RemoveOutput => UNCHANGED slots
  BY DEF MarkFailed, QueueAgain, RemoveOutput
<1> QED BY <1>1, <1>2, <1>3, <1>4
        DEF Next, CallerStep, WorkerStep, QueueStep, ReconcilerReads,
            ReconcilerRepairs, Failure

LEMMA QueueWriters ==
  ASSUME Next
  PROVE  \/ UNCHANGED queue
         \/ \E c \in Callers : Enqueue(c) \/ CancelRemove(c)
         \/ \E w \in Workers :
              \/ Delay(w) \/ EndDelivery(w) \/ Crash(w) \/ LoseLock(w)
              \/ \E v \in Versions, g \in Generations : Take(w, v, g)
         \/ \E v \in Versions, g \in Generations : Stalled(v, g)
         \/ QueueAgain
<1>1. ASSUME NEW c \in Callers,
             \/ \E v \in Versions :
                  RenderRead(c, v) \/ RetryRead(c, v) \/ CancelWrite(c, v)
             \/ Acquire(c) \/ RenderWrite(c) \/ RetryWrite(c)
             \/ CancelRelease(c) \/ CallerDies(c)
      PROVE  UNCHANGED queue
  BY <1>1 DEF RenderRead, RetryRead, CancelWrite, Acquire, RenderWrite,
     RetryWrite, CancelRelease, CallerDies
<1>2. ASSUME NEW w \in Workers,
             \/ Claim(w) \/ Skip(w) \/ Readmit(w) \/ RenderFails(w) \/ Intend(w)
             \/ Upload(w) \/ Publish(w) \/ Release(w) \/ Throw(w) \/ Caught(w)
             \/ Cleanup(w) \/ WriteFailure(w) \/ ReleaseFailed(w)
             \/ ThrowAgain(w)
      PROVE  UNCHANGED queue
  BY <1>2 DEF Claim, Skip, Readmit, RenderFails, Intend, Upload, Publish,
     Release, Throw, Caught, Cleanup, WriteFailure, ReleaseFailed, ThrowAgain
<1>3. ASSUME NEW v \in Versions,
             \/ ReadPending(v) \/ ExpireLease(v)
             \/ \E g \in Generations : ReadSlot(v, g)
             \/ \E key \in Tokens : ReadOutput(v, key)
      PROVE  UNCHANGED queue
  BY <1>3 DEF ReadPending, ExpireLease, ReadSlot, ReadOutput, Reads
<1>4. MarkFailed \/ FreeSlot \/ RemoveOutput => UNCHANGED queue
  BY DEF MarkFailed, FreeSlot, RemoveOutput
<1> QED BY <1>1, <1>2, <1>3, <1>4
        DEF Next, CallerStep, WorkerStep, QueueStep, ReconcilerReads,
            ReconcilerRepairs, Failure

LEMMA StoreWriters ==
  ASSUME Next
  PROVE  \/ UNCHANGED stored
         \/ \E w \in Workers : Upload(w) \/ Cleanup(w)
         \/ RemoveOutput
<1>1. ASSUME NEW c \in Callers, CallerStep(c) PROVE UNCHANGED stored
  BY <1>1 DEF CallerStep, RenderRead, RetryRead, CancelWrite, Acquire,
     RenderWrite, RetryWrite, CancelRelease, Enqueue, CancelRemove, CallerDies
<1>2. ASSUME NEW w \in Workers,
             \/ Claim(w) \/ Skip(w) \/ Delay(w) \/ Readmit(w) \/ RenderFails(w)
             \/ Intend(w) \/ Publish(w) \/ Release(w) \/ Throw(w) \/ Caught(w)
             \/ WriteFailure(w) \/ ReleaseFailed(w) \/ ThrowAgain(w)
             \/ EndDelivery(w) \/ Crash(w) \/ LoseLock(w)
             \/ \E v \in Versions, g \in Generations : Take(w, v, g)
      PROVE  UNCHANGED stored
  BY <1>2 DEF Claim, Skip, Delay, Readmit, RenderFails, Intend, Publish,
     Release, Throw, Caught, WriteFailure, ReleaseFailed, ThrowAgain,
     EndDelivery, Crash, LoseLock, Take
<1>3. ASSUME NEW v \in Versions,
             \/ ReadPending(v) \/ ExpireLease(v)
             \/ \E g \in Generations : ReadSlot(v, g) \/ Stalled(v, g)
             \/ \E key \in Tokens : ReadOutput(v, key)
      PROVE  UNCHANGED stored
  BY <1>3 DEF ReadPending, ExpireLease, ReadSlot, Stalled, ReadOutput, Reads
<1>4. MarkFailed \/ FreeSlot \/ QueueAgain => UNCHANGED stored
  BY DEF MarkFailed, FreeSlot, QueueAgain
<1> QED BY <1>1, <1>2, <1>3, <1>4
        DEF Next, WorkerStep, QueueStep, ReconcilerReads, ReconcilerRepairs,
            Failure

-----------------------------------------------------------------------------
(* Every variable keeps its shape *)

LEMMA VersionsTyped ==
  ASSUME ShapeInv, Next
  PROVE  version' \in [Versions -> Version]
<1>1. /\ version \in [Versions -> Version] /\ caller \in [Callers -> CallerSet]
      /\ worker \in [Workers -> WorkerSet] /\ reconciler \in ReconcilerSet
      /\ RequestsHaveVersions /\ WorkersHaveVersions /\ TasksHaveVersions
  BY DEF ShapeInv, TypeOK, CallerSet, WorkerSet, ReconcilerSet
<1>2. ASSUME NEW v \in Versions, NEW document \in Version,
             version' = [version EXCEPT ![v] = document]
      PROVE  version' \in [Versions -> Version]
  BY <1>1, <1>2
<1>3. ASSUME NEW c \in Callers, RenderWrite(c)
      PROVE  version' \in [Versions -> Version]
  <2> DEFINE v == caller[c].v
             status == IF version[v].status = "none" THEN "queued"
                       ELSE version[v].status
  <2>1. v \in Versions
    BY <1>1, <1>3 DEF RequestsHaveVersions, RenderWrite, At
  <2>2. version' = [version EXCEPT ![v].status = status]
    BY <1>3 DEF RenderWrite
  <2> HIDE DEF v
  <2>3. [version[v] EXCEPT !.status = status] \in Version
    BY <1>1, <2>1 DEF Version, Pending, Ended
  <2> HIDE DEF status
  <2> QED BY <1>1, <2>1, <2>2, <2>3
<1>4. ASSUME NEW c \in Callers, RetryWrite(c)
      PROVE  version' \in [Versions -> Version]
  <2> DEFINE v == caller[c].v
             document == [version[v] EXCEPT
                 !.status = "queued", !.generation = caller[c].generation,
                 !.retryable = FALSE, !.executionToken = None,
                 !.leased = FALSE]
  <2>1. v \in Versions /\ caller[c].generation \in Generations
    BY <1>1, <1>4 DEF RequestsHaveVersions, RetryWrite, At, CallerSet
  <2>2. version' = version \/ version' = [version EXCEPT ![v] = document]
    BY <1>4 DEF RetryWrite
  <2> HIDE DEF v
  <2>3. version[v] \in Version
    BY <1>1, <2>1
  <2>4. document \in Version
    BY <2>1, <2>3 DEF Version, Pending
  <2> HIDE DEF document
  <2> QED BY <1>1, <1>2, <2>1, <2>2, <2>4
<1>5. ASSUME NEW c \in Callers, NEW v \in Versions, CancelWrite(c, v)
      PROVE  version' \in [Versions -> Version]
  <2>1. [version[v] EXCEPT !.status = "cancelled"] \in Version
    BY <1>1 DEF Version, Ended
  <2>2. version' = [version EXCEPT ![v] = [version[v] EXCEPT !.status = "cancelled"]]
    BY <1>5 DEF CancelWrite
  <2> QED BY <1>1, <2>1, <2>2
<1>6. ASSUME NEW w \in Workers, Claim(w)
      PROVE  version' \in [Versions -> Version]
  <2> DEFINE v == worker[w].v
  <2>1. v \in Versions
    BY <1>1, <1>6 DEF WorkersHaveVersions, Claim, Is
  <2>2. PICK t \in Tokens :
          version' = [version EXCEPT ![v] =
            [version[v] EXCEPT !.status = "processing", !.retryable = FALSE,
                               !.executionToken = t, !.leased = TRUE]]
    BY <1>6 DEF Claim
  <2> DEFINE document ==
        [version[v] EXCEPT !.status = "processing", !.retryable = FALSE,
                           !.executionToken = t, !.leased = TRUE]
  <2>3. version' = [version EXCEPT ![v] = document]
    BY <2>2
  <2> HIDE DEF v
  <2>4. version[v] \in Version
    BY <1>1, <2>1
  <2>5. document \in Version
    BY <2>4 DEF Version, Pending
  <2> HIDE DEF document
  <2> QED BY <1>2, <2>1, <2>3, <2>5
<1>7. ASSUME NEW w \in Workers, Intend(w) \/ Cleanup(w)
      PROVE  version' \in [Versions -> Version]
  <2> DEFINE v == worker[w].v
             t == worker[w].token
  <2>1. v \in Versions /\ t \in Tokens
    BY <1>1, <1>7 DEF WorkersHaveVersions, Intend, Cleanup, Is, Executing
  <2>2. \/ version' = version
        \/ version' = [version EXCEPT ![v].pendingOutputKeys = @ \cup {t}]
        \/ version' = [version EXCEPT ![v].pendingOutputKeys = @ \ {t}]
    BY <1>7 DEF Intend, Cleanup, Forgets
  <2> HIDE DEF v, t
  <2>3. [version[v] EXCEPT !.pendingOutputKeys = @ \cup {t}] \in Version
    BY <1>1, <2>1 DEF Version
  <2>4. [version[v] EXCEPT !.pendingOutputKeys = @ \ {t}] \in Version
    BY <1>1, <2>1 DEF Version
  <2> QED BY <1>1, <2>1, <2>2, <2>3, <2>4
<1>8. ASSUME NEW w \in Workers, Publish(w)
      PROVE  version' \in [Versions -> Version]
  <2> DEFINE v == worker[w].v
             t == worker[w].token
             document ==
               [version[v] EXCEPT !.status = "completed", !.executionToken = None,
                                  !.leased = FALSE, !.outputKey = t,
                                  !.pendingOutputKeys = @ \ {t}]
  <2>1. v \in Versions /\ t \in Tokens
    BY <1>1, <1>8 DEF WorkersHaveVersions, Publish, Is, Executing
  <2>2. version' = version \/ version' = [version EXCEPT ![v] = document]
    BY <1>8 DEF Publish, Mine
  <2> HIDE DEF v, t
  <2>3. document \in Version
    BY <1>1, <2>1 DEF Version, Ended
  <2> HIDE DEF document
  <2> QED BY <1>1, <1>2, <2>1, <2>2, <2>3
<1>9. ASSUME NEW w \in Workers, WriteFailure(w)
      PROVE  version' \in [Versions -> Version]
  <2> DEFINE v == worker[w].v
             status == worker[w].status
             retryable == ~worker[w].permanent /\ status # "cancelled"
             document == [version[v] EXCEPT !.status = status,
                            !.executionToken = None, !.leased = FALSE,
                            !.retryable = retryable]
  <2>1. v \in Versions /\ status \in {"none", "queued", "failed", "cancelled"}
    BY <1>1, <1>9 DEF WorkersHaveVersions, WriteFailure, Is, WorkerSet
  <2>2. version' = version \/ version' = [version EXCEPT ![v] = document]
    BY <1>9 DEF WriteFailure
  <2>3. retryable \in BOOLEAN
    OBVIOUS
  <2> HIDE DEF v, status, retryable
  <2>4. document \in Version
    BY <1>1, <2>1, <2>3 DEF Version, Pending, Ended
  <2> HIDE DEF document
  <2> QED BY <1>1, <1>2, <2>1, <2>2, <2>4
<1>10. ASSUME NEW v \in Versions, ExpireLease(v)
       PROVE  version' \in [Versions -> Version]
  <2>1. [version[v] EXCEPT !.leased = FALSE] \in Version
    BY <1>1 DEF Version
  <2> QED BY <1>1, <1>10, <2>1 DEF ExpireLease
<1>11. CASE MarkFailed
  <2> DEFINE v == reconciler.v
             document == [version[v] EXCEPT !.status = "failed",
                            !.retryable = TRUE, !.executionToken = None,
                            !.leased = FALSE]
  <2>1. v \in Versions
    BY <1>1, <1>11 DEF TasksHaveVersions, MarkFailed, Repairs
  <2>2. version' = version \/ version' = [version EXCEPT ![v] = document]
    BY <1>11 DEF MarkFailed
  <2> HIDE DEF v
  <2>3. document \in Version
    BY <1>1, <2>1 DEF Version, Ended
  <2> HIDE DEF document
  <2> QED BY <1>1, <1>2, <2>1, <2>2, <2>3
<1>12. CASE RemoveOutput
  <2> DEFINE v == reconciler.v
             t == reconciler.token
  <2>1. v \in Versions /\ t \in Tokens
    BY <1>1, <1>12 DEF TasksHaveVersions, RemoveOutput, Repairs
  <2>2. version' = [version EXCEPT ![v].pendingOutputKeys = @ \ {t}]
    BY <1>12 DEF RemoveOutput, Forgets
  <2> HIDE DEF v, t
  <2>3. [version[v] EXCEPT !.pendingOutputKeys = @ \ {t}] \in Version
    BY <1>1, <2>1 DEF Version
  <2> QED BY <1>1, <2>1, <2>2, <2>3
<1> QED BY <1>1, <1>3, <1>4, <1>5, <1>6, <1>7, <1>8, <1>9, <1>10, <1>11, <1>12,
           VersionWriters

LEMMA StoreTyped ==
  ASSUME ShapeInv, Next
  PROVE  slots' \subseteq Versions \X Generations
         /\ stored' \subseteq Versions \X Tokens
<1>1. /\ slots \subseteq Versions \X Generations
      /\ stored \subseteq Versions \X Tokens
      /\ caller \in [Callers -> CallerSet] /\ worker \in [Workers -> WorkerSet]
      /\ RequestsHaveVersions /\ WorkersHaveVersions
  BY DEF ShapeInv, TypeOK, CallerSet, WorkerSet
<1>2. slots' \subseteq Versions \X Generations
  <2>1. ASSUME NEW c \in Callers, Acquire(c)
        PROVE  slots' \subseteq Versions \X Generations
    <3>1. caller[c].v \in Versions /\ caller[c].generation \in Generations
      BY <1>1, <2>1 DEF Acquire, At, RequestsHaveVersions, CallerSet
    <3> QED BY <1>1, <2>1, <3>1 DEF Acquire
  <2>2. ASSUME NEW w \in Workers, Readmit(w)
        PROVE  slots' \subseteq Versions \X Generations
    <3>1. worker[w].v \in Versions /\ Generation(w) \in Generations
      BY <1>1, <2>2 DEF Readmit, Is, WorkersHaveVersions, WorkerSet, Generation
    <3> QED BY <1>1, <2>2, <3>1 DEF Readmit
  <2>3. ASSUME \/ FreeSlot \/ \E c \in Callers : CancelRelease(c)
               \/ \E w \in Workers : Release(w) \/ ReleaseFailed(w)
        PROVE  slots' \subseteq slots
    BY <2>3 DEF FreeSlot, CancelRelease, Release, ReleaseFailed
  <2> QED BY <1>1, <2>1, <2>2, <2>3, SlotsWriters
<1>3. stored' \subseteq Versions \X Tokens
  <2>1. ASSUME NEW w \in Workers, Upload(w)
        PROVE  stored' \subseteq Versions \X Tokens
    <3>1. worker[w].v \in Versions /\ worker[w].token \in Tokens
      BY <1>1, <2>1 DEF Upload, Is, WorkersHaveVersions, Executing
    <3> QED BY <1>1, <2>1, <3>1 DEF Upload
  <2>2. ASSUME RemoveOutput \/ \E w \in Workers : Cleanup(w)
        PROVE  stored' \subseteq stored
    BY <2>2 DEF RemoveOutput, Cleanup
  <2> QED BY <1>1, <2>1, <2>2, StoreWriters
<1> QED BY <1>2, <1>3

LEMMA CallersTyped ==
  ASSUME ShapeInv, Next
  PROVE  caller' \in [Callers -> CallerSet] /\ RequestsHaveVersions'
<1>1. /\ caller \in [Callers -> CallerSet] /\ RequestsHaveVersions
      /\ version \in [Versions -> Version]
  BY DEF ShapeInv, TypeOK, CallerSet
<1>2. ASSUME NEW c \in Callers, NEW request \in CallerSet,
             request.pc # "idle" => request.v \in Versions,
             caller' = [caller EXCEPT ![c] = request]
      PROVE  caller' \in [Callers -> CallerSet] /\ RequestsHaveVersions'
  BY <1>1, <1>2 DEF RequestsHaveVersions
<1>3. ASSUME NEW c \in Callers, NEW request \in Requests \cup {None},
             NEW pc \in {"acquire", "write", "release", "add", "remove"},
             NEW v \in Versions, NEW g \in Generations, Ask(c, request, pc, v, g)
      PROVE  caller' \in [Callers -> CallerSet] /\ RequestsHaveVersions'
  <2> DEFINE asked == [pc |-> pc, request |-> request, v |-> v, generation |-> g]
  <2>1. asked \in CallerSet /\ asked.v \in Versions
    BY DEF CallerSet
  <2>2. caller' = [caller EXCEPT ![c] = asked]
    BY <1>3 DEF Ask
  <2> HIDE DEF asked
  <2> QED BY <1>2, <2>1, <2>2
<1>4. ASSUME NEW c \in Callers, CallerEnds(c)
      PROVE  caller' \in [Callers -> CallerSet] /\ RequestsHaveVersions'
  <2>1. NoRequest \in CallerSet /\ NoRequest.pc = "idle"
    BY BoundsAssumption DEF NoRequest, CallerSet, Generations
  <2> QED BY <1>2, <1>4, <2>1 DEF CallerEnds
<1>5. ASSUME NEW c \in Callers, caller[c].pc # "idle",
             NEW pc \in {"write", "add", "remove"}, CallerGoes(c, pc)
      PROVE  caller' \in [Callers -> CallerSet] /\ RequestsHaveVersions'
  <2> DEFINE asked == [caller[c] EXCEPT !.pc = pc]
  <2>1. caller[c] \in CallerSet /\ caller[c].v \in Versions
    BY <1>1, <1>5 DEF RequestsHaveVersions
  <2>2. asked \in CallerSet /\ asked.v \in Versions
    BY <2>1 DEF CallerSet
  <2>3. caller' = [caller EXCEPT ![c] = asked]
    BY <1>5 DEF CallerGoes
  <2> HIDE DEF asked
  <2> QED BY <1>2, <2>2, <2>3
<1>6. ASSUME NEW c \in Callers, NEW v \in Versions,
             RenderRead(c, v) \/ RetryRead(c, v) \/ CancelWrite(c, v)
      PROVE  caller' \in [Callers -> CallerSet] /\ RequestsHaveVersions'
  <2>1. version[v].generation \in Generations
    BY <1>1 DEF Version
  <2>2. CASE RenderRead(c, v)
    <3>1. 0 \in Generations
      BY BoundsAssumption DEF Generations
    <3> QED BY <1>3, <2>2, <3>1 DEF RenderRead
  <2>3. CASE RetryRead(c, v)
    <3>1. version[v].generation + 1 \in Generations
      BY <2>1, <2>3, BoundsAssumption DEF RetryRead, Generations
    <3> QED BY <1>3, <2>3, <3>1 DEF RetryRead
  <2>4. CASE CancelWrite(c, v)
    BY <1>3, <2>1, <2>4 DEF CancelWrite
  <2> QED BY <1>6, <2>2, <2>3, <2>4
<1>7. ASSUME NEW c \in Callers, RenderWrite(c)
      PROVE  caller' \in [Callers -> CallerSet] /\ RequestsHaveVersions'
  <2> DEFINE v == caller[c].v
  <2>1. v \in Versions /\ "render" \in Requests \cup {None}
    BY <1>1, <1>7 DEF RenderWrite, At, CallerSet, RequestsHaveVersions
  <2>2. version[v].generation \in Generations
    BY <1>1, <2>1 DEF Version
  <2>3. CallerEnds(c) \/ Ask(c, "render", "add", v, version[v].generation)
    BY <1>7 DEF RenderWrite
  <2> HIDE DEF v
  <2> QED BY <1>3, <1>4, <2>1, <2>2, <2>3
<1>8. ASSUME NEW c \in Callers,
             \/ Acquire(c) \/ RetryWrite(c) \/ CancelRelease(c) \/ Enqueue(c)
             \/ CancelRemove(c) \/ CallerDies(c)
      PROVE  caller' \in [Callers -> CallerSet] /\ RequestsHaveVersions'
  <2>1. /\ caller[c].pc # "idle"
        /\ CallerEnds(c) \/ \E pc \in {"write", "add", "remove"} : CallerGoes(c, pc)
    BY <1>8 DEF Acquire, RetryWrite, CancelRelease, Enqueue, CancelRemove,
       CallerDies, At
  <2> QED BY <1>4, <1>5, <2>1
<1>9. ASSUME NEW w \in Workers,
             \/ WorkerStep(w) \/ Crash(w) \/ LoseLock(w)
             \/ \E v \in Versions, g \in Generations : Take(w, v, g)
      PROVE  UNCHANGED caller
  BY <1>9 DEF WorkerStep, Claim, Skip, Delay, Readmit, RenderFails, Intend,
     Upload, Publish, Release, Throw, Caught, Cleanup, WriteFailure,
     ReleaseFailed, ThrowAgain, EndDelivery, Crash, LoseLock, Take
<1>10. ASSUME NEW v \in Versions,
              \/ ReadPending(v) \/ ExpireLease(v)
              \/ \E g \in Generations : ReadSlot(v, g) \/ Stalled(v, g)
              \/ \E key \in Tokens : ReadOutput(v, key)
       PROVE  UNCHANGED caller
  BY <1>10 DEF ReadPending, ExpireLease, ReadSlot, Stalled, ReadOutput, Reads
<1>11. MarkFailed \/ FreeSlot \/ QueueAgain \/ RemoveOutput => UNCHANGED caller
  BY DEF MarkFailed, FreeSlot, QueueAgain, RemoveOutput
<1>12. UNCHANGED caller => caller' \in [Callers -> CallerSet] /\ RequestsHaveVersions'
  BY <1>1 DEF RequestsHaveVersions
<1> QED BY <1>6, <1>7, <1>8, <1>9, <1>10, <1>11, <1>12
        DEF Next, CallerStep, QueueStep, ReconcilerReads, ReconcilerRepairs, Failure

-----------------------------------------------------------------------------
(* What a step does to a worker *)

\* The worker goes on with its execution.
Moved(w, pc) ==
  /\ worker' \in [Workers -> WorkerSet]
  /\ worker'[w].pc = pc /\ worker'[w].v = worker[w].v
  /\ worker'[w].generation = worker[w].generation
  /\ worker'[w].token = worker[w].token /\ worker'[w].final = worker[w].final
  /\ \A u \in Workers \ {w} : worker'[u] = worker[u]

\* A worker without execution, at the place pc.
Emptied(w, pc) ==
  /\ worker' \in [Workers -> WorkerSet]
  /\ worker'[w].pc = pc /\ worker'[w].token = None
  /\ \A u \in Workers \ {w} : worker'[u] = worker[u]

Taken(w, v, g) ==
  /\ Take(w, v, g) /\ Emptied(w, "claim")
  /\ worker'[w].v = v /\ worker'[w].generation = g
  /\ worker'[w].final <=> queue[v][g].attemptsMade + 1 >= Attempts

Claimed(w) ==
  /\ Claim(w) /\ worker' \in [Workers -> WorkerSet]
  /\ worker'[w].pc \in {"acquire", "rethrow"}
  /\ worker'[w].v = worker[w].v
  /\ worker'[w].generation = worker[w].generation
  /\ worker'[w].final = worker[w].final
  /\ worker'[w].token \in Tokens /\ Fresh(worker[w].v, worker'[w].token)
  /\ version' = [version EXCEPT ![worker[w].v] =
       [@ EXCEPT !.status = "processing", !.retryable = FALSE,
                 !.executionToken = worker'[w].token, !.leased = TRUE]]
  /\ \A u \in Workers \ {w} : worker'[u] = worker[u]

\* A worker goes on without another token; what leads to the removal of its
\* own output, and to its publication.
Proceeds(w, pc) ==
  /\ Moved(w, pc) /\ UNCHANGED queue
  /\ worker[w].pc # "idle" /\ pc # "idle"
  /\ pc \in Executing => worker[w].pc \in Executing
  /\ pc = "cleanup" => worker[w].pc = "caught"
                         /\ Mine(w).outputKey # worker[w].token
  /\ pc = "publish" => Upload(w)

WorkerEffect ==
  \/ UNCHANGED worker
  \/ \E w \in Workers :
       \/ (Delay(w) \/ EndDelivery(w) \/ Crash(w)) /\ Emptied(w, "idle")
       \/ \E v \in Versions, g \in Generations : Taken(w, v, g)
       \/ Claimed(w)
       \/ \E pc : Proceeds(w, pc)

LEMMA Moves ==
  ASSUME worker \in [Workers -> WorkerSet], NEW w \in Workers,
         NEW state \in WorkerSet, worker' = [worker EXCEPT ![w] = state],
         state.v = worker[w].v, state.generation = worker[w].generation,
         state.token = worker[w].token, state.final = worker[w].final
  PROVE  Moved(w, state.pc)
BY DEF Moved

LEMMA GoesOn ==
  ASSUME worker \in [Workers -> WorkerSet], NEW w \in Workers,
         NEW pc \in {"render", "upload", "publish", "release", "caught",
                     "cleanup", "fail", "unslot", "rethrow", "returned"},
         Goes(w, pc)
  PROVE  Moved(w, pc)
<1> DEFINE state == [worker[w] EXCEPT !.pc = pc]
<1>1. worker[w] \in WorkerSet
  OBVIOUS
<1>2. /\ state \in WorkerSet /\ state.v = worker[w].v
      /\ state.generation = worker[w].generation
      /\ state.token = worker[w].token /\ state.final = worker[w].final
      /\ state.pc = pc
  BY <1>1 DEF WorkerSet
<1>3. worker' = [worker EXCEPT ![w] = state]
  BY DEF Goes
<1> HIDE DEF state
<1> QED BY <1>2, <1>3, Moves

\* The same with what the execution remembers of its failure.
LEMMA GoesOnWith ==
  ASSUME worker \in [Workers -> WorkerSet], NEW w \in Workers,
         NEW pc \in {"render", "upload", "publish", "release", "caught",
                     "cleanup", "fail", "unslot", "rethrow", "returned"},
         NEW permanent \in BOOLEAN, NEW uploaded \in BOOLEAN,
         NEW status \in {"none", "queued", "failed", "cancelled"},
         \/ worker' = [worker EXCEPT ![w].pc = pc, ![w].permanent = permanent]
         \/ worker' = [worker EXCEPT ![w].pc = pc, ![w].uploaded = uploaded]
         \/ worker' = [worker EXCEPT ![w].pc = pc, ![w].status = status]
         \/ worker' = [worker EXCEPT ![w].pc = pc, ![w].permanent = permanent,
                                     ![w].status = status]
  PROVE  Moved(w, pc)
<1>1. worker[w] \in WorkerSet
  OBVIOUS
<1>2. CASE worker' = [worker EXCEPT ![w].pc = pc, ![w].permanent = permanent]
  <2> DEFINE state == [worker[w] EXCEPT !.pc = pc, !.permanent = permanent]
  <2>1. /\ state \in WorkerSet /\ state.v = worker[w].v
        /\ state.generation = worker[w].generation
        /\ state.token = worker[w].token /\ state.final = worker[w].final
        /\ state.pc = pc
    BY <1>1 DEF WorkerSet
  <2>2. worker' = [worker EXCEPT ![w] = state]
    BY <1>2
  <2> HIDE DEF state
  <2> QED BY <2>1, <2>2, Moves
<1>3. CASE worker' = [worker EXCEPT ![w].pc = pc, ![w].uploaded = uploaded]
  <2> DEFINE state == [worker[w] EXCEPT !.pc = pc, !.uploaded = uploaded]
  <2>1. /\ state \in WorkerSet /\ state.v = worker[w].v
        /\ state.generation = worker[w].generation
        /\ state.token = worker[w].token /\ state.final = worker[w].final
        /\ state.pc = pc
    BY <1>1 DEF WorkerSet
  <2>2. worker' = [worker EXCEPT ![w] = state]
    BY <1>3
  <2> HIDE DEF state
  <2> QED BY <2>1, <2>2, Moves
<1>4. CASE worker' = [worker EXCEPT ![w].pc = pc, ![w].status = status]
  <2> DEFINE state == [worker[w] EXCEPT !.pc = pc, !.status = status]
  <2>1. /\ state \in WorkerSet /\ state.v = worker[w].v
        /\ state.generation = worker[w].generation
        /\ state.token = worker[w].token /\ state.final = worker[w].final
        /\ state.pc = pc
    BY <1>1 DEF WorkerSet
  <2>2. worker' = [worker EXCEPT ![w] = state]
    BY <1>4
  <2> HIDE DEF state
  <2> QED BY <2>1, <2>2, Moves
<1>5. CASE worker' = [worker EXCEPT ![w].pc = pc, ![w].permanent = permanent,
                                    ![w].status = status]
  <2> DEFINE state == [worker[w] EXCEPT !.pc = pc, !.permanent = permanent,
                                        !.status = status]
  <2>1. /\ state \in WorkerSet /\ state.v = worker[w].v
        /\ state.generation = worker[w].generation
        /\ state.token = worker[w].token /\ state.final = worker[w].final
        /\ state.pc = pc
    BY <1>1 DEF WorkerSet
  <2>2. worker' = [worker EXCEPT ![w] = state]
    BY <1>5
  <2> HIDE DEF state
  <2> QED BY <2>1, <2>2, Moves
<1> QED BY <1>2, <1>3, <1>4, <1>5

LEMMA Empties ==
  ASSUME worker \in [Workers -> WorkerSet], NEW w \in Workers,
         worker' = [worker EXCEPT ![w] = NoExecution]
  PROVE  Emptied(w, "idle")
<1>1. /\ NoExecution \in WorkerSet /\ NoExecution.pc = "idle"
      /\ NoExecution.token = None
  BY BoundsAssumption DEF NoExecution, WorkerSet, Generations
<1> QED BY <1>1 DEF Emptied

LEMMA Takes ==
  ASSUME worker \in [Workers -> WorkerSet], NEW w \in Workers,
         NEW v \in Versions, NEW g \in Generations, Take(w, v, g)
  PROVE  Taken(w, v, g)
<1> DEFINE final == queue[v][g].attemptsMade + 1 >= Attempts
           state == [NoExecution EXCEPT !.pc = "claim", !.v = v,
                                        !.generation = g, !.final = final]
<1>1. final \in BOOLEAN
  OBVIOUS
<1>2. worker' = [worker EXCEPT ![w] = state]
  BY DEF Take
<1> HIDE DEF final
<1>3. /\ state \in WorkerSet /\ state.v = v /\ state.pc = "claim"
      /\ state.generation = g /\ state.token = None /\ state.final = final
  BY <1>1, BoundsAssumption DEF WorkerSet, NoExecution
<1> HIDE DEF state
<1>4. Emptied(w, "claim") /\ worker'[w].v = v /\ worker'[w].generation = g
      /\ worker'[w].final = final
  BY <1>2, <1>3 DEF Emptied
<1> QED BY <1>4 DEF Taken, final

LEMMA Claims ==
  ASSUME worker \in [Workers -> WorkerSet], NEW w \in Workers, Claim(w)
  PROVE  Claimed(w)
<1>1. PICK t \in Tokens, pc \in {"acquire", "rethrow"} :
        /\ Fresh(worker[w].v, t)
        /\ version' = [version EXCEPT ![worker[w].v] =
             [@ EXCEPT !.status = "processing", !.retryable = FALSE,
                       !.executionToken = t, !.leased = TRUE]]
        /\ worker' = [worker EXCEPT ![w].pc = pc, ![w].token = t]
  BY DEF Claim
<1> DEFINE state == [worker[w] EXCEPT !.pc = pc, !.token = t]
<1>2. worker[w] \in WorkerSet
  OBVIOUS
<1>3. /\ state \in WorkerSet /\ state.v = worker[w].v /\ state.token = t
      /\ state.pc = pc /\ state.generation = worker[w].generation
      /\ state.final = worker[w].final
  BY <1>2 DEF WorkerSet
<1>4. worker' = [worker EXCEPT ![w] = state]
  BY <1>1
<1> HIDE DEF state
<1>5. /\ worker' \in [Workers -> WorkerSet] /\ worker'[w] = state
      /\ \A u \in Workers \ {w} : worker'[u] = worker[u]
  BY <1>3, <1>4
<1> QED BY <1>1, <1>3, <1>5 DEF Claimed

LEMMA WorkerEffects ==
  ASSUME ShapeInv, Next
  PROVE  WorkerEffect
<1>1. worker \in [Workers -> WorkerSet]
  BY DEF ShapeInv, TypeOK, WorkerSet
<1>2. ASSUME NEW w \in Workers, Delay(w) \/ EndDelivery(w) \/ Crash(w)
      PROVE  WorkerEffect
  <2>1. Emptied(w, "idle")
    BY <1>1, <1>2, Empties DEF Delay, EndDelivery, Crash
  <2> QED BY <1>2, <2>1 DEF WorkerEffect
<1>3. ASSUME NEW w \in Workers, NEW v \in Versions, NEW g \in Generations,
             Take(w, v, g)
      PROVE  WorkerEffect
  BY <1>1, <1>3, Takes DEF WorkerEffect
<1>4. ASSUME NEW w \in Workers, Claim(w) PROVE WorkerEffect
  BY <1>1, <1>4, Claims DEF WorkerEffect
<1>5. ASSUME NEW w \in Workers, Skip(w) \/ Release(w) \/ ReleaseFailed(w)
      PROVE  WorkerEffect
  <2>1. Moved(w, "returned") \/ Moved(w, "rethrow")
    BY <1>1, <1>5, GoesOn DEF Skip, Release, ReleaseFailed
  <2>2. worker[w].pc # "idle" /\ UNCHANGED queue
    BY <1>5 DEF Skip, Release, ReleaseFailed, Is
  <2>3. Proceeds(w, "returned") \/ Proceeds(w, "rethrow")
    BY <2>1, <2>2 DEF Proceeds, Executing
  <2> QED BY <2>3 DEF WorkerEffect
<1>6. ASSUME NEW w \in Workers, Readmit(w) PROVE WorkerEffect
  <2>1. Moved(w, "render") \/ Moved(w, "caught")
    <3>1. CASE Goes(w, "render")
      BY <1>1, <3>1, GoesOn
    <3>2. ASSUME NEW permanent \in BOOLEAN,
                 worker' = [worker EXCEPT ![w].pc = "caught",
                                          ![w].permanent = permanent]
          PROVE  Moved(w, "caught")
      BY <1>1, <3>2, GoesOnWith
    <3>3. {FALSE, ~Admits(worker[w].v, Generation(w))} \subseteq BOOLEAN
      BY Zenon
    <3>4. \/ Goes(w, "render")
          \/ \E permanent \in {FALSE, ~Admits(worker[w].v, Generation(w))} :
               worker' = [worker EXCEPT ![w].pc = "caught",
                                        ![w].permanent = permanent]
      BY <1>6, Zenon DEF Readmit
    <3> QED BY <3>1, <3>2, <3>3, <3>4
  <2>2. worker[w].pc = "acquire" /\ UNCHANGED queue
    BY <1>6 DEF Readmit, Is
  <2>3. Proceeds(w, "render") \/ Proceeds(w, "caught")
    BY <2>1, <2>2 DEF Proceeds, Executing
  <2> QED BY <2>3 DEF WorkerEffect
<1>7. ASSUME NEW w \in Workers, RenderFails(w) PROVE WorkerEffect
  <2>1. PICK permanent \in BOOLEAN :
          worker' = [worker EXCEPT ![w].pc = "caught", ![w].permanent = permanent]
    BY <1>7 DEF RenderFails
  <2>2. Moved(w, "caught")
    BY <1>1, <2>1, GoesOnWith
  <2>3. worker[w].pc = "render" /\ UNCHANGED queue
    BY <1>7 DEF RenderFails, Is
  <2>4. Proceeds(w, "caught")
    BY <2>2, <2>3 DEF Proceeds, Executing
  <2> QED BY <2>4 DEF WorkerEffect
<1>8. ASSUME NEW w \in Workers, Intend(w) PROVE WorkerEffect
  <2>1. Moved(w, "upload") \/ Moved(w, "caught")
    <3>1. \/ Goes(w, "caught")
          \/ worker' = [worker EXCEPT ![w].pc = "upload", ![w].uploaded = TRUE]
      BY <1>8 DEF Intend
    <3> QED BY <1>1, <3>1, GoesOn, GoesOnWith
  <2>2. worker[w].pc = "render" /\ UNCHANGED queue
    BY <1>8 DEF Intend, Is
  <2>3. Proceeds(w, "upload") \/ Proceeds(w, "caught")
    BY <2>1, <2>2 DEF Proceeds, Executing
  <2> QED BY <2>3 DEF WorkerEffect
<1>9. ASSUME NEW w \in Workers, Upload(w) PROVE WorkerEffect
  <2>1. Moved(w, "publish")
    BY <1>1, <1>9, GoesOn DEF Upload
  <2>2. worker[w].pc = "upload" /\ UNCHANGED queue
    BY <1>9 DEF Upload, Is
  <2>3. Proceeds(w, "publish")
    BY <1>9, <2>1, <2>2 DEF Proceeds, Executing
  <2> QED BY <2>3 DEF WorkerEffect
<1>10. ASSUME NEW w \in Workers, Publish(w) PROVE WorkerEffect
  <2>1. Moved(w, "release") \/ Moved(w, "caught")
    BY <1>1, <1>10, GoesOn DEF Publish
  <2>2. worker[w].pc = "publish" /\ UNCHANGED queue
    BY <1>10 DEF Publish, Is
  <2>3. Proceeds(w, "release") \/ Proceeds(w, "caught")
    BY <2>1, <2>2 DEF Proceeds, Executing
  <2> QED BY <2>3 DEF WorkerEffect
<1>11. ASSUME NEW w \in Workers, Throw(w) PROVE WorkerEffect
  <2>1. Moved(w, "returned") \/ Moved(w, "caught")
    BY <1>1, <1>11, GoesOn DEF Throw
  <2>2. worker[w].pc \in {"upload", "publish", "release"} /\ UNCHANGED queue
    BY <1>11 DEF Throw, Is
  <2>3. Proceeds(w, "returned") \/ Proceeds(w, "caught")
    BY <2>1, <2>2 DEF Proceeds, Executing
  <2> QED BY <2>3 DEF WorkerEffect
<1>12. ASSUME NEW w \in Workers, Caught(w) PROVE WorkerEffect
  <2>1. \/ Moved(w, "returned")
        \/ /\ Moved(w, "cleanup") \/ Moved(w, "fail")
           /\ Mine(w).outputKey # worker[w].token
    <3> DEFINE status == IF Mine(w).status = "cancelled" THEN "cancelled"
                         ELSE IF worker[w].permanent \/ worker[w].final
                         THEN "failed" ELSE "queued"
               pc == IF worker[w].uploaded THEN "cleanup" ELSE "fail"
    <3>1. \/ Goes(w, "returned")
          \/ /\ worker' = [worker EXCEPT ![w].pc = pc, ![w].status = status]
             /\ Mine(w).outputKey # worker[w].token
      BY <1>12 DEF Caught
    <3>2. status \in {"none", "queued", "failed", "cancelled"}
          /\ pc \in {"cleanup", "fail"}
      OBVIOUS
    <3> HIDE DEF status, pc
    <3> QED BY <1>1, <3>1, <3>2, GoesOn, GoesOnWith
  <2>2. worker[w].pc = "caught" /\ UNCHANGED queue
    BY <1>12 DEF Caught, Is
  <2>3. Proceeds(w, "returned") \/ Proceeds(w, "cleanup") \/ Proceeds(w, "fail")
    BY <2>1, <2>2 DEF Proceeds, Executing
  <2> QED BY <2>3 DEF WorkerEffect
<1>13. ASSUME NEW w \in Workers, Cleanup(w) PROVE WorkerEffect
  <2>1. Moved(w, "fail")
    BY <1>1, <1>13, GoesOn DEF Cleanup
  <2>2. worker[w].pc = "cleanup" /\ UNCHANGED queue
    BY <1>13 DEF Cleanup, Is
  <2>3. Proceeds(w, "fail")
    BY <2>1, <2>2 DEF Proceeds, Executing
  <2> QED BY <2>3 DEF WorkerEffect
<1>14. ASSUME NEW w \in Workers, WriteFailure(w) PROVE WorkerEffect
  <2>1. Moved(w, "rethrow") \/ Moved(w, "unslot")
    BY <1>1, <1>14, GoesOn DEF WriteFailure
  <2>2. worker[w].pc = "fail" /\ UNCHANGED queue
    BY <1>14 DEF WriteFailure, Is
  <2>3. Proceeds(w, "rethrow") \/ Proceeds(w, "unslot")
    BY <2>1, <2>2 DEF Proceeds, Executing
  <2> QED BY <2>3 DEF WorkerEffect
<1>15. ASSUME NEW w \in Workers, ThrowAgain(w) PROVE WorkerEffect
  <2>1. Moved(w, "rethrow")
    BY <1>1, <1>15, GoesOnWith DEF ThrowAgain
  <2>2. /\ worker[w].pc \in {"claim", "caught", "fail", "unslot"}
        /\ UNCHANGED queue
    BY <1>15 DEF ThrowAgain
  <2>3. Proceeds(w, "rethrow")
    BY <2>1, <2>2 DEF Proceeds, Executing
  <2> QED BY <2>3 DEF WorkerEffect
<1>16. ASSUME NEW c \in Callers, CallerStep(c) PROVE UNCHANGED worker
  BY <1>16 DEF CallerStep, RenderRead, RetryRead, CancelWrite, Acquire,
     RenderWrite, RetryWrite, CancelRelease, Enqueue, CancelRemove, CallerDies
<1>17. ASSUME NEW v \in Versions,
              \/ ReadPending(v) \/ ExpireLease(v)
              \/ \E g \in Generations : ReadSlot(v, g) \/ Stalled(v, g)
              \/ \E key \in Tokens : ReadOutput(v, key)
       PROVE  UNCHANGED worker
  BY <1>17 DEF ReadPending, ExpireLease, ReadSlot, Stalled, ReadOutput, Reads
<1>18. MarkFailed \/ FreeSlot \/ QueueAgain \/ RemoveOutput
       \/ (\E w \in Workers : LoseLock(w))
         => UNCHANGED worker
  BY DEF MarkFailed, FreeSlot, QueueAgain, RemoveOutput, LoseLock
<1>19. UNCHANGED worker => WorkerEffect
  BY DEF WorkerEffect
<1> QED BY <1>2, <1>3, <1>4, <1>5, <1>6, <1>7, <1>8, <1>9, <1>10, <1>11, <1>12,
           <1>13, <1>14, <1>15, <1>16, <1>17, <1>18, <1>19
        DEF Next, WorkerStep, QueueStep, ReconcilerReads, ReconcilerRepairs,
            Failure

LEMMA WorkersTyped ==
  ASSUME ShapeInv, Next
  PROVE  worker' \in [Workers -> WorkerSet] /\ WorkersHaveVersions'
<1>1. worker \in [Workers -> WorkerSet] /\ WorkersHaveVersions /\ WorkerEffect
  BY WorkerEffects DEF ShapeInv, TypeOK, WorkerSet
<1>2. CASE UNCHANGED worker
  BY <1>1, <1>2 DEF WorkersHaveVersions
<1>3. ASSUME NEW w \in Workers, Emptied(w, "idle")
      PROVE  worker' \in [Workers -> WorkerSet] /\ WorkersHaveVersions'
  BY <1>1, <1>3 DEF Emptied, WorkersHaveVersions, Executing
<1>4. ASSUME NEW w \in Workers, NEW v \in Versions, NEW g \in Generations,
             Taken(w, v, g)
      PROVE  worker' \in [Workers -> WorkerSet] /\ WorkersHaveVersions'
  BY <1>1, <1>4 DEF Taken, Emptied, WorkersHaveVersions, Executing
<1>5. ASSUME NEW w \in Workers, Claimed(w)
      PROVE  worker' \in [Workers -> WorkerSet] /\ WorkersHaveVersions'
  BY <1>1, <1>5 DEF Claimed, Claim, Is, WorkersHaveVersions
<1>6. ASSUME NEW w \in Workers, NEW pc, Proceeds(w, pc)
      PROVE  worker' \in [Workers -> WorkerSet] /\ WorkersHaveVersions'
  BY <1>1, <1>6 DEF Proceeds, Moved, WorkersHaveVersions
<1> QED BY <1>1, <1>2, <1>3, <1>4, <1>5, <1>6 DEF WorkerEffect

-----------------------------------------------------------------------------
(* What a step does to a queue entry *)

EntryChange(v, g) ==
  \/ queue'[v][g] = queue[v][g]
  \/ /\ queue'[v][g].state \notin Workers
     /\ queue'[v][g].state # "failed" => queue'[v][g].stalls <= MaxStalls
  \/ \E w \in Workers :
       /\ Take(w, v, g) /\ queue[v][g].state = "waiting"
       /\ queue'[v][g].state = w
       /\ queue'[v][g].attemptsMade = queue[v][g].attemptsMade
       /\ queue'[v][g].stalls = queue[v][g].stalls

\* One entry becomes another.
Becomes(v, g, entry) == queue' = [queue EXCEPT ![v][g] = entry]

LEMMA EntryWritten ==
  ASSUME ShapeInv, NEW v \in Versions, NEW g \in Generations,
         NEW entry \in Entry, Becomes(v, g, entry)
  PROVE  /\ queue' \in [Versions -> [Generations -> Entry]]
         /\ queue'[v][g] = entry
         /\ \A u \in Versions, h \in Generations :
              <<u, h>> # <<v, g>> => queue'[u][h] = queue[u][h]
BY DEF ShapeInv, TypeOK, Becomes

LEMMA EntryOf ==
  ASSUME ShapeInv, NEW v \in Versions, NEW g \in Generations
  PROVE  /\ queue[v][g] \in Entry
         /\ queue[v][g].state # "failed" => queue[v][g].stalls <= MaxStalls
BY DEF ShapeInv, TypeOK, StallsBounded

\* A write that leaves nobody with the lock.
LEMMA EntryWithoutLock ==
  ASSUME ShapeInv, NEW v \in Versions, NEW g \in Generations,
         NEW entry \in Entry, Becomes(v, g, entry), entry.state \notin Workers,
         entry.state # "failed" => entry.stalls <= MaxStalls
  PROVE  /\ queue' \in [Versions -> [Generations -> Entry]]
         /\ \A u \in Versions, h \in Generations : EntryChange(u, h)
<1>1. queue' \in [Versions -> [Generations -> Entry]] /\ queue'[v][g] = entry
  BY EntryWritten
<1>2. ASSUME NEW u \in Versions, NEW h \in Generations PROVE EntryChange(u, h)
  <2>1. CASE <<u, h>> # <<v, g>>
    BY <2>1, EntryWritten DEF EntryChange
  <2>2. CASE u = v /\ h = g
    BY <1>1, <2>2 DEF EntryChange
  <2> QED BY <2>1, <2>2
<1> QED BY <1>1, <1>2

\* Only the state of an entry is written.
LEMMA EntryStateSet ==
  ASSUME ShapeInv, NEW v \in Versions, NEW g \in Generations,
         NEW state \in {"waiting", "orphaned"}, queue[v][g].state # "failed",
         queue' = [queue EXCEPT ![v][g].state = state]
  PROVE  /\ queue' \in [Versions -> [Generations -> Entry]]
         /\ \A u \in Versions, h \in Generations : EntryChange(u, h)
<1> DEFINE entry == [queue[v][g] EXCEPT !.state = state]
<1>1. entry \in Entry /\ entry.state = state
      /\ entry.stalls = queue[v][g].stalls /\ entry.stalls <= MaxStalls
  BY EntryOf DEF Entry
<1>2. Becomes(v, g, entry)
  BY DEF Becomes
<1>3. entry.state \notin Workers
  BY <1>1, WorkersAssumption
<1> HIDE DEF entry
<1> QED BY <1>1, <1>2, <1>3, EntryWithoutLock

LEMMA EntryAdded ==
  ASSUME ShapeInv, NEW v \in Versions, NEW g \in Generations,
         queue' = Added(v, g)
  PROVE  /\ queue' \in [Versions -> [Generations -> Entry]]
         /\ \A u \in Versions, h \in Generations : EntryChange(u, h)
<1>1. CASE queue[v][g].state = "none"
  BY <1>1, EntryStateSet DEF Added
<1>2. CASE queue[v][g].state # "none"
  BY <1>2 DEF Added, EntryChange, ShapeInv, TypeOK
<1> QED BY <1>1, <1>2

LEMMA EntryOrphaned ==
  ASSUME ShapeInv, NEW w \in Workers, worker[w].pc # "idle", queue' = Orphaned(w)
  PROVE  /\ queue' \in [Versions -> [Generations -> Entry]]
         /\ \A u \in Versions, h \in Generations : EntryChange(u, h)
<1> DEFINE v == worker[w].v
           g == worker[w].generation
<1>1. v \in Versions /\ g \in Generations
  BY DEF ShapeInv, TypeOK, WorkersHaveVersions
<1>2. \/ queue' = queue
      \/ queue[v][g].state = w /\ queue' = [queue EXCEPT ![v][g].state = "orphaned"]
  BY DEF Orphaned, Generation
<1>3. w # "failed"
  BY WorkersAssumption
<1> HIDE DEF v, g
<1>4. CASE queue' = queue
  BY <1>4 DEF EntryChange, ShapeInv, TypeOK
<1> QED BY <1>1, <1>2, <1>3, <1>4, EntryStateSet

LEMMA QueueEffects ==
  ASSUME ShapeInv, Next
  PROVE  /\ queue' \in [Versions -> [Generations -> Entry]]
         /\ \A v \in Versions, g \in Generations : EntryChange(v, g)
<1> DEFINE Goal == /\ queue' \in [Versions -> [Generations -> Entry]]
                   /\ \A v \in Versions, g \in Generations : EntryChange(v, g)
<1>1. /\ queue \in [Versions -> [Generations -> Entry]]
      /\ caller \in [Callers -> CallerSet] /\ RequestsHaveVersions
      /\ worker \in [Workers -> WorkerSet] /\ WorkersHaveVersions
      /\ reconciler \in ReconcilerSet /\ TasksHaveVersions
  BY DEF ShapeInv, TypeOK, CallerSet, WorkerSet, ReconcilerSet
<1>2. CASE UNCHANGED queue
  BY <1>1, <1>2 DEF EntryChange
<1>3. ASSUME NEW c \in Callers, Enqueue(c) PROVE Goal
  <2>1. /\ caller[c].v \in Versions /\ caller[c].generation \in Generations
        /\ queue' = Added(caller[c].v, caller[c].generation)
    BY <1>1, <1>3 DEF Enqueue, At, RequestsHaveVersions, CallerSet
  <2> QED BY <2>1, EntryAdded
<1>4. ASSUME NEW c \in Callers, CancelRemove(c) PROVE Goal
  <2> DEFINE v == caller[c].v
             g == caller[c].generation
  <2>1. v \in Versions /\ g \in Generations
    BY <1>1, <1>4 DEF CancelRemove, At, RequestsHaveVersions, CallerSet
  <2>2. queue' = queue \/ queue' = [queue EXCEPT ![v][g] = NoEntry]
    BY <1>4 DEF CancelRemove
  <2> HIDE DEF v, g
  <2>3. NoEntry \in Entry /\ NoEntry.state = "none" /\ NoEntry.stalls <= MaxStalls
    BY BoundsAssumption DEF NoEntry, Entry
  <2>4. NoEntry.state \notin Workers
    BY <2>3, WorkersAssumption
  <2> QED BY <1>2, <2>1, <2>2, <2>3, <2>4, EntryWithoutLock DEF Becomes
<1>5. ASSUME NEW w \in Workers, Delay(w) PROVE Goal
  <2> DEFINE v == worker[w].v
             g == worker[w].generation
  <2>1. v \in Versions /\ g \in Generations
    BY <1>1, <1>5 DEF Delay, Is, WorkersHaveVersions, WorkerSet
  <2>2. \/ queue' = queue
        \/ queue[v][g].state = w /\ queue' = [queue EXCEPT ![v][g].state = "waiting"]
    BY <1>5 DEF Delay, Generation
  <2>3. w # "failed"
    BY WorkersAssumption
  <2> HIDE DEF v, g
  <2> QED BY <1>2, <2>1, <2>2, <2>3, EntryStateSet
<1>6. ASSUME NEW w \in Workers, EndDelivery(w) PROVE Goal
  <2> DEFINE v == worker[w].v
             g == worker[w].generation
  <2>1. v \in Versions /\ g \in Generations /\ worker[w] \in WorkerSet
    BY <1>1, <1>6 DEF EndDelivery, WorkersHaveVersions, WorkerSet
  <2>2. \/ queue' = queue
        \/ /\ queue[v][g].state = w
           /\ Becomes(v, g, AfterDelivery(w, queue[v][g]))
    BY <1>6 DEF EndDelivery, Generation, Becomes
  <2>3. worker[w].v = v /\ worker[w].generation = g
    OBVIOUS
  <2> HIDE DEF v, g
  <2>4. CASE queue[v][g].state = w /\ Becomes(v, g, AfterDelivery(w, queue[v][g]))
    <3> DEFINE old == queue[v][g]
               entry == AfterDelivery(w, old)
    <3>1. old \in Entry /\ old.stalls <= MaxStalls
      BY <2>1, <2>4, EntryOf, WorkersAssumption
    <3>2. worker[w].final <=> old.attemptsMade + 1 >= Attempts
      BY <2>1, <2>4 DEF ShapeInv, LocksKnown
    <3>3. ASSUME ~worker[w].final PROVE old.attemptsMade + 1 \in 0..Attempts
      <4>1. old.attemptsMade \in 0..Attempts
        BY <3>1 DEF Entry
      <4> HIDE DEF old
      <4> QED BY <3>2, <3>3, <4>1, BoundsAssumption
    <3> HIDE DEF old
    <3>4. /\ entry \in Entry /\ entry.stalls = old.stalls
          /\ entry.state \in {"completed", "failed", "waiting"}
      BY <3>1, <3>3 DEF AfterDelivery, Entry
    <3>5. entry.state \notin Workers
      BY <3>4, WorkersAssumption
    <3>6. Becomes(v, g, entry)
      BY <2>4 DEF old
    <3> HIDE DEF entry
    <3> QED BY <2>1, <3>1, <3>4, <3>5, <3>6, EntryWithoutLock
  <2> QED BY <1>2, <2>2, <2>4
<1>7. ASSUME NEW w \in Workers, Crash(w) \/ LoseLock(w) PROVE Goal
  BY <1>7, EntryOrphaned DEF Crash, LoseLock, Is
<1>8. ASSUME NEW w \in Workers, NEW v \in Versions, NEW g \in Generations,
             Take(w, v, g)
      PROVE  Goal
  <2> DEFINE entry == [queue[v][g] EXCEPT !.state = w]
  <2>1. /\ entry \in Entry /\ entry.state = w
        /\ entry.attemptsMade = queue[v][g].attemptsMade
        /\ entry.stalls = queue[v][g].stalls
    BY EntryOf DEF Entry
  <2>2. Becomes(v, g, entry) /\ queue[v][g].state = "waiting"
    BY <1>8 DEF Take, Becomes
  <2> HIDE DEF entry
  <2>3. queue' \in [Versions -> [Generations -> Entry]] /\ queue'[v][g] = entry
    BY <2>1, <2>2, EntryWritten
  <2>4. ASSUME NEW u \in Versions, NEW h \in Generations PROVE EntryChange(u, h)
    <3>1. CASE <<u, h>> # <<v, g>>
      BY <2>1, <2>2, <3>1, EntryWritten DEF EntryChange
    <3>2. CASE u = v /\ h = g
      BY <1>8, <2>1, <2>2, <2>3, <3>2 DEF EntryChange
    <3> QED BY <3>1, <3>2
  <2> QED BY <2>3, <2>4
<1>9. ASSUME NEW v \in Versions, NEW g \in Generations, Stalled(v, g) PROVE Goal
  <2> DEFINE old == queue[v][g]
             state == IF old.stalls < MaxStalls THEN "waiting" ELSE "failed"
             entry == [old EXCEPT !.stalls = old.stalls + 1, !.state = state]
  <2>1. old \in Entry /\ old.state = "orphaned" /\ Becomes(v, g, entry)
    BY <1>9, EntryOf DEF Stalled, Becomes
  <2>2. old.stalls <= MaxStalls
    BY <2>1, EntryOf
  <2>3. old.stalls + 1 \in 0..(MaxStalls + 1)
        /\ (old.stalls < MaxStalls => old.stalls + 1 <= MaxStalls)
    <3>1. old.stalls \in 0..(MaxStalls + 1)
      BY <2>1 DEF Entry
    <3> HIDE DEF old
    <3> QED BY <2>2, <3>1, BoundsAssumption
  <2> HIDE DEF old
  <2>4. state \in {"waiting", "failed"} /\ (state # "failed" => old.stalls < MaxStalls)
    OBVIOUS
  <2> HIDE DEF state
  <2>5. entry \in Entry /\ entry.state = state /\ entry.stalls = old.stalls + 1
    BY <2>1, <2>3, <2>4 DEF Entry
  <2>6. entry.state \notin Workers
    BY <2>4, <2>5, WorkersAssumption
  <2> HIDE DEF entry
  <2> QED BY <2>1, <2>3, <2>4, <2>5, <2>6, EntryWithoutLock
<1>10. CASE QueueAgain
  <2>1. /\ reconciler.v \in Versions /\ reconciler.generation \in Generations
        /\ queue' = Added(reconciler.v, reconciler.generation)
    BY <1>1, <1>10 DEF QueueAgain, Repairs, TasksHaveVersions, ReconcilerSet
  <2> QED BY <2>1, EntryAdded
<1> HIDE DEF Goal
<1>11. Goal
  BY <1>2, <1>3, <1>4, <1>5, <1>6, <1>7, <1>8, <1>9, <1>10, QueueWriters DEF Goal
<1> QED BY <1>11 DEF Goal

\* A worker that ends or dies gives its lock back.
LEMMA LocksReleased ==
  ASSUME ShapeInv, NEW w \in Workers, NEW v \in Versions, NEW g \in Generations,
         Delay(w) \/ EndDelivery(w) \/ Crash(w)
  PROVE  ~(queue[v][g].state = w /\ queue'[v][g].state = w)
<1> SUFFICES ASSUME queue[v][g].state = w
             PROVE  queue'[v][g].state # w
  OBVIOUS
<1>1. /\ worker[w].v = v /\ Generation(w) = g
      /\ queue \in [Versions -> [Generations -> Entry]] /\ queue[v][g] \in Entry
  <2>1. worker[w].v = v /\ Generation(w) = g
    BY DEF ShapeInv, LocksKnown, Generation
  <2>2. queue \in [Versions -> [Generations -> Entry]] /\ queue[v][g] \in Entry
    BY EntryOf DEF ShapeInv, TypeOK
  <2> QED BY <2>1, <2>2
<1>2. w \notin {"waiting", "orphaned", "completed", "failed"}
  BY WorkersAssumption
<1>3. CASE Delay(w)
  <2>1. queue' = [queue EXCEPT ![v][g].state = "waiting"]
    BY <1>1, <1>3 DEF Delay
  <2>2. queue'[v][g].state = "waiting"
    BY <1>1, <2>1 DEF Entry
  <2> QED BY <1>2, <2>2
<1>4. CASE EndDelivery(w)
  <2>1. queue' = [queue EXCEPT ![v][g] = AfterDelivery(w, queue[v][g])]
    BY <1>1, <1>4 DEF EndDelivery
  <2>2. queue'[v][g] = AfterDelivery(w, queue[v][g])
    BY <1>1, <2>1
  <2>3. AfterDelivery(w, queue[v][g]).state \in {"waiting", "completed", "failed"}
    BY <1>1 DEF AfterDelivery, Entry
  <2> QED BY <1>2, <2>2, <2>3
<1>5. CASE Crash(w)
  <2>1. queue' = [queue EXCEPT ![v][g].state = "orphaned"]
    BY <1>1, <1>5 DEF Crash, Orphaned
  <2>2. queue'[v][g].state = "orphaned"
    BY <1>1, <2>1 DEF Entry
  <2> QED BY <1>2, <2>2
<1> QED BY <1>3, <1>4, <1>5

LEMMA LocksKnownNext ==
  ASSUME ShapeInv, Next
  PROVE  LocksKnown'
<1> SUFFICES ASSUME NEW v \in Versions, NEW g \in Generations, NEW w \in Workers,
                    queue'[v][g].state = w
             PROVE  /\ worker'[w].pc # "idle" /\ worker'[w].v = v
                    /\ worker'[w].generation = g
                    /\ worker'[w].final <=>
                         queue'[v][g].attemptsMade + 1 >= Attempts
  BY DEF LocksKnown
<1>1. worker \in [Workers -> WorkerSet] /\ EntryChange(v, g) /\ WorkerEffect
  BY QueueEffects, WorkerEffects DEF ShapeInv, TypeOK, WorkerSet
<1>2. CASE queue'[v][g] = queue[v][g]
  <2>1. /\ worker[w].pc # "idle" /\ worker[w].v = v /\ worker[w].generation = g
        /\ worker[w].final <=> queue'[v][g].attemptsMade + 1 >= Attempts
    BY <1>2 DEF ShapeInv, LocksKnown
  <2>2. ~(Delay(w) \/ EndDelivery(w) \/ Crash(w))
    BY <1>2, LocksReleased
  <2>3. ASSUME NEW u \in Versions, NEW h \in Generations, Taken(w, u, h)
        PROVE  FALSE
    BY <2>1, <2>3 DEF Taken, Take, Is
  <2>4. CASE worker'[w] = worker[w]
    BY <2>1, <2>4
  <2>5. CASE Claimed(w)
    BY <2>1, <2>5 DEF Claimed
  <2>6. ASSUME NEW pc, Proceeds(w, pc)
        PROVE  /\ worker'[w].pc # "idle" /\ worker'[w].v = worker[w].v
               /\ worker'[w].generation = worker[w].generation
               /\ worker'[w].final = worker[w].final
    BY <2>6 DEF Proceeds, Moved
  <2>7. worker'[w] = worker[w] \/ Claimed(w) \/ \E pc : Proceeds(w, pc)
    <3>1. ASSUME NEW u \in Workers, Emptied(u, "idle"),
                 Delay(u) \/ EndDelivery(u) \/ Crash(u)
          PROVE  worker'[w] = worker[w]
      BY <2>2, <3>1 DEF Emptied
    <3>2. ASSUME NEW u \in Workers, NEW a \in Versions, NEW h \in Generations,
                 Taken(u, a, h)
          PROVE  worker'[w] = worker[w]
      BY <2>3, <3>2 DEF Taken, Emptied
    <3>3. ASSUME NEW u \in Workers, Claimed(u)
          PROVE  worker'[w] = worker[w] \/ Claimed(w)
      <4>1. CASE u = w
        BY <3>3, <4>1
      <4>2. CASE u # w
        BY <3>3, <4>2 DEF Claimed
      <4> QED BY <4>1, <4>2
    <3>4. ASSUME NEW u \in Workers, NEW pc, Proceeds(u, pc)
          PROVE  worker'[w] = worker[w] \/ \E q : Proceeds(w, q)
      <4>1. CASE u = w
        BY <3>4, <4>1
      <4>2. CASE u # w
        BY <3>4, <4>2 DEF Proceeds, Moved
      <4> QED BY <4>1, <4>2
    <3> QED BY <1>1, <3>1, <3>2, <3>3, <3>4 DEF WorkerEffect
  <2> QED BY <2>1, <2>4, <2>5, <2>6, <2>7
<1>3. CASE queue'[v][g].state \notin Workers
  BY <1>3
<1>4. ASSUME NEW u \in Workers, Take(u, v, g), queue'[v][g].state = u,
             queue'[v][g].attemptsMade = queue[v][g].attemptsMade
      PROVE  /\ worker'[w].pc # "idle" /\ worker'[w].v = v
             /\ worker'[w].generation = g
             /\ worker'[w].final <=> queue'[v][g].attemptsMade + 1 >= Attempts
  <2>1. Taken(w, v, g)
    BY <1>1, <1>4, Takes
  <2> QED BY <1>4, <2>1 DEF Taken, Emptied
<1> QED BY <1>1, <1>2, <1>3, <1>4 DEF EntryChange

-----------------------------------------------------------------------------
(* Reconciliation, and the shape as a whole *)

\* What a step does to the task of reconciliation.
TaskChange ==
  \/ reconciler' = reconciler
  \/ reconciler'.task \in {"none", "slot", "entry"} /\ reconciler'.v \in Versions
  \/ reconciler' = NoTask
  \/ \E v \in Versions, key \in Tokens :
       /\ AbandonedOutput(v, key) /\ reconciler'.task = "output"
       /\ reconciler'.v = v /\ reconciler'.token = key
       /\ UNCHANGED <<version, worker>>

LEMMA TasksTyped ==
  ASSUME ShapeInv, Next
  PROVE  reconciler' \in ReconcilerSet /\ TaskChange /\ TasksHaveVersions'
<1>1. /\ reconciler \in ReconcilerSet /\ TasksHaveVersions
      /\ version \in [Versions -> Version]
  BY DEF ShapeInv, TypeOK, ReconcilerSet
<1>2. CASE UNCHANGED reconciler
  BY <1>1, <1>2 DEF TasksHaveVersions, TaskChange
<1>3. ASSUME NEW v \in Versions, NEW g \in Generations,
             NEW task \in {"slot", "entry", "output"},
             NEW token \in Tokens \cup {None}, Reads(task, v, g, token)
      PROVE  /\ reconciler' \in ReconcilerSet
             /\ reconciler'.task = task /\ reconciler'.v = v
             /\ reconciler'.token = token
             /\ UNCHANGED <<version, worker>>
  BY <1>3 DEF Reads, ReconcilerSet
<1>4. ASSUME NEW v \in Versions, NEW g \in Generations, ReadSlot(v, g)
      PROVE  reconciler' \in ReconcilerSet /\ TaskChange /\ TasksHaveVersions'
  <2>1. reconciler' \in ReconcilerSet /\ reconciler'.task = "slot"
        /\ reconciler'.v = v
    BY <1>3, <1>4 DEF ReadSlot
  <2> QED BY <2>1 DEF TaskChange, TasksHaveVersions
<1>5. ASSUME NEW v \in Versions, ReadPending(v)
      PROVE  reconciler' \in ReconcilerSet /\ TaskChange /\ TasksHaveVersions'
  <2>1. version[v].generation \in Generations
        /\ version[v].executionToken \in Tokens \cup {None}
    BY <1>1 DEF Version
  <2>2. reconciler' \in ReconcilerSet /\ reconciler'.task = "entry"
        /\ reconciler'.v = v
    BY <1>3, <1>5, <2>1 DEF ReadPending
  <2> QED BY <2>2 DEF TaskChange, TasksHaveVersions
<1>6. ASSUME NEW v \in Versions, NEW key \in Tokens, ReadOutput(v, key)
      PROVE  reconciler' \in ReconcilerSet /\ TaskChange /\ TasksHaveVersions'
  <2>1. 0 \in Generations
    BY BoundsAssumption DEF Generations
  <2>2. /\ reconciler' \in ReconcilerSet /\ reconciler'.task = "output"
        /\ reconciler'.v = v /\ reconciler'.token = key
        /\ UNCHANGED <<version, worker>> /\ AbandonedOutput(v, key)
    BY <1>3, <1>6, <2>1 DEF ReadOutput
  <2> QED BY <2>2 DEF TaskChange, TasksHaveVersions
<1>7. CASE reconciler' = NoTask
  BY <1>7, BoundsAssumption
     DEF NoTask, ReconcilerSet, TaskChange, TasksHaveVersions, Generations
<1>8. FreeSlot \/ MarkFailed \/ QueueAgain \/ RemoveOutput => reconciler' = NoTask
  BY DEF FreeSlot, MarkFailed, QueueAgain, RemoveOutput, Repairs
<1>9. ASSUME NEW c \in Callers, CallerStep(c) PROVE UNCHANGED reconciler
  BY <1>9 DEF CallerStep, RenderRead, RetryRead, CancelWrite, Acquire,
     RenderWrite, RetryWrite, CancelRelease, Enqueue, CancelRemove, CallerDies
<1>10. ASSUME NEW w \in Workers,
              \/ WorkerStep(w) \/ Crash(w) \/ LoseLock(w)
              \/ \E v \in Versions, g \in Generations : Take(w, v, g)
       PROVE  UNCHANGED reconciler
  BY <1>10 DEF WorkerStep, Claim, Skip, Delay, Readmit, RenderFails, Intend,
     Upload, Publish, Release, Throw, Caught, Cleanup, WriteFailure,
     ReleaseFailed, ThrowAgain, EndDelivery, Crash, LoseLock, Take
<1>11. ASSUME NEW v \in Versions,
              ExpireLease(v) \/ \E g \in Generations : Stalled(v, g)
       PROVE  UNCHANGED reconciler
  BY <1>11 DEF ExpireLease, Stalled
<1> QED BY <1>2, <1>4, <1>5, <1>6, <1>7, <1>8, <1>9, <1>10, <1>11
        DEF Next, QueueStep, ReconcilerReads, ReconcilerRepairs, Failure

LEMMA ShapeNext ==
  ASSUME ShapeInv, [Next]_vars
  PROVE  ShapeInv'
<1>1. CASE UNCHANGED vars
  BY <1>1 DEF vars, ShapeInv, TypeOK, RequestsHaveVersions, WorkersHaveVersions,
     TasksHaveVersions, LocksKnown, StallsBounded
<1>2. CASE Next
  <2>1. /\ version' \in [Versions -> Version]
        /\ slots' \subseteq Versions \X Generations
        /\ stored' \subseteq Versions \X Tokens
        /\ caller' \in [Callers -> CallerSet]
        /\ worker' \in [Workers -> WorkerSet]
        /\ queue' \in [Versions -> [Generations -> Entry]]
        /\ reconciler' \in ReconcilerSet
    BY <1>2, VersionsTyped, StoreTyped, CallersTyped, WorkersTyped, QueueEffects,
       TasksTyped
  <2>2. TypeOK'
    BY <2>1 DEF TypeOK, CallerSet, WorkerSet, ReconcilerSet
  <2>3. StallsBounded'
    <3> SUFFICES ASSUME NEW v \in Versions, NEW g \in Generations,
                        queue'[v][g].state # "failed"
                 PROVE  queue'[v][g].stalls <= MaxStalls
      BY DEF StallsBounded
    <3>1. EntryChange(v, g)
      BY <1>2, QueueEffects
    <3> QED BY <3>1, EntryOf DEF EntryChange
  <2>4. /\ RequestsHaveVersions' /\ WorkersHaveVersions' /\ TasksHaveVersions'
        /\ LocksKnown'
    BY <1>2, CallersTyped, WorkersTyped, TasksTyped, LocksKnownNext
  <2> QED BY <2>2, <2>3, <2>4 DEF ShapeInv
<1> QED BY <1>1, <1>2

LEMMA ShapeStarts ==
  ASSUME Init
  PROVE  ShapeInv
<1>1. /\ NoVersion \in Version /\ NoEntry \in Entry /\ NoRequest \in CallerSet
      /\ NoExecution \in WorkerSet /\ NoTask \in ReconcilerSet
  BY BoundsAssumption DEF NoVersion, Version, NoEntry, Entry, NoRequest,
     CallerSet, NoExecution, WorkerSet, NoTask, ReconcilerSet, Generations
<1>2. TypeOK
  BY <1>1 DEF Init, TypeOK, CallerSet, WorkerSet, ReconcilerSet
<1>3. RequestsHaveVersions /\ WorkersHaveVersions /\ TasksHaveVersions
  BY DEF Init, RequestsHaveVersions, WorkersHaveVersions, TasksHaveVersions,
     NoRequest, NoExecution, NoTask, Executing
<1>4. LocksKnown
  BY WorkersAssumption DEF Init, LocksKnown, NoEntry
<1>5. StallsBounded
  BY BoundsAssumption DEF Init, StallsBounded, NoEntry
<1> QED BY <1>2, <1>3, <1>4, <1>5 DEF ShapeInv

\* The shape is kept, whoever crashes or stalls.
THEOREM Invariance == Spec => []ShapeInv
<1> QED BY ShapeStarts, ShapeNext, PTL DEF Spec

\* Every document, entry, slot and process keeps its shape: no retry is counted
\* beyond its bound, and no failed attempt beyond Attempts.
THEOREM TypeCorrect == Spec => []TypeOK
<1>1. ShapeInv => TypeOK
  BY DEF ShapeInv
<1> QED BY <1>1, Invariance, PTL

-----------------------------------------------------------------------------
(* The inductive invariant: tokens, outputs and leases *)

\* Two executions of a version never have the same token.
TokensDiffer ==
  \A a, b \in Workers :
    /\ worker[a].v = worker[b].v /\ worker[a].token = worker[b].token
    /\ worker[a].token # None
    => a = b

\* Who is about to remove an output does not remove the published one.
CleanupsSpare ==
  \A w \in Workers :
    worker[w].pc = "cleanup" => Mine(w).outputKey # worker[w].token

\* Nor does reconciliation, whose output is of an execution that lost its lease
\* for good.
RemovalsSpare ==
  reconciler.task = "output" =>
    /\ version[reconciler.v].outputKey # reconciler.token
    /\ ~ /\ version[reconciler.v].executionToken = reconciler.token
         /\ version[reconciler.v].leased

\* An execution that may publish has uploaded.
UploadsStored ==
  \A w \in Workers :
    worker[w].pc = "publish" /\ Fenced(w) => Output(w) \in stored

CompletedReleased ==
  \A v \in Versions : version[v].status = "completed" => ~version[v].leased

OutputInv ==
  /\ ShapeInv
  /\ TokensDiffer /\ CleanupsSpare /\ RemovalsSpare /\ UploadsStored
  /\ CompletedReleased /\ PublishedIsStored

-----------------------------------------------------------------------------
(* What a step does to a version *)

\* A document that is neither claimed nor published: nobody gets a lease, and
\* without one it stays completed.
Keeps(old, new) ==
  /\ new.outputKey = old.outputKey
  /\ new.leased => /\ old.leased /\ new.executionToken = old.executionToken
                   /\ new.status = "processing" => old.status = "processing"
  /\ old.status = "completed" /\ ~old.leased => new.status = "completed"
  /\ new.status = "completed" => old.status = "completed"

ClaimedBy(v, w) ==
  /\ Claimed(w) /\ worker[w].v = v
  /\ version[v].status \in Pending /\ version'[v].status = "processing"
  /\ version'[v].executionToken = worker'[w].token
  /\ version'[v].outputKey = version[v].outputKey

PublishedBy(v, w) ==
  /\ Publish(w) /\ Fenced(w) /\ worker[w].v = v
  /\ version'[v].status = "completed" /\ ~version'[v].leased
  /\ version'[v].outputKey = worker[w].token

VersionChange(v) ==
  \/ Keeps(version[v], version'[v])
  \/ \E w \in Workers : ClaimedBy(v, w) \/ PublishedBy(v, w)

LEMMA SameVersion ==
  ASSUME NEW v \in Versions, version'[v] = version[v]
  PROVE  VersionChange(v)
BY DEF VersionChange, Keeps

\* One document is replaced by one that keeps it.
LEMMA OneVersion ==
  ASSUME ShapeInv, NEW x \in Versions, NEW document \in Version,
         Keeps(version[x], document), version' = [version EXCEPT ![x] = document],
         NEW v \in Versions
  PROVE  VersionChange(v)
<1>1. version \in [Versions -> Version]
  BY DEF ShapeInv, TypeOK
<1>2. CASE v = x
  BY <1>1, <1>2 DEF VersionChange
<1>3. CASE v # x
  BY <1>1, <1>3, SameVersion
<1> QED BY <1>2, <1>3

\* Only the announced outputs of one document change.
LEMMA OnlyAnnounced ==
  ASSUME ShapeInv, NEW x \in Versions, NEW keys \in SUBSET Tokens,
         version' = [version EXCEPT ![x].pendingOutputKeys = keys],
         NEW v \in Versions
  PROVE  VersionChange(v)
<1> DEFINE document == [version[x] EXCEPT !.pendingOutputKeys = keys]
<1>1. version[x] \in Version
  BY DEF ShapeInv, TypeOK
<1>2. /\ document \in Version /\ document.outputKey = version[x].outputKey
      /\ document.leased = version[x].leased
      /\ document.executionToken = version[x].executionToken
      /\ document.status = version[x].status
  BY <1>1 DEF Version
<1>3. version' = [version EXCEPT ![x] = document]
  OBVIOUS
<1> HIDE DEF document
<1>4. Keeps(version[x], document)
  BY <1>2 DEF Keeps
<1> QED BY <1>2, <1>3, <1>4, OneVersion

\* A document gets another status and keeps or loses its lease.
LEMMA OnlyStatus ==
  ASSUME ShapeInv, NEW x \in Versions, NEW document \in Version,
         version' = [version EXCEPT ![x] = document],
         document.outputKey = version[x].outputKey,
         \/ ~document.leased
         \/ /\ document.leased = version[x].leased
            /\ document.executionToken = version[x].executionToken
            /\ document.status # "processing" \/ document.status = version[x].status,
         \/ version[x].status # "completed" /\ document.status # "completed"
         \/ version[x].leased /\ document.status # "completed"
         \/ document.status = version[x].status,
         NEW v \in Versions
  PROVE  VersionChange(v)
<1>1. Keeps(version[x], document)
  BY DEF Keeps
<1> QED BY <1>1, OneVersion

LEMMA VersionEffects ==
  ASSUME ShapeInv, Next, NEW v \in Versions
  PROVE  VersionChange(v)
<1>1. /\ version \in [Versions -> Version] /\ caller \in [Callers -> CallerSet]
      /\ worker \in [Workers -> WorkerSet] /\ reconciler \in ReconcilerSet
      /\ RequestsHaveVersions /\ WorkersHaveVersions /\ TasksHaveVersions
  BY DEF ShapeInv, TypeOK, CallerSet, WorkerSet, ReconcilerSet
<1>2. ASSUME NEW c \in Callers, RenderWrite(c) PROVE VersionChange(v)
  <2> DEFINE x == caller[c].v
             status == IF version[x].status = "none" THEN "queued"
                       ELSE version[x].status
             document == [version[x] EXCEPT !.status = status]
  <2>1. x \in Versions
    BY <1>1, <1>2 DEF RequestsHaveVersions, RenderWrite, At
  <2>2. version' = [version EXCEPT ![x] = document]
    BY <1>2 DEF RenderWrite
  <2> HIDE DEF x
  <2>3. version[x] \in Version
    BY <1>1, <2>1
  <2>4. /\ status = version[x].status \/ (version[x].status = "none" /\ status = "queued")
        /\ status \in {"none"} \cup Pending \cup Ended
    BY <2>3 DEF Version, Pending
  <2> HIDE DEF status
  <2>5. /\ document \in Version /\ document.outputKey = version[x].outputKey
        /\ document.leased = version[x].leased
        /\ document.executionToken = version[x].executionToken
        /\ document.status = status
    BY <2>3, <2>4 DEF Version
  <2> HIDE DEF document
  <2> QED BY <2>1, <2>2, <2>4, <2>5, OnlyStatus
<1>3. ASSUME NEW c \in Callers, RetryWrite(c) PROVE VersionChange(v)
  <2> DEFINE x == caller[c].v
             document == [version[x] EXCEPT
                 !.status = "queued", !.generation = caller[c].generation,
                 !.retryable = FALSE, !.executionToken = None,
                 !.leased = FALSE]
  <2>1. x \in Versions /\ caller[c].generation \in Generations
    BY <1>1, <1>3 DEF RequestsHaveVersions, RetryWrite, At, CallerSet
  <2>2. \/ version' = version
        \/ /\ version[x].status = "failed"
           /\ version' = [version EXCEPT ![x] = document]
    BY <1>3 DEF RetryWrite, Retriable
  <2> HIDE DEF x
  <2>3. version[x] \in Version
    BY <1>1, <2>1
  <2>4. /\ document \in Version /\ document.outputKey = version[x].outputKey
        /\ document.leased = FALSE /\ document.status = "queued"
    BY <2>1, <2>3 DEF Version, Pending
  <2> HIDE DEF document
  <2> QED BY <2>1, <2>2, <2>4, SameVersion, OnlyStatus
<1>4. ASSUME NEW c \in Callers, NEW x \in Versions, CancelWrite(c, x)
      PROVE  VersionChange(v)
  <2> DEFINE document == [version[x] EXCEPT !.status = "cancelled"]
  <2>1. version[x] \in Version /\ version[x].status \in Pending
    BY <1>1, <1>4 DEF CancelWrite, Unfinished
  <2>2. version' = [version EXCEPT ![x] = document]
    BY <1>4 DEF CancelWrite
  <2>3. /\ document \in Version /\ document.outputKey = version[x].outputKey
        /\ document.leased = version[x].leased
        /\ document.executionToken = version[x].executionToken
        /\ document.status = "cancelled"
    BY <2>1 DEF Version, Ended
  <2> HIDE DEF document
  <2> QED BY <2>1, <2>2, <2>3, OnlyStatus DEF Pending
<1>5. ASSUME NEW w \in Workers, Claim(w) PROVE VersionChange(v)
  <2>1. Claimed(w)
    BY <1>1, <1>5, Claims
  <2> DEFINE x == worker[w].v
             document ==
               [version[x] EXCEPT !.status = "processing", !.retryable = FALSE,
                                  !.executionToken = worker'[w].token,
                                  !.leased = TRUE]
  <2>3. x \in Versions /\ version' = [version EXCEPT ![x] = document]
        /\ version[x].status \in Pending
    BY <1>1, <2>1 DEF Claimed, Claim, Is, WorkersHaveVersions, Claimable, Mine
  <2>4. version[x] \in Version
    BY <1>1, <2>3
  <2>5. document.status = "processing" /\ document.outputKey = version[x].outputKey
        /\ document.executionToken = worker'[w].token
    BY <2>4 DEF Version
  <2> HIDE DEF document
  <2>6. CASE v = x
    <3>1. ClaimedBy(v, w)
      BY <1>1, <2>1, <2>3, <2>5, <2>6 DEF ClaimedBy
    <3> QED BY <3>1 DEF VersionChange
  <2>7. CASE v # x
    BY <1>1, <2>3, <2>7, SameVersion
  <2> QED BY <2>6, <2>7
<1>6. ASSUME NEW w \in Workers, Intend(w) \/ Cleanup(w)
      PROVE  VersionChange(v)
  <2> DEFINE x == worker[w].v
             keys == version[x].pendingOutputKeys
             t == worker[w].token
  <2>1. x \in Versions /\ t \in Tokens
    BY <1>1, <1>6 DEF WorkersHaveVersions, Intend, Cleanup, Is, Executing
  <2>2. \/ version' = version
        \/ version' = [version EXCEPT ![x].pendingOutputKeys = keys \cup {t}]
        \/ version' = [version EXCEPT ![x].pendingOutputKeys = keys \ {t}]
    BY <1>6 DEF Intend, Cleanup, Forgets
  <2> HIDE DEF x, t
  <2>3. keys \cup {t} \in SUBSET Tokens /\ keys \ {t} \in SUBSET Tokens
    BY <1>1, <2>1 DEF Version
  <2> HIDE DEF keys
  <2> QED BY <2>1, <2>2, <2>3, SameVersion, OnlyAnnounced
<1>7. ASSUME NEW w \in Workers, Publish(w) PROVE VersionChange(v)
  <2> DEFINE x == worker[w].v
             document ==
               [version[x] EXCEPT
                  !.status = "completed", !.executionToken = None,
                  !.leased = FALSE, !.outputKey = worker[w].token,
                  !.pendingOutputKeys =
                    version[x].pendingOutputKeys \ {worker[w].token}]
  <2>1. x \in Versions /\ version[x] \in Version
    BY <1>1, <1>7 DEF WorkersHaveVersions, Publish, Is
  <2>2. \/ version' = version
        \/ Fenced(w) /\ version' = [version EXCEPT ![x] = document]
    BY <1>7 DEF Publish, Mine
  <2>3. /\ document.status = "completed" /\ document.leased = FALSE
        /\ document.outputKey = worker[w].token
    BY <2>1 DEF Version
  <2> HIDE DEF document
  <2>4. CASE version' = version
    BY <2>4, SameVersion
  <2>5. CASE Fenced(w) /\ version' = [version EXCEPT ![x] = document]
    <3>1. CASE v = x
      <4>1. version'[v] = document
        BY <1>1, <2>1, <2>5, <3>1
      <4>2. PublishedBy(v, w)
        BY <1>7, <2>3, <2>5, <3>1, <4>1 DEF PublishedBy
      <4> QED BY <4>2 DEF VersionChange
    <3>2. CASE v # x
      BY <1>1, <2>1, <2>5, <3>2, SameVersion
    <3> QED BY <3>1, <3>2
  <2> QED BY <2>2, <2>4, <2>5
<1>8. ASSUME NEW w \in Workers, WriteFailure(w) PROVE VersionChange(v)
  <2> DEFINE x == worker[w].v
             status == worker[w].status
             retryable == ~worker[w].permanent /\ status # "cancelled"
             document == [version[x] EXCEPT !.status = status,
                            !.executionToken = None, !.leased = FALSE,
                            !.retryable = retryable]
  <2>1. /\ x \in Versions /\ version[x] \in Version
        /\ status \in {"none", "queued", "failed", "cancelled"}
    BY <1>1, <1>8 DEF WorkersHaveVersions, WriteFailure, Is, WorkerSet
  <2>2. \/ version' = version
        \/ /\ version[x].leased
           /\ version' = [version EXCEPT ![x] = document]
    BY <1>8 DEF WriteFailure, Owns, Mine
  <2>3. retryable \in BOOLEAN
    OBVIOUS
  <2> HIDE DEF x, status, retryable
  <2>4. /\ document \in Version /\ document.outputKey = version[x].outputKey
        /\ document.leased = FALSE /\ document.status = status
    BY <2>1, <2>3 DEF Version, Pending, Ended
  <2> HIDE DEF document
  <2> QED BY <2>1, <2>2, <2>4, SameVersion, OnlyStatus
<1>9. ASSUME NEW x \in Versions, ExpireLease(x) PROVE VersionChange(v)
  <2> DEFINE document == [version[x] EXCEPT !.leased = FALSE]
  <2>1. version[x] \in Version
    BY <1>1
  <2>2. version' = [version EXCEPT ![x] = document]
    BY <1>9 DEF ExpireLease
  <2>3. /\ document \in Version /\ document.outputKey = version[x].outputKey
        /\ document.leased = FALSE /\ document.status = version[x].status
    BY <2>1 DEF Version
  <2> HIDE DEF document
  <2> QED BY <2>2, <2>3, OnlyStatus
<1>10. CASE MarkFailed
  <2> DEFINE x == reconciler.v
             document == [version[x] EXCEPT
                 !.status = "failed", !.retryable = TRUE,
                 !.executionToken = None, !.leased = FALSE]
  <2>1. x \in Versions
    BY <1>1, <1>10 DEF MarkFailed, Repairs, TasksHaveVersions
  <2>2. \/ version' = version
        \/ /\ version[x].status \in Pending
           /\ version' = [version EXCEPT ![x] = document]
    BY <1>10 DEF MarkFailed, Abandoned, Unfinished
  <2> HIDE DEF x
  <2>3. version[x] \in Version
    BY <1>1, <2>1
  <2>4. /\ document \in Version /\ document.outputKey = version[x].outputKey
        /\ document.leased = FALSE /\ document.status = "failed"
    BY <2>3 DEF Version, Ended
  <2> HIDE DEF document
  <2>5. version[x].status \in Pending => version[x].status # "completed"
    BY DEF Pending
  <2> QED BY <2>1, <2>2, <2>4, <2>5, SameVersion, OnlyStatus
<1>11. CASE RemoveOutput
  <2> DEFINE x == reconciler.v
             keys == version[x].pendingOutputKeys \ {reconciler.token}
  <2>1. x \in Versions
    BY <1>1, <1>11 DEF RemoveOutput, Repairs, TasksHaveVersions
  <2>2. version' = [version EXCEPT ![x].pendingOutputKeys = keys]
    BY <1>11 DEF RemoveOutput, Forgets
  <2>3. keys \in SUBSET Tokens
    BY <1>1, <2>1 DEF Version
  <2> HIDE DEF x, keys
  <2> QED BY <2>1, <2>2, <2>3, OnlyAnnounced
<1>12. CASE UNCHANGED version
  BY <1>12, SameVersion
<1> QED BY <1>2, <1>3, <1>4, <1>5, <1>6, <1>7, <1>8, <1>9, <1>10, <1>11, <1>12,
           VersionWriters

-----------------------------------------------------------------------------
(* The safety of outputs *)

\* Where a worker may have come from, whoever moved.
LEMMA WorkerCameFrom ==
  ASSUME ShapeInv, Next, NEW w \in Workers
  PROVE  \/ worker'[w] = worker[w]
         \/ worker'[w].token = None /\ worker'[w].pc \in {"idle", "claim"}
         \/ Claimed(w)
         \/ \E pc : Proceeds(w, pc)
<1>1. WorkerEffect
  BY WorkerEffects
<1>2. ASSUME NEW u \in Workers, NEW pc \in {"idle", "claim"}, Emptied(u, pc)
      PROVE  \/ worker'[w] = worker[w]
             \/ worker'[w].token = None /\ worker'[w].pc \in {"idle", "claim"}
  BY <1>2 DEF Emptied
<1>3. ASSUME NEW u \in Workers, Claimed(u)
      PROVE  worker'[w] = worker[w] \/ Claimed(w)
  <2>1. CASE u = w
    BY <1>3, <2>1
  <2>2. CASE u # w
    BY <1>3, <2>2 DEF Claimed
  <2> QED BY <2>1, <2>2
<1>4. ASSUME NEW u \in Workers, NEW pc, Proceeds(u, pc)
      PROVE  worker'[w] = worker[w] \/ \E q : Proceeds(w, q)
  <2>1. CASE u = w
    BY <1>4, <2>1
  <2>2. CASE u # w
    BY <1>4, <2>2 DEF Proceeds, Moved
  <2> QED BY <2>1, <2>2
<1> QED BY <1>1, <1>2, <1>3, <1>4 DEF WorkerEffect, Taken

LEMMA TokensDifferNext ==
  ASSUME OutputInv, Next
  PROVE  TokensDiffer'
<1> SUFFICES ASSUME NEW a \in Workers, NEW b \in Workers, a # b,
                    worker'[a].v = worker'[b].v,
                    worker'[a].token = worker'[b].token,
                    worker'[a].token # None
             PROVE  FALSE
  BY DEF TokensDiffer
<1>1. ShapeInv /\ TokensDiffer
  BY DEF OutputInv
<1>2. ASSUME NEW w \in Workers, NEW u \in Workers, u # w, Claimed(w),
             worker'[u].v = worker'[w].v, worker'[u].token = worker'[w].token
      PROVE  FALSE
  <2>1. worker'[u] = worker[u] /\ ~InUse(worker[w].v, worker'[w].token)
    BY <1>2 DEF Claimed, Fresh
  <2> QED BY <1>2, <2>1 DEF Claimed, InUse
<1>3. ~Claimed(a) /\ ~Claimed(b)
  BY <1>2
<1>4. ASSUME NEW w \in Workers, worker'[w].token # None, ~Claimed(w)
      PROVE  worker'[w].v = worker[w].v /\ worker'[w].token = worker[w].token
  BY <1>1, <1>4, WorkerCameFrom DEF Proceeds, Moved
<1>5. worker[a].v = worker[b].v /\ worker[a].token = worker[b].token
      /\ worker[a].token # None
  BY <1>3, <1>4
<1> QED BY <1>1, <1>5 DEF TokensDiffer

LEMMA CleanupsSpareNext ==
  ASSUME OutputInv, Next
  PROVE  CleanupsSpare'
<1> SUFFICES ASSUME NEW w \in Workers, worker'[w].pc = "cleanup"
             PROVE  version'[worker'[w].v].outputKey # worker'[w].token
  BY DEF CleanupsSpare, Mine
<1>1. /\ ShapeInv /\ TokensDiffer /\ CleanupsSpare /\ WorkersHaveVersions
      /\ WorkersHaveVersions'
  BY WorkersTyped DEF OutputInv, ShapeInv
<1> DEFINE v == worker[w].v
<1>2. /\ worker'[w].v = v /\ worker'[w].token = worker[w].token
      /\ worker[w].pc \in {"caught", "cleanup"}
      /\ version[v].outputKey # worker[w].token
  <2>1. CASE worker'[w] = worker[w]
    BY <1>1, <2>1 DEF CleanupsSpare, Mine
  <2>2. ~Claimed(w)
    BY DEF Claimed
  <2>3. ASSUME NEW pc, Proceeds(w, pc)
        PROVE  /\ worker'[w].v = v /\ worker'[w].token = worker[w].token
               /\ worker[w].pc = "caught"
               /\ version[v].outputKey # worker[w].token
    BY <2>3 DEF Proceeds, Moved, Mine
  <2> QED BY <1>1, <2>1, <2>2, <2>3, WorkerCameFrom
<1>3. v \in Versions /\ worker[w].token \in Tokens
  BY <1>1, <1>2 DEF WorkersHaveVersions, Executing
<1>4. VersionChange(v)
  BY <1>1, <1>3, VersionEffects
<1>5. ASSUME NEW u \in Workers, PublishedBy(v, u)
      PROVE  version'[v].outputKey # worker[w].token
  <2>1. worker[u].v = v /\ worker[u].pc = "publish"
        /\ version'[v].outputKey = worker[u].token
    BY <1>5 DEF PublishedBy, Publish, Is
  <2>2. u # w /\ worker[w].token # None
    BY <1>2, <1>3, <2>1, NoneAssumption DEF Tokens
  <2> QED BY <1>1, <2>1, <2>2 DEF TokensDiffer
<1>6. version'[v].outputKey # worker[w].token
  BY <1>2, <1>4, <1>5 DEF VersionChange, Keeps, ClaimedBy
<1> QED BY <1>2, <1>6

LEMMA RemovalsSpareNext ==
  ASSUME OutputInv, Next
  PROVE  RemovalsSpare'
<1> SUFFICES ASSUME reconciler'.task = "output"
             PROVE  /\ version'[reconciler'.v].outputKey # reconciler'.token
                    /\ ~ /\ version'[reconciler'.v].executionToken
                              = reconciler'.token
                         /\ version'[reconciler'.v].leased
  BY DEF RemovalsSpare
<1>1. ShapeInv /\ RemovalsSpare /\ TasksHaveVersions /\ TaskChange
  BY TasksTyped DEF OutputInv, ShapeInv
<1>2. CASE reconciler' = reconciler
  <2> DEFINE v == reconciler.v
             key == reconciler.token
  <2>1. /\ v \in Versions /\ key \in Tokens /\ version[v].outputKey # key
        /\ ~(version[v].executionToken = key /\ version[v].leased)
    BY <1>1, <1>2 DEF RemovalsSpare, TasksHaveVersions
  <2>2. VersionChange(v)
    BY <1>1, <2>1, VersionEffects
  <2>3. ASSUME NEW w \in Workers, ClaimedBy(v, w)
        PROVE  version'[v].executionToken # key
    BY <2>3 DEF ClaimedBy, Claimed, Fresh, InUse
  <2>4. ASSUME NEW w \in Workers, PublishedBy(v, w)
        PROVE  version'[v].outputKey # key /\ ~version'[v].leased
    BY <2>1, <2>4 DEF PublishedBy, Fenced, Mine
  <2>5. /\ version'[v].outputKey # key
        /\ ~(version'[v].executionToken = key /\ version'[v].leased)
    BY <2>1, <2>2, <2>3, <2>4 DEF VersionChange, Keeps, ClaimedBy
  <2> QED BY <1>2, <2>5
<1>3. ASSUME NEW v \in Versions, NEW key \in Tokens, AbandonedOutput(v, key),
             reconciler'.v = v, reconciler'.token = key, UNCHANGED version
      PROVE  /\ version'[reconciler'.v].outputKey # reconciler'.token
             /\ ~ /\ version'[reconciler'.v].executionToken = reconciler'.token
                  /\ version'[reconciler'.v].leased
  <2>1. key # None
    BY NoneAssumption DEF Tokens
  <2> QED BY <1>3, <2>1 DEF AbandonedOutput
<1>4. NoTask.task # "output"
  BY DEF NoTask
<1> QED BY <1>1, <1>2, <1>3, <1>4 DEF TaskChange

\* What is stored stays, but for the output a worker cleans up and the one
\* that reconciliation removes; neither writes more than the list of outputs.
LEMMA StoredStays ==
  ASSUME OutputInv, Next, NEW v \in Versions, NEW key \in Tokens,
         <<v, key>> \in stored,
         \A w \in Workers :
           ~(worker[w].pc = "cleanup" /\ worker[w].v = v /\ worker[w].token = key),
         ~(reconciler.task = "output" /\ reconciler.v = v /\ reconciler.token = key)
  PROVE  <<v, key>> \in stored'
<1>1. ASSUME NEW w \in Workers, Cleanup(w)
      PROVE  <<v, key>> \in stored'
  <2>1. <<v, key>> # Output(w)
    BY <1>1 DEF Cleanup, Is, Output
  <2> QED BY <1>1, <2>1 DEF Cleanup
<1>2. CASE RemoveOutput
  <2>1. stored' = stored \ {<<reconciler.v, reconciler.token>>}
        /\ reconciler.task = "output"
    BY <1>2 DEF RemoveOutput, Repairs
  <2> QED BY <2>1
<1>3. ASSUME NEW w \in Workers, Upload(w)
      PROVE  <<v, key>> \in stored'
  BY <1>3 DEF Upload
<1> QED BY <1>1, <1>2, <1>3, StoreWriters

LEMMA UploadsStoredNext ==
  ASSUME OutputInv, Next
  PROVE  UploadsStored'
<1> SUFFICES ASSUME NEW w \in Workers, worker'[w].pc = "publish", Fenced(w)'
             PROVE  <<worker'[w].v, worker'[w].token>> \in stored'
  BY DEF UploadsStored, Output
<1>1. /\ ShapeInv /\ TokensDiffer /\ TokensDiffer' /\ RemovalsSpare
      /\ UploadsStored /\ WorkersHaveVersions
  BY TokensDifferNext DEF OutputInv, ShapeInv
<1>2. /\ version'[worker'[w].v].status = "processing"
      /\ version'[worker'[w].v].executionToken = worker'[w].token
      /\ version'[worker'[w].v].leased
  BY DEF Fenced, Mine
<1>3. CASE worker'[w] = worker[w]
  <2> DEFINE v == worker[w].v
             key == worker[w].token
  <2>1. v \in Versions /\ key \in Tokens /\ key # None /\ worker[w].pc = "publish"
    BY <1>1, <1>3, NoneAssumption DEF WorkersHaveVersions, Executing, Tokens
  <2>2. VersionChange(v)
    BY <1>1, <2>1, VersionEffects
  <2>3. ASSUME NEW u \in Workers, ClaimedBy(v, u)
        PROVE  FALSE
    <3>1. worker'[u].token = key /\ worker'[u].v = v
      BY <1>2, <1>3, <2>3 DEF ClaimedBy, Claimed
    <3>2. u = w
      BY <1>1, <1>3, <2>1, <3>1 DEF TokensDiffer
    <3> QED BY <2>1, <2>3, <3>2 DEF ClaimedBy, Claimed, Claim, Is
  <2>4. ASSUME NEW u \in Workers, PublishedBy(v, u)
        PROVE  FALSE
    BY <1>2, <1>3, <2>4 DEF PublishedBy
  <2>5. /\ version[v].status = "processing" /\ version[v].executionToken = key
        /\ version[v].leased
    BY <1>2, <1>3, <2>2, <2>3, <2>4 DEF VersionChange, Keeps
  <2>6. <<v, key>> \in stored
    BY <1>1, <2>1, <2>5 DEF UploadsStored, Fenced, Mine, Output
  <2>7. ASSUME NEW u \in Workers, worker[u].pc = "cleanup"
        PROVE  ~(worker[u].v = v /\ worker[u].token = key)
    <3>1. u # w
      BY <2>1, <2>7
    <3> QED BY <1>1, <2>1, <3>1 DEF TokensDiffer
  <2>8. ~(reconciler.task = "output" /\ reconciler.v = v /\ reconciler.token = key)
    BY <1>1, <2>5 DEF RemovalsSpare
  <2>9. <<v, key>> \in stored'
    BY <2>1, <2>6, <2>7, <2>8, StoredStays
  <2> QED BY <1>3, <2>9
<1>4. ~Claimed(w)
  BY DEF Claimed
<1>5. ASSUME NEW pc, Proceeds(w, pc)
      PROVE  <<worker'[w].v, worker'[w].token>> \in stored'
  <2>1. /\ Upload(w) /\ worker'[w].v = worker[w].v
        /\ worker'[w].token = worker[w].token
    BY <1>5 DEF Proceeds, Moved
  <2> QED BY <2>1 DEF Upload
<1> QED BY <1>1, <1>3, <1>4, <1>5, WorkerCameFrom

LEMMA PublishedNext ==
  ASSUME OutputInv, Next
  PROVE  PublishedIsStored' /\ CompletedReleased'
<1>1. /\ ShapeInv /\ CleanupsSpare /\ RemovalsSpare /\ UploadsStored
      /\ PublishedIsStored /\ CompletedReleased
      /\ version \in [Versions -> Version]
  BY DEF OutputInv, ShapeInv, TypeOK
<1>2. ASSUME NEW v \in Versions, version'[v].outputKey # None
      PROVE  <<v, version'[v].outputKey>> \in stored'
  <2>1. VersionChange(v)
    BY <1>1, VersionEffects
  <2>2. ASSUME NEW w \in Workers, PublishedBy(v, w)
        PROVE  <<v, version'[v].outputKey>> \in stored'
    <3>1. /\ worker[w].pc = "publish" /\ Fenced(w) /\ UNCHANGED stored
          /\ Output(w) = <<v, version'[v].outputKey>>
      BY <2>2 DEF PublishedBy, Publish, Is, Output
    <3> QED BY <1>1, <3>1 DEF UploadsStored
  <2>3. CASE version'[v].outputKey = version[v].outputKey
    <3> DEFINE key == version[v].outputKey
    <3>1. key \in Tokens /\ <<v, key>> \in stored
      BY <1>1, <1>2, <2>3 DEF Version, PublishedIsStored
    <3>2. \A w \in Workers :
            ~(worker[w].pc = "cleanup" /\ worker[w].v = v /\ worker[w].token = key)
      BY <1>1 DEF CleanupsSpare, Mine
    <3>3. ~ /\ reconciler.task = "output" /\ reconciler.v = v
            /\ reconciler.token = key
      BY <1>1 DEF RemovalsSpare
    <3>4. <<v, key>> \in stored'
      BY <3>1, <3>2, <3>3, StoredStays
    <3> QED BY <2>3, <3>4
  <2> QED BY <2>1, <2>2, <2>3 DEF VersionChange, Keeps, ClaimedBy
<1>3. ASSUME NEW v \in Versions, version'[v].status = "completed"
      PROVE  ~version'[v].leased
  <2>1. VersionChange(v)
    BY <1>1, VersionEffects
  <2> QED BY <1>1, <1>3, <2>1
          DEF VersionChange, Keeps, ClaimedBy, PublishedBy, CompletedReleased
<1> QED BY <1>2, <1>3 DEF PublishedIsStored, CompletedReleased

LEMMA OutputNext ==
  ASSUME OutputInv, [Next]_vars
  PROVE  OutputInv'
<1>1. CASE UNCHANGED vars
  <2>1. ShapeInv'
    BY ShapeNext DEF OutputInv
  <2> QED BY <1>1, <2>1 DEF vars, OutputInv, TokensDiffer, CleanupsSpare,
          RemovalsSpare, UploadsStored, CompletedReleased, PublishedIsStored,
          Mine, Fenced, Output
<1>2. CASE Next
  <2>1. ShapeInv'
    BY ShapeNext DEF OutputInv
  <2> QED BY <1>2, <2>1, TokensDifferNext, CleanupsSpareNext, RemovalsSpareNext,
             UploadsStoredNext, PublishedNext
          DEF OutputInv
<1> QED BY <1>1, <1>2

LEMMA OutputStarts ==
  ASSUME Init
  PROVE  OutputInv
<1>1. ShapeInv
  BY ShapeStarts
<1>2. \A v \in Versions : version[v] = NoVersion
  BY DEF Init
<1>3. \A w \in Workers : worker[w] = NoExecution
  BY DEF Init
<1>4. TokensDiffer /\ CleanupsSpare /\ UploadsStored
  BY <1>3 DEF TokensDiffer, CleanupsSpare, UploadsStored, NoExecution
<1>5. RemovalsSpare
  BY DEF Init, RemovalsSpare, NoTask
<1>6. CompletedReleased /\ PublishedIsStored
  BY <1>2 DEF CompletedReleased, PublishedIsStored, NoVersion
<1> QED BY <1>1, <1>4, <1>5, <1>6 DEF OutputInv

\* Tokens, leases, announced and published outputs stay in step, whoever
\* crashes, stalls or cancels.
THEOREM OutputInvariance == Spec => []OutputInv
<1> QED BY OutputStarts, OutputNext, PTL DEF Spec

\* What a version publishes is in the store and stays there: no stale worker
\* publishes an output that reconciliation is about to remove, and neither a
\* failed attempt nor reconciliation removes the published one.
THEOREM PublishedOutputsAreStored == Spec => []PublishedIsStored
<1>1. OutputInv => PublishedIsStored
  BY DEF OutputInv
<1> QED BY <1>1, OutputInvariance, PTL

\* A completed version is final: no stale failure, retry, cancellation or
\* reconciliation takes it back, and its output stays the same.
THEOREM CompletedVersionsAreFinal == Spec => CompletedIsFinal
<1>1. ASSUME OutputInv, [Next]_vars
      PROVE  [\A v \in Versions : version[v].status = "completed" =>
                /\ version'[v].status = "completed"
                /\ version'[v].outputKey = version[v].outputKey]_vars
  <2>1. CASE UNCHANGED vars
    BY <2>1
  <2>2. CASE Next
    <3>1. ASSUME NEW v \in Versions, version[v].status = "completed"
          PROVE  /\ version'[v].status = "completed"
                 /\ version'[v].outputKey = version[v].outputKey
      <4>1. VersionChange(v) /\ ~version[v].leased
        BY <2>2, <1>1, <3>1, VersionEffects DEF OutputInv, CompletedReleased
      <4>2. ASSUME NEW w \in Workers PROVE ~ClaimedBy(v, w) /\ ~PublishedBy(v, w)
        BY <3>1 DEF ClaimedBy, PublishedBy, Pending, Fenced, Mine
      <4> QED BY <3>1, <4>1, <4>2 DEF VersionChange, Keeps
    <3> QED BY <3>1
  <2> QED BY <1>1, <2>1, <2>2
<1> QED BY <1>1, OutputInvariance, PTL DEF Spec, CompletedIsFinal

=============================================================================
