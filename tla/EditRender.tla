----------------------------- MODULE EditRender -----------------------------
(***************************************************************************)
(* Preview renders of the AI editor.                                       *)
(*                                                                         *)
(* A version is the immutable snapshot of one plan revision.  API requests *)
(* render, retry and cancel it; the owner's admission row has a slot for   *)
(* each admitted generation; workers execute queue entries under a token   *)
(* and a lease of the version; reconciliation repairs what requests and    *)
(* workers left behind.  Every database, queue and storage call is a step. *)
(*                                                                         *)
(* The queue (BullMQ) is external: an entry per generation, locked by the  *)
(* worker that took it and handed out again once the lock is lost.         *)
(***************************************************************************)
EXTENDS Integers, FiniteSets

CONSTANTS
  Versions,    \* plan revisions of one owner that are previewed
  Workers,     \* execution slots of the render processes
  Callers,     \* API requests under way at the same time
  Mortal,      \* workers that may crash
  Stallable,   \* workers that may lose lock or lease while they live on
  Requests,    \* what the owner may ask for in this instance
  Limit,       \* slots of the admission row
  Attempts,    \* executions of one entry that may fail
  MaxStalls,   \* times one entry may be handed out again after a stall
  MaxRetries,  \* manual retries of a version
  MaxTokens,   \* execution tokens in use at the same time
  None         \* absence of a version, token or caller's request

ASSUME WorkersAssumption ==
  /\ Mortal \subseteq Workers
  /\ Stallable \subseteq Workers
  /\ Workers \cap {"none", "waiting", "orphaned", "completed", "failed"} = {}
ASSUME NoneAssumption == None \notin Versions /\ None \notin 1..MaxTokens
ASSUME BoundsAssumption ==
  /\ Requests \subseteq {"render", "retry", "cancel"}
  /\ Limit \in Nat \ {0} /\ Attempts \in Nat \ {0}
  /\ MaxStalls \in Nat /\ MaxRetries \in Nat /\ MaxTokens \in Nat

VARIABLES
  version,    \* EditVersion documents
  slots,      \* EditAdmission.active
  queue,      \* the entry of every generation
  stored,     \* attempt outputs in the object store
  caller,     \* where each API request is
  worker,     \* where each worker is
  reconciler  \* what reconciliation has read and is about to apply

vars == <<version, slots, queue, stored, caller, worker, reconciler>>

-----------------------------------------------------------------------------
(* Data *)

Generations == 0..MaxRetries

\* Execution tokens, and the outputs named after them.
Tokens == 1..MaxTokens

Ended == {"completed", "failed", "cancelled"}
Pending == {"queued", "processing"}

Version ==
  [status : {"none"} \cup Pending \cup Ended, generation : Generations,
   retryable : BOOLEAN, executionToken : Tokens \cup {None},
   leased : BOOLEAN, pendingOutputKeys : SUBSET Tokens,
   outputKey : Tokens \cup {None}]

Entry ==
  [state : {"none", "waiting", "orphaned", "completed", "failed"}
             \cup Workers,
   attemptsMade : 0..Attempts, stalls : 0..(MaxStalls + 1)]

TypeOK ==
  /\ version \in [Versions -> Version]
  /\ slots \subseteq Versions \X Generations
  /\ queue \in [Versions -> [Generations -> Entry]]
  /\ stored \subseteq Versions \X Tokens
  /\ caller \in [Callers ->
       [pc : {"idle", "acquire", "write", "release", "add", "remove"},
        request : Requests \cup {None}, v : Versions \cup {None},
        generation : Generations]]
  /\ worker \in [Workers ->
       [pc : {"idle", "claim", "acquire", "render", "upload",
              "publish", "release", "caught", "cleanup", "fail", "unslot",
              "rethrow", "returned"},
        v : Versions \cup {None}, generation : Generations,
        token : Tokens \cup {None},
        final : BOOLEAN, permanent : BOOLEAN, uploaded : BOOLEAN,
        status : {"none", "queued", "failed", "cancelled"}]]
  /\ reconciler \in
       [task : {"none", "slot", "entry", "output"},
        v : Versions \cup {None}, generation : Generations,
        token : Tokens \cup {None}]

NoVersion ==
  [status |-> "none", generation |-> 0, retryable |-> FALSE,
   executionToken |-> None, leased |-> FALSE, pendingOutputKeys |-> {},
   outputKey |-> None]
NoEntry == [state |-> "none", attemptsMade |-> 0, stalls |-> 0]
NoRequest == [pc |-> "idle", request |-> None, v |-> None, generation |-> 0]
NoExecution ==
  [pc |-> "idle", v |-> None, generation |-> 0, token |-> None,
   final |-> FALSE,
   permanent |-> FALSE, uploaded |-> FALSE, status |-> "none"]
NoTask ==
  [task |-> "none", v |-> None, generation |-> 0, token |-> None]

Init ==
  /\ version = [v \in Versions |-> NoVersion]
  /\ slots = {}
  /\ queue = [v \in Versions |-> [g \in Generations |-> NoEntry]]
  /\ stored = {}
  /\ caller = [c \in Callers |-> NoRequest]
  /\ worker = [w \in Workers |-> NoExecution]
  /\ reconciler = NoTask

Unfinished(v) == version[v].status \in Pending

-----------------------------------------------------------------------------
(* Admission *)

\* A key that is in the row already is admitted again.
Admits(v, g) == <<v, g>> \in slots \/ Cardinality(slots) < Limit

-----------------------------------------------------------------------------
(* API requests: render, retry, cancel *)

Ask(c, request, pc, v, g) ==
  caller' = [caller EXCEPT ![c] =
    [pc |-> pc, request |-> request, v |-> v, generation |-> g]]

CallerGoes(c, pc) == caller' = [caller EXCEPT ![c].pc = pc]
CallerEnds(c) == caller' = [caller EXCEPT ![c] = NoRequest]

At(c, pc) == caller[c].pc = pc

\* render reads the version of the revision; one that has ended is returned.
RenderRead(c, v) ==
  /\ "render" \in Requests
  /\ At(c, "idle")
  /\ version[v].status \in {"none"} \cup Pending
  /\ Ask(c, "render", "acquire", v, 0)
  /\ UNCHANGED <<version, slots, queue, stored, worker, reconciler>>

\* retry reads a failed version with retries left.
RetryRead(c, v) ==
  /\ "retry" \in Requests
  /\ At(c, "idle")
  /\ version[v].status = "failed"
  /\ version[v].retryable
  /\ version[v].generation < MaxRetries
  /\ Ask(c, "retry", "acquire", v, version[v].generation + 1)
  /\ UNCHANGED <<version, slots, queue, stored, worker, reconciler>>

\* Both take a slot, or are refused.
Acquire(c) ==
  /\ At(c, "acquire")
  /\ LET v == caller[c].v
         g == caller[c].generation
     IN IF Admits(v, g)
        THEN slots' = slots \cup {<<v, g>>} /\ CallerGoes(c, "write")
        ELSE slots' = slots /\ CallerEnds(c)
  /\ UNCHANGED <<version, queue, stored, worker, reconciler>>

\* render inserts the version unless it exists; a queued one is queued again.
RenderWrite(c) ==
  LET v == caller[c].v
      status == IF version[v].status = "none" THEN "queued"
                ELSE version[v].status
  IN /\ At(c, "write")
     /\ caller[c].request = "render"
     /\ version' = [version EXCEPT ![v].status = status]
     /\ IF status = "queued"
        THEN Ask(c, "render", "add", v, version[v].generation)
        ELSE CallerEnds(c)
     /\ UNCHANGED <<slots, queue, stored, worker, reconciler>>

\* The filter of the retry's write.
Retriable(v, g) ==
  version[v].status = "failed" /\ version[v].generation = g - 1

\* retry queues the next generation of the version it read.
RetryWrite(c) ==
  LET v == caller[c].v
      g == caller[c].generation
  IN /\ At(c, "write")
     /\ caller[c].request = "retry"
     /\ IF Retriable(v, g)
        THEN /\ version' = [version EXCEPT ![v] =
                  [@ EXCEPT !.status = "queued", !.generation = g,
                            !.retryable = FALSE, !.executionToken = None,
                            !.leased = FALSE]]
             /\ CallerGoes(c, "add")
        ELSE version' = version /\ CallerEnds(c)
     /\ UNCHANGED <<slots, queue, stored, worker, reconciler>>

\* cancel ends a pending version; its token stays.
CancelWrite(c, v) ==
  /\ "cancel" \in Requests
  /\ At(c, "idle")
  /\ Unfinished(v)
  /\ version' = [version EXCEPT ![v].status = "cancelled"]
  /\ Ask(c, "cancel", "release", v, version[v].generation)
  /\ UNCHANGED <<slots, queue, stored, worker, reconciler>>

CancelRelease(c) ==
  /\ At(c, "release")
  /\ slots' = slots \ {<<caller[c].v, caller[c].generation>>}
  /\ CallerGoes(c, "remove")
  /\ UNCHANGED <<version, queue, stored, worker, reconciler>>

\* An entry with the id of an existing one is not added.
Added(v, g) ==
  IF queue[v][g].state = "none"
  THEN [queue EXCEPT ![v][g].state = "waiting"] ELSE queue

Enqueue(c) ==
  /\ At(c, "add")
  /\ queue' = Added(caller[c].v, caller[c].generation)
  /\ CallerEnds(c)
  /\ UNCHANGED <<version, slots, stored, worker, reconciler>>

\* An active entry is not removed.
CancelRemove(c) ==
  /\ At(c, "remove")
  /\ LET v == caller[c].v
         g == caller[c].generation
     IN queue' = IF queue[v][g].state \in Workers \cup {"orphaned"}
                 THEN queue ELSE [queue EXCEPT ![v][g] = NoEntry]
  /\ CallerEnds(c)
  /\ UNCHANGED <<version, slots, stored, worker, reconciler>>

\* A request dies, or one of its calls fails.
CallerDies(c) ==
  /\ ~At(c, "idle")
  /\ CallerEnds(c)
  /\ UNCHANGED <<version, slots, queue, stored, worker, reconciler>>

-----------------------------------------------------------------------------
(* Workers *)

Goes(w, pc) == worker' = [worker EXCEPT ![w].pc = pc]

Is(w, pc) == worker[w].pc = pc

Mine(w) == version[worker[w].v]

Generation(w) == worker[w].generation

\* The queue hands an entry out and locks it.
Take(w, v, g) ==
  LET entry == queue[v][g]
  IN /\ Is(w, "idle")
     /\ entry.state = "waiting"
     /\ queue' = [queue EXCEPT ![v][g].state = w]
     /\ worker' = [worker EXCEPT ![w] =
          [NoExecution EXCEPT !.pc = "claim", !.v = v, !.generation = g,
             !.final = entry.attemptsMade + 1 >= Attempts]]
     /\ UNCHANGED <<version, slots, stored, caller, reconciler>>

\* The filter of the claim.
Claimable(w) ==
  /\ Mine(w).generation = Generation(w)
  /\ Mine(w).status \in Pending
  /\ Mine(w).executionToken = None \/ ~Mine(w).leased

\* A random token is one that occurs nowhere.
InUse(v, t) ==
  \/ t \in {version[v].executionToken, version[v].outputKey}
  \/ t \in version[v].pendingOutputKeys
  \/ <<v, t>> \in stored
  \/ \E w \in Workers : worker[w].v = v /\ worker[w].token = t
  \/ reconciler.v = v /\ reconciler.token = t

Fresh(v, t) == ~InUse(v, t) /\ \A s \in 1..(t - 1) : InUse(v, s)

\* process claims the version under a fresh token and lease; the answer may
\* get lost, which costs the attempt.
Claim(w) ==
  /\ Is(w, "claim")
  /\ Claimable(w)
  /\ \E t \in Tokens :
       /\ Fresh(worker[w].v, t)
       /\ version' = [version EXCEPT ![worker[w].v] =
            [@ EXCEPT !.status = "processing", !.retryable = FALSE,
                      !.executionToken = t, !.leased = TRUE]]
       /\ \E pc \in {"acquire", "rethrow"} :
            worker' = [worker EXCEPT ![w].pc = pc, ![w].token = t]
  /\ UNCHANGED <<slots, queue, stored, caller, reconciler>>

\* Nothing to claim: the delivery is old or the version has ended.
Skip(w) ==
  /\ Is(w, "claim")
  /\ ~Claimable(w)
  /\ \/ Mine(w).generation # Generation(w)
     \/ Mine(w).status \notin Pending
  /\ Goes(w, "returned")
  /\ UNCHANGED <<version, slots, queue, stored, caller, reconciler>>

\* Somebody else still holds the lease: the entry is delayed.
Delay(w) ==
  LET v == worker[w].v
      g == Generation(w)
  IN /\ Is(w, "claim")
     /\ ~Claimable(w)
     /\ Mine(w).generation = g
     /\ Mine(w).status \in Pending
     /\ queue' = IF queue[v][g].state = w
                 THEN [queue EXCEPT ![v][g].state = "waiting"] ELSE queue
     /\ worker' = [worker EXCEPT ![w] = NoExecution]
     /\ UNCHANGED <<version, slots, stored, caller, reconciler>>

\* The worker verifies the admission again.  A refusal is permanent, a call
\* that fails is not.
Readmit(w) ==
  LET key == <<worker[w].v, Generation(w)>>
  IN /\ Is(w, "acquire")
     /\ \/ /\ Admits(worker[w].v, Generation(w))
           /\ slots' = slots \cup {key}
           /\ Goes(w, "render")
        \/ /\ slots' = slots
           /\ \E permanent \in {FALSE, ~Admits(worker[w].v, Generation(w))} :
                worker' = [worker EXCEPT ![w].pc = "caught",
                                         ![w].permanent = permanent]
     /\ UNCHANGED <<version, queue, stored, caller, reconciler>>

\* Mutant: the lease is not looked at.
Mutant_Fenced(w) ==
  /\ Mine(w).status = "processing"
  /\ Mine(w).executionToken = worker[w].token

\* The filter of every write of an execution.  The call carries the time at
\* which the worker made it; it reaches the database within that lease.
Fenced(w) ==
  /\ Mine(w).status = "processing"
  /\ Mine(w).executionToken = worker[w].token
  /\ Mine(w).leased

\* The work before the upload fails: renderFailure tells whether for good.
RenderFails(w) ==
  /\ Is(w, "render")
  /\ \E permanent \in BOOLEAN :
       worker' = [worker EXCEPT ![w].pc = "caught",
                                ![w].permanent = permanent]
  /\ UNCHANGED <<version, slots, queue, stored, caller, reconciler>>

\* The upload of what was rendered is announced before it starts.
Intend(w) ==
  /\ Is(w, "render")
  /\ IF Fenced(w)
     THEN /\ version' = [version EXCEPT ![worker[w].v].pendingOutputKeys =
               @ \cup {worker[w].token}]
          /\ worker' = [worker EXCEPT ![w].pc = "upload",
                                      ![w].uploaded = TRUE]
     ELSE version' = version /\ Goes(w, "caught")
  /\ UNCHANGED <<slots, queue, stored, caller, reconciler>>

Upload(w) ==
  /\ Is(w, "upload")
  /\ stored' = stored \cup {<<worker[w].v, worker[w].token>>}
  /\ Goes(w, "publish")
  /\ UNCHANGED <<version, slots, queue, caller, reconciler>>

\* Publication; its answer may get lost.
Publish(w) ==
  /\ Is(w, "publish")
  /\ IF Fenced(w)
     THEN /\ version' = [version EXCEPT ![worker[w].v] =
               [@ EXCEPT !.status = "completed", !.executionToken = None,
                         !.leased = FALSE, !.outputKey = worker[w].token,
                         !.pendingOutputKeys =
                            Mine(w).pendingOutputKeys \ {worker[w].token}]]
          /\ Goes(w, "release") \/ Goes(w, "caught")
     ELSE version' = version /\ Goes(w, "caught")
  /\ UNCHANGED <<slots, queue, stored, caller, reconciler>>

Release(w) ==
  /\ Is(w, "release")
  /\ slots' = slots \ {<<worker[w].v, Generation(w)>>}
  /\ Goes(w, "returned")
  /\ UNCHANGED <<version, queue, stored, caller, reconciler>>

\* Any call may fail, and the poll aborts the execution once it cannot renew
\* its lease.  After publication nothing is taken back.
Throw(w) ==
  /\ \/ /\ worker[w].pc \in {"upload", "publish"}
        /\ Goes(w, "caught")
     \/ /\ Is(w, "release")
        /\ Goes(w, "returned")
  /\ UNCHANGED <<version, slots, queue, stored, caller, reconciler>>

-----------------------------------------------------------------------------
(* A failed execution *)

\* The catch reads the durable version.  Published output is left alone;
\* otherwise the status that this reading calls for is written later.
Caught(w) ==
  /\ Is(w, "caught")
  /\ IF Mine(w).outputKey = worker[w].token
     THEN Goes(w, "returned")
     ELSE worker' = [worker EXCEPT
            ![w].pc = IF worker[w].uploaded THEN "cleanup" ELSE "fail",
            ![w].status =
              IF Mine(w).status = "cancelled" THEN "cancelled"
              ELSE IF worker[w].permanent \/ worker[w].final THEN "failed"
              ELSE "queued"]
  /\ UNCHANGED <<version, slots, queue, stored, caller, reconciler>>

Output(w) == <<worker[w].v, worker[w].token>>

Forgets(v, key) ==
  version' = [version EXCEPT ![v].pendingOutputKeys = @ \ {key}]

\* An attempt deletes its own output; reconciliation does what fails here.
Cleanup(w) ==
  /\ Is(w, "cleanup")
  /\ \/ UNCHANGED <<stored, version>>
     \/ stored' = stored \ {Output(w)} /\ Forgets(worker[w].v, worker[w].token)
  /\ Goes(w, "fail")
  /\ UNCHANGED <<slots, queue, caller, reconciler>>

\* Mutant: the failure of a lost execution is written too.
Mutant_Owns(w) == TRUE

\* The filter of the failure's write: token and lease, but not the status.
Owns(w) == Mine(w).executionToken = worker[w].token /\ Mine(w).leased

WriteFailure(w) ==
  LET status == worker[w].status
  IN /\ Is(w, "fail")
     /\ IF Owns(w)
        THEN /\ version' = [version EXCEPT ![worker[w].v] =
                  [@ EXCEPT !.status = status, !.executionToken = None,
                            !.leased = FALSE,
                            !.retryable = /\ ~worker[w].permanent
                                          /\ status # "cancelled"]]
             /\ Goes(w, IF status = "queued" THEN "rethrow" ELSE "unslot")
        ELSE version' = version /\ Goes(w, "rethrow")
     /\ UNCHANGED <<slots, queue, stored, caller, reconciler>>

ReleaseFailed(w) ==
  /\ Is(w, "unslot")
  /\ slots' = slots \ {<<worker[w].v, Generation(w)>>}
  /\ Goes(w, "rethrow")
  /\ UNCHANGED <<version, queue, stored, caller, reconciler>>

\* The claim fails, or a call of the catch, whose error replaces the first.
ThrowAgain(w) ==
  /\ worker[w].pc \in {"claim", "caught", "fail", "unslot"}
  /\ worker' = [worker EXCEPT ![w].pc = "rethrow", ![w].permanent = FALSE,
                              ![w].status = "none"]
  /\ UNCHANGED <<version, slots, queue, stored, caller, reconciler>>

\* Mutant: the last attempt is followed by another one.
Mutant_AfterDelivery(w, entry) ==
  IF Is(w, "returned") \/ worker[w].status = "cancelled"
  THEN [entry EXCEPT !.state = "completed"]
  ELSE IF worker[w].permanent
  THEN [entry EXCEPT !.state = "failed"]
  ELSE [entry EXCEPT !.state = "waiting", !.attemptsMade = @ + 1]

\* What the queue makes of the end of a delivery.
AfterDelivery(w, entry) ==
  IF Is(w, "returned") \/ worker[w].status = "cancelled"
  THEN [entry EXCEPT !.state = "completed"]
  ELSE IF worker[w].permanent \/ worker[w].final
  THEN [entry EXCEPT !.state = "failed"]
  ELSE [entry EXCEPT !.state = "waiting", !.attemptsMade = @ + 1]

\* It ignores the end of one whose lock is lost.
EndDelivery(w) ==
  LET v == worker[w].v
      g == Generation(w)
  IN /\ worker[w].pc \in {"returned", "rethrow"}
     /\ queue' = IF queue[v][g].state = w
                 THEN [queue EXCEPT ![v][g] = AfterDelivery(w, @)] ELSE queue
     /\ worker' = [worker EXCEPT ![w] = NoExecution]
     /\ UNCHANGED <<version, slots, stored, caller, reconciler>>

-----------------------------------------------------------------------------
(* Failures *)

Orphaned(w) ==
  LET v == worker[w].v
      g == Generation(w)
  IN IF queue[v][g].state = w
     THEN [queue EXCEPT ![v][g].state = "orphaned"] ELSE queue

Crash(w) ==
  /\ w \in Mortal
  /\ ~Is(w, "idle")
  /\ queue' = Orphaned(w)
  /\ worker' = [worker EXCEPT ![w] = NoExecution]
  /\ UNCHANGED <<version, slots, stored, caller, reconciler>>

\* A blocked worker stops renewing its lock, and goes on later.
LoseLock(w) ==
  /\ w \in Stallable
  /\ ~Is(w, "idle")
  /\ queue[worker[w].v][Generation(w)].state = w
  /\ queue' = Orphaned(w)
  /\ UNCHANGED <<version, slots, stored, caller, worker, reconciler>>

\* The queue finds an entry without lock.
Stalled(v, g) ==
  LET entry == queue[v][g]
  IN /\ entry.state = "orphaned"
     /\ queue' = [queue EXCEPT ![v][g] =
          [@ EXCEPT !.stalls = entry.stalls + 1,
                    !.state = IF entry.stalls < MaxStalls
                              THEN "waiting" ELSE "failed"]]
     /\ UNCHANGED <<version, slots, stored, caller, worker, reconciler>>

\* The poll of a worker renews the lease while the version is processing.  One
\* that is dead, blocked or cut off from the database does not.
Renewed(v) ==
  /\ version[v].status = "processing"
  /\ \E w \in Workers \ Stallable :
       /\ ~Is(w, "idle")
       /\ worker[w].v = v
       /\ worker[w].token = version[v].executionToken

ExpireLease(v) ==
  /\ version[v].leased
  /\ ~Renewed(v)
  /\ version' = [version EXCEPT ![v].leased = FALSE]
  /\ UNCHANGED <<slots, queue, stored, caller, worker, reconciler>>

-----------------------------------------------------------------------------
(* Reconciliation, every 30 seconds: it reads one thing and repairs it *)

Reads(task, v, g, token) ==
  /\ reconciler = NoTask
  /\ reconciler' = [task |-> task, v |-> v, generation |-> g,
                    token |-> token]
  /\ UNCHANGED <<version, slots, queue, stored, caller, worker>>

Repairs(task) == reconciler.task = task /\ reconciler' = NoTask

\* Mutant: only the slots of versions that have ended are looked for.
Mutant_NeedsNoSlot(v, g) == version[v].status \in Ended

NeedsNoSlot(v, g) == ~(Unfinished(v) /\ version[v].generation = g)

\* A slot without a pending version of its generation.  Rows written within a
\* minute are left out, and every request for a slot writes the row, a refused
\* one too: Fairness asks for this reading only where nobody asks.
ReadSlot(v, g) ==
  /\ <<v, g>> \in slots
  /\ NeedsNoSlot(v, g)
  /\ Reads("slot", v, g, None)

\* A request or a worker asks for a slot.
Asking ==
  (\E c \in Callers : At(c, "acquire")) \/ (\E w \in Workers : Is(w, "acquire"))

FreeSlot ==
  /\ Repairs("slot")
  /\ slots' = slots \ {<<reconciler.v, reconciler.generation>>}
  /\ UNCHANGED <<version, queue, stored, caller, worker>>

\* A pending version that nobody executes.
ReadPending(v) ==
  /\ Unfinished(v)
  /\ version[v].executionToken = None \/ ~version[v].leased
  /\ Reads("entry", v, version[v].generation, version[v].executionToken)

\* Mutant: a version whose executor died is not marked.
Mutant_Abandoned(v, token) == Unfinished(v) /\ version[v].executionToken = None

\* The filter of the mark.
Abandoned(v, token) == Unfinished(v) /\ version[v].executionToken = token

\* Its entry has ended: the version failed.
MarkFailed ==
  LET v == reconciler.v
  IN /\ Repairs("entry")
     /\ queue[v][reconciler.generation].state \in {"failed", "completed"}
     /\ version' = IF Abandoned(v, reconciler.token)
                   THEN [version EXCEPT ![v] =
                     [@ EXCEPT !.status = "failed", !.retryable = TRUE,
                               !.executionToken = None, !.leased = FALSE]]
                   ELSE version
     /\ UNCHANGED <<slots, queue, stored, caller, worker>>

\* Its entry is missing: it is queued again.  Any other entry is left alone.
QueueAgain ==
  /\ Repairs("entry")
  /\ queue[reconciler.v][reconciler.generation].state
       \notin {"failed", "completed"}
  /\ queue' = Added(reconciler.v, reconciler.generation)
  /\ UNCHANGED <<version, slots, stored, caller, worker>>

\* The announced output of an execution that is over.
AbandonedOutput(v, key) ==
  /\ key \in version[v].pendingOutputKeys
  /\ version[v].executionToken = None \/ ~version[v].leased
  /\ key # version[v].outputKey

ReadOutput(v, key) ==
  /\ AbandonedOutput(v, key)
  /\ Reads("output", v, 0, key)

RemoveOutput ==
  LET v == reconciler.v
  IN /\ Repairs("output")
     /\ stored' = stored \ {<<v, reconciler.token>>}
     /\ Forgets(v, reconciler.token)
     /\ UNCHANGED <<slots, queue, caller, worker>>

-----------------------------------------------------------------------------
CallerStep(c) ==
  \/ \E v \in Versions : RenderRead(c, v) \/ RetryRead(c, v) \/ CancelWrite(c, v)
  \/ Acquire(c) \/ RenderWrite(c) \/ RetryWrite(c) \/ CancelRelease(c)
  \/ Enqueue(c) \/ CancelRemove(c) \/ CallerDies(c)

WorkerStep(w) ==
  \/ Claim(w) \/ Skip(w) \/ Delay(w) \/ Readmit(w)
  \/ RenderFails(w) \/ Intend(w) \/ Upload(w) \/ Publish(w) \/ Release(w)
  \/ Throw(w) \/ Caught(w) \/ Cleanup(w)
  \/ WriteFailure(w) \/ ReleaseFailed(w) \/ ThrowAgain(w)
  \/ EndDelivery(w)

QueueStep ==
  \/ \E w \in Workers, v \in Versions, g \in Generations : Take(w, v, g)
  \/ \E v \in Versions, g \in Generations : Stalled(v, g)

ReconcilerReads ==
  \E v \in Versions :
    \/ \E g \in Generations : ReadSlot(v, g)
    \/ ReadPending(v)
    \/ \E key \in Tokens : ReadOutput(v, key)

ReconcilerRepairs ==
  FreeSlot \/ MarkFailed \/ QueueAgain \/ RemoveOutput

Failure ==
  \/ \E w \in Workers : Crash(w) \/ LoseLock(w)
  \/ \E v \in Versions : ExpireLease(v)

Next ==
  \/ \E c \in Callers : CallerStep(c)
  \/ \E w \in Workers : WorkerStep(w)
  \/ QueueStep \/ ReconcilerReads \/ ReconcilerRepairs \/ Failure

\* Workers go on, the queue hands out and looks for stalled entries, leases
\* run out, and each pass of reconciliation looks at versions, and at the slots
\* of an owner who leaves them alone.  No request need be made; one under way
\* goes on or dies.
Fairness ==
  /\ \A c \in Callers :
       WF_vars(RenderWrite(c) \/ RetryWrite(c) \/ CallerDies(c))
  /\ \A w \in Workers : WF_vars(WorkerStep(w))
  /\ \A v \in Versions, g \in Generations :
       /\ WF_vars(\E w \in Workers : Take(w, v, g))
       /\ WF_vars(Stalled(v, g))
       /\ WF_vars(~Asking /\ ReadSlot(v, g))
  /\ \A v \in Versions : WF_vars(ExpireLease(v)) /\ SF_vars(ReadPending(v))
  /\ WF_vars(ReconcilerRepairs)

Spec == Init /\ [][Next]_vars /\ Fairness

-----------------------------------------------------------------------------
(* Properties *)

\* What a version publishes is in the store and stays there: no stale worker
\* publishes an output that reconciliation is about to remove, and no failed
\* attempt or cleanup removes the published one.
PublishedIsStored ==
  \A v \in Versions :
    version[v].outputKey # None => <<v, version[v].outputKey>> \in stored

\* A completed version is final: no stale failure, retry, cancellation or
\* reconciliation takes it back.
CompletedIsFinal ==
  [][\A v \in Versions : version[v].status = "completed" =>
       /\ version'[v].status = "completed"
       /\ version'[v].outputKey = version[v].outputKey]_vars

\* A requested preview ends, whichever request died before it queued the entry
\* and whichever workers died or stalled.
PreviewsEnd == \A v \in Versions : Unfinished(v) ~> ~Unfinished(v)

\* No slot is lost: one that no pending version needs is given back, unless the
\* owner keeps asking for slots, in vain or not, which keeps the row young.
SlotsReturn ==
  \A v \in Versions, g \in Generations :
    <<v, g>> \in slots ~>
      \/ <<v, g>> \notin slots
      \/ Unfinished(v) /\ version[v].generation = g
      \/ Asking

\* backend/AI_EDITOR.md: "Cancelled/completed versions cannot restart".  The
\* write of a failure, decided by an earlier reading, does not ask for the
\* status: it puts a version back that was cancelled in between.
CancelledIsFinal ==
  [][\A v \in Versions : version[v].status = "cancelled" =>
       version'[v].status = "cancelled"]_vars

=============================================================================
