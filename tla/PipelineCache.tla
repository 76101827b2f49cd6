--------------------------- MODULE PipelineCache ----------------------------
(***************************************************************************)
(* PipelineCacheService.getOrCreate for one key: jobs with one source      *)
(* share a transcript or highlights.  A Redis lease of 90 seconds keeps    *)
(* others out while its owner renews it; a blocked owner loses it and goes *)
(* on, so two owners may work on the stored document at once.              *)
(***************************************************************************)
EXTENDS Naturals

CONSTANTS
  None,
  Creators,       \* jobs that ask for the artifact
  MaxArtifacts    \* bound on the documents ever inserted

VARIABLES
  lease,          \* owner of the Redis key, or None
  artifact,       \* the document of the key: [id, usable], or None
  inserted,       \* number of documents inserted so far: the next id
  creator         \* where a job is, the id it read, and whether it was told
                  \* that its lease is lost

vars == <<lease, artifact, inserted, creator>>

Ids == 1..MaxArtifacts
Absent == 0

TypeOK ==
  /\ lease \in Creators \cup {None}
  /\ artifact \in [id : Ids, usable : BOOLEAN] \cup {None}
  /\ inserted \in 0..MaxArtifacts
  /\ creator \in [Creators ->
       [pc : {"idle", "find", "create", "assert", "delete", "insert", "leave",
              "release"},
        read : Ids \cup {Absent}, lost : BOOLEAN]]

Idle == [pc |-> "idle", read |-> Absent, lost |-> FALSE]

Init ==
  /\ lease = None /\ artifact = None /\ inserted = 0
  /\ creator = [c \in Creators |-> Idle]

Go(c, place) == creator' = [creator EXCEPT ![c].pc = place]

\* withLock: SET NX PX.
Acquire(c) ==
  /\ creator[c].pc = "idle" /\ lease = None
  /\ lease' = c
  /\ Go(c, "find")
  /\ UNCHANGED <<artifact, inserted>>

\* A document that is of the right kind, current, whole and cacheable is a hit.
Find(c) ==
  /\ creator[c].pc = "find"
  /\ IF artifact # None /\ artifact.usable
     THEN Go(c, "leave")
     ELSE creator' = [creator EXCEPT ![c].pc = "create",
            ![c].read = IF artifact = None THEN Absent ELSE artifact.id]
  /\ UNCHANGED <<lease, artifact, inserted>>

\* The expensive work, whose result may be unfit to keep, or which may fail.
Create(c) ==
  /\ creator[c].pc = "create"
  /\ \E place \in {"assert", "leave", "release"} : Go(c, place)
  /\ UNCHANGED <<lease, artifact, inserted>>

\* assertLease renews by the token, once it has failed it fails for ever.
Owns(c) == lease = c /\ ~creator[c].lost

Assert(c) ==
  /\ creator[c].pc = "assert"
  /\ Go(c, IF Owns(c) THEN "delete" ELSE "release")
  /\ UNCHANGED <<lease, artifact, inserted>>

\* Mutant: whatever is stored under the key makes way for the new artifact.
Mutant_Replaceable(c) == TRUE

\* Exactly the document that was read and found wanting, or an expired one.
Replaceable(c) ==
  IF creator[c].read # Absent THEN artifact.id = creator[c].read
  ELSE ~artifact.usable

Delete(c) ==
  /\ creator[c].pc = "delete"
  /\ artifact' = IF artifact # None /\ Replaceable(c) THEN None ELSE artifact
  /\ Go(c, "insert")
  /\ UNCHANGED <<lease, inserted>>

\* An upsert that only inserts: another's document stays.
Insert(c) ==
  /\ creator[c].pc = "insert"
  /\ IF artifact = None
     THEN /\ inserted < MaxArtifacts
          /\ inserted' = inserted + 1
          /\ artifact' = [id |-> inserted + 1, usable |-> TRUE]
     ELSE UNCHANGED <<artifact, inserted>>
  /\ Go(c, "leave")
  /\ UNCHANGED lease

\* The last assertLease decides whether the work counts, not what was stored.
Leave(c) ==
  /\ creator[c].pc = "leave"
  /\ creator' = [creator EXCEPT ![c].pc = "release", ![c].lost = ~Owns(c)]
  /\ UNCHANGED <<lease, artifact, inserted>>

\* Compare the token and delete.
Release(c) ==
  /\ creator[c].pc = "release"
  /\ lease' = IF lease = c THEN None ELSE lease
  /\ creator' = [creator EXCEPT ![c] = Idle]
  /\ UNCHANGED <<artifact, inserted>>

\* The timer finds that the lease is another's or nobody's.
Notice(c) ==
  /\ creator[c].pc # "idle" /\ lease # c /\ ~creator[c].lost
  /\ creator' = [creator EXCEPT ![c].lost = TRUE]
  /\ UNCHANGED <<lease, artifact, inserted>>

\* The owner was blocked for 90 seconds, or has died.
LoseLease ==
  /\ lease # None
  /\ lease' = None
  /\ UNCHANGED <<artifact, inserted, creator>>

Crash(c) ==
  /\ creator[c].pc # "idle"
  /\ creator' = [creator EXCEPT ![c] = Idle]
  /\ UNCHANGED <<lease, artifact, inserted>>

\* The document passes its expiresAt.
Expire ==
  /\ artifact # None /\ artifact.usable
  /\ artifact' = [artifact EXCEPT !.usable = FALSE]
  /\ UNCHANGED <<lease, inserted, creator>>

\* The index on expiresAt: MongoDB removes an expired document some time later.
Remove ==
  /\ artifact # None /\ ~artifact.usable
  /\ artifact' = None
  /\ UNCHANGED <<lease, inserted, creator>>

Next ==
  \/ \E c \in Creators :
       \/ Acquire(c) \/ Find(c) \/ Create(c) \/ Assert(c) \/ Delete(c)
       \/ Insert(c) \/ Leave(c) \/ Release(c) \/ Notice(c) \/ Crash(c)
  \/ LoseLease \/ Expire \/ Remove

Spec == Init /\ [][Next]_vars

-----------------------------------------------------------------------------
(* Properties *)

\* "Successful artifacts stay immutable": while it is usable, a stored
\* artifact is neither removed nor replaced, although any number of owners
\* that lost their lease may still be storing theirs.
ArtifactsStay ==
  [][artifact # None /\ artifact.usable
       => artifact' # None /\ artifact'.id = artifact.id]_vars

=============================================================================
