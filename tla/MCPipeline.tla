----------------------------- MODULE MCPipeline ------------------------------
(***************************************************************************)
(* The clips pipeline and the cache that its workers call share no state   *)
(* here, so one instance checks them side by side: a behaviour exercises   *)
(* one of them, the part, and leaves the other at rest.  At rest none of   *)
(* the pipeline's fair actions is enabled, so that its fairness is void.   *)
(***************************************************************************)
EXTENDS ClipPipeline

CONSTANTS Creators, MaxArtifacts

VARIABLES part, lease, artifact, inserted, creator

Cache == INSTANCE PipelineCache

pipeline == vars
cache == <<lease, artifact, inserted, creator>>
allVars == <<part, pipeline, cache>>

\* The mark of what is absent is no document.
ASSUME ArtifactsAssumption ==
  MaxArtifacts \in Nat /\ None \notin [id : Cache!Ids, usable : BOOLEAN]

PartsInit == part \in {"pipeline", "cache"} /\ Init /\ Cache!Init

PipelineStep ==
  part = "pipeline" /\ Next /\ UNCHANGED <<part, cache>>
CacheStep ==
  part = "cache" /\ Cache!Next /\ UNCHANGED <<part, pipeline>>

PartsNext == PipelineStep \/ CacheStep

PartsSpec ==
  PartsInit /\ [][PartsNext]_allVars /\ Fairness

-----------------------------------------------------------------------------
(* Properties of the parts, stated and explained in their modules *)

\* Every document and process of both parts keeps its shape.
PartsTypeOK == TypeOK /\ Cache!TypeOK

\* A usable shared artifact is neither removed nor replaced.
ArtifactsStay == Cache!ArtifactsStay

=============================================================================
