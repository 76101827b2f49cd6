---------------------------- MODULE MCServices ------------------------------
(***************************************************************************)
(* Work asked of a service whose answer may be lost, and that must not     *)
(* count twice: a paid AI proposal of the studio, a proposal of the editor *)
(* applied to its plan, and a render in AWS Batch.  They share no state,   *)
(* so one instance checks them side by side: a behaviour exercises one of  *)
(* them, the part, and leaves the others at rest, where none of their fair *)
(* actions is enabled.                                                     *)
(***************************************************************************)
EXTENDS AiExecution

CONSTANTS
  Deliveries, AwsJobs,
  Proposals, Approvals, Faulty, MaxRevision

VARIABLES
  part,
  execution, overdue, unwanted, remote, delivery, sweep,
  proposal, plan, edits, request

Batch == INSTANCE BatchRender
Editing == INSTANCE EditProposal WITH Requests <- Approvals

studio == vars
batch == <<execution, overdue, unwanted, remote, delivery, sweep>>
editing == <<proposal, plan, edits, request>>
allVars == <<part, studio, batch, editing>>

\* The mark of what is absent is no document and no id, and a plan starts at
\* revision 1.
ASSUME NoneAssumption ==
  None \notin Batch!Execution /\ None \notin Proposals
ASSUME RevisionAssumption == MaxRevision \in Nat \ {0}

PartsInit ==
  /\ part \in {"studio", "batch", "editing"}
  /\ Init /\ Batch!Init /\ Editing!Init

StudioStep == part = "studio" /\ Next /\ UNCHANGED <<part, batch, editing>>
BatchStep ==
  part = "batch" /\ Batch!Next /\ UNCHANGED <<part, studio, editing>>
EditingStep ==
  part = "editing" /\ Editing!Next /\ UNCHANGED <<part, studio, batch>>

PartsNext == StudioStep \/ BatchStep \/ EditingStep

PartsSpec ==
  PartsInit /\ [][PartsNext]_allVars /\ Fairness /\ Batch!Fairness

-----------------------------------------------------------------------------
(* Properties of the parts, stated and explained in their modules *)

\* The documents, requests and processes of all parts keep their shape.
PartsTypeOK == TypeOK /\ Batch!TypeOK /\ Editing!TypeOK

\* A render is submitted to AWS Batch at most once (BatchRender).
OneSubmission == Batch!OneSubmission

\* Remote work whose id is known ends after its deadline or with its owner
\* (BatchRender).
RemoteWorkEnds == Batch!RemoteWorkEnds

\* The outcome a proposal shows is what happened to the plan (EditProposal).
ProposalOutcomeIsTrue == Editing!ProposalOutcomeIsTrue

=============================================================================
