---------------------------- MODULE EditProposal ----------------------------
(***************************************************************************)
(* Suggestions of the editing agent (proposals.service.ts) to one edit     *)
(* plan: generated in a request, cancelled, interrupted, rejected, and     *)
(* applied in three writes to two documents: the claim on the proposal,    *)
(* the new revision of the plan with lastAppliedProposalId, and the        *)
(* outcome on the proposal.  Any request may die between two writes.       *)
(***************************************************************************)
EXTENDS Naturals

CONSTANTS
  None,
  Proposals,
  Requests,       \* concurrent apply and reject requests
  Faulty,         \* requests whose database calls may fail
  MaxRevision     \* bound on the revisions of the plan

VARIABLES
  proposal,       \* EditProposal documents: [status, baseRevision, noChanges]
  plan,           \* EditPlan: [revision, lastAppliedProposalId]
  edits,          \* history: how often each proposal's edit entered the plan
  request         \* where a request is, for which proposal, as it read it

vars == <<proposal, plan, edits, request>>

\* "clarification" also stands for "unsupported": neither can be applied.
Statuses == {"none", "generating", "clarification", "pending", "applying",
             "applied", "rejected", "failed", "cancelled"}
Places == {"idle", "plan", "mark", "reset", "no changes", "claim", "update",
           "durable", "finish", "check", "reject"}

TypeOK ==
  /\ proposal \in [Proposals -> [status : Statuses,
                                 baseRevision : 0..MaxRevision,
                                 noChanges : BOOLEAN]]
  /\ plan \in [revision : 1..MaxRevision,
               lastAppliedProposalId : Proposals \cup {None}]
  /\ edits \in [Proposals -> Nat]
  /\ request \in [Requests -> [pc : Places, id : Proposals \cup {None},
                               status : Statuses]]

Idle == [pc |-> "idle", id |-> None, status |-> "none"]

Init ==
  /\ proposal = [p \in Proposals |->
       [status |-> "none", baseRevision |-> 0, noChanges |-> FALSE]]
  /\ plan = [revision |-> 1, lastAppliedProposalId |-> None]
  /\ edits = [p \in Proposals |-> 0]
  /\ request = [r \in Requests |-> Idle]

Status(p) == proposal[p].status

SetStatus(p, status) == proposal' = [proposal EXCEPT ![p].status = status]

\* An update with a filter on the status: it matches, or changes nothing.
SetStatusIf(p, statuses, status) ==
  proposal' = IF Status(p) \in statuses
              THEN [proposal EXCEPT ![p].status = status] ELSE proposal

Go(r, place) == request' = [request EXCEPT ![r].pc = place]
End(r) == request' = [request EXCEPT ![r] = Idle]

-----------------------------------------------------------------------------
(* propose, cancel, and the interruption that get and state write *)

\* The base is the revision that the request read before it creates the
\* document.
Propose(p) ==
  /\ Status(p) = "none"
  /\ \E base \in 1..plan.revision :
       proposal' = [proposal EXCEPT ![p].status = "generating",
                                    ![p].baseRevision = base]
  /\ UNCHANGED <<plan, edits, request>>

\* Every end of a generation asks for a proposal that is still generating:
\* a result, a failure, the owner's cancellation, or five minutes of silence.
EndGeneration(p) ==
  /\ Status(p) = "generating"
  /\ \E status \in {"pending", "clarification", "failed", "cancelled"} :
       SetStatus(p, status)
  /\ UNCHANGED <<plan, edits, request>>

\* The owner saves another revision; lastAppliedProposalId stays.
SavePlan ==
  /\ plan.revision < MaxRevision
  /\ plan' = [plan EXCEPT !.revision = @ + 1]
  /\ UNCHANGED <<proposal, edits, request>>

-----------------------------------------------------------------------------
(* apply *)

ApplyRead(r, p) ==
  /\ request[r].pc = "idle"
  /\ Status(p) \in {"pending", "applying", "applied"}
  /\ request' = [request EXCEPT ![r] =
       [pc |-> "plan", id |-> p, status |-> Status(p)]]
  /\ UNCHANGED <<proposal, plan, edits>>

\* The plan may have the edit already, have moved on, not be changed by the
\* edit at all, or be at the revision that the proposal was made for.
ApplyReadPlan(r) ==
  /\ request[r].pc = "plan"
  /\ LET p == request[r].id
         read == request[r].status
     IN IF read = "applied" \/ plan.lastAppliedProposalId = p
        THEN Go(r, "mark")
        ELSE IF plan.revision # proposal[p].baseRevision
        THEN IF read = "applying" THEN Go(r, "reset") ELSE End(r)
        ELSE \/ Go(r, "no changes")
             \/ Go(r, IF read = "pending" THEN "claim" ELSE "update")
  /\ UNCHANGED <<proposal, plan, edits>>

Mark(r) ==
  /\ request[r].pc = "mark"
  /\ SetStatus(request[r].id, "applied")
  /\ End(r)
  /\ UNCHANGED <<plan, edits>>

NoChanges(r) ==
  /\ request[r].pc = "no changes"
  /\ LET p == request[r].id
     IN proposal' = IF Status(p) \in {"pending", "applying"}
                    THEN [proposal EXCEPT ![p].status = "applied",
                                          ![p].noChanges = TRUE]
                    ELSE proposal
  /\ End(r)
  /\ UNCHANGED <<plan, edits>>

Claim(r) ==
  /\ request[r].pc = "claim"
  /\ LET p == request[r].id
     IN /\ SetStatusIf(p, {"pending"}, "applying")
        /\ IF Status(p) = "pending" THEN Go(r, "update") ELSE End(r)
  /\ UNCHANGED <<plan, edits>>

\* EditPlansService.update: one write that asks for the base revision and
\* names the proposal.  Its answer may be lost.
Update(r) ==
  /\ request[r].pc = "update"
  /\ LET p == request[r].id
     IN \/ /\ plan.revision = proposal[p].baseRevision
           /\ plan.revision < MaxRevision
           /\ plan' = [revision |-> plan.revision + 1,
                       lastAppliedProposalId |-> p]
           /\ edits' = [edits EXCEPT ![p] = @ + 1]
           /\ \E place \in {"finish", "durable"} : Go(r, place)
        \/ /\ plan.revision # proposal[p].baseRevision \/ r \in Faulty
           /\ Go(r, "durable")
           /\ UNCHANGED <<plan, edits>>
  /\ UNCHANGED proposal

\* Mutant: a failed update counts as not applied.
Mutant_Durable(p) == FALSE

\* What the plan says of a failed update.
Durable(p) == plan.lastAppliedProposalId = p

CheckDurable(r) ==
  /\ request[r].pc = "durable"
  /\ Go(r, IF Durable(request[r].id) THEN "finish" ELSE "reset")
  /\ UNCHANGED <<proposal, plan, edits>>

Reset(r) ==
  /\ request[r].pc = "reset"
  /\ SetStatusIf(request[r].id, {"applying"}, "pending")
  /\ End(r)
  /\ UNCHANGED <<plan, edits>>

Finish(r) ==
  /\ request[r].pc = "finish"
  /\ SetStatusIf(request[r].id, {"pending", "applying"}, "applied")
  /\ End(r)
  /\ UNCHANGED <<plan, edits>>

-----------------------------------------------------------------------------
(* reject *)

RejectRead(r, p) ==
  /\ request[r].pc = "idle"
  /\ Status(p) = "pending"
  /\ request' = [request EXCEPT ![r] =
       [pc |-> "check", id |-> p, status |-> "pending"]]
  /\ UNCHANGED <<proposal, plan, edits>>

RejectCheck(r) ==
  /\ request[r].pc = "check"
  /\ IF plan.lastAppliedProposalId = request[r].id THEN End(r)
     ELSE Go(r, "reject")
  /\ UNCHANGED <<proposal, plan, edits>>

Reject(r) ==
  /\ request[r].pc = "reject"
  /\ SetStatusIf(request[r].id, {"pending"}, "rejected")
  /\ End(r)
  /\ UNCHANGED <<plan, edits>>

\* A request dies, or a call of its own fails and ends it.
Crash(r) ==
  /\ request[r].pc # "idle"
  /\ End(r)
  /\ UNCHANGED <<proposal, plan, edits>>

-----------------------------------------------------------------------------
Next ==
  \/ \E p \in Proposals : Propose(p) \/ EndGeneration(p)
  \/ SavePlan
  \/ \E r \in Requests, p \in Proposals : ApplyRead(r, p) \/ RejectRead(r, p)
  \/ \E r \in Requests :
       \/ ApplyReadPlan(r) \/ Mark(r) \/ NoChanges(r) \/ Claim(r) \/ Update(r)
       \/ CheckDurable(r) \/ Reset(r) \/ Finish(r)
       \/ RejectCheck(r) \/ Reject(r) \/ Crash(r)

Spec == Init /\ [][Next]_vars

-----------------------------------------------------------------------------
(* Properties *)

\* The outcome a proposal shows is what happened to the plan: an applied one
\* is in it exactly once, or was found to change nothing; a rejected one is
\* not the last that the plan took; no edit enters the plan twice, however
\* often and from wherever it is applied again.
ProposalOutcomeIsTrue ==
  \A p \in Proposals :
    /\ edits[p] <= 1
    /\ Status(p) = "applied" => edits[p] = 1 \/ proposal[p].noChanges
    /\ Status(p) \in {"rejected", "failed", "cancelled"} =>
         plan.lastAppliedProposalId # p

=============================================================================
