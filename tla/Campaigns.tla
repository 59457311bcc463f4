------------------------------ MODULE Campaigns ------------------------------
(***************************************************************************)
(* The campaign database: SQLiteCampaignRepository of                      *)
(* src/evoagent/campaigns/repository.py.  Every public method runs in one  *)
(* BEGIN IMMEDIATE transaction, so each is one atomic action here, given   *)
(* as an operator that the modules of its clients compose with their own   *)
(* variables.  A method that raises rolls back and changes nothing: its    *)
(* error paths are the states in which the operator is not enabled.        *)
(*                                                                         *)
(* camp[c]       the row of campaign c, or NoRow                           *)
(* approvals[c]  the campaign_approvals rows of c, by actor                *)
(* audit[c]      what the audit log tells of c: how many of its events     *)
(*               record a change, and the state the last of them gives     *)
(*                                                                         *)
(* A payload is abstracted to what the clients compare: a fingerprint, a   *)
(* candidate.  Time is a natural number, and 0 stands for a NULL           *)
(* cooldown_until (a deadline lies strictly after the time it is set).     *)
(*                                                                         *)
(* An operator named Op_Fault is Op with a plausible programming error; no *)
(* action uses it.  Checking a property with Op_Fault in the place of Op   *)
(* shows that the property would catch that error.                         *)
(***************************************************************************)
EXTENDS Integers, FiniteSets

CONSTANTS CampaignId, Target, Fingerprint, Actor, Candidate, NoCandidate

ASSUME CampaignsAssumption ==
  /\ IsFiniteSet(Actor)
  /\ NoCandidate \notin Candidate

VARIABLES camp, approvals, audit
campaignVars == <<camp, approvals, audit>>

OpenStates == {"open", "evidence_accumulating", "candidate_ready",
               "evaluation_pending", "approval_pending", "authorized"}
ClosedStates == {"rejected", "cancelled", "completed"}
States == OpenStates \cup ClosedStates

InitialStates == {"open", "evidence_accumulating"}

LegalTransitions ==
  ({"open"} \X {"evidence_accumulating", "candidate_ready", "cancelled"})
    \cup ({"evidence_accumulating"} \X {"candidate_ready", "cancelled"})
    \cup ({"candidate_ready"} \X {"evaluation_pending", "rejected", "cancelled"})
    \cup ({"evaluation_pending"} \X {"approval_pending", "rejected", "cancelled"})
    \cup ({"approval_pending"} \X {"authorized", "rejected", "cancelled"})
    \cup ({"authorized"} \X {"completed", "cancelled"})

RowBy(people) ==
       [state: States, target: Target, fp: Fingerprint, gen: people,
        need: Nat \ {0}, cand: Candidate \cup {NoCandidate},
        upd: Nat, cool: Nat, rev: Nat]
NoRow == [state |-> "absent"]

Decisions == {"approve", "reject"}

CampaignsTypeOK ==
  /\ camp \in [CampaignId -> RowBy(Actor) \cup {NoRow}]
  /\ approvals \in [CampaignId -> [Actor -> Decisions \cup {"none"}]]
  /\ audit \in [CampaignId -> [writes: Nat, state: States \cup {"absent"}]]

CampaignsInit ==
  /\ camp = [c \in CampaignId |-> NoRow]
  /\ approvals = [c \in CampaignId |-> [a \in Actor |-> "none"]]
  /\ audit = [c \in CampaignId |-> [writes |-> 0, state |-> "absent"]]

-----------------------------------------------------------------------------
(* Queries *)

Exists(c) == camp[c].state # "absent"

OpenOn_MissingOpen(g) ==
  {c \in CampaignId : camp[c].state \in OpenStates \ {"open"} /\ camp[c].target = g}
OpenOn(g) ==
  {c \in CampaignId : camp[c].state \in OpenStates /\ camp[c].target = g}

Cooled(g) ==
  {c \in CampaignId : Exists(c) /\ camp[c].target = g /\ camp[c].cool # 0}

CooldownOver_OldestRow(g, t) ==
  Cooled(g) # {} =>
    \E c \in Cooled(g) : /\ \A d \in Cooled(g) : camp[c].upd <= camp[d].upd
                         /\ camp[c].cool <= t

(* The SELECT of reserve_campaign looks at one row only, the one of the     *)
(* target with a deadline that was updated last (any of them on a tie).     *)
CooldownOver(g, t) ==
  Cooled(g) # {} =>
    \E c \in Cooled(g) : /\ \A d \in Cooled(g) : camp[d].upd <= camp[c].upd
                         /\ camp[c].cool <= t

Approvers(c) == {a \in Actor : approvals[c][a] = "approve"}

ThresholdMet_OneEarly(c, a) == Cardinality(Approvers(c) \cup {a}) >= camp[c].need - 1
ThresholdMet_OneLate(c, a) == Cardinality(Approvers(c) \cup {a}) > camp[c].need
ThresholdMet(c, a) == Cardinality(Approvers(c) \cup {a}) >= camp[c].need

MayAttach(c) == <<camp[c].state, "candidate_ready">> \in LegalTransitions

-----------------------------------------------------------------------------
(* Transactions.  t is the caller's clock, read before the transaction      *)
(* starts, and rev the revision the caller expects.                         *)

AppendEvent(c, state) ==
  audit' = [audit EXCEPT ![c].writes = @ + 1, ![c].state = state]

(* reserve_campaign finds an open campaign on the target with the same      *)
(* fingerprint: what the caller says of risk and generator is ignored.  Its *)
(* event records no change.                                                 *)
ReuseCampaign(c, g, f) ==
  /\ c \in OpenOn(g)
  /\ camp[c].fp = f
  /\ UNCHANGED campaignVars

InsertCampaign(c, g, f, gen, need, initial, t) ==
  /\ initial \in InitialStates
  /\ ~Exists(c)
  /\ OpenOn(g) = {}
  /\ CooldownOver(g, t)
  /\ camp' = [camp EXCEPT ![c] =
       [state |-> initial, target |-> g, fp |-> f, gen |-> gen, need |-> need,
        cand |-> NoCandidate, upd |-> t, cool |-> 0, rev |-> 0]]
  /\ AppendEvent(c, initial)
  /\ UNCHANGED approvals

AttachCandidate(c, cand, rev, t) ==
  /\ Exists(c)
  /\ camp[c].rev = rev
  /\ MayAttach(c)
  /\ camp' = [camp EXCEPT ![c].cand = cand, ![c].state = "candidate_ready",
                          ![c].upd = t, ![c].rev = @ + 1]
  /\ AppendEvent(c, "candidate_ready")
  /\ UNCHANGED approvals

WriteState_SameRevision(c, to, cool, t) ==
  camp' = [camp EXCEPT ![c].state = to, ![c].upd = t,
                       ![c].cool = IF cool = 0 THEN 0 ELSE t + cool]

(* What transition and record_approval write: the deadline is overwritten   *)
(* with NULL unless this very step sets one.                                *)
WriteState(c, to, cool, t) ==
  camp' = [camp EXCEPT ![c].state = to, ![c].upd = t, ![c].rev = @ + 1,
                       ![c].cool = IF cool = 0 THEN 0 ELSE t + cool]

Transition(c, to, rev, cooldown, t) ==
  /\ Exists(c)
  /\ camp[c].rev = rev
  /\ <<camp[c].state, to>> \in LegalTransitions
  /\ WriteState(c, to, IF to \in {"rejected", "cancelled"} THEN cooldown ELSE 0, t)
  /\ AppendEvent(c, to)
  /\ UNCHANGED approvals

RecordApproval(c, a, decision, rev, cooldown, t) ==
  /\ Exists(c)
  /\ camp[c].rev = rev
  /\ camp[c].state = "approval_pending"
  /\ a # camp[c].gen
  /\ approvals[c][a] = "none"
  /\ approvals' = [approvals EXCEPT ![c][a] = decision]
  /\ LET next == IF decision = "reject" THEN "rejected"
                 ELSE IF ThresholdMet(c, a) THEN "authorized" ELSE "approval_pending"
     IN /\ WriteState(c, next, IF decision = "reject" THEN cooldown ELSE 0, t)
        /\ AppendEvent(c, next)
=============================================================================
