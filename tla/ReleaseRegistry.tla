--------------------------- MODULE ReleaseRegistry ---------------------------
(***************************************************************************)
(* SQLiteReleaseRegistry (src/evoagent/release/repository.py): the head of *)
(* the one release plan of a family, and the stored stage decisions.  A    *)
(* second plan of the family is refused before anything else happens, so   *)
(* that one plan is enough.  Each method is one transaction; the snapshots *)
(* of the plan and the chain of audit events are left out.                 *)
(*                                                                         *)
(* Stages are numbered from 0, the shadow stage, to LastStage; traffic[i]  *)
(* is the share of the candidate in stage i.  A decision d is a value:     *)
(* stageOf[d] and action[d].  The batch and the assessment that it binds   *)
(* are stored before it and only tell decisions apart.                     *)
(***************************************************************************)
EXTENDS Campaigns

CONSTANTS LastStage, traffic, NoStage, NoHead, NoCampaign,
          Decision, stageOf, action

Stage == 0 .. LastStage

ASSUME ReleaseAssumption ==
  /\ LastStage \in Nat \ {0}
  /\ traffic \in [Stage -> 0 .. 99]
  /\ traffic[0] = 0 /\ \A i, j \in Stage : i < j => traffic[i] < traffic[j]
  /\ NoStage \notin Stage
  /\ NoCampaign \notin CampaignId
  /\ stageOf \in [Decision -> Stage]
  /\ action \in [Decision -> {"advance", "hold", "rollback", "ready"}]

(* decide: readiness is found at the last stage, an advance elsewhere.      *)
ASSUME GateAssumption ==
  \A d \in Decision : /\ action[d] = "ready" => stageOf[d] = LastStage
                      /\ action[d] = "advance" => stageOf[d] # LastStage

VARIABLES head,  \* release_heads: the row of the plan, or NoHead
          decs   \* release_decisions
registryVars == <<head, decs>>

HeadStates == {"planned", "authorized", "shadow", "canary", "hold",
               "rollback_recommended", "ready", "rolled_back"}

ReleaseHead == [state: HeadStates, stage: Stage \cup {NoStage}, alloc: 0 .. 99, rev: Nat,
                rel: CampaignId \cup {NoCampaign}, rb: CampaignId \cup {NoCampaign}]
ASSUME HeadAssumption == NoHead \notin ReleaseHead

(* The validator of ReleaseHead, which every write goes through.            *)
HeadIsValid(h) ==
  /\ h.state \in {"planned", "authorized", "rolled_back"} =>
       h.stage = NoStage /\ h.alloc = 0
  /\ h.state = "shadow" => h.alloc = 0
  /\ h.state \in {"canary", "hold", "rollback_recommended", "ready"} => h.stage # NoStage

RegistryTypeOK ==
  /\ head \in ReleaseHead \cup {NoHead} /\ (head # NoHead => HeadIsValid(head))
  /\ decs \subseteq Decision

RegistryInit == head = NoHead /\ decs = {}

RegisterPlan ==
  /\ head' = IF head # NoHead THEN head
             ELSE [state |-> "planned", stage |-> NoStage, alloc |-> 0, rev |-> 0,
                   rel |-> NoCampaign, rb |-> NoCampaign]
  /\ UNCHANGED decs

StoreDecision(d) ==
  /\ head # NoHead
  /\ decs' = decs \cup {d}
  /\ UNCHANGED head

(* _transition_head.  new is what the caller makes of the head it read.     *)
MoveHead(new, rev) ==
  /\ head.rev = rev
  /\ HeadIsValid(new)
  /\ head' = [new EXCEPT !.rev = head.rev + 1]
  /\ UNCHANGED decs

-----------------------------------------------------------------------------
(* The transitions.  Those that take a decision refuse one of a stage that  *)
(* is not the active one.                                                   *)

Running == {"shadow", "canary", "hold"}

BindRelease(c, rev) ==
  /\ head.state = "planned"
  /\ MoveHead([head EXCEPT !.rel = c], rev)

MarkAuthorized(c, rev) ==
  /\ head.state = "planned"
  /\ head.rel = c
  /\ MoveHead([head EXCEPT !.state = "authorized"], rev)

StartShadow(rev) ==
  /\ head.state = "authorized"
  /\ MoveHead([head EXCEPT !.state = "shadow", !.stage = 0, !.alloc = 0], rev)

AdvanceTo(i) == [head EXCEPT !.state = "canary", !.stage = i, !.alloc = traffic[i]]

Advance_StaleDecision(d, rev) ==
  /\ action[d] = "advance"
  /\ head.state \in Running
  /\ MoveHead(AdvanceTo(stageOf[d] + 1), rev)
Advance(d, rev) ==
  /\ action[d] = "advance"
  /\ head.state \in Running
  /\ head.stage = stageOf[d]
  /\ MoveHead(AdvanceTo(stageOf[d] + 1), rev)

RecordHold(d, rev) ==
  /\ action[d] = "hold"
  /\ head.state \in Running \ {"hold"}
  /\ head.stage = stageOf[d]
  /\ MoveHead([head EXCEPT !.state = "hold"], rev)

RecommendRollback(d, rev) ==
  /\ action[d] = "rollback"
  /\ head.state \in Running
  /\ head.stage = stageOf[d]
  /\ MoveHead([head EXCEPT !.state = "rollback_recommended"], rev)

BindRollback_WhenPlanned(c, rev) ==
  /\ head.state = "planned"
  /\ MoveHead([head EXCEPT !.rb = c], rev)
BindRollback(c, rev) ==
  /\ head.state = "rollback_recommended"
  /\ MoveHead([head EXCEPT !.rb = c], rev)

MarkReady(d, rev) ==
  /\ action[d] = "ready"
  /\ head.state = "canary"
  /\ head.stage = stageOf[d] /\ head.stage = LastStage
  /\ MoveHead([head EXCEPT !.state = "ready"], rev)

Rollback(d, c, rev) ==
  /\ action[d] = "rollback"
  /\ head.state = "rollback_recommended"
  /\ head.rb = c
  /\ MoveHead([head EXCEPT !.state = "rolled_back", !.stage = NoStage, !.alloc = 0], rev)
=============================================================================
