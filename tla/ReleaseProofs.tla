----------------------------- MODULE ReleaseProofs -----------------------------
(***************************************************************************)
(* Proofs about the release lifecycle: two databases, calls that stop or   *)
(* are overtaken between their steps, and operators that act on what they  *)
(* saw earlier.  At the end, the rule of the stage gate.                   *)
(***************************************************************************)
EXTENDS ReleaseLifecycle, CampaignLemmas, Sequences

AllAssumptions ==
  /\ CampaignsAssumption /\ ReleaseAssumption /\ GateAssumption
  /\ HeadAssumption /\ LifecycleAssumption

(* What a call relies on from the step in which it checked it.              *)
Moves == {"mark", "shadow", "rollback", "complete"}
JobInvAt(w) ==
  /\ job[w].pc \in Moves => WasApproved(job[w].c, job[w].x)
  /\ job[w].pc \in Moves /\ job[w].x # Plan => job[w].x \in decs
  /\ job[w].pc = "complete" =>
       /\ head # NoHead
       /\ job[w].x = Plan => head.state \notin {"planned", "authorized"}
       /\ job[w].x # Plan => head.state = "rolled_back"
  /\ job[w].pc \in OperatorPcs => job[w].d \in decs /\ action[job[w].d] = job[w].pc
JobInv == \A w \in Worker : JobInvAt(w)

(* The head never comes back to where it was, and decisions are kept.       *)
HeadGoesOn ==
  /\ decs \subseteq decs'
  /\ head # NoHead =>
       /\ head' # NoHead
       /\ head.state \notin {"planned", "authorized"} =>
            head'.state \notin {"planned", "authorized"}
       /\ head.state = "rolled_back" => head'.state = "rolled_back"

CompletedInv ==
  \A c \in CampaignId : camp[c].state = "completed" =>
    /\ head # NoHead
    /\ IF camp[c].cand = Plan THEN head.state \notin {"planned", "authorized"}
       ELSE head.state = "rolled_back"

ReleaseInv ==
  ApprovalInv /\ JobInv /\ MovesWereApproved /\ StagesWereEarned /\ CompletedInv

-----------------------------------------------------------------------------
LEMMA JobFacts ==
  ASSUME TypeOK, NEW w \in Worker
  PROVE  /\ job[w].pc \in SubmitPcs \cup Moves => job[w].x \in Subject /\ job[w].rev \in Nat
         /\ job[w].pc \in (SubmitPcs \ {"reserve"}) \cup Moves => job[w].c \in CampaignId
         /\ job[w].pc \in {"mark", "shadow"} => job[w].x = Plan
         /\ job[w].pc = "rollback" => job[w].x \in Decision
         /\ job[w].pc \in OperatorPcs => job[w].d \in Decision /\ job[w].rev \in Nat
<1>1. job[w] \in Jobs \cup {Idle, Down}
  BY DEF TypeOK
<1> USE DEF SubmitPcs, OperatorPcs, Moves
<1>2. CASE job[w] \in [pc: {"reserve"}, x: Subject, c: {NoCampaign}, rev: Nat]
  BY <1>2
<1>3. CASE job[w] \in [pc: (SubmitPcs \ {"reserve"}) \cup {"complete"},
                       x: Subject, c: CampaignId, rev: Nat]
  BY <1>3
<1>4. CASE job[w] \in [pc: {"mark", "shadow"}, x: {Plan}, c: CampaignId, rev: Nat]
  BY <1>4 DEF Subject
<1>5. CASE job[w] \in [pc: {"rollback"}, x: Decision, c: CampaignId, rev: Nat]
  BY <1>5 DEF Subject
<1>6. CASE job[w] \in [pc: OperatorPcs, d: Decision, rev: Nat]
  BY <1>6
<1>7. CASE job[w] \in {Idle, Down}
  BY <1>7 DEF Idle, Down
<1> QED BY <1>1, <1>2, <1>3, <1>4, <1>5, <1>6, <1>7 DEF Jobs

-----------------------------------------------------------------------------
(* The actions as transactions of the campaign database *)

(* Only the last step of a call completes a campaign.                       *)
Plain(c) == Transaction(c, 0) /\ camp'[c].state # "completed"
LEMMA StepOnCampaigns ==
  ASSUME TypeOK, AllAssumptions, [Next]_vars
  PROVE  \/ UNCHANGED campaignVars
         \/ \E c \in CampaignId : Plain(c)
         \/ \E w \in Worker : Complete(w) /\ job[w].c \in CampaignId /\ Transaction(job[w].c, 0)
<1> USE DEF campaignVars, Plain
<1>1. ASSUME NEW w \in Worker, SubmitReserve(w)
      PROVE  UNCHANGED campaignVars \/ \E c \in CampaignId : Plain(c)
  <2>1. PICK c \in CampaignId :
          \/ UNCHANGED campaignVars
          \/ InsertCampaign(c, TargetOf(job[w].x), job[w].x, maker[job[w].x], 2, "open", 0)
    BY <1>1 DEF SubmitReserve, ReuseCampaign
  <2>2. job[w].x \in Subject
    BY <1>1, JobFacts DEF SubmitReserve, SubmitPcs
  <2>3. /\ TargetOf(job[w].x) \in Target /\ job[w].x \in Fingerprint
        /\ maker[job[w].x] \in Actor /\ "open" \in InitialStates
    BY <2>2 DEF TargetOf, AllAssumptions, LifecycleAssumption, ReleaseAssumption, Subject,
                InitialStates
  <2>4. ASSUME NEW e \in CampaignId,
               InsertCampaign(e, TargetOf(job[w].x), job[w].x, maker[job[w].x], 2, "open", 0)
        PROVE  Plain(e)
    <3>1. camp'[e].state = "open"
      BY <2>4, StatesWritten DEF TypeOK
    <3> QED BY <2>3, <2>4, <3>1 DEF Transaction
  <2> QED BY <2>1, <2>4
<1>2. ASSUME NEW w \in Worker, SubmitAttach(w)
      PROVE  \E c \in CampaignId : Plain(c)
  <2>1. job[w].c \in CampaignId /\ job[w].x \in Candidate
    BY <1>2, JobFacts DEF SubmitAttach, SubmitPcs, AllAssumptions, LifecycleAssumption
  <2>2. AttachCandidate(job[w].c, job[w].x, camp[job[w].c].rev, 0)
    BY <1>2 DEF SubmitAttach, AttachCandidate
  <2>3. camp'[job[w].c].state = "candidate_ready"
    BY <2>1, <2>2, StatesWritten DEF TypeOK
  <2> QED BY <2>1, <2>2, <2>3 DEF Transaction
<1>3. ASSUME NEW w \in Worker, NEW to \in CallerStates \ {"completed"}, NEW rev \in Nat,
             job[w].c \in CampaignId, Transition(job[w].c, to, rev, 0, 0)
      PROVE  \E c \in CampaignId : Plain(c)
  <2>1. Transition(job[w].c, to, camp[job[w].c].rev, 0, 0)
    BY <1>3 DEF Transition
  <2>2. camp'[job[w].c].state = to
    BY <1>3, StatesWritten DEF TypeOK
  <2> QED BY <1>3, <2>1, <2>2 DEF Transaction
<1>4. ASSUME NEW w \in Worker, SubmitToApproval(w)
      PROVE  UNCHANGED campaignVars \/ \E c \in CampaignId : Plain(c)
  <2>1. job[w].c \in CampaignId
    BY <1>4, JobFacts DEF SubmitToApproval, SubmitPcs
  <2>2. CASE UNCHANGED campaignVars
    BY <2>2
  <2>3. CASE Transition(job[w].c, "evaluation_pending", camp[job[w].c].rev, 0, 0)
    <3>1. camp'[job[w].c].state = "evaluation_pending"
      BY <2>1, <2>3, StatesWritten DEF TypeOK
    <3> QED BY <2>1, <2>3, <3>1 DEF Transaction, CallerStates
  <2> QED BY <1>4, <2>2, <2>3 DEF SubmitToApproval
<1>5. ASSUME NEW w \in Worker, SubmitFinish(w)
      PROVE  \E c \in CampaignId : Plain(c)
  <2>1. job[w].c \in CampaignId /\ job[w].rev \in Nat
    BY <1>5, JobFacts DEF SubmitFinish, SubmitPcs
  <2> QED BY <1>3, <1>5, <2>1 DEF SubmitFinish, CallerStates
<1>6. ASSUME NEW w \in Worker, Complete(w)
      PROVE  job[w].c \in CampaignId /\ Transaction(job[w].c, 0)
  <2>1. job[w].c \in CampaignId
    BY <1>6, JobFacts DEF Complete, MayComplete, Moves
  <2> QED BY <1>6, <2>1 DEF Complete, Transaction, CallerStates, ClosedStates
<1>7. ASSUME NEW a \in Actor, NEW c \in CampaignId, Approve(a, c) \/ Reject(a, c)
      PROVE  \E d \in CampaignId : Plain(d)
  <2>1. camp'[c].state # "completed"
    BY <1>7, StatesWritten DEF Approve, Reject, TypeOK
  <2> QED BY <1>7, <2>1 DEF Approve, Reject, Transaction, Decisions
<1>8. ASSUME NEW c \in CampaignId, Cancel(c)
      PROVE  \E d \in CampaignId : Plain(d)
  <2>1. camp'[c].state # "completed"
    BY <1>8, StatesWritten DEF Cancel, TypeOK
  <2> QED BY <1>8, <2>1 DEF Cancel, Transaction, CallerStates, ClosedStates
<1>9. ASSUME NEW w \in Worker, Call(w)
      PROVE  UNCHANGED campaignVars
  BY <1>9 DEF Call, SubmitPlan, SubmitRollback, BeginSubmission, SynchronizeCheck,
              StartShadowCheck, ExecuteRollbackCheck, Begin, OperatorLooks
<1>10. ASSUME NEW w \in Worker, Fail(w) \/ Crash(w) \/ Restart(w)
       PROVE  UNCHANGED campaignVars
  BY <1>10 DEF Fail, Crash, Restart
<1>11. ASSUME NEW w \in Worker, Progress(w)
       PROVE  \/ UNCHANGED campaignVars \/ \E c \in CampaignId : Plain(c)
              \/ Complete(w)
  <2>1. SubmitBind(w) \/ SynchronizeMark(w) \/ StartShadowMove(w)
          \/ ExecuteRollbackMove(w) \/ OperatorMoves(w) => UNCHANGED campaignVars
    BY DEF SubmitBind, SynchronizeMark, StartShadowMove, ExecuteRollbackMove, OperatorMoves
  <2> QED BY <1>1, <1>2, <1>4, <1>5, <1>11, <2>1 DEF Progress
<1>12. ASSUME NEW d \in Decision, EvaluateStage(d)
       PROVE  UNCHANGED campaignVars
  BY <1>12 DEF EvaluateStage
<1>13. CASE Next
  BY <1>6, <1>7, <1>8, <1>9, <1>10, <1>11, <1>12, <1>13 DEF Next
<1> QED BY <1>13 DEF vars

-----------------------------------------------------------------------------
(* The head *)

(* Every transition writes what the caller made of the head it read.        *)
LEMMA MovedHead ==
  ASSUME RegistryTypeOK, head # NoHead, NEW new \in ReleaseHead, NEW rev, MoveHead(new, rev)
  PROVE  /\ RegistryTypeOK' /\ decs' = decs /\ head' # NoHead
         /\ head'.state = new.state /\ head'.stage = new.stage
         /\ head'.rel = new.rel /\ head'.rb = new.rb
<1>1. head \in ReleaseHead
  BY DEF RegistryTypeOK
<1>2. head' = [new EXCEPT !.rev = head.rev + 1] /\ head.rev + 1 \in Nat
  BY <1>1 DEF MoveHead, ReleaseHead
<1>3. /\ head' \in ReleaseHead /\ head'.state = new.state /\ head'.stage = new.stage
      /\ head'.rel = new.rel /\ head'.rb = new.rb /\ head'.alloc = new.alloc
  BY <1>2 DEF ReleaseHead
<1>4. HeadIsValid(head')
  BY <1>3 DEF MoveHead, HeadIsValid
<1> QED BY <1>3, <1>4, HeadAssumption DEF RegistryTypeOK, MoveHead

(* The head moves, as the registry's operations let it.                     *)
Operation ==
  \E rev \in Nat :
    \/ StartShadow(rev)
    \/ \E c \in CampaignId :
         BindRelease(c, rev) \/ MarkAuthorized(c, rev) \/ BindRollback(c, rev)
    \/ \E d \in Decision :
         Advance(d, rev) \/ RecordHold(d, rev) \/ RecommendRollback(d, rev) \/ MarkReady(d, rev)
    \/ \E d \in Decision, c \in CampaignId : Rollback(d, c, rev)

(* What each of them makes of the head.                                     *)
Turns(state, stage, rel, rb) ==
  /\ RegistryTypeOK' /\ decs' = decs /\ head' # NoHead
  /\ head'.state = state /\ head'.stage = stage /\ head'.rel = rel /\ head'.rb = rb

LEMMA OperationEffects ==
  ASSUME RegistryTypeOK, AllAssumptions, head # NoHead, NEW rev \in Nat
  PROVE  /\ \A c \in CampaignId :
              /\ BindRelease(c, rev) => Turns("planned", head.stage, c, head.rb)
              /\ MarkAuthorized(c, rev) => Turns("authorized", head.stage, head.rel, head.rb)
              /\ BindRollback(c, rev) => Turns("rollback_recommended", head.stage, head.rel, c)
         /\ StartShadow(rev) => Turns("shadow", 0, head.rel, head.rb)
         /\ \A d \in Decision :
              /\ Advance(d, rev) => Turns("canary", head.stage + 1, head.rel, head.rb)
              /\ RecordHold(d, rev) => Turns("hold", head.stage, head.rel, head.rb)
              /\ RecommendRollback(d, rev) =>
                   Turns("rollback_recommended", head.stage, head.rel, head.rb)
              /\ MarkReady(d, rev) => Turns("ready", head.stage, head.rel, head.rb)
         /\ \A d \in Decision, c \in CampaignId :
              Rollback(d, c, rev) => Turns("rolled_back", NoStage, head.rel, head.rb)
<1>1. head \in ReleaseHead
  BY DEF RegistryTypeOK
<1>2. ASSUME NEW new \in ReleaseHead, MoveHead(new, rev)
      PROVE  Turns(new.state, new.stage, new.rel, new.rb)
  BY <1>2, MovedHead DEF Turns
<1>3. ASSUME NEW s \in HeadStates, NEW i \in Stage \cup {NoStage}, NEW n \in 0 .. 99,
             MoveHead([head EXCEPT !.state = s, !.stage = i, !.alloc = n], rev)
      PROVE  Turns(s, i, head.rel, head.rb)
  <2> DEFINE new == [head EXCEPT !.state = s, !.stage = i, !.alloc = n]
  <2>1. new \in ReleaseHead
    BY <1>1 DEF ReleaseHead
  <2>2. new.state = s /\ new.stage = i /\ new.rel = head.rel /\ new.rb = head.rb
    BY <1>1 DEF ReleaseHead
  <2>3. MoveHead(new, rev)
    BY <1>3
  <2> HIDE DEF new
  <2> QED BY <1>2, <2>1, <2>2, <2>3
<1>4. ASSUME NEW s \in HeadStates, MoveHead([head EXCEPT !.state = s], rev)
      PROVE  Turns(s, head.stage, head.rel, head.rb)
  <2> DEFINE new == [head EXCEPT !.state = s]
  <2>1. /\ new \in ReleaseHead /\ new.state = s /\ new.stage = head.stage
        /\ new.rel = head.rel /\ new.rb = head.rb
    BY <1>1 DEF ReleaseHead
  <2>2. MoveHead(new, rev)
    BY <1>4
  <2> HIDE DEF new
  <2> QED BY <1>2, <2>1, <2>2
<1>5. {"planned", "authorized", "shadow", "canary", "hold", "rollback_recommended", "ready",
       "rolled_back"} \subseteq HeadStates /\ 0 \in 0 .. 99 /\ 0 \in Stage
  BY DEF HeadStates, AllAssumptions, ReleaseAssumption, Stage
<1>6. ASSUME NEW c \in CampaignId, BindRelease(c, rev)
      PROVE  Turns("planned", head.stage, c, head.rb)
  <2>1. PICK new \in ReleaseHead : /\ new = [head EXCEPT !.rel = c]
                            /\ new.state = "planned" /\ new.stage = head.stage
                            /\ new.rel = c /\ new.rb = head.rb
    BY <1>1, <1>6 DEF ReleaseHead, BindRelease
  <2> QED BY <1>2, <1>6, <2>1 DEF BindRelease
<1>7. ASSUME NEW c \in CampaignId, BindRollback(c, rev)
      PROVE  Turns("rollback_recommended", head.stage, head.rel, c)
  <2>1. PICK new \in ReleaseHead : /\ new = [head EXCEPT !.rb = c]
                            /\ new.state = "rollback_recommended" /\ new.stage = head.stage
                            /\ new.rel = head.rel /\ new.rb = c
    BY <1>1, <1>7 DEF ReleaseHead, BindRollback
  <2> QED BY <1>2, <1>7, <2>1 DEF BindRollback
<1>8. ASSUME NEW d \in Decision, Advance(d, rev)
      PROVE  Turns("canary", head.stage + 1, head.rel, head.rb)
  <2>1. stageOf[d] + 1 \in Stage /\ head.stage = stageOf[d]
    BY <1>8 DEF Advance, AllAssumptions, ReleaseAssumption, GateAssumption, Stage
  <2>2. traffic[stageOf[d] + 1] \in 0 .. 99
    BY <2>1 DEF AllAssumptions, ReleaseAssumption
  <2> QED BY <1>3, <1>5, <1>8, <2>1, <2>2 DEF Advance, AdvanceTo
<1>9. ASSUME NEW d \in Decision
      PROVE  /\ RecordHold(d, rev) => Turns("hold", head.stage, head.rel, head.rb)
             /\ RecommendRollback(d, rev) =>
                  Turns("rollback_recommended", head.stage, head.rel, head.rb)
             /\ MarkReady(d, rev) => Turns("ready", head.stage, head.rel, head.rb)
  BY <1>4, <1>5 DEF RecordHold, RecommendRollback, MarkReady
<1>10. \A c \in CampaignId :
         MarkAuthorized(c, rev) => Turns("authorized", head.stage, head.rel, head.rb)
  BY <1>4, <1>5 DEF MarkAuthorized
<1>11. StartShadow(rev) => Turns("shadow", 0, head.rel, head.rb)
  BY <1>3, <1>5 DEF StartShadow
<1>12. \A d \in Decision, c \in CampaignId :
         Rollback(d, c, rev) => Turns("rolled_back", NoStage, head.rel, head.rb)
  BY <1>3, <1>5 DEF Rollback
<1> QED BY <1>6, <1>7, <1>8, <1>9, <1>10, <1>11, <1>12

LEMMA OperationType ==
  ASSUME RegistryTypeOK, AllAssumptions, head # NoHead, Operation
  PROVE  RegistryTypeOK' /\ decs' = decs /\ HeadGoesOn
<1>1. ASSUME NEW s, NEW i, NEW rel, NEW rb, Turns(s, i, rel, rb), head.state # "rolled_back",
             s \in {"planned", "authorized"} => head.state \in {"planned", "authorized"}
      PROVE  RegistryTypeOK' /\ decs' = decs /\ HeadGoesOn
  BY <1>1 DEF Turns, HeadGoesOn
<1>2. PICK rev \in Nat :
        \/ StartShadow(rev)
        \/ \E c \in CampaignId :
             BindRelease(c, rev) \/ MarkAuthorized(c, rev) \/ BindRollback(c, rev)
        \/ \E d \in Decision :
             Advance(d, rev) \/ RecordHold(d, rev) \/ RecommendRollback(d, rev) \/ MarkReady(d, rev)
        \/ \E d \in Decision, c \in CampaignId : Rollback(d, c, rev)
  BY DEF Operation
<1>3. CASE StartShadow(rev)
  BY <1>1, <1>3, OperationEffects DEF StartShadow
<1>4. ASSUME NEW c \in CampaignId,
             BindRelease(c, rev) \/ MarkAuthorized(c, rev) \/ BindRollback(c, rev)
      PROVE  RegistryTypeOK' /\ decs' = decs /\ HeadGoesOn
  BY <1>1, <1>4, OperationEffects DEF BindRelease, MarkAuthorized, BindRollback
<1>5. ASSUME NEW d \in Decision,
             Advance(d, rev) \/ RecordHold(d, rev) \/ RecommendRollback(d, rev) \/ MarkReady(d, rev)
      PROVE  RegistryTypeOK' /\ decs' = decs /\ HeadGoesOn
  BY <1>1, <1>5, OperationEffects DEF Advance, RecordHold, RecommendRollback, MarkReady, Running
<1>6. ASSUME NEW d \in Decision, NEW c \in CampaignId, Rollback(d, c, rev)
      PROVE  RegistryTypeOK' /\ decs' = decs /\ HeadGoesOn
  BY <1>1, <1>6, OperationEffects DEF Rollback
<1> QED BY <1>2, <1>3, <1>4, <1>5, <1>6

-----------------------------------------------------------------------------
(* Types *)

(* No call works on the head before there is one.                           *)
HeadFirst == head = NoHead => \A w \in Worker : job[w] \in {Idle, Down}

(* A step of the calls moves the head by at most one operation.             *)
LEMMA StepOnHead ==
  ASSUME TypeOK, HeadFirst, [Next]_vars
  PROVE  \/ UNCHANGED registryVars
         \/ RegisterPlan
         \/ \E d \in Decision : StoreDecision(d)
         \/ head # NoHead /\ Operation
<1> DEFINE Quiet == UNCHANGED registryVars \/ (head # NoHead /\ Operation)
<1>1. head # NoHead => head.rev \in Nat
  BY DEF TypeOK, RegistryTypeOK, ReleaseHead
<1>2. ASSUME NEW w \in Worker, job[w].pc \in SubmitPcs \cup Moves \cup OperatorPcs
      PROVE  head # NoHead
  BY <1>2 DEF HeadFirst, Idle, Down, SubmitPcs, Moves, OperatorPcs
<1>3. ASSUME NEW w \in Worker, Call(w)
      PROVE  RegisterPlan \/ Quiet
  <2>1. ASSUME NEW c \in CampaignId, SynchronizeCheck(w, c) \/ StartShadowCheck(w, c)
        PROVE  Quiet
    BY <2>1 DEF SynchronizeCheck, StartShadowCheck, Begin
  <2>2. ASSUME NEW d \in Decision, NEW c \in CampaignId, ExecuteRollbackCheck(w, d, c)
        PROVE  Quiet
    BY <2>2 DEF ExecuteRollbackCheck, Begin
  <2>3. ASSUME NEW d \in Decision, NEW pc \in OperatorPcs, OperatorLooks(w, d, pc)
        PROVE  Quiet
    BY <2>3 DEF OperatorLooks
  <2>4. ASSUME NEW d \in Decision, SubmitRollback(w, d)
        PROVE  Quiet
    BY <1>1, <2>4 DEF SubmitRollback, Operation
  <2>5. SubmitPlan(w) => RegisterPlan
    BY DEF SubmitPlan
  <2> HIDE DEF Quiet
  <2> QED BY <1>3, <2>1, <2>2, <2>3, <2>4, <2>5 DEF Call
<1>4. ASSUME NEW w \in Worker, SubmitBind(w)
      PROVE  Quiet
  <2>1. head # NoHead /\ job[w].c \in CampaignId
    BY <1>2, <1>4, JobFacts DEF SubmitBind, SubmitPcs
  <2> QED BY <1>1, <1>4, <2>1 DEF SubmitBind, Operation
<1>5. ASSUME NEW w \in Worker,
             SynchronizeMark(w) \/ StartShadowMove(w) \/ ExecuteRollbackMove(w)
      PROVE  Quiet
  <2>1. /\ head # NoHead /\ job[w].c \in CampaignId /\ job[w].rev \in Nat
        /\ job[w].x \in Subject
    BY <1>2, <1>5, JobFacts DEF SynchronizeMark, StartShadowMove, ExecuteRollbackMove, Moves
  <2>2. SynchronizeMark(w) \/ StartShadowMove(w) => Operation
    BY <1>1, <2>1 DEF SynchronizeMark, StartShadowMove, Operation
  <2>3. ExecuteRollbackMove(w) => Operation
    BY <2>1, JobFacts DEF ExecuteRollbackMove, Operation
  <2> QED BY <1>5, <2>1, <2>2, <2>3
<1>6. ASSUME NEW w \in Worker, OperatorMoves(w)
      PROVE  Quiet
  <2>1. head # NoHead /\ job[w].d \in Decision /\ job[w].rev \in Nat
    BY <1>2, <1>6, JobFacts DEF OperatorMoves, OperatorPcs
  <2> QED BY <1>6, <2>1 DEF OperatorMoves, Operation
<1>7. ASSUME NEW w \in Worker, Progress(w)
      PROVE  Quiet
  <2>1. \/ SubmitReserve(w) \/ SubmitAttach(w) \/ SubmitToApproval(w) \/ SubmitFinish(w)
        \/ Complete(w)
        => UNCHANGED registryVars
    BY DEF SubmitReserve, SubmitAttach, SubmitToApproval, SubmitFinish, Complete
  <2> HIDE DEF Quiet
  <2>2. UNCHANGED registryVars => Quiet
    BY DEF Quiet
  <2> QED BY <1>4, <1>5, <1>6, <1>7, <2>1, <2>2 DEF Progress
<1>8. ASSUME NEW w \in Worker, Fail(w) \/ Crash(w) \/ Restart(w)
      PROVE  Quiet
  BY <1>8 DEF Fail, Crash, Restart
<1>9. ASSUME NEW a \in Actor, NEW c \in CampaignId, Approve(a, c) \/ Reject(a, c)
      PROVE  Quiet
  BY <1>9 DEF Approve, Reject, registryVars
<1>10. ASSUME NEW c \in CampaignId, Cancel(c)
       PROVE  Quiet
  BY <1>10 DEF Cancel, registryVars
<1>11. ASSUME NEW d \in Decision, EvaluateStage(d)
       PROVE  StoreDecision(d)
  BY <1>11 DEF EvaluateStage
<1>12. UNCHANGED vars => Quiet
  BY DEF vars
<1> HIDE DEF Quiet
<1>13. Next => RegisterPlan \/ Quiet \/ \E d \in Decision : StoreDecision(d)
  BY <1>3, <1>7, <1>8, <1>9, <1>10, <1>11 DEF Next
<1> QED BY <1>12, <1>13 DEF Quiet

LEMMA RegistryStep ==
  ASSUME TypeOK, HeadFirst, AllAssumptions, [Next]_vars
  PROVE  RegistryTypeOK' /\ HeadGoesOn
<1>1. CASE UNCHANGED registryVars
  BY <1>1 DEF registryVars, TypeOK, RegistryTypeOK, HeadIsValid, HeadGoesOn
<1>2. CASE RegisterPlan
  <2>1. CASE head = NoHead
    <3> DEFINE new == [state |-> "planned", stage |-> NoStage, alloc |-> 0, rev |-> 0,
                       rel |-> NoCampaign, rb |-> NoCampaign]
    <3>1. new \in ReleaseHead /\ HeadIsValid(new)
      BY DEF ReleaseHead, HeadStates, HeadIsValid
    <3>2. head' = new /\ decs' = decs
      BY <1>2, <2>1 DEF RegisterPlan
    <3> HIDE DEF new
    <3> QED BY <2>1, <3>1, <3>2 DEF TypeOK, RegistryTypeOK, HeadGoesOn
  <2>2. CASE head # NoHead
    BY <1>2, <2>2 DEF RegisterPlan, TypeOK, RegistryTypeOK, HeadIsValid, HeadGoesOn
  <2> QED BY <2>1, <2>2
<1>3. ASSUME NEW d \in Decision, StoreDecision(d)
      PROVE  RegistryTypeOK' /\ HeadGoesOn
  BY <1>3 DEF StoreDecision, TypeOK, RegistryTypeOK, HeadIsValid, HeadGoesOn
<1>4. CASE head # NoHead /\ Operation
  BY <1>4, OperationType DEF TypeOK
<1> QED BY <1>1, <1>2, <1>3, <1>4, StepOnHead

(* A step writes one job at most.                                           *)
WorkerStep(w) == Call(w) \/ Progress(w) \/ Fail(w) \/ Crash(w) \/ Restart(w)
Writes(w, j) ==
  /\ job' = [job EXCEPT ![w] = j]
  /\ j \in {Idle, Down} \/ head' # NoHead
LEMMA StepOnJobs ==
  ASSUME TypeOK, HeadFirst, AllAssumptions, [Next]_vars
  PROVE  /\ \A w \in Worker :
              WorkerStep(w) => \E j \in Jobs \cup {Idle, Down} : Writes(w, j)
         /\ UNCHANGED job \/ \E w \in Worker : WorkerStep(w)
<1> USE DEF CallIs
<1> DEFINE Fine(w) == \E j \in Jobs \cup {Idle, Down} : Writes(w, j)
<1>1. ASSUME NEW w \in Worker, Done(w)
      PROVE  Fine(w)
  BY <1>1 DEF Done, Writes
<1>2. ASSUME NEW w \in Worker, job[w] \notin {Idle, Down}
      PROVE  head # NoHead /\ head' # NoHead
  BY <1>2, RegistryStep DEF HeadFirst, HeadGoesOn
<1>3. ASSUME NEW w \in Worker, NEW x \in Subject, BeginSubmission(w, x), head' # NoHead
      PROVE  Fine(w)
  <2>1. [pc |-> "reserve", x |-> x, c |-> NoCampaign, rev |-> 0] \in Jobs
    BY DEF Jobs
  <2> QED BY <1>3, <2>1 DEF BeginSubmission, Writes
<1>4. ASSUME NEW w \in Worker, NEW pc \in {"mark", "shadow"}, NEW c \in CampaignId,
             Begin(w, pc, Plan, c)
      PROVE  Fine(w)
  <2>1. head # NoHead /\ head' = head /\ head.rev \in Nat
    BY <1>4 DEF Begin, registryVars, TypeOK, RegistryTypeOK, ReleaseHead
  <2>2. [pc |-> pc, x |-> Plan, c |-> c, rev |-> head.rev] \in Jobs
    BY <2>1 DEF Jobs
  <2> QED BY <1>4, <2>1, <2>2 DEF Begin, Writes
<1>5. ASSUME NEW w \in Worker, NEW d \in Decision, NEW c \in CampaignId,
             ExecuteRollbackCheck(w, d, c)
      PROVE  Fine(w)
  <2>1. head # NoHead /\ head' = head /\ head.rev \in Nat
    BY <1>5 DEF ExecuteRollbackCheck, Begin, registryVars, TypeOK, RegistryTypeOK, ReleaseHead
  <2>2. [pc |-> "rollback", x |-> d, c |-> c, rev |-> head.rev] \in Jobs
    BY <2>1 DEF Jobs
  <2> QED BY <1>5, <2>1, <2>2 DEF ExecuteRollbackCheck, Begin, Writes
<1>6. ASSUME NEW w \in Worker, NEW d \in Decision, NEW pc \in OperatorPcs,
             OperatorLooks(w, d, pc)
      PROVE  Fine(w)
  <2>1. head # NoHead /\ head' = head /\ head.rev \in Nat
    BY <1>6 DEF OperatorLooks, registryVars, TypeOK, RegistryTypeOK, ReleaseHead
  <2>2. [pc |-> pc, d |-> d, rev |-> head.rev] \in Jobs
    BY <2>1 DEF Jobs
  <2> QED BY <1>6, <2>1, <2>2 DEF OperatorLooks, Writes
<1>7. ASSUME NEW w \in Worker, Call(w)
      PROVE  Fine(w)
  <2>1. ASSUME SubmitPlan(w)
        PROVE  Fine(w)
    <3>1. head' # NoHead
      <4>1. [state |-> "planned", stage |-> NoStage, alloc |-> 0, rev |-> 0,
             rel |-> NoCampaign, rb |-> NoCampaign] \in ReleaseHead
        BY DEF ReleaseHead, HeadStates
      <4> QED BY <2>1, <4>1 DEF SubmitPlan, RegisterPlan, AllAssumptions, HeadAssumption
    <3> QED BY <1>3, <2>1, <3>1 DEF SubmitPlan, Subject
  <2>2. ASSUME NEW d \in Decision, SubmitRollback(w, d)
        PROVE  Fine(w)
    <3>1. head' # NoHead
      BY <2>2, RegistryStep DEF SubmitRollback, HeadGoesOn
    <3> QED BY <1>3, <2>2, <3>1 DEF SubmitRollback, Subject
  <2> HIDE DEF Fine
  <2>3. ASSUME NEW c \in CampaignId, SynchronizeCheck(w, c) \/ StartShadowCheck(w, c)
        PROVE  Fine(w)
    BY <1>4, <2>3 DEF SynchronizeCheck, StartShadowCheck
  <2> QED BY <1>5, <1>6, <1>7, <2>1, <2>2, <2>3 DEF Call
<1>8. ASSUME NEW w \in Worker, job[w].pc = "reserve"
      PROVE  job[w] \in [pc: {"reserve"}, x: Subject, c: {NoCampaign}, rev: Nat]
  BY <1>8 DEF TypeOK, Jobs, Idle, Down, OperatorPcs
<1>9. ASSUME NEW w \in Worker, SubmitReserve(w)
      PROVE  Fine(w)
  <2>1. PICK r \in [pc: {"reserve"}, x: Subject, c: {NoCampaign}, rev: Nat] : r = job[w]
    BY <1>8, <1>9 DEF SubmitReserve
  <2>2. PICK c \in CampaignId, pc \in {"bind", "attach"} :
          job' = [job EXCEPT ![w] = [r EXCEPT !.pc = pc, !.c = c]]
    BY <1>9, <2>1 DEF SubmitReserve, TypeOK
  <2>3. [r EXCEPT !.pc = pc, !.c = c] \in Jobs
    BY DEF Jobs, SubmitPcs
  <2>4. head' # NoHead
    BY <1>2, <1>9 DEF SubmitReserve, Idle, Down
  <2> QED BY <2>2, <2>3, <2>4 DEF Writes
<1>10. ASSUME NEW w \in Worker, job[w].pc \in {"attach", "bind", "submit"}
       PROVE  job[w] \in [pc: (SubmitPcs \ {"reserve"}) \cup {"complete"},
                          x: Subject, c: CampaignId, rev: Nat]
  BY <1>10 DEF TypeOK, Jobs, Idle, Down, OperatorPcs
<1>11. ASSUME NEW w \in Worker, job[w].pc \in {"shadow", "rollback"}
       PROVE  job[w] \in [pc: {"shadow", "rollback"}, x: Subject, c: CampaignId, rev: Nat]
  BY <1>11 DEF TypeOK, Jobs, Idle, Down, OperatorPcs, SubmitPcs, Subject
<1>12. ASSUME NEW w \in Worker, NEW pc \in (SubmitPcs \ {"reserve"}) \cup {"complete"},
              job[w].pc \in {"attach", "bind", "submit", "shadow", "rollback"}, Goto(w, pc)
       PROVE  Fine(w)
  <2>1. PICK r \in [pc: SubmitPcs \cup Moves, x: Subject, c: CampaignId, rev: Nat] : r = job[w]
    BY <1>10, <1>11, <1>12 DEF Moves
  <2>2. job' = [job EXCEPT ![w] = [r EXCEPT !.pc = pc]]
    BY <1>12, <2>1 DEF Goto, TypeOK
  <2>3. [r EXCEPT !.pc = pc] \in Jobs
    BY DEF Jobs
  <2>4. head' # NoHead
    BY <1>2, <1>12 DEF Idle, Down
  <2> QED BY <2>2, <2>3, <2>4 DEF Writes
<1>13. ASSUME NEW w \in Worker, SubmitToApproval(w)
       PROVE  Fine(w)
  <2>1. CASE job' = [job EXCEPT ![w].pc = "finish", ![w].rev = camp[job[w].c].rev + 1]
               /\ camp[job[w].c].state = "candidate_ready"
    <3>1. PICK r \in [pc: SubmitPcs \cup Moves, x: Subject, c: CampaignId, rev: Nat] : r = job[w]
      BY <1>10, <1>13 DEF SubmitToApproval
    <3>2. PICK n \in Nat : n = camp[r.c].rev + 1
      BY <2>1, <3>1, RowFacts DEF TypeOK, RowBy, Exists
    <3>3. job' = [job EXCEPT ![w] = [r EXCEPT !.pc = "finish", !.rev = n]]
      BY <2>1, <3>1, <3>2 DEF TypeOK
    <3>4. [r EXCEPT !.pc = "finish", !.rev = n] \in Jobs
      BY DEF Jobs, SubmitPcs
    <3>5. head' # NoHead
      BY <1>2, <1>13 DEF SubmitToApproval, Idle, Down
    <3> QED BY <3>3, <3>4, <3>5 DEF Writes
  <2> QED BY <1>1, <1>13, <2>1 DEF SubmitToApproval
<1>14. ASSUME NEW w \in Worker, Progress(w)
       PROVE  Fine(w)
  <2> HIDE DEF Fine
  <2>1. SubmitAttach(w) \/ SubmitBind(w) \/ StartShadowMove(w) \/ ExecuteRollbackMove(w)
        => Fine(w)
    BY <1>12 DEF SubmitAttach, SubmitBind, StartShadowMove, ExecuteRollbackMove, SubmitPcs
  <2>2. SubmitFinish(w) \/ SynchronizeMark(w) \/ Complete(w) \/ OperatorMoves(w) => Fine(w)
    BY <1>1 DEF SubmitFinish, SynchronizeMark, Complete, OperatorMoves
  <2> QED BY <1>9, <1>13, <1>14, <2>1, <2>2 DEF Progress
<1>15. ASSUME NEW w \in Worker, Fail(w) \/ Crash(w) \/ Restart(w)
       PROVE  Fine(w)
  BY <1>1, <1>15 DEF Fail, Crash, Restart, Writes
<1> HIDE DEF Fine
<1>16. UNCHANGED vars => UNCHANGED job
  BY DEF vars
<1>17. \A a \in Actor, c \in CampaignId :
          Approve(a, c) \/ Reject(a, c) \/ Cancel(c) => UNCHANGED job
  BY DEF Approve, Reject, Cancel
<1>18. \A d \in Decision : EvaluateStage(d) => UNCHANGED job
  BY DEF EvaluateStage
<1>19. ASSUME NEW c \in CampaignId, Cancel(c)
       PROVE  UNCHANGED job
  BY <1>19 DEF Cancel
<1>20. \A w \in Worker : WorkerStep(w) => Fine(w)
  BY <1>7, <1>14, <1>15 DEF WorkerStep
<1>21. UNCHANGED job \/ \E w \in Worker : WorkerStep(w)
  BY <1>16, <1>17, <1>18, <1>19 DEF Next, WorkerStep
<1> QED BY <1>20, <1>21 DEF Fine

(* A submission that a stop cuts short has a subject.                       *)
LEMMA CutStep ==
  ASSUME TypeOK, [Next]_vars
  PROVE  cut' \subseteq Subject
<1>1. ASSUME NEW w \in Worker, Call(w)
      PROVE  UNCHANGED cut
  BY <1>1 DEF Call, SubmitPlan, SubmitRollback, BeginSubmission, SynchronizeCheck,
              StartShadowCheck, ExecuteRollbackCheck, Begin, OperatorLooks, CallIs
<1>2. ASSUME NEW w \in Worker, Progress(w)
      PROVE  UNCHANGED cut
  BY <1>2 DEF Progress, SubmitReserve, SubmitAttach, SubmitBind, SubmitToApproval,
              SubmitFinish, SynchronizeMark, StartShadowMove, ExecuteRollbackMove, Complete,
              OperatorMoves, Goto, Done, CallIs
<1>3. ASSUME NEW w \in Worker, Crash(w)
      PROVE  cut' \subseteq Subject
  <2>1. job[w].pc \in SubmitPcs => job[w].x \in Subject
    BY JobFacts
  <2> QED BY <1>3, <2>1 DEF Crash, TypeOK
<1>4. ASSUME NEW w \in Worker, Fail(w) \/ Restart(w)
      PROVE  UNCHANGED cut
  BY <1>4 DEF Fail, Restart, Done, CallIs
<1>5. \A a \in Actor, c \in CampaignId :
        Approve(a, c) \/ Reject(a, c) \/ Cancel(c) => UNCHANGED cut
  BY DEF Approve, Reject, Cancel
<1>6. \A d \in Decision : EvaluateStage(d) => UNCHANGED cut
  BY DEF EvaluateStage
<1>7. \A c \in CampaignId : Cancel(c) => UNCHANGED cut
  BY DEF Cancel
<1>8. UNCHANGED vars => UNCHANGED cut
  BY DEF vars
<1>9. UNCHANGED cut \/ cut' \subseteq Subject
  BY <1>1, <1>2, <1>3, <1>4, <1>5, <1>6, <1>7, <1>8 DEF Next
<1> QED BY <1>9 DEF TypeOK

(* Every row, job and remembered revision is well typed, and nothing acts   *)
(* on a head that is not there.                                             *)
TypeInv == TypeOK /\ HeadFirst

LEMMA TypeInvariant == Spec => []TypeInv
<1>1. Init => TypeInv
  BY DEF Init, CampaignsInit, RegistryInit, TypeInv, TypeOK, HeadFirst, CampaignsTypeOK,
         RegistryTypeOK
<1>2. TypeInv /\ [Next]_vars => TypeInv'
  <2> SUFFICES ASSUME TypeOK, HeadFirst, [Next]_vars
               PROVE  TypeInv'
    BY DEF TypeInv
  <2>1. AllAssumptions
    BY CampaignsAssumption, ReleaseAssumption, GateAssumption, HeadAssumption,
       LifecycleAssumption DEF AllAssumptions
  <2>2. CampaignsTypeOK'
    BY <2>1, StepOnCampaigns, TransactionType
       DEF TypeOK, CampaignsTypeOK, campaignVars, AllAssumptions, Plain
  <2>3. RegistryTypeOK' /\ HeadGoesOn
    BY <2>1, RegistryStep
  <2>4. job' \in [Worker -> Jobs \cup {Idle, Down}] /\ HeadFirst'
    <3>1. CASE UNCHANGED job
      BY <2>3, <3>1 DEF TypeOK, HeadFirst, HeadGoesOn
    <3>2. ASSUME NEW w \in Worker, NEW j \in Jobs \cup {Idle, Down}, Writes(w, j)
          PROVE  job' \in [Worker -> Jobs \cup {Idle, Down}] /\ HeadFirst'
      BY <2>3, <3>2 DEF Writes, TypeOK, HeadFirst, HeadGoesOn
    <3> QED BY <2>1, <3>1, <3>2, StepOnJobs
  <2>5. cut' \subseteq Subject
    BY CutStep
  <2> QED BY <2>2, <2>3, <2>4, <2>5 DEF TypeInv, TypeOK
<1> QED BY <1>1, <1>2, PTL DEF Spec

(* The tables of both databases and the jobs stay well typed.               *)
THEOREM TypeCorrect == Spec => []TypeOK
<1>1. TypeInv => TypeOK
  BY DEF TypeInv
<1> QED BY <1>1, TypeInvariant, PTL

-----------------------------------------------------------------------------
(* Approvals: what was approved stays approved *)

LEMMA ApprovalStep ==
  ASSUME TypeOK, AllAssumptions, ApprovalInv, [Next]_vars
  PROVE  ApprovalInv'
<1>1. CASE UNCHANGED campaignVars
  BY <1>1 DEF campaignVars, ApprovalInv, ApprovalInvAt, Exists, Approvers
<1> QED BY <1>1, StepOnCampaigns, TransactionApproval DEF TypeOK, AllAssumptions, Plain

LEMMA ApprovedStaysApproved ==
  ASSUME TypeOK, AllAssumptions, ApprovalInv, [Next]_vars,
         NEW c \in CampaignId \cup {NoCampaign}, NEW x, WasApproved(c, x)
  PROVE  WasApproved(c, x)'
<1>1. CASE UNCHANGED campaignVars
  BY <1>1 DEF campaignVars, WasApproved, Exists, Approvers
<1>2. ASSUME NEW d \in CampaignId, Transaction(d, 0)
      PROVE  WasApproved(c, x)'
  <2>1. /\ c \in CampaignId /\ Exists(c) /\ camp[c].cand = x
        /\ Cardinality(Approvers(c) \cap Reviewers(x)) >= 2
    BY DEF WasApproved
  <2>2. Approvers(c) # {}
    BY <2>1, FS_EmptySet
  <2>3. Exists(c)' /\ camp'[c].cand = x /\ Approvers(c) \subseteq Approvers(c)'
    BY <1>2, <2>1, <2>2, ApprovalsStay DEF TypeOK
  <2>4. IsFiniteSet(Approvers(c)' \cap Reviewers(x))
    BY FS_Subset DEF AllAssumptions, CampaignsAssumption, Approvers
  <2>5. Cardinality(Approvers(c) \cap Reviewers(x)) <= Cardinality(Approvers(c)' \cap Reviewers(x))
    BY <2>3, <2>4, FS_Subset
  <2>6. /\ Cardinality(Approvers(c) \cap Reviewers(x)) \in Nat
        /\ Cardinality(Approvers(c)' \cap Reviewers(x)) \in Nat
    BY <2>3, <2>4, FS_Subset, FS_CardinalityType
  <2>7. Reviewers(x)' = Reviewers(x)
    BY DEF Reviewers
  <2> QED BY <2>1, <2>3, <2>5, <2>6, <2>7 DEF WasApproved
<1> QED BY <1>1, <1>2, StepOnCampaigns DEF Plain

(* The check of a call: two approvals, all of them by reviewers.            *)
LEMMA AuthorizedIsApproved ==
  ASSUME TypeOK, AllAssumptions, NEW c \in CampaignId, NEW x \in Subject, Authorized(c, x)
  PROVE  WasApproved(c, x)
<1>1. Approvers(c) \cap Reviewers(x) = Approvers(c)
  BY DEF Authorized, ApprovalsAreValid, Approvers, Reviewers, Forbidden
<1>2. c # NoCampaign
  BY DEF AllAssumptions, ReleaseAssumption
<1>3. Cardinality(Approvers(c)) = 2 /\ Exists(c) /\ camp[c].cand = x
  BY DEF Authorized, ApprovalsAreValid, CampaignMatches
<1>4. Cardinality(Approvers(c) \cap Reviewers(x)) >= 2
  BY <1>1, <1>3
<1> QED BY <1>2, <1>3, <1>4 DEF WasApproved

-----------------------------------------------------------------------------
(* What calls rely on *)

LEMMA JobStep ==
  ASSUME TypeOK, HeadFirst, AllAssumptions, ApprovalInv, JobInv, [Next]_vars
  PROVE  JobInv'
<1> USE DEF CallIs
<1>1. RegistryTypeOK' /\ HeadGoesOn
  BY RegistryStep
<1>2. ASSUME NEW w \in Worker, job'[w] = job[w]
      PROVE  JobInvAt(w)'
  <2>1. JobInvAt(w)
    BY DEF JobInv
  <2>2. \A c \in CampaignId, x \in Subject : WasApproved(c, x) => WasApproved(c, x)'
    BY ApprovedStaysApproved
  <2>3. job[w].pc \in Moves => job[w].c \in CampaignId /\ job[w].x \in Subject
    BY JobFacts
  <2> QED BY <1>1, <1>2, <2>1, <2>2, <2>3 DEF JobInvAt, HeadGoesOn, WasApproved
<1>3. ASSUME NEW w \in Worker, job'[w].pc \notin Moves \cup OperatorPcs
      PROVE  JobInvAt(w)'
  BY <1>3 DEF JobInvAt, Moves
<1>4. ASSUME NEW w \in Worker, Done(w)
      PROVE  JobInvAt(w)'
  BY <1>3, <1>4 DEF Done, Idle, Moves, OperatorPcs, TypeOK
<1>5. ASSUME NEW w \in Worker, NEW x \in Subject, BeginSubmission(w, x)
      PROVE  JobInvAt(w)'
  BY <1>3, <1>5 DEF BeginSubmission, Moves, OperatorPcs, TypeOK
<1>6. ASSUME NEW w \in Worker, NEW pc \in {"mark", "shadow", "rollback"}, NEW x \in Subject,
             NEW c \in CampaignId, Begin(w, pc, x, c), x # Plan => x \in decs
      PROVE  JobInvAt(w)'
  <2>1. job'[w] = [pc |-> pc, x |-> x, c |-> c, rev |-> head.rev]
    BY <1>6 DEF Begin, TypeOK
  <2>2. WasApproved(c, x)'
    BY <1>6, AuthorizedIsApproved, ApprovedStaysApproved DEF Begin
  <2>3. decs' = decs
    BY <1>6 DEF Begin, registryVars
  <2> QED BY <1>6, <2>1, <2>2, <2>3 DEF JobInvAt, Moves, OperatorPcs, WasApproved
<1>7. ASSUME NEW w \in Worker, NEW d \in Decision, NEW pc \in OperatorPcs,
             OperatorLooks(w, d, pc)
      PROVE  JobInvAt(w)'
  <2>1. job'[w] = [pc |-> pc, d |-> d, rev |-> head.rev] /\ d \in decs' /\ action[d] = pc
    BY <1>7 DEF OperatorLooks, TypeOK, registryVars
  <2> QED BY <1>7, <2>1 DEF JobInvAt, Moves, OperatorPcs
<1>8. ASSUME NEW w \in Worker, Call(w)
      PROVE  JobInvAt(w)'
  <2>1. Plan \in Subject /\ Decision \subseteq Subject
    BY DEF Subject
  <2> QED BY <1>5, <1>6, <1>7, <1>8, <2>1
          DEF Call, SubmitPlan, SubmitRollback, SynchronizeCheck, StartShadowCheck,
              ExecuteRollbackCheck
<1>9. ASSUME NEW w \in Worker,
             \/ SubmitReserve(w) \/ SubmitAttach(w) \/ SubmitBind(w)
             \/ SubmitToApproval(w) \/ SubmitFinish(w)
      PROVE  JobInvAt(w)'
  <2>1. SubmitReserve(w) => job'[w].pc \in {"bind", "attach"}
    <3>1. SubmitReserve(w) => job[w] \in [pc: {"reserve"}, x: Subject, c: {NoCampaign}, rev: Nat]
      BY DEF SubmitReserve, TypeOK, Jobs, Idle, Down, OperatorPcs
    <3> QED BY <3>1 DEF SubmitReserve, TypeOK
  <2>2. ASSUME NEW pc, Goto(w, pc), job[w].pc \in {"attach", "bind"}
        PROVE  job'[w].pc = pc
    <3>1. job[w] \in [pc: (SubmitPcs \ {"reserve"}) \cup {"complete"},
                      x: Subject, c: CampaignId, rev: Nat]
      BY <2>2 DEF TypeOK, Jobs, Idle, Down, OperatorPcs
    <3> QED BY <2>2, <3>1 DEF Goto, TypeOK
  <2>3. SubmitAttach(w) => job'[w].pc = "bind"
    BY <2>2 DEF SubmitAttach
  <2>4. SubmitBind(w) => job'[w].pc = "submit"
    BY <2>2 DEF SubmitBind
  <2>5. ASSUME SubmitToApproval(w), ~Done(w)
        PROVE  job'[w].pc = "finish"
    <3>1. job[w] \in [pc: (SubmitPcs \ {"reserve"}) \cup {"complete"},
                      x: Subject, c: CampaignId, rev: Nat]
      BY <2>5 DEF SubmitToApproval, TypeOK, Jobs, Idle, Down, OperatorPcs
    <3> QED BY <2>5, <3>1 DEF SubmitToApproval, TypeOK
  <2> QED BY <1>3, <1>4, <1>9, <2>1, <2>3, <2>4, <2>5 DEF SubmitFinish, Moves, OperatorPcs
(* a move of the head leaves the call to complete the campaign              *)
<1>10. ASSUME NEW w \in Worker, job[w].pc \in Moves, Goto(w, "complete"),
              head' # NoHead,
              job[w].x = Plan => head'.state \notin {"planned", "authorized"},
              job[w].x # Plan => head'.state = "rolled_back"
       PROVE  JobInvAt(w)'
  <2>1. PICK j \in [pc: Moves, x: Subject, c: CampaignId, rev: Nat] : j = job[w]
    BY <1>10 DEF TypeOK, Jobs, Idle, Down, SubmitPcs, OperatorPcs, Moves, Subject
  <2>2. job' = [job EXCEPT ![w] = [j EXCEPT !.pc = "complete"]]
    BY <1>10, <2>1 DEF Goto, TypeOK
  <2>3. job'[w].pc = "complete" /\ job'[w].c = j.c /\ job'[w].x = j.x
    BY <2>2 DEF TypeOK
  <2>4. WasApproved(j.c, j.x) /\ (j.x # Plan => j.x \in decs)
    BY <1>10, <2>1 DEF JobInv, JobInvAt
  <2>5. \A c \in CampaignId, x \in Subject : WasApproved(c, x) => WasApproved(c, x)'
    BY ApprovedStaysApproved
  <2> QED BY <1>1, <1>10, <2>1, <2>3, <2>4, <2>5
          DEF JobInvAt, HeadGoesOn, WasApproved, OperatorPcs, Moves
<1>11. ASSUME NEW w \in Worker, StartShadowMove(w)
       PROVE  JobInvAt(w)'
  <2>1. job[w].pc = "shadow" /\ job[w].rev \in Nat /\ job[w].x = Plan /\ head # NoHead
    BY <1>11, JobFacts DEF StartShadowMove, Moves, HeadFirst, Idle, Down
  <2>2. Turns("shadow", 0, head.rel, head.rb)
    BY <1>11, <2>1, OperationEffects DEF StartShadowMove, TypeOK
  <2> QED BY <1>10, <1>11, <2>1, <2>2 DEF StartShadowMove, Turns, Moves
<1>12. ASSUME NEW w \in Worker, ExecuteRollbackMove(w)
       PROVE  JobInvAt(w)'
  <2>1. /\ job[w].pc = "rollback" /\ job[w].rev \in Nat /\ job[w].x \in Decision
        /\ job[w].c \in CampaignId /\ head # NoHead
    BY <1>12, JobFacts DEF ExecuteRollbackMove, Moves, HeadFirst, Idle, Down
  <2>2. Turns("rolled_back", NoStage, head.rel, head.rb)
    BY <1>12, <2>1, OperationEffects DEF ExecuteRollbackMove, TypeOK
  <2>3. job[w].x # Plan
    BY <2>1 DEF AllAssumptions, LifecycleAssumption
  <2> QED BY <1>10, <1>12, <2>1, <2>2, <2>3 DEF ExecuteRollbackMove, Turns, Moves
<1>13. ASSUME NEW w \in Worker, Progress(w)
       PROVE  JobInvAt(w)'
  <2>1. SynchronizeMark(w) \/ Complete(w) \/ OperatorMoves(w) => Done(w)
    BY DEF SynchronizeMark, Complete, OperatorMoves
  <2> QED BY <1>4, <1>9, <1>11, <1>12, <1>13, <2>1 DEF Progress
<1>14. ASSUME NEW w \in Worker, Crash(w)
       PROVE  JobInvAt(w)'
  BY <1>3, <1>14 DEF Crash, Down, Moves, OperatorPcs, TypeOK
<1>15. ASSUME NEW w \in Worker, WorkerStep(w)
       PROVE  JobInv'
  <2>1. JobInvAt(w)'
    BY <1>4, <1>8, <1>13, <1>14, <1>15 DEF WorkerStep, Fail, Restart
  <2>2. \A v \in Worker : v # w => job'[v] = job[v]
    BY <1>15, StepOnJobs DEF Writes, TypeOK
  <2> QED BY <1>2, <2>1, <2>2 DEF JobInv
<1>16. CASE UNCHANGED job
  BY <1>2, <1>16 DEF JobInv
<1> QED BY <1>15, <1>16, StepOnJobs

-----------------------------------------------------------------------------
(* The head shows what was approved and decided *)

LEMMA HeadStep ==
  ASSUME TypeOK, HeadFirst, AllAssumptions, ApprovalInv, JobInv,
         MovesWereApproved, StagesWereEarned, [Next]_vars
  PROVE  MovesWereApproved' /\ StagesWereEarned'
<1>1. RegistryTypeOK' /\ HeadGoesOn
  BY RegistryStep
<1>2. \A c \in CampaignId \cup {NoCampaign}, x \in Subject :
        WasApproved(c, x) => WasApproved(c, x)'
  BY ApprovedStaysApproved
<1>3. Plan \in Subject /\ Decision \subseteq Subject /\ decs \subseteq Decision
  BY DEF Subject, TypeOK, RegistryTypeOK
<1>4. head # NoHead => head \in ReleaseHead /\ head.rel \in CampaignId \cup {NoCampaign}
                                    /\ head.rb \in CampaignId \cup {NoCampaign}
  BY DEF TypeOK, RegistryTypeOK, ReleaseHead
(* a step that does not start or roll back the release                      *)
<1>5. ASSUME head # NoHead, head'.rel = head.rel \/ head'.state = "planned",
             head'.rb = head.rb \/ head'.state # "rolled_back",
             head'.state # "planned" => head.state # "planned",
             head'.state = "rolled_back" => head.state = "rolled_back"
      PROVE  MovesWereApproved'
  BY <1>1, <1>2, <1>3, <1>4, <1>5 DEF MovesWereApproved, WasApproved, HeadGoesOn
(* a step that does not move the stage                                      *)
<1>6. ASSUME head # NoHead, head'.stage = head.stage,
             head'.state = "ready" => head.state = "ready"
      PROVE  StagesWereEarned'
  BY <1>1, <1>6 DEF StagesWereEarned, HeadGoesOn
<1>7. ASSUME head = NoHead, head' # NoHead => head'.state = "planned" /\ head'.stage = NoStage
      PROVE  MovesWereApproved' /\ StagesWereEarned'
  BY <1>7 DEF MovesWereApproved, StagesWereEarned
<1>8. CASE head' = head
  BY <1>5, <1>6, <1>7, <1>8
<1>9. CASE RegisterPlan
  BY <1>7, <1>8, <1>9 DEF RegisterPlan
<1>10. ASSUME NEW w \in Worker, NEW d \in Decision, SubmitRollback(w, d)
       PROVE  MovesWereApproved' /\ StagesWereEarned'
  <2>1. head # NoHead /\ head.rev \in Nat /\ head.state # "planned"
    BY <1>4, <1>10 DEF SubmitRollback, RecommendRollback, Running, ReleaseHead
  <2>2. Turns("rollback_recommended", head.stage, head.rel, head.rb)
    BY <1>10, <2>1, OperationEffects DEF SubmitRollback, TypeOK
  <2> QED BY <1>5, <1>6, <2>1, <2>2 DEF Turns
<1>11. ASSUME NEW w \in Worker, SubmitBind(w)
       PROVE  MovesWereApproved' /\ StagesWereEarned'
  <2>1. head # NoHead /\ head.rev \in Nat /\ job[w].c \in CampaignId
    BY <1>4, <1>11, JobFacts DEF SubmitBind, HeadFirst, Idle, Down, SubmitPcs, ReleaseHead
  <2>2. CASE BindRelease(job[w].c, head.rev)
    <3>1. Turns("planned", head.stage, job[w].c, head.rb)
      BY <2>1, <2>2, OperationEffects DEF TypeOK
    <3> QED BY <1>5, <1>6, <2>1, <2>2, <3>1 DEF Turns
  <2>3. CASE BindRollback(job[w].c, head.rev)
    <3>1. Turns("rollback_recommended", head.stage, head.rel, job[w].c)
      BY <2>1, <2>3, OperationEffects DEF TypeOK
    <3> QED BY <1>5, <1>6, <2>1, <2>3, <3>1 DEF Turns, BindRollback
  <2> QED BY <1>8, <1>11, <2>2, <2>3 DEF SubmitBind, registryVars
<1>12. ASSUME NEW w \in Worker, SynchronizeMark(w)
       PROVE  MovesWereApproved' /\ StagesWereEarned'
  <2>1. /\ head # NoHead /\ head.rev \in Nat /\ job[w].pc = "mark" /\ job[w].c \in CampaignId
        /\ job[w].x = Plan
    BY <1>4, <1>12, JobFacts DEF SynchronizeMark, HeadFirst, Idle, Down, Moves, ReleaseHead
  <2>2. Turns("authorized", head.stage, head.rel, head.rb) /\ head.rel = job[w].c
    BY <1>12, <2>1, OperationEffects DEF SynchronizeMark, TypeOK, MarkAuthorized
  <2>3. WasApproved(job[w].c, Plan)
    BY <2>1 DEF JobInv, JobInvAt, Moves
  <2>4. MovesWereApproved'
    BY <1>2, <1>3, <1>4, <2>1, <2>2, <2>3 DEF Turns, MovesWereApproved, WasApproved
  <2> QED BY <1>6, <2>1, <2>2, <2>4 DEF Turns
<1>13. ASSUME NEW w \in Worker, StartShadowMove(w)
       PROVE  MovesWereApproved' /\ StagesWereEarned'
  <2>1. head # NoHead /\ job[w].rev \in Nat /\ head.state = "authorized"
    BY <1>13, JobFacts DEF StartShadowMove, StartShadow, HeadFirst, Idle, Down, Moves
  <2>2. Turns("shadow", 0, head.rel, head.rb)
    BY <1>13, <2>1, OperationEffects DEF StartShadowMove, TypeOK
  <2>3. StagesWereEarned'
    BY <2>2 DEF Turns, StagesWereEarned
  <2> QED BY <1>5, <2>1, <2>2, <2>3 DEF Turns
<1>14. ASSUME NEW w \in Worker, ExecuteRollbackMove(w)
       PROVE  MovesWereApproved' /\ StagesWereEarned'
  <2>1. /\ head # NoHead /\ job[w].rev \in Nat /\ job[w].c \in CampaignId
        /\ job[w].pc = "rollback" /\ job[w].x \in Decision
    BY <1>14, JobFacts DEF ExecuteRollbackMove, HeadFirst, Idle, Down, Moves
  <2>2. /\ Turns("rolled_back", NoStage, head.rel, head.rb)
        /\ action[job[w].x] = "rollback" /\ head.rb = job[w].c
        /\ head.state = "rollback_recommended"
    BY <1>14, <2>1, OperationEffects DEF ExecuteRollbackMove, TypeOK, Rollback
  <2>3. job[w].x # Plan
    BY <2>1 DEF AllAssumptions, LifecycleAssumption
  <2>4. WasApproved(job[w].c, job[w].x) /\ job[w].x \in decs
    BY <2>1, <2>3 DEF JobInv, JobInvAt, Moves
  <2>5. PICK d \in Decision, c \in CampaignId : d = job[w].x /\ c = job[w].c
    BY <2>1
  <2>6. WasApproved(c, d)'
    BY <1>2, <1>3, <2>4, <2>5
  <2>7. WasApproved(head.rel, Plan)
    BY <2>1, <2>2 DEF MovesWereApproved
  <2>8. MovesWereApproved'
    BY <1>2, <1>3, <1>4, <2>1, <2>2, <2>4, <2>5, <2>6, <2>7
       DEF Turns, MovesWereApproved, WasApproved
  <2>9. StagesWereEarned'
    BY <2>2 DEF Turns, StagesWereEarned
  <2> QED BY <2>8, <2>9
<1>15. ASSUME NEW w \in Worker, OperatorMoves(w)
       PROVE  MovesWereApproved' /\ StagesWereEarned'
  <2>1. /\ head # NoHead /\ job[w].rev \in Nat /\ job[w].d \in Decision
        /\ job[w].pc \in OperatorPcs
    BY <1>15, JobFacts DEF OperatorMoves, HeadFirst, Idle, Down, OperatorPcs
  <2>2. PICK d \in decs : d \in Decision /\ d = job[w].d
    BY <2>1 DEF JobInv, JobInvAt
  <2>3. CASE Advance(d, job[w].rev)
    <3>1. Turns("canary", head.stage + 1, head.rel, head.rb)
      BY <2>1, <2>2, <2>3, OperationEffects DEF TypeOK
    <3>2. /\ head.stage = stageOf[d] /\ action[d] = "advance"
          /\ head.state \in Running /\ head.stage \in Nat /\ head.stage # NoStage
      BY <2>2, <2>3 DEF Advance, AllAssumptions, ReleaseAssumption, Stage
    <3>3. \A i \in 0 .. head.stage - 1 : \E e \in decs : action[e] = "advance" /\ stageOf[e] = i
      BY <2>1, <3>2 DEF StagesWereEarned
    <3>4. \A i \in 0 .. (head.stage + 1) - 1 :
            \E e \in decs : action[e] = "advance" /\ stageOf[e] = i
      <4> TAKE i \in 0 .. (head.stage + 1) - 1
      <4>1. CASE i = head.stage
        BY <2>2, <3>2, <4>1
      <4>2. CASE i # head.stage
        BY <3>2, <3>3, <4>2
      <4> QED BY <4>1, <4>2
    <3>5. StagesWereEarned'
      BY <3>1, <3>4 DEF Turns, StagesWereEarned
    <3> QED BY <1>5, <2>1, <3>1, <3>2, <3>5 DEF Turns, Running
  <2>4. CASE RecordHold(d, job[w].rev)
    <3>1. Turns("hold", head.stage, head.rel, head.rb) /\ head.state \in Running
      BY <2>1, <2>2, <2>4, OperationEffects DEF TypeOK, RecordHold
    <3> QED BY <1>5, <1>6, <2>1, <3>1 DEF Turns, Running
  <2>5. CASE MarkReady(d, job[w].rev)
    <3>1. /\ Turns("ready", head.stage, head.rel, head.rb) /\ head.state = "canary"
          /\ action[d] = "ready"
      BY <2>1, <2>2, <2>5, OperationEffects DEF TypeOK, MarkReady
    <3>2. StagesWereEarned'
      BY <2>1, <2>2, <3>1 DEF Turns, StagesWereEarned
    <3> QED BY <1>5, <2>1, <3>1, <3>2 DEF Turns
  <2> QED BY <1>15, <2>2, <2>3, <2>4, <2>5 DEF OperatorMoves
<1>16. ASSUME NEW w \in Worker, WorkerStep(w), head' # head, ~RegisterPlan
       PROVE  MovesWereApproved' /\ StagesWereEarned'
  <2>1. Fail(w) \/ Crash(w) \/ Restart(w) => head' = head
    BY DEF Fail, Crash, Restart, registryVars
  <2>2. Call(w) => \E d \in Decision : SubmitRollback(w, d)
    <3>1. SubmitPlan(w) => RegisterPlan
      BY DEF SubmitPlan
    <3>3. \A c \in CampaignId : SynchronizeCheck(w, c) \/ StartShadowCheck(w, c) => head' = head
      BY DEF SynchronizeCheck, StartShadowCheck, Begin, registryVars
    <3>4. \A d \in Decision, c \in CampaignId : ExecuteRollbackCheck(w, d, c) => head' = head
      BY DEF ExecuteRollbackCheck, Begin, registryVars
    <3>5. \A d \in Decision, pc \in OperatorPcs : OperatorLooks(w, d, pc) => head' = head
      BY DEF OperatorLooks, registryVars
    <3> QED BY <1>16, <3>1, <3>3, <3>4, <3>5 DEF Call
  <2>3. \/ SubmitReserve(w) \/ SubmitAttach(w) \/ SubmitToApproval(w) \/ SubmitFinish(w)
        \/ Complete(w)
        => head' = head
    BY DEF SubmitReserve, SubmitAttach, SubmitToApproval, SubmitFinish, Complete, registryVars
  <2>4. Progress(w) => \/ SubmitBind(w) \/ SynchronizeMark(w) \/ StartShadowMove(w)
                       \/ ExecuteRollbackMove(w) \/ OperatorMoves(w)
    BY <1>16, <2>3 DEF Progress
  <2> QED BY <1>10, <1>11, <1>12, <1>13, <1>14, <1>15, <1>16, <2>1, <2>2, <2>4 DEF WorkerStep
<1>17. CASE ~\E w \in Worker : WorkerStep(w)
  <2>1. \A a \in Actor, c \in CampaignId : Approve(a, c) \/ Reject(a, c) => head' = head
    BY DEF Approve, Reject, registryVars
  <2>2. \A c \in CampaignId : Cancel(c) => head' = head
    BY DEF Cancel, registryVars
  <2>3. \A d \in Decision : EvaluateStage(d) => head' = head
    BY DEF EvaluateStage, StoreDecision
  <2>4. UNCHANGED vars => head' = head
    BY DEF vars, registryVars
  <2> QED BY <1>8, <1>17, <2>1, <2>2, <2>3, <2>4 DEF Next, WorkerStep
<1> QED BY <1>8, <1>9, <1>16, <1>17

(* A campaign is completed only by a call that has moved the head.          *)
LEMMA CompletedStep ==
  ASSUME TypeOK, HeadFirst, AllAssumptions, ApprovalInv, JobInv, CompletedInv, [Next]_vars
  PROVE  CompletedInv'
<1>1. HeadGoesOn
  BY RegistryStep
<1> SUFFICES ASSUME NEW c \in CampaignId, camp'[c].state = "completed"
             PROVE  /\ head' # NoHead
                    /\ IF camp'[c].cand = Plan
                       THEN head'.state \notin {"planned", "authorized"}
                       ELSE head'.state = "rolled_back"
  BY DEF CompletedInv
<1>2. CASE camp'[c] = camp[c]
  BY <1>1, <1>2 DEF CompletedInv, HeadGoesOn
<1>3. ASSUME NEW w \in Worker, Complete(w), job[w].c = c, Transaction(c, 0)
      PROVE  /\ head' # NoHead
             /\ IF camp'[c].cand = Plan
                THEN head'.state \notin {"planned", "authorized"}
                ELSE head'.state = "rolled_back"
  <2>1. job[w].pc = "complete" /\ head' = head
    BY <1>3 DEF Complete, MayComplete, registryVars
  <2>2. /\ WasApproved(c, job[w].x) /\ head # NoHead
        /\ job[w].x = Plan => head.state \notin {"planned", "authorized"}
        /\ job[w].x # Plan => head.state = "rolled_back"
    BY <1>3, <2>1 DEF JobInv, JobInvAt, Moves
  <2>3. Approvers(c) # {} /\ Exists(c) /\ camp[c].cand = job[w].x
    BY <2>2, FS_EmptySet DEF WasApproved
  <2>4. camp'[c].cand = camp[c].cand
    BY <1>3, <2>3, ApprovalsStay DEF TypeOK
  <2> QED BY <2>1, <2>2, <2>3, <2>4
<1>4. ASSUME NEW d \in CampaignId, Transaction(d, 0), d # c
      PROVE  camp'[c] = camp[c]
  BY <1>4, OthersUntouched DEF TypeOK
<1> QED BY <1>2, <1>3, <1>4, StepOnCampaigns DEF Plain, campaignVars

LEMMA ReleaseInvariant == Spec => []ReleaseInv
<1>1. Init => ReleaseInv
  BY DEF Init, CampaignsInit, RegistryInit, ReleaseInv, ApprovalInv, ApprovalInvAt, JobInv,
         JobInvAt, MovesWereApproved, StagesWereEarned, CompletedInv, Exists, NoRow,
         WithCandidate, Idle, Moves, OperatorPcs
<1>2. TypeInv /\ ReleaseInv /\ [Next]_vars => ReleaseInv'
  <2> SUFFICES ASSUME TypeOK, HeadFirst, ReleaseInv, [Next]_vars
               PROVE  ReleaseInv'
    BY DEF TypeInv
  <2>1. AllAssumptions
    BY CampaignsAssumption, ReleaseAssumption, GateAssumption, HeadAssumption,
       LifecycleAssumption DEF AllAssumptions
  <2> QED BY <2>1, ApprovalStep, JobStep, HeadStep, CompletedStep DEF ReleaseInv
<1> QED BY <1>1, <1>2, TypeInvariant, PTL DEF Spec

(* docs/22: nothing moves before two independent reviewers have approved    *)
(* exactly this plan, or this rollback; a call checks the approvals in one  *)
(* database and moves the head in another, later.                           *)
THEOREM ReleasesAreApproved == Spec => []MovesWereApproved
<1>1. ReleaseInv => MovesWereApproved
  BY DEF ReleaseInv
<1> QED BY <1>1, ReleaseInvariant, PTL

(* Every stage the candidate has left was left on a decision of that stage. *)
THEOREM StagesFollowDecisions == Spec => []StagesWereEarned
<1>1. ReleaseInv => StagesWereEarned
  BY DEF ReleaseInv
<1> QED BY <1>1, ReleaseInvariant, PTL

(* A completed campaign has moved the head, wherever calls stopped.         *)
THEOREM CompletionIsMoved == Spec => []DatabasesAgree
<1>1. TypeInv /\ ReleaseInv => DatabasesAgree
  BY DEF TypeInv, ReleaseInv, CompletedInv, DatabasesAgree, CompletedMeansMoved
<1> QED BY <1>1, TypeInvariant, ReleaseInvariant, PTL
-----------------------------------------------------------------------------
(* The head goes forward *)

LEMMA WrittenHead ==
  ASSUME RegistryTypeOK, head # NoHead, NEW new \in ReleaseHead, NEW rev, MoveHead(new, rev)
  PROVE  /\ head'.state = new.state /\ head'.stage = new.stage /\ head'.alloc = new.alloc
         /\ head'.rev = head.rev + 1 /\ head' = [new EXCEPT !.rev = head.rev + 1]
<1>1. head.rev + 1 \in Nat
  BY DEF RegistryTypeOK, ReleaseHead
<1> QED BY <1>1 DEF MoveHead, ReleaseHead

LEMMA OperationGoesForward ==
  ASSUME RegistryTypeOK, AllAssumptions, head # NoHead, Operation
  PROVE  HeadGoesForward
<1>1. head \in ReleaseHead /\ HeadIsValid(head)
  BY DEF RegistryTypeOK
<1>2. NoStage \notin Stage /\ 0 \in Stage
  BY DEF AllAssumptions, ReleaseAssumption, Stage
<1>3. PICK rev \in Nat :
        \/ StartShadow(rev)
        \/ \E c \in CampaignId :
             BindRelease(c, rev) \/ MarkAuthorized(c, rev) \/ BindRollback(c, rev)
        \/ \E d \in Decision :
             Advance(d, rev) \/ RecordHold(d, rev) \/ RecommendRollback(d, rev) \/ MarkReady(d, rev)
        \/ \E d \in Decision, c \in CampaignId : Rollback(d, c, rev)
  BY DEF Operation
(* Most operations keep stage and traffic.                                  *)
<1>4. ASSUME NEW new \in ReleaseHead, MoveHead(new, rev), new.stage = head.stage,
             new.alloc = head.alloc,
             head.state \notin {"ready", "rolled_back", "rollback_recommended"}
      PROVE  HeadGoesForward
  BY <1>4, WrittenHead DEF HeadGoesForward
<1>5. ASSUME NEW s \in HeadStates, MoveHead([head EXCEPT !.state = s], rev),
             head.state \notin {"ready", "rolled_back", "rollback_recommended"}
      PROVE  HeadGoesForward
  <2>1. PICK new : new = [head EXCEPT !.state = s]
    OBVIOUS
  <2>2. new \in ReleaseHead /\ new.stage = head.stage /\ new.alloc = head.alloc
    BY <1>1, <2>1 DEF ReleaseHead
  <2> QED BY <1>4, <1>5, <2>1, <2>2
<1>6. ASSUME NEW c \in CampaignId, BindRelease(c, rev)
      PROVE  HeadGoesForward
  <2>1. PICK new : new = [head EXCEPT !.rel = c]
    OBVIOUS
  <2>2. new \in ReleaseHead /\ new.stage = head.stage /\ new.alloc = head.alloc
    BY <1>1, <2>1 DEF ReleaseHead
  <2> QED BY <1>4, <1>6, <2>1, <2>2 DEF BindRelease
<1>7. ASSUME NEW c \in CampaignId, MarkAuthorized(c, rev)
      PROVE  HeadGoesForward
  BY <1>5, <1>7 DEF MarkAuthorized, HeadStates
<1>8. ASSUME NEW c \in CampaignId, BindRollback(c, rev)
      PROVE  HeadGoesForward
  <2>1. PICK new : new = [head EXCEPT !.rb = c]
    OBVIOUS
  <2>2. new \in ReleaseHead /\ new.stage = head.stage /\ new.alloc = head.alloc
    BY <1>1, <2>1 DEF ReleaseHead
  <2>3. MoveHead(new, rev) /\ head.state = "rollback_recommended"
    BY <1>8, <2>1 DEF BindRollback
  <2>4. /\ head'.stage = head.stage /\ head'.alloc = head.alloc
        /\ head'.rev = head.rev + 1 /\ head' = [new EXCEPT !.rev = head.rev + 1]
    BY <2>2, <2>3, WrittenHead
  <2>5. head' = [head EXCEPT !.rb = c, !.rev = head.rev + 1]
    BY <2>1, <2>4
  <2>6. head'.rb = c
    BY <1>1, <2>5 DEF ReleaseHead
  <2> QED BY <2>3, <2>4, <2>5, <2>6 DEF HeadGoesForward
<1>9. ASSUME StartShadow(rev)
      PROVE  HeadGoesForward
  <2>1. PICK new : new = [head EXCEPT !.state = "shadow", !.stage = 0, !.alloc = 0]
    OBVIOUS
  <2>2. new \in ReleaseHead /\ new.stage = 0 /\ new.alloc = 0
    <3>1. "shadow" \in HeadStates /\ 0 \in Stage \cup {NoStage} /\ 0 \in 0 .. 99
      BY <1>2 DEF HeadStates
    <3> QED BY <1>1, <2>1, <3>1 DEF ReleaseHead
  <2>3. head.state = "authorized" /\ head.stage = NoStage /\ MoveHead(new, rev)
    BY <1>1, <1>9, <2>1 DEF StartShadow, HeadIsValid
  <2> QED BY <2>2, <2>3, WrittenHead DEF HeadGoesForward
<1>10. ASSUME NEW d \in Decision, Advance(d, rev)
       PROVE  HeadGoesForward
  <2>1. stageOf[d] + 1 \in Stage /\ head.stage = stageOf[d] /\ head.stage \in Stage
    BY <1>10 DEF Advance, AllAssumptions, ReleaseAssumption, GateAssumption, Stage
  <2>2. traffic[stageOf[d] + 1] \in 0 .. 99
    BY <2>1 DEF AllAssumptions, ReleaseAssumption
  <2>3. PICK new : new = AdvanceTo(stageOf[d] + 1)
    OBVIOUS
  <2>4. /\ new \in ReleaseHead /\ new.stage = head.stage + 1
        /\ new.alloc = traffic[head.stage + 1]
    BY <1>1, <2>1, <2>2, <2>3 DEF ReleaseHead, HeadStates, AdvanceTo
  <2>5. head.state \in Running /\ MoveHead(new, rev)
    BY <1>10, <2>3 DEF Advance
  <2>6. /\ head'.stage = head.stage + 1 /\ head'.alloc = traffic[head.stage + 1]
        /\ head'.rev = head.rev + 1
    BY <2>4, <2>5, WrittenHead
  <2> QED BY <1>2, <2>1, <2>5, <2>6 DEF HeadGoesForward, Running
<1>11. ASSUME NEW d \in Decision,
              RecordHold(d, rev) \/ RecommendRollback(d, rev) \/ MarkReady(d, rev)
       PROVE  HeadGoesForward
  BY <1>5, <1>11 DEF RecordHold, RecommendRollback, MarkReady, Running, HeadStates
<1>12. ASSUME NEW d \in Decision, NEW c \in CampaignId, Rollback(d, c, rev)
       PROVE  HeadGoesForward
  <2>1. PICK new : new = [head EXCEPT !.state = "rolled_back", !.stage = NoStage, !.alloc = 0]
    OBVIOUS
  <2>2. new \in ReleaseHead /\ new.state = "rolled_back" /\ new.alloc = 0
    <3>1. "rolled_back" \in HeadStates /\ 0 \in 0 .. 99
      BY DEF HeadStates
    <3> QED BY <1>1, <2>1, <3>1 DEF ReleaseHead
  <2>3. head.state = "rollback_recommended" /\ MoveHead(new, rev)
    BY <1>12, <2>1 DEF Rollback
  <2> QED BY <2>2, <2>3, WrittenHead DEF HeadGoesForward
<1> QED BY <1>3, <1>6, <1>7, <1>8, <1>9, <1>10, <1>11, <1>12

(* docs/22: stages are entered one at a time with their traffic, and a      *)
(* recommended rollback, READY and ROLLED_BACK are not left again, whatever *)
(* an operator or a repeated call that read the head earlier asks for.      *)
THEOREM ReleaseGoesForward == Spec => NoWayBack
<1>1. TypeInv /\ [Next]_vars => [HeadGoesForward]_vars
  <2> SUFFICES ASSUME TypeOK, HeadFirst, [Next]_vars
               PROVE  HeadGoesForward
    BY DEF TypeInv
  <2>1. AllAssumptions
    BY CampaignsAssumption, ReleaseAssumption, GateAssumption, HeadAssumption,
       LifecycleAssumption DEF AllAssumptions
  <2>2. UNCHANGED registryVars => HeadGoesForward
    BY DEF registryVars, HeadGoesForward
  <2>3. RegisterPlan => HeadGoesForward
    BY DEF RegisterPlan, HeadGoesForward
  <2>4. \A d \in Decision : StoreDecision(d) => HeadGoesForward
    BY DEF StoreDecision, HeadGoesForward
  <2> QED BY <2>1, <2>2, <2>3, <2>4, StepOnHead, OperationGoesForward DEF TypeOK
<1> QED BY <1>1, TypeInvariant, PTL DEF Spec, NoWayBack

-----------------------------------------------------------------------------
(***************************************************************************)
(* The rule of the stage gate (ReleaseGate), for batches of any length     *)
(* over any observations and for any policy.                               *)
(***************************************************************************)
CONSTANTS Segment, Protected, IncObservation, ChObservation, Metric, Latency, Missing, MaxPairs,
          MinPairs, MinSegmentPairs, Required, MaxUnsafe, MaxRegressed, MaxRegressedPct,
          MinDeltaPct, MinLowerPct, MaxErrorPct, MaxGrowthPct
VARIABLES pc, stage, batch, lowerOk, status, verdict

Gate == INSTANCE ReleaseGate WITH action <- verdict

(* The finite sets of the gate are those of this module.                   *)
LEMMA SameSets ==
  ASSUME NEW S
  PROVE  Gate!Cardinality(S) = Cardinality(S) /\ (Gate!IsFiniteSet(S) <=> IsFiniteSet(S))
BY DEF Gate!Cardinality, Gate!IsFiniteSet, Cardinality, IsFiniteSet

(* The tokens and the cost of a snapshot are sums over its observations.   *)
LEMMA TotalIsNatural ==
  ASSUME NEW D, IsFiniteSet(D), NEW u \in [D -> Nat]
  PROVE  Gate!Total(u) \in Nat
<1>1. Gate!Total(u) = Cardinality(SumUnits(D, u))
  BY SameSets DEF Gate!Total, Gate!Units, SumUnits
<1> QED BY <1>1, SumIsNatural

(* Who uses no more in any observation uses no more in all.                *)
LEMMA TotalIsMonotone ==
  ASSUME NEW D, IsFiniteSet(D), NEW u \in [D -> Nat], NEW v \in [D -> Nat],
         \A i \in D : u[i] <= v[i]
  PROVE  Gate!Total(u) <= Gate!Total(v)
<1>1. /\ Gate!Total(u) = Cardinality(SumUnits(D, u))
      /\ Gate!Total(v) = Cardinality(SumUnits(D, v))
  BY SameSets DEF Gate!Total, Gate!Units, SumUnits
<1>2. \A i \in D : u[i] \in Nat /\ v[i] \in Nat /\ u[i] <= v[i]
  OBVIOUS
<1> QED BY <1>1, <1>2, SumIsMonotone

(* The values that at least 95 of 100 observations do not exceed; P95 is   *)
(* the least of them.                                                      *)
Quantile(u) ==
  {v \in {u[i] : i \in DOMAIN u} : 100 * Cardinality({i \in DOMAIN u : u[i] <= v}) >= 95 * Len(u)}

(* There is one, because the greatest value is such a value.               *)
LEMMA QuantileExists ==
  ASSUME NEW n \in Nat, n > 0, NEW u \in [1 .. n -> Nat]
  PROVE  Gate!P95(u) \in Quantile(u) /\ \A v \in Quantile(u) : Gate!P95(u) <= v
<1>1. IsFiniteSet(1 .. n) /\ Cardinality(1 .. n) = n /\ 1 \in 1 .. n
  BY FS_Interval
<1>2. PICK j \in 1 .. n : \A i \in 1 .. n : u[i] <= u[j]
  BY <1>1, GreatestValue
<1> DEFINE Below == {i \in 1 .. n : u[i] <= u[j]}
<1>3. Below = 1 .. n
  BY <1>2
<1>4. Len(u) = n
  OBVIOUS
<1>5. u[j] \in Quantile(u)
  <2>1. 100 * Cardinality(Below) >= 95 * Len(u)
    <3> HIDE DEF Below
    <3> QED BY <1>1, <1>3, <1>4
  <2> QED BY <2>1 DEF Quantile
<1>6. Quantile(u) \in SUBSET Nat
  BY DEF Quantile
<1>7. \E v \in Quantile(u) : \A w \in Quantile(u) : v <= w
  BY <1>5, <1>6, LeastNatural
<1>8. Gate!P95(u) = Gate!Min(Quantile(u))
  <2> DEFINE q == {v \in {u[i] : i \in DOMAIN u} :
                     100 * Gate!Cardinality({i \in DOMAIN u : u[i] <= v}) >= 95 * Len(u)}
  <2>1. q = Quantile(u)
    BY SameSets DEF Quantile
  <2>2. Gate!P95(u) = Gate!Min(q)
    BY DEF Gate!P95
  <2> QED BY <2>1, <2>2
<1>9. Gate!Min(Quantile(u)) = CHOOSE v \in Quantile(u) : \A w \in Quantile(u) : v <= w
  BY DEF Gate!Min
<1> QED BY <1>7, <1>8, <1>9

(* Observations that take no longer have a 95th percentile that is no      *)
(* longer: the least value that enough of the slower ones keep to is not   *)
(* below the greatest of the faster ones that are within it.               *)
LEMMA QuantileIsMonotone ==
  ASSUME NEW n \in Nat, n > 0, NEW u \in [1 .. n -> Nat], NEW v \in [1 .. n -> Nat],
         \A i \in 1 .. n : u[i] <= v[i]
  PROVE  Gate!P95(u) \in Nat /\ Gate!P95(v) \in Nat /\ Gate!P95(u) <= Gate!P95(v)
<1> DEFINE x == Gate!P95(v)
           D == {i \in 1 .. n : u[i] <= x}
           E == {i \in 1 .. n : v[i] <= x}
<1>1. Gate!P95(u) \in Nat /\ x \in Nat /\ x \in Quantile(v)
  <2>1. Gate!P95(u) \in Quantile(u) /\ x \in Quantile(v)
    BY QuantileExists
  <2>2. Quantile(u) \subseteq Nat /\ Quantile(v) \subseteq Nat
    BY DEF Quantile
  <2> QED BY <2>1, <2>2
<1> HIDE DEF x
<1>2. IsFiniteSet(1 .. n) /\ Len(u) = n /\ Len(v) = n
  BY FS_Interval
<1>3. E \subseteq D /\ D \subseteq 1 .. n
  BY <1>1
<1>4. IsFiniteSet(D) /\ IsFiniteSet(E) /\ Cardinality(E) <= Cardinality(D)
  BY <1>2, <1>3, FS_Subset
<1>5. Cardinality(D) \in Nat /\ Cardinality(E) \in Nat
  BY <1>4, FS_CardinalityType
<1>6. 100 * Cardinality(E) >= 95 * n /\ E # {}
  <2>1. x \in {v[i] : i \in 1 .. n}
    BY <1>1 DEF Quantile
  <2>2. 100 * Cardinality({i \in 1 .. n : v[i] <= x}) >= 95 * Len(v)
    BY <1>1 DEF Quantile
  <2>3. \E i \in 1 .. n : v[i] <= x
    BY <1>1, <2>1
  <2> QED BY <1>2, <2>2, <2>3
<1>7. PICK j \in D : \A i \in D : u[i] <= u[j]
  BY <1>3, <1>4, <1>6, GreatestValue
<1> DEFINE Below == {i \in 1 .. n : u[i] <= u[j]}
<1>8. Below = D
  BY <1>1, <1>7
<1>9. u[j] \in Quantile(u)
  <2>1. 100 * Cardinality(Below) >= 95 * Len(u)
    <3> HIDE DEF Below, D, E
    <3> QED BY <1>2, <1>4, <1>5, <1>6, <1>8
  <2> QED BY <1>3, <2>1 DEF Quantile
<1>10. Gate!P95(u) <= u[j]
  BY <1>9, QuantileExists
<1> QED BY <1>1, <1>7, <1>10 DEF x

-----------------------------------------------------------------------------
(* One batch against another *)

(* The same pairs, in each of which the challenger did as well or better.  *)
NoWorse(b, than) ==
  /\ Len(b) = Len(than) /\ {b, than} \subseteq Seq(Gate!Pair)
  /\ \A i \in DOMAIN than :
       /\ b[i].seg = than[i].seg /\ b[i].inc = than[i].inc
       /\ Gate!Better(b[i].ch, than[i].ch)

(* A batch is numbered from 1.                                             *)
LEMMA Domains ==
  ASSUME NEW b \in Seq(Gate!Pair)
  PROVE  /\ DOMAIN b = 1 .. Len(b) /\ Len(b) \in Nat /\ IsFiniteSet(DOMAIN b)
         /\ \A i \in DOMAIN b : b[i] \in Gate!Pair
BY FS_Interval

(* It has succeeded in no fewer of any set of pairs.                       *)
LEMMA DeltaIsMonotone ==
  ASSUME NEW b, NEW c, NoWorse(c, b), NEW I \in SUBSET DOMAIN b
  PROVE  Gate!Delta(b, I) \in Int /\ Gate!Delta(c, I) \in Int
         /\ Gate!Delta(b, I) <= Gate!Delta(c, I)
<1> DEFINE ch(x) == {i \in I : x[i].ch.success}
           inc(x) == {i \in I : x[i].inc.success}
<1>1. DOMAIN c = DOMAIN b /\ IsFiniteSet(DOMAIN b)
  BY Domains DEF NoWorse
<1>2. IsFiniteSet(I)
  BY <1>1, FS_Subset
<1>3. ch(b) \subseteq ch(c) /\ inc(b) = inc(c)
  BY DEF NoWorse, Gate!Better
<1>4. ch(c) \subseteq I /\ inc(b) \subseteq I
  OBVIOUS
<1>5. Gate!Delta(b, I) = Cardinality(ch(b)) - Cardinality(inc(b))
      /\ Gate!Delta(c, I) = Cardinality(ch(c)) - Cardinality(inc(c))
  BY SameSets DEF Gate!Delta
<1> HIDE DEF ch, inc
<1>6. Cardinality(ch(b)) \in Nat /\ Cardinality(ch(c)) \in Nat
      /\ Cardinality(ch(b)) <= Cardinality(ch(c))
  BY <1>2, <1>3, <1>4, Counts
<1>7. Cardinality(inc(b)) \in Nat
  BY <1>2, <1>4, Counts
<1> QED BY <1>3, <1>5, <1>6, <1>7

(* The pairs of a segment, and what was measured, are the same.            *)
LEMMA SegmentsStay ==
  ASSUME NEW b, NEW c, NoWorse(c, b)
  PROVE  /\ \A s \in Segment : Gate!In(c, s) = Gate!In(b, s)
         /\ Gate!Measured(c) = Gate!Measured(b)
         /\ \A m \in Metric : Gate!Complete(c, m) <=> Gate!Complete(b, m)
<1>1. DOMAIN c = DOMAIN b /\ \A i \in DOMAIN b : b[i] \in Gate!Pair /\ c[i] \in Gate!Pair
  BY Domains DEF NoWorse
<1>2. \A i \in DOMAIN b, m \in Metric : c[i].ch.use[m] = Missing <=> b[i].ch.use[m] = Missing
  BY DEF NoWorse, Gate!Better
<1> QED BY <1>1, <1>2 DEF NoWorse, Gate!In, Gate!Measured, Gate!Complete

(* No further segment regresses, so that no more of them do.               *)
LEMMA RegressedIsMonotone ==
  ASSUME Gate!GateAssumption, NEW b, NEW c, NoWorse(c, b)
  PROVE  /\ Gate!Regressed(c) \subseteq Gate!Regressed(b) /\ IsFiniteSet(Gate!Regressed(b))
         /\ Cardinality(Gate!Regressed(c)) \in Nat /\ Cardinality(Gate!Regressed(b)) \in Nat
         /\ Cardinality(Gate!Regressed(c)) <= Cardinality(Gate!Regressed(b))
<1>1. Gate!Measured(b) \subseteq Segment
  BY Domains DEF NoWorse, Gate!Measured, Gate!Pair
<1>2. \A s \in Gate!Measured(b) :
        /\ Gate!Delta(b, Gate!In(b, s)) \in Int /\ Gate!Delta(c, Gate!In(c, s)) \in Int
        /\ Gate!Delta(b, Gate!In(b, s)) <= Gate!Delta(c, Gate!In(c, s))
  <2> SUFFICES ASSUME NEW s \in Gate!Measured(b)
               PROVE  Gate!Delta(b, Gate!In(b, s)) \in Int /\ Gate!Delta(c, Gate!In(c, s)) \in Int
                      /\ Gate!Delta(b, Gate!In(b, s)) <= Gate!Delta(c, Gate!In(c, s))
    OBVIOUS
  <2>1. Gate!In(c, s) = Gate!In(b, s)
    BY <1>1, SegmentsStay
  <2>2. Gate!In(b, s) \in SUBSET DOMAIN b
    BY DEF Gate!In
  <2> QED BY <2>1, <2>2, DeltaIsMonotone
<1>3. Gate!Measured(c) = Gate!Measured(b)
  BY SegmentsStay
<1>4. Gate!Regressed(c) \subseteq Gate!Regressed(b) /\ Gate!Regressed(b) \subseteq Segment
  BY <1>1, <1>2, <1>3 DEF Gate!Regressed
<1>5. IsFiniteSet(Segment)
  BY SameSets DEF Gate!GateAssumption
<1> QED BY <1>4, <1>5, Counts, FS_Subset

(* Nor are there more errors or unsafe runs.                               *)
LEMMA CountsOfBatch ==
  ASSUME NEW b, NEW c, NoWorse(c, b)
  PROVE  /\ Gate!Unsafe(b) \in Nat /\ Gate!Unsafe(c) \in Nat /\ Gate!Unsafe(c) <= Gate!Unsafe(b)
         /\ Gate!Errors(b) \in Int /\ Gate!Errors(c) \in Int /\ Gate!Errors(c) <= Gate!Errors(b)
<1> DEFINE unsafe(x) == {i \in DOMAIN x : x[i].ch.unsafe}
           ch(x) == {i \in DOMAIN x : x[i].ch.error}
           inc(x) == {i \in DOMAIN x : x[i].inc.error}
<1>1. DOMAIN c = DOMAIN b /\ IsFiniteSet(DOMAIN b)
  BY Domains DEF NoWorse
<1>2. unsafe(c) \subseteq unsafe(b) /\ ch(c) \subseteq ch(b) /\ inc(c) = inc(b)
  BY <1>1 DEF NoWorse, Gate!Better
<1>3. unsafe(b) \subseteq DOMAIN b /\ ch(b) \subseteq DOMAIN b /\ inc(b) \subseteq DOMAIN b
  OBVIOUS
<1>4. /\ Gate!Unsafe(b) = Cardinality(unsafe(b)) /\ Gate!Unsafe(c) = Cardinality(unsafe(c))
      /\ Gate!Errors(b) = Cardinality(ch(b)) - Cardinality(inc(b))
      /\ Gate!Errors(c) = Cardinality(ch(c)) - Cardinality(inc(c))
  BY SameSets DEF Gate!Unsafe, Gate!Errors, Gate!Count
<1> HIDE DEF unsafe, ch, inc
<1>5. Cardinality(unsafe(b)) \in Nat /\ Cardinality(unsafe(c)) \in Nat
      /\ Cardinality(unsafe(c)) <= Cardinality(unsafe(b))
  BY <1>1, <1>2, <1>3, Counts
<1>6. Cardinality(ch(b)) \in Nat /\ Cardinality(ch(c)) \in Nat
      /\ Cardinality(ch(c)) <= Cardinality(ch(b))
  BY <1>1, <1>2, <1>3, Counts
<1>7. Cardinality(inc(b)) \in Nat
  BY <1>1, <1>3, Counts
<1> QED BY <1>2, <1>4, <1>5, <1>6, <1>7

(* A usage that is complete is a sequence of numbers.                      *)
LEMMA UseOf ==
  ASSUME Gate!GateAssumption, NEW b \in Seq(Gate!Pair), NEW m \in Metric, Gate!Complete(b, m)
  PROVE  Gate!Incumbent(b, m) \in [1 .. Len(b) -> Nat]
         /\ Gate!Challenger(b, m) \in [1 .. Len(b) -> Nat]
<1>1. DOMAIN b = 1 .. Len(b) /\ \A i \in DOMAIN b : b[i] \in Gate!Pair
  BY Domains
<1>2. \A o \in IncObservation \cup ChObservation : o.use[m] \in Nat \cup {Missing}
  BY SameSets DEF Gate!GateAssumption
<1>3. \A i \in DOMAIN b : b[i].inc.use[m] \in Nat /\ b[i].ch.use[m] \in Nat
  BY <1>1, <1>2 DEF Gate!Pair, Gate!Complete
<1> QED BY <1>1, <1>3 DEF Gate!Incumbent, Gate!Challenger

(* A usage that grows too much had done so before.                         *)
LEMMA GrowthIsMonotone ==
  ASSUME Gate!GateAssumption, NEW b, NEW c, NoWorse(c, b), Len(b) > 0,
         NEW m \in Metric, Gate!GrowsTooMuch(c, m)
  PROVE  Gate!GrowsTooMuch(b, m)
<1> DEFINE n == Len(b)
           u == Gate!Challenger(b, m)
           v == Gate!Challenger(c, m)
           w == Gate!Incumbent(b, m)
<1>1. Gate!Complete(c, m) /\ Gate!Complete(b, m)
  BY SegmentsStay DEF Gate!GrowsTooMuch
<1>2. b \in Seq(Gate!Pair) /\ c \in Seq(Gate!Pair) /\ Len(c) = n /\ n \in Nat
      /\ DOMAIN b = 1 .. n /\ DOMAIN c = 1 .. n
  BY Domains DEF NoWorse
<1>3. u \in [1 .. n -> Nat] /\ v \in [1 .. n -> Nat] /\ w \in [1 .. n -> Nat]
  BY <1>1, <1>2, UseOf
<1>4. Gate!Incumbent(c, m) = w
  BY <1>2 DEF Gate!Incumbent, NoWorse
<1>5. \A i \in 1 .. n : v[i] <= u[i]
  BY <1>1, <1>2 DEF Gate!Challenger, NoWorse, Gate!Better, Gate!Complete
<1>6. 100 * Gate!Usage(m, v) > (100 + MaxGrowthPct) * Gate!Usage(m, w)
  BY <1>4 DEF Gate!GrowsTooMuch
<1> HIDE DEF u, v, w, n
<1>7. IsFiniteSet(1 .. n)
  BY <1>2, FS_Interval
<1>8. Gate!Usage(m, v) \in Nat /\ Gate!Usage(m, u) \in Nat /\ Gate!Usage(m, w) \in Nat
      /\ Gate!Usage(m, v) <= Gate!Usage(m, u)
  <2>1. CASE m = Latency
    <3>1. n > 0
      BY DEF n
    <3>2. Gate!P95(v) \in Nat /\ Gate!P95(u) \in Nat /\ Gate!P95(v) <= Gate!P95(u)
      BY <1>2, <1>3, <1>5, <3>1, QuantileIsMonotone
    <3>3. Gate!P95(w) \in Nat
      <4>1. \A i \in 1 .. n : w[i] <= w[i]
        BY <1>3
      <4> QED BY <1>2, <1>3, <3>1, <4>1, QuantileIsMonotone
    <3> QED BY <2>1, <3>2, <3>3 DEF Gate!Usage
  <2>2. CASE m # Latency
    <3>1. Gate!Total(v) \in Nat /\ Gate!Total(u) \in Nat /\ Gate!Total(w) \in Nat
      <4> HIDE DEF Gate!Total
      <4>1. \A x \in [1 .. n -> Nat] : Gate!Total(x) \in Nat
        BY <1>7, TotalIsNatural
      <4> QED BY <1>3, <4>1
    <3>2. Gate!Total(v) <= Gate!Total(u)
      BY <1>3, <1>5, <1>7, TotalIsMonotone
    <3> QED BY <2>2, <3>1, <3>2 DEF Gate!Usage
  <2> QED BY <2>1, <2>2
<1>9. 100 * Gate!Usage(m, u) > (100 + MaxGrowthPct) * Gate!Usage(m, w)
  <2>1. (100 + MaxGrowthPct) * Gate!Usage(m, w) \in Int
    BY <1>8, SameSets DEF Gate!GateAssumption
  <2> DEFINE limit == (100 + MaxGrowthPct) * Gate!Usage(m, w)
  <2> HIDE DEF limit
  <2>2. limit \in Int /\ 100 * Gate!Usage(m, v) > limit
    BY <1>6, <2>1 DEF limit
  <2>3. 100 * Gate!Usage(m, u) > limit
    BY <1>8, <2>2
  <2> QED BY <2>3 DEF limit
<1> QED BY <1>1, <1>9 DEF Gate!GrowsTooMuch, u, w

(* Thus no reason is found that there was not, and what is insufficient    *)
(* stays so: the verdict is no more severe.                                *)
LEMMA VerdictIsMonotone ==
  ASSUME Gate!GateAssumption, NEW b, NEW c, NoWorse(c, b), Len(b) > 0, NEW st \in Gate!Stage,
         NEW ok \in BOOLEAN, NEW better \in BOOLEAN, ok => better
  PROVE  Gate!Severity(Gate!StatusOf(c, st, better)) <= Gate!Severity(Gate!StatusOf(b, st, ok))
<1>1. Len(c) = Len(b) /\ Len(b) \in Nat /\ DOMAIN b = 1 .. Len(b)
  BY Domains DEF NoWorse
<1>2. Gate!Insufficient(c) <=> Gate!Insufficient(b)
  <2>1. \A m \in Required : Gate!Complete(c, m) <=> Gate!Complete(b, m)
    BY SegmentsStay, SameSets DEF Gate!GateAssumption
  <2>2. \A s \in Segment : Gate!In(c, s) = Gate!In(b, s)
    BY SegmentsStay
  <2> QED BY <1>1, <2>1, <2>2, SameSets DEF Gate!Insufficient
<1>3. Gate!HardFailure(c) => Gate!HardFailure(b)
  <2> SUFFICES ASSUME Gate!HardFailure(c) PROVE Gate!HardFailure(b)
    OBVIOUS
  <2>1. CASE Gate!Unsafe(c) > MaxUnsafe
    BY <2>1, CountsOfBatch, SameSets DEF Gate!HardFailure, Gate!GateAssumption
  <2>2. CASE Gate!Regressed(c) \cap Protected # {}
    BY <2>2, RegressedIsMonotone, SameSets DEF Gate!HardFailure
  <2>3. CASE Cardinality(Gate!Regressed(c)) > MaxRegressed
    BY <2>3, RegressedIsMonotone, SameSets DEF Gate!HardFailure, Gate!GateAssumption
  <2>4. CASE 100 * Cardinality(Gate!Regressed(c)) > MaxRegressedPct * Cardinality(Segment)
    <3> DEFINE limit == MaxRegressedPct * Cardinality(Segment)
    <3>1. limit \in Int
      BY FS_CardinalityType, SameSets DEF Gate!GateAssumption
    <3>2. 100 * Cardinality(Gate!Regressed(c)) > limit
      BY <2>4
    <3> HIDE DEF limit
    <3>3. 100 * Cardinality(Gate!Regressed(b)) > limit
      BY <3>1, <3>2, RegressedIsMonotone
    <3> QED BY <3>3, SameSets DEF Gate!HardFailure, limit
  <2> QED BY <2>1, <2>2, <2>3, <2>4, SameSets DEF Gate!HardFailure
<1>4. Gate!ThresholdMissed(c, better) => Gate!ThresholdMissed(b, ok)
  <2> SUFFICES ASSUME Gate!ThresholdMissed(c, better) PROVE Gate!ThresholdMissed(b, ok)
    OBVIOUS
  <2>1. CASE 100 * Gate!Delta(c, DOMAIN c) < MinDeltaPct * Len(c)
    <3> DEFINE limit == MinDeltaPct * Len(b)
    <3>1. limit \in Int
      BY <1>1, SameSets DEF Gate!GateAssumption
    <3>2. DOMAIN c = DOMAIN b
      BY Domains DEF NoWorse
    <3>3. Gate!Delta(b, DOMAIN b) \in Int /\ Gate!Delta(c, DOMAIN b) \in Int
          /\ Gate!Delta(b, DOMAIN b) <= Gate!Delta(c, DOMAIN b)
      BY DeltaIsMonotone
    <3>4. 100 * Gate!Delta(c, DOMAIN b) < limit
      BY <1>1, <2>1, <3>2
    <3> HIDE DEF limit
    <3>5. 100 * Gate!Delta(b, DOMAIN b) < limit
      BY <3>1, <3>3, <3>4
    <3> QED BY <3>5 DEF Gate!ThresholdMissed, limit
  <2>2. CASE ~better
    BY <2>2 DEF Gate!ThresholdMissed
  <2>3. CASE 100 * Gate!Errors(c) > MaxErrorPct * Len(c)
    <3> DEFINE limit == MaxErrorPct * Len(b)
    <3>1. limit \in Int
      BY <1>1, SameSets DEF Gate!GateAssumption
    <3>2. 100 * Gate!Errors(c) > limit
      BY <1>1, <2>3
    <3> HIDE DEF limit
    <3>3. 100 * Gate!Errors(b) > limit
      BY <3>1, <3>2, CountsOfBatch
    <3> QED BY <3>3 DEF Gate!ThresholdMissed, limit
  <2>4. CASE \E m \in Metric : Gate!GrowsTooMuch(c, m)
    BY <2>4, GrowthIsMonotone DEF Gate!ThresholdMissed
  <2> QED BY <2>1, <2>2, <2>3, <2>4 DEF Gate!ThresholdMissed
<1> QED BY <1>2, <1>3, <1>4 DEF Gate!StatusOf, Gate!Severity

-----------------------------------------------------------------------------
(* What the gate has found is what its rule says of the batch.             *)
Judged ==
  /\ Gate!TypeOK
  /\ pc \in {"assess", "decide", "decided"} => batch # <<>>
  /\ pc \in {"decide", "decided"} => status = Gate!StatusOf(batch, stage, lowerOk)
  /\ pc = "decided" => (Gate!Favourable <=> status = "pass")
  /\ pc # "decided" => verdict = "none"

(* An import is not empty.                                                 *)
LEMMA Batches ==
  \A b \in Gate!Batch : MaxPairs \in Nat =>
    b \in Seq(Gate!Pair) /\ Len(b) <= MaxPairs /\ Len(b) > 0 /\ b # <<>>
<1> SUFFICES ASSUME MaxPairs \in Nat, NEW n \in 1 .. MaxPairs, NEW b \in [1 .. n -> Gate!Pair]
             PROVE  b \in Seq(Gate!Pair) /\ Len(b) <= MaxPairs /\ Len(b) > 0 /\ b # <<>>
  BY DEF Gate!Batch
<1>1. b \in Seq(Gate!Pair) /\ Len(b) = n
  OBVIOUS
<1> QED BY <1>1

(* ReleaseStageGate.evaluate_stage: the status and the action are those of *)
(* the batch that it imported.                                             *)
LEMMA GateInvariant ==
  ASSUME Gate!GateAssumption
  PROVE  Gate!Spec => []Judged
<1>1. Gate!Init => Judged
  <2>1. <<>> \in Seq(Gate!Pair) /\ Len(<<>>) = 0 /\ 0 <= MaxPairs
    BY SameSets DEF Gate!GateAssumption
  <2> QED BY <2>1 DEF Gate!Init, Judged, Gate!TypeOK, Gate!Stage
<1>2. Judged /\ [Gate!Next]_(Gate!vars) => Judged'
  <2> SUFFICES ASSUME Judged, [Gate!Next]_(Gate!vars) PROVE Judged'
    OBVIOUS
  <2>1. CASE Gate!Import
    BY <2>1, Batches, SameSets
       DEF Gate!Import, Judged, Gate!TypeOK, Gate!Favourable, Gate!LowerBoundOutcomes,
           Gate!GateAssumption
  <2>2. CASE Gate!Assess
    <3>1. Gate!StatusOf(batch, stage, lowerOk) \in {"hold", "rollback", "pass"}
      BY DEF Gate!StatusOf
    <3> QED BY <2>2, <3>1 DEF Gate!Assess, Judged, Gate!TypeOK, Gate!Favourable
  <2>3. CASE Gate!Decide
    <3>1. status \in {"hold", "rollback", "pass"}
      BY <2>3 DEF Gate!Decide, Judged, Gate!StatusOf
    <3> QED BY <2>3, <3>1 DEF Gate!Decide, Judged, Gate!TypeOK, Gate!Favourable
  <2>4. CASE UNCHANGED Gate!vars
    BY <2>4 DEF Gate!vars, Judged, Gate!TypeOK, Gate!Favourable
  <2> QED BY <2>1, <2>2, <2>3, <2>4 DEF Gate!Next
<1> QED BY <1>1, <1>2, PTL DEF Gate!Spec

(* ReleaseStageGate.assess (src/evoagent/release/policy.py): a batch in    *)
(* which one observation of the challenger is better, and which is         *)
(* otherwise the same, is never decided on more severely; for any batch,   *)
(* any segments and any policy.                                            *)
THEOREM BetterIsNeverPunished ==
  ASSUME Gate!GateAssumption
  PROVE  Gate!Spec => []Gate!BetterIsNotPunished
<1>1. Judged => Gate!BetterIsNotPunished
  <2> SUFFICES ASSUME Judged, pc = "decided", NEW i \in DOMAIN batch, NEW o \in ChObservation,
                      NEW ok \in BOOLEAN, Gate!Better(o, batch[i].ch), lowerOk => ok
               PROVE  Gate!Severity(Gate!StatusOf([batch EXCEPT ![i].ch = o], stage, ok)) <=
                        Gate!Severity(status)
    BY DEF Gate!BetterIsNotPunished
  <2> DEFINE c == [batch EXCEPT ![i].ch = o]
  <2>1. batch \in Seq(Gate!Pair) /\ stage \in Gate!Stage /\ lowerOk \in BOOLEAN
        /\ status = Gate!StatusOf(batch, stage, lowerOk)
    BY DEF Judged, Gate!TypeOK
  <2>2. DOMAIN batch = 1 .. Len(batch) /\ \A j \in DOMAIN batch : batch[j] \in Gate!Pair
    BY <2>1, Domains
  <2>3. c \in Seq(Gate!Pair) /\ Len(c) = Len(batch) /\ DOMAIN c = DOMAIN batch
    <3>1. [batch[i] EXCEPT !.ch = o] \in Gate!Pair
      BY <2>2 DEF Gate!Pair
    <3> QED BY <2>1, <2>2, <3>1
  <2>4. \A j \in DOMAIN batch : c[j] = IF j = i THEN [batch[i] EXCEPT !.ch = o] ELSE batch[j]
    BY <2>2
  <2>5. ASSUME NEW j \in DOMAIN batch
        PROVE  c[j].seg = batch[j].seg /\ c[j].inc = batch[j].inc
               /\ Gate!Better(c[j].ch, batch[j].ch)
    <3>1. batch[j] \in Gate!Pair
      BY <2>2
    <3>2. CASE j = i
      BY <2>4, <3>1, <3>2 DEF Gate!Pair
    <3>3. CASE j # i
      <4>1. batch[j].ch.use \in [Metric -> Nat \cup {Missing}]
        BY <3>1, SameSets DEF Gate!Pair, Gate!GateAssumption
      <4>2. Gate!Better(batch[j].ch, batch[j].ch)
        BY <4>1 DEF Gate!Better
      <4> QED BY <2>4, <3>3, <4>2
    <3> QED BY <3>2, <3>3
  <2>6. NoWorse(c, batch)
    BY <2>1, <2>3, <2>5 DEF NoWorse
  <2> HIDE DEF c
  <2>7. Len(batch) > 0
    BY <2>1 DEF Judged
  <2>8. Gate!Severity(Gate!StatusOf(c, stage, ok)) <=
          Gate!Severity(Gate!StatusOf(batch, stage, lowerOk))
    BY <2>1, <2>6, <2>7, VerdictIsMonotone
  <2> QED BY <2>1, <2>8 DEF c
<1> QED BY <1>1, GateInvariant, PTL

(* docs/22, Decision policy: whoever goes on to the next stage has kept    *)
(* within the limit of unsafe runs, has regressed in no protected segment, *)
(* has evidence from every segment of the plan and of every usage that is  *)
(* required, and has not grown from nothing in any of those.               *)
THEOREM FailuresAreNeverOverridden ==
  ASSUME Gate!GateAssumption
  PROVE  Gate!Spec => [](Gate!TypeOK /\ Gate!FailuresAreNotOverridden /\ Gate!EverySegmentIsHeard)
<1>1. Judged => Gate!FailuresAreNotOverridden /\ Gate!EverySegmentIsHeard
  <2> SUFFICES ASSUME Judged, Gate!Favourable
               PROVE  Gate!FailuresAreNotOverridden /\ Gate!EverySegmentIsHeard
    BY DEF Gate!FailuresAreNotOverridden, Gate!EverySegmentIsHeard
  <2>1. pc = "decided"
    BY DEF Judged, Gate!Favourable
  <2>2. /\ batch \in Seq(Gate!Pair) /\ DOMAIN batch = 1 .. Len(batch) /\ IsFiniteSet(DOMAIN batch)
        /\ \A i \in DOMAIN batch : batch[i] \in Gate!Pair
        /\ ~Gate!Insufficient(batch) /\ ~Gate!HardFailure(batch)
           /\ ~Gate!ThresholdMissed(batch, lowerOk)
    BY <2>1, Domains DEF Judged, Gate!TypeOK, Gate!StatusOf
  <2>3. NoWorse(batch, batch)
    <3> SUFFICES ASSUME NEW i \in DOMAIN batch PROVE Gate!Better(batch[i].ch, batch[i].ch)
      BY <2>2 DEF NoWorse
    <3>1. batch[i].ch.use \in [Metric -> Nat \cup {Missing}]
      BY <2>2, SameSets DEF Gate!Pair, Gate!GateAssumption
    <3> QED BY <3>1 DEF Gate!Better
  <2>4. \A s \in Segment : Gate!In(batch, s) # {}
    <3> SUFFICES ASSUME NEW s \in Segment, Gate!In(batch, s) = {} PROVE FALSE
      OBVIOUS
    <3>1. Cardinality(Gate!In(batch, s)) = 0
      BY FS_EmptySet
    <3>2. MinSegmentPairs \in Nat /\ MinSegmentPairs > 0
      BY SameSets DEF Gate!GateAssumption
    <3> QED BY <2>2, <3>1, <3>2, SameSets DEF Gate!Insufficient
  <2>5. Gate!Measured(batch) = Segment
    BY <2>2, <2>4 DEF Gate!Measured, Gate!In, Gate!Pair
  <2>6. Gate!Unsafe(batch) <= MaxUnsafe
    BY <2>2, <2>3, CountsOfBatch, SameSets DEF Gate!HardFailure, Gate!GateAssumption
  <2>7. ASSUME NEW s \in Protected PROVE Gate!Delta(batch, Gate!In(batch, s)) >= 0
    <3>1. s \in Gate!Measured(batch) /\ s \notin Gate!Regressed(batch)
      BY <2>2, <2>5, SameSets DEF Gate!HardFailure, Gate!GateAssumption
    <3>2. Gate!Delta(batch, Gate!In(batch, s)) \in Int
      BY <2>3, DeltaIsMonotone DEF Gate!In
    <3> QED BY <3>1, <3>2 DEF Gate!Regressed
  <2>8. \A m \in Required : m \in Metric /\ m # Latency /\ Gate!Complete(batch, m)
    BY <2>2, SameSets DEF Gate!Insufficient, Gate!GateAssumption
  <2>9. ASSUME NEW m \in Required, Gate!Total(Gate!Challenger(batch, m)) > 0
        PROVE  Gate!Total(Gate!Incumbent(batch, m)) > 0
    <3>1. Gate!Total(Gate!Challenger(batch, m)) \in Nat
          /\ Gate!Total(Gate!Incumbent(batch, m)) \in Nat
      BY <2>2, <2>8, UseOf, TotalIsNatural
    <3>2. ~Gate!GrowsTooMuch(batch, m)
      BY <2>2, <2>8 DEF Gate!ThresholdMissed
    <3>3. 100 * Gate!Total(Gate!Challenger(batch, m)) <=
            (100 + MaxGrowthPct) * Gate!Total(Gate!Incumbent(batch, m))
      <4>1. ~(100 * Gate!Total(Gate!Challenger(batch, m))
              > (100 + MaxGrowthPct) * Gate!Total(Gate!Incumbent(batch, m)))
        BY <2>8, <3>2 DEF Gate!GrowsTooMuch, Gate!Usage
      <4>2. (100 + MaxGrowthPct) * Gate!Total(Gate!Incumbent(batch, m)) \in Int
        BY <3>1, SameSets DEF Gate!GateAssumption
      <4> QED BY <3>1, <4>1, <4>2
    <3>4. ASSUME Gate!Total(Gate!Incumbent(batch, m)) = 0 PROVE FALSE
      <4>1. (100 + MaxGrowthPct) * Gate!Total(Gate!Incumbent(batch, m)) = 0
        BY <3>4, SameSets DEF Gate!GateAssumption
      <4> QED BY <2>9, <3>1, <3>3, <4>1
    <3> QED BY <3>1, <3>4
  <2> QED BY <2>5, <2>6, <2>7, <2>8, <2>9
       DEF Gate!FailuresAreNotOverridden, Gate!EverySegmentIsHeard, Gate!Complete
<1>2. Judged => Gate!TypeOK
  BY DEF Judged
<1> QED BY <1>1, <1>2, GateInvariant, PTL
=============================================================================
