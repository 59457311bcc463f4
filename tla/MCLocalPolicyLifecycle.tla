------------------------- MODULE MCLocalPolicyLifecycle -------------------------
(* A finite instance of LocalPolicyLifecycle: each role is tried by the      *)
(* person meant for it and by one who has another role already.              *)
EXTENDS LocalPolicyLifecycle, TLC

CONSTANTS p0, p1, made, e1, e2, e3, judge1, judge2, judge3, judge4,
          a1, a2, a3, a4, b1, b2, b3, b4

AllCases == Case
AllTargets == Kinds \X Policy
BaseOf == [p \in Policy |-> IF p = p0 THEN NoPolicy ELSE p0]
OnlyP1 == {p1}
TeamOf == [p \in Policy |-> {}]
CreatorOf == [p \in Policy |-> made]
FirstJudge == [e \in Evidence |-> IF e = e1 THEN judge1 ELSE judge3]
SecondJudge == [e \in Evidence |-> IF e = e1 THEN judge2 ELSE judge4]
ApproverOf == [k \in Kinds |-> IF k = "promotion" THEN {a1, a2, judge1} ELSE {b1, b2, a4}]
AuthorizerOf == [k \in Kinds |-> IF k = "promotion" THEN {a3} ELSE {b3, a3}]
ExecutorOf == [k \in Kinds |-> IF k = "promotion" THEN {a4, a3} ELSE {b4}]

(* Rollbacks have a choice of evidence at the first instant, and evidence    *)
(* of their own, requested at the first, at the second.                      *)
AllAtOnce == [e \in Evidence |-> 0]
OneLater == [e \in Evidence |-> IF e = e3 THEN 1 ELSE 0]
SomeCases ==
  {[kind |-> "promotion", p |-> p1, ev |-> e1]}
    \cup {[kind |-> "rollback", p |-> p1, ev |-> e] : e \in Evidence}

(* The second instant is not combined with closed campaigns, with a choice   *)
(* of evidence, or with two calls that are both under way.                   *)
IsEarly(case) == case.kind = "rollback" /\ case.ev # e3
InstantBounds ==
  clock' = 1 =>
    /\ \A c \in CampaignId :
         camp'[c] # NoRow =>
           camp'[c].state \notin {"rejected", "cancelled"} /\ ~IsEarly(camp'[c].fp)
    /\ \A w \in Worker : job'[w].pc \in SubmitPcs => ~IsEarly(job'[w].case)
    /\ \E w \in Worker : \A v \in Worker \ {w} : job'[v] = Idle

BoundedSpec == Init /\ [][Next /\ InstantBounds]_vars

Symmetry == Permutations(CampaignId) \cup Permutations(Worker)
=============================================================================
