---------------------------- MODULE Laboratories ----------------------------
(* The scripted laboratories (src/evoagent/lab).  Each calls the components  *)
(* from the beginning, in a fixed order and with fixed names, and writes a   *)
(* package at the end; whoever starts it again after a stop relies on the    *)
(* calls that look at what is there, and fails at those that do not.  The    *)
(* other modules have the components; here a laboratory is its list of       *)
(* steps, each one durable transaction or a laboratory of its own, and what  *)
(* each step does when it finds the one of an earlier run.                   *)
EXTENDS Integers, SequencesExt

CONSTANTS
  Top,        \* the laboratories of which somebody starts one
  MaxStops    \* how often a run is stopped

VARIABLES
  top,        \* the laboratory that is started
  root,       \* for each laboratory, what is in its databases and files
  run,        \* the stack of the laboratories that run, the last one on top
  stops

vars == <<top, root, run, stops>>

Laboratory ==
  {"reference", "local_tool", "model_evolution", "admission", "benchmark", "champion",
   "drift", "passing", "release", "program", "supervisor", "local_policy", "unified"}

Submitted == {"approval_pending", "authorized", "completed"}

(* camp: the campaign; votes: its approvals; entry: the candidate in its    *)
(* registry; moves: of the pointer; kept: rows and files; packed: the       *)
(* package or result file.                                                  *)
Empty == [camp |-> "none", votes |-> 0, entry |-> "none", moves |-> 0,
          kept |-> {}, packed |-> FALSE]

-----------------------------------------------------------------------------
(* Steps: one that is skipped, or may be made and leads to a state (and     *)
(* raises when it is neither); a laboratory that is called; a return if     *)
(* nothing is left to do.                                                   *)

Write(skip, may, to) == [kind |-> "write", skip |-> skip, may |-> may, to |-> to]
Call(lab, when) == [kind |-> "call", lab |-> lab, skip |-> ~when]
ReadOnly(d) == [kind |-> "read_only", skip |-> ~d.packed]
Pack(d) == Write(d.packed, TRUE, [d EXCEPT !.packed = TRUE])

Add(d, name) == [d EXCEPT !.kept = @ \cup {name}]
(* A row or file that is compared with the same content when it is there.   *)
Keep(d, name) == Write(name \in d.kept, TRUE, Add(d, name))
(* A call that is refused when it has been made.                            *)
Once(d, name) == Write(FALSE, name \notin d.kept, Add(d, name))
Each(Step(_, _), d, names) == [i \in DOMAIN names |-> Step(d, names[i])]

(* reserve and attach_candidate: a reserved campaign is not attached to by  *)
(* another run, which looks for the candidate in it.                        *)
Reserve(d) ==
  Write(d.camp \notin {"none", "open"}, d.camp = "none", [d EXCEPT !.camp = "open"])
ReserveAgain(d) == Write(d.camp # "none", TRUE, [d EXCEPT !.camp = "open"])
Attach(d) == Write(d.camp \notin {"none", "open"}, d.camp = "open",
                   [d EXCEPT !.camp = "candidate_ready"])
(* submit_evaluation is two transitions, and is called for a ready one.     *)
SubmitEvaluation(d) ==
  << Write(d.camp \in Submitted, d.camp = "candidate_ready",
           [d EXCEPT !.camp = "evaluation_pending"]),
     Write(d.camp \in Submitted, d.camp = "evaluation_pending",
           [d EXCEPT !.camp = "approval_pending"]) >>
(* approve by the n-th of its people, of whom needed are.                   *)
Voted(d, needed) ==
  [d EXCEPT !.votes = @ + 1,
            !.camp = IF d.votes + 1 = needed THEN "authorized" ELSE @]
Approve(d, n, needed) ==
  Write(FALSE, d.camp = "approval_pending" /\ d.votes = n - 1, Voted(d, needed))
ApproveAgain(d, n, needed) ==
  Write(d.votes >= n, d.camp = "approval_pending", Voted(d, needed))
Complete(d) == Write(d.camp = "completed", d.camp = "authorized",
                     [d EXCEPT !.camp = "completed"])

-----------------------------------------------------------------------------
(* The laboratories.  d is what is in the root; f is the run: fresh when no *)
(* campaign was there as it started, packed when the package was, and late  *)
(* when the clock has left the window in which it computes the same times.  *)

AddCandidate_OnlyFresh(d, f) ==
  Write(d.entry # "none", f.fresh, [d EXCEPT !.entry = "candidate"])
AddCandidate(d, f) ==
  Write(d.entry # "none", TRUE, [d EXCEPT !.entry = "candidate"])
Promote(d) ==
  Write(d.entry = "active", d.camp = "authorized",
        [d EXCEPT !.entry = "active", !.moves = @ + 1])

ReferenceEvolutionLab(d, f) ==
  << Keep(d, "recorder input"), Keep(d, "initial skill"),
     Write(~f.fresh, TRUE, Add(d, "trace")),
     Reserve(d), Attach(d), AddCandidate(d, f) >>
  \o SubmitEvaluation(d)
  \o << ApproveAgain(d, 1, 1), Promote(d), Complete(d) >>
  \o << Keep(d, "results"), Pack(d) >>

(* It has no package, and ends with its campaign.                           *)
AutomaticLocalToolEvolutionLab(d, f) ==
  << Keep(d, "initial skill"), Write(~f.fresh \/ "trace" \in d.kept, TRUE, Add(d, "trace")),
     Reserve(d), Attach(d), AddCandidate(d, f) >>
  \o SubmitEvaluation(d)
  \o << ApproveAgain(d, 1, 1), Promote(d), Complete(d) >>

(* Only a run that finds no campaign calls the cycle, and sees whether      *)
(* another trace is given the same campaign.                                *)
GovernedModelEvolutionLab(d, f) ==
  << Keep(d, "dataset"),
     Write(~f.fresh \/ "evidence" \in d.kept, TRUE, Add(d, "evidence")),
     Reserve(d), Attach(d),
     Write(~f.fresh \/ "follow-up" \in d.kept, TRUE, Add(d, "follow-up")) >>
PackModelEvolution(d) == <<Pack(d)>>

(* admit returns a candidate that is there, but must not find it evaluated. *)
AdmitAndSubmit(d) ==
  << ReadOnly(d), Call("model_evolution", TRUE), Keep(d, "initial model"),
     Write(d.entry = "candidate", d.entry = "none", [d EXCEPT !.entry = "candidate"]),
     ReserveAgain(d), Attach(d),
     Write(FALSE, d.entry = "candidate", [d EXCEPT !.entry = "evaluated"]) >>
  \o SubmitEvaluation(d)
(* The activation, and its rollback.                                        *)
ActivateAndRestore(d) ==
  << ApproveAgain(d, 1, 2), ApproveAgain(d, 2, 2), Once(d, "authorized"),
     Write(FALSE, d.moves = 0, [d EXCEPT !.moves = 1, !.entry = "active"]), Complete(d),
     Write(FALSE, d.moves = 1, [d EXCEPT !.moves = 2]), Pack(d) >>

(* A row that is there is an error unless the package is.                   *)
Import(d, f, name) ==
  Write(name \in d.kept /\ f.packed, name \notin d.kept /\ ~f.packed, Add(d, name))
AuthoritativeBenchmarkEvidenceLab(d, f) ==
  << Keep(d, "fixtures"), Import(d, f, "a0"), Import(d, f, "a1"), Import(d, f, "a2"),
     Import(d, f, "comparator"), Import(d, f, "mismatch"),
     Import(d, f, "longitudinal"), Import(d, f, "same model"), Pack(d) >>

(* The two who approve are named, and cannot do it again.                   *)
SubmitChampion(d) ==
  << Call("benchmark", TRUE), ReadOnly(d), Keep(d, "baseline"), Keep(d, "decision"),
     Reserve(d), Attach(d), Keep(d, "challenger"), Keep(d, "evaluation") >>
  \o SubmitEvaluation(d)
PromoteChampion(d) ==
  << Approve(d, 1, 2), Approve(d, 2, 2), Once(d, "authorized"),
     Write(FALSE, d.moves = 0, [d EXCEPT !.moves = 1]), Complete(d), Pack(d) >>

RollBackRelease(d) ==
  Each(Once, d, <<"recommended", "rollback campaign", "rollback approval 1",
                  "rollback approval 2">>)
  \o << Write(FALSE, d.moves = 0, [d EXCEPT !.moves = 1]), Once(d, "rollback completed") >>
ReleaseScenario(d, rolledBack) ==
  << ReadOnly(d), Keep(d, "plan"), Reserve(d), Attach(d), Keep(d, "bound") >>
  \o SubmitEvaluation(d)
  \o << Approve(d, 1, 2), Approve(d, 2, 2), Once(d, "authorized"), Once(d, "shadow"),
        Keep(d, "batch 0"), Once(d, "canary 1"), Keep(d, "batch 1"), Once(d, "canary 2"),
        Keep(d, "batch 2") >>
  \o (IF rolledBack
      THEN RollBackRelease(d) \o <<Pack(d)>>
      ELSE << Once(d, "ready"), Pack(d) >>)
ShadowCanaryReleaseLab ==
  << Call("champion", TRUE), Call("drift", TRUE), Call("passing", TRUE) >>

(* The first decision is computed again, from a head whose campaign, once   *)
(* bound, has used up the budget: under its name it is another decision.    *)
DecideAndSubmit(d) ==
  << Call("release", TRUE), ReadOnly(d), Keep(d, "registered"), Keep(d, "signal"),
     Keep(d, "attribution"),
     Write("decision 0" \in d.kept /\ "bound" \notin d.kept, "decision 0" \notin d.kept,
           Add(d, "decision 0")),
     Keep(d, "plan"), ReserveAgain(d), Attach(d),
     Write(d.camp # "candidate_ready", TRUE, [d EXCEPT !.camp = "evaluation_pending"]),
     Write(d.camp # "evaluation_pending", TRUE, [d EXCEPT !.camp = "approval_pending"]),
     Once(d, "bound") >>
RunGeneration(d) ==
  << Approve(d, 1, 2), Approve(d, 2, 2) >>
  \o Each(Once, d, <<"authorized", "started", "outcome">>)
  \o << Complete(d), Once(d, "decision 1") >>
(* Programs of their own that end for want of budget, and at an attribution *)
(* that is not conclusive.                                                  *)
Controls(d) == Each(Once, d, <<"budget control", "ambiguous control">>)

(* A case that was claimed and has no result is left to an operator.        *)
Claim(d, name) ==
  Write("done " \o name \in d.kept, name \notin d.kept, Add(d, name))
Finalize(d, name) == Keep(d, "done " \o name)
ClosedLoopEvolutionSupervisorLab(d, f) ==
  << Keep(d, "created"), Keep(d, "started"),
     Keep(d, "case 1"), Claim(d, "skill"),
     Call("local_tool", "done skill" \notin d.kept), Finalize(d, "skill"),
     Keep(d, "case 2"), Claim(d, "model"),
     Call("admission", "done model" \notin d.kept), Finalize(d, "model"),
     Keep(d, "case 3"), Claim(d, "escalated"), Finalize(d, "escalated"),
     Keep(d, "finished"), Pack(d),
     Call("local_tool", f.packed), Call("admission", f.packed) >>

(* Times come from the clock: the initial policy is the same within five    *)
(* minutes of the receipt, the candidate never.                             *)
PromoteLocalPolicy(d, f) ==
  << ReadOnly(d),
     Write("initial policy" \in d.kept /\ ~f.late /\ d.moves = 0,
           "initial policy" \notin d.kept, Add(d, "initial policy")),
     Write(FALSE, d.entry = "none", [d EXCEPT !.entry = "candidate"]) >>
  \o Each(Once, d, <<"submitted", "approval 1", "approval 2", "authorized">>)
  \o << Write(FALSE, d.moves = 0, [d EXCEPT !.moves = 1]), Once(d, "promotion completed") >>
RestoreLocalPolicy(d) ==
  Each(Once, d, <<"rollback submitted", "rollback approval 1", "rollback approval 2",
                  "rollback authorized">>)
  \o << Write(FALSE, d.moves = 1, [d EXCEPT !.moves = 2]), Once(d, "rollback completed"),
        Pack(d) >>

(* The initial snapshot is registered again only while it is active.        *)
RegisterA0(d) ==
  << ReadOnly(d),
     Write("A0" \in d.kept /\ d.moves = 0, "A0" \notin d.kept, Add(d, "A0")) >>
EvaluateAndActivate(d, k) ==
  << Keep(d, "A" \o ToString(k)), Write(FALSE, d.moves = k - 1, [d EXCEPT !.moves = k]) >>
Rounds(d) == FlattenSeq([k \in 1..4 |-> EvaluateAndActivate(d, k)])
PackUnified(d) == <<Pack(d)>>

Script(f) ==
  LET d == root[f.lab] IN
  CASE f.lab = "reference" -> ReferenceEvolutionLab(d, f)
    [] f.lab = "local_tool" -> AutomaticLocalToolEvolutionLab(d, f)
    [] f.lab = "model_evolution" -> GovernedModelEvolutionLab(d, f) \o PackModelEvolution(d)
    [] f.lab = "admission" -> AdmitAndSubmit(d) \o ActivateAndRestore(d)
    [] f.lab = "benchmark" -> AuthoritativeBenchmarkEvidenceLab(d, f)
    [] f.lab = "champion" -> SubmitChampion(d) \o PromoteChampion(d)
    [] f.lab = "drift" -> ReleaseScenario(d, TRUE)
    [] f.lab = "passing" -> ReleaseScenario(d, FALSE)
    [] f.lab = "release" -> ShadowCanaryReleaseLab
    [] f.lab = "program" ->
           DecideAndSubmit(d) \o RunGeneration(d) \o Controls(d) \o <<Pack(d)>>
    [] f.lab = "supervisor" -> ClosedLoopEvolutionSupervisorLab(d, f)
    [] f.lab = "local_policy" ->
           PromoteLocalPolicy(d, f) \o RestoreLocalPolicy(d)
    [] f.lab = "unified" -> RegisterA0(d) \o Rounds(d) \o PackUnified(d)

-----------------------------------------------------------------------------
Begin(lab, late) ==
  [lab |-> lab, at |-> 1, fresh |-> root[lab].camp = "none",
   packed |-> root[lab].packed, late |-> late]

Init ==
  /\ top \in Top
  /\ root = [lab \in Laboratory |-> Empty] /\ run = <<>> /\ stops = 0

Start ==
  /\ run = <<>>
  /\ \E late \in BOOLEAN : run' = <<Begin(top, late)>>
  /\ UNCHANGED <<top, root, stops>>

Frame == run[Len(run)]
NextStep == [run EXCEPT ![Len(run)].at = @ + 1]
AtEnd == Frame.at > Len(Script(Frame))
Step == Script(Frame)[Frame.at]

GoOn ==
  /\ run # <<>> /\ ~AtEnd
  /\ \/ /\ Step.skip
        /\ run' = NextStep /\ UNCHANGED root
     \/ /\ ~Step.skip /\ Step.kind = "write" /\ Step.may
        /\ root' = [root EXCEPT ![Frame.lab] = Step.to] /\ run' = NextStep
     \/ /\ ~Step.skip /\ Step.kind = "call"
        /\ run' = Append(run, Begin(Step.lab, Frame.late)) /\ UNCHANGED root
  /\ UNCHANGED <<top, stops>>

(* A laboratory that returns lets its caller go on.                         *)
Return ==
  /\ run # <<>>
  /\ IF AtEnd THEN TRUE ELSE Step.kind = "read_only" /\ ~Step.skip
  /\ run' = LET below == Front(run) IN
            IF below = <<>> THEN below ELSE [below EXCEPT ![Len(below)].at = @ + 1]
  /\ UNCHANGED <<top, root, stops>>

Raise ==
  /\ run # <<>> /\ ~AtEnd
  /\ Step.kind = "write" /\ ~Step.skip /\ ~Step.may
  /\ run' = <<>>
  /\ UNCHANGED <<top, root, stops>>

Stop ==
  /\ run # <<>> /\ stops < MaxStops
  /\ run' = <<>> /\ stops' = stops + 1
  /\ UNCHANGED <<top, root>>

Next == Start \/ GoOn \/ Return \/ Raise \/ Stop

(* Somebody starts it again and again.                                      *)
Fairness == WF_vars(Start \/ GoOn \/ Return \/ Raise)

-----------------------------------------------------------------------------
Torn(lab) ==
  LET d == root[lab]
      Voting == d.camp \in {"open", "evaluation_pending"} \/ d.votes > 0
  IN CASE lab \in {"reference", "local_tool"} -> d.camp \in {"open", "evaluation_pending"}
       [] lab = "model_evolution" -> d.camp = "open"
       [] lab = "admission" -> ~d.packed /\ d.entry \notin {"none", "candidate"}
       [] lab = "benchmark" -> ~d.packed /\ "a0" \in d.kept
       [] lab \in {"champion", "drift", "passing"} -> ~d.packed /\ Voting
       [] lab = "program" -> ~d.packed /\ "bound" \in d.kept
       [] lab = "supervisor" ->
            \E name \in {"skill", "model", "escalated"} :
              name \in d.kept /\ "done " \o name \notin d.kept
       [] lab = "local_policy" -> ~d.packed /\ "initial policy" \in d.kept
       [] lab = "unified" -> ~d.packed /\ d.moves > 0
       [] OTHER -> FALSE

Calls(lab) ==
  CASE lab = "admission" -> {"model_evolution"}
    [] lab = "supervisor" -> {"local_tool", "admission", "model_evolution"}
    [] lab = "program" -> {"release", "champion", "benchmark", "drift", "passing"}
    [] OTHER -> {}

(* Whoever starts a laboratory again and again gets its package, unless a   *)
(* run has stopped at one of the places that Torn names, in the laboratory  *)
(* itself or in one it calls.                                               *)
EndsInAPackage ==
  <>[](root[top].packed \/ \E lab \in {top} \cup Calls(top) : Torn(lab))
(* What is packaged stays as it is.                                         *)
PackagesStay ==
  [][\A lab \in Laboratory : root[lab].packed => root'[lab] = root[lab]]_vars

Spec == Init /\ [][Next]_vars /\ Fairness
=============================================================================
