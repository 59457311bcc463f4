----------------------------- MODULE Supervisor -----------------------------
(***************************************************************************)
(* The closed-loop supervisor (src/evoagent/supervisor): a batch of cases  *)
(* is admitted into a run, each is routed to a track, claimed, handed to   *)
(* the executor of its track, and its outcome stored; the run ends with a  *)
(* status derived from the outcomes.  repository.py has a transaction per  *)
(* call, process() in service.py strings them together; several processes  *)
(* may be in process() for one run, each may be stopped anywhere.          *)
(*                                                                         *)
(* job[p] is one process: what it does next, the case of its batch it is   *)
(* at, and the revision or outcome it will pass.                           *)
(***************************************************************************)
EXTENDS Integers, Sequences, FiniteSets

CONSTANTS Case, Batch,   \* a sequence without repetition of cases
          route,         \* the track of each case
          Process,
          MaxCases, MaxRounds,
          budget,        \* of the tracks skill, model and external_repair
          automatic,     \* the tracks that the policy lets be executed
          equipped,      \* the tracks whose executor was supplied
          StopOnQuarantine

SupervisorAssumption ==
  /\ IsFiniteSet(Case) /\ Batch \in Seq(Case)
  /\ \A i, j \in 1 .. Len(Batch) : Batch[i] = Batch[j] => i = j
  /\ MaxRounds \in Nat /\ \A t \in DOMAIN budget : budget[t] \in Nat

VARIABLES run, cases, job,
          executions  \* history: how often each case was given to an executor
vars == <<run, cases, job, executions>>

Tracks == {"none", "skill", "model", "external_repair", "escalation", "quarantine"}
Ended == {"completed", "blocked", "escalated", "quarantined", "failed"}
Mutable == {"open", "running"}
RunEnds == {"completed", "completed_with_escalations", "blocked", "quarantined",
            "budget_exhausted", "failed"}
NoRun == [status |-> "absent", rev |-> 0]
NoCase == [status |-> "absent", rev |-> 0]
NoOutcome == [status |-> "none", by |-> "nobody", overBudget |-> FALSE]

(* Who stands behind an outcome: an executor, an issued repair ticket, or    *)
(* the supervisor itself.                                                    *)
Outcome(status, by) == [status |-> status, by |-> by, overBudget |-> FALSE]
OverBudget == [status |-> "blocked", by |-> "nobody", overBudget |-> TRUE]

Idle == [pc |-> "idle"]

TypeOK ==
  /\ run \in [status : {"absent"} \cup Mutable \cup RunEnds, rev : Nat]
  /\ \A k \in Case : cases[k] = NoCase \/
       /\ cases[k].status \in {"pending", "running"} \cup Ended
       /\ cases[k].status \in Ended <=> cases[k].outcome # NoOutcome
       /\ cases[k].status \in Ended => cases[k].outcome.status = cases[k].status

Init ==
  /\ run = NoRun
  /\ cases = [k \in Case |-> NoCase]
  /\ job = [p \in Process |-> Idle]
  /\ executions = [k \in Case |-> 0]

Admitted == {k \in Case : cases[k] # NoCase}
Statuses == {cases[k].status : k \in Admitted}
Terminal == run.status \in RunEnds

Goto(p, pc) == job' = [job EXCEPT ![p].pc = pc]
Leave(p) == job' = [job EXCEPT ![p] = Idle]

-----------------------------------------------------------------------------
(* The transactions of the repository *)

TransitionRun(status, rev) ==
  IF run.status = status THEN UNCHANGED run
  ELSE /\ run.rev = rev
       /\ status = "running" => run.status = "open"
       /\ run.status \in Mutable
       /\ run' = [status |-> status, rev |-> run.rev + 1]

AdmitCase(k) ==
  /\ ~Terminal
  /\ IF cases[k] # NoCase THEN UNCHANGED cases
     ELSE /\ Cardinality(Admitted) < MaxCases
          /\ cases' = [cases EXCEPT ![k] = [status |-> "pending", rev |-> 0,
                                            outcome |-> NoOutcome]]

ClaimCase(k, rev) ==
  /\ cases[k].status = "pending" /\ cases[k].rev = rev
  /\ cases' = [cases EXCEPT ![k].status = "running", ![k].rev = @ + 1]

FinalizeCase(k, outcome, rev) ==
  /\ cases[k].status = "running" /\ cases[k].rev = rev
  /\ cases' = [cases EXCEPT ![k] = [status |-> outcome.status, rev |-> rev + 1,
                                    outcome |-> outcome]]

-----------------------------------------------------------------------------
(* process *)

(* create_or_get_run, and the resumption of a run that has ended.           *)
Begin(p) ==
  /\ job[p] = Idle
  /\ ~Terminal
  /\ run' = IF run = NoRun THEN [status |-> "open", rev |-> 0] ELSE run
  /\ job' = [job EXCEPT ![p] = [pc |-> IF run'.status = "open" THEN "start" ELSE "next",
                                at |-> 1, rev |-> run'.rev, outcome |-> NoOutcome]]
  /\ UNCHANGED <<cases, executions>>

Start(p) ==
  /\ job[p].pc = "start"
  /\ TransitionRun("running", job[p].rev)
  /\ Goto(p, "next")
  /\ UNCHANGED <<cases, executions>>

(* The head of the loop: a run that another process ended is left alone.    *)
NextCase(p) ==
  /\ job[p].pc = "next"
  /\ IF job[p].at > Len(Batch) THEN Goto(p, IF Terminal THEN "verify" ELSE "derive")
     ELSE IF Terminal THEN Goto(p, "verify")
     ELSE IF job[p].at > MaxRounds
       THEN job' = [job EXCEPT ![p].pc = "finish", ![p].outcome = Outcome("budget_exhausted", "nobody")]
     ELSE Goto(p, "admit")
  /\ UNCHANGED <<run, cases, executions>>

At(p) == Batch[job[p].at]

AfterCase(p) ==
  IF cases'[At(p)].status = "quarantined" /\ StopOnQuarantine
    THEN [job[p] EXCEPT !.pc = "finish", !.outcome = Outcome("quarantined", "nobody")]
    ELSE [job[p] EXCEPT !.pc = "next", !.at = @ + 1, !.outcome = NoOutcome]

AfterAdmission_SkipsRunning(p, k) ==
  IF k.status = "pending" THEN [job[p] EXCEPT !.pc = "claim", !.rev = k.rev] ELSE AfterCase(p)
(* A case that is running already makes the call raise.                     *)
AfterAdmission(p, k) ==
  CASE k.status = "pending" -> [job[p] EXCEPT !.pc = "claim", !.rev = k.rev]
    [] k.status = "running" -> Idle
    [] OTHER -> AfterCase(p)

Admit(p) ==
  /\ job[p].pc = "admit"
  /\ AdmitCase(At(p))
  /\ job' = [job EXCEPT ![p] = AfterAdmission(p, cases'[At(p)])]
  /\ UNCHANGED <<run, executions>>

Claim(p) ==
  /\ job[p].pc = "claim"
  /\ ClaimCase(At(p), job[p].rev)
  /\ job' = [job EXCEPT ![p].pc = "route", ![p].rev = @ + 1]
  /\ UNCHANGED <<run, executions>>

(* _track_budget_error: over the cases that were admitted, this one too.     *)
Exceeded(t) ==
  t \in DOMAIN budget /\ Cardinality({k \in Admitted : route[k] = t}) > budget[t]

(* _execute_or_route, with the attestations of service_hardened.py: an      *)
(* executor returns an outcome of any status, or it raises ("failed").      *)
ExecutorOutcomes == {Outcome(s, "executor") : s \in Ended}
Routed(t) ==
  CASE t = "none" -> {Outcome("completed", "nobody")}
    [] t = "escalation" -> {Outcome("escalated", "nobody")}
    [] t = "quarantine" -> {Outcome("quarantined", "nobody")}
    [] t = "external_repair" /\ t \notin automatic -> {Outcome("blocked", "ticket")}
    [] OTHER -> IF Exceeded(t) THEN {OverBudget}
                ELSE IF t \notin automatic \cap equipped THEN {Outcome("blocked", "nobody")}
                ELSE ExecutorOutcomes
Route(p) ==
  /\ job[p].pc = "route"
  /\ \E o \in Routed(route[At(p)]) :
       /\ job' = [job EXCEPT ![p].pc = "finalize", ![p].outcome = o]
       /\ executions' = IF o.by = "executor" THEN [executions EXCEPT ![At(p)] = @ + 1]
                        ELSE executions
  /\ UNCHANGED <<run, cases>>

Finalize(p) ==
  /\ job[p].pc = "finalize"
  /\ FinalizeCase(At(p), job[p].outcome, job[p].rev)
  /\ job' = [job EXCEPT ![p] = AfterCase(p)]
  /\ UNCHANGED <<run, executions>>

(* _derive_final_status, which does not ask whether a case is unfinished.   *)
Derived ==
  IF "quarantined" \in Statuses THEN "quarantined"
  ELSE IF "failed" \in Statuses THEN "failed"
  ELSE IF \E k \in Admitted : cases[k].status = "blocked" /\ cases[k].outcome.overBudget
    THEN "budget_exhausted"
  ELSE IF "blocked" \in Statuses THEN "blocked"
  ELSE IF "escalated" \in Statuses THEN "completed_with_escalations"
  ELSE "completed"
Derive(p) ==
  /\ job[p].pc = "derive"
  /\ job' = [job EXCEPT ![p].pc = "finish", ![p].outcome = Outcome(Derived, "nobody")]
  /\ UNCHANGED <<run, cases, executions>>

(* _finish_run *)
FinishLook(p) ==
  /\ job[p].pc = "finish"
  /\ job' = [job EXCEPT ![p].pc = IF Terminal THEN "verify" ELSE "transition", ![p].rev = run.rev]
  /\ UNCHANGED <<run, cases, executions>>

Finish(p) ==
  /\ job[p].pc = "transition"
  /\ TransitionRun(job[p].outcome.status, job[p].rev)
  /\ Goto(p, "verify")
  /\ UNCHANGED <<cases, executions>>

(* The call returns the run, or raises after all was done.                  *)
Return(p) ==
  /\ job[p].pc = "verify"
  /\ Leave(p)
  /\ UNCHANGED <<run, cases, executions>>

-----------------------------------------------------------------------------
(* A call raises, or its process is stopped.                                *)
Stop(p) ==
  /\ job[p] # Idle
  /\ Leave(p)
  /\ UNCHANGED <<run, cases, executions>>

(* The outcomes that the validator of an outcome lets a human give, who     *)
(* attests nothing.                                                         *)
ByHand(t) ==
  CASE t = "escalation" -> {"escalated"} [] t = "quarantine" -> {"quarantined"}
    [] t \in {"skill", "model"} -> Ended \ {"completed"}
    [] OTHER -> Ended

(* The "explicit operator recovery" of a case whose process is thought to   *)
(* be gone: finalize_case, called by hand with the present revision.        *)
Recover(k) ==
  /\ cases[k].status = "running"
  /\ \E s \in ByHand(route[k]) : FinalizeCase(k, Outcome(s, "nobody"), cases[k].rev)
  /\ UNCHANGED <<run, job, executions>>

Next ==
  \/ \E p \in Process :
       \/ Begin(p) \/ Start(p) \/ NextCase(p) \/ Admit(p) \/ Claim(p) \/ Route(p)
       \/ Finalize(p) \/ Derive(p) \/ FinishLook(p) \/ Finish(p) \/ Return(p) \/ Stop(p)
  \/ \E k \in Case : Recover(k)

Spec == Init /\ [][Next]_vars

-----------------------------------------------------------------------------
(* Properties *)

(* docs/19: a RUNNING case "is not silently rerun", and budgets are checked *)
(* before an executor is invoked.  However the processes of a run, their    *)
(* stops and the operator interleave, a case is executed at most once, and  *)
(* a track no more often than its budget says.                              *)
ExecutionsAreBounded ==
  /\ \A k \in Case : executions[k] <= 1
  /\ \A t \in DOMAIN budget : Cardinality({k \in Case : route[k] = t /\ executions[k] > 0}) <= budget[t]

(* verify_state, with the status that the package expects of the outcomes   *)
(* (_verify_run_status): nobody ends a run over the head of a process that  *)
(* still works on one of its cases.                                         *)
EndedRunVerifies ==
  /\ TypeOK
  /\ Terminal => Statuses \subseteq Ended /\ run.status = Derived

(* The check of tickets in verify_state of repository_hardened.py, which    *)
(* raises for ever once it fails.                                           *)
RepairTicketsAreWithinBudget ==
  "external_repair" \in DOMAIN budget =>
    Cardinality({k \in Admitted : route[k] = "external_repair" /\ cases[k].status \in Ended
                                   /\ cases[k].outcome.by = "ticket"}) <= budget["external_repair"]
=============================================================================
