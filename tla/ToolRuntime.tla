------------------------------ MODULE ToolRuntime ------------------------------
(***************************************************************************)
(* Diagnosis by replay: ToolAgentRuntime (src/evoagent/runtime/            *)
(* tool_agent.py) runs a policy on documents under limits and an           *)
(* independent verifier; the counterfactual runners (runtime/              *)
(* fault_matrix.py and runtime/counterfactual.py) repeat a failed run with *)
(* one layer replaced at a time; and CounterfactualAttributionEngine       *)
(* (src/evoagent/diagnosis/counterfactual_engine.py) names the layer that  *)
(* is at fault.                                                            *)
(*                                                                         *)
(* The matrix injects the faults of a scenario.  The local runner has none *)
(* and is given a skill, limits and a run that failed for whatever reason. *)
(* Each task has one target document.  The clock may run out at any of the *)
(* places where the loop looks at it, and a call may raise at any point.   *)
(* A layer names its experiment too; confidence is in percent.             *)
(***************************************************************************)
EXTENDS Integers, Sequences, FiniteSets, SequencesExt, FiniteSetsExt

CONSTANTS
  Scenario,     \* [runner, faults, skill, expected, steps, calls]
  Hypotheses,   \* sets of [layer, prior]
  MinConfidence, ConflictMargin,
  MaxCut        \* bound: runs that the clock or an error cuts short

Plan == <<"skill", "router", "tool", "context", "verifier", "environment", "model">>
Layer == Range(Plan)
Status == {"completed", "blocked"}

RuntimeAssumption ==
  /\ Scenario \subseteq
       [runner: {"matrix", "local"}, faults: SUBSET Layer,
        skill: SUBSET {"inspect", "verify"}, expected: Status, steps: Nat, calls: Nat]
  /\ \A s \in Scenario :
       /\ s.runner = "matrix" <=> s.faults # {}
       /\ s.runner = "matrix" => s.steps = 6 /\ s.calls = 4
  /\ \A hs \in Hypotheses :
       /\ hs \subseteq [layer: Layer, prior: 0 .. 100]
       /\ hs # {} /\ \A h, g \in hs : h.layer = g.layer => h = g
  /\ {MinConfidence, ConflictMargin} \subseteq 0 .. 99 /\ MaxCut \in Nat

VARIABLES
  scenario, hypotheses,
  at,          \* the place in the plan: 0 is the baseline
  pc,
  initial, doc, attempted,   \* the environment: the target document before and now
  history,     \* the results of the tools
  steps, limit, output,
  trace,       \* what became of each run
  report
episodeVars == <<initial, doc, attempted, history, steps, limit, output>>
vars == <<scenario, hypotheses, at, pc, episodeVars, trace, report>>

Baseline == 0
NoDocument == [content |-> "none", protected |-> FALSE]
Exists(d) == d # NoDocument
NoReport == [root |-> "none", action |-> "none", actionable |-> FALSE]
Unknown == "unknown"

(* The layers that are replayed, in the order of the plan, and the one that *)
(* the present run replaces.                                                *)
Tested == {h.layer : h \in hypotheses}
Places == {i \in DOMAIN Plan : Plan[i] \in Tested}
Later == {i \in Places : i > at}
Intervention == IF at = Baseline THEN "none" ELSE Plan[at]

-----------------------------------------------------------------------------
(* The scenario under an intervention *)

Active(l) == l \in scenario.faults /\ Intervention # l

Safe == {"inspect", "verify"}
Unsafe == {"verify"}

(* A router at fault selects the unsafe one of two skills; a skill at fault *)
(* is the unsafe one; and in the conflict of both, either repair does.      *)
MatrixRules ==
  CASE "router" \in scenario.faults ->
         IF \/ Intervention = "router"
            \/ "skill" \in scenario.faults /\ Intervention = "skill"
         THEN Safe ELSE Unsafe
    [] "skill" \in scenario.faults /\ "router" \notin scenario.faults ->
         IF Intervention = "skill" THEN Safe ELSE Unsafe
    [] OTHER -> Safe

(* The local runner adds the rule that the verifier missed in the baseline. *)
LocalRules ==
  scenario.skill \cup
    (IF Intervention = "skill" /\ trace[Baseline] = "missing_skill_rule"
     THEN {"inspect"} ELSE {})

Rules == IF scenario.runner = "matrix" THEN MatrixRules ELSE LocalRules

Expected ==
  CASE scenario.runner = "local" -> scenario.expected
    [] scenario.runner = "matrix" /\ scenario.faults \cap {"skill", "router"} # {} -> "blocked"
    [] OTHER -> "completed"

(* reset: the tool's environment comes before the one that conflicts.       *)
Conflict == Active("environment") /\ ~Active("tool")
InitialDocument ==
  CASE Conflict -> [content |-> "conflict", protected |-> TRUE]
    [] ~Conflict /\ Expected = "blocked" -> [content |-> "old", protected |-> TRUE]
    [] OTHER -> NoDocument

-----------------------------------------------------------------------------
(* One run *)

Finish(status, verified) == [do |-> "finish", status |-> status, verified |-> verified]
Call(tool) == [do |-> tool]

(* DocumentSkillPolicy.next_action                                          *)
AfterRead(h) ==
  LET last == Last(h) IN
  IF Len(h) >= 2 /\ h[Len(h) - 1].tool = "write"
  THEN IF last.ok /\ Exists(last.doc) /\ last.doc.content = "new"
       THEN Finish("completed", TRUE) ELSE Finish("failed", FALSE)
  ELSE CASE ~last.ok -> Finish("failed", FALSE)
         [] last.ok /\ Exists(last.doc) /\ last.doc.protected -> Finish("blocked", FALSE)
         [] OTHER -> Call("write")

AfterWrite(h) ==
  CASE ~Last(h).ok -> Finish("failed", FALSE)
    [] Last(h).ok /\ "verify" \in Rules -> Call("read")
    [] OTHER -> Finish("completed", FALSE)

DocumentPolicy(h) ==
  CASE h = <<>> -> Call(IF "inspect" \in Rules THEN "read" ELSE "write")
    [] h # <<>> /\ Last(h).tool = "read" -> AfterRead(h)
    [] OTHER -> AfterWrite(h)

(* A model at fault finishes at once, whatever the context; without its     *)
(* content the task cannot be read.                                         *)
NextAction ==
  CASE Active("model") -> Finish("failed", FALSE)
    [] ~Active("model") /\ Active("context") -> Finish("configuration_error", FALSE)
    [] OTHER -> DocumentPolicy(history)

WriteSucceeds == ~Active("tool") /\ ~doc.protected
Written == IF WriteSucceeds THEN [content |-> "new", protected |-> doc.protected] ELSE doc

ResultOf(tool) ==
  [tool |-> tool, ok |-> tool = "read" \/ WriteSucceeds,
   doc |-> IF tool = "read" THEN doc ELSE NoDocument]

Calls(tool) == {i \in DOMAIN history : history[i].tool = tool}
ReadAfterWrite ==
  \E w \in Calls("write"), r \in Calls("read") : w < r /\ history[w].ok /\ history[r].ok

(* DocumentTaskVerifier.verify                                              *)
AttemptedWrite == attempted \/ Calls("write") # {}
VerdictBlocked ==
  IF AttemptedWrite \/ Calls("read") = {} THEN "missing_skill_rule"
  ELSE IF initial.protected /\ initial = doc /\ output.status = "blocked"
       THEN "passed" ELSE "failed"

VerdictCompleted ==
  IF /\ output.status = "completed" /\ output.verified
     /\ \E w \in Calls("write") : history[w].ok
     /\ doc.content = "new"
     /\ ReadAfterWrite
  THEN "passed" ELSE "failed"

ReferenceVerdict ==
  CASE limit = "wall_time" -> "cut"
    [] limit \in {"steps", "tool_calls"} -> "failed"
    [] limit = "none" /\ Expected = "blocked" -> VerdictBlocked
    [] OTHER -> VerdictCompleted

Verdict == IF Active("verifier") THEN "failed" ELSE ReferenceVerdict

-----------------------------------------------------------------------------
Init ==
  /\ scenario \in Scenario /\ hypotheses \in Hypotheses
  /\ at = Baseline /\ pc = "reset"
  /\ initial = NoDocument /\ doc = NoDocument /\ attempted = FALSE
  /\ history = <<>> /\ steps = 0 /\ limit = "none" /\ output = Finish("none", FALSE)
  /\ trace = [i \in {Baseline} \cup Places |-> "none"]
  /\ report = NoReport

Unchanged == UNCHANGED <<scenario, hypotheses, at, trace, report>>
Cut == Cardinality({i \in DOMAIN trace : trace[i] = "cut"})

(* A fresh episode for each run.                                            *)
Reset ==
  /\ pc = "reset" /\ pc' = "step"
  /\ initial' = InitialDocument /\ doc' = InitialDocument
  /\ UNCHANGED <<attempted, history, steps, limit, output>> /\ Unchanged

Break(name) == pc' = "verify" /\ limit' = name

(* The clock ran out before, or while, the policy was asked.                *)
OutOfTime ==
  /\ pc = "step" /\ steps < scenario.steps /\ Cut < MaxCut
  /\ \E asked \in {0, 1} : steps' = steps + asked
  /\ Break("wall_time")
  /\ UNCHANGED <<initial, doc, attempted, history, output>> /\ Unchanged

OutOfSteps ==
  /\ pc = "step" /\ steps = scenario.steps
  /\ Break("steps")
  /\ UNCHANGED <<initial, doc, attempted, history, steps, output>> /\ Unchanged

Conclude ==
  /\ pc = "step" /\ steps < scenario.steps /\ NextAction.do = "finish"
  /\ output' = NextAction /\ steps' = steps + 1 /\ pc' = "verify"
  /\ UNCHANGED <<initial, doc, attempted, history, limit>> /\ Unchanged

OutOfCalls ==
  /\ pc = "step" /\ steps < scenario.steps /\ NextAction.do # "finish"
  /\ Len(history) >= scenario.calls
  /\ Break("tool_calls") /\ steps' = steps + 1
  /\ UNCHANGED <<initial, doc, attempted, history, output>> /\ Unchanged

(* Once the tool has answered, the clock is looked at again.                *)
Execute ==
  /\ pc = "step" /\ steps < scenario.steps /\ NextAction.do # "finish"
  /\ Len(history) < scenario.calls
  /\ LET tool == NextAction.do IN
     /\ history' = Append(history, ResultOf(tool))
     /\ attempted' = (attempted \/ tool = "write")
     /\ doc' = IF tool = "write" THEN Written ELSE doc
  /\ steps' = steps + 1
  /\ \/ Cut < MaxCut /\ Break("wall_time")
     \/ UNCHANGED <<pc, limit>>
  /\ UNCHANGED <<initial, output>> /\ Unchanged

(* close: nothing of a run is left for the next.                            *)
Close ==
  /\ initial' = NoDocument /\ doc' = NoDocument /\ attempted' = FALSE
  /\ history' = <<>> /\ steps' = 0 /\ limit' = "none" /\ output' = Finish("none", FALSE)

(* A run has ended with this verdict.  The runners refuse a baseline that   *)
(* passed; the last replay is followed by the attribution.                  *)
Ended(verdict) ==
  /\ trace' = [trace EXCEPT ![at] = verdict]
  /\ pc' = CASE at = Baseline /\ verdict = "passed" -> "refused"
             [] at # Baseline /\ Later = {} -> "attribute"
             [] OTHER -> "reset"
  /\ at' = IF Later # {} THEN Min(Later) ELSE at
  /\ Close /\ UNCHANGED <<scenario, hypotheses, report>>

Verify ==
  /\ pc = "verify" /\ Ended(Verdict)

(* Whatever raises ends the run as failed.                                  *)
Raise ==
  /\ pc \in {"reset", "step", "verify"} /\ Cut < MaxCut /\ Ended("cut")

-----------------------------------------------------------------------------
(* CounterfactualAttributionEngine.attribute *)

Replay(l) == trace[CHOOSE i \in Places : Plan[i] = l]
Supported == {l \in Tested : Replay(l) = "passed"}
Score(l) == (CHOOSE h \in hypotheses : h.layer = l).prior

Cheaper == Layer \ {"model"}
ModelGatePassed == Cheaper \subseteq Tested /\ Supported \cap Cheaper = {}

Attribution_NoConflict ==
  LET best == {l \in Supported : \A k \in Supported : Score(k) <= Score(l)}
      causes == {l \in best : /\ Score(l) >= MinConfidence
                              /\ l = "model" => ModelGatePassed}
  IN IF causes = {} THEN Unknown ELSE CHOOSE l \in causes : TRUE
Attribution ==
  LET causes == {l \in Supported :
        /\ Score(l) >= MinConfidence
        /\ \A k \in Supported \ {l} : Score(l) - Score(k) > ConflictMargin
        /\ l = "model" => ModelGatePassed}
  IN IF causes = {} THEN Unknown ELSE CHOOSE l \in causes : TRUE

ActionOf(l) ==
  CASE l = "skill" -> "update_skill" [] l = "router" -> "update_router"
    [] l = "tool" -> "repair_tool" [] l = "context" -> "update_context"
    [] l = "verifier" -> "repair_verifier" [] l = "model" -> "train_model"
    [] OTHER -> "escalate"

Attribute ==
  /\ pc = "attribute" /\ pc' = "done"
  /\ report' = [root |-> Attribution, action |-> ActionOf(Attribution),
                actionable |-> ActionOf(Attribution) # "escalate"]
  /\ UNCHANGED <<scenario, hypotheses, at, episodeVars, trace>>

Next ==
  \/ Reset \/ OutOfTime \/ OutOfSteps \/ Conclude \/ OutOfCalls \/ Execute
  \/ Verify \/ Raise \/ Attribute
Spec == Init /\ [][Next]_vars

-----------------------------------------------------------------------------
(* A run passes only within its limits, with the target as its task wants   *)
(* it; and no run of any policy changes a protected document.               *)
PassedIsWithinLimits ==
  /\ pc # "reset" => (initial.protected => doc = initial)
  /\ pc = "verify" /\ Verdict = "passed" =>
       /\ limit = "none" /\ steps <= scenario.steps /\ Len(history) <= scenario.calls
       /\ IF Expected = "blocked" THEN doc = initial /\ ~attempted ELSE doc.content = "new"

Certain == {[layer |-> l, prior |-> 100] : l \in Layer}

(* The matrix blames no layer that is not at fault, and the local runner    *)
(* none but the skill, unless one of its runs was cut short.                *)
NobodyIsBlamedInVain ==
  report # NoReport /\ report.root # Unknown =>
    /\ scenario.runner = "matrix" => report.root \in scenario.faults
    /\ scenario.runner = "local" /\ Cut = 0 => report.root = "skill"

(* When no run is cut short a single fault is found, each by its experiment,*)
(* and of a skill and a router that would both do, neither is blamed.       *)
FaultsAreFound ==
  report # NoReport /\ Cut = 0 /\ hypotheses = Certain /\ scenario.runner = "matrix" =>
    /\ Cardinality(scenario.faults) = 1 => report.root \in scenario.faults
    /\ scenario.faults = {"skill", "router"} => report.root = Unknown

(* A model is trained only after each other layer was replayed, in vain.    *)
TrainingIsTheLastResort ==
  report # NoReport /\ report.action = "train_model" =>
    \A l \in Cheaper : l \in Tested /\ Replay(l) # "passed"
=============================================================================
