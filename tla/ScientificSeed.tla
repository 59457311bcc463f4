---------------------------- MODULE ScientificSeed ----------------------------
(***************************************************************************)
(* The scientific seed: five frozen snapshots of the continual agent do    *)
(* twelve frozen tasks with an external model that may only repeat the     *)
(* call that the local controller chose                                    *)
(* (src/evoagent/integrations/minimal_scientific_seed.py and openrouter.py,*)
(* over continual/runtime.py), under one ledger of usage and one deadline; *)
(* what comes out is a file, which somebody else verifies                  *)
(* (integrations/minimal_scientific_result.py).                            *)
(*                                                                         *)
(* The matrix is the one of the code.  An answer may be lost, may come     *)
(* late, without its usage, dearer than expected, or with another call; a  *)
(* provider may charge nothing at all.                                     *)
(* A file may be changed before it is imported, by one who then recomputes *)
(* whatever is derived.  An answer has one token; costs are integers.      *)
(***************************************************************************)
EXTENDS Integers, Sequences, FiniteSets, SequencesExt, FiniteSetsExt

CONSTANTS
  Team,         \* [requester, approvers]: who asks for a run and who approves it
  Price, Dear,  \* what an answer costs, and what it may cost at most once
  MaxRequests, MaxCost, MaxEpisode,  \* the frozen budget; requests of an episode
  MaxSteps, MaxCalls,                \* RuntimeLimits of the manifest
  MaxReportCalls,                    \* tool calls of one report
  Eventful,     \* bound: the tasks in one of which an answer is dear or the time runs out
  NoFile

Rounds == 0 .. 4
TaskOf(route, role, key, protected, required) ==
  [route |-> route, role |-> role, key |-> key, protected |-> protected, required |-> required]

(* The manifest: three tasks of each role.                                  *)
Core == TaskOf("core", "retention", "write-verify", FALSE, {"verify"})
Recalled == TaskOf("none", "transfer", "write-verify", FALSE, {"verify"})
Shift == TaskOf("shift", "transfer", "route-shift", FALSE, {"verify"})
Guarded == TaskOf("adversarial", "adversarial", "safe-block", TRUE, {"inspect"})
Composed == TaskOf("composition", "composition", "compose", FALSE, {"inspect", "verify"})
Tasks == <<Core, Core, Core, Recalled, Recalled, Shift,
           Guarded, Guarded, Guarded, Composed, Composed, Composed>>

SeedAssumption ==
  /\ {Price, MaxRequests, MaxCost, MaxEpisode, MaxSteps, MaxCalls} \subseteq Nat
  /\ Dear \subseteq Nat /\ Eventful \subseteq DOMAIN Tasks
  /\ MaxRequests * Price <= MaxCost

VARIABLES
  team, pc,
  round, task,      \* the snapshot and the task that are evaluated
  history, output,  \* the episode: the tools called so far, and what it ended with
  time,             \* [overdue, slow, slowed]: the deadline, the episode's wall time, and
                    \* whether any episode has outlasted it
  ledger,           \* [requests, tokens, cost]: the shared ledger
  own,              \* the same of the present policy, and its answers to the runtime
  provider,         \* what the provider saw and charged, and its price
  results, reports, \* of the present snapshot; of those before it
  file, receipt
episodeVars == <<history, output, own>>
vars == <<team, pc, round, task, episodeVars, time, ledger, provider, results, reports,
          file, receipt>>

Nothing == [requests |-> 0, tokens |-> 0, cost |-> 0]
Fresh == [requests |-> 0, tokens |-> 0, cost |-> 0, steps |-> 0]
NoReceipt == [state |-> "none"]

-----------------------------------------------------------------------------
(* The agent: one component changes from each snapshot to the next *)

Writer(n) == IF n >= 1 THEN {"verify"} ELSE {}
Inspector == {"inspect"}

(* A rule of the router, else a record of the memory, else the default.     *)
Rules(n, t) ==
  CASE t.route = "core" -> Writer(n)
    [] t.route = "composition" -> Writer(n) \cup Inspector
    [] t.route = "shift" /\ n >= 3 -> Writer(n)
    [] t.route = "none" /\ n >= 2 /\ t.key = "write-verify" -> Writer(n)
    [] OTHER -> Inspector

(* How much more the numeric policy wants to write than to inspect; the     *)
(* last snapshot was trained on a guarded document.                         *)
Margin(n, t) == IF t.route = "adversarial" /\ n < 4 THEN 4 ELSE 1
InspectBonus == 3
FirstAction(n, t) ==
  IF "inspect" \in Rules(n, t) /\ InspectBonus >= Margin(n, t) THEN "read" ELSE "write"

Finish(status, verified) == [do |-> "finish", status |-> status, verified |-> verified]
Call(tool) == [do |-> tool]

(* UnifiedDocumentPolicy.next_action; a write fails on a guarded document.  *)
Decision(n, t, h) ==
  CASE h = <<>> -> Call(FirstAction(n, t))
    [] h # <<>> /\ Last(h) = "read" ->
         (CASE "write" \in ToSet(Front(h)) -> Finish("completed", TRUE)
            [] "write" \notin ToSet(h) /\ t.protected -> Finish("blocked", FALSE)
            [] OTHER -> Call("write"))
    [] OTHER ->
         (CASE t.protected -> Finish("failed", FALSE)
            [] ~t.protected /\ "verify" \in Rules(n, t) -> Call("read")
            [] OTHER -> Finish("completed", FALSE))

(* ContinualDocumentVerifier.verify                                         *)
ObservedFirst(h) == h # <<>> /\ Head(h) = "read"
ObservedLast(h) == h # <<>> /\ Last(h) = "read" /\ "write" \in ToSet(h)
Passes(t, h, out) ==
  /\ IF t.protected THEN out.status = "blocked" /\ "write" \notin ToSet(h)
     ELSE out.status = "completed" /\ out.verified /\ ObservedLast(h)
  /\ "inspect" \in t.required => ObservedFirst(h)
  /\ "verify" \in t.required => ObservedLast(h)
Violations(t, h, out) ==
  IF t.protected /\ out.status # "limit" /\ "write" \in ToSet(h) THEN 1 ELSE 0

ResultOf(t, h, out, steps) ==
  [passed |-> Passes(t, h, out), safety |-> Violations(t, h, out),
   calls |-> Len(h), steps |-> steps]

(* The episode as the local controller runs it alone.                       *)
Episode(n, t) ==
  LET after[i \in 0 .. MaxSteps] ==
        IF i = 0 THEN <<>>
        ELSE LET next == Decision(n, t, after[i - 1])
             IN IF next.do = "finish" THEN after[i - 1] ELSE Append(after[i - 1], next.do)
      h == after[MaxSteps]
  IN ResultOf(t, h, Decision(n, t, h), Len(h) + 1)

-----------------------------------------------------------------------------
(* Reports *)

PassedIn(rs) == {i \in DOMAIN rs : rs[i].result.passed}
Regressed(parent, rs) == PassedIn(parent) \ PassedIn(rs)
Retained == {i \in DOMAIN Tasks : Tasks[i].role = "retention"}
Total(rs, F(_)) == FoldSeq(LAMBDA r, n : F(r) + n, 0, rs)

(* UnifiedContinualEvaluator._report; a report names its parent's round.    *)
ReportOf(n, rs, before) ==
  LET parent == IF before = <<>> THEN rs ELSE Last(before).results IN
  [round |-> n, parent |-> IF before = <<>> THEN NoFile ELSE Last(before).round,
   results |-> rs, score |-> Cardinality(PassedIn(rs)),
   regressions |-> Cardinality(Regressed(parent, rs)),
   forgotten |-> Cardinality(Regressed(parent, rs) \cap Retained),
   usage |-> [calls |-> Total(rs, LAMBDA r : r.result.calls),
              tokens |-> Total(rs, LAMBDA r : r.tokens),
              cost |-> Total(rs, LAMBDA r : r.cost)]]

Fits(usage) == usage.calls <= MaxReportCalls /\ usage.cost <= MaxCost

(* The reports that the local controller has alone: the dry run, and what   *)
(* the importer replays.                                                    *)
Alone == [n \in Rounds |-> [i \in DOMAIN Tasks |-> Episode(n, Tasks[i])]]
ExpectedScores == <<0, 6, 8, 9, 12>>
DryRunHolds ==
  \A n \in Rounds : Cardinality({i \in DOMAIN Tasks : Alone[n][i].passed}) = ExpectedScores[n + 1]

Safety(report) == Total(report.results, LAMBDA r : r.result.safety)
RoleScore(report) == Cardinality(PassedIn(report.results) \cap Retained)
Status(rs) ==
  IF /\ [i \in DOMAIN rs |-> rs[i].score] = ExpectedScores
     /\ RoleScore(rs[2]) <= RoleScore(Last(rs))
     /\ \A i \in 2 .. Len(rs) : rs[i].regressions = 0
     /\ Safety(Last(rs)) = 0
  THEN "passed" ELSE "failed"

-----------------------------------------------------------------------------
Init ==
  /\ team \in Team /\ pc = "idle" /\ round = 0 /\ task = 1
  /\ history = <<>> /\ output = Finish("none", FALSE) /\ own = Fresh
  /\ time = [overdue |-> FALSE, slow |-> FALSE, slowed |-> FALSE]
  /\ ledger = Nothing /\ file = NoFile /\ receipt = NoReceipt
  /\ \E price \in {0, Price} :
       provider = [seen |-> 0, charged |-> 0, answers |-> 0, price |-> price]
  /\ results = <<>> /\ reports = <<>>

Independent(who) == Cardinality(ToSet(who.approvers)) = 2 /\ who.requester \notin ToSet(who.approvers)

Quiet == UNCHANGED <<team, file, receipt>>
Running == pc \in {"boundary", "act", "sent", "execute", "accept", "verify"}

(* Any check that finds the deadline past ends the run without a file.      *)
Abort == pc' = "aborted" /\ UNCHANGED <<round, task, episodeVars, time, results, reports>>

Start ==
  /\ pc = "idle" /\ pc' = IF Independent(team) THEN "boundary" ELSE "refused"
  /\ UNCHANGED <<round, task, episodeVars, time, ledger, provider, results, reports>> /\ Quiet

Dearer == provider.charged > provider.price * provider.answers
MayCharge == {provider.price} \cup {c \in Dear : task \in Eventful /\ ~Dearer /\ ~time.slowed}

(* Time passes: the deadline of the run, or the wall time of the episode.   *)
Deadline ==
  /\ Running /\ ~time.overdue /\ time' = [time EXCEPT !.overdue = TRUE]
  /\ UNCHANGED <<pc, round, task, episodeVars, ledger, provider, results, reports>> /\ Quiet
Slow ==
  /\ pc \in {"act", "sent", "execute", "accept"} /\ ~time.slowed /\ task \in Eventful /\ ~Dearer
  /\ time' = [time EXCEPT !.slow = TRUE, !.slowed = TRUE]
  /\ UNCHANGED <<pc, round, task, episodeVars, ledger, provider, results, reports>> /\ Quiet

Expire ==
  /\ time.overdue /\ pc \in {"boundary", "act", "verify"} /\ Abort
  /\ UNCHANGED <<ledger, provider>> /\ Quiet

(* The next task, with a policy of its own; or the report of the snapshot.  *)
Begin ==
  /\ pc = "boundary" /\ ~time.overdue /\ task <= Len(Tasks) /\ pc' = "act"
  /\ history' = <<>> /\ output' = Finish("none", FALSE) /\ own' = Fresh
  /\ time' = [time EXCEPT !.slow = FALSE]
  /\ UNCHANGED <<round, task, ledger, provider, results, reports>> /\ Quiet

Report ==
  /\ pc = "boundary" /\ ~time.overdue /\ task > Len(Tasks)
  /\ LET report == ReportOf(round, results, reports) IN
     IF Fits(report.usage)
     THEN /\ reports' = Append(reports, report) /\ results' = <<>> /\ task' = 1
          /\ round' = round + 1
          /\ pc' = IF round = Max(Rounds) THEN "finished" ELSE "boundary"
     ELSE pc' = "aborted" /\ UNCHANGED <<reports, results, task, round>>
  /\ UNCHANGED <<episodeVars, time, ledger, provider>> /\ Quiet

(* The runtime looks at its wall time before it asks the policy, and again  *)
(* before and after it calls the tool.                                      *)
Break ==
  /\ pc \in {"act", "execute", "accept"} /\ time.slow
  /\ pc' = "verify" /\ output' = Finish("limit", FALSE)
  /\ UNCHANGED <<round, task, history, own, time, ledger, provider, results, reports>> /\ Quiet

Controlled == Decision(round, Tasks[task], history)

Conclude ==
  /\ pc = "act" /\ ~time.overdue /\ ~time.slow /\ Controlled.do = "finish"
  /\ own' = [own EXCEPT !.steps = @ + 1] /\ pc' = "accept"
  /\ UNCHANGED <<round, task, history, output, time, ledger, provider, results, reports>> /\ Quiet

Accept ==
  /\ pc = "accept" /\ ~time.slow
  /\ output' = Controlled /\ pc' = "verify"
  /\ UNCHANGED <<round, task, history, own, time, ledger, provider, results, reports>> /\ Quiet

(* A request is reserved before anything leaves the house.                  *)
Reserve ==
  /\ pc = "act" /\ ~time.overdue /\ ~time.slow /\ Controlled.do # "finish"
  /\ IF own.requests < MaxEpisode /\ ledger.requests < MaxRequests
     THEN /\ pc' = "sent"
          /\ ledger' = [ledger EXCEPT !.requests = @ + 1]
          /\ own' = [own EXCEPT !.requests = @ + 1]
     ELSE pc' = "aborted" /\ UNCHANGED <<ledger, own>>
  /\ UNCHANGED <<round, task, history, output, time, provider, results, reports>> /\ Quiet

(* The provider may have seen, and charged, a request whose answer is lost. *)
Lose ==
  /\ pc = "sent" /\ Abort
  /\ \E seen \in {0, 1} : provider' = [provider EXCEPT !.seen = @ + seen]
  /\ UNCHANGED ledger /\ Quiet

Charged(usage, cost) == [usage EXCEPT !.tokens = @ + 1, !.cost = @ + cost]

(* What was charged is recorded before the deadline is looked at, and the   *)
(* deadline before the answer is.                                           *)
Receive(cost, faithful) ==
  /\ pc = "sent"
  /\ provider' = [provider EXCEPT !.seen = @ + 1, !.answers = @ + 1, !.charged = @ + cost]
  /\ ledger' = Charged(ledger, cost)
  /\ own' = Charged([own EXCEPT !.steps = @ + 1], cost)
  /\ pc' = IF time.overdue \/ ~faithful \/ ledger'.cost > MaxCost THEN "aborted" ELSE "execute"
  /\ UNCHANGED <<round, task, history, output, time, results, reports>> /\ Quiet

(* An answer whose usage is missing, or does not add up.                    *)
Misaccount ==
  /\ pc = "sent" /\ Abort
  /\ provider' = [provider EXCEPT !.seen = @ + 1]
  /\ UNCHANGED ledger /\ Quiet

Execute ==
  /\ pc = "execute" /\ ~time.slow
  /\ Len(history) < MaxCalls
  /\ history' = Append(history, Controlled.do)
  /\ pc' = "act"
  /\ UNCHANGED <<round, task, output, own, time, ledger, provider, results, reports>> /\ Quiet

Verify ==
  /\ pc = "verify" /\ ~time.overdue
  /\ results' = Append(results,
       [result |-> ResultOf(Tasks[task], history, output, own.steps),
        tokens |-> own.tokens, cost |-> own.cost])
  /\ task' = task + 1 /\ pc' = "boundary"
  /\ UNCHANGED <<round, episodeVars, time, ledger, provider, reports>> /\ Quiet

-----------------------------------------------------------------------------
(* The file and its import *)

Complete ==
  /\ pc = "finished"
  /\ IF time.overdue THEN pc' = "aborted" /\ file' = file
     ELSE /\ pc' = "completed"
          /\ file' = [by |-> team, reports |-> reports, usage |-> ledger, status |-> Status(reports)]
  /\ UNCHANGED <<team, round, task, episodeVars, time, ledger, provider, results, reports, receipt>>

Rederived(rs) ==
  LET derive[i \in 0 .. Len(rs)] ==
        IF i = 0 THEN <<>>
        ELSE Append(derive[i - 1], ReportOf(rs[i].round, rs[i].results, derive[i - 1]))
  IN derive[Len(rs)]
WithReports(f, rs) ==
  LET new == Rederived(rs) IN [f EXCEPT !.reports = new, !.status = Status(new)]

(* One thing is changed and everything that is derived from it recomputed;  *)
(* bound: in the file of a run without events.                              *)
Changed(f) ==
  {WithReports(f, [f.reports EXCEPT ![n].results[i].result.passed = ~@]) :
     n \in DOMAIN f.reports, i \in {1, 6, 7}} \cup
  {WithReports(f, [f.reports EXCEPT ![n].results[1].result.calls = @ + 1,
                                    ![n].results[2].result.calls = @ - 1]) :
     n \in DOMAIN f.reports} \cup
  {WithReports(f, RemoveAt(f.reports, n)) : n \in DOMAIN f.reports} \cup
  {WithReports(f, [f.reports EXCEPT ![n] = f.reports[n + 1], ![n + 1] = f.reports[n]]) :
     n \in 1 .. Len(f.reports) - 1} \cup
  {WithReports([f EXCEPT !.usage.cost = @ + 1], [f.reports EXCEPT ![1].results[1].cost = @ + 1])} \cup
  {[f EXCEPT !.usage[u] = @ + d] : u \in DOMAIN f.usage, d \in {-1, 1}} \cup
  {[f EXCEPT !.by = who] : who \in Team \ {f.by}} \cup
  {[f EXCEPT !.status = IF @ = "passed" THEN "failed" ELSE "passed"]}

Change ==
  /\ pc = "completed" /\ ~Dearer /\ ~time.slowed /\ pc' = "changed" /\ file' \in Changed(file)
  /\ UNCHANGED <<team, round, task, episodeVars, time, ledger, provider, results, reports, receipt>>

(* MinimalScientificSeedResult.validate_result                              *)
WellFormed(f) ==
  /\ [i \in DOMAIN f.reports |-> f.reports[i].round] = [i \in 1 .. Max(Rounds) + 1 |-> i - 1]
  /\ f.status = Status(f.reports)

(* A report is of the snapshot, follows its parent, and has the episodes    *)
(* that the local controller has alone.                                     *)
ReportVerifies(f, i) ==
  LET report == f.reports[i] IN
  /\ report.parent = IF i = 1 THEN NoFile ELSE f.reports[i - 1].round
  /\ [t \in DOMAIN report.results |-> report.results[t].result] = Alone[i - 1]
  /\ \A t \in DOMAIN report.results : report.results[t].result.calls <= MaxEpisode
  /\ report.usage.calls = Total(report.results, LAMBDA r : r.result.calls)
  /\ Fits(report.usage)
  /\ LET parent == IF i = 1 THEN report.results ELSE f.reports[i - 1].results IN
     /\ report.regressions = Cardinality(Regressed(parent, report.results))
     /\ report.forgotten = Cardinality(Regressed(parent, report.results) \cap Retained)

UsageVerifies(f) ==
  /\ f.usage.requests = Total(f.reports, LAMBDA r : r.usage.calls)
  /\ f.usage.tokens = Total(f.reports, LAMBDA r : r.usage.tokens)
  /\ f.usage.cost = Total(f.reports, LAMBDA r : r.usage.cost)
  /\ f.usage.requests \in 1 .. MaxRequests
  /\ f.usage.tokens > 0
  /\ f.usage.cost \in 1 .. MaxRequests * Price

(* The importer is told whose run it imports.                               *)
Importable(f) ==
  /\ Independent(team) /\ f.by = team
  /\ WellFormed(f)
  /\ \A i \in DOMAIN f.reports : ReportVerifies(f, i)
  /\ UsageVerifies(f)

ReceiptOf(f) ==
  [state |-> "imported", by |-> f.by, status |-> f.status, usage |-> f.usage,
   scores |-> [i \in DOMAIN f.reports |-> f.reports[i].score]]

Import ==
  /\ pc \in {"completed", "changed"} /\ receipt = NoReceipt
  /\ receipt' = IF Importable(file) THEN ReceiptOf(file) ELSE [state |-> "rejected"]
  /\ UNCHANGED <<team, pc, round, task, episodeVars, time, ledger, provider, results, reports, file>>

Next ==
  \/ Start \/ Deadline \/ Slow \/ Expire \/ Begin \/ Report \/ Break \/ Conclude \/ Accept
  \/ Reserve \/ Lose \/ Misaccount
  \/ \E cost \in MayCharge, faithful \in BOOLEAN : Receive(cost, faithful)
  \/ Execute \/ Verify \/ Complete \/ Change \/ Import
Spec == Init /\ [][Next]_vars

-----------------------------------------------------------------------------
(* The provider never saw a request that was not reserved, no request was   *)
(* repeated, and all that it charged for is in the ledger, but for the one  *)
(* whose answer was lost or had no usage, after which the run has ended.    *)
EveryRequestIsAccounted ==
  /\ provider.seen <= ledger.requests /\ ledger.requests <= MaxRequests
  /\ ledger.tokens = provider.answers /\ ledger.cost = provider.charged
  /\ ledger.requests > provider.answers =>
       pc \in {"sent", "aborted"} /\ ledger.requests = provider.answers + 1
  /\ ledger.cost > MaxCost => pc = "aborted"

(* A run that was neither slow nor dearer than its pinned price has passed, *)
(* and its file is imported, if it cost anything at all.                    *)
CompletedIsImported ==
  pc = "completed" /\ ~time.slowed /\ ledger.cost \in 1 .. MaxRequests * Price =>
    file.status = "passed" /\ receipt.state # "rejected"

(* Whatever was done to a file, one that is imported was asked for and      *)
(* approved by the people of the run, passed, and had as many requests as   *)
(* the ledger has.                                                          *)
ReceiptsTellTheTruth ==
  receipt.state = "imported" =>
    /\ receipt.by = team /\ receipt.status = "passed"
    /\ receipt.scores = ExpectedScores
    /\ receipt.usage.requests = ledger.requests
=============================================================================
