--------------------------- MODULE ProgramRegistry ---------------------------
(***************************************************************************)
(* The Program database, HardenedSQLiteEvolutionProgramRepository          *)
(* (src/evoagent/program/repository_hardened.py over repository.py), for   *)
(* one program, and the gate that decides what follows a generation.       *)
(* Every method is one transaction, given as an operator; a method that    *)
(* raises changes nothing.  A generation is identified by its index, the   *)
(* active generation of the head by the current index.  Pairs stand for    *)
(* the three cumulative resources (pairs, tokens, cost).                   *)
(***************************************************************************)
EXTENDS Campaigns

CONSTANTS
  NoHead, NoCampaign, NoDecision, NoSignal, NoReceipt,
  SignalId, ReceiptId, DecisionId,
  producer,     \* of the release evidence
  attributor,   \* of a receipt
  conclusive,   \* whether a receipt names one bounded layer with confidence
  decider,      \* of a decision
  MaxGenerations, MaxRollbacks, MaxHolds, MaxCampaigns, MaxPairs,
  MaxNonImproving, StopOnReady   \* the policy

ASSUME RegistryAssumption ==
  /\ attributor \in [ReceiptId -> Actor] /\ conclusive \in [ReceiptId -> BOOLEAN]
  /\ decider \in [DecisionId -> Actor] /\ producer \in Actor
  /\ {MaxGenerations, MaxCampaigns, MaxPairs} \subseteq Nat \ {0}
  /\ {MaxRollbacks, MaxHolds, MaxNonImproving} \subseteq Nat
  /\ StopOnReady \in BOOLEAN
  /\ NoCampaign \notin CampaignId /\ NoSignal \notin SignalId /\ NoReceipt \notin ReceiptId

VARIABLES head, gens, signals, receipts, decisions
programVars == <<head, gens, signals, receipts, decisions>>

Index == 0 .. MaxGenerations - 1
Outcomes == {"ready", "rollback", "hold"}
TerminalStatus == {"completed", "rolled_back", "held"}
StatusFor(o) == CASE o = "ready" -> "completed" [] o = "rollback" -> "rolled_back" [] o = "hold" -> "held"

ProgramStates == {"running", "generation_authorized", "generation_running",
                  "completed", "paused", "budget_exhausted", "escalated"}
Actions == {"continue", "stop_success", "stop_budget", "pause", "escalate"}
StateForAction(a) == CASE a = "continue" -> "running" [] a = "stop_success" -> "completed"
                       [] a = "stop_budget" -> "budget_exhausted" [] a = "pause" -> "paused"
                       [] a = "escalate" -> "escalated"

Head == [state: ProgramStates, cur: Index, rev: Nat, rollbacks: Nat, holds: Nat,
         campaigns: Nat, spent: Nat]

(* budget and att, the receipt, are those of the plan; binder is who bound  *)
(* the campaign, if there is one; pairs are spent by the outcome.           *)
Generation == [status: {"planned", "authorized", "running"} \cup TerminalStatus,
               budget: Nat, att: ReceiptId \cup {NoReceipt},
               campaign: CampaignId \cup {NoCampaign}, binder: Actor,
               outcome: Outcomes \cup {"none"}, pairs: Nat]
NoGeneration == [status |-> "absent"]
Signal == [gen: Index, by: Actor]
Decision == [gen: Index, action: Actions]

ASSUME AbsenceAssumption ==
  NoHead \notin Head /\ NoSignal \notin Signal /\ NoDecision \notin Decision

RegistryTypeOK ==
  /\ head \in Head \cup {NoHead}
  /\ gens \in [Index -> Generation \cup {NoGeneration}]
  /\ signals \in [SignalId -> Signal \cup {NoSignal}]
  /\ receipts \in [ReceiptId -> SignalId \cup {NoSignal}]
  /\ decisions \in [DecisionId -> Decision \cup {NoDecision}]

RegistryInit ==
  /\ head = NoHead
  /\ gens = [i \in Index |-> NoGeneration]
  /\ signals = [s \in SignalId |-> NoSignal]
  /\ receipts = [r \in ReceiptId |-> NoSignal]
  /\ decisions = [d \in DecisionId |-> NoDecision]

-----------------------------------------------------------------------------
(* Queries *)

Planned(i) == i \in Index /\ gens[i].status # "absent"
Done(i) == Planned(i) /\ gens[i].outcome # "none"
Status(i) == gens[i].status

SignalsOf(i) == {s \in SignalId : signals[s] # NoSignal /\ signals[s].gen = i}
ReceiptsOf(s) == {r \in ReceiptId : receipts[r] = s}
DecisionsOf(i) == {d \in DecisionId : decisions[d] # NoDecision /\ decisions[d].gen = i}
Continuing(i) == {d \in DecisionsOf(i) : decisions[d].action = "continue"}

(* generations with an outcome after the last one that reached readiness    *)
NonImproving ==
  Cardinality({i \in Index : Done(i) /\ \A j \in Index : j >= i /\ Done(j) => gens[j].outcome # "ready"})

-----------------------------------------------------------------------------
(* The gate *)

BudgetExhausted_NoRollbacks ==
  \/ head.cur + 1 >= MaxGenerations
  \/ head.holds > 0 /\ head.holds >= MaxHolds
  \/ head.campaigns >= MaxCampaigns
  \/ head.spent >= MaxPairs
  \/ NonImproving > MaxNonImproving
BudgetExhausted ==
  \/ head.cur + 1 >= MaxGenerations
  \/ head.rollbacks > 0 /\ head.rollbacks >= MaxRollbacks
  \/ head.holds > 0 /\ head.holds >= MaxHolds
  \/ head.campaigns >= MaxCampaigns
  \/ head.spent >= MaxPairs
  \/ NonImproving > MaxNonImproving

Attributed_Anyhow(r) == TRUE
Attributed(r) == conclusive[r] /\ attributor[r] # producer

(* r is the receipt that the caller of decide passes, if any.               *)
GateAction(i, r) ==
  CASE gens[i].outcome = "ready" -> IF StopOnReady THEN "stop_success" ELSE "pause"
    [] gens[i].outcome # "ready" /\ BudgetExhausted -> "stop_budget"
    [] gens[i].outcome # "ready" /\ ~BudgetExhausted ->
         IF r = NoReceipt THEN "pause" ELSE IF Attributed(r) THEN "continue" ELSE "escalate"

-----------------------------------------------------------------------------
(* Transactions; rev is the revision that the caller expects.               *)

AtRevision(rev) == head # NoHead /\ head.rev = rev

Register(o, pairs) ==
  /\ head = NoHead
  /\ head' = [state |-> "running", cur |-> 0, rev |-> 0,
              rollbacks |-> IF o = "rollback" THEN 1 ELSE 0,
              holds |-> IF o = "hold" THEN 1 ELSE 0, campaigns |-> 0, spent |-> pairs]
  /\ gens' = [gens EXCEPT ![0] =
       [status |-> StatusFor(o), budget |-> 0, att |-> NoReceipt,
        campaign |-> NoCampaign, binder |-> producer, outcome |-> o, pairs |-> pairs]]
  /\ UNCHANGED <<signals, receipts, decisions>>

StoreSignal(s, i, by) ==
  /\ Planned(i)
  /\ signals[s] = NoSignal
  /\ signals' = [signals EXCEPT ![s] = [gen |-> i, by |-> by]]
  /\ UNCHANGED <<head, gens, receipts, decisions>>

StoreReceipt(r, s) ==
  /\ signals[s] # NoSignal
  /\ receipts[r] = NoSignal
  /\ receipts' = [receipts EXCEPT ![r] = s]
  /\ UNCHANGED <<head, gens, signals, decisions>>

(* Neither the state of the head nor other decisions are looked at.         *)
StoreDecision(d, i, a, rev) ==
  /\ AtRevision(rev)
  /\ Done(i)
  /\ decisions[d] = NoDecision
  /\ decisions' = [decisions EXCEPT ![d] = [gen |-> i, action |-> a]]
  /\ head' = [head EXCEPT !.state = StateForAction(a), !.rev = @ + 1]
  /\ UNCHANGED <<gens, signals, receipts>>

FitsRemaining(budget) == budget <= MaxPairs - head.spent

(* The revision of the head stays as it is.                                 *)
PlanGeneration(i, budget, s, r, rev) ==
  /\ AtRevision(rev)
  /\ FitsRemaining(budget)
  /\ head.state = "running" /\ i = head.cur + 1
  /\ r \in ReceiptsOf(s)
  /\ i < MaxGenerations /\ ~Planned(i)
  /\ gens' = [gens EXCEPT ![i] =
       [status |-> "planned", budget |-> budget, att |-> r,
        campaign |-> NoCampaign, binder |-> producer, outcome |-> "none", pairs |-> 0]]
  /\ UNCHANGED <<head, signals, receipts, decisions>>

BindCampaign(i, c, by, rev) ==
  \/ gens[i].campaign = c /\ UNCHANGED programVars
  \/ /\ AtRevision(rev)
     /\ Status(i) = "planned" /\ gens[i].campaign = NoCampaign
     /\ head.campaigns < MaxCampaigns
     /\ gens' = [gens EXCEPT ![i].campaign = c, ![i].binder = by]
     /\ head' = [head EXCEPT !.campaigns = @ + 1, !.rev = @ + 1]
     /\ UNCHANGED <<signals, receipts, decisions>>

AuthorizeGeneration(i, c, rev) ==
  /\ AtRevision(rev)
  /\ gens[i].campaign = c
  /\ Status(i) = "planned"
  /\ gens' = [gens EXCEPT ![i].status = "authorized"]
  /\ head' = [head EXCEPT !.state = "generation_authorized", !.rev = @ + 1]
  /\ UNCHANGED <<signals, receipts, decisions>>

StartGeneration(i, rev) ==
  /\ AtRevision(rev)
  /\ Status(i) = "authorized"
  /\ gens' = [gens EXCEPT ![i].status = "running"]
  /\ head' = [head EXCEPT !.state = "generation_running", !.cur = i, !.rev = @ + 1]
  /\ UNCHANGED <<signals, receipts, decisions>>

CountOutcome(h, o) == [h EXCEPT !.rollbacks = IF o = "rollback" THEN @ + 1 ELSE @,
                                !.holds = IF o = "hold" THEN @ + 1 ELSE @]

WithinBudget(i, pairs) == pairs <= gens[i].budget /\ head.spent + pairs <= MaxPairs

CompleteGeneration(i, o, pairs, rev) ==
  /\ AtRevision(rev)
  /\ Status(i) = "running"
  /\ WithinBudget(i, pairs)
  /\ gens' = [gens EXCEPT ![i].status = StatusFor(o), ![i].outcome = o, ![i].pairs = pairs]
  /\ head' = [CountOutcome(head, o) EXCEPT !.state = "running", !.cur = i,
                                           !.spent = @ + pairs, !.rev = @ + 1]
  /\ UNCHANGED <<signals, receipts, decisions>>

-----------------------------------------------------------------------------

(* Each pair that an outcome spent, numbered within its generation.         *)
SpentPairs ==
  {x \in {i \in Index : Done(i)} \X (1 .. MaxPairs) : x[2] <= gens[x[1]].pairs}

(* verify_state: the head can be derived from the generations.  It and the  *)
(* controllers' audits call for it before every approval and retry.         *)
HeadMatchesGenerations ==
  head # NoHead =>
    LET of(o) == {i \in Index : Done(i) /\ gens[i].outcome = o}
    IN /\ Planned(head.cur)
       /\ \A i \in Index : Planned(i) => \A j \in 0 .. i : Planned(j)
       /\ head.rollbacks = Cardinality(of("rollback"))
       /\ head.holds = Cardinality(of("hold"))
       /\ head.spent = Cardinality(SpentPairs)
       /\ head.campaigns = Cardinality({i \in Index : Planned(i) /\ gens[i].campaign # NoCampaign})
=============================================================================
