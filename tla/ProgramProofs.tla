----------------------------- MODULE ProgramProofs -----------------------------
(***************************************************************************)
(* Proofs about ProgramController, for any number of generations, actors,  *)
(* campaigns, records and workers, and any limits of the policy.  A call   *)
(* is a check and later transactions of two databases, so the invariant    *)
(* says of every call in progress what its check has seen and nobody can   *)
(* undo since: decisions and outcomes are not taken back, and a campaign   *)
(* that is decided keeps its candidate, its votes and its evaluators.      *)
(* Then, each with an invariant of its own, about the package of a program *)
(* that ended (ProgramPackage) and about what runs beside the program: the *)
(* executions (ExecutionLedger), the agent's lineage (ContinualAgent) and  *)
(* the makers of a bound training (ProgramTraining).                       *)
(***************************************************************************)
EXTENDS ProgramPackage, CampaignLemmas

AllAssumptions ==
  /\ CampaignsAssumption /\ RegistryAssumption /\ AbsenceAssumption /\ ControllerAssumption

Unsuccessful == {"rolled_back", "held"}

(* The shape of a stored generation: 0 is that of the release, any other   *)
(* has a campaign once it left its plan and an outcome once it ended.      *)
ShapeAt(i) ==
  Planned(i) =>
    /\ head # NoHead
    /\ i = 0 => Done(i)
    /\ IF Done(i) THEN Status(i) = StatusFor(gens[i].outcome)
       ELSE Status(i) \in {"planned", "authorized", "running"}
    /\ i > 0 /\ Status(i) # "planned" => gens[i].campaign # NoCampaign
    /\ i > 0 /\ Done(i) => gens[i].pairs <= gens[i].budget

Ended(j, o) == {k \in 0 .. j : gens[k].outcome = o}

(* What the gate has made sure of when it let the program go on after j.   *)
Limits(j) ==
  /\ Cardinality(Ended(j, "rollback")) = 0 \/ Cardinality(Ended(j, "rollback")) < MaxRollbacks
  /\ Cardinality(Ended(j, "hold")) = 0 \/ Cardinality(Ended(j, "hold")) < MaxHolds
  /\ j + 1 <= MaxNonImproving
  /\ j + 1 <= MaxCampaigns

MayContinue(j) == Done(j) /\ Status(j) \in Unsuccessful /\ Limits(j)

DecisionInvAt(j) == Continuing(j) # {} => MayContinue(j)

(* A successor follows from its predecessor, and what it may spend is left. *)
ChainInvAt(i) ==
  i > 0 /\ Planned(i) =>
    /\ MayContinue(i - 1) /\ Continuing(i - 1) # {}
    /\ gens[i].att \in UNION {ReceiptsOf(s) : s \in SignalsOf(i - 1)}
    /\ Attributed(gens[i].att)
    /\ ~Done(i) => head.spent + gens[i].budget <= MaxPairs

(* The campaign c of generation i was decided by two people who had no     *)
(* part in it before.                                                      *)
Approved(c, i) ==
  /\ gens[i].campaign = c /\ Exists(c) /\ Decided(c) /\ Of(c) = i
  /\ Voters(c) = Approvers(c) /\ Cardinality(Voters(c)) = 2
  /\ Voters(c) \cap ({producer, attributor[gens[i].att]} \cup trail[c].evaluators) = {}
  /\ \E d \in Continuing(i - 1) : decider[d] \notin Voters(c)

GenInvAt(i) ==
  i > 0 /\ Planned(i) /\ Status(i) # "planned" => Approved(gens[i].campaign, i)

JobInvAt(j) ==
  /\ j.pc = "decision" /\ j.a = "continue" => MayContinue(j.i)
  /\ j.pc \in {"plan", "find", "reserve", "advance", "bind"} =>
       j.i > 0 /\ Continuing(j.i - 1) # {}
  /\ j.pc = "plan" => j.s \in SignalsOf(j.i - 1) /\ Attributed(j.r)
  /\ j.pc \in {"authorize", "start", "complete", "close"} =>
       j.i > 0 /\ Planned(j.i) /\ Approved(j.c, j.i)
  /\ j.pc = "close" => Done(j.i)

ShapeInv == \A i \in Index : ShapeAt(i)
DecisionInv == \A i \in Index : DecisionInvAt(i)
ChainInv == \A i \in Index : ChainInvAt(i)
GenInv == \A i \in Index : GenInvAt(i)
JobInv == \A w \in Worker : JobInvAt(job[w])

IInv ==
  /\ TypeOK /\ ShapeInv /\ HeadMatchesGenerations /\ DecisionInv /\ ChainInv /\ GenInv
  /\ JobInv /\ CompletedMeansTerminal

-----------------------------------------------------------------------------
(* Generations, heads and the sets that are counted *)

LEMMA Indexes ==
  ASSUME AllAssumptions
  PROVE  /\ Index \subseteq Nat /\ 0 \in Index /\ IsFiniteSet(Index)
         /\ \A i \in Index : 0 .. i \subseteq Index /\ (i > 0 => i - 1 \in Index)
         /\ {MaxGenerations, MaxCampaigns, MaxPairs, MaxRollbacks, MaxHolds, MaxNonImproving}
              \subseteq Nat
<1>1. MaxGenerations - 1 \in Nat
  BY DEF AllAssumptions, RegistryAssumption
<1>2. IsFiniteSet(Index)
  BY <1>1, FS_Interval DEF Index
<1>3. \A i \in Index : 0 .. i \subseteq Index /\ (i > 0 => i - 1 \in Index)
  BY <1>1 DEF Index
<1>4. Index \subseteq Nat /\ 0 \in Index
  BY <1>1 DEF Index
<1> QED BY <1>2, <1>3, <1>4 DEF AllAssumptions, RegistryAssumption

(* A stored generation is well typed, an absent one has no status.          *)
LEMMA GenerationFacts ==
  ASSUME RegistryTypeOK, NEW i \in Index
  PROVE  /\ Planned(i) <=> gens[i] \in Generation
         /\ ~Planned(i) <=> gens[i] = NoGeneration
<1>1. NoGeneration \notin Generation /\ \A g \in Generation : g.status # "absent"
  BY DEF NoGeneration, Generation, TerminalStatus
<1> QED BY <1>1 DEF RegistryTypeOK, Planned, NoGeneration

LEMMA HeadFacts ==
  ASSUME RegistryTypeOK, AllAssumptions
  PROVE  head # NoHead <=> head \in Head
BY DEF RegistryTypeOK, AllAssumptions, AbsenceAssumption

LEMMA Statuses ==
  ASSUME NEW o \in Outcomes
  PROVE  StatusFor(o) \in TerminalStatus
         /\ (StatusFor(o) \in Unsuccessful <=> o # "ready")
BY DEF Outcomes, StatusFor, TerminalStatus, Unsuccessful

(* The pairs of one generation, numbered.                                   *)
LEMMA RowOfPairs ==
  ASSUME NEW i \in Nat, NEW p \in Nat
  PROVE  IsFiniteSet({i} \X (1 .. p)) /\ Cardinality({i} \X (1 .. p)) = p
<1>1. IsFiniteSet({i}) /\ Cardinality({i}) = 1
  BY FS_Singleton
<1>2. IsFiniteSet(1 .. p) /\ Cardinality(1 .. p) = p
  BY FS_Interval
<1>3. /\ IsFiniteSet({i} \X (1 .. p))
      /\ Cardinality({i} \X (1 .. p)) = Cardinality({i}) * Cardinality(1 .. p)
  BY <1>1, <1>2, FS_Product
<1> QED BY <1>1, <1>2, <1>3

(* Counting one more: o among the outcomes, a bound campaign, spent pairs.  *)
LEMMA OneMore ==
  ASSUME NEW S, IsFiniteSet(S), NEW x, x \notin S
  PROVE  Cardinality(S \cup {x}) = Cardinality(S) + 1
BY FS_AddElement

LEMMA CountsBelow ==
  ASSUME NEW T, IsFiniteSet(T), NEW S, S \subseteq T
  PROVE  Cardinality(S) \in Nat /\ Cardinality(T) \in Nat /\ Cardinality(S) <= Cardinality(T)
BY FS_Subset, FS_CardinalityType

LEMMA PairsFinite ==
  ASSUME AllAssumptions
  PROVE  IsFiniteSet(SpentPairs)
<1>1. IsFiniteSet(Index) /\ IsFiniteSet(1 .. MaxPairs)
  BY Indexes, FS_Interval
<1>2. IsFiniteSet(Index \X (1 .. MaxPairs))
  BY <1>1, FS_Product
<1> QED BY <1>2, FS_Subset DEF SpentPairs

OutcomesOf(o) == {i \in Index : Done(i) /\ gens[i].outcome = o}
BoundTo == {i \in Index : Planned(i) /\ gens[i].campaign # NoCampaign}

(* The head as it follows from the generations, without the local names.    *)
Derived ==
  /\ Planned(head.cur)
  /\ \A i \in Index : Planned(i) => \A j \in 0 .. i : Planned(j)
  /\ head.rollbacks = Cardinality(OutcomesOf("rollback"))
  /\ head.holds = Cardinality(OutcomesOf("hold"))
  /\ head.spent = Cardinality(SpentPairs)
  /\ head.campaigns = Cardinality(BoundTo)

LEMMA DerivedHead == HeadMatchesGenerations <=> (head # NoHead => Derived)
BY DEF HeadMatchesGenerations, Derived, OutcomesOf, BoundTo

(* Whatever ended was preceded by generations that ended.                   *)
LEMMA DoneBelow ==
  ASSUME IInv, AllAssumptions, NEW j \in Index
  PROVE  /\ Planned(j) => head # NoHead /\ \A k \in 0 .. j : Planned(k)
         /\ Planned(j) => \A k \in 0 .. j : k < j => Done(k) /\ Status(k) \in Unsuccessful
         /\ Done(j) => \A k \in 0 .. j : Done(k)
<1>1. Planned(j) => head # NoHead /\ \A k \in 0 .. j : Planned(k)
  BY DerivedHead DEF IInv, ShapeInv, ShapeAt, Derived
<1>2. ASSUME Planned(j), NEW k \in 0 .. j, k < j
      PROVE  Done(k) /\ Status(k) \in Unsuccessful
  <2>1. k + 1 \in 0 .. j /\ k + 1 \in Index /\ k + 1 > 0 /\ (k + 1) - 1 = k /\ k \in Nat
    BY <1>2, Indexes
  <2>2. Planned(k + 1)
    BY <1>1, <1>2, <2>1
  <2>3. ChainInvAt(k + 1)
    BY <2>1 DEF IInv, ChainInv
  <2> QED BY <2>1, <2>2, <2>3 DEF ChainInvAt, MayContinue
<1>3. ASSUME Done(j), NEW k \in 0 .. j
      PROVE  Done(k)
  <2>1. k = j \/ k < j
    BY Indexes
  <2> QED BY <1>2, <1>3, <2>1 DEF Done
<1> QED BY <1>1, <1>2, <1>3

-----------------------------------------------------------------------------
(* What no step takes back *)

RegistryGoesOn ==
  /\ head # NoHead => head' # NoHead
  /\ \A i \in Index : Planned(i) =>
       /\ Planned(i)' /\ gens'[i].att = gens[i].att
       /\ gens[i].campaign # NoCampaign => gens'[i].campaign = gens[i].campaign
       /\ Done(i) => gens'[i] = gens[i]
  /\ \A s \in SignalId : signals[s] # NoSignal => signals'[s] = signals[s]
  /\ \A r \in ReceiptId : receipts[r] # NoSignal => receipts'[r] = receipts[r]
  /\ \A d \in DecisionId : decisions[d] # NoDecision => decisions'[d] = decisions[d]

CampaignsGoOn ==
  \A c \in CampaignId : Exists(c) /\ Decided(c) =>
    /\ Exists(c)' /\ Decided(c)' /\ camp'[c].cand = camp[c].cand
    /\ approvals'[c] = approvals[c] /\ trail'[c].evaluators = trail[c].evaluators

(* A worker keeps its record, or takes one that says what is true.          *)
JobsGoOn ==
  \A w \in Worker :
    job'[w] = job[w] \/ \E j \in Jobs \cup {Idle, Down} : job'[w] = j /\ JobInvAt(j)'

LEMMA RecordsStay ==
  ASSUME RegistryGoesOn, AllAssumptions, NEW i \in Index
  PROVE  /\ SignalsOf(i) \subseteq SignalsOf(i)' /\ Continuing(i) \subseteq Continuing(i)'
         /\ \A s \in SignalId : ReceiptsOf(s) \subseteq ReceiptsOf(s)'
         /\ Planned(i) => Planned(i)'
         /\ Done(i) => Done(i)' /\ gens'[i] = gens[i]
<1>1. SignalsOf(i) \subseteq SignalsOf(i)'
  BY DEF RegistryGoesOn, SignalsOf
<1>2. Continuing(i) \subseteq Continuing(i)'
  BY DEF RegistryGoesOn, Continuing, DecisionsOf
<1>3. \A s \in SignalId : ReceiptsOf(s) \subseteq ReceiptsOf(s)'
  BY DEF RegistryGoesOn, ReceiptsOf, AllAssumptions, RegistryAssumption
<1>4. Planned(i) => Planned(i)'
  BY DEF RegistryGoesOn
<1>5. Done(i) => Done(i)' /\ gens'[i] = gens[i]
  BY DEF RegistryGoesOn, Done
<1> QED BY <1>1, <1>2, <1>3, <1>4, <1>5

LEMMA MayContinueStays ==
  ASSUME RegistryGoesOn, AllAssumptions, IInv, NEW j \in Index, MayContinue(j)
  PROVE  MayContinue(j)'
<1>1. Done(j)' /\ gens'[j] = gens[j]
  BY RecordsStay DEF MayContinue
<1>2. \A k \in 0 .. j : k \in Index /\ gens'[k] = gens[k]
  BY DoneBelow, Indexes, RecordsStay DEF MayContinue
<1>3. \A o \in Outcomes : Ended(j, o)' = Ended(j, o)
  BY <1>2 DEF Ended
<1>4. Limits(j)'
  BY <1>3 DEF MayContinue, Limits, Outcomes
<1> QED BY <1>1, <1>4 DEF MayContinue, Status

LEMMA ApprovedStays ==
  ASSUME RegistryGoesOn, CampaignsGoOn, AllAssumptions, IInv,
         NEW i \in Index, i > 0, Planned(i), NEW c \in CampaignId, Approved(c, i)
  PROVE  Approved(c, i)'
<1>1. gens'[i].campaign = c /\ gens'[i].att = gens[i].att
  BY DEF RegistryGoesOn, Approved, AllAssumptions, RegistryAssumption
<1>2. /\ Exists(c)' /\ Decided(c)' /\ Of(c)' = Of(c)
      /\ Voters(c)' = Voters(c) /\ Approvers(c)' = Approvers(c)
      /\ trail'[c].evaluators = trail[c].evaluators
  BY DEF CampaignsGoOn, Approved, Of, Voters, Approvers
<1>3. i - 1 \in Index /\ Continuing(i - 1) \subseteq Continuing(i - 1)'
  BY Indexes, RecordsStay
<1> QED BY <1>1, <1>2, <1>3 DEF Approved

LEMMA JobInvStays ==
  ASSUME RegistryGoesOn, CampaignsGoOn, AllAssumptions, IInv,
         NEW j \in Jobs \cup {Idle, Down}, JobInvAt(j)
  PROVE  JobInvAt(j)'
<1>1. CASE j.pc \in {"signal", "receipt", "idle", "down"}
  BY <1>1 DEF JobInvAt
<1>2. CASE j \in [pc: {"decision"}, d: DecisionId, i: Index, a: Actions, rev: Nat]
  BY <1>2, MayContinueStays DEF JobInvAt
<1>3. CASE j \in [pc: {"plan", "find", "reserve"}, i: Index, s: SignalId, r: ReceiptId,
                  e: Evaluators, budget: Budgets, c: {NoCampaign}, rev: Nat]
            \cup [pc: {"advance", "bind"}, i: Index, s: SignalId, r: ReceiptId,
                  e: Evaluators, budget: Budgets, c: CampaignId, rev: Nat]
  <2>1. /\ j.i \in Index /\ j.i > 0 /\ Continuing(j.i - 1) # {}
        /\ j.pc \in {"plan", "find", "reserve", "advance", "bind"}
    BY <1>3 DEF JobInvAt
  <2>2. j.i - 1 \in Index
    BY <2>1, Indexes
  <2>3. Continuing(j.i - 1)' # {} /\ SignalsOf(j.i - 1) \subseteq SignalsOf(j.i - 1)'
    BY <2>1, <2>2, RecordsStay
  <2>4. j.pc = "plan" => j.s \in SignalsOf(j.i - 1)' /\ Attributed(j.r)
    BY <2>3 DEF JobInvAt
  <2> QED BY <2>1, <2>3, <2>4 DEF JobInvAt, Attributed
<1>4. CASE j \in [pc: {"authorize", "start"}, i: Index, c: CampaignId, rev: Nat]
            \cup [pc: {"complete", "close"}, i: Index, c: CampaignId, rev: Nat,
                  o: Outcomes, pairs: Nat]
  <2>1. /\ j.i \in Index /\ j.i > 0 /\ Planned(j.i) /\ Approved(j.c, j.i) /\ j.c \in CampaignId
        /\ j.pc \in {"authorize", "start", "complete", "close"}
    BY <1>4 DEF JobInvAt
  <2>2. Approved(j.c, j.i)' /\ Planned(j.i)'
    BY <2>1, ApprovedStays, RecordsStay
  <2>3. j.pc = "close" => Done(j.i)'
    BY <2>1, RecordsStay DEF JobInvAt
  <2> QED BY <2>1, <2>2, <2>3 DEF JobInvAt
<1> QED BY <1>1, <1>2, <1>3, <1>4 DEF Jobs, Idle, Down

LEMMA JobsStay ==
  ASSUME RegistryGoesOn, CampaignsGoOn, JobsGoOn, AllAssumptions, IInv
  PROVE  JobInv'
<1> SUFFICES ASSUME NEW w \in Worker PROVE JobInvAt(job[w])'
  BY DEF JobInv
<1>1. job[w] \in Jobs \cup {Idle, Down} /\ JobInvAt(job[w])
  BY DEF IInv, TypeOK, JobInv
<1>2. PICK j \in Jobs \cup {Idle, Down} : job'[w] = j /\ JobInvAt(j)'
  <2>1. CASE job'[w] = job[w]
    <3>1. PICK j \in Jobs \cup {Idle, Down} : j = job[w]
      BY <1>1
    <3>2. JobInvAt(j)'
      BY <1>1, <3>1, JobInvStays
    <3> QED BY <2>1, <3>1, <3>2
  <2> QED BY <2>1 DEF JobsGoOn
<1> QED BY <1>2 DEF JobInvAt

-----------------------------------------------------------------------------
(* The kinds of steps *)

LEMMA SameCampaigns ==
  ASSUME UNCHANGED <<campaignVars, trail>>
  PROVE  CampaignsGoOn
BY DEF campaignVars, CampaignsGoOn, Exists, Decided

LEMMA SameProgram ==
  ASSUME UNCHANGED programVars
  PROVE  RegistryGoesOn
BY DEF programVars, RegistryGoesOn, Planned, Done

(* A successor that was planned keeps what it was planned on.               *)
LEMMA ChainStays ==
  ASSUME IInv, AllAssumptions, RegistryGoesOn, NEW i \in Index, Planned(i),
         ~Done(i)' => /\ ~Done(i) /\ gens'[i].budget = gens[i].budget
                      /\ head'.spent = head.spent
  PROVE  ChainInvAt(i)'
<1> SUFFICES ASSUME i > 0 PROVE ChainInvAt(i)'
  BY DEF ChainInvAt
<1>1. ChainInvAt(i) /\ i - 1 \in Index
  BY Indexes DEF IInv, ChainInv
<1>2. MayContinue(i - 1)' /\ Continuing(i - 1)' # {}
  BY <1>1, MayContinueStays, RecordsStay DEF ChainInvAt
<1>3. gens'[i].att = gens[i].att
  BY DEF RegistryGoesOn
<1>4. gens'[i].att \in UNION {ReceiptsOf(s)' : s \in SignalsOf(i - 1)'}
  <2>1. PICK s \in SignalsOf(i - 1) : gens[i].att \in ReceiptsOf(s)
    BY <1>1 DEF ChainInvAt
  <2>2. s \in SignalId
    BY DEF SignalsOf
  <2>3. s \in SignalsOf(i - 1)' /\ gens'[i].att \in ReceiptsOf(s)'
    BY <1>1, <1>3, <2>1, <2>2, RecordsStay
  <2> QED BY <2>3
<1> QED BY <1>1, <1>2, <1>3, <1>4 DEF ChainInvAt, Attributed

(* What holds of a generation goes on to hold unless a step changes it.     *)
LEMMA OldGeneration ==
  ASSUME IInv, AllAssumptions, RegistryGoesOn, CampaignsGoOn, NEW i \in Index,
         gens'[i] = gens[i], Planned(i) /\ ~Done(i) => head'.spent = head.spent
  PROVE  ShapeAt(i)' /\ ChainInvAt(i)' /\ GenInvAt(i)'
<1>1. /\ Planned(i)' <=> Planned(i)
      /\ Done(i)' <=> Done(i)
      /\ Status(i)' = Status(i)
  BY DEF Planned, Done, Status
<1>2. ShapeAt(i)'
  BY <1>1 DEF IInv, ShapeInv, ShapeAt, RegistryGoesOn
<1>3. GenInvAt(i)'
  <2> SUFFICES ASSUME i > 0, Planned(i), Status(i) # "planned"
               PROVE  Approved(gens[i].campaign, i)'
    BY <1>1 DEF GenInvAt
  <2>1. PICK c \in CampaignId : c = gens[i].campaign
    <3>1. gens[i] \in Generation /\ gens[i].campaign # NoCampaign
      BY GenerationFacts DEF IInv, TypeOK, ShapeInv, ShapeAt
    <3> QED BY <3>1 DEF Generation
  <2>2. Approved(c, i)
    BY <2>1 DEF IInv, GenInv, GenInvAt
  <2>3. Approved(c, i)'
    BY <2>2, ApprovedStays
  <2> QED BY <2>1, <2>3 DEF Approved
<1>4. ChainInvAt(i)'
  <2>1. CASE Planned(i)
    BY <1>1, <2>1, ChainStays
  <2>2. CASE ~Planned(i)
    BY <1>1, <2>2 DEF ChainInvAt
  <2> QED BY <2>1, <2>2
<1> QED BY <1>2, <1>3, <1>4

LEMMA CompletedStays ==
  ASSUME IInv, AllAssumptions, RegistryGoesOn, camp' = camp
  PROVE  CompletedMeansTerminal'
<1> SUFFICES ASSUME NEW c \in CampaignId, Exists(c), camp[c].state = "completed"
             PROVE  Done(Of(c))'
  BY DEF CompletedMeansTerminal, Exists
<1>1. Done(Of(c)) /\ Of(c) \in Index /\ Of(c)' = Of(c)
  BY DEF IInv, CompletedMeansTerminal, Of, Done, Planned
<1>2. PICK i \in Index : i = Of(c)
  BY <1>1
<1>3. Done(i)'
  BY <1>1, <1>2, RecordsStay
<1> QED BY <1>1, <1>2, <1>3

(* A step that writes to generation i.                                      *)
LEMMA GenerationStep ==
  ASSUME IInv, AllAssumptions, NEW i \in Index, TypeOK', RegistryGoesOn, JobsGoOn,
         UNCHANGED <<campaignVars, trail, signals, receipts, decisions>>,
         \A k \in Index \ {i} : /\ gens'[k] = gens[k]
                                /\ Planned(k) /\ ~Done(k) => head'.spent = head.spent,
         ShapeAt(i)', ChainInvAt(i)', GenInvAt(i)', HeadMatchesGenerations'
  PROVE  IInv'
<1>1. CampaignsGoOn
  BY SameCampaigns
<1>2. \A k \in Index : ShapeAt(k)' /\ ChainInvAt(k)' /\ GenInvAt(k)'
  <2> SUFFICES ASSUME NEW k \in Index, k # i
               PROVE  ShapeAt(k)' /\ ChainInvAt(k)' /\ GenInvAt(k)'
    OBVIOUS
  <2> QED BY <1>1, OldGeneration
<1>3. DecisionInv'
  <2> SUFFICES ASSUME NEW k \in Index, Continuing(k)' # {} PROVE MayContinue(k)'
    BY DEF DecisionInv, DecisionInvAt
  <2>1. Continuing(k) # {}
    BY DEF Continuing, DecisionsOf
  <2> QED BY <2>1, MayContinueStays DEF IInv, DecisionInv, DecisionInvAt
<1>4. JobInv' /\ CompletedMeansTerminal'
  BY <1>1, JobsStay, CompletedStays DEF campaignVars
<1> QED BY <1>2, <1>3, <1>4 DEF IInv, ShapeInv, ChainInv, GenInv

(* A step that stores a signal, a receipt or a decision.                    *)
LEMMA RecordStep ==
  ASSUME IInv, AllAssumptions, TypeOK', RegistryGoesOn, JobsGoOn,
         UNCHANGED <<campaignVars, trail, gens>>,
         \/ head' = head
         \/ /\ head # NoHead /\ head'.cur = head.cur /\ head'.rollbacks = head.rollbacks
            /\ head'.holds = head.holds /\ head'.campaigns = head.campaigns
            /\ head'.spent = head.spent,
         \A i \in Index : Continuing(i)' # {} => MayContinue(i)
  PROVE  IInv'
<1>1. CampaignsGoOn
  BY SameCampaigns
<1>2. \A k \in Index : ShapeAt(k)' /\ ChainInvAt(k)' /\ GenInvAt(k)'
  <2> SUFFICES ASSUME NEW k \in Index
               PROVE  ShapeAt(k)' /\ ChainInvAt(k)' /\ GenInvAt(k)'
    OBVIOUS
  <2>1. head'.spent = head.spent
    OBVIOUS
  <2> QED BY <1>1, <2>1, OldGeneration
<1>3. DecisionInv'
  BY MayContinueStays DEF DecisionInv, DecisionInvAt
<1>4. JobInv' /\ CompletedMeansTerminal'
  BY <1>1, JobsStay, CompletedStays DEF campaignVars
<1>5. HeadMatchesGenerations'
  <2> SUFFICES ASSUME head' # NoHead PROVE Derived'
    BY DerivedHead DEF Derived, HeadMatchesGenerations, OutcomesOf, BoundTo
  <2>1. Derived /\ head # NoHead
    BY DerivedHead DEF IInv
  <2>2. /\ head'.cur = head.cur /\ head'.rollbacks = head.rollbacks
        /\ head'.holds = head.holds /\ head'.campaigns = head.campaigns
        /\ head'.spent = head.spent
    OBVIOUS
  <2>3. /\ \A i : Planned(i)' <=> Planned(i)
        /\ \A i : Done(i)' <=> Done(i)
    BY DEF Planned, Done
  <2>4. /\ OutcomesOf("rollback")' = OutcomesOf("rollback")
        /\ OutcomesOf("hold")' = OutcomesOf("hold")
        /\ SpentPairs' = SpentPairs /\ BoundTo' = BoundTo
    BY <2>3 DEF OutcomesOf, SpentPairs, BoundTo
  <2> QED BY <2>1, <2>2, <2>3, <2>4 DEF Derived
<1> QED BY <1>2, <1>3, <1>4, <1>5 DEF IInv, ShapeInv, ChainInv, GenInv

(* A step in which only a worker's record changes.                          *)
LEMMA JobStep ==
  ASSUME IInv, AllAssumptions, UNCHANGED <<campaignVars, programVars, trail>>,
         NEW w \in Worker, NEW j \in Jobs \cup {Idle, Down}, JobInvAt(j),
         job' = [job EXCEPT ![w] = j]
  PROVE  IInv'
<1>1. RegistryGoesOn
  BY SameProgram
<1>2. CampaignsGoOn
  BY SameCampaigns
<1>3. TypeOK'
  BY DEF IInv, TypeOK, campaignVars, programVars, CampaignsTypeOK, RegistryTypeOK
<1>4. JobsGoOn
  <2>1. JobInvAt(j)'
    BY <1>1, <1>2, JobInvStays
  <2> QED BY <2>1 DEF JobsGoOn, IInv, TypeOK
<1>5. \A i \in Index : Continuing(i)' # {} => MayContinue(i)
  BY DEF programVars, IInv, DecisionInv, DecisionInvAt, Continuing, DecisionsOf
<1> QED BY <1>1, <1>3, <1>4, <1>5, RecordStep DEF programVars

(* A step of the campaigns and their trails.                                *)
LEMMA SameProgramStep ==
  ASSUME IInv, AllAssumptions, UNCHANGED programVars, TypeOK', CampaignsGoOn, JobsGoOn,
         CompletedMeansTerminal'
  PROVE  IInv'
<1>1. RegistryGoesOn
  BY SameProgram
<1>2. \A k \in Index : ShapeAt(k)' /\ ChainInvAt(k)' /\ GenInvAt(k)'
  <2> SUFFICES ASSUME NEW k \in Index
               PROVE  ShapeAt(k)' /\ ChainInvAt(k)' /\ GenInvAt(k)'
    OBVIOUS
  <2>1. gens'[k] = gens[k] /\ head'.spent = head.spent
    BY DEF programVars
  <2> QED BY <1>1, <2>1, OldGeneration
<1>3. DecisionInv'
  <2>1. \A k \in Index : Continuing(k)' = Continuing(k)
    BY DEF programVars, Continuing, DecisionsOf
  <2> QED BY <1>1, <2>1, MayContinueStays DEF IInv, DecisionInv, DecisionInvAt
<1>4. HeadMatchesGenerations'
  BY DEF IInv, HeadMatchesGenerations, programVars, Planned, Done, SpentPairs
<1>5. JobInv'
  BY <1>1, JobsStay
<1> QED BY <1>2, <1>3, <1>4, <1>5 DEF IInv, ShapeInv, ChainInv, GenInv

(* A transaction of the campaign database.                                  *)
LEMMA CampaignStep ==
  ASSUME IInv, AllAssumptions, NEW c \in CampaignId, Transaction(c, 0), UNCHANGED programVars,
         trail' \in [CampaignId -> [evaluators: SUBSET Actor, reused: BOOLEAN]],
         job' \in [Worker -> Jobs \cup {Idle, Down}], JobsGoOn,
         \A d \in CampaignId : Decided(d) => trail'[d].evaluators = trail[d].evaluators,
         camp'[c].state = "completed" => Done(camp'[c].cand)
  PROVE  IInv'
<1>1. CampaignsTypeOK
  BY DEF IInv, TypeOK
<1>2. CampaignsGoOn
  BY <1>1, DecidedStays DEF CampaignsGoOn
<1>3. TypeOK'
  BY <1>1, TransactionType DEF IInv, TypeOK, programVars, RegistryTypeOK, AllAssumptions
<1>4. CompletedMeansTerminal'
  <2> SUFFICES ASSUME NEW d \in CampaignId, camp'[d].state = "completed"
               PROVE  Done(camp'[d].cand)
    BY DEF CompletedMeansTerminal, Of, Done, Planned, programVars
  <2>1. CASE d = c
    BY <2>1
  <2>2. CASE d # c
    <3>1. camp'[d] = camp[d]
      BY <1>1, <2>2, OthersUntouched
    <3> QED BY <3>1 DEF IInv, CompletedMeansTerminal, Of, Exists
  <2> QED BY <2>1, <2>2
<1> QED BY <1>2, <1>3, <1>4, SameProgramStep

-----------------------------------------------------------------------------
(* What the checks of the calls establish *)

(* The gate lets a program continue only where its limits allow it.         *)
LEMMA GateIsRight ==
  ASSUME IInv, AllAssumptions, NEW i \in Index, Done(i), NEW r, GateAction(i, r) = "continue"
  PROVE  MayContinue(i)
<1>0. /\ RegistryTypeOK /\ Planned(i) /\ i \in Nat
      /\ \A k \in 0 .. i : k \in Index /\ Done(k) /\ (k < i => Status(k) \in Unsuccessful)
      /\ \A k \in Index : ShapeAt(k)
  BY Indexes, DoneBelow DEF IInv, TypeOK, Done, ShapeInv
<1>1. gens[i].outcome # "ready" /\ ~BudgetExhausted
  <2>1. CASE gens[i].outcome = "ready"
    BY <2>1 DEF GateAction
  <2>2. CASE gens[i].outcome # "ready" /\ BudgetExhausted
    BY <2>2 DEF GateAction
  <2> QED BY <2>1, <2>2
<1>2. \A k \in 0 .. i : gens[k].outcome \in Outcomes \ {"ready"} /\ Status(k) \in Unsuccessful
  <2> SUFFICES ASSUME NEW k \in 0 .. i
               PROVE  gens[k].outcome \in Outcomes \ {"ready"} /\ Status(k) \in Unsuccessful
    OBVIOUS
  <2>1. Done(k) /\ gens[k] \in Generation /\ Status(k) = StatusFor(gens[k].outcome)
    BY <1>0, GenerationFacts DEF Done, ShapeAt
  <2>2. gens[k].outcome \in Outcomes
    BY <2>1 DEF Done, Generation
  <2>3. k = i \/ k < i
    BY <1>0
  <2> QED BY <1>0, <1>1, <2>1, <2>2, <2>3, Statuses
<1>3. head # NoHead /\ Derived /\ head \in Head
  BY <1>0, DerivedHead, HeadFacts DEF IInv, ShapeAt
<1>4. ASSUME NEW o \in Outcomes
      PROVE  /\ Cardinality(Ended(i, o)) \in Nat /\ Cardinality(OutcomesOf(o)) \in Nat
             /\ Cardinality(Ended(i, o)) <= Cardinality(OutcomesOf(o))
  <2>1. Ended(i, o) \subseteq OutcomesOf(o) /\ OutcomesOf(o) \subseteq Index
    BY <1>0 DEF Ended, OutcomesOf
  <2>2. IsFiniteSet(OutcomesOf(o))
    BY <2>1, Indexes, FS_Subset
  <2> QED BY <2>1, <2>2, CountsBelow
<1>5. /\ Cardinality(Ended(i, "rollback")) = 0 \/ Cardinality(Ended(i, "rollback")) < MaxRollbacks
      /\ Cardinality(Ended(i, "hold")) = 0 \/ Cardinality(Ended(i, "hold")) < MaxHolds
  <2>1. MaxRollbacks \in Nat /\ MaxHolds \in Nat
    BY Indexes
  <2>2. /\ head.rollbacks = Cardinality(OutcomesOf("rollback"))
        /\ head.holds = Cardinality(OutcomesOf("hold"))
    BY <1>3 DEF Derived
  <2>3. /\ ~(head.rollbacks > 0 /\ head.rollbacks >= MaxRollbacks)
        /\ ~(head.holds > 0 /\ head.holds >= MaxHolds)
    BY <1>1 DEF BudgetExhausted
  <2>4. "rollback" \in Outcomes /\ "hold" \in Outcomes
    BY DEF Outcomes
  <2> QED BY <1>4, <2>1, <2>2, <2>3, <2>4
<1>6. i + 1 <= MaxNonImproving
  <2>1. CASE i + 1 \in Index /\ Planned(i + 1)
    <3>1. ChainInvAt(i + 1) /\ (i + 1) - 1 = i /\ i + 1 > 0
      BY <1>0, <2>1 DEF IInv, ChainInv
    <3> QED BY <2>1, <3>1 DEF ChainInvAt, MayContinue, Limits
  <2>2. CASE ~(i + 1 \in Index /\ Planned(i + 1))
    <3> DEFINE Since == {k \in Index : Done(k) /\
                           \A j \in Index : j >= k /\ Done(j) => gens[j].outcome # "ready"}
    <3>1. \A k \in Index : Done(k) => k \in 0 .. i
      <4> SUFFICES ASSUME NEW k \in Index, Done(k), k > i PROVE FALSE
        BY <1>0, Indexes
      <4>1. i + 1 \in 0 .. k
        BY <1>0, Indexes
      <4>2. i + 1 \in Index /\ Planned(i + 1)
        BY <4>1, Indexes, DoneBelow DEF Done
      <4> QED BY <2>2, <4>2
    <3>2. Since = 0 .. i
      BY <1>0, <1>2, <3>1
    <3>3. Cardinality(0 .. i) = i + 1
      BY <1>0, FS_Interval
    <3>4. ~(NonImproving > MaxNonImproving) /\ NonImproving = Cardinality(Since)
      BY <1>1 DEF BudgetExhausted, NonImproving
    <3>5. MaxNonImproving \in Nat
      BY Indexes
    <3> HIDE DEF Since
    <3> QED BY <1>0, <3>2, <3>3, <3>4, <3>5
  <2> QED BY <2>1, <2>2
<1>7. i + 1 <= MaxCampaigns
  <2>1. 1 .. i \subseteq BoundTo /\ BoundTo \subseteq Index
    <3> SUFFICES ASSUME NEW k \in 1 .. i PROVE k \in BoundTo
      BY DEF BoundTo
    <3>1. k \in 0 .. i /\ k > 0
      BY <1>0
    <3>2. k \in Index /\ Planned(k) /\ Status(k) # "planned"
      BY <1>0, <1>2, <3>1 DEF Done, Unsuccessful
    <3> QED BY <1>0, <3>1, <3>2 DEF ShapeAt, BoundTo
  <2>2. IsFiniteSet(BoundTo)
    BY <2>1, Indexes, FS_Subset
  <2>3. Cardinality(1 .. i) = i
    BY <1>0, FS_Interval
  <2>4. i <= Cardinality(BoundTo) /\ Cardinality(BoundTo) \in Nat
    BY <2>1, <2>2, <2>3, CountsBelow
  <2>5. ~(head.campaigns >= MaxCampaigns) /\ head.campaigns = Cardinality(BoundTo)
    BY <1>1, <1>3 DEF BudgetExhausted, Derived
  <2>6. MaxCampaigns \in Nat
    BY Indexes
  <2> QED BY <1>0, <2>4, <2>5, <2>6
<1>8. Status(i) \in Unsuccessful
  BY <1>0, <1>2
<1> QED BY <1>5, <1>6, <1>7, <1>8 DEF MayContinue, Limits

LEMMA GateType ==
  ASSUME IInv, AllAssumptions, NEW i \in Index, Done(i), NEW r
  PROVE  GateAction(i, r) \in Actions
<1>1. CASE gens[i].outcome = "ready"
  BY <1>1 DEF GateAction, Actions
<1>2. CASE gens[i].outcome # "ready" /\ BudgetExhausted
  BY <1>2 DEF GateAction, Actions
<1>3. CASE gens[i].outcome # "ready" /\ ~BudgetExhausted
  BY <1>3 DEF GateAction, Actions
<1> QED BY <1>1, <1>2, <1>3

LEMMA OneDecision ==
  ASSUME IInv, AllAssumptions, NEW i \in Index, HasContinueDecision(i)
  PROVE  /\ i > 0 /\ i - 1 \in Index /\ Continuing(i - 1) # {}
         /\ ContinueDecision(i) \in Continuing(i - 1)
         /\ head # NoHead /\ head \in Head /\ head.rev \in Nat
<1>1. i - 1 \in Index /\ Cardinality(Continuing(i - 1)) = 1
  BY DEF HasContinueDecision
<1>2. i > 0
  BY <1>1, Indexes DEF Index
<1>3. Continuing(i - 1) # {}
  BY <1>1, FS_EmptySet
<1>4. ContinueDecision(i) \in Continuing(i - 1)
  BY <1>3 DEF ContinueDecision
<1>5. head # NoHead
  BY <1>1, <1>3 DEF IInv, DecisionInv, DecisionInvAt, MayContinue, Done, ShapeInv, ShapeAt
<1>6. head \in Head /\ head.rev \in Nat
  BY <1>5, HeadFacts DEF IInv, TypeOK, Head
<1> QED BY <1>1, <1>2, <1>3, <1>4, <1>5, <1>6

(* Whoever may operate finds the campaign approved.                         *)
LEMMA OperatorSees ==
  ASSUME IInv, AllAssumptions, NEW i \in Index, NEW c \in CampaignId, MayOperate(c, i)
  PROVE  i > 0 /\ Planned(i) /\ Approved(c, i)
<1>1. /\ Exists(c) /\ Of(c) = i /\ Planned(i) /\ gens[i].campaign = c /\ HasContinueDecision(i)
      /\ camp[c].state = "authorized" /\ ApprovalsAreValid(c)
  BY DEF MayOperate, CampaignIsOf
<1>2. Approvers(c) \subseteq Voters(c) /\ Voters(c) \subseteq Actor
  BY DEF Approvers, Voters
<1>3. IsFiniteSet(Voters(c))
  BY <1>2, FS_Subset DEF AllAssumptions, CampaignsAssumption
<1>4. Voters(c) = Approvers(c) /\ Cardinality(Voters(c)) = 2
  BY <1>1, <1>2, <1>3, FS_Subset DEF ApprovalsAreValid
<1>5. Voters(c) \cap (Privileged(i, gens[i].att) \cup trail[c].evaluators) = {}
  BY <1>1, <1>4 DEF ApprovalsAreValid, Forbidden
<1>6. i > 0 /\ ContinueDecision(i) \in Continuing(i - 1)
  BY <1>1, OneDecision
<1>7. decider[ContinueDecision(i)] \notin Voters(c)
  BY <1>5 DEF Privileged
<1>8. Voters(c) \cap ({producer, attributor[gens[i].att]} \cup trail[c].evaluators) = {}
  BY <1>5 DEF Privileged
<1>9. Decided(c)
  BY <1>1 DEF Decided
<1> QED BY <1>1, <1>4, <1>6, <1>7, <1>8, <1>9 DEF Approved

-----------------------------------------------------------------------------
(* Calls begin *)

LEMMA FeedbackCall ==
  ASSUME IInv, AllAssumptions, NEW w \in Worker, NEW s \in SignalId, NEW i \in Index,
         NEW by \in Ingestors, StoreFeedbackCheck(w, s, i, by)
  PROVE  IInv'
<1>1. PICK j : j = [pc |-> "signal", s |-> s, i |-> i, by |-> by]
  OBVIOUS
<1>2. j \in Jobs /\ JobInvAt(j)
  BY <1>1 DEF Jobs, JobInvAt, AllAssumptions, ControllerAssumption
<1> QED BY <1>1, <1>2, JobStep DEF StoreFeedbackCheck

LEMMA AttributionCall ==
  ASSUME IInv, AllAssumptions, NEW w \in Worker, NEW r \in ReceiptId, NEW s \in SignalId,
         StoreAttributionCheck(w, r, s)
  PROVE  IInv'
<1>1. PICK j : j = [pc |-> "receipt", r |-> r, s |-> s]
  OBVIOUS
<1>2. j \in Jobs /\ JobInvAt(j)
  BY <1>1 DEF Jobs, JobInvAt
<1> QED BY <1>1, <1>2, JobStep DEF StoreAttributionCheck

LEMMA DecideCall ==
  ASSUME IInv, AllAssumptions, NEW w \in Worker, NEW d \in DecisionId, NEW i \in Index,
         NEW r, DecideCheck(w, d, i, r)
  PROVE  IInv'
<1>1. Done(i)
  BY DEF DecideCheck
<1>2. PICK a \in Actions : a = GateAction(i, r)
  BY <1>1, GateType
<1>3. head.rev \in Nat
  BY <1>1, HeadFacts DEF IInv, TypeOK, ShapeInv, ShapeAt, Done, Head
<1>4. PICK j : j = [pc |-> "decision", d |-> d, i |-> i, a |-> a, rev |-> head.rev]
  OBVIOUS
<1>5. j \in Jobs /\ j.pc = "decision" /\ j.a = a /\ j.i = i
  BY <1>3, <1>4 DEF Jobs
<1>6. JobInvAt(j)
  BY <1>1, <1>2, <1>5, GateIsRight DEF JobInvAt
<1>7. job' = [job EXCEPT ![w] = j]
  BY <1>2, <1>4 DEF DecideCheck
<1> QED BY <1>5, <1>6, <1>7, JobStep DEF DecideCheck

LEMMA SubmitCall ==
  ASSUME IInv, AllAssumptions, NEW w \in Worker, NEW i \in Index, NEW s \in SignalId,
         NEW r \in ReceiptId, NEW e \in Evaluators, NEW budget \in Budgets,
         SubmitCheck(w, i, s, r, e, budget)
  PROVE  IInv'
<1>1. /\ i > 0 /\ Continuing(i - 1) # {} /\ head.rev \in Nat
      /\ s \in SignalsOf(i - 1) /\ Attributed(r)
  BY OneDecision DEF SubmitCheck, UniqueEvidence
<1>2. PICK pc, c : /\ pc = IF ~Planned(i) THEN "plan"
                           ELSE IF gens[i].campaign = NoCampaign THEN "find" ELSE "advance"
                   /\ c = IF Planned(i) THEN gens[i].campaign ELSE NoCampaign
  OBVIOUS
<1>3. PICK j : j = [pc |-> pc, i |-> i, s |-> s, r |-> r, e |-> e, budget |-> budget,
                    c |-> c, rev |-> head.rev]
  OBVIOUS
<1>4. \/ pc \in {"plan", "find"} /\ c = NoCampaign
      \/ pc = "advance" /\ c \in CampaignId
  <2>1. Planned(i) => gens[i].campaign \in CampaignId \cup {NoCampaign}
    BY GenerationFacts DEF IInv, TypeOK, Generation
  <2> QED BY <1>2, <2>1
<1>5. j \in Jobs
  <2>1. CASE pc \in {"plan", "find"} /\ c = NoCampaign
    BY <1>1, <1>3, <2>1 DEF Jobs
  <2>2. CASE pc = "advance" /\ c \in CampaignId
    BY <1>1, <1>3, <2>2 DEF Jobs
  <2> QED BY <1>4, <2>1, <2>2
<1>6. JobInvAt(j)
  BY <1>1, <1>3, <1>4 DEF JobInvAt
<1>7. job' = [job EXCEPT ![w] = j]
  BY <1>2, <1>3 DEF SubmitCheck
<1> QED BY <1>5, <1>6, <1>7, JobStep DEF SubmitCheck

LEMMA BeginCall ==
  ASSUME IInv, AllAssumptions, NEW w \in Worker, NEW i \in Index, NEW c \in CampaignId,
         NEW pc \in {"authorize", "start"}, Begin(w, pc, i, c)
  PROVE  IInv'
<1>1. i > 0 /\ Planned(i) /\ Approved(c, i) /\ head.rev \in Nat
  BY OperatorSees, OneDecision DEF Begin, MayOperate, CampaignIsOf
<1>2. PICK j : j = [pc |-> pc, i |-> i, c |-> c, rev |-> head.rev]
  OBVIOUS
<1>3. j \in Jobs /\ j.pc = pc /\ j.i = i /\ j.c = c
  BY <1>1, <1>2 DEF Jobs
<1>4. JobInvAt(j)
  BY <1>1, <1>3 DEF JobInvAt
<1> QED BY <1>2, <1>3, <1>4, JobStep DEF Begin

LEMMA CompleteBegins ==
  ASSUME IInv, AllAssumptions, NEW w \in Worker, NEW i \in Index, NEW c \in CampaignId,
         NEW o \in Outcomes, NEW pairs \in 0 .. MaxPairs, CompleteCheck(w, i, c, o, pairs)
  PROVE  IInv'
<1>1. /\ i > 0 /\ Planned(i) /\ Approved(c, i) /\ head.rev \in Nat /\ Exists(c)
  BY OperatorSees, OneDecision DEF CompleteCheck, MayOperate, CampaignIsOf
<1>2. camp[c].rev \in Nat /\ pairs \in Nat
  BY <1>1, RowFacts, Indexes DEF IInv, TypeOK, RowBy
<1>3. PICK pc, rev : /\ pc = CompletePc(i)
                    /\ rev = IF CompletePc(i) = "close" THEN camp[c].rev ELSE head.rev
  OBVIOUS
<1>4. PICK j : j = [pc |-> pc, i |-> i, c |-> c, o |-> o, pairs |-> pairs, rev |-> rev]
  OBVIOUS
<1>5. j \in Jobs /\ j.pc = pc /\ j.i = i /\ j.c = c
  <2>1. rev \in Nat /\ pc \in {"complete", "close"}
    BY <1>1, <1>2, <1>3 DEF CompletePc
  <2> QED BY <1>2, <1>4, <2>1 DEF Jobs
<1>6. pc \in {"complete", "close"} /\ (pc = "close" => Done(i))
  BY <1>3 DEF CompletePc
<1>7. JobInvAt(j)
  BY <1>1, <1>5, <1>6 DEF JobInvAt
<1>8. job' = [job EXCEPT ![w] = j]
  BY <1>3, <1>4 DEF CompleteCheck
<1> QED BY <1>5, <1>7, <1>8, JobStep DEF CompleteCheck

LEMMA CallStep ==
  ASSUME IInv, AllAssumptions, NEW w \in Worker, Call(w)
  PROVE  IInv'
<1>1. CASE \E i \in Index, s \in SignalId, by \in Ingestors : StoreFeedbackCheck(w, s, i, by)
  BY <1>1, FeedbackCall
<1>2. CASE \E r \in ReceiptId, s \in SignalId : StoreAttributionCheck(w, r, s)
  BY <1>2, AttributionCall
<1>3. CASE \E d \in DecisionId, i \in Index, r \in ReceiptId \cup {NoReceipt} : DecideCheck(w, d, i, r)
  BY <1>3, DecideCall
<1>4. CASE Submit(w)
  BY <1>4, SubmitCall DEF Submit
<1>5. CASE CompleteCall(w)
  BY <1>5, CompleteBegins DEF CompleteCall
<1>6. CASE \E i \in Index, c \in CampaignId : SynchronizeCheck(w, i, c) \/ StartCheck(w, i, c)
  BY <1>6, BeginCall DEF SynchronizeCheck, StartCheck
<1> QED BY <1>1, <1>2, <1>3, <1>4, <1>5, <1>6 DEF Call

-----------------------------------------------------------------------------
(* Calls go on: transactions of the program database *)

(* The records of calls, by the step they are at.                           *)
LEMMA JobFacts ==
  ASSUME IInv, NEW w \in Worker
  PROVE  /\ job[w] \in Jobs \cup {Idle, Down} /\ JobInvAt(job[w])
         /\ job[w].pc = "signal" => job[w] \in [pc: {"signal"}, s: SignalId, i: Index, by: Actor]
         /\ job[w].pc = "receipt" => job[w] \in [pc: {"receipt"}, r: ReceiptId, s: SignalId]
         /\ job[w].pc = "decision" =>
              job[w] \in [pc: {"decision"}, d: DecisionId, i: Index, a: Actions, rev: Nat]
         /\ job[w].pc \in {"plan", "find", "reserve"} =>
              job[w] \in [pc: {"plan", "find", "reserve"}, i: Index, s: SignalId, r: ReceiptId,
                          e: Evaluators, budget: Budgets, c: {NoCampaign}, rev: Nat]
         /\ job[w].pc \in {"advance", "bind"} =>
              job[w] \in [pc: {"advance", "bind"}, i: Index, s: SignalId, r: ReceiptId,
                          e: Evaluators, budget: Budgets, c: CampaignId, rev: Nat]
         /\ job[w].pc \in {"authorize", "start"} =>
              job[w] \in [pc: {"authorize", "start"}, i: Index, c: CampaignId, rev: Nat]
         /\ job[w].pc \in {"complete", "close"} =>
              job[w] \in [pc: {"complete", "close"}, i: Index, c: CampaignId, rev: Nat,
                          o: Outcomes, pairs: Nat]
<1>1. job[w] \in Jobs \cup {Idle, Down} /\ JobInvAt(job[w])
  BY DEF IInv, TypeOK, JobInv
<1> QED BY <1>1 DEF Jobs, Idle, Down

LEMMA JobTo ==
  ASSUME IInv, NEW w \in Worker, NEW j \in Jobs \cup {Idle, Down}, JobInvAt(j)',
         job' = [job EXCEPT ![w] = j]
  PROVE  JobsGoOn /\ job' \in [Worker -> Jobs \cup {Idle, Down}]
BY DEF JobsGoOn, IInv, TypeOK

LEMMA JobReturns ==
  ASSUME IInv, NEW w \in Worker, Return(w)
  PROVE  JobsGoOn /\ job' \in [Worker -> Jobs \cup {Idle, Down}]
<1>1. JobInvAt(Idle)'
  BY DEF JobInvAt, Idle
<1> QED BY <1>1, JobTo DEF Return

LEMMA StoreFeedbackStep ==
  ASSUME IInv, AllAssumptions, NEW w \in Worker, StoreFeedback(w)
  PROVE  IInv'
<1>1. PICK s \in SignalId, i \in Index, by \in Actor :
        s = job[w].s /\ i = job[w].i /\ by = job[w].by
  BY JobFacts DEF StoreFeedback
<1>2. /\ StoreSignal(s, i, by) /\ Return(w) /\ UNCHANGED <<campaignVars, trail>>
  BY <1>1 DEF StoreFeedback
<1>3. PICK x \in Signal : x = [gen |-> i, by |-> by]
  BY DEF Signal
<1>4. signals' = [signals EXCEPT ![s] = x] /\ signals[s] = NoSignal
  BY <1>2, <1>3 DEF StoreSignal
<1>5. TypeOK'
  BY <1>2, <1>4, JobReturns DEF StoreSignal, IInv, TypeOK, RegistryTypeOK, campaignVars,
                                CampaignsTypeOK
<1>6. RegistryGoesOn
  BY <1>2, <1>4 DEF StoreSignal, RegistryGoesOn, Planned, Done, IInv, TypeOK, RegistryTypeOK
<1>7. \A k \in Index : Continuing(k)' # {} => MayContinue(k)
  BY <1>2 DEF StoreSignal, Continuing, DecisionsOf, IInv, DecisionInv, DecisionInvAt
<1> QED BY <1>2, <1>5, <1>6, <1>7, JobReturns, RecordStep DEF StoreSignal

LEMMA StoreAttributionStep ==
  ASSUME IInv, AllAssumptions, NEW w \in Worker, StoreAttribution(w)
  PROVE  IInv'
<1>1. PICK r \in ReceiptId, s \in SignalId : r = job[w].r /\ s = job[w].s
  BY JobFacts DEF StoreAttribution
<1>2. /\ StoreReceipt(r, s) /\ Return(w) /\ UNCHANGED <<campaignVars, trail>>
  BY <1>1 DEF StoreAttribution
<1>3. TypeOK'
  BY <1>2, JobReturns DEF StoreReceipt, IInv, TypeOK, RegistryTypeOK, campaignVars, CampaignsTypeOK
<1>4. RegistryGoesOn
  BY <1>2 DEF StoreReceipt, RegistryGoesOn, Planned, Done, IInv, TypeOK, RegistryTypeOK
<1>5. \A k \in Index : Continuing(k)' # {} => MayContinue(k)
  BY <1>2 DEF StoreReceipt, Continuing, DecisionsOf, IInv, DecisionInv, DecisionInvAt
<1> QED BY <1>2, <1>3, <1>4, <1>5, JobReturns, RecordStep DEF StoreReceipt

LEMMA MovedHead ==
  ASSUME NEW h \in Head, NEW state \in ProgramStates, NEW n \in Nat
  PROVE  [h EXCEPT !.state = state, !.rev = n] \in Head
BY DEF Head

LEMMA DecideStep ==
  ASSUME IInv, AllAssumptions, NEW w \in Worker, Decide(w)
  PROVE  IInv'
<1>1. PICK d \in DecisionId, i \in Index, a \in Actions, rev \in Nat :
        d = job[w].d /\ i = job[w].i /\ a = job[w].a /\ rev = job[w].rev
  BY JobFacts DEF Decide
<1>2. StoreDecision(d, i, a, rev) /\ Return(w) /\ UNCHANGED <<campaignVars, trail>>
  BY <1>1 DEF Decide
<1>3. PICK x \in Decision : x = [gen |-> i, action |-> a]
  BY DEF Decision
<1>4. decisions' = [decisions EXCEPT ![d] = x] /\ decisions[d] = NoDecision
  BY <1>2, <1>3 DEF StoreDecision
<1>5. head # NoHead /\ head \in Head
  BY <1>2, HeadFacts DEF StoreDecision, AtRevision, IInv, TypeOK
<1>6. PICK n \in Nat, state \in ProgramStates : n = head.rev + 1 /\ state = StateForAction(a)
  <2>1. StateForAction(a) \in ProgramStates
    BY DEF Actions, StateForAction, ProgramStates
  <2> QED BY <1>5, <2>1 DEF Head
<1>7. head' = [head EXCEPT !.state = state, !.rev = n]
  BY <1>2, <1>6 DEF StoreDecision
<1>8. head' \in Head
  BY <1>5, <1>7, MovedHead
<1>9. /\ head'.cur = head.cur /\ head'.rollbacks = head.rollbacks
      /\ head'.holds = head.holds /\ head'.campaigns = head.campaigns
      /\ head'.spent = head.spent /\ head' # NoHead
  BY <1>5, <1>7, <1>8 DEF Head, AllAssumptions, AbsenceAssumption
<1>10. TypeOK'
  BY <1>2, <1>4, <1>8, JobReturns DEF StoreDecision, IInv, TypeOK, RegistryTypeOK, campaignVars,
                                      CampaignsTypeOK
<1>11. RegistryGoesOn
  BY <1>2, <1>4, <1>9 DEF StoreDecision, RegistryGoesOn, Planned, Done, IInv, TypeOK,
                          RegistryTypeOK
<1>12. \A k \in Index : Continuing(k)' # {} => MayContinue(k)
  <2> SUFFICES ASSUME NEW k \in Index, NEW e \in DecisionId, e \in Continuing(k)'
               PROVE  MayContinue(k)
    BY DEF Continuing, DecisionsOf
  <2>1. CASE e = d
    <3>1. k = i /\ a = "continue"
      BY <1>3, <1>4, <2>1 DEF Continuing, DecisionsOf, IInv, TypeOK, RegistryTypeOK
    <3>2. job[w].pc = "decision" /\ JobInvAt(job[w])
      BY JobFacts DEF Decide
    <3> QED BY <1>1, <3>1, <3>2 DEF JobInvAt
  <2>2. CASE e # d
    <3>1. e \in Continuing(k)
      BY <1>4, <2>2 DEF Continuing, DecisionsOf, IInv, TypeOK, RegistryTypeOK
    <3> QED BY <3>1 DEF IInv, DecisionInv, DecisionInvAt
  <2> QED BY <2>1, <2>2
<1> QED BY <1>2, <1>5, <1>9, <1>10, <1>11, <1>12, JobReturns, RecordStep DEF StoreDecision

-----------------------------------------------------------------------------
(* Transactions that write to a generation *)

(* A step that leaves the outcomes alone and binds no campaign counts none. *)
LEMMA SameCounts ==
  ASSUME \A k \in Index : /\ Planned(k) => Planned(k)'
                          /\ Planned(k)' => gens'[k].pairs = gens[k].pairs \/ ~Done(k)'
                          /\ Done(k)' <=> Done(k)
                          /\ Done(k) => gens'[k].outcome = gens[k].outcome
  PROVE  /\ OutcomesOf("rollback")' = OutcomesOf("rollback")
         /\ OutcomesOf("hold")' = OutcomesOf("hold")
         /\ SpentPairs' = SpentPairs
<1>1. /\ OutcomesOf("rollback")' = OutcomesOf("rollback")
      /\ OutcomesOf("hold")' = OutcomesOf("hold")
  BY DEF OutcomesOf
<1>2. \A k \in Index : Done(k) => gens'[k].pairs = gens[k].pairs
  BY DEF Done
<1>3. SpentPairs' = SpentPairs
  BY <1>2 DEF SpentPairs
<1> QED BY <1>1, <1>3

LEMMA SameBindings ==
  ASSUME \A k \in Index : /\ Planned(k) => Planned(k)'
                          /\ Planned(k)' => Planned(k) \/ gens'[k].campaign = NoCampaign
                          /\ Planned(k) => gens'[k].campaign = gens[k].campaign
  PROVE  BoundTo' = BoundTo
BY DEF BoundTo

LEMMA PlanStep ==
  ASSUME IInv, AllAssumptions, NEW w \in Worker, SubmitPlan(w)
  PROVE  IInv'
<1>1. PICK j \in Jobs : j = job[w] /\ JobInvAt(j) /\
                        j \in [pc: {"plan", "find", "reserve"}, i: Index, s: SignalId,
                               r: ReceiptId, e: Evaluators, budget: Budgets, c: {NoCampaign},
                               rev: Nat]
  BY JobFacts DEF SubmitPlan, Jobs
<1>2. j.pc = "plan" /\ UNCHANGED <<campaignVars, trail>>
  BY <1>1 DEF SubmitPlan
<1>3. PICK next \in Jobs : next = [j EXCEPT !.pc = "find"] /\ next.pc = "find" /\ next.i = j.i
  <2>1. PICK next : next = [j EXCEPT !.pc = "find"]
    OBVIOUS
  <2>2. next \in [pc: {"plan", "find", "reserve"}, i: Index, s: SignalId, r: ReceiptId,
                  e: Evaluators, budget: Budgets, c: {NoCampaign}, rev: Nat]
        /\ next.pc = "find" /\ next.i = j.i
    BY <1>1, <2>1
  <2> QED BY <2>1, <2>2 DEF Jobs
<1>4. job' = [job EXCEPT ![w] = next]
  BY <1>1, <1>3 DEF SubmitPlan, Goto
<1>5. JobInvAt(next)
  BY <1>1, <1>2, <1>3 DEF JobInvAt
<1>6. CASE UNCHANGED programVars
  BY <1>2, <1>4, <1>5, <1>6, JobStep
<1>7. CASE PlanGeneration(j.i, j.budget, j.s, j.r, j.rev)
  <2> PICK i \in Index : i = j.i
    BY <1>1
  <2>1. PICK g : g = [status |-> "planned", budget |-> j.budget, att |-> j.r,
                      campaign |-> NoCampaign, binder |-> producer, outcome |-> "none",
                      pairs |-> 0]
    OBVIOUS
  <2>2. /\ gens' = [gens EXCEPT ![i] = g] /\ ~Planned(i) /\ i = head.cur + 1 /\ head # NoHead
        /\ j.budget <= MaxPairs - head.spent /\ j.r \in ReceiptsOf(j.s)
        /\ UNCHANGED <<head, signals, receipts, decisions>>
    BY <1>7, <2>1 DEF PlanGeneration, AtRevision, FitsRemaining
  <2>3. g \in Generation
    BY <1>1, <2>1 DEF Generation, AllAssumptions, RegistryAssumption, ControllerAssumption
  <2>4. /\ gens'[i] = g /\ \A k \in Index \ {i} : gens'[k] = gens[k]
        /\ gens' \in [Index -> Generation \cup {NoGeneration}]
    BY <2>2, <2>3 DEF IInv, TypeOK, RegistryTypeOK
  <2>5. RegistryGoesOn
    BY <2>2, <2>4 DEF RegistryGoesOn, Planned, Done
  <2>6. CampaignsGoOn
    BY <1>2, SameCampaigns
  <2>7. JobsGoOn /\ job' \in [Worker -> Jobs \cup {Idle, Down}]
    <3>1. JobInvAt(next)'
      BY <1>5, <2>5, <2>6, JobInvStays
    <3> QED BY <1>4, <3>1, JobTo
  <2>8. TypeOK'
    BY <1>2, <2>2, <2>4, <2>7 DEF IInv, TypeOK, RegistryTypeOK, campaignVars, CampaignsTypeOK
  <2>9. Planned(i)' /\ ~Done(i)' /\ Status(i)' = "planned"
    BY <2>1, <2>4 DEF Planned, Done, Status
  <2>10. i > 0 /\ i - 1 \in Index /\ Continuing(i - 1) # {} /\ j.s \in SignalsOf(i - 1)
         /\ Attributed(j.r)
    BY <1>1, <1>2, Indexes DEF JobInvAt
  <2>11. ShapeAt(i)'
    BY <2>2, <2>9, <2>10 DEF ShapeAt
  <2>12. GenInvAt(i)'
    BY <2>9 DEF GenInvAt
  <2>13. ChainInvAt(i)'
    <3>1. MayContinue(i - 1)
      BY <2>10 DEF IInv, DecisionInv, DecisionInvAt
    <3>2. MayContinue(i - 1)' /\ Continuing(i - 1)' # {}
      BY <2>5, <2>10, <3>1, MayContinueStays, RecordsStay
    <3>3. SignalsOf(i - 1)' = SignalsOf(i - 1) /\ ReceiptsOf(j.s)' = ReceiptsOf(j.s)
      BY <2>2 DEF SignalsOf, ReceiptsOf
    <3>4. gens'[i].att \in UNION {ReceiptsOf(s)' : s \in SignalsOf(i - 1)'}
      <4>1. gens'[i].att \in ReceiptsOf(j.s)' /\ j.s \in SignalsOf(i - 1)'
        BY <2>1, <2>2, <2>4, <2>10, <3>3
      <4> QED BY <4>1
    <3>5. Attributed(gens'[i].att)
      BY <2>1, <2>4, <2>10
    <3>6. head'.spent + gens'[i].budget <= MaxPairs
      <4>1. head.spent \in Nat /\ j.budget \in Nat /\ MaxPairs \in Nat
        BY <1>1, <2>2, HeadFacts, Indexes
           DEF IInv, TypeOK, Head, AllAssumptions, ControllerAssumption
      <4> QED BY <2>1, <2>2, <2>4, <4>1
    <3> QED BY <3>2, <3>4, <3>5, <3>6 DEF ChainInvAt, Attributed
  <2>14. HeadMatchesGenerations'
    <3>1. Derived
      BY <2>2, DerivedHead DEF IInv
    <3>2. \A k \in Index : k # i => (Planned(k)' <=> Planned(k)) /\ (Done(k)' <=> Done(k))
      BY <2>4 DEF Planned, Done
    <3>3. ~Done(i)
      BY <2>2 DEF Done
    <3>4. /\ OutcomesOf("rollback")' = OutcomesOf("rollback")
          /\ OutcomesOf("hold")' = OutcomesOf("hold") /\ SpentPairs' = SpentPairs
      BY <2>2, <2>4, <2>9, <3>2, <3>3, SameCounts
    <3>5. BoundTo' = BoundTo
      BY <2>1, <2>2, <2>4, <2>9, <3>2, SameBindings
    <3>6. head.cur \in Index /\ Planned(head.cur) /\ head.cur # i /\ head.cur \in Nat
      BY <2>2, <3>1, HeadFacts, Indexes DEF IInv, TypeOK, Head, Derived
    <3>7. \A k \in Index : Planned(k)' => \A l \in 0 .. k : Planned(l)'
      <4> SUFFICES ASSUME NEW k \in Index, Planned(k)', NEW l \in 0 .. k PROVE Planned(l)'
        OBVIOUS
      <4>1. l \in Index
        BY Indexes
      <4>2. CASE k = i
        <5>1. l = i \/ l \in 0 .. head.cur
          BY <2>2, <3>6, <4>2
        <5> QED BY <2>9, <3>1, <3>2, <3>6, <4>1, <5>1 DEF Derived
      <4>3. CASE k # i
        BY <2>9, <3>1, <3>2, <4>1, <4>3 DEF Derived
      <4> QED BY <4>2, <4>3
    <3>8. Derived'
      BY <2>2, <3>1, <3>2, <3>4, <3>5, <3>6, <3>7 DEF Derived
    <3> QED BY <3>8 DEF HeadMatchesGenerations, Derived, OutcomesOf, BoundTo
  <2> QED BY <1>2, <2>2, <2>4, <2>5, <2>7, <2>8, <2>11, <2>12, <2>13, <2>14, GenerationStep
<1> QED BY <1>1, <1>6, <1>7 DEF SubmitPlan

LEMMA BindStep ==
  ASSUME IInv, AllAssumptions, NEW w \in Worker, SubmitBind(w)
  PROVE  IInv'
<1>1. PICK i \in Index, c \in CampaignId, e \in Actor :
        i = job[w].i /\ c = job[w].c /\ e = job[w].e /\ i > 0
  BY JobFacts DEF SubmitBind, JobInvAt, AllAssumptions, ControllerAssumption
<1>2. BindCampaign(i, c, e, head.rev) /\ Return(w) /\ UNCHANGED <<campaignVars, trail>>
  BY <1>1 DEF SubmitBind
<1>3. CASE UNCHANGED programVars
  <2>1. JobInvAt(Idle)
    BY DEF JobInvAt, Idle
  <2> QED BY <1>2, <1>3, <2>1, JobStep DEF Return
<1>4. CASE ~UNCHANGED programVars
  <2>1. /\ head # NoHead /\ Status(i) = "planned" /\ gens[i].campaign = NoCampaign
        /\ gens' = [gens EXCEPT ![i].campaign = c, ![i].binder = e]
        /\ head' = [head EXCEPT !.campaigns = @ + 1, !.rev = @ + 1]
        /\ UNCHANGED <<signals, receipts, decisions>>
    BY <1>2, <1>4 DEF BindCampaign, AtRevision
  <2>2. Planned(i) /\ gens[i] \in Generation /\ ~Done(i) /\ gens[i].outcome = "none"
    <3>1. Planned(i)
      BY <2>1 DEF Status, Planned
    <3>2. ~Done(i)
      BY <2>1, <3>1, Statuses, GenerationFacts
         DEF IInv, TypeOK, ShapeInv, ShapeAt, Generation, Done, TerminalStatus
    <3> QED BY <3>1, <3>2, GenerationFacts DEF IInv, TypeOK, Done
  <2>3. PICK g : g = [gens[i] EXCEPT !.campaign = c, !.binder = e]
    OBVIOUS
  <2>4. /\ g \in Generation /\ g.campaign = c /\ g.status = "planned" /\ g.outcome = "none"
        /\ g.pairs = gens[i].pairs /\ g.att = gens[i].att /\ g.budget = gens[i].budget
    BY <2>1, <2>2, <2>3 DEF Generation, Status
  <2>5. gens' = [gens EXCEPT ![i] = g]
    BY <2>1, <2>3 DEF IInv, TypeOK, RegistryTypeOK
  <2>6. /\ gens'[i] = g /\ \A k \in Index \ {i} : gens'[k] = gens[k]
        /\ gens' \in [Index -> Generation \cup {NoGeneration}]
    BY <2>4, <2>5 DEF IInv, TypeOK, RegistryTypeOK
  <2>7. head \in Head /\ Derived
    BY <2>1, HeadFacts, DerivedHead DEF IInv, TypeOK
  <2>8. /\ head' \in Head /\ head'.cur = head.cur /\ head'.rollbacks = head.rollbacks
        /\ head'.holds = head.holds /\ head'.campaigns = head.campaigns + 1
        /\ head'.spent = head.spent
    <3>1. PICK h \in Head, m \in Nat, n \in Nat :
            h = head /\ m = h.campaigns + 1 /\ n = h.rev + 1
      BY <2>7 DEF Head
    <3>2. head' = [h EXCEPT !.campaigns = m, !.rev = n]
      BY <2>1, <3>1
    <3> QED BY <3>1, <3>2 DEF Head
  <2>9. head' # NoHead
    BY <2>8 DEF AllAssumptions, AbsenceAssumption
  <2>10. RegistryGoesOn
    BY <2>1, <2>2, <2>4, <2>6, <2>9 DEF RegistryGoesOn, Planned, Done
  <2>11. TypeOK'
    BY <1>2, <2>1, <2>6, <2>8, JobReturns
       DEF IInv, TypeOK, RegistryTypeOK, campaignVars, CampaignsTypeOK
  <2>12. Planned(i)' /\ ~Done(i)' /\ Status(i)' = "planned"
    BY <2>4, <2>6 DEF Planned, Done, Status
  <2>13. ShapeAt(i)' /\ GenInvAt(i)'
    BY <1>1, <2>9, <2>12 DEF ShapeAt, GenInvAt
  <2>14. ChainInvAt(i)'
    BY <2>2, <2>4, <2>6, <2>8, <2>10, ChainStays
  <2>15. HeadMatchesGenerations'
    <3>1. \A k \in Index : (Planned(k)' <=> Planned(k)) /\ (Done(k)' <=> Done(k))
      BY <2>2, <2>6, <2>12 DEF Planned, Done
    <3>2. \A k \in Index : Done(k) => gens'[k] = gens[k]
      BY <2>2, <2>6
    <3>3. /\ OutcomesOf("rollback")' = OutcomesOf("rollback")
          /\ OutcomesOf("hold")' = OutcomesOf("hold") /\ SpentPairs' = SpentPairs
      BY <2>4, <2>6, <3>1, <3>2, SameCounts
    <3>4. BoundTo' = BoundTo \cup {i} /\ i \notin BoundTo
      <4>1. c # NoCampaign
        BY DEF AllAssumptions, RegistryAssumption
      <4> QED BY <2>1, <2>2, <2>4, <2>6, <3>1, <4>1 DEF BoundTo
    <3>5. IsFiniteSet(BoundTo)
      BY Indexes, FS_Subset DEF BoundTo
    <3>6. Cardinality(BoundTo') = Cardinality(BoundTo) + 1
      BY <3>4, <3>5, OneMore
    <3>7. head.cur \in Index
      BY <2>7 DEF Head
    <3>8. \A k \in Index : Planned(k)' => \A l \in 0 .. k : Planned(l)'
      BY <2>7, <3>1, Indexes DEF Derived
    <3>9. Derived'
      BY <2>7, <2>8, <3>1, <3>3, <3>6, <3>7, <3>8 DEF Derived
    <3> QED BY <3>9 DEF HeadMatchesGenerations, Derived, OutcomesOf, BoundTo
  <2> QED BY <1>2, <2>1, <2>6, <2>8, <2>10, <2>11, <2>13, <2>14, <2>15, JobReturns, GenerationStep
<1> QED BY <1>3, <1>4

(* A generation is authorized, or started.                                  *)
LEMMA StatusStep ==
  ASSUME IInv, AllAssumptions, NEW w \in Worker, Return(w),
         UNCHANGED <<campaignVars, trail, signals, receipts, decisions>>,
         NEW i \in Index, i > 0, Planned(i), ~Done(i), Approved(gens[i].campaign, i),
         gens[i].campaign \in CampaignId,
         NEW status \in {"authorized", "running"}, gens' = [gens EXCEPT ![i].status = status],
         NEW cur \in {i, head.cur}, NEW state \in ProgramStates, head # NoHead,
         head' = [head EXCEPT !.state = state, !.cur = cur, !.rev = @ + 1]
  PROVE  IInv'
<1>1. gens[i] \in Generation /\ gens[i].outcome = "none"
  BY GenerationFacts DEF IInv, TypeOK, Done
<1>2. PICK g : g = [gens[i] EXCEPT !.status = status]
  OBVIOUS
<1>3. /\ g \in Generation /\ g.campaign = gens[i].campaign /\ g.status = status
      /\ g.outcome = "none" /\ g.pairs = gens[i].pairs /\ g.att = gens[i].att
      /\ g.budget = gens[i].budget
  BY <1>1, <1>2 DEF Generation
<1>4. /\ gens'[i] = g /\ \A k \in Index \ {i} : gens'[k] = gens[k]
      /\ gens' \in [Index -> Generation \cup {NoGeneration}]
  BY <1>2, <1>3 DEF IInv, TypeOK, RegistryTypeOK
<1>5. head \in Head /\ Derived /\ cur \in Index
  BY HeadFacts, DerivedHead DEF IInv, TypeOK, Head
<1>6. /\ head' \in Head /\ head'.cur = cur /\ head'.rollbacks = head.rollbacks
      /\ head'.holds = head.holds /\ head'.campaigns = head.campaigns
      /\ head'.spent = head.spent
  <2>1. PICK h \in Head, n \in Nat : h = head /\ n = h.rev + 1
    BY <1>5 DEF Head
  <2>2. head' = [h EXCEPT !.state = state, !.cur = cur, !.rev = n]
    BY <2>1
  <2> QED BY <1>5, <2>1, <2>2 DEF Head
<1>7. head' # NoHead
  BY <1>6 DEF AllAssumptions, AbsenceAssumption
<1>8. RegistryGoesOn
  BY <1>3, <1>4, <1>7 DEF RegistryGoesOn, Planned, Done
<1>9. TypeOK'
  BY <1>4, <1>6, JobReturns DEF IInv, TypeOK, RegistryTypeOK, campaignVars, CampaignsTypeOK
<1>10. Planned(i)' /\ ~Done(i)' /\ Status(i)' = status
  BY <1>3, <1>4 DEF Planned, Done, Status
<1>11. ShapeAt(i)'
  BY <1>3, <1>4, <1>7, <1>10 DEF ShapeAt, AllAssumptions, RegistryAssumption
<1>12. GenInvAt(i)'
  <2>1. CampaignsGoOn
    BY SameCampaigns
  <2>2. PICK c \in CampaignId : c = gens[i].campaign
    OBVIOUS
  <2>3. Approved(c, i)'
    BY <1>8, <2>1, <2>2, ApprovedStays
  <2>4. c = gens'[i].campaign
    BY <1>3, <1>4, <2>2
  <2> QED BY <2>3, <2>4 DEF GenInvAt, Approved
<1>13. ChainInvAt(i)'
  BY <1>3, <1>4, <1>6, <1>8, ChainStays
<1>14. HeadMatchesGenerations'
  <2>1. \A k \in Index : (Planned(k)' <=> Planned(k)) /\ (Done(k)' <=> Done(k))
    BY <1>4, <1>10 DEF Planned, Done
  <2>2. \A k \in Index : Done(k) => gens'[k] = gens[k]
    BY <1>4
  <2>3. /\ OutcomesOf("rollback")' = OutcomesOf("rollback")
        /\ OutcomesOf("hold")' = OutcomesOf("hold") /\ SpentPairs' = SpentPairs
    BY <1>3, <1>4, <2>1, <2>2, SameCounts
  <2>4. BoundTo' = BoundTo
    BY <1>3, <1>4, <2>1 DEF BoundTo
  <2>5. \A k \in Index : Planned(k)' => \A l \in 0 .. k : Planned(l)'
    BY <1>5, <2>1, Indexes DEF Derived
  <2>6. Planned(cur)'
    BY <1>5, <2>1 DEF Derived
  <2>7. Derived'
    BY <1>5, <1>6, <2>1, <2>3, <2>4, <2>5, <2>6 DEF Derived
  <2> QED BY <2>7 DEF HeadMatchesGenerations, Derived, OutcomesOf, BoundTo
<1> QED BY <1>4, <1>6, <1>8, <1>9, <1>11, <1>12, <1>13, <1>14, JobReturns, GenerationStep

LEMMA AuthorizeStep ==
  ASSUME IInv, AllAssumptions, NEW w \in Worker, SynchronizeAuthorization(w)
  PROVE  IInv'
<1>1. PICK i \in Index, c \in CampaignId, rev \in Nat :
        /\ i = job[w].i /\ c = job[w].c /\ rev = job[w].rev
        /\ i > 0 /\ Planned(i) /\ Approved(c, i)
  BY JobFacts DEF SynchronizeAuthorization, JobInvAt
<1>2. /\ AuthorizeGeneration(i, c, rev) /\ Return(w) /\ UNCHANGED <<campaignVars, trail>>
  BY <1>1 DEF SynchronizeAuthorization
<1>3. /\ head # NoHead /\ gens[i].campaign = c /\ Status(i) = "planned"
      /\ gens' = [gens EXCEPT ![i].status = "authorized"]
      /\ head' = [head EXCEPT !.state = "generation_authorized", !.rev = @ + 1]
      /\ UNCHANGED <<signals, receipts, decisions>>
  BY <1>2 DEF AuthorizeGeneration, AtRevision
<1>4. ~Done(i)
  BY <1>1, <1>3, Statuses, GenerationFacts
     DEF IInv, TypeOK, ShapeInv, ShapeAt, Generation, Done, TerminalStatus
<1>5. head' = [head EXCEPT !.state = "generation_authorized", !.cur = head.cur, !.rev = @ + 1]
  <2>1. head \in Head
    BY <1>3, HeadFacts DEF IInv, TypeOK
  <2> QED BY <1>3, <2>1 DEF Head
<1> QED BY <1>1, <1>2, <1>3, <1>4, <1>5, StatusStep DEF ProgramStates

LEMMA StartStep ==
  ASSUME IInv, AllAssumptions, NEW w \in Worker, Start(w)
  PROVE  IInv'
<1>1. PICK i \in Index, c \in CampaignId, rev \in Nat :
        /\ i = job[w].i /\ c = job[w].c /\ rev = job[w].rev
        /\ i > 0 /\ Planned(i) /\ Approved(c, i)
  BY JobFacts DEF Start, JobInvAt
<1>2. StartGeneration(i, rev) /\ Return(w) /\ UNCHANGED <<campaignVars, trail>>
  BY <1>1 DEF Start
<1>3. /\ head # NoHead /\ gens[i].campaign = c /\ Status(i) = "authorized"
      /\ gens' = [gens EXCEPT ![i].status = "running"]
      /\ head' = [head EXCEPT !.state = "generation_running", !.cur = i, !.rev = @ + 1]
      /\ UNCHANGED <<signals, receipts, decisions>>
  BY <1>1, <1>2 DEF StartGeneration, AtRevision, Approved
<1>4. ~Done(i)
  BY <1>1, <1>3, Statuses, GenerationFacts
     DEF IInv, TypeOK, ShapeInv, ShapeAt, Generation, Done, TerminalStatus
<1> QED BY <1>1, <1>2, <1>3, <1>4, StatusStep DEF ProgramStates

Counted(h, o, cur, pairs) ==
  [CountOutcome(h, o) EXCEPT !.state = "running", !.cur = cur, !.spent = @ + pairs, !.rev = @ + 1]

LEMMA CountedHead ==
  ASSUME NEW h \in Head, NEW o \in Outcomes, NEW cur \in Index, NEW pairs \in Nat, NEW new,
         new = Counted(h, o, cur, pairs)
  PROVE  /\ new \in Head /\ new.cur = cur /\ new.campaigns = h.campaigns
         /\ new.spent = h.spent + pairs /\ new.rev = h.rev + 1 /\ new.state = "running"
         /\ new.rollbacks = IF o = "rollback" THEN h.rollbacks + 1 ELSE h.rollbacks
         /\ new.holds = IF o = "hold" THEN h.holds + 1 ELSE h.holds
<1>1. PICK r \in Nat, d \in Nat, s \in Nat, n \in Nat :
        /\ r = IF o = "rollback" THEN h.rollbacks + 1 ELSE h.rollbacks
        /\ d = IF o = "hold" THEN h.holds + 1 ELSE h.holds
        /\ s = h.spent + pairs /\ n = h.rev + 1
  BY DEF Head
<1>2. CountOutcome(h, o) = [h EXCEPT !.rollbacks = r, !.holds = d]
  BY <1>1 DEF CountOutcome
<1>3. CountOutcome(h, o).spent = h.spent /\ CountOutcome(h, o).rev = h.rev
  BY <1>2 DEF Head
<1>4. new = [[h EXCEPT !.rollbacks = r, !.holds = d]
               EXCEPT !.state = "running", !.cur = cur, !.spent = s, !.rev = n]
  BY <1>1, <1>2, <1>3 DEF Counted
<1> QED BY <1>1, <1>4 DEF Head, ProgramStates

LEMMA CompleteStep ==
  ASSUME IInv, AllAssumptions, NEW w \in Worker, Complete(w)
  PROVE  IInv'
<1>1. PICK j \in [pc: {"complete", "close"}, i: Index, c: CampaignId, rev: Nat,
                  o: Outcomes, pairs: Nat] :
        j = job[w] /\ j.pc = "complete" /\ JobInvAt(j)
  BY JobFacts DEF Complete
<1> PICK i \in Index, c \in CampaignId, o \in Outcomes, pairs \in Nat :
      i = j.i /\ c = j.c /\ o = j.o /\ pairs = j.pairs
  BY <1>1
<1>2. /\ head # NoHead /\ Status(i) = "running"
      /\ pairs <= gens[i].budget /\ head.spent + pairs <= MaxPairs
      /\ gens' = [gens EXCEPT ![i].status = StatusFor(o), ![i].outcome = o, ![i].pairs = pairs]
      /\ head' = [CountOutcome(head, o) EXCEPT !.state = "running", !.cur = i,
                                               !.spent = @ + pairs, !.rev = @ + 1]
      /\ job' = [job EXCEPT ![w].pc = "close", ![w].rev = camp[c].rev]
      /\ UNCHANGED <<campaignVars, trail, signals, receipts, decisions>>
  BY <1>1 DEF Complete, CompleteGeneration, AtRevision, WithinBudget
<1>3. i > 0 /\ Planned(i) /\ Approved(c, i) /\ i \in Nat
  BY <1>1, Indexes DEF JobInvAt
<1>4. ~Done(i) /\ gens[i] \in Generation /\ gens[i].outcome = "none"
  <2>1. ~Done(i)
    BY <1>2, <1>3, Statuses, GenerationFacts
       DEF IInv, TypeOK, ShapeInv, ShapeAt, Generation, Done, TerminalStatus
  <2> QED BY <1>3, <2>1, GenerationFacts DEF IInv, TypeOK, Done
<1>5. PICK status \in TerminalStatus : status = StatusFor(o)
  BY Statuses
<1>6. PICK g : g = [gens[i] EXCEPT !.status = status, !.outcome = o, !.pairs = pairs]
  OBVIOUS
<1>7. /\ g \in Generation /\ g.campaign = gens[i].campaign /\ g.status = status
      /\ g.outcome = o /\ g.pairs = pairs /\ g.att = gens[i].att
      /\ g.budget = gens[i].budget
  BY <1>4, <1>6 DEF Generation
<1>8. /\ gens'[i] = g /\ \A k \in Index \ {i} : gens'[k] = gens[k]
      /\ gens' \in [Index -> Generation \cup {NoGeneration}]
  BY <1>2, <1>5, <1>6, <1>7 DEF IInv, TypeOK, RegistryTypeOK
<1>9. head \in Head /\ Derived
  BY <1>2, HeadFacts, DerivedHead DEF IInv, TypeOK
<1>10. /\ head' \in Head /\ head'.cur = i /\ head'.campaigns = head.campaigns
       /\ head'.spent = head.spent + pairs
       /\ head'.rollbacks = IF o = "rollback" THEN head.rollbacks + 1 ELSE head.rollbacks
       /\ head'.holds = IF o = "hold" THEN head.holds + 1 ELSE head.holds
  <2>0. PICK h \in Head : h = head
    BY <1>9
  <2>1. PICK new : new = head'
    OBVIOUS
  <2>2. new = Counted(h, o, i, pairs)
    BY <1>2, <2>0, <2>1 DEF Counted
  <2>3. /\ new \in Head /\ new.cur = i /\ new.campaigns = h.campaigns
        /\ new.spent = h.spent + pairs
        /\ new.rollbacks = IF o = "rollback" THEN h.rollbacks + 1 ELSE h.rollbacks
        /\ new.holds = IF o = "hold" THEN h.holds + 1 ELSE h.holds
    BY <2>2, CountedHead
  <2> QED BY <2>0, <2>1, <2>3
<1>11. head' # NoHead
  BY <1>10 DEF AllAssumptions, AbsenceAssumption
<1>12. RegistryGoesOn
  BY <1>2, <1>4, <1>7, <1>8, <1>11, Statuses DEF RegistryGoesOn, Planned, Done, TerminalStatus
<1>13. CampaignsGoOn
  BY <1>2, SameCampaigns
<1>14. Planned(i)' /\ Done(i)' /\ Status(i)' = status
  <2>1. status # "absent" /\ o # "none"
    BY DEF TerminalStatus, Outcomes
  <2> QED BY <1>7, <1>8, <2>1 DEF Planned, Done, Status
<1>15. Approved(c, i)'
  BY <1>3, <1>12, <1>13, ApprovedStays
<1>16. JobsGoOn /\ job' \in [Worker -> Jobs \cup {Idle, Down}]
  <2>1. camp[c].rev \in Nat
    BY <1>3, RowFacts DEF Approved, IInv, TypeOK, RowBy
  <2>2. PICK next : next = [j EXCEPT !.pc = "close", !.rev = camp[c].rev]
    OBVIOUS
  <2>3. next \in [pc: {"complete", "close"}, i: Index, c: CampaignId, rev: Nat,
                  o: Outcomes, pairs: Nat]
        /\ next.pc = "close" /\ next.i = i /\ next.c = c
    BY <1>1, <2>1, <2>2
  <2>4. next \in Jobs
    BY <2>3 DEF Jobs
  <2>5. JobInvAt(next)'
    BY <1>3, <1>14, <1>15, <2>3 DEF JobInvAt
  <2>6. job' = [job EXCEPT ![w] = next]
    BY <1>1, <1>2, <2>2 DEF IInv, TypeOK
  <2> QED BY <2>4, <2>5, <2>6, JobTo
<1>17. TypeOK'
  BY <1>2, <1>8, <1>10, <1>16 DEF IInv, TypeOK, RegistryTypeOK, campaignVars, CampaignsTypeOK
<1>18. ShapeAt(i)'
  <2>1. gens[i].campaign # NoCampaign
    BY <1>3 DEF Approved, AllAssumptions, RegistryAssumption
  <2> QED BY <1>2, <1>3, <1>5, <1>7, <1>8, <1>11, <1>14, <2>1 DEF ShapeAt
<1>19. GenInvAt(i)'
  <2>1. c = gens'[i].campaign
    BY <1>15 DEF Approved
  <2> QED BY <1>15, <2>1 DEF GenInvAt, Approved
<1>20. ChainInvAt(i)'
  BY <1>3, <1>12, <1>14, ChainStays
<1>21. \A k \in Index \ {i} : gens'[k] = gens[k] /\ (Planned(k) /\ ~Done(k) => head'.spent = head.spent)
  <2> SUFFICES ASSUME NEW k \in Index, k # i, Planned(k) PROVE Done(k)
    BY <1>8
  <2>1. CASE k < i
    BY <1>3, <2>1, Indexes, DoneBelow
  <2>2. CASE i < k
    BY <1>3, <1>4, <2>2, Indexes, DoneBelow
  <2> QED BY <1>3, <2>1, <2>2, Indexes
<1>22. HeadMatchesGenerations'
  <2>1. \A k \in Index : k # i => (Planned(k)' <=> Planned(k)) /\ (Done(k)' <=> Done(k))
    BY <1>8 DEF Planned, Done
  <2>2. ASSUME NEW x \in Outcomes
        PROVE  Cardinality(OutcomesOf(x)') =
                 IF o = x THEN Cardinality(OutcomesOf(x)) + 1 ELSE Cardinality(OutcomesOf(x))
    <3>1. OutcomesOf(x)' = IF o = x THEN OutcomesOf(x) \cup {i} ELSE OutcomesOf(x)
      BY <1>4, <1>7, <1>8, <1>14, <2>1 DEF OutcomesOf
    <3>2. i \notin OutcomesOf(x) /\ IsFiniteSet(OutcomesOf(x))
      BY <1>4, Indexes, FS_Subset DEF OutcomesOf
    <3> QED BY <3>1, <3>2, OneMore
  <2>3. Cardinality(SpentPairs') = Cardinality(SpentPairs) + pairs
    <3>1. pairs <= MaxPairs /\ MaxPairs \in Nat
      BY <1>2, <1>9, Indexes DEF Head
    <3>2. SpentPairs' = SpentPairs \cup ({i} \X (1 .. pairs))
      <4>1. \A x \in Index \X (1 .. MaxPairs) :
              x \in SpentPairs' <=> x \in SpentPairs \/ x \in {i} \X (1 .. pairs)
        BY <1>4, <1>7, <1>8, <1>14, <2>1 DEF SpentPairs
      <4>2. {i} \X (1 .. pairs) \subseteq Index \X (1 .. MaxPairs)
        BY <3>1
      <4> QED BY <4>1, <4>2 DEF SpentPairs
    <3>3. SpentPairs \cap ({i} \X (1 .. pairs)) = {}
      BY <1>4 DEF SpentPairs
    <3>4. /\ IsFiniteSet({i} \X (1 .. pairs)) /\ Cardinality({i} \X (1 .. pairs)) = pairs
          /\ IsFiniteSet(SpentPairs) /\ Cardinality(SpentPairs) \in Nat
      BY <1>3, RowOfPairs, PairsFinite, FS_CardinalityType
    <3>5. Cardinality(SpentPairs \cap ({i} \X (1 .. pairs))) = 0
      BY <3>3, FS_EmptySet
    <3>6. Cardinality(SpentPairs \cup ({i} \X (1 .. pairs))) =
            Cardinality(SpentPairs) + Cardinality({i} \X (1 .. pairs))
              - Cardinality(SpentPairs \cap ({i} \X (1 .. pairs)))
      BY <3>4, FS_Union
    <3> QED BY <3>2, <3>4, <3>5, <3>6
  <2>4. BoundTo' = BoundTo
    BY <1>3, <1>7, <1>8, <1>14, <2>1 DEF BoundTo
  <2>5. \A k \in Index : Planned(k)' => \A l \in 0 .. k : Planned(l)'
    BY <1>3, <1>9, <1>14, <2>1, Indexes DEF Derived
  <2>6. "rollback" \in Outcomes /\ "hold" \in Outcomes
    BY DEF Outcomes
  <2>7. /\ head'.rollbacks = Cardinality(OutcomesOf("rollback")')
        /\ head'.holds = Cardinality(OutcomesOf("hold")')
    BY <1>9, <1>10, <2>2, <2>6 DEF Derived
  <2>8. Derived'
    BY <1>9, <1>10, <1>14, <2>3, <2>4, <2>5, <2>7 DEF Derived
  <2> QED BY <2>8 DEF HeadMatchesGenerations, Derived, OutcomesOf, BoundTo
<1> QED BY <1>2, <1>12, <1>16, <1>17, <1>18, <1>19, <1>20, <1>21, <1>22, GenerationStep

LEMMA RegisterStep ==
  ASSUME IInv, AllAssumptions, RegisterFromRelease
  PROVE  IInv'
<1>1. PICK o \in Outcomes, pairs \in InitialPairs : Register(o, pairs)
  BY DEF RegisterFromRelease
<1>2. pairs \in Nat /\ pairs <= MaxPairs /\ MaxPairs \in Nat
  BY Indexes DEF AllAssumptions, ControllerAssumption
<1>3. PICK status \in TerminalStatus : status = StatusFor(o)
  BY Statuses
<1>4. PICK g : g = [status |-> status, budget |-> 0, att |-> NoReceipt,
                    campaign |-> NoCampaign, binder |-> producer, outcome |-> o, pairs |-> pairs]
  OBVIOUS
<1>5. g \in Generation
  BY <1>2, <1>4 DEF Generation, AllAssumptions, RegistryAssumption
<1>6. /\ head = NoHead /\ gens' = [gens EXCEPT ![0] = g]
      /\ head' = [state |-> "running", cur |-> 0, rev |-> 0,
                  rollbacks |-> IF o = "rollback" THEN 1 ELSE 0,
                  holds |-> IF o = "hold" THEN 1 ELSE 0, campaigns |-> 0, spent |-> pairs]
      /\ UNCHANGED <<campaignVars, job, trail, signals, receipts, decisions>>
  BY <1>1, <1>3, <1>4 DEF RegisterFromRelease, Register
<1>7. 0 \in Index /\ \A k \in Index : ~Planned(k) /\ ~Done(k)
  BY <1>6, DoneBelow, Indexes DEF Done
<1>8. /\ gens'[0] = g /\ \A k \in Index \ {0} : gens'[k] = gens[k]
      /\ gens' \in [Index -> Generation \cup {NoGeneration}]
  BY <1>5, <1>6, <1>7 DEF IInv, TypeOK, RegistryTypeOK
<1>9. /\ head' \in Head /\ head'.cur = 0 /\ head'.campaigns = 0 /\ head'.spent = pairs
      /\ head'.rollbacks = (IF o = "rollback" THEN 1 ELSE 0)
      /\ head'.holds = (IF o = "hold" THEN 1 ELSE 0)
  BY <1>2, <1>6, <1>7 DEF Head, ProgramStates
<1>10. head' # NoHead
  BY <1>9 DEF AllAssumptions, AbsenceAssumption
<1>11. RegistryGoesOn
  BY <1>6, <1>7, <1>10 DEF RegistryGoesOn
<1>12. TypeOK'
  BY <1>6, <1>8, <1>9 DEF IInv, TypeOK, RegistryTypeOK, campaignVars, CampaignsTypeOK
<1>13. JobsGoOn
  BY <1>6 DEF JobsGoOn
<1>14. Planned(0)' /\ Done(0)' /\ Status(0)' = status
  <2>1. status # "absent" /\ o # "none"
    BY DEF TerminalStatus, Outcomes
  <2> QED BY <1>4, <1>7, <1>8, <2>1 DEF Planned, Done, Status
<1>15. ShapeAt(0)' /\ ChainInvAt(0)' /\ GenInvAt(0)'
  BY <1>3, <1>4, <1>8, <1>10, <1>14 DEF ShapeAt, ChainInvAt, GenInvAt
<1>16. HeadMatchesGenerations'
  <2>1. \A k \in Index : k # 0 => ~Planned(k)' /\ ~Done(k)'
    BY <1>7, <1>8 DEF Planned, Done
  <2>2. ASSUME NEW x
        PROVE  Cardinality(OutcomesOf(x)') = IF o = x THEN 1 ELSE 0
    <3>1. OutcomesOf(x)' = IF o = x THEN {0} ELSE {}
      BY <1>4, <1>7, <1>8, <1>14, <2>1 DEF OutcomesOf
    <3> QED BY <3>1, FS_EmptySet, FS_Singleton
  <2>3. Cardinality(SpentPairs') = pairs
    <3>1. \A x \in Index \X (1 .. MaxPairs) : x \in SpentPairs' <=> x \in {0} \X (1 .. pairs)
      BY <1>2, <1>4, <1>8, <1>14, <2>1 DEF SpentPairs
    <3>2. {0} \X (1 .. pairs) \subseteq Index \X (1 .. MaxPairs)
      BY <1>2, <1>7
    <3>3. SpentPairs' = {0} \X (1 .. pairs)
      BY <3>1, <3>2 DEF SpentPairs
    <3> QED BY <1>2, <3>3, RowOfPairs
  <2>4. Cardinality(BoundTo') = 0
    <3>1. BoundTo' = {}
      BY <1>4, <1>8, <2>1 DEF BoundTo
    <3> QED BY <3>1, FS_EmptySet
  <2>5. \A k \in Index : Planned(k)' => \A l \in 0 .. k : Planned(l)'
    BY <1>14, <2>1
  <2>6. Derived'
    BY <1>9, <1>14, <2>2, <2>3, <2>4, <2>5 DEF Derived
  <2> QED BY <2>6 DEF HeadMatchesGenerations, Derived, OutcomesOf, BoundTo
<1> QED BY <1>6, <1>7, <1>8, <1>11, <1>12, <1>13, <1>15, <1>16, GenerationStep

-----------------------------------------------------------------------------
(* Transactions of the campaign database *)

LEMMA FindStep ==
  ASSUME IInv, AllAssumptions, NEW w \in Worker, SubmitFind(w)
  PROVE  IInv'
<1>1. PICK j \in [pc: {"plan", "find", "reserve"}, i: Index, s: SignalId, r: ReceiptId,
                  e: Evaluators, budget: Budgets, c: {NoCampaign}, rev: Nat] :
        j = job[w] /\ JobInvAt(j)
  BY JobFacts DEF SubmitFind
<1>2. UNCHANGED <<campaignVars, programVars, trail>>
  BY DEF SubmitFind
<1>3. CASE Goto(w, "reserve")
  <2>1. PICK next : next = [j EXCEPT !.pc = "reserve"]
    OBVIOUS
  <2>2. /\ next \in [pc: {"plan", "find", "reserve"}, i: Index, s: SignalId, r: ReceiptId,
                     e: Evaluators, budget: Budgets, c: {NoCampaign}, rev: Nat]
        /\ next.pc = "reserve" /\ next.i = j.i
    BY <1>1, <2>1
  <2>3. next \in Jobs /\ JobInvAt(next)
    BY <1>1, <2>2 DEF Jobs, JobInvAt
  <2>4. job' = [job EXCEPT ![w] = next]
    BY <1>1, <1>3, <2>1 DEF Goto
  <2> QED BY <1>2, <2>3, <2>4, JobStep
<1>4. ASSUME NEW c \in OpenOn(j.i), job' = [job EXCEPT ![w].pc = "advance", ![w].c = c]
      PROVE  IInv'
  <2>1. PICK next : next = [j EXCEPT !.pc = "advance", !.c = c]
    OBVIOUS
  <2>2. /\ next \in [pc: {"advance", "bind"}, i: Index, s: SignalId, r: ReceiptId,
                     e: Evaluators, budget: Budgets, c: CampaignId, rev: Nat]
        /\ next.pc = "advance" /\ next.i = j.i
    BY <1>1, <2>1 DEF OpenOn
  <2>3. next \in Jobs /\ JobInvAt(next)
    BY <1>1, <2>2 DEF Jobs, JobInvAt
  <2>4. job' = [job EXCEPT ![w] = next]
    BY <1>1, <1>4, <2>1 DEF IInv, TypeOK
  <2> QED BY <1>2, <2>3, <2>4, JobStep
<1> QED BY <1>1, <1>3, <1>4 DEF SubmitFind

LEMMA ReserveStep ==
  ASSUME IInv, AllAssumptions, NEW w \in Worker, SubmitReserve(w)
  PROVE  IInv'
<1>1. PICK j \in [pc: {"plan", "find", "reserve"}, i: Index, s: SignalId, r: ReceiptId,
                  e: Evaluators, budget: Budgets, c: {NoCampaign}, rev: Nat] :
        j = job[w] /\ JobInvAt(j) /\ j.pc = "reserve"
  BY JobFacts DEF SubmitReserve
<1>2. PICK i \in Index : i = j.i /\ i > 0 /\ i - 1 \in Index /\ Continuing(i - 1) # {}
  BY <1>1, Indexes DEF JobInvAt
<1>3. PICK c \in CampaignId :
        /\ \/ ReuseCampaign(c, i, i) /\ trail' = [trail EXCEPT ![c].reused = TRUE]
           \/ /\ InsertCampaign(c, i, i, decider[ContinueDecision(i)], 2, "open", 0)
              /\ UNCHANGED trail
        /\ job' = [job EXCEPT ![w].pc = "advance", ![w].c = c]
        /\ UNCHANGED programVars
  BY <1>1, <1>2 DEF SubmitReserve
<1>4. JobsGoOn /\ job' \in [Worker -> Jobs \cup {Idle, Down}]
  <2>1. PICK next : next = [j EXCEPT !.pc = "advance", !.c = c]
    OBVIOUS
  <2>2. /\ next \in [pc: {"advance", "bind"}, i: Index, s: SignalId, r: ReceiptId,
                     e: Evaluators, budget: Budgets, c: CampaignId, rev: Nat]
        /\ next.pc = "advance" /\ next.i = i
    BY <1>1, <1>2, <2>1
  <2>3. Continuing(i - 1)' # {}
    BY <1>2, <1>3 DEF programVars, Continuing, DecisionsOf
  <2>4. next \in Jobs /\ JobInvAt(next)'
    BY <1>2, <2>2, <2>3 DEF Jobs, JobInvAt
  <2>5. job' = [job EXCEPT ![w] = next]
    BY <1>1, <1>3, <2>1 DEF IInv, TypeOK
  <2> QED BY <2>4, <2>5, JobTo
<1>5. CASE ReuseCampaign(c, i, i) /\ trail' = [trail EXCEPT ![c].reused = TRUE]
  <2>1. UNCHANGED campaignVars
    BY <1>5 DEF ReuseCampaign
  <2>2. /\ trail' \in [CampaignId -> [evaluators: SUBSET Actor, reused: BOOLEAN]]
        /\ \A d \in CampaignId : trail'[d].evaluators = trail[d].evaluators
    BY <1>5 DEF IInv, TypeOK
  <2>3. CampaignsGoOn
    BY <2>1, <2>2 DEF campaignVars, CampaignsGoOn, Exists, Decided
  <2>4. TypeOK'
    BY <1>3, <1>4, <2>1, <2>2 DEF IInv, TypeOK, campaignVars, programVars, CampaignsTypeOK,
                                  RegistryTypeOK
  <2>5. CompletedMeansTerminal'
    BY <1>3, <2>1, CompletedStays, SameProgram DEF campaignVars
  <2> QED BY <1>3, <1>4, <2>3, <2>4, <2>5, SameProgramStep
<1>6. CASE /\ InsertCampaign(c, i, i, decider[ContinueDecision(i)], 2, "open", 0)
           /\ UNCHANGED trail
  <2>1. ContinueDecision(i) \in DecisionId
    BY <1>2 DEF ContinueDecision, Continuing, DecisionsOf
  <2>2. PICK gen \in Actor : gen = decider[ContinueDecision(i)]
    BY <2>1 DEF AllAssumptions, RegistryAssumption
  <2>3. InsertCampaign(c, i, i, gen, 2, "open", 0) /\ 2 \in Nat \ {0} /\ "open" \in InitialStates
    BY <1>6, <2>2 DEF InitialStates
  <2>4. Transaction(c, 0)
    <3>1. i \in Target /\ i \in Fingerprint
      BY DEF AllAssumptions, ControllerAssumption
    <3> QED BY <2>3, <3>1 DEF Transaction
  <2>5. camp'[c].state = "open"
    BY <2>3, StatesWritten DEF IInv, TypeOK
  <2>6. /\ trail' \in [CampaignId -> [evaluators: SUBSET Actor, reused: BOOLEAN]]
        /\ \A d \in CampaignId : trail'[d].evaluators = trail[d].evaluators
    BY <1>6 DEF IInv, TypeOK
  <2> QED BY <1>3, <1>4, <2>4, <2>5, <2>6, CampaignStep
<1> QED BY <1>3, <1>5, <1>6

LEMMA AdvanceStep ==
  ASSUME IInv, AllAssumptions, NEW w \in Worker, SubmitAdvance(w)
  PROVE  IInv'
<1>1. PICK j \in [pc: {"advance", "bind"}, i: Index, s: SignalId, r: ReceiptId,
                  e: Evaluators, budget: Budgets, c: CampaignId, rev: Nat] :
        j = job[w] /\ JobInvAt(j) /\ j.pc = "advance"
  BY JobFacts DEF SubmitAdvance
<1>2. PICK c \in CampaignId, i \in Index, e \in Actor : c = j.c /\ i = j.i /\ e = j.e
  BY <1>1 DEF AllAssumptions, ControllerAssumption
<1> DEFINE Evaluated == /\ trail' = [trail EXCEPT ![c].evaluators = @ \cup {e}]
                        /\ UNCHANGED job
<1>3. ASSUME Evaluated, Transaction(c, 0), UNCHANGED programVars, ~Decided(c),
             camp'[c].state # "completed"
      PROVE  IInv'
  <2>1. PICK t \in [evaluators: SUBSET Actor, reused: BOOLEAN], E \in SUBSET Actor :
          t = trail[c] /\ E = t.evaluators \cup {e}
    BY DEF IInv, TypeOK
  <2>2. trail' = [trail EXCEPT ![c] = [t EXCEPT !.evaluators = E]]
    BY <1>3, <2>1 DEF IInv, TypeOK
  <2>3. [t EXCEPT !.evaluators = E] \in [evaluators: SUBSET Actor, reused: BOOLEAN]
    BY <2>1
  <2>4. /\ trail' \in [CampaignId -> [evaluators: SUBSET Actor, reused: BOOLEAN]]
        /\ \A d \in CampaignId : Decided(d) => trail'[d].evaluators = trail[d].evaluators
    BY <1>3, <2>2, <2>3 DEF IInv, TypeOK
  <2>5. JobsGoOn /\ job' \in [Worker -> Jobs \cup {Idle, Down}]
    BY <1>3 DEF JobsGoOn, IInv, TypeOK
  <2> QED BY <1>3, <2>4, <2>5, CampaignStep
<1>4. UNCHANGED programVars
  BY DEF SubmitAdvance
<1>5. CASE AttachCandidate(c, i, camp[c].rev, 0) /\ Evaluated
  <2>1. i \in Candidate
    BY DEF AllAssumptions, ControllerAssumption
  <2>2. Transaction(c, 0)
    BY <1>5, <2>1 DEF Transaction
  <2>3. ~Decided(c)
    BY <1>5 DEF AttachCandidate, MayAttach, LegalTransitions, Decided, ClosedStates
  <2>4. camp'[c].state = "candidate_ready"
    BY <1>5, StatesWritten DEF IInv, TypeOK
  <2> QED BY <1>3, <1>4, <1>5, <2>2, <2>3, <2>4
<1>6. ASSUME NEW to \in {"evaluation_pending", "approval_pending"},
             Transition(c, to, camp[c].rev, 0, 0), Evaluated
      PROVE  IInv'
  <2>1. Transaction(c, 0)
    BY <1>6 DEF Transaction, CallerStates
  <2>2. ~Decided(c)
    BY <1>6 DEF Transition, LegalTransitions, Decided, ClosedStates
  <2>3. camp'[c].state = to
    BY <1>6, StatesWritten DEF IInv, TypeOK
  <2> QED BY <1>3, <1>4, <1>6, <2>1, <2>2, <2>3
<1>7. CASE /\ Return(w) \/ Goto(w, "bind")
           /\ UNCHANGED <<campaignVars, trail>>
  <2>1. CASE Return(w)
    <3>1. JobInvAt(Idle)
      BY DEF JobInvAt, Idle
    <3> QED BY <1>4, <1>7, <2>1, <3>1, JobStep DEF Return
  <2>2. CASE Goto(w, "bind")
    <3>1. PICK next : next = [j EXCEPT !.pc = "bind"]
      OBVIOUS
    <3>2. /\ next \in [pc: {"advance", "bind"}, i: Index, s: SignalId, r: ReceiptId,
                       e: Evaluators, budget: Budgets, c: CampaignId, rev: Nat]
          /\ next.pc = "bind" /\ next.i = j.i
      BY <1>1, <3>1
    <3>3. next \in Jobs /\ JobInvAt(next)
      BY <1>1, <3>2 DEF Jobs, JobInvAt
    <3>4. job' = [job EXCEPT ![w] = next]
      BY <1>1, <2>2, <3>1 DEF Goto
    <3> QED BY <1>4, <1>7, <3>3, <3>4, JobStep
  <2> QED BY <1>7, <2>1, <2>2
<1> HIDE DEF Evaluated
<1>8. \/ AttachCandidate(c, i, camp[c].rev, 0) /\ Evaluated
      \/ Transition(c, "evaluation_pending", camp[c].rev, 0, 0) /\ Evaluated
      \/ Transition(c, "approval_pending", camp[c].rev, 0, 0) /\ Evaluated
      \/ (Return(w) \/ Goto(w, "bind")) /\ UNCHANGED <<campaignVars, trail>>
  BY <1>1, <1>2 DEF SubmitAdvance, Evaluated
<1> QED BY <1>5, <1>6, <1>7, <1>8

LEMMA CloseStep ==
  ASSUME IInv, AllAssumptions, NEW w \in Worker, CloseCampaign(w)
  PROVE  IInv'
<1>1. PICK c \in CampaignId, i \in Index :
        /\ c = job[w].c /\ i = job[w].i /\ Approved(c, i) /\ Done(i)
  BY JobFacts DEF CloseCampaign, JobInvAt
<1>2. Return(w) /\ UNCHANGED <<programVars, trail>>
  BY DEF CloseCampaign
<1>3. CASE Transition(c, "completed", job[w].rev, 0, 0)
  <2>1. Transaction(c, 0)
    <3>1. Transition(c, "completed", camp[c].rev, 0, 0)
      BY <1>3 DEF Transition
    <3>2. "completed" \in CallerStates /\ 0 \in Nat
      BY DEF CallerStates, ClosedStates
    <3> QED BY <3>1, <3>2 DEF Transaction
  <2>2. camp'[c].cand = i
    BY <1>1, <2>1, DecidedStays DEF Approved, Of, IInv, TypeOK
  <2>3. trail' \in [CampaignId -> [evaluators: SUBSET Actor, reused: BOOLEAN]]
    BY <1>2 DEF IInv, TypeOK
  <2> QED BY <1>1, <1>2, <2>1, <2>2, <2>3, JobReturns, CampaignStep
<1>4. CASE UNCHANGED campaignVars
  <2>1. JobInvAt(Idle)
    BY DEF JobInvAt, Idle
  <2> QED BY <1>2, <1>4, <2>1, JobStep DEF Return
<1> QED BY <1>1, <1>3, <1>4 DEF CloseCampaign

(* Whoever votes or cancels, through the controller or past it.             *)
LEMMA OutsideStep ==
  ASSUME IInv, AllAssumptions, NEW c \in CampaignId,
         CancelDirectly(c) \/ \E a \in Actor : ApproveGeneration(a, c) \/ ApproveDirectly(a, c)
  PROVE  IInv'
<1>1. UNCHANGED <<programVars, job, trail>>
  BY DEF CancelDirectly, ApproveGeneration, ApproveDirectly
<1>2. Transaction(c, 0) /\ camp'[c].state # "completed"
  <2>1. CASE CancelDirectly(c)
    <3>1. Transition(c, "cancelled", camp[c].rev, 0, 0)
      BY <2>1 DEF CancelDirectly
    <3>2. Transaction(c, 0)
      BY <3>1 DEF Transaction, CallerStates, ClosedStates
    <3> QED BY <3>1, <3>2, StatesWritten DEF IInv, TypeOK
  <2>2. ASSUME NEW a \in Actor, NEW decision \in Decisions,
               RecordApproval(c, a, decision, camp[c].rev, 0, 0)
        PROVE  Transaction(c, 0) /\ camp'[c].state # "completed"
    <3>1. Transaction(c, 0)
      BY <2>2 DEF Transaction
    <3>2. camp'[c].state \in {"rejected", "authorized", "approval_pending"}
      BY <2>2, StatesWritten DEF Decisions, IInv, TypeOK
    <3> QED BY <3>1, <3>2
  <2>3. "approve" \in Decisions
    BY DEF Decisions
  <2> QED BY <2>1, <2>2, <2>3 DEF ApproveGeneration, ApproveDirectly
<1>3. JobsGoOn /\ job' \in [Worker -> Jobs \cup {Idle, Down}]
  BY <1>1 DEF JobsGoOn, IInv, TypeOK
<1>4. trail' \in [CampaignId -> [evaluators: SUBSET Actor, reused: BOOLEAN]]
  BY <1>1 DEF IInv, TypeOK
<1> QED BY <1>1, <1>2, <1>3, <1>4, CampaignStep

-----------------------------------------------------------------------------
(* The invariant *)

LEMMA AssumptionsHold == AllAssumptions
BY CampaignsAssumption, RegistryAssumption, AbsenceAssumption, ControllerAssumption
   DEF AllAssumptions

LEMMA InitStep ==
  ASSUME Init, AllAssumptions
  PROVE  IInv
<1>1. CampaignsTypeOK
  BY DEF Init, CampaignsInit, CampaignsTypeOK
<1>2. RegistryTypeOK
  BY DEF Init, RegistryInit, RegistryTypeOK
<1>3. /\ job \in [Worker -> Jobs \cup {Idle, Down}]
      /\ trail \in [CampaignId -> [evaluators: SUBSET Actor, reused: BOOLEAN]]
  BY DEF Init
<1>4. \A i \in Index : ~Planned(i) /\ Continuing(i) = {}
  BY DEF Init, RegistryInit, Planned, NoGeneration, Continuing, DecisionsOf
<1>5. ShapeInv /\ DecisionInv /\ ChainInv /\ GenInv
  BY <1>4 DEF ShapeInv, ShapeAt, DecisionInv, DecisionInvAt, ChainInv, ChainInvAt, GenInv, GenInvAt
<1>6. HeadMatchesGenerations
  BY DEF Init, RegistryInit, HeadMatchesGenerations
<1>7. JobInv
  BY DEF Init, JobInv, JobInvAt, Idle
<1>8. CompletedMeansTerminal
  BY DEF Init, CampaignsInit, CompletedMeansTerminal, Exists, NoRow
<1> QED BY <1>1, <1>2, <1>3, <1>5, <1>6, <1>7, <1>8 DEF IInv, TypeOK

(* A call that raises, stops with its process or begins anew changes only   *)
(* what its worker is about.                                                *)
LEMMA EndedStep ==
  ASSUME IInv, AllAssumptions, NEW w \in Worker, Fail(w) \/ Crash(w) \/ Restart(w)
  PROVE  IInv'
<1>1. UNCHANGED <<campaignVars, programVars, trail>>
  BY DEF Fail, Crash, Restart
<1>2. PICK j \in {Idle, Down} : job' = [job EXCEPT ![w] = j]
  BY DEF Fail, Crash, Restart, Return
<1>3. JobInvAt(j)
  BY <1>2 DEF JobInvAt, Idle, Down
<1> QED BY <1>1, <1>2, <1>3, JobStep

LEMMA ProgressStep ==
  ASSUME IInv, AllAssumptions, NEW w \in Worker, Progress(w)
  PROVE  IInv'
<1>1. CASE StoreFeedback(w) \/ StoreAttribution(w) \/ Decide(w)
  BY <1>1, StoreFeedbackStep, StoreAttributionStep, DecideStep
<1>2. CASE SubmitPlan(w) \/ SubmitFind(w) \/ SubmitReserve(w) \/ SubmitAdvance(w) \/ SubmitBind(w)
  BY <1>2, PlanStep, FindStep, ReserveStep, AdvanceStep, BindStep
<1>3. CASE SynchronizeAuthorization(w) \/ Start(w) \/ Complete(w) \/ CloseCampaign(w)
  BY <1>3, AuthorizeStep, StartStep, CompleteStep, CloseStep
<1> QED BY <1>1, <1>2, <1>3 DEF Progress

LEMMA StutteringStep ==
  ASSUME IInv, AllAssumptions, UNCHANGED vars
  PROVE  IInv'
<1>1. UNCHANGED programVars /\ UNCHANGED <<campaignVars, job, trail>>
  BY DEF vars
<1>2. CampaignsGoOn
  BY <1>1, SameCampaigns
<1>3. JobsGoOn
  BY <1>1 DEF JobsGoOn
<1>4. TypeOK'
  BY <1>1 DEF IInv, TypeOK, campaignVars, programVars, CampaignsTypeOK, RegistryTypeOK
<1>5. CompletedMeansTerminal'
  BY <1>1 DEF IInv, CompletedMeansTerminal, campaignVars, programVars, Exists, Of, Done, Planned
<1> QED BY <1>1, <1>2, <1>3, <1>4, <1>5, SameProgramStep

LEMMA InvariantStep ==
  ASSUME IInv, AllAssumptions, [Next \/ Stops]_vars
  PROVE  IInv'
<1>1. CASE RegisterFromRelease
  BY <1>1, RegisterStep
<1>2. CASE \E w \in Worker : Call(w) \/ Progress(w) \/ Fail(w)
  BY <1>2, CallStep, ProgressStep, EndedStep
<1>3. CASE \E a \in Actor, c \in CampaignId : ApproveGeneration(a, c) \/ ApproveDirectly(a, c)
  BY <1>3, OutsideStep
<1>4. CASE \E c \in CampaignId : CancelDirectly(c)
  BY <1>4, OutsideStep
<1>5. CASE Stops
  BY <1>5, EndedStep DEF Stops
<1>6. CASE UNCHANGED vars
  BY <1>6, StutteringStep
<1> QED BY <1>1, <1>2, <1>3, <1>4, <1>5, <1>6 DEF Next

(* IInv holds whatever callers do and in whatever order, of calls that run  *)
(* to their end (Spec) and of calls that stop with their process and are    *)
(* begun anew (FairSpec), as every theorem below.                           *)
THEOREM InvariantHolds == Spec \/ FairSpec => []IInv
<1>1. Init => IInv
  BY AssumptionsHold, InitStep
<1>2. IInv /\ [Next \/ Stops]_vars => IInv'
  BY AssumptionsHold, InvariantStep
<1>3. [Next]_vars => [Next \/ Stops]_vars
  OBVIOUS
<1> QED BY <1>1, <1>2, <1>3, PTL DEF Spec, FairSpec

(* verify_state: the head is always the one that the stored generations     *)
(* call for, although it is counted up and they are summed up, and a        *)
(* campaign is completed in its database only after its generation has an   *)
(* outcome in the other.                                                    *)
THEOREM ProgramIsVerified == Spec \/ FairSpec => []ProgramVerifies
<1>1. IInv => ProgramVerifies
  BY DEF IInv, ProgramVerifies
<1> QED BY <1>1, InvariantHolds, PTL

-----------------------------------------------------------------------------
(* What it implies *)

(* synchronize_authorization, start_generation and complete_generation: a   *)
(* generation that left its plan was approved by two people, neither of     *)
(* them behind its evidence or its evaluation, however the calls and direct *)
(* uses of the campaign API interleave.                                     *)
THEOREM GenerationsAreApproved == Spec \/ FairSpec => []GenerationsWereApproved
<1>1. IInv => GenerationsWereApproved
  <2> SUFFICES ASSUME IInv, NEW i \in Index \ {0}, Planned(i), Status(i) # "planned"
               PROVE  gens[i].campaign # NoCampaign /\ Approved(gens[i].campaign, i)
    BY DEF GenerationsWereApproved, Successors, Approved
  <2>1. i \in Index /\ i > 0
    BY AssumptionsHold, Indexes
  <2> QED BY <2>1 DEF IInv, ShapeInv, ShapeAt, GenInv, GenInvAt
<1> QED BY <1>1, InvariantHolds, PTL

(* submit_generation: a successor rests on a CONTINUE decision and on a     *)
(* conclusive attribution of feedback to what came before it.               *)
THEOREM SuccessorsAreJustified == Spec \/ FairSpec => []SuccessorsWereJustified
<1>1. IInv => SuccessorsWereJustified
  <2> SUFFICES ASSUME IInv, NEW i \in Index \ {0}, Planned(i)
               PROVE  /\ Status(i - 1) \in Unsuccessful
                      /\ Continuing(i - 1) # {}
                      /\ gens[i].att \in UNION {ReceiptsOf(s) : s \in SignalsOf(i - 1)}
                      /\ Attributed(gens[i].att)
    BY DEF SuccessorsWereJustified, Successors, Unsuccessful, Attributed
  <2>1. i \in Index /\ i > 0
    BY AssumptionsHold, Indexes
  <2>2. ChainInvAt(i)
    BY <2>1 DEF IInv, ChainInv
  <2> QED BY <2>1, <2>2 DEF ChainInvAt, MayContinue
<1> QED BY <1>1, InvariantHolds, PTL

(* The gate and the registry together: no generation is planned beyond the  *)
(* limits on rollbacks, holds, generations without improvement and          *)
(* campaigns, and what it may spend is kept for it until it is spent.       *)
THEOREM LimitsAreKept == Spec \/ FairSpec => []LimitsAreRespected
<1>1. IInv => LimitsAreRespected
  <2> SUFFICES ASSUME IInv, NEW i \in Index \ {0}, Planned(i)
               PROVE  /\ Limits(i - 1)
                      /\ i <= MaxNonImproving /\ i <= MaxCampaigns
                      /\ IF Done(i) THEN gens[i].pairs <= gens[i].budget
                         ELSE head.spent + gens[i].budget <= MaxPairs
    BY DEF LimitsAreRespected, Successors, Limits, Ended
  <2>1. i \in Index /\ i > 0 /\ (i - 1) + 1 = i
    BY AssumptionsHold, Indexes
  <2>2. ChainInvAt(i) /\ ShapeAt(i)
    BY <2>1 DEF IInv, ChainInv, ShapeInv
  <2> QED BY <2>1, <2>2 DEF ChainInvAt, MayContinue, ShapeAt, Limits
<1> QED BY <1>1, InvariantHolds, PTL

-----------------------------------------------------------------------------
(***************************************************************************)
(* What a program that ended leaves for its package (ProgramPackage), for  *)
(* one process that serves it, may stop anywhere and is started again.     *)
(* The packages' managers count what is stored, so PackageInv says where   *)
(* each count comes from: the revision of the head is that of the stored   *)
(* decisions and of the operations on successors, the revision of a        *)
(* campaign that of its state and its approvals, and each record in the    *)
(* chain from feedback to decision is the only one of its kind.            *)
(***************************************************************************)

(* One process, and nobody who uses the campaigns beside it; whoever        *)
(* produced the release evidence neither attributes nor decides.            *)
Calm == (\A v, w \in Worker : v = w) /\ ~Generic
Apart ==
  /\ \A r \in ReceiptId : attributor[r] # producer
  /\ \A d \in DecisionId : decider[d] # producer

(* Of the operations that brought a successor where it is, those after its  *)
(* plan: each counted the revision of the head up.                          *)
Moved(i) == IF i > 0 /\ Planned(i) THEN Reached(i) - 1 ELSE 0
Moves == {x \in Index \X (1 .. 4) : x[2] <= Moved(x[1])}

Ending == {"completed", "budget_exhausted", "escalated"}

HeadInv ==
  /\ IsFiniteSet(Stored)
  /\ head # NoHead =>
       /\ \A i \in Index : Planned(i) => i <= head.cur + 1
       /\ \A i \in Index : Done(i) \/ (Planned(i) /\ Status(i) = "running") => i <= head.cur
       /\ Status(head.cur) \notin {"planned", "authorized"}
       /\ gens[0].campaign = NoCampaign
       /\ \A i \in Index : Done(i) => gens[i].pairs <= MaxPairs
       /\ head.rev = Cardinality(Stored) + Cardinality(Moves)
       /\ head.state \in Ending => \E d \in Stored : StateForAction(ActionOf(d)) = head.state

(* One signal on an outcome, and one attribution of a signal.               *)
FeedbackInv ==
  /\ \A s \in SignalId : signals[s] # NoSignal =>
       /\ Done(signals[s].gen) /\ gens[signals[s].gen].outcome # "ready"
       /\ signals[s].by # producer
       /\ \A t \in SignalsOf(signals[s].gen) : t = s
  /\ \A r \in ReceiptId : receipts[r] # NoSignal =>
       signals[receipts[r]] # NoSignal /\ \A q \in ReceiptsOf(receipts[r]) : q = r

Escalates(d, i) ==
  \E s \in SignalId, r \in ReceiptId :
    UniqueEvidence(i, s, r) /\ ~Attributed(r) /\ decider[d] # attributor[r]
GateWas(a) == gens[0].outcome = "rollback" => (a = "stop_budget" <=> ExhaustedAfterRollback)

(* A decision tells what the gate has seen, and nothing of it is taken back.*)
MadeInvAt(d) ==
  /\ Done(decisions[d].gen)
  /\ ActionOf(d) = "stop_success" => gens[decisions[d].gen].outcome = "ready" /\ StopOnReady
  /\ ActionOf(d) = "escalate" => Escalates(d, decisions[d].gen)
  /\ DecisionsOf(0) = {d} => GateWas(ActionOf(d))
MadeInv == \A d \in Stored : MadeInvAt(d)

Base(state) ==
  CASE state = "open" -> 0 [] state = "candidate_ready" -> 1 [] state = "evaluation_pending" -> 2
    [] state \in {"approval_pending", "authorized"} -> 3 [] state = "completed" -> 4
Lifecycle == {"open", "candidate_ready", "evaluation_pending", "approval_pending", "authorized",
              "completed"}

(* Whoever evaluated c, and bound it, had no part in the plan it is for.    *)
Audited(c) ==
  LET i == Of(c) IN
  /\ i \in Index /\ i > 0 /\ Planned(i) /\ gens[i].campaign = c
  /\ trail[c].evaluators = {gens[i].binder}
  /\ gens[i].binder \notin {producer, attributor[gens[i].att]}
  /\ \E d \in Continuing(i - 1) : gens[i].binder # decider[d]

CampInvAt(c) ==
  /\ Voters(c) = Approvers(c) /\ ~trail[c].reused
  /\ Voters(c) # {} =>
       camp[c].state \in {"approval_pending", "authorized", "completed"} /\ Audited(c)
  /\ Exists(c) =>
       /\ camp[c].need = 2 /\ camp[c].state \in Lifecycle
       /\ camp[c].rev = Base(camp[c].state) + Cardinality(Approvers(c))
       /\ camp[c].state = "approval_pending" => Cardinality(Approvers(c)) < 2
       /\ camp[c].state \in {"authorized", "completed"} => Cardinality(Approvers(c)) = 2
CampInv == \A c \in CampaignId : CampInvAt(c)

Staffed(c, i) ==
  \E o \in Actor, d \in Continuing(i - 1) :
    o \notin {producer, attributor[gens[i].att], decider[d]} \cup trail[c].evaluators \cup Voters(c)
StaffInv ==
  \A i \in Index : i > 0 /\ Planned(i) /\ Status(i) # "planned" => Staffed(gens[i].campaign, i)

(* What the checks of the only caller found is so until it writes.          *)
CallInvAt(j) ==
  /\ j.pc = "signal" =>
       Done(j.i) /\ gens[j.i].outcome # "ready" /\ j.by # producer /\ SignalsOf(j.i) = {}
  /\ j.pc = "receipt" => signals[j.s] # NoSignal /\ ReceiptsOf(j.s) = {}
  /\ j.pc = "decision" =>
       /\ Done(j.i)
       /\ j.a = "stop_success" => gens[j.i].outcome = "ready" /\ StopOnReady
       /\ j.a = "escalate" => Escalates(j.d, j.i)
       /\ j.i = 0 /\ DecisionsOf(0) = {} => GateWas(j.a)
  /\ j.pc = "reserve" => OpenOn(j.i) = {}
  /\ j.pc \in {"authorize", "start", "complete", "close"} => Staffed(j.c, j.i)
CallInv == \A w \in Worker : CallInvAt(job[w])

PackageInv == HeadInv /\ FeedbackInv /\ MadeInv /\ CampInv /\ StaffInv /\ CallInv

-----------------------------------------------------------------------------
(* What a step of the program leaves as it was *)

ProgramGoesOn ==
  /\ RegistryGoesOn
  /\ \A i \in Index : Planned(i) /\ gens[i].campaign # NoCampaign => gens'[i].binder = gens[i].binder

LEMMA StaffedStays ==
  ASSUME RegistryGoesOn, AllAssumptions, IInv, NEW i \in Index, i > 0, Planned(i),
         NEW c \in CampaignId, approvals'[c] = approvals[c],
         trail'[c].evaluators = trail[c].evaluators, Staffed(c, i)
  PROVE  Staffed(c, i)'
<1>1. PICK o \in Actor, d \in Continuing(i - 1) :
        o \notin {producer, attributor[gens[i].att], decider[d]} \cup trail[c].evaluators \cup Voters(c)
  BY DEF Staffed
<1>2. Voters(c)' = Voters(c) /\ gens'[i].att = gens[i].att
  BY DEF Voters, RegistryGoesOn
<1>3. d \in Continuing(i - 1)'
  BY Indexes, RecordsStay
<1> QED BY <1>1, <1>2, <1>3 DEF Staffed

LEMMA AuditedStays ==
  ASSUME ProgramGoesOn, AllAssumptions, IInv, UNCHANGED <<campaignVars, trail>>,
         NEW c \in CampaignId, Audited(c)
  PROVE  Audited(c)'
<1>1. PICK i \in Index :
        /\ i = Of(c) /\ i > 0 /\ Planned(i) /\ gens[i].campaign = c
        /\ trail[c].evaluators = {gens[i].binder}
        /\ gens[i].binder \notin {producer, attributor[gens[i].att]}
        /\ \E d \in Continuing(i - 1) : gens[i].binder # decider[d]
  BY DEF Audited
<1>2. c # NoCampaign
  BY DEF AllAssumptions, RegistryAssumption
<1>3. /\ Planned(i)' /\ gens'[i].campaign = c /\ gens'[i].binder = gens[i].binder
      /\ gens'[i].att = gens[i].att
  BY <1>1, <1>2 DEF ProgramGoesOn, RegistryGoesOn
<1>4. Of(c)' = i /\ trail' = trail
  BY <1>1 DEF Of, campaignVars
<1>5. Continuing(i - 1) \subseteq Continuing(i - 1)'
  BY <1>1, Indexes, RecordsStay DEF ProgramGoesOn
<1> QED BY <1>1, <1>3, <1>4, <1>5 DEF Audited

LEMMA CampaignsKept ==
  ASSUME ProgramGoesOn, AllAssumptions, IInv, CampInv, UNCHANGED <<campaignVars, trail>>
  PROVE  CampInv'
<1> SUFFICES ASSUME NEW c \in CampaignId PROVE CampInvAt(c)'
  BY DEF CampInv
<1>1. CampInvAt(c)
  BY DEF CampInv
<1>2. /\ Voters(c)' = Voters(c) /\ Approvers(c)' = Approvers(c) /\ camp' = camp /\ trail' = trail
      /\ Exists(c)' <=> Exists(c)
  BY DEF campaignVars, Voters, Approvers, Exists
<1>3. Voters(c) # {} => Audited(c)'
  BY <1>1, AuditedStays DEF CampInvAt
<1> QED BY <1>1, <1>2, <1>3 DEF CampInvAt

LEMMA FeedbackKept ==
  ASSUME RegistryGoesOn, AllAssumptions, TypeOK, FeedbackInv, UNCHANGED <<signals, receipts>>
  PROVE  FeedbackInv'
<1>1. ASSUME NEW s \in SignalId, signals[s] # NoSignal
      PROVE  /\ Done(signals[s].gen)' /\ gens'[signals[s].gen].outcome # "ready"
             /\ signals[s].by # producer
             /\ \A t \in SignalsOf(signals[s].gen)' : t = s
  <2>1. PICK i \in Index : i = signals[s].gen
    BY <1>1 DEF TypeOK, RegistryTypeOK, Signal
  <2>2. Done(i) /\ gens[i].outcome # "ready" /\ signals[s].by # producer
        /\ \A t \in SignalsOf(i) : t = s
    BY <1>1, <2>1 DEF FeedbackInv
  <2>3. Done(i)' /\ gens'[i] = gens[i]
    BY <2>2, RecordsStay
  <2>4. SignalsOf(i)' = SignalsOf(i)
    BY DEF SignalsOf
  <2> QED BY <2>1, <2>2, <2>3, <2>4
<1>2. \A r \in ReceiptId : receipts[r] # NoSignal =>
        /\ signals[receipts[r]] # NoSignal
        /\ \A q \in ReceiptsOf(receipts[r])' : q = r
  BY DEF FeedbackInv, ReceiptsOf
<1> QED BY <1>1, <1>2 DEF FeedbackInv

(* What was decided before the step.                                        *)
LEMMA MadeStays ==
  ASSUME RegistryGoesOn, AllAssumptions, TypeOK, NEW d \in Stored, MadeInvAt(d),
         \A i \in Index : Escalates(d, i) => Escalates(d, i)'
  PROVE  MadeInvAt(d)'
<1>1. d \in DecisionId /\ decisions'[d] = decisions[d] /\ decisions[d] # NoDecision
  BY DEF Stored, RegistryGoesOn
<1>2. PICK i \in Index : i = decisions[d].gen
  BY <1>1 DEF TypeOK, RegistryTypeOK, Decision
<1>3. Done(i)' /\ gens'[i] = gens[i] /\ ActionOf(d)' = ActionOf(d)
  BY <1>1, <1>2, RecordsStay DEF MadeInvAt, ActionOf
<1>4. ASSUME DecisionsOf(0)' = {d}
      PROVE  GateWas(ActionOf(d))'
  <2>1. i = 0 /\ d \in DecisionsOf(0)
    BY <1>1, <1>2, <1>4 DEF DecisionsOf
  <2>2. DecisionsOf(0) = {d}
    BY <1>4, <2>1 DEF DecisionsOf, RegistryGoesOn
  <2>3. GateWas(ActionOf(d))
    BY <2>2 DEF MadeInvAt
  <2>4. gens'[0] = gens[0]
    BY <1>3, <2>1
  <2> QED BY <1>3, <2>3, <2>4 DEF GateWas, ExhaustedAfterRollback
<1>5. ActionOf(d) = "stop_success" => gens[i].outcome = "ready" /\ StopOnReady
  BY <1>2 DEF MadeInvAt
<1>6. ActionOf(d) = "escalate" => Escalates(d, i)'
  BY <1>2 DEF MadeInvAt
<1> QED BY <1>1, <1>2, <1>3, <1>4, <1>5, <1>6 DEF MadeInvAt

LEMMA MadeKept ==
  ASSUME RegistryGoesOn, AllAssumptions, TypeOK, MadeInv, UNCHANGED <<signals, receipts, decisions>>
  PROVE  MadeInv' /\ Stored' = Stored
<1>1. Stored' = Stored
  BY DEF Stored
<1>2. \A d \in Stored, i \in Index : Escalates(d, i) => Escalates(d, i)'
  BY DEF Escalates, UniqueEvidence, SignalsOf, ReceiptsOf, Attributed
<1> QED BY <1>1, <1>2, MadeStays DEF MadeInv

LEMMA SameGenerations ==
  ASSUME IInv, UNCHANGED gens
  PROVE  /\ Moves' = Moves
         /\ \A i : (Planned(i)' <=> Planned(i)) /\ (Done(i)' <=> Done(i)) /\ Status(i)' = Status(i)
<1>1. \A i : (Planned(i)' <=> Planned(i)) /\ (Done(i)' <=> Done(i)) /\ Status(i)' = Status(i)
  BY DEF Planned, Done, Status
<1>2. \A i \in Index : Moved(i)' = Moved(i)
  <2> SUFFICES ASSUME NEW i \in Index, Planned(i) PROVE Reached(i)' = Reached(i)
    BY <1>1 DEF Moved
  <2>1. Done(i) \/ Status(i) \in {"planned", "authorized", "running"}
    BY DEF IInv, ShapeInv, ShapeAt
  <2> QED BY <1>1, <2>1 DEF Reached
<1> QED BY <1>1, <1>2 DEF Moves

LEMMA HeadKept ==
  ASSUME IInv, HeadInv, UNCHANGED <<head, gens, decisions>>
  PROVE  HeadInv'
<1>1. Stored' = Stored /\ \A d : ActionOf(d)' = ActionOf(d)
  BY DEF Stored, ActionOf
<1>2. Moves' = Moves /\ \A i : (Planned(i)' <=> Planned(i)) /\ (Done(i)' <=> Done(i)) /\ Status(i)' = Status(i)
  BY SameGenerations
<1> QED BY <1>1, <1>2 DEF HeadInv

(* A step that leaves the program as it is.                                 *)
LEMMA ProgramKept ==
  ASSUME IInv, AllAssumptions, HeadInv, FeedbackInv, MadeInv, UNCHANGED programVars
  PROVE  HeadInv' /\ FeedbackInv' /\ MadeInv'
<1>1. RegistryGoesOn /\ UNCHANGED <<head, gens, signals, receipts, decisions>>
  BY SameProgram DEF programVars
<1> QED BY <1>1, FeedbackKept, MadeKept, HeadKept DEF IInv

(* A step that adds to the records around the generations.                  *)
LEMMA RecordKept ==
  ASSUME IInv, AllAssumptions, RegistryGoesOn, CampInv, StaffInv, UNCHANGED <<campaignVars, trail, gens>>
  PROVE  CampInv' /\ StaffInv'
<1>1. CampInv'
  BY CampaignsKept DEF ProgramGoesOn
<1>2. StaffInv'
  <2> SUFFICES ASSUME NEW i \in Index, i > 0, Planned(i)', Status(i)' # "planned"
               PROVE  Staffed(gens[i].campaign, i)'
    BY DEF StaffInv
  <2>1. Planned(i) /\ Status(i) # "planned"
    BY DEF Planned, Status
  <2>2. PICK c \in CampaignId : c = gens[i].campaign
    BY <2>1, GenerationFacts DEF IInv, TypeOK, Generation, ShapeInv, ShapeAt
  <2>3. Staffed(c, i)'
    BY <2>1, <2>2, StaffedStays DEF StaffInv, campaignVars
  <2> QED BY <2>2, <2>3
<1> QED BY <1>1, <1>2

-----------------------------------------------------------------------------
(* Steps of the only caller *)

PackageParts == HeadInv /\ FeedbackInv /\ MadeInv /\ CampInv /\ StaffInv

Watched == {"signal", "receipt", "decision", "reserve", "authorize", "start", "complete", "close"}

(* The only caller takes its next step, or begins another call.             *)
LEMMA NewCall ==
  ASSUME IInv, Calm, NEW w \in Worker, NEW j, CallInvAt(j)', job' = [job EXCEPT ![w] = j]
  PROVE  CallInv'
<1> SUFFICES ASSUME NEW v \in Worker PROVE CallInvAt(job[v])'
  BY DEF CallInv
<1>1. job'[v] = j
  BY DEF Calm, IInv, TypeOK
<1> QED BY <1>1 DEF CallInvAt

LEMMA OtherCall ==
  ASSUME IInv, Calm, NEW w \in Worker, NEW j, j.pc \notin Watched, job' = [job EXCEPT ![w] = j]
  PROVE  CallInv'
<1> SUFFICES ASSUME NEW v \in Worker PROVE CallInvAt(job[v])'
  BY DEF CallInv
<1>1. job'[v] = j
  BY DEF Calm, IInv, TypeOK
<1> QED BY <1>1 DEF CallInvAt, Watched

LEMMA Returned ==
  ASSUME IInv, Calm, NEW w \in Worker, Return(w)
  PROVE  CallInv'
<1>1. Idle.pc \notin Watched
  BY DEF Idle, Watched
<1> QED BY <1>1, OtherCall DEF Return

LEMMA PartsKept ==
  ASSUME IInv, AllAssumptions, PackageParts, UNCHANGED <<campaignVars, programVars, trail>>
  PROVE  PackageParts'
<1>1. HeadInv' /\ FeedbackInv' /\ MadeInv'
  BY ProgramKept DEF PackageParts
<1>2. ProgramGoesOn
  BY SameProgram DEF ProgramGoesOn, programVars
<1>3. CampInv'
  BY <1>2, CampaignsKept DEF PackageParts
<1>4. StaffInv'
  BY DEF PackageParts, StaffInv, Staffed, campaignVars, programVars, Planned, Status, Continuing,
         DecisionsOf, Voters
<1> QED BY <1>1, <1>3, <1>4 DEF PackageParts

LEMMA MovesFinite ==
  ASSUME AllAssumptions
  PROVE  IsFiniteSet(Moves)
<1>1. IsFiniteSet(Index)
  BY Indexes
<1>2. \A n \in Nat : IsFiniteSet(1 .. n)
  BY FS_Interval
<1>3. IsFiniteSet(Index \X (1 .. 4))
  BY <1>1, <1>2, FS_Product
<1> QED BY <1>3, FS_Subset DEF Moves

(* A generation takes one of the steps that count the revision up, or none. *)
LEMMA MovesOn ==
  ASSUME AllAssumptions, NEW i \in Index, Moved(i) \in 0 .. 3, Moved(i)' = Moved(i) + 1,
         \A k \in Index \ {i} : Moved(k)' = Moved(k)
  PROVE  Cardinality(Moves') = Cardinality(Moves) + 1
<1>1. <<i, Moved(i) + 1>> \in Index \X (1 .. 4) /\ <<i, Moved(i) + 1>> \notin Moves
  BY DEF Moves
<1>2. Moves' = Moves \cup {<<i, Moved(i) + 1>>}
  <2>1. ASSUME NEW x \in Index \X (1 .. 4)
        PROVE  x \in Moves' <=> (x \in Moves \/ x = <<i, Moved(i) + 1>>)
    <3>0. x[1] \in Index /\ x[2] \in 1 .. 4 /\ x = <<x[1], x[2]>>
      OBVIOUS
    <3>1. CASE x[1] = i
      BY <3>0, <3>1 DEF Moves
    <3>2. CASE x[1] # i
      BY <3>0, <3>2 DEF Moves
    <3> QED BY <3>1, <3>2
  <2>2. Moves \subseteq Index \X (1 .. 4) /\ Moves' \subseteq Index \X (1 .. 4)
    BY DEF Moves
  <2> HIDE DEF Moves
  <2> QED BY <1>1, <2>1, <2>2
<1> QED BY <1>1, <1>2, MovesFinite, OneMore

LEMMA HeadStep ==
  ASSUME IInv, AllAssumptions, HeadInv, head # NoHead, head' \in Head, UNCHANGED decisions,
         NEW i \in Index, i > 0, \A k \in Index \ {i} : gens'[k] = gens[k],
         i <= head'.cur + 1, head.cur <= head'.cur,
         Done(i)' \/ (Planned(i)' /\ Status(i)' = "running") => i <= head'.cur,
         Status(head.cur)' \notin {"planned", "authorized"},
         Done(i)' => gens'[i].pairs <= MaxPairs,
         head'.state \in Ending => head'.state = head.state,
         \/ Moved(i)' = Moved(i) /\ head'.rev = head.rev
         \/ Moved(i) \in 0 .. 3 /\ Moved(i)' = Moved(i) + 1 /\ head'.rev = head.rev + 1
  PROVE  HeadInv'
<1>1. head \in Head /\ head.cur \in Nat /\ head'.cur \in Nat /\ Index \subseteq Nat /\ 0 \in Index
      /\ head.rev \in Nat
  BY HeadFacts, Indexes DEF IInv, TypeOK, Head
<1>2. \A k \in Index \ {i} : /\ Planned(k)' <=> Planned(k)
                             /\ Done(k)' <=> Done(k)
                             /\ Status(k)' = Status(k)
  BY DEF Planned, Done, Status
<1>3. \A k \in Index \ {i} : Moved(k)' = Moved(k)
  <2> SUFFICES ASSUME NEW k \in Index \ {i}, Planned(k) PROVE Reached(k)' = Reached(k)
    BY <1>2 DEF Moved
  <2>1. Done(k) \/ Status(k) \in {"planned", "authorized", "running"}
    BY DEF IInv, ShapeInv, ShapeAt
  <2> QED BY <1>2, <2>1 DEF Reached
<1>4. Stored' = Stored /\ \A d : ActionOf(d)' = ActionOf(d)
  BY DEF Stored, ActionOf
<1>5. head'.rev = Cardinality(Stored') + Cardinality(Moves')
  <2>1. CASE Moved(i)' = Moved(i) /\ head'.rev = head.rev
    <3>1. Moves' = Moves
      BY <1>3, <2>1 DEF Moves
    <3> QED BY <1>4, <2>1, <3>1 DEF HeadInv
  <2>2. CASE Moved(i) \in 0 .. 3 /\ Moved(i)' = Moved(i) + 1 /\ head'.rev = head.rev + 1
    <3>1. Cardinality(Moves') = Cardinality(Moves) + 1
      BY <1>3, <2>2, MovesOn
    <3>2. Cardinality(Stored) \in Nat /\ Cardinality(Moves) \in Nat
      BY MovesFinite, FS_CardinalityType DEF HeadInv
    <3> QED BY <1>4, <2>2, <3>1, <3>2 DEF HeadInv
  <2> QED BY <2>1, <2>2
<1>6. \A k \in Index : Planned(k)' => k <= head'.cur + 1
  BY <1>1, <1>2 DEF HeadInv
<1>7. \A k \in Index : Done(k)' \/ (Planned(k)' /\ Status(k)' = "running") => k <= head'.cur
  BY <1>1, <1>2 DEF HeadInv
<1>8. \A k \in Index : Done(k)' => gens'[k].pairs <= MaxPairs
  BY <1>2 DEF HeadInv
<1>9. gens'[0].campaign = NoCampaign
  BY <1>1 DEF HeadInv
<1>10. head'.state \in Ending => \E d \in Stored' : StateForAction(ActionOf(d)') = head'.state
  BY <1>4 DEF HeadInv
<1> QED BY <1>4, <1>5, <1>6, <1>7, <1>8, <1>9, <1>10 DEF HeadInv

LEMMA GenerationKept ==
  ASSUME IInv, AllAssumptions, PackageParts, ProgramGoesOn,
         UNCHANGED <<campaignVars, trail, signals, receipts, decisions>>,
         NEW i \in Index, i > 0, \A k \in Index \ {i} : gens'[k] = gens[k],
         Planned(i)' /\ Status(i)' # "planned" =>
           Planned(i) /\ gens[i].campaign \in CampaignId /\ Staffed(gens[i].campaign, i)
  PROVE  FeedbackInv' /\ MadeInv' /\ CampInv' /\ StaffInv'
<1>1. RegistryGoesOn
  BY DEF ProgramGoesOn
<1>2. FeedbackInv' /\ MadeInv' /\ CampInv'
  BY <1>1, FeedbackKept, MadeKept, CampaignsKept DEF PackageParts, IInv
<1>3. StaffInv'
  <2> SUFFICES ASSUME NEW k \in Index, k > 0, Planned(k)', Status(k)' # "planned"
               PROVE  Staffed(gens[k].campaign, k)'
    BY DEF StaffInv
  <2>1. Planned(k) /\ gens[k].campaign \in CampaignId /\ Staffed(gens[k].campaign, k)
    <3>1. CASE k = i
      BY <3>1
    <3>2. CASE k # i
      <4>1. Planned(k) /\ Status(k) # "planned"
        BY <3>2 DEF Planned, Status
      <4>2. gens[k].campaign \in CampaignId \cup {NoCampaign} /\ gens[k].campaign # NoCampaign
        BY <4>1, GenerationFacts DEF IInv, TypeOK, Generation, ShapeInv, ShapeAt
      <4> QED BY <4>1, <4>2 DEF PackageParts, StaffInv
    <3> QED BY <3>1, <3>2
  <2>2. PICK c \in CampaignId : c = gens[k].campaign
    BY <2>1
  <2>3. gens'[k].campaign = c
    BY <1>1, <2>1, <2>2 DEF RegistryGoesOn, AllAssumptions, RegistryAssumption
  <2>4. Staffed(c, k)'
    BY <1>1, <2>1, <2>2, StaffedStays DEF campaignVars
  <2> QED BY <2>3, <2>4
<1> QED BY <1>2, <1>3

(* Only the generation next to the current one has not been started, and    *)
(* only the current one may be running.                                     *)
LEMMA Unfinished ==
  ASSUME IInv, AllAssumptions, HeadInv, NEW i \in Index,
         Status(i) \in {"planned", "authorized", "running"}
  PROVE  /\ Planned(i) /\ ~Done(i) /\ gens[i] \in Generation /\ gens[i].outcome = "none"
         /\ head # NoHead /\ head \in Head /\ head.cur \in Index /\ head.cur \in Nat
         /\ i = IF Status(i) = "running" THEN head.cur ELSE head.cur + 1
<1>1. Planned(i)
  BY DEF Planned, Status
<1>2. gens[i] \in Generation /\ ShapeAt(i)
  BY <1>1, GenerationFacts DEF IInv, TypeOK, ShapeInv
<1>3. ~Done(i)
  BY <1>2, Statuses DEF ShapeAt, Generation, Done, TerminalStatus
<1>4. gens[i].outcome = "none"
  BY <1>1, <1>3 DEF Done
<1>5. head # NoHead /\ head \in Head /\ Derived
  BY <1>1, <1>2, HeadFacts, DerivedHead DEF ShapeAt, IInv, TypeOK
<1>6. head.cur \in Index /\ head.cur \in Nat /\ i \in Nat /\ Planned(head.cur)
  BY <1>5, Indexes DEF Head, Derived
<1>7. ~(i < head.cur)
  <2> SUFFICES ASSUME i < head.cur PROVE FALSE
    OBVIOUS
  <2>1. i \in 0 .. head.cur
    BY <1>6
  <2> QED BY <1>3, <1>6, <2>1, DoneBelow
<1>8. CASE Status(i) = "running"
  <2>1. i <= head.cur
    BY <1>1, <1>5, <1>8 DEF HeadInv
  <2> QED BY <1>1, <1>2, <1>3, <1>4, <1>5, <1>6, <1>7, <1>8, <2>1
<1>9. CASE Status(i) # "running"
  <2>1. i <= head.cur + 1 /\ i # head.cur
    BY <1>1, <1>5, <1>9 DEF HeadInv
  <2>2. i = head.cur + 1
    BY <1>6, <1>7, <2>1
  <2> QED BY <1>1, <1>2, <1>3, <1>4, <1>5, <1>6, <1>9, <2>2
<1> QED BY <1>8, <1>9

LEMMA PlanPack ==
  ASSUME IInv, AllAssumptions, Calm, PackageParts, NEW w \in Worker, SubmitPlan(w)
  PROVE  PackageParts' /\ CallInv'
<1>1. PICK j \in [pc: {"plan", "find", "reserve"}, i: Index, s: SignalId, r: ReceiptId,
                  e: Evaluators, budget: Budgets, c: {NoCampaign}, rev: Nat] :
        j = job[w] /\ JobInvAt(j) /\ j.pc = "plan"
  BY JobFacts DEF SubmitPlan
<1>2. CallInv'
  <2>1. PICK next : next = [j EXCEPT !.pc = "find"]
    OBVIOUS
  <2>2. next.pc \notin Watched /\ job' = [job EXCEPT ![w] = next]
    BY <1>1, <2>1 DEF SubmitPlan, Goto, Watched
  <2> QED BY <2>2, OtherCall
<1>3. UNCHANGED <<campaignVars, trail>>
  BY DEF SubmitPlan
<1>4. CASE UNCHANGED programVars
  BY <1>2, <1>3, <1>4, PartsKept
<1>5. CASE PlanGeneration(j.i, j.budget, j.s, j.r, j.rev)
  <2> PICK i \in Index : i = j.i /\ i > 0
    BY <1>1 DEF JobInvAt
  <2>1. PICK g : g = [status |-> "planned", budget |-> j.budget, att |-> j.r,
                      campaign |-> NoCampaign, binder |-> producer, outcome |-> "none",
                      pairs |-> 0]
    OBVIOUS
  <2>2. /\ gens' = [gens EXCEPT ![i] = g] /\ ~Planned(i) /\ i = head.cur + 1 /\ head # NoHead
        /\ UNCHANGED <<head, signals, receipts, decisions>>
    BY <1>5, <2>1 DEF PlanGeneration, AtRevision
  <2>3. gens'[i] = g /\ \A k \in Index \ {i} : gens'[k] = gens[k]
    BY <2>2 DEF IInv, TypeOK, RegistryTypeOK
  <2>4. /\ Planned(i)' /\ ~Done(i)' /\ Status(i)' = "planned" /\ gens'[i].campaign = NoCampaign
        /\ ~Done(i)
    BY <2>1, <2>2, <2>3 DEF Planned, Done, Status
  <2>5. ProgramGoesOn
    <3>1. RegistryGoesOn
      BY <2>2, <2>3 DEF RegistryGoesOn, Planned, Done
    <3> QED BY <2>2, <2>3, <3>1 DEF ProgramGoesOn
  <2>6. FeedbackInv' /\ MadeInv' /\ CampInv' /\ StaffInv'
    BY <1>3, <2>2, <2>3, <2>4, <2>5, GenerationKept
  <2>7. Moved(i) = 0 /\ Moved(i)' = 0
    BY <2>2, <2>4 DEF Moved, Reached
  <2>8. head' \in Head /\ head.cur \in Nat
    BY <2>2, HeadFacts, Indexes DEF IInv, TypeOK, Head
  <2>9. i # head.cur /\ head.cur \in Index
    BY <2>2, <2>8, HeadFacts DEF IInv, TypeOK, Head
  <2>10. Status(head.cur)' = Status(head.cur)
    BY <2>2, <2>3, <2>9 DEF Status
  <2>11. HeadInv'
    BY <2>2, <2>3, <2>4, <2>7, <2>8, <2>10, HeadStep DEF PackageParts, HeadInv
  <2> QED BY <1>2, <2>6, <2>11 DEF PackageParts
<1> QED BY <1>1, <1>4, <1>5 DEF SubmitPlan

LEMMA BindPack ==
  ASSUME IInv, AllAssumptions, Calm, PackageParts, NEW w \in Worker, SubmitBind(w)
  PROVE  PackageParts' /\ CallInv'
<1>1. PICK i \in Index, c \in CampaignId, e \in Actor :
        i = job[w].i /\ c = job[w].c /\ e = job[w].e /\ i > 0
  BY JobFacts DEF SubmitBind, JobInvAt, AllAssumptions, ControllerAssumption
<1>2. BindCampaign(i, c, e, head.rev) /\ Return(w) /\ UNCHANGED <<campaignVars, trail>>
  BY <1>1 DEF SubmitBind
<1>3. CallInv'
  BY <1>2, Returned
<1>4. CASE UNCHANGED programVars
  BY <1>2, <1>3, <1>4, PartsKept
<1>5. CASE ~UNCHANGED programVars
  <2>1. /\ head # NoHead /\ Status(i) = "planned" /\ gens[i].campaign = NoCampaign
        /\ gens' = [gens EXCEPT ![i].campaign = c, ![i].binder = e]
        /\ head' = [head EXCEPT !.campaigns = @ + 1, !.rev = @ + 1]
        /\ UNCHANGED <<signals, receipts, decisions>>
    BY <1>2, <1>5 DEF BindCampaign, AtRevision
  <2>2. /\ Planned(i) /\ ~Done(i) /\ gens[i] \in Generation /\ gens[i].outcome = "none"
        /\ head \in Head /\ head.cur \in Nat /\ i = head.cur + 1
    BY <2>1, Unfinished DEF PackageParts
  <2>3. PICK g : g = [gens[i] EXCEPT !.campaign = c, !.binder = e]
    OBVIOUS
  <2>4. /\ g.campaign = c /\ g.status = "planned" /\ g.outcome = "none" /\ g.att = gens[i].att
    BY <2>1, <2>2, <2>3 DEF Generation, Status
  <2>5. gens'[i] = g /\ \A k \in Index \ {i} : gens'[k] = gens[k]
    BY <2>1, <2>3 DEF IInv, TypeOK, RegistryTypeOK
  <2>6. /\ head' \in Head /\ head'.cur = head.cur /\ head'.state = head.state
        /\ head'.rev = head.rev + 1
    <3>1. PICK h \in Head, m \in Nat, n \in Nat :
            h = head /\ m = h.campaigns + 1 /\ n = h.rev + 1
      BY <2>2 DEF Head
    <3>2. head' = [h EXCEPT !.campaigns = m, !.rev = n]
      BY <2>1, <3>1
    <3> QED BY <3>1, <3>2 DEF Head
  <2>7. head' # NoHead
    BY <2>6 DEF AllAssumptions, AbsenceAssumption
  <2>8. Planned(i)' /\ ~Done(i)' /\ Status(i)' = "planned"
    BY <2>4, <2>5 DEF Planned, Done, Status
  <2>9. ProgramGoesOn
    <3>1. RegistryGoesOn
      BY <2>1, <2>2, <2>4, <2>5, <2>7 DEF RegistryGoesOn, Planned, Done
    <3> QED BY <2>1, <2>5, <3>1 DEF ProgramGoesOn
  <2>10. FeedbackInv' /\ MadeInv' /\ CampInv' /\ StaffInv'
    BY <1>1, <1>2, <2>1, <2>5, <2>8, <2>9, GenerationKept
  <2>11. Moved(i) = 0 /\ Moved(i)' = 1
    <3>1. c # NoCampaign
      BY DEF AllAssumptions, RegistryAssumption
    <3> QED BY <1>1, <2>1, <2>2, <2>4, <2>5, <2>8, <3>1 DEF Moved, Reached
  <2>12. Status(head.cur)' \notin {"planned", "authorized"}
    <3>1. head.cur \in Index /\ head'.cur # i
      BY <2>2, <2>6 DEF Head
    <3>2. gens'[head'.cur] = gens[head.cur]
      BY <2>5, <2>6, <3>1
    <3> QED BY <2>1, <3>2 DEF Status, PackageParts, HeadInv
  <2>13. HeadInv'
    <3>1. head.cur \in Nat /\ head'.cur = head.cur /\ i <= head'.cur + 1 /\ head.cur <= head'.cur
      BY <2>2, <2>6
    <3>2. Moved(i) \in 0 .. 3 /\ Moved(i)' = Moved(i) + 1
      BY <2>11
    <3>3. HeadInv /\ head # NoHead /\ UNCHANGED decisions
      BY <2>1 DEF PackageParts
    <3>4. /\ head' \in Head /\ head'.state = head.state /\ head'.rev = head.rev + 1
          /\ \A k \in Index \ {i} : gens'[k] = gens[k]
          /\ ~Done(i)' /\ Status(i)' # "running"
      BY <2>5, <2>6, <2>8
    <3> QED BY <1>1, <2>12, <3>1, <3>2, <3>3, <3>4, HeadStep
  <2> QED BY <1>3, <2>10, <2>13 DEF PackageParts
<1> QED BY <1>4, <1>5

(* A generation is authorized, or started.                                  *)
LEMMA StatusPack ==
  ASSUME IInv, AllAssumptions, PackageParts,
         UNCHANGED <<campaignVars, trail, signals, receipts, decisions>>,
         NEW i \in Index, i > 0, NEW c \in CampaignId, gens[i].campaign = c, Staffed(c, i),
         NEW status \in {"authorized", "running"}, gens' = [gens EXCEPT ![i].status = status],
         Status(i) = IF status = "running" THEN "authorized" ELSE "planned",
         NEW state \in ProgramStates \ Ending,
         head' = [head EXCEPT !.state = state,
                              !.cur = IF status = "running" THEN i ELSE head.cur, !.rev = @ + 1]
  PROVE  PackageParts'
<1>1. /\ Planned(i) /\ ~Done(i) /\ gens[i] \in Generation /\ gens[i].outcome = "none"
      /\ head # NoHead /\ head \in Head /\ head.cur \in Index /\ head.cur \in Nat
      /\ i = head.cur + 1
  BY Unfinished DEF PackageParts
<1>2. PICK g : g = [gens[i] EXCEPT !.status = status]
  OBVIOUS
<1>3. /\ g.campaign = c /\ g.status = status /\ g.outcome = "none" /\ g.att = gens[i].att
      /\ g.binder = gens[i].binder
  BY <1>1, <1>2 DEF Generation
<1>4. gens'[i] = g /\ \A k \in Index \ {i} : gens'[k] = gens[k]
  BY <1>2 DEF IInv, TypeOK, RegistryTypeOK
<1>5. PICK cur \in Index : cur = IF status = "running" THEN i ELSE head.cur
  BY <1>1
<1>6. head' \in Head /\ head'.cur = cur /\ head'.state = state /\ head'.rev = head.rev + 1
  <2>1. PICK h \in Head, n \in Nat : h = head /\ n = h.rev + 1
    BY <1>1 DEF Head
  <2>2. head' = [h EXCEPT !.state = state, !.cur = cur, !.rev = n]
    BY <1>5, <2>1
  <2> QED BY <2>1, <2>2 DEF Head
<1>7. head' # NoHead
  BY <1>6 DEF AllAssumptions, AbsenceAssumption
<1>8. Planned(i)' /\ ~Done(i)' /\ Status(i)' = status
  BY <1>3, <1>4 DEF Planned, Done, Status
<1>9. ProgramGoesOn
  <2>1. RegistryGoesOn
    BY <1>1, <1>3, <1>4, <1>7 DEF RegistryGoesOn, Planned, Done
  <2> QED BY <1>3, <1>4, <2>1 DEF ProgramGoesOn
<1>10. FeedbackInv' /\ MadeInv' /\ CampInv' /\ StaffInv'
  BY <1>1, <1>4, <1>9, GenerationKept
<1>11. c # NoCampaign
  BY DEF AllAssumptions, RegistryAssumption
<1>12. HeadInv'
  <2>1. CASE status = "authorized"
    <3>1. Moved(i) = 1 /\ Moved(i)' = 2
      BY <1>1, <1>8, <1>11, <2>1 DEF Moved, Reached
    <3>2. head'.cur = head.cur /\ head.cur # i
      BY <1>1, <1>5, <1>6, <2>1
    <3>3. Status(head.cur)' \notin {"planned", "authorized"}
      BY <1>1, <1>4, <3>2 DEF Status, PackageParts, HeadInv
    <3> QED BY <1>1, <1>4, <1>6, <1>8, <2>1, <3>1, <3>2, <3>3, HeadStep DEF PackageParts
  <2>2. CASE status = "running"
    <3>1. Moved(i) = 2 /\ Moved(i)' = 3
      BY <1>1, <1>8, <2>2 DEF Moved, Reached
    <3>2. head'.cur = i
      BY <1>5, <1>6, <2>2
    <3>3. Status(head.cur)' \notin {"planned", "authorized"}
      BY <1>3, <1>4, <2>2, <3>2 DEF Status
    <3> QED BY <1>1, <1>4, <1>6, <1>8, <3>1, <3>2, <3>3, HeadStep DEF PackageParts
  <2> QED BY <2>1, <2>2
<1> QED BY <1>10, <1>12 DEF PackageParts

(* What the caller found of the campaign of i, which it still has.          *)
LEMMA OperatorFound ==
  ASSUME IInv, AllAssumptions, CallInv, NEW w \in Worker,
         job[w].pc \in {"authorize", "start", "complete", "close"}
  PROVE  \E i \in Index, c \in CampaignId :
           /\ i = job[w].i /\ c = job[w].c /\ i > 0 /\ Planned(i) /\ Approved(c, i)
           /\ gens[i].campaign = c /\ Staffed(c, i)
<1>1. PICK i \in Index, c \in CampaignId :
        i = job[w].i /\ c = job[w].c /\ i > 0 /\ Planned(i) /\ Approved(c, i)
  BY JobFacts DEF JobInvAt
<1>2. Staffed(c, i)
  BY <1>1 DEF CallInv, CallInvAt
<1> QED BY <1>1, <1>2 DEF Approved

LEMMA AuthorizePack ==
  ASSUME IInv, AllAssumptions, Calm, PackageParts, CallInv, NEW w \in Worker,
         SynchronizeAuthorization(w)
  PROVE  PackageParts' /\ CallInv'
<1>1. PICK i \in Index, c \in CampaignId :
        /\ i = job[w].i /\ c = job[w].c /\ i > 0 /\ gens[i].campaign = c /\ Staffed(c, i)
  BY OperatorFound DEF SynchronizeAuthorization
<1>2. /\ AuthorizeGeneration(i, c, job[w].rev) /\ Return(w) /\ UNCHANGED <<campaignVars, trail>>
  BY <1>1 DEF SynchronizeAuthorization
<1>3. /\ head # NoHead /\ Status(i) = "planned"
      /\ gens' = [gens EXCEPT ![i].status = "authorized"]
      /\ head' = [head EXCEPT !.state = "generation_authorized", !.rev = @ + 1]
      /\ UNCHANGED <<signals, receipts, decisions>>
  BY <1>2 DEF AuthorizeGeneration, AtRevision
<1>4. head' = [head EXCEPT !.state = "generation_authorized", !.cur = head.cur, !.rev = @ + 1]
  <2>1. head \in Head
    BY <1>3, HeadFacts DEF IInv, TypeOK
  <2> QED BY <1>3, <2>1 DEF Head
<1>5. PackageParts'
  <2>1. "generation_authorized" \in ProgramStates \ Ending
    BY DEF ProgramStates, Ending
  <2> QED BY <1>1, <1>2, <1>3, <1>4, <2>1, StatusPack
<1> QED BY <1>2, <1>5, Returned

LEMMA StartPack ==
  ASSUME IInv, AllAssumptions, Calm, PackageParts, CallInv, NEW w \in Worker, Start(w)
  PROVE  PackageParts' /\ CallInv'
<1>1. PICK i \in Index, c \in CampaignId :
        /\ i = job[w].i /\ c = job[w].c /\ i > 0 /\ gens[i].campaign = c /\ Staffed(c, i)
  BY OperatorFound DEF Start
<1>2. StartGeneration(i, job[w].rev) /\ Return(w) /\ UNCHANGED <<campaignVars, trail>>
  BY <1>1 DEF Start
<1>3. /\ Status(i) = "authorized" /\ gens' = [gens EXCEPT ![i].status = "running"]
      /\ head' = [head EXCEPT !.state = "generation_running", !.cur = i, !.rev = @ + 1]
      /\ UNCHANGED <<signals, receipts, decisions>>
  BY <1>2 DEF StartGeneration
<1>4. PackageParts'
  <2>1. "generation_running" \in ProgramStates \ Ending
    BY DEF ProgramStates, Ending
  <2> QED BY <1>1, <1>2, <1>3, <2>1, StatusPack
<1> QED BY <1>2, <1>4, Returned

LEMMA CompletePack ==
  ASSUME IInv, AllAssumptions, Calm, PackageParts, CallInv, NEW w \in Worker, Complete(w)
  PROVE  PackageParts' /\ CallInv'
<1>1. PICK j \in [pc: {"complete", "close"}, i: Index, c: CampaignId, rev: Nat,
                  o: Outcomes, pairs: Nat] :
        j = job[w] /\ j.pc = "complete"
  BY JobFacts DEF Complete
<1> PICK i \in Index, c \in CampaignId, o \in Outcomes, pairs \in Nat :
      i = j.i /\ c = j.c /\ o = j.o /\ pairs = j.pairs
  BY <1>1
<1>2. i > 0 /\ gens[i].campaign = c /\ Staffed(c, i)
  BY <1>1, OperatorFound
<1>3. /\ Status(i) = "running" /\ head.spent + pairs <= MaxPairs
      /\ gens' = [gens EXCEPT ![i].status = StatusFor(o), ![i].outcome = o, ![i].pairs = pairs]
      /\ head' = Counted(head, o, i, pairs)
      /\ job' = [job EXCEPT ![w].pc = "close", ![w].rev = camp[c].rev]
      /\ UNCHANGED <<campaignVars, trail, signals, receipts, decisions>>
  BY <1>1 DEF Complete, CompleteGeneration, WithinBudget, Counted
<1>4. /\ Planned(i) /\ ~Done(i) /\ gens[i] \in Generation /\ gens[i].outcome = "none"
      /\ head # NoHead /\ head \in Head /\ i = head.cur /\ i \in Nat
  BY <1>3, Unfinished DEF PackageParts
<1>5. PICK status \in TerminalStatus : status = StatusFor(o)
  BY Statuses
<1>6. PICK g : g = [gens[i] EXCEPT !.status = status, !.outcome = o, !.pairs = pairs]
  OBVIOUS
<1>7. /\ g.campaign = c /\ g.status = status /\ g.outcome = o /\ g.att = gens[i].att
      /\ g.binder = gens[i].binder /\ g.pairs = pairs
  BY <1>2, <1>4, <1>6 DEF Generation
<1>8. gens'[i] = g /\ \A k \in Index \ {i} : gens'[k] = gens[k]
  BY <1>3, <1>5, <1>6 DEF IInv, TypeOK, RegistryTypeOK
<1>9. head' \in Head /\ head'.cur = i /\ head'.rev = head.rev + 1 /\ head'.state = "running"
  <2>1. PICK h, new : h = head /\ new = head'
    OBVIOUS
  <2>2. new = Counted(h, o, i, pairs)
    BY <1>3, <2>1
  <2>3. new \in Head /\ new.cur = i /\ new.rev = h.rev + 1 /\ new.state = "running"
    BY <1>4, <2>1, <2>2, CountedHead
  <2> QED BY <2>1, <2>3
<1>10. head' # NoHead
  BY <1>9 DEF AllAssumptions, AbsenceAssumption
<1>11. Planned(i)' /\ Done(i)' /\ Status(i)' = status
  <2>1. status # "absent" /\ o # "none"
    BY DEF TerminalStatus, Outcomes
  <2> QED BY <1>7, <1>8, <2>1 DEF Planned, Done, Status
<1>12. ProgramGoesOn
  <2>1. RegistryGoesOn
    BY <1>2, <1>3, <1>4, <1>7, <1>8, <1>10, <1>11 DEF RegistryGoesOn, Planned, Done
  <2> QED BY <1>7, <1>8, <2>1 DEF ProgramGoesOn
<1>13. FeedbackInv' /\ MadeInv' /\ CampInv' /\ StaffInv'
  <2>1. c \in CampaignId /\ Planned(i) /\ gens[i].campaign \in CampaignId
    BY <1>2, <1>4
  <2> QED BY <1>2, <1>3, <1>8, <1>12, <2>1, GenerationKept
<1>14. HeadInv'
  <2>1. Moved(i) = 3 /\ Moved(i)' = 4
    <3>1. Status(i)' # "absent" /\ Status(i)' \notin {"planned", "authorized", "running"}
      BY <1>11 DEF TerminalStatus
    <3>2. Reached(i) = 4
      BY <1>3, <1>4 DEF Reached
    <3>3. Reached(i)' = 5
      BY <1>11, <3>1 DEF Reached
    <3> QED BY <1>2, <1>4, <1>11, <3>2, <3>3 DEF Moved
  <2>2. Moved(i) \in 0 .. 3 /\ Moved(i)' = Moved(i) + 1
    BY <2>1
  <2>3. i <= head'.cur + 1 /\ head.cur <= head'.cur /\ i <= head'.cur
    BY <1>4, <1>9
  <2>4. Status(head.cur)' \notin {"planned", "authorized"}
    BY <1>4, <1>9, <1>11 DEF TerminalStatus
  <2>5. gens'[i].pairs <= MaxPairs
    <3>1. head.spent \in Nat /\ MaxPairs \in Nat
      BY <1>4, Indexes DEF Head
    <3> QED BY <1>3, <1>7, <1>8, <3>1
  <2>6. head'.state \notin Ending
    BY <1>9 DEF Ending
  <2>7. HeadInv /\ UNCHANGED decisions
    BY <1>3 DEF PackageParts
  <2>8. head' \in Head /\ head'.rev = head.rev + 1 /\ \A k \in Index \ {i} : gens'[k] = gens[k]
    BY <1>8, <1>9
  <2> QED BY <1>2, <1>4, <2>2, <2>3, <2>4, <2>5, <2>6, <2>7, <2>8, HeadStep
<1>15. CallInv'
  <2>1. PICK next : next = [j EXCEPT !.pc = "close", !.rev = camp[c].rev]
    OBVIOUS
  <2>2. job' = [job EXCEPT ![w] = next] /\ next.pc = "close" /\ next.i = i /\ next.c = c
    BY <1>1, <1>3, <2>1 DEF IInv, TypeOK
  <2>3. Staffed(c, i)'
    BY <1>2, <1>3, <1>4, <1>12, StaffedStays DEF ProgramGoesOn, campaignVars
  <2>4. CallInvAt(next)'
    BY <2>2, <2>3 DEF CallInvAt
  <2> QED BY <2>2, <2>4, NewCall
<1> QED BY <1>13, <1>14, <1>15 DEF PackageParts

LEMMA FeedbackPack ==
  ASSUME IInv, AllAssumptions, Calm, PackageParts, CallInv, NEW w \in Worker, StoreFeedback(w)
  PROVE  PackageParts' /\ CallInv'
<1>1. PICK s \in SignalId, i \in Index, by \in Actor :
        s = job[w].s /\ i = job[w].i /\ by = job[w].by
  BY JobFacts DEF StoreFeedback
<1>2. Done(i) /\ gens[i].outcome # "ready" /\ by # producer /\ SignalsOf(i) = {}
  BY <1>1 DEF StoreFeedback, CallInv, CallInvAt
<1>3. StoreSignal(s, i, by) /\ Return(w) /\ UNCHANGED <<campaignVars, trail>>
  BY <1>1 DEF StoreFeedback
<1>4. PICK x \in Signal : x = [gen |-> i, by |-> by]
  BY DEF Signal
<1>5. /\ signals[s] = NoSignal /\ signals' = [signals EXCEPT ![s] = x]
      /\ UNCHANGED <<head, gens, receipts, decisions>>
  BY <1>3, <1>4 DEF StoreSignal
<1>6. /\ x # NoSignal /\ x.gen = i /\ x.by = by
      /\ signals'[s] = x /\ \A t \in SignalId \ {s} : signals'[t] = signals[t]
  BY <1>4, <1>5 DEF AllAssumptions, AbsenceAssumption, IInv, TypeOK, RegistryTypeOK
<1>7. RegistryGoesOn
  BY <1>5, <1>6 DEF RegistryGoesOn, Planned, Done
<1>8. SignalsOf(i)' = {s} /\ \A k \in Index \ {i} : SignalsOf(k)' = SignalsOf(k)
  <2>1. \A t \in SignalId : t \in SignalsOf(i)' <=> t = s
    BY <1>2, <1>6 DEF SignalsOf
  <2>2. \A k \in Index \ {i} : \A t \in SignalId : t \in SignalsOf(k)' <=> t \in SignalsOf(k)
    BY <1>5, <1>6 DEF SignalsOf
  <2> QED BY <2>1, <2>2 DEF SignalsOf
<1>9. \A t : ReceiptsOf(t)' = ReceiptsOf(t)
  BY <1>5 DEF ReceiptsOf
<1>10. HeadInv' /\ CampInv' /\ StaffInv'
  BY <1>3, <1>5, <1>7, HeadKept, RecordKept DEF PackageParts
<1>11. FeedbackInv'
  <2>1. ASSUME NEW t \in SignalId, signals'[t] # NoSignal
        PROVE  \E k \in Index :
                 /\ signals'[t].gen = k /\ Done(k) /\ gens[k].outcome # "ready"
                 /\ signals'[t].by # producer /\ \A u \in SignalsOf(k)' : u = t
    <3>1. CASE t = s
      BY <1>2, <1>6, <1>8, <3>1
    <3>2. CASE t # s
      <4>1. PICK k \in Index : k = signals[t].gen
        BY <1>6, <2>1, <3>2 DEF IInv, TypeOK, RegistryTypeOK, Signal
      <4>2. /\ Done(k) /\ gens[k].outcome # "ready" /\ signals[t].by # producer
            /\ \A u \in SignalsOf(k) : u = t
        BY <1>6, <2>1, <3>2, <4>1 DEF PackageParts, FeedbackInv
      <4>3. k # i
        BY <1>2, <1>6, <2>1, <3>2, <4>1 DEF SignalsOf
      <4> QED BY <1>6, <1>8, <3>2, <4>1, <4>2, <4>3
    <3> QED BY <3>1, <3>2
  <2>2. ASSUME NEW r \in ReceiptId, receipts[r] # NoSignal
        PROVE  signals'[receipts[r]] # NoSignal /\ \A q \in ReceiptsOf(receipts[r]) : q = r
    <3>1. receipts[r] \in SignalId
      BY <2>2 DEF IInv, TypeOK, RegistryTypeOK
    <3>2. signals[receipts[r]] # NoSignal /\ \A q \in ReceiptsOf(receipts[r]) : q = r
      BY <2>2 DEF PackageParts, FeedbackInv
    <3> QED BY <1>5, <1>6, <3>1, <3>2
  <2>3. ASSUME NEW t \in SignalId, signals'[t] # NoSignal
        PROVE  (/\ Done(signals[t].gen) /\ gens[signals[t].gen].outcome # "ready"
                /\ signals[t].by # producer /\ \A u \in SignalsOf(signals[t].gen) : u = t)'
    <3>1. PICK k \in Index :
            /\ signals'[t].gen = k /\ Done(k) /\ gens[k].outcome # "ready"
            /\ signals'[t].by # producer /\ \A u \in SignalsOf(k)' : u = t
      BY <2>1, <2>3
    <3>2. Done(k)'
      BY <1>7, <3>1, RecordsStay
    <3> QED BY <1>5, <3>1, <3>2
  <2>4. ASSUME NEW r \in ReceiptId, receipts'[r] # NoSignal
        PROVE  (signals[receipts[r]] # NoSignal /\ \A q \in ReceiptsOf(receipts[r]) : q = r)'
    <3>1. receipts'[r] = receipts[r]
      BY <1>5
    <3> QED BY <1>9, <2>2, <2>4, <3>1
  <2> QED BY <2>3, <2>4 DEF FeedbackInv
<1>12. MadeInv'
  <2>1. Stored' = Stored
    BY <1>5 DEF Stored
  <2>2. ASSUME NEW d, NEW k \in Index, Escalates(d, k)
        PROVE  Escalates(d, k)'
    <3>1. PICK t \in SignalId, r \in ReceiptId :
            UniqueEvidence(k, t, r) /\ ~Attributed(r) /\ decider[d] # attributor[r]
      BY <2>2 DEF Escalates
    <3>2. k # i
      BY <1>2, <3>1 DEF UniqueEvidence
    <3>3. UniqueEvidence(k, t, r)'
      BY <1>8, <1>9, <3>1, <3>2 DEF UniqueEvidence
    <3> QED BY <3>1, <3>3 DEF Escalates, Attributed
  <2> QED BY <1>7, <2>1, <2>2, MadeStays DEF PackageParts, MadeInv, IInv
<1> QED BY <1>3, <1>10, <1>11, <1>12, Returned DEF PackageParts

LEMMA AttributionPack ==
  ASSUME IInv, AllAssumptions, Calm, PackageParts, CallInv, NEW w \in Worker, StoreAttribution(w)
  PROVE  PackageParts' /\ CallInv'
<1>1. PICK r \in ReceiptId, s \in SignalId : r = job[w].r /\ s = job[w].s
  BY JobFacts DEF StoreAttribution
<1>2. signals[s] # NoSignal /\ ReceiptsOf(s) = {}
  BY <1>1 DEF StoreAttribution, CallInv, CallInvAt
<1>3. StoreReceipt(r, s) /\ Return(w) /\ UNCHANGED <<campaignVars, trail>>
  BY <1>1 DEF StoreAttribution
<1>4. /\ receipts[r] = NoSignal /\ receipts' = [receipts EXCEPT ![r] = s]
      /\ UNCHANGED <<head, gens, signals, decisions>>
  BY <1>3 DEF StoreReceipt
<1>5. receipts'[r] = s /\ \A q \in ReceiptId \ {r} : receipts'[q] = receipts[q]
  BY <1>4 DEF IInv, TypeOK, RegistryTypeOK
<1>6. RegistryGoesOn
  BY <1>4, <1>5 DEF RegistryGoesOn, Planned, Done
<1>7. /\ ReceiptsOf(s)' = {r} /\ \A t \in SignalId \ {s} : ReceiptsOf(t)' = ReceiptsOf(t)
      /\ \A i : SignalsOf(i)' = SignalsOf(i)
  <2>1. \A q \in ReceiptId : q \in ReceiptsOf(s)' <=> q = r
    BY <1>2, <1>5 DEF ReceiptsOf
  <2>2. \A t \in SignalId \ {s} : \A q \in ReceiptId : q \in ReceiptsOf(t)' <=> q \in ReceiptsOf(t)
    BY <1>4, <1>5 DEF ReceiptsOf, AllAssumptions, RegistryAssumption
  <2>3. \A i : SignalsOf(i)' = SignalsOf(i)
    BY <1>4 DEF SignalsOf
  <2> QED BY <2>1, <2>2, <2>3 DEF ReceiptsOf
<1>8. HeadInv' /\ CampInv' /\ StaffInv'
  BY <1>3, <1>4, <1>6, HeadKept, RecordKept DEF PackageParts
<1>9. FeedbackInv'
  <2>1. ASSUME NEW t \in SignalId, signals[t] # NoSignal
        PROVE  /\ Done(signals[t].gen)' /\ gens[signals[t].gen].outcome # "ready"
               /\ signals[t].by # producer
               /\ \A u \in SignalsOf(signals[t].gen)' : u = t
    BY <1>4, <1>7, <2>1 DEF PackageParts, FeedbackInv, Done, Planned
  <2>2. ASSUME NEW q \in ReceiptId, receipts'[q] # NoSignal
        PROVE  \E t \in SignalId :
                 receipts'[q] = t /\ signals[t] # NoSignal /\ \A u \in ReceiptsOf(t)' : u = q
    <3>1. CASE q = r
      BY <1>2, <1>5, <1>7, <3>1
    <3>2. CASE q # r
      <4>1. PICK t \in SignalId : t = receipts[q]
        BY <1>5, <2>2, <3>2 DEF IInv, TypeOK, RegistryTypeOK
      <4>2. t # s
        BY <1>2, <4>1 DEF ReceiptsOf
      <4>3. signals[t] # NoSignal /\ \A u \in ReceiptsOf(t) : u = q
        BY <1>5, <2>2, <3>2, <4>1 DEF PackageParts, FeedbackInv
      <4> QED BY <1>5, <1>7, <3>2, <4>1, <4>2, <4>3
    <3> QED BY <3>1, <3>2
  <2>3. ASSUME NEW q \in ReceiptId, receipts'[q] # NoSignal
        PROVE  (signals[receipts[q]] # NoSignal /\ \A u \in ReceiptsOf(receipts[q]) : u = q)'
    <3>1. PICK t \in SignalId :
            receipts'[q] = t /\ signals[t] # NoSignal /\ \A u \in ReceiptsOf(t)' : u = q
      BY <2>2, <2>3
    <3> QED BY <1>4, <3>1
  <2>4. ASSUME NEW t \in SignalId, signals'[t] # NoSignal
        PROVE  (/\ Done(signals[t].gen) /\ gens[signals[t].gen].outcome # "ready"
                /\ signals[t].by # producer /\ \A u \in SignalsOf(signals[t].gen) : u = t)'
    <3>1. signals' = signals /\ gens' = gens
      BY <1>4
    <3> QED BY <2>1, <2>4, <3>1
  <2> QED BY <2>3, <2>4 DEF FeedbackInv
<1>10. MadeInv'
  <2>1. Stored' = Stored
    BY <1>4 DEF Stored
  <2>2. ASSUME NEW d, NEW k \in Index, Escalates(d, k)
        PROVE  Escalates(d, k)'
    <3>1. PICK t \in SignalId, q \in ReceiptId :
            UniqueEvidence(k, t, q) /\ ~Attributed(q) /\ decider[d] # attributor[q]
      BY <2>2 DEF Escalates
    <3>2. t # s
      BY <1>2, <3>1 DEF UniqueEvidence
    <3>3. UniqueEvidence(k, t, q)'
      BY <1>7, <3>1, <3>2 DEF UniqueEvidence
    <3> QED BY <3>1, <3>3 DEF Escalates, Attributed
  <2> QED BY <1>6, <2>1, <2>2, MadeStays DEF PackageParts, MadeInv, IInv
<1> QED BY <1>3, <1>8, <1>9, <1>10, Returned DEF PackageParts

LEMMA DecidePack ==
  ASSUME IInv, AllAssumptions, Calm, PackageParts, CallInv, NEW w \in Worker, Decide(w)
  PROVE  PackageParts' /\ CallInv'
<1>1. PICK d \in DecisionId, i \in Index, a \in Actions :
        d = job[w].d /\ i = job[w].i /\ a = job[w].a
  BY JobFacts DEF Decide
<1>2. /\ Done(i)
      /\ a = "stop_success" => gens[i].outcome = "ready" /\ StopOnReady
      /\ a = "escalate" => Escalates(d, i)
      /\ i = 0 /\ DecisionsOf(0) = {} => GateWas(a)
  BY <1>1 DEF Decide, CallInv, CallInvAt
<1>3. StoreDecision(d, i, a, job[w].rev) /\ Return(w) /\ UNCHANGED <<campaignVars, trail>>
  BY <1>1 DEF Decide
<1>4. PICK x \in Decision : x = [gen |-> i, action |-> a]
  BY DEF Decision
<1>5. /\ decisions[d] = NoDecision /\ decisions' = [decisions EXCEPT ![d] = x] /\ head # NoHead
      /\ head' = [head EXCEPT !.state = StateForAction(a), !.rev = @ + 1]
      /\ UNCHANGED <<gens, signals, receipts>>
  BY <1>3, <1>4 DEF StoreDecision, AtRevision
<1>6. /\ x # NoDecision /\ x.gen = i /\ x.action = a
      /\ decisions'[d] = x /\ \A e \in DecisionId \ {d} : decisions'[e] = decisions[e]
  BY <1>4, <1>5 DEF AllAssumptions, AbsenceAssumption, IInv, TypeOK, RegistryTypeOK
<1>7. head \in Head
  BY <1>5, HeadFacts DEF IInv, TypeOK
<1>8. /\ head'.cur = head.cur /\ head'.rev = head.rev + 1 /\ head'.state = StateForAction(a)
      /\ head' # NoHead
  <2>1. PICK h \in Head, n \in Nat, state \in ProgramStates :
          h = head /\ n = h.rev + 1 /\ state = StateForAction(a)
    BY <1>7 DEF Head, Actions, StateForAction, ProgramStates
  <2>2. head' = [h EXCEPT !.state = state, !.rev = n]
    BY <1>5, <2>1
  <2>3. head' \in Head
    BY <2>2, MovedHead
  <2> QED BY <2>1, <2>2, <2>3 DEF Head, AllAssumptions, AbsenceAssumption
<1>9. RegistryGoesOn
  BY <1>5, <1>6, <1>8 DEF RegistryGoesOn, Planned, Done
<1>10. CampInv' /\ StaffInv'
  BY <1>3, <1>5, <1>9, RecordKept DEF PackageParts
<1>11. FeedbackInv'
  BY <1>5, <1>9, FeedbackKept DEF PackageParts, IInv
<1>12. Stored' = Stored \cup {d} /\ d \notin Stored
  <2>1. \A e \in DecisionId : e \in Stored' <=> e \in Stored \/ e = d
    BY <1>6 DEF Stored
  <2> QED BY <1>5, <2>1 DEF Stored
<1>13. ActionOf(d)' = a /\ \A e \in Stored : ActionOf(e)' = ActionOf(e)
  BY <1>5, <1>6 DEF ActionOf, Stored
<1>14. HeadInv'
  <2>1. /\ Moves' = Moves
        /\ \A k : (Planned(k)' <=> Planned(k)) /\ (Done(k)' <=> Done(k)) /\ Status(k)' = Status(k)
    BY <1>5, SameGenerations
  <2>2. HeadInv /\ IsFiniteSet(Stored) /\ head.rev = Cardinality(Stored) + Cardinality(Moves)
    BY <1>5 DEF PackageParts, HeadInv
  <2>3. Cardinality(Stored) \in Nat /\ Cardinality(Moves) \in Nat
    BY <2>2, MovesFinite, FS_CardinalityType
  <2>4. IsFiniteSet(Stored') /\ Cardinality(Stored') = Cardinality(Stored) + 1
    BY <1>12, <2>2, FS_AddElement
  <2>5. head'.rev = Cardinality(Stored') + Cardinality(Moves')
    BY <1>8, <2>1, <2>2, <2>3, <2>4
  <2>6. /\ \A k \in Index : Planned(k)' => k <= head'.cur + 1
        /\ \A k \in Index : Done(k)' \/ (Planned(k)' /\ Status(k)' = "running") => k <= head'.cur
        /\ Status(head.cur)' \notin {"planned", "authorized"}
        /\ gens'[0].campaign = NoCampaign
        /\ \A k \in Index : Done(k)' => gens'[k].pairs <= MaxPairs
    <3>1. Status(head.cur)' = Status(head.cur)
      BY <1>5, <1>8 DEF Status
    <3> QED BY <1>5, <1>8, <2>1, <2>2, <3>1 DEF HeadInv
  <2>7. \E e \in Stored' : StateForAction(ActionOf(e)') = head'.state
    BY <1>8, <1>12, <1>13
  <2> QED BY <2>4, <2>5, <2>6, <2>7 DEF HeadInv
<1>15. MadeInv'
  <2>1. ASSUME NEW e, NEW k \in Index, Escalates(e, k)
        PROVE  Escalates(e, k)'
    BY <1>5, <2>1 DEF Escalates, UniqueEvidence, SignalsOf, ReceiptsOf, Attributed
  <2>2. \A e \in Stored : MadeInvAt(e)'
    BY <1>9, <2>1, MadeStays DEF PackageParts, MadeInv, IInv
  <2>3. ASSUME DecisionsOf(0)' = {d}
        PROVE  GateWas(a)'
    <3>1. i = 0
      BY <1>6, <2>3 DEF DecisionsOf
    <3>2. DecisionsOf(0) = {}
      BY <1>5, <1>6, <2>3 DEF DecisionsOf
    <3>3. GateWas(a)
      BY <1>2, <3>1, <3>2
    <3> QED BY <1>5, <3>3 DEF GateWas, ExhaustedAfterRollback
  <2>4. MadeInvAt(d)'
    <3>1. Done(i)' /\ gens' = gens /\ decisions'[d].gen = i
      BY <1>2, <1>5, <1>6 DEF Done, Planned
    <3>2. a = "stop_success" => gens[i].outcome = "ready" /\ StopOnReady
      BY <1>2
    <3>3. a = "escalate" => Escalates(d, i)'
      BY <1>2, <2>1
    <3> QED BY <1>13, <2>3, <3>1, <3>2, <3>3 DEF MadeInvAt
  <2> QED BY <1>12, <2>2, <2>4 DEF MadeInv
<1> QED BY <1>3, <1>10, <1>11, <1>14, <1>15, Returned DEF PackageParts

LEMMA RegisterPack ==
  ASSUME IInv, AllAssumptions, PackageParts, CallInv, RegisterFromRelease
  PROVE  PackageParts' /\ CallInv'
<1>1. PICK o \in Outcomes, pairs \in InitialPairs : Register(o, pairs)
  BY DEF RegisterFromRelease
<1>2. pairs <= MaxPairs
  BY Indexes DEF AllAssumptions, ControllerAssumption
<1>3. PICK status \in TerminalStatus : status = StatusFor(o)
  BY Statuses
<1>4. PICK g : g = [status |-> status, budget |-> 0, att |-> NoReceipt,
                    campaign |-> NoCampaign, binder |-> producer, outcome |-> o, pairs |-> pairs]
  OBVIOUS
<1>5. /\ head = NoHead /\ gens' = [gens EXCEPT ![0] = g]
      /\ head'.cur = 0 /\ head'.rev = 0 /\ head'.state = "running"
      /\ UNCHANGED <<campaignVars, job, trail, signals, receipts, decisions>>
  BY <1>1, <1>3, <1>4 DEF RegisterFromRelease, Register
<1>6. 0 \in Index /\ \A k : ~Planned(k) /\ ~Done(k)
  <2>1. \A k \in Index : ~Planned(k)
    BY <1>5, DoneBelow
  <2> QED BY <2>1, Indexes DEF Planned, Done
<1>7. /\ gens'[0] = g /\ \A k \in Index \ {0} : gens'[k] = gens[k]
  BY <1>5, <1>6 DEF IInv, TypeOK, RegistryTypeOK
<1>8. /\ \A k \in Index \ {0} : ~Planned(k)' /\ ~Done(k)'
      /\ Status(0)' = status
  BY <1>4, <1>6, <1>7 DEF Planned, Done, Status
<1>9. \A s \in SignalId : signals[s] = NoSignal
  BY <1>6 DEF PackageParts, FeedbackInv
<1>10. \A r \in ReceiptId : receipts[r] = NoSignal
  BY <1>9 DEF PackageParts, FeedbackInv, IInv, TypeOK, RegistryTypeOK
<1>11. Stored = {} /\ Stored' = {}
  <2>1. Stored = {}
    BY <1>6 DEF PackageParts, MadeInv, MadeInvAt
  <2> QED BY <1>5, <2>1 DEF Stored
<1>12. HeadInv'
  <2>1. Moves' = {}
    <3>1. \A k \in Index : Moved(k)' = 0
      BY <1>8 DEF Moved
    <3> QED BY <3>1 DEF Moves
  <2>2. IsFiniteSet(Stored') /\ head'.rev = Cardinality(Stored') + Cardinality(Moves')
    BY <1>5, <1>11, <2>1, FS_EmptySet
  <2>3. Status(head.cur)' \notin {"planned", "authorized"}
    BY <1>5, <1>8 DEF TerminalStatus
  <2>4. gens'[0].campaign = NoCampaign /\ gens'[0].pairs <= MaxPairs
    BY <1>2, <1>4, <1>7
  <2>5. head'.state \notin Ending
    BY <1>5 DEF Ending
  <2> QED BY <1>5, <1>6, <1>8, <2>2, <2>3, <2>4, <2>5 DEF HeadInv
<1>13. FeedbackInv'
  BY <1>5, <1>9, <1>10 DEF FeedbackInv
<1>14. MadeInv'
  BY <1>11 DEF MadeInv
<1>15. CampInv'
  <2> SUFFICES ASSUME NEW c \in CampaignId PROVE CampInvAt(c)'
    BY DEF CampInv
  <2>1. CampInvAt(c) /\ Voters(c) = {}
    BY <1>6 DEF PackageParts, CampInv, CampInvAt, Audited
  <2>2. /\ Voters(c)' = Voters(c) /\ Approvers(c)' = Approvers(c) /\ camp' = camp /\ trail' = trail
        /\ Exists(c)' <=> Exists(c)
    BY <1>5 DEF campaignVars, Voters, Approvers, Exists
  <2> QED BY <2>1, <2>2 DEF CampInvAt
<1>16. StaffInv'
  BY <1>8 DEF StaffInv
<1>17. CallInv'
  <2> SUFFICES ASSUME NEW w \in Worker PROVE CallInvAt(job[w])'
    BY DEF CallInv
  <2>1. CallInvAt(job[w])
    BY DEF CallInv
  <2>2. job[w].pc # "signal" /\ job[w].pc # "decision"
    BY <1>6, <2>1 DEF CallInvAt
  <2>3. job[w].pc # "receipt"
    BY <1>9, <2>1, JobFacts DEF CallInvAt
  <2>4. job[w].pc \notin {"authorize", "start", "complete", "close"}
    BY <1>6, JobFacts DEF JobInvAt
  <2>5. job'[w] = job[w] /\ (job[w].pc = "reserve" => OpenOn(job[w].i)' = {})
    BY <1>5, <2>1 DEF CallInvAt, campaignVars, OpenOn
  <2> QED BY <2>2, <2>3, <2>4, <2>5 DEF CallInvAt
<1> QED BY <1>12, <1>13, <1>14, <1>15, <1>16, <1>17 DEF PackageParts

-----------------------------------------------------------------------------
(* Transactions of the campaigns *)

LEMMA AuditedSame ==
  ASSUME UNCHANGED programVars, NEW c \in CampaignId, trail'[c].evaluators = trail[c].evaluators,
         camp'[c].cand = camp[c].cand, Audited(c)
  PROVE  Audited(c)'
BY DEF Audited, Of, Planned, Continuing, DecisionsOf, programVars

LEMMA CampaignPack ==
  ASSUME IInv, AllAssumptions, PackageParts, UNCHANGED programVars,
         NEW c \in CampaignId, Transaction(c, 0),
         \A d \in CampaignId \ {c} : trail'[d] = trail[d],
         Decided(c) => trail'[c].evaluators = trail[c].evaluators,
         CampInvAt(c)'
  PROVE  PackageParts'
<1>1. HeadInv' /\ FeedbackInv' /\ MadeInv'
  BY ProgramKept DEF PackageParts
<1>2. \A d \in CampaignId \ {c} : camp'[d] = camp[d] /\ approvals'[d] = approvals[d]
  BY TransactionEffect DEF IInv, TypeOK
<1>3. CampInv'
  <2> SUFFICES ASSUME NEW d \in CampaignId, d # c PROVE CampInvAt(d)'
    BY DEF CampInv
  <2>1. CampInvAt(d)
    BY DEF PackageParts, CampInv
  <2>2. /\ Voters(d)' = Voters(d) /\ Approvers(d)' = Approvers(d) /\ camp'[d] = camp[d]
        /\ trail'[d] = trail[d] /\ (Exists(d)' <=> Exists(d))
    BY <1>2 DEF Voters, Approvers, Exists
  <2>3. Voters(d) # {} => Audited(d)'
    BY <2>1, <2>2, AuditedSame DEF CampInvAt
  <2> QED BY <2>1, <2>2, <2>3 DEF CampInvAt
<1>4. StaffInv'
  <2> SUFFICES ASSUME NEW i \in Index, i > 0, Planned(i), Status(i) # "planned"
               PROVE  Staffed(gens[i].campaign, i)'
    BY DEF StaffInv, programVars, Planned, Status
  <2>1. PICK d \in CampaignId : d = gens[i].campaign
    BY GenerationFacts DEF IInv, TypeOK, Generation, ShapeInv, ShapeAt
  <2>2. Staffed(d, i)
    BY <2>1 DEF PackageParts, StaffInv
  <2>3. Decided(d) /\ Exists(d)
    BY <2>1 DEF IInv, GenInv, GenInvAt, Approved
  <2>4. approvals'[d] = approvals[d] /\ trail'[d].evaluators = trail[d].evaluators
    BY <2>3, DecidedStays DEF IInv, TypeOK
  <2>5. Staffed(d, i)'
    BY <2>2, <2>4, SameProgram, StaffedStays
  <2> QED BY <2>1, <2>5 DEF programVars
<1> QED BY <1>1, <1>3, <1>4 DEF PackageParts

LEMMA ReservePack ==
  ASSUME IInv, AllAssumptions, Calm, PackageParts, CallInv, NEW w \in Worker, SubmitReserve(w)
  PROVE  PackageParts' /\ CallInv'
<1>1. PICK j \in [pc: {"plan", "find", "reserve"}, i: Index, s: SignalId, r: ReceiptId,
                  e: Evaluators, budget: Budgets, c: {NoCampaign}, rev: Nat] :
        j = job[w] /\ JobInvAt(j) /\ j.pc = "reserve"
  BY JobFacts DEF SubmitReserve
<1>2. PICK i \in Index : i = j.i /\ i > 0 /\ i - 1 \in Index /\ Continuing(i - 1) # {}
  BY <1>1, Indexes DEF JobInvAt
<1>3. OpenOn(i) = {}
  BY <1>1, <1>2 DEF CallInv, CallInvAt
<1>4. PICK c \in CampaignId :
        /\ InsertCampaign(c, i, i, decider[ContinueDecision(i)], 2, "open", 0)
        /\ job' = [job EXCEPT ![w].pc = "advance", ![w].c = c]
        /\ UNCHANGED programVars /\ UNCHANGED trail
  BY <1>1, <1>2, <1>3 DEF SubmitReserve, ReuseCampaign
<1>5. ContinueDecision(i) \in DecisionId
  BY <1>2 DEF ContinueDecision, Continuing, DecisionsOf
<1>6. PICK gen \in Actor : gen = decider[ContinueDecision(i)]
  BY <1>5 DEF AllAssumptions, RegistryAssumption
<1>7. Transaction(c, 0)
  <2>1. i \in Target /\ i \in Fingerprint /\ 2 \in Nat \ {0} /\ "open" \in InitialStates
    BY DEF AllAssumptions, ControllerAssumption, InitialStates
  <2>2. InsertCampaign(c, i, i, gen, 2, "open", 0)
    BY <1>4, <1>6
  <2> QED BY <2>1, <2>2 DEF Transaction
<1>8. CampInvAt(c)'
  <2>1. ~Exists(c) /\ approvals' = approvals
    BY <1>4 DEF InsertCampaign
  <2>2. camp'[c].state = "open" /\ camp'[c].need = 2 /\ camp'[c].rev = 0
    BY <1>4 DEF InsertCampaign, IInv, TypeOK, CampaignsTypeOK
  <2>3. Voters(c) = {} /\ Approvers(c) = {} /\ ~trail[c].reused
    BY <2>1, RowFacts DEF PackageParts, CampInv, CampInvAt, Exists
  <2>4. Voters(c)' = {} /\ Approvers(c)' = {} /\ trail' = trail
    BY <1>4, <2>1, <2>3 DEF Voters, Approvers
  <2> QED BY <2>2, <2>3, <2>4, FS_EmptySet DEF CampInvAt, Lifecycle, Base
<1>9. PackageParts'
  BY <1>4, <1>7, <1>8, CampaignPack
<1>10. CallInv'
  <2>1. PICK next : next = [j EXCEPT !.pc = "advance", !.c = c]
    OBVIOUS
  <2>2. next.pc \notin Watched /\ job' = [job EXCEPT ![w] = next]
    BY <1>1, <1>4, <2>1 DEF IInv, TypeOK, Watched
  <2> QED BY <2>2, OtherCall
<1> QED BY <1>9, <1>10

LEMMA AdvancePack ==
  ASSUME IInv, AllAssumptions, Calm, PackageParts, CallInv, NEW w \in Worker, SubmitAdvance(w)
  PROVE  PackageParts' /\ CallInv'
<1>1. PICK j \in [pc: {"advance", "bind"}, i: Index, s: SignalId, r: ReceiptId,
                  e: Evaluators, budget: Budgets, c: CampaignId, rev: Nat] :
        j = job[w] /\ j.pc = "advance"
  BY JobFacts DEF SubmitAdvance
<1>2. PICK c \in CampaignId, i \in Index, e \in Actor : c = j.c /\ i = j.i /\ e = j.e
  BY <1>1 DEF AllAssumptions, ControllerAssumption
<1> DEFINE Evaluated == /\ trail' = [trail EXCEPT ![c].evaluators = @ \cup {e}]
                        /\ UNCHANGED job
<1>3. UNCHANGED programVars /\ CampInvAt(c) /\ CampaignsTypeOK
  BY DEF SubmitAdvance, PackageParts, CampInv, IInv, TypeOK
<1>4. ASSUME Evaluated, Transaction(c, 0), approvals' = approvals,
             <<camp[c].state, camp'[c].state>> \in
                {<<"open", "candidate_ready">>, <<"candidate_ready", "evaluation_pending">>,
                 <<"evaluation_pending", "approval_pending">>}
      PROVE  PackageParts' /\ CallInv'
  <2>1. Exists(c) /\ ~Decided(c) /\ Voters(c) = {} /\ Approvers(c) = {} /\ ~trail[c].reused
    BY <1>3, <1>4 DEF Exists, Decided, ClosedStates, CampInvAt
  <2>2. camp'[c].rev = camp[c].rev + 1 /\ camp'[c].need = camp[c].need
    BY <1>3, <1>4, <2>1, TransactionEffect DEF Inserted, Rewritten
  <2>3. Voters(c)' = {} /\ Approvers(c)' = {}
    BY <1>4, <2>1 DEF Voters, Approvers
  <2>4. trail'[c].reused = trail[c].reused /\ \A d \in CampaignId \ {c} : trail'[d] = trail[d]
    BY <1>4 DEF IInv, TypeOK
  <2>5. CampInvAt(c)'
    <3>1. Cardinality(Approvers(c)) = 0 /\ Cardinality(Approvers(c)') = 0
      BY <2>1, <2>3, FS_EmptySet
    <3>2. camp[c].need = 2 /\ camp[c].rev = Base(camp[c].state)
      BY <1>3, <2>1, <3>1 DEF CampInvAt, Base, Lifecycle
    <3>3. /\ camp'[c].state \in Lifecycle /\ camp'[c].rev = Base(camp'[c].state)
          /\ camp'[c].state \notin {"authorized", "completed"} /\ Base(camp'[c].state) \in Nat
      <4>1. CASE camp[c].state = "open"
        BY <1>4, <2>2, <3>2, <4>1 DEF Base, Lifecycle
      <4>2. CASE camp[c].state = "candidate_ready"
        BY <1>4, <2>2, <3>2, <4>2 DEF Base, Lifecycle
      <4>3. CASE camp[c].state = "evaluation_pending"
        BY <1>4, <2>2, <3>2, <4>3 DEF Base, Lifecycle
      <4> QED BY <1>4, <4>1, <4>2, <4>3
    <3> QED BY <2>1, <2>2, <2>3, <2>4, <3>1, <3>2, <3>3 DEF CampInvAt
  <2>6. PackageParts'
    BY <1>3, <1>4, <2>1, <2>4, <2>5, CampaignPack
  <2>7. CallInv'
    <3>1. job[w].pc \notin Watched /\ job' = [job EXCEPT ![w] = job[w]]
      BY <1>1, <1>4 DEF Watched, IInv, TypeOK
    <3> QED BY <3>1, OtherCall
  <2> QED BY <2>6, <2>7
<1>5. CASE AttachCandidate(c, i, camp[c].rev, 0) /\ Evaluated
  <2>1. i \in Candidate
    BY DEF AllAssumptions, ControllerAssumption
  <2>2. Transaction(c, 0)
    BY <1>5, <2>1 DEF Transaction
  <2>3. /\ Exists(c) /\ camp[c].state \in InitialStates /\ camp'[c].state = "candidate_ready"
        /\ approvals' = approvals
    BY <1>3, <1>5, <2>1, AttachWrites
  <2>4. camp[c].state = "open"
    BY <1>3, <2>3 DEF CampInvAt, Lifecycle, InitialStates
  <2> QED BY <1>4, <1>5, <2>2, <2>3, <2>4
<1>6. ASSUME NEW to \in {"evaluation_pending", "approval_pending"},
             Transition(c, to, camp[c].rev, 0, 0), Evaluated,
             camp[c].state = IF to = "evaluation_pending" THEN "candidate_ready"
                             ELSE "evaluation_pending"
      PROVE  PackageParts' /\ CallInv'
  <2>1. Transaction(c, 0)
    BY <1>6 DEF Transaction, CallerStates
  <2>2. camp'[c].state = to /\ approvals' = approvals
    BY <1>3, <1>6, TransitionWrites
  <2> QED BY <1>4, <1>6, <2>1, <2>2
<1>7. CASE /\ Return(w) \/ Goto(w, "bind")
           /\ UNCHANGED <<campaignVars, trail>>
  <2>1. PackageParts'
    BY <1>3, <1>7, PartsKept
  <2>2. CASE Return(w)
    BY <2>1, <2>2, Returned
  <2>3. CASE Goto(w, "bind")
    <3>1. PICK next : next = [j EXCEPT !.pc = "bind"]
      OBVIOUS
    <3>2. next.pc \notin Watched /\ job' = [job EXCEPT ![w] = next]
      BY <1>1, <2>3, <3>1 DEF Goto, Watched
    <3> QED BY <2>1, <3>2, OtherCall
  <2> QED BY <1>7, <2>2, <2>3
<1> HIDE DEF Evaluated
<1>8. \/ AttachCandidate(c, i, camp[c].rev, 0) /\ Evaluated
      \/ /\ camp[c].state = "candidate_ready"
         /\ Transition(c, "evaluation_pending", camp[c].rev, 0, 0) /\ Evaluated
      \/ /\ camp[c].state = "evaluation_pending"
         /\ Transition(c, "approval_pending", camp[c].rev, 0, 0) /\ Evaluated
      \/ (Return(w) \/ Goto(w, "bind")) /\ UNCHANGED <<campaignVars, trail>>
  BY <1>1, <1>2 DEF SubmitAdvance, Evaluated
<1> QED BY <1>5, <1>6, <1>7, <1>8

LEMMA ClosePack ==
  ASSUME IInv, AllAssumptions, Calm, PackageParts, CallInv, NEW w \in Worker, CloseCampaign(w)
  PROVE  PackageParts' /\ CallInv'
<1>1. PICK c \in CampaignId : c = job[w].c
  BY JobFacts DEF CloseCampaign
<1>2. Return(w) /\ UNCHANGED <<programVars, trail>>
  BY DEF CloseCampaign
<1>3. CallInv'
  BY <1>2, Returned
<1>4. CASE UNCHANGED campaignVars
  BY <1>2, <1>3, <1>4, PartsKept
<1>5. CASE Transition(c, "completed", job[w].rev, 0, 0)
  <2>1. /\ Exists(c) /\ camp[c].state \in {"authorized"} /\ camp'[c].state = "completed"
        /\ camp'[c].rev = camp[c].rev + 1 /\ camp'[c].cand = camp[c].cand /\ approvals' = approvals
    <3>1. CampaignsTypeOK
      BY DEF IInv, TypeOK
    <3>2. /\ Exists(c) /\ <<camp[c].state, "completed">> \in LegalTransitions
          /\ camp'[c].state = "completed" /\ camp'[c].rev = camp[c].rev + 1
          /\ camp'[c].cand = camp[c].cand /\ approvals' = approvals
      BY <1>5, <3>1, TransitionWrites
    <3> QED BY <3>2 DEF LegalTransitions
  <2>2. Transaction(c, 0)
    <3>1. Transition(c, "completed", camp[c].rev, 0, 0)
      BY <1>5 DEF Transition
    <3>2. "completed" \in CallerStates /\ 0 \in Nat
      BY DEF CallerStates, ClosedStates
    <3> QED BY <3>1, <3>2 DEF Transaction
  <2>3. camp'[c].need = camp[c].need
    BY <2>1, <2>2, DecidedStays DEF IInv, TypeOK
  <2>4. CampInvAt(c)'
    <3>1. CampInvAt(c)
      BY DEF PackageParts, CampInv
    <3>2. Voters(c)' = Voters(c) /\ Approvers(c)' = Approvers(c) /\ trail' = trail
      BY <1>2, <2>1 DEF Voters, Approvers
    <3>3. Voters(c) # {} => Audited(c)'
      BY <1>2, <2>1, <3>1, AuditedSame DEF CampInvAt
    <3>4. /\ Cardinality(Approvers(c)) = 2 /\ camp[c].rev = 3 + 2 /\ camp[c].need = 2
          /\ ~trail[c].reused /\ Voters(c) = Approvers(c)
      BY <2>1, <3>1 DEF CampInvAt, Base
    <3>5. camp'[c].rev = 4 + 2
      BY <2>1, <3>4
    <3> QED BY <2>1, <2>3, <3>2, <3>3, <3>4, <3>5 DEF CampInvAt, Base, Lifecycle
  <2> QED BY <1>2, <1>3, <2>2, <2>4, CampaignPack
<1> QED BY <1>1, <1>4, <1>5 DEF CloseCampaign

LEMMA ApprovePack ==
  ASSUME IInv, AllAssumptions, PackageParts, CallInv, NEW a \in Actor, NEW c \in CampaignId,
         ApproveGeneration(a, c)
  PROVE  PackageParts' /\ CallInv'
<1>1. /\ camp[c].state = "approval_pending" /\ LifecycleAuditOK(c)
      /\ RecordApproval(c, a, "approve", camp[c].rev, 0, 0)
      /\ UNCHANGED <<programVars, job, trail>>
  BY DEF ApproveGeneration
<1>2. Transaction(c, 0)
  BY <1>1 DEF Transaction, Decisions
<1>3. CampaignsTypeOK /\ CampInvAt(c) /\ CampaignsAssumption
  BY DEF PackageParts, CampInv, IInv, TypeOK, AllAssumptions
<1>4. /\ Exists(c) /\ camp'[c].rev = camp[c].rev + 1 /\ camp'[c].cand = camp[c].cand
      /\ Approvers(c)' = Approvers(c) \cup {a} /\ IsFiniteSet(Approvers(c))
      /\ Cardinality(Approvers(c)') = Cardinality(Approvers(c)) + 1
      /\ camp'[c].state = IF Cardinality(Approvers(c)') >= camp[c].need THEN "authorized"
                          ELSE "approval_pending"
  BY <1>1, <1>3, ApprovalWrites DEF Decisions
<1>5. camp'[c].need = camp[c].need /\ camp'[c].target = camp[c].target
  BY <1>2, <1>3, <1>4, DecidedStays
<1>6. Voters(c)' = Voters(c) \cup {a}
  BY <1>1, <1>3 DEF RecordApproval, Voters, CampaignsTypeOK
<1>7. Audited(c)
  <2>1. PICK i \in Index : i = Of(c) /\ Planned(i) /\ gens[i].campaign = c /\ HasContinueDecision(i)
    BY <1>1 DEF LifecycleAuditOK, CampaignIsOf, Planned
  <2>2. trail[c].evaluators = {gens[i].binder} /\ gens[i].binder \notin Privileged(i, gens[i].att)
    BY <1>1, <2>1 DEF LifecycleAuditOK
  <2>3. i > 0 /\ ContinueDecision(i) \in Continuing(i - 1)
    BY <2>1, OneDecision
  <2> QED BY <2>1, <2>2, <2>3 DEF Audited, Privileged
<1>8. CampInvAt(c)'
  <2>1. Audited(c)' /\ trail' = trail
    BY <1>1, <1>4, <1>7, AuditedSame
  <2>2. /\ camp[c].need = 2 /\ camp[c].rev = 3 + Cardinality(Approvers(c))
        /\ Cardinality(Approvers(c)) < 2 /\ Voters(c) = Approvers(c) /\ ~trail[c].reused
    BY <1>1, <1>3, <1>4 DEF CampInvAt, Base
  <2>3. Cardinality(Approvers(c)) \in Nat
    BY <1>4, FS_CardinalityType
  <2>4. Voters(c)' = Approvers(c)'
    BY <1>4, <1>6, <2>2
  <2>5. camp'[c].rev = 3 + Cardinality(Approvers(c)')
    BY <1>4, <2>2, <2>3
  <2>6. CASE Cardinality(Approvers(c)') >= 2
    <3>1. camp'[c].state = "authorized" /\ Cardinality(Approvers(c)') = 2
      BY <1>4, <2>2, <2>3, <2>6
    <3> QED BY <1>5, <2>1, <2>2, <2>4, <2>5, <3>1 DEF CampInvAt, Base, Lifecycle
  <2>7. CASE ~(Cardinality(Approvers(c)') >= 2)
    <3>1. camp'[c].state = "approval_pending" /\ Cardinality(Approvers(c)') < 2
      BY <1>4, <2>2, <2>3, <2>7
    <3> QED BY <1>5, <2>1, <2>2, <2>4, <2>5, <3>1 DEF CampInvAt, Base, Lifecycle
  <2> QED BY <2>6, <2>7
<1>9. PackageParts'
  BY <1>1, <1>2, <1>8, CampaignPack
<1>10. CallInv'
  <2> SUFFICES ASSUME NEW w \in Worker PROVE CallInvAt(job[w])'
    BY DEF CallInv
  <2>1. CallInvAt(job[w]) /\ job' = job
    BY <1>1 DEF CallInv
  <2>2. \A g : OpenOn(g) = {} => OpenOn(g)' = {}
    <3> SUFFICES ASSUME NEW g, NEW d \in CampaignId, d \in OpenOn(g)' PROVE OpenOn(g) # {}
      BY DEF OpenOn
    <3>1. d \in OpenOn(g)
      <4>1. CASE d = c
        BY <1>1, <1>5, <4>1 DEF OpenOn, OpenStates
      <4>2. CASE d # c
        BY <1>2, <1>3, <4>2, OthersUntouched DEF OpenOn
      <4> QED BY <4>1, <4>2
    <3> QED BY <3>1
  <2>3. ASSUME job[w].pc \in {"authorize", "start", "complete", "close"}
        PROVE  Staffed(job[w].c, job[w].i)'
    <3>1. PICK i \in Index, d \in CampaignId :
            /\ i = job[w].i /\ d = job[w].c /\ i > 0 /\ Planned(i) /\ Approved(d, i)
            /\ Staffed(d, i)
      BY <2>3, OperatorFound
    <3>2. d # c
      BY <1>1, <3>1 DEF Approved, Decided, ClosedStates
    <3>3. approvals'[d] = approvals[d] /\ trail' = trail
      BY <1>1, <1>2, <1>3, <3>2, OthersUntouched
    <3>4. Staffed(d, i)'
      BY <1>1, <3>1, <3>3, SameProgram, StaffedStays
    <3> QED BY <2>1, <3>1, <3>4
  <2>4. /\ \A i : (Done(i)' <=> Done(i)) /\ SignalsOf(i)' = SignalsOf(i)
        /\ \A s : ReceiptsOf(s)' = ReceiptsOf(s)
        /\ \A d, i : Escalates(d, i)' <=> Escalates(d, i)
        /\ DecisionsOf(0)' = DecisionsOf(0)
        /\ \A x : GateWas(x)' <=> GateWas(x)
    BY <1>1 DEF programVars, Done, Planned, SignalsOf, ReceiptsOf, DecisionsOf, Escalates,
                UniqueEvidence, Attributed, GateWas, ExhaustedAfterRollback
  <2> QED BY <1>1, <2>1, <2>2, <2>3, <2>4 DEF CallInvAt, programVars
<1> QED BY <1>9, <1>10

-----------------------------------------------------------------------------
(* Calls begin and end *)

LEMMA CallStays ==
  ASSUME UNCHANGED <<campaignVars, programVars, trail>>, NEW j, CallInvAt(j)
  PROVE  CallInvAt(j)'
<1>1. /\ \A i : (Done(i)' <=> Done(i)) /\ SignalsOf(i)' = SignalsOf(i) /\ OpenOn(i)' = OpenOn(i)
      /\ \A s : ReceiptsOf(s)' = ReceiptsOf(s)
      /\ \A d, i : Escalates(d, i)' <=> Escalates(d, i)
      /\ DecisionsOf(0)' = DecisionsOf(0)
      /\ \A x : GateWas(x)' <=> GateWas(x)
      /\ \A c, i : Staffed(c, i)' <=> Staffed(c, i)
      /\ gens' = gens /\ signals' = signals
  BY DEF campaignVars, programVars, Done, Planned, SignalsOf, OpenOn, ReceiptsOf, DecisionsOf,
         Continuing, Escalates, UniqueEvidence, Attributed, GateWas, ExhaustedAfterRollback,
         Staffed, Voters
<1> QED BY <1>1 DEF CallInvAt

LEMMA CallPack ==
  ASSUME IInv, AllAssumptions, Calm, PackageParts, UNCHANGED <<campaignVars, programVars, trail>>,
         NEW w \in Worker, NEW j, CallInvAt(j), job' = [job EXCEPT ![w] = j]
  PROVE  PackageParts' /\ CallInv'
BY PartsKept, CallStays, NewCall

(* The head while the release's generation is the only one.                 *)
LEMMA HeadOfOne ==
  ASSUME IInv, AllAssumptions, HeadInv, head # NoHead, \A k \in Index : Planned(k) => k = 0
  PROVE  /\ head \in Head /\ head.cur = 0 /\ Done(0) /\ gens[0] \in Generation
         /\ head.rollbacks = IF gens[0].outcome = "rollback" THEN 1 ELSE 0
         /\ head.holds = IF gens[0].outcome = "hold" THEN 1 ELSE 0
         /\ head.campaigns = 0 /\ head.spent = gens[0].pairs
         /\ NonImproving = IF gens[0].outcome = "ready" THEN 0 ELSE 1
<1>1. head \in Head /\ Derived /\ 0 \in Index
  BY HeadFacts, DerivedHead, Indexes DEF IInv, TypeOK
<1>2. head.cur = 0 /\ Planned(0)
  BY <1>1 DEF Derived, Head
<1>3. Done(0) /\ gens[0] \in Generation
  BY <1>1, <1>2, GenerationFacts DEF IInv, ShapeInv, ShapeAt, TypeOK
<1>4. \A k \in Index : Done(k) <=> k = 0
  BY <1>1, <1>3 DEF Done
<1>5. ASSUME NEW o
      PROVE  Cardinality(OutcomesOf(o)) = IF gens[0].outcome = o THEN 1 ELSE 0
  <2>1. OutcomesOf(o) = IF gens[0].outcome = o THEN {0} ELSE {}
    BY <1>1, <1>4 DEF OutcomesOf
  <2> QED BY <2>1, FS_EmptySet, FS_Singleton
<1>6. Cardinality(BoundTo) = 0
  <2>1. BoundTo = {}
    BY DEF BoundTo, HeadInv
  <2> QED BY <2>1, FS_EmptySet
<1>7. Cardinality(SpentPairs) = gens[0].pairs
  <2>1. PICK p \in Nat : p = gens[0].pairs /\ p <= MaxPairs /\ MaxPairs \in Nat
    BY <1>1, <1>3, Indexes DEF HeadInv, Generation
  <2>2. SpentPairs = {0} \X (1 .. p)
    <3>1. \A x \in Index \X (1 .. MaxPairs) : x \in SpentPairs <=> x \in {0} \X (1 .. p)
      BY <1>1, <1>4, <2>1 DEF SpentPairs
    <3>2. {0} \X (1 .. p) \subseteq Index \X (1 .. MaxPairs)
      BY <1>1, <2>1
    <3> QED BY <3>1, <3>2 DEF SpentPairs
  <2> QED BY <2>1, <2>2, RowOfPairs
<1>8. NonImproving = IF gens[0].outcome = "ready" THEN 0 ELSE 1
  <2> DEFINE Since == {i \in Index : Done(i) /\ \A j \in Index : j >= i /\ Done(j) => gens[j].outcome # "ready"}
  <2>1. Since = IF gens[0].outcome = "ready" THEN {} ELSE {0}
    BY <1>1, <1>4
  <2>2. NonImproving = Cardinality(Since)
    BY DEF NonImproving
  <2> HIDE DEF Since
  <2> QED BY <2>1, <2>2, FS_EmptySet, FS_Singleton
<1> QED BY <1>1, <1>2, <1>3, <1>5, <1>6, <1>7, <1>8 DEF Derived

LEMMA GateOfOne ==
  ASSUME IInv, AllAssumptions, HeadInv, head # NoHead, \A k \in Index : Planned(k) => k = 0,
         gens[0].outcome = "rollback"
  PROVE  BudgetExhausted <=> ExhaustedAfterRollback
<1>1. /\ head.cur = 0 /\ head.rollbacks = 1 /\ head.holds = 0 /\ head.campaigns = 0
      /\ head.spent = gens[0].pairs /\ NonImproving = 1
  BY HeadOfOne
<1>2. MaxCampaigns \in Nat /\ MaxCampaigns # 0
  BY DEF AllAssumptions, RegistryAssumption
<1> QED BY <1>1, <1>2 DEF BudgetExhausted, ExhaustedAfterRollback

(* No successor without a decision on the release.                          *)
LEMMA OnlyTheRelease ==
  ASSUME IInv, AllAssumptions, Continuing(0) = {}
  PROVE  \A k \in Index : Planned(k) => k = 0
<1> SUFFICES ASSUME NEW k \in Index, Planned(k), k # 0 PROVE FALSE
  OBVIOUS
<1>1. 1 \in 0 .. k /\ 1 \in Index
  BY Indexes
<1>2. Planned(1)
  BY <1>1, DoneBelow
<1> QED BY <1>1, <1>2 DEF IInv, ChainInv, ChainInvAt

LEMMA DecideBegins ==
  ASSUME IInv, AllAssumptions, Calm, PackageParts, NEW w \in Worker, NEW d \in DecisionId,
         NEW i \in Index, NEW r \in ReceiptId \cup {NoReceipt}, DecideCheck(w, d, i, r)
  PROVE  PackageParts' /\ CallInv'
<1>1. PICK a : a = GateAction(i, r)
  OBVIOUS
<1>2. PICK j : j = [pc |-> "decision", d |-> d, i |-> i, a |-> a, rev |-> head.rev]
  OBVIOUS
<1>3. /\ UNCHANGED <<campaignVars, programVars, trail>> /\ job' = [job EXCEPT ![w] = j]
      /\ Done(i)
      /\ r # NoReceipt => /\ \E s \in SignalId : UniqueEvidence(i, s, r)
                          /\ decider[d] \notin {producer, attributor[r]}
  BY <1>1, <1>2 DEF DecideCheck
<1>4. \/ gens[i].outcome = "ready" /\ a = IF StopOnReady THEN "stop_success" ELSE "pause"
      \/ gens[i].outcome # "ready" /\ BudgetExhausted /\ a = "stop_budget"
      \/ /\ gens[i].outcome # "ready" /\ ~BudgetExhausted
         /\ a = IF r = NoReceipt THEN "pause" ELSE IF Attributed(r) THEN "continue" ELSE "escalate"
  <2>1. CASE gens[i].outcome = "ready"
    BY <1>1, <2>1 DEF GateAction
  <2>2. CASE gens[i].outcome # "ready" /\ BudgetExhausted
    BY <1>1, <2>2 DEF GateAction
  <2>3. CASE gens[i].outcome # "ready" /\ ~BudgetExhausted
    BY <1>1, <2>3 DEF GateAction
  <2> QED BY <2>1, <2>2, <2>3
<1>5. a = "stop_success" => gens[i].outcome = "ready" /\ StopOnReady
  BY <1>4
<1>6. ASSUME a = "escalate"
      PROVE  Escalates(d, i)
  <2>1. r # NoReceipt /\ ~Attributed(r)
    BY <1>4, <1>6
  <2>2. r \in ReceiptId /\ decider[d] # attributor[r] /\ \E s \in SignalId : UniqueEvidence(i, s, r)
    BY <1>3, <2>1
  <2> QED BY <2>1, <2>2 DEF Escalates
<1>7. ASSUME i = 0, DecisionsOf(0) = {}, gens[0].outcome = "rollback"
      PROVE  a = "stop_budget" <=> ExhaustedAfterRollback
  <2>1. Continuing(0) = {} /\ head # NoHead
    BY <1>3, <1>7 DEF Continuing, Done, IInv, ShapeInv, ShapeAt
  <2>2. BudgetExhausted <=> ExhaustedAfterRollback
    BY <1>7, <2>1, OnlyTheRelease, GateOfOne DEF PackageParts
  <2> QED BY <1>4, <1>7, <2>2
<1>8. CallInvAt(j)
  <2>1. j.pc = "decision" /\ j.d = d /\ j.i = i /\ j.a = a
    BY <1>2
  <2> QED BY <1>3, <1>5, <1>6, <1>7, <2>1 DEF CallInvAt, GateWas
<1> QED BY <1>3, <1>8, CallPack

(* Whoever may operate is one of the people left.                           *)
LEMMA OperatorIsLeft ==
  ASSUME IInv, AllAssumptions, NEW i \in Index, NEW c \in CampaignId, MayOperate(c, i)
  PROVE  Staffed(c, i)
<1>1. Of(c) = i /\ HasContinueDecision(i) /\ HasOperator(c)
  BY DEF MayOperate, CampaignIsOf
<1>2. ContinueDecision(i) \in Continuing(i - 1)
  BY <1>1, OneDecision
<1> QED BY <1>1, <1>2 DEF HasOperator, Forbidden, Privileged, Staffed

LEMMA FeedbackBegins ==
  ASSUME IInv, AllAssumptions, Calm, PackageParts, NEW w \in Worker,
         NEW s \in SignalId, NEW i \in Index, NEW by \in Ingestors, StoreFeedbackCheck(w, s, i, by)
  PROVE  PackageParts' /\ CallInv'
<1>1. PICK j : j = [pc |-> "signal", s |-> s, i |-> i, by |-> by]
  OBVIOUS
<1>2. CallInvAt(j)
  BY <1>1 DEF CallInvAt, StoreFeedbackCheck, FeedbackIsNew
<1> QED BY <1>1, <1>2, CallPack DEF StoreFeedbackCheck

LEMMA AttributionBegins ==
  ASSUME IInv, AllAssumptions, Calm, PackageParts, NEW w \in Worker,
         NEW r \in ReceiptId, NEW s \in SignalId, StoreAttributionCheck(w, r, s)
  PROVE  PackageParts' /\ CallInv'
<1>1. PICK j : j = [pc |-> "receipt", r |-> r, s |-> s]
  OBVIOUS
<1>2. CallInvAt(j)
  BY <1>1 DEF CallInvAt, StoreAttributionCheck
<1> QED BY <1>1, <1>2, CallPack DEF StoreAttributionCheck

LEMMA SubmitBegins ==
  ASSUME IInv, AllAssumptions, Calm, PackageParts, NEW w \in Worker, NEW i \in Index,
         NEW s \in SignalId, NEW r \in ReceiptId, NEW e \in Evaluators, NEW budget \in Budgets,
         SubmitCheck(w, i, s, r, e, budget)
  PROVE  PackageParts' /\ CallInv'
<1>1. PICK pc, c : /\ pc = IF ~Planned(i) THEN "plan"
                           ELSE IF gens[i].campaign = NoCampaign THEN "find" ELSE "advance"
                   /\ c = IF Planned(i) THEN gens[i].campaign ELSE NoCampaign
  OBVIOUS
<1>2. PICK j : j = [pc |-> pc, i |-> i, s |-> s, r |-> r, e |-> e, budget |-> budget,
                    c |-> c, rev |-> head.rev]
  OBVIOUS
<1>3. job' = [job EXCEPT ![w] = j] /\ UNCHANGED <<campaignVars, programVars, trail>>
  BY <1>1, <1>2 DEF SubmitCheck
<1>4. j.pc \notin Watched
  BY <1>1, <1>2 DEF Watched
<1> QED BY <1>3, <1>4, PartsKept, OtherCall

LEMMA BeginPack ==
  ASSUME IInv, AllAssumptions, Calm, PackageParts, NEW w \in Worker, NEW i \in Index,
         NEW c \in CampaignId, NEW pc \in {"authorize", "start"}, Begin(w, pc, i, c)
  PROVE  PackageParts' /\ CallInv'
<1>1. PICK j : j = [pc |-> pc, i |-> i, c |-> c, rev |-> head.rev]
  OBVIOUS
<1>2. job' = [job EXCEPT ![w] = j] /\ UNCHANGED <<campaignVars, programVars, trail>> /\ Staffed(c, i)
  BY <1>1, OperatorIsLeft DEF Begin
<1>3. CallInvAt(j)
  BY <1>1, <1>2 DEF CallInvAt
<1> QED BY <1>2, <1>3, CallPack

LEMMA CompletionBegins ==
  ASSUME IInv, AllAssumptions, Calm, PackageParts, NEW w \in Worker, NEW i \in Index,
         NEW c \in CampaignId, NEW o \in Outcomes, NEW pairs \in 0 .. MaxPairs,
         CompleteCheck(w, i, c, o, pairs)
  PROVE  PackageParts' /\ CallInv'
<1>1. PICK pc, rev : /\ pc = CompletePc(i)
                    /\ rev = IF CompletePc(i) = "close" THEN camp[c].rev ELSE head.rev
  OBVIOUS
<1>2. PICK j : j = [pc |-> pc, i |-> i, c |-> c, o |-> o, pairs |-> pairs, rev |-> rev]
  OBVIOUS
<1>3. job' = [job EXCEPT ![w] = j] /\ UNCHANGED <<campaignVars, programVars, trail>> /\ Staffed(c, i)
  BY <1>1, <1>2, OperatorIsLeft DEF CompleteCheck
<1>4. pc \in {"complete", "close"}
  BY <1>1 DEF CompletePc
<1>5. CallInvAt(j)
  BY <1>2, <1>3, <1>4 DEF CallInvAt
<1> QED BY <1>3, <1>5, CallPack

LEMMA CallsPack ==
  ASSUME IInv, AllAssumptions, Calm, PackageParts, NEW w \in Worker, Call(w)
  PROVE  PackageParts' /\ CallInv'
<1>1. CASE \E i \in Index, s \in SignalId, by \in Ingestors : StoreFeedbackCheck(w, s, i, by)
  BY <1>1, FeedbackBegins
<1>2. CASE \E r \in ReceiptId, s \in SignalId : StoreAttributionCheck(w, r, s)
  BY <1>2, AttributionBegins
<1>3. CASE \E d \in DecisionId, i \in Index, r \in ReceiptId \cup {NoReceipt} : DecideCheck(w, d, i, r)
  BY <1>3, DecideBegins
<1>4. CASE Submit(w)
  BY <1>4, SubmitBegins DEF Submit
<1>5. CASE CompleteCall(w)
  BY <1>5, CompletionBegins DEF CompleteCall
<1>6. CASE \E i \in Index, c \in CampaignId : SynchronizeCheck(w, i, c) \/ StartCheck(w, i, c)
  BY <1>6, BeginPack DEF SynchronizeCheck, StartCheck
<1> QED BY <1>1, <1>2, <1>3, <1>4, <1>5, <1>6 DEF Call

LEMMA FindPack ==
  ASSUME IInv, AllAssumptions, Calm, PackageParts, NEW w \in Worker, SubmitFind(w)
  PROVE  PackageParts' /\ CallInv'
<1>1. PICK j \in [pc: {"plan", "find", "reserve"}, i: Index, s: SignalId, r: ReceiptId,
                  e: Evaluators, budget: Budgets, c: {NoCampaign}, rev: Nat] :
        j = job[w]
  BY JobFacts DEF SubmitFind
<1>2. UNCHANGED <<campaignVars, programVars, trail>>
  BY DEF SubmitFind
<1>3. CASE OpenOn(j.i) = {} /\ Goto(w, "reserve")
  <2>1. PICK next : next = [j EXCEPT !.pc = "reserve"]
    OBVIOUS
  <2>2. next.pc = "reserve" /\ next.i = j.i /\ job' = [job EXCEPT ![w] = next]
    BY <1>1, <1>3, <2>1 DEF Goto
  <2>3. CallInvAt(next)
    BY <1>3, <2>2 DEF CallInvAt
  <2> QED BY <1>2, <2>2, <2>3, CallPack
<1>4. ASSUME NEW c \in OpenOn(j.i), job' = [job EXCEPT ![w].pc = "advance", ![w].c = c]
      PROVE  PackageParts' /\ CallInv'
  <2>1. PICK next : next = [j EXCEPT !.pc = "advance", !.c = c]
    OBVIOUS
  <2>2. next.pc \notin Watched /\ job' = [job EXCEPT ![w] = next]
    BY <1>1, <1>4, <2>1 DEF IInv, TypeOK, Watched
  <2> QED BY <1>2, <2>2, PartsKept, OtherCall
<1> QED BY <1>1, <1>3, <1>4 DEF SubmitFind

LEMMA EndedPack ==
  ASSUME IInv, AllAssumptions, Calm, PackageParts, NEW w \in Worker,
         Fail(w) \/ Crash(w) \/ Restart(w)
  PROVE  PackageParts' /\ CallInv'
<1>1. UNCHANGED <<campaignVars, programVars, trail>>
  BY DEF Fail, Crash, Restart
<1>2. PICK j \in {Idle, Down} : job' = [job EXCEPT ![w] = j]
  BY DEF Fail, Crash, Restart, Return
<1>3. j.pc \notin Watched
  BY <1>2 DEF Watched, Idle, Down
<1> QED BY <1>1, <1>2, <1>3, PartsKept, OtherCall

LEMMA ProgressPack ==
  ASSUME IInv, AllAssumptions, Calm, PackageParts, CallInv, NEW w \in Worker, Progress(w)
  PROVE  PackageParts' /\ CallInv'
<1>1. CASE StoreFeedback(w) \/ StoreAttribution(w) \/ Decide(w)
  BY <1>1, FeedbackPack, AttributionPack, DecidePack
<1>2. CASE SubmitPlan(w) \/ SubmitFind(w) \/ SubmitReserve(w) \/ SubmitAdvance(w) \/ SubmitBind(w)
  BY <1>2, PlanPack, FindPack, ReservePack, AdvancePack, BindPack
<1>3. CASE SynchronizeAuthorization(w) \/ Start(w) \/ Complete(w) \/ CloseCampaign(w)
  BY <1>3, AuthorizePack, StartPack, CompletePack, ClosePack
<1> QED BY <1>1, <1>2, <1>3 DEF Progress

LEMMA StutteringPack ==
  ASSUME IInv, AllAssumptions, PackageParts, CallInv, UNCHANGED vars
  PROVE  PackageParts' /\ CallInv'
<1>1. UNCHANGED <<campaignVars, programVars, trail>> /\ job' = job
  BY DEF vars
<1>2. CallInv'
  <2> SUFFICES ASSUME NEW w \in Worker PROVE CallInvAt(job[w])'
    BY DEF CallInv
  <2>1. PICK j : j = job[w]
    OBVIOUS
  <2>2. CallInvAt(j)'
    BY <1>1, <2>1, CallStays DEF CallInv
  <2> QED BY <1>1, <2>1, <2>2
<1> QED BY <1>1, <1>2, PartsKept

LEMMA PackageStart ==
  ASSUME Init, AllAssumptions
  PROVE  PackageInv
<1>1. /\ head = NoHead /\ \A i : ~Planned(i) /\ ~Done(i)
      /\ \A s \in SignalId : signals[s] = NoSignal
      /\ \A r \in ReceiptId : receipts[r] = NoSignal
      /\ Stored = {} /\ IsFiniteSet(Stored)
  BY FS_EmptySet DEF Init, RegistryInit, Planned, Done, NoGeneration, Stored
<1>2. \A c \in CampaignId : /\ ~Exists(c) /\ Voters(c) = {} /\ Approvers(c) = {} /\ ~trail[c].reused
  BY DEF Init, CampaignsInit, Exists, NoRow, Voters, Approvers
<1>3. HeadInv /\ FeedbackInv /\ MadeInv /\ CampInv /\ StaffInv
  BY <1>1, <1>2 DEF HeadInv, FeedbackInv, MadeInv, CampInv, CampInvAt, StaffInv
<1>4. CallInv
  BY DEF Init, Idle, CallInv, CallInvAt
<1> QED BY <1>3, <1>4 DEF PackageInv

LEMMA PackageStep ==
  ASSUME IInv, AllAssumptions, Calm, PackageInv, [Next \/ Stops]_vars
  PROVE  PackageInv'
<1>1. PackageParts /\ CallInv
  BY DEF PackageInv, PackageParts
<1>2. CASE RegisterFromRelease
  BY <1>1, <1>2, RegisterPack DEF PackageInv, PackageParts
<1>3. ASSUME NEW w \in Worker, Call(w) \/ Progress(w) \/ Fail(w)
      PROVE  PackageInv'
  BY <1>1, <1>3, CallsPack, ProgressPack, EndedPack DEF PackageInv, PackageParts
<1>4. ASSUME NEW a \in Actor, NEW c \in CampaignId, ApproveGeneration(a, c)
      PROVE  PackageInv'
  BY <1>1, <1>4, ApprovePack DEF PackageInv, PackageParts
<1>5. ASSUME NEW w \in Worker, Crash(w) \/ Restart(w)
      PROVE  PackageInv'
  BY <1>1, <1>5, EndedPack DEF PackageInv, PackageParts
<1>6. CASE UNCHANGED vars
  BY <1>1, <1>6, StutteringPack DEF PackageInv, PackageParts
<1> QED BY <1>2, <1>3, <1>4, <1>5, <1>6 DEF Next, Stops, Calm, ApproveDirectly, CancelDirectly

-----------------------------------------------------------------------------
(* The package's counts in every execution *)

(* The revision of the head, that of each campaign and the records in the   *)
(* chain of evidence are accounted for at every moment, whatever calls the  *)
(* one process makes of the controller, and wherever it stops.              *)
THEOREM PackageInvariant ==
  ASSUME Calm
  PROVE  Spec \/ FairSpec => []PackageInv
<1>1. Init => PackageInv
  BY AssumptionsHold, PackageStart
<1>2. IInv /\ PackageInv /\ [Next \/ Stops]_vars => PackageInv'
  BY AssumptionsHold, PackageStep
<1>3. [Next]_vars => [Next \/ Stops]_vars
  OBVIOUS
<1> QED BY <1>1, <1>2, <1>3, InvariantHolds, PTL DEF Spec, FairSpec

-----------------------------------------------------------------------------
(* The records that the package is made of *)

LEMMA StoredDecision ==
  ASSUME IInv, NEW d \in Stored
  PROVE  /\ d \in DecisionId /\ decisions[d].gen \in Index /\ ActionOf(d) \in Actions
         /\ d \in DecisionsOf(decisions[d].gen)
BY DEF IInv, TypeOK, RegistryTypeOK, Decision, Stored, ActionOf, DecisionsOf

LEMMA OnlyDecision ==
  ASSUME HeadInv, NEW i, Cardinality(DecisionsOf(i)) = 1
  PROVE  \E d \in DecisionId : d \in Stored /\ DecisionsOf(i) = {d} /\ TheDecision(i) = d
<1>1. IsFiniteSet(DecisionsOf(i)) /\ DecisionsOf(i) \subseteq Stored
  BY FS_Subset DEF HeadInv, DecisionsOf, Stored
<1>2. PICK d : DecisionsOf(i) = {d}
  BY <1>1, FS_Singleton
<1> QED BY <1>1, <1>2 DEF TheDecision, Stored

LEMMA EndingActions ==
  ASSUME NEW a \in Actions
  PROVE  /\ StateForAction(a) = "completed" => a = "stop_success"
         /\ StateForAction(a) = "budget_exhausted" => a = "stop_budget"
         /\ StateForAction(a) = "escalated" => a = "escalate"
BY DEF Actions, StateForAction

LEMMA OneAndTwo ==
  ASSUME NEW d, NEW e, d # e
  PROVE  Cardinality({d}) = 1 /\ Cardinality({d, e}) = 2 /\ IsFiniteSet({d, e})
<1>1. IsFiniteSet({d}) /\ Cardinality({d}) = 1
  BY FS_Singleton
<1>2. {d, e} = {d} \cup {e} /\ e \notin {d}
  OBVIOUS
<1>3. IsFiniteSet({d} \cup {e}) /\ Cardinality({d} \cup {e}) = 1 + 1
  BY <1>1, <1>2, FS_AddElement
<1> QED BY <1>1, <1>2, <1>3

(* The decision of the release's generation was the gate's.                 *)
LEMMA ReleaseDecision ==
  ASSUME IInv, AllAssumptions, HeadInv, MadeInv, NEW d \in Stored, DecisionsOf(0) = {d},
         gens[0].outcome = "rollback"
  PROVE  ActionOf(d) = "stop_budget" <=> ExhaustedAfterRollback
BY DEF MadeInv, MadeInvAt, GateWas

-----------------------------------------------------------------------------
(* A program that succeeded *)

Succeeded ==
  /\ head # NoHead /\ gens[0].outcome = "rollback" /\ OneDecisionEach
  /\ head.state = "completed" /\ head.cur = 1

(* Two generations, and d and e the decisions on them.                      *)
TwoGenerations(d, e) ==
  /\ Derived /\ head \in Head /\ 0 \in Index /\ 1 \in Index /\ Index \subseteq Nat
  /\ Done(0) /\ Done(1) /\ \A k \in Index : Planned(k) <=> k \in {0, 1}
  /\ gens[0].outcome = "rollback" /\ gens[1].outcome = "ready"
  /\ gens[0] \in Generation /\ gens[1] \in Generation
  /\ Status(0) = "rolled_back" /\ Status(1) = "completed"
  /\ d # e /\ Stored = {d, e}
  /\ DecisionsOf(0) = {d} /\ TheDecision(0) = d /\ ActionOf(d) = "continue"
  /\ DecisionsOf(1) = {e} /\ TheDecision(1) = e /\ ActionOf(e) = "stop_success"
  /\ StopOnReady

LEMMA SucceededInTwo ==
  ASSUME IInv, AllAssumptions, HeadInv, MadeInv, Succeeded
  PROVE  \E d \in DecisionId, e \in DecisionId : TwoGenerations(d, e)
<1>1. /\ Derived /\ head \in Head /\ 0 \in Index /\ 1 \in Index /\ Index \subseteq Nat
      /\ Planned(1) /\ \A k \in Index : Planned(k) => Planned(0)
  BY HeadFacts, DerivedHead, Indexes DEF IInv, TypeOK, Succeeded, Head, Derived
<1>2. PICK x \in Stored : StateForAction(ActionOf(x)) = "completed"
  BY DEF HeadInv, Succeeded, Ending
<1>3. PICK k \in Index : k = decisions[x].gen /\ x \in DecisionsOf(k)
  BY StoredDecision
<1>4. ActionOf(x) = "stop_success"
  BY <1>2, StoredDecision, EndingActions
<1>5. Done(k) /\ gens[k].outcome = "ready" /\ StopOnReady
  BY <1>3, <1>4 DEF MadeInv, MadeInvAt
<1>6. k = 1
  <2>1. k <= 1 /\ k # 0 /\ k \in Nat
    BY <1>1, <1>5 DEF HeadInv, Succeeded
  <2> QED BY <2>1
<1>7. Done(0) /\ Done(1)
  <2>1. 0 \in 0 .. 1
    OBVIOUS
  <2> QED BY <1>1, <1>5, <1>6, <2>1, DoneBelow
<1>8. /\ gens[0] \in Generation /\ gens[1] \in Generation
      /\ Status(0) = "rolled_back" /\ Status(1) = "completed"
  <2>1. /\ ShapeAt(0) /\ ShapeAt(1) /\ Planned(0)
        /\ gens[0] \in Generation /\ gens[1] \in Generation
    BY <1>1, GenerationFacts DEF IInv, TypeOK, ShapeInv
  <2>2. Status(0) = StatusFor("rollback") /\ Status(1) = StatusFor("ready")
    BY <1>1, <1>5, <1>6, <1>7, <2>1 DEF ShapeAt, Succeeded
  <2>3. StatusFor("rollback") = "rolled_back" /\ StatusFor("ready") = "completed"
    BY DEF StatusFor
  <2> QED BY <2>1, <2>2, <2>3
<1>9. \A i \in Index : Planned(i) <=> i \in {0, 1}
  <2> SUFFICES ASSUME NEW i \in Index, Planned(i), i # 0, i # 1 PROVE FALSE
    BY <1>1
  <2>1. 1 \in 0 .. i /\ 1 < i
    BY <1>1
  <2>2. Status(1) \in Unsuccessful
    BY <2>1, DoneBelow
  <2> QED BY <1>8, <2>2 DEF Unsuccessful
<1>10. Cardinality(DecisionsOf(0)) = 1 /\ Cardinality(DecisionsOf(1)) = 1
  BY <1>1, <1>7 DEF Succeeded, OneDecisionEach
<1>11. PICK d \in DecisionId : d \in Stored /\ DecisionsOf(0) = {d} /\ TheDecision(0) = d
  BY <1>10, OnlyDecision
<1>12. PICK e \in DecisionId : e \in Stored /\ DecisionsOf(1) = {e} /\ TheDecision(1) = e
  BY <1>10, OnlyDecision
<1>13. ActionOf(e) = "stop_success"
  BY <1>3, <1>4, <1>6, <1>12
<1>14. ActionOf(d) = "continue"
  <2>1. Continuing(0) # {}
    BY <1>1 DEF IInv, ChainInv, ChainInvAt
  <2> QED BY <1>11, <2>1 DEF Continuing, ActionOf
<1>15. Stored = {d, e}
  <2> SUFFICES ASSUME NEW y \in Stored PROVE y \in {d, e}
    BY <1>11, <1>12
  <2>1. decisions[y].gen \in {0, 1}
    BY <1>9, StoredDecision DEF MadeInv, MadeInvAt, Done
  <2> QED BY <1>11, <1>12, <2>1, StoredDecision
<1>16. d # e
  BY <1>13, <1>14
<1>17. gens[0].outcome = "rollback" /\ gens[1].outcome = "ready"
  BY <1>5, <1>6 DEF Succeeded
<1> QED BY <1>1, <1>5, <1>7, <1>8, <1>9, <1>11, <1>12, <1>13, <1>14, <1>15, <1>16, <1>17
        DEF TwoGenerations

LEMMA SucceededCounts ==
  ASSUME IInv, AllAssumptions, HeadInv, NEW d \in DecisionId, NEW e \in DecisionId,
         TwoGenerations(d, e), head # NoHead
  PROVE  /\ head.rev = 6 /\ head.rollbacks = 1 /\ head.holds = 0 /\ head.campaigns = 1
         /\ head.spent = gens[0].pairs + gens[1].pairs
<1>1. /\ Derived /\ 0 \in Index /\ 1 \in Index /\ Index \subseteq Nat
      /\ \A k \in Index : (Planned(k) <=> k \in {0, 1}) /\ (Done(k) <=> k \in {0, 1})
      /\ gens[0].outcome = "rollback" /\ gens[1].outcome = "ready"
      /\ gens[0] \in Generation /\ gens[1] \in Generation /\ Status(1) = "completed"
      /\ Stored = {d, e} /\ d # e /\ Done(1)
  BY DEF TwoGenerations, Done
<1>2. OutcomesOf("rollback") = {0} /\ OutcomesOf("hold") = {}
  BY <1>1 DEF OutcomesOf
<1>3. BoundTo = {1}
  <2>1. gens[1].campaign # NoCampaign
    BY <1>1 DEF IInv, ShapeInv, ShapeAt
  <2> QED BY <1>1, <2>1 DEF BoundTo, HeadInv
<1>4. /\ Cardinality(OutcomesOf("rollback")) = 1 /\ Cardinality(OutcomesOf("hold")) = 0
      /\ Cardinality(BoundTo) = 1
  BY <1>2, <1>3, FS_Singleton, FS_EmptySet
<1>5. Cardinality(SpentPairs) = gens[0].pairs + gens[1].pairs
  <2>1. PICK p \in Nat, q \in Nat : /\ p = gens[0].pairs /\ p <= MaxPairs
                                    /\ q = gens[1].pairs /\ q <= MaxPairs /\ MaxPairs \in Nat
    BY <1>1, Indexes DEF HeadInv, Generation
  <2>2. SpentPairs = {0} \X (1 .. p) \cup {1} \X (1 .. q)
    <3>1. ASSUME NEW x \in Index \X (1 .. MaxPairs)
          PROVE  x \in SpentPairs <=> x \in {0} \X (1 .. p) \/ x \in {1} \X (1 .. q)
      <4>0. x[1] \in Index /\ x[2] \in 1 .. MaxPairs /\ x = <<x[1], x[2]>>
        OBVIOUS
      <4>1. x \in SpentPairs <=> Done(x[1]) /\ x[2] <= gens[x[1]].pairs
        BY <4>0 DEF SpentPairs
      <4>2. CASE x[1] = 0
        <5>1. x \in SpentPairs <=> x[2] <= p
          BY <1>1, <2>1, <4>1, <4>2
        <5> QED BY <2>1, <4>0, <4>2, <5>1
      <4>3. CASE x[1] = 1
        <5>1. x \in SpentPairs <=> x[2] <= q
          BY <1>1, <2>1, <4>1, <4>3
        <5> QED BY <2>1, <4>0, <4>3, <5>1
      <4>4. CASE x[1] \notin {0, 1}
        <5>1. x \notin SpentPairs
          BY <1>1, <4>0, <4>1, <4>4
        <5> QED BY <4>0, <4>4, <5>1
      <4> QED BY <4>2, <4>3, <4>4
    <3>2. {0} \X (1 .. p) \subseteq Index \X (1 .. MaxPairs)
      BY <1>1, <2>1
    <3>3. {1} \X (1 .. q) \subseteq Index \X (1 .. MaxPairs)
      BY <1>1, <2>1
    <3>4. SpentPairs \subseteq Index \X (1 .. MaxPairs)
      BY DEF SpentPairs
    <3> HIDE DEF SpentPairs
    <3> QED BY <3>1, <3>2, <3>3, <3>4
  <2>3. ({0} \X (1 .. p)) \cap ({1} \X (1 .. q)) = {}
    OBVIOUS
  <2>4. /\ IsFiniteSet({0} \X (1 .. p)) /\ Cardinality({0} \X (1 .. p)) = p
        /\ IsFiniteSet({1} \X (1 .. q)) /\ Cardinality({1} \X (1 .. q)) = q
    BY RowOfPairs
  <2>5. Cardinality({0} \X (1 .. p) \cup {1} \X (1 .. q))
          = p + q - Cardinality(({0} \X (1 .. p)) \cap ({1} \X (1 .. q)))
    BY <2>4, FS_Union
  <2>6. Cardinality({0} \X (1 .. p) \cup {1} \X (1 .. q)) = p + q
    BY <2>3, <2>5, FS_EmptySet
  <2> QED BY <2>1, <2>2, <2>6
<1>6. head.rev = 6
  <2>1. Moved(1) = 4 /\ \A k \in Index : k # 1 => Moved(k) = 0
    <3>1. Reached(1) = 5
      BY <1>1 DEF Reached
    <3>2. Moved(1) = 4
      BY <1>1, <3>1 DEF Moved
    <3>3. ASSUME NEW k \in Index, k # 1 PROVE Moved(k) = 0
      <4>1. ~(k > 0 /\ Planned(k))
        BY <1>1, <3>3
      <4> QED BY <4>1 DEF Moved
    <3> QED BY <3>2, <3>3
  <2>2. Moves = {1} \X (1 .. 4)
    <3>1. ASSUME NEW x \in Index \X (1 .. 4)
          PROVE  x \in Moves <=> x \in {1} \X (1 .. 4)
      <4>0. x[1] \in Index /\ x[2] \in 1 .. 4 /\ x = <<x[1], x[2]>>
        OBVIOUS
      <4>1. CASE x[1] = 1
        BY <2>1, <4>0, <4>1 DEF Moves
      <4>2. CASE x[1] # 1
        BY <2>1, <4>0, <4>2 DEF Moves
      <4> QED BY <4>1, <4>2
    <3>2. {1} \X (1 .. 4) \subseteq Index \X (1 .. 4) /\ Moves \subseteq Index \X (1 .. 4)
      BY <1>1 DEF Moves
    <3> HIDE DEF Moves
    <3> QED BY <3>1, <3>2
  <2>3. Cardinality({1} \X (1 .. 4)) = 4
    BY RowOfPairs
  <2>4. Cardinality(Stored) = 2
    BY <1>1, OneAndTwo
  <2> QED BY <2>2, <2>3, <2>4 DEF HeadInv
<1> QED BY <1>1, <1>4, <1>5, <1>6 DEF Derived

LEMMA SucceededProgram ==
  ASSUME IInv, AllAssumptions, HeadInv, MadeInv, Succeeded, NEW d \in DecisionId,
         NEW e \in DecisionId, TwoGenerations(d, e)
  PROVE  MainProgramVerifies
<1>1. ~ExhaustedAfterRollback
  BY ReleaseDecision DEF TwoGenerations
<1>2. /\ head \in Head /\ head.state = "completed" /\ head.cur = 1
      /\ head.rev = 6 /\ head.rollbacks = 1 /\ head.holds = 0 /\ head.campaigns = 1
      /\ head.spent = gens[0].pairs + gens[1].pairs
  BY SucceededCounts DEF Succeeded, TwoGenerations
<1>3. head = [state |-> "completed", cur |-> 1, rev |-> 6, rollbacks |-> 1, holds |-> 0,
              campaigns |-> 1, spent |-> gens[0].pairs + gens[1].pairs]
  BY <1>2 DEF Head
<1>4. {i \in Index : Planned(i)} = {0, 1}
  BY DEF TwoGenerations
<1>5. Cardinality(DecisionsOf(0)) = 1 /\ Cardinality(DecisionsOf(1)) = 1
  BY OneAndTwo DEF TwoGenerations
<1> QED BY <1>1, <1>3, <1>4, <1>5 DEF MainProgramVerifies, TwoGenerations

(* The evidence of the plan is all the evidence there is.                   *)
OnlyEvidence(s, r) ==
  /\ SignalsOf(0) = {s} /\ TheSignal(0) = s /\ ReceiptsOf(s) = {r} /\ TheReceipt(s) = r
  /\ {t \in SignalId : signals[t] # NoSignal} = {s}
  /\ {q \in ReceiptId : receipts[q] # NoSignal} = {r}

LEMMA SucceededEvidence ==
  ASSUME IInv, AllAssumptions, FeedbackInv, NEW d, NEW e, TwoGenerations(d, e)
  PROVE  \E s \in SignalId : OnlyEvidence(s, gens[1].att) /\ signals[s].by # producer
<1>1. PICK s \in SignalId : s \in SignalsOf(0) /\ gens[1].att \in ReceiptsOf(s)
  BY DEF IInv, ChainInv, ChainInvAt, TwoGenerations, SignalsOf, Done
<1>2. PICK r \in ReceiptId : r = gens[1].att /\ r \in ReceiptsOf(s)
  BY <1>1 DEF ReceiptsOf
<1>3. /\ signals[s] # NoSignal /\ signals[s].gen = 0 /\ receipts[r] = s /\ s # NoSignal
      /\ signals[s].by # producer
  BY <1>1, <1>2 DEF SignalsOf, ReceiptsOf, AllAssumptions, RegistryAssumption, FeedbackInv
<1>4. SignalsOf(0) = {s}
  BY <1>1, <1>3 DEF FeedbackInv
<1>5. ReceiptsOf(s) = {r}
  BY <1>2, <1>3 DEF FeedbackInv
<1>6. \A t \in SignalId : signals[t] # NoSignal => t = s
  <2> SUFFICES ASSUME NEW t \in SignalId, signals[t] # NoSignal PROVE t \in SignalsOf(0)
    BY <1>4
  <2>1. signals[t].gen \in Index /\ Done(signals[t].gen) /\ gens[signals[t].gen].outcome # "ready"
    BY DEF FeedbackInv, IInv, TypeOK, RegistryTypeOK, Signal
  <2>2. signals[t].gen = 0
    BY <2>1 DEF TwoGenerations, Done
  <2> QED BY <2>2 DEF SignalsOf
<1>7. \A q \in ReceiptId : receipts[q] # NoSignal => q = r
  <2> SUFFICES ASSUME NEW q \in ReceiptId, receipts[q] # NoSignal PROVE q \in ReceiptsOf(s)
    BY <1>5
  <2>1. receipts[q] \in SignalId /\ signals[receipts[q]] # NoSignal
    BY DEF FeedbackInv, IInv, TypeOK, RegistryTypeOK
  <2> QED BY <1>6, <2>1 DEF ReceiptsOf
<1> QED BY <1>2, <1>3, <1>4, <1>5, <1>6, <1>7 DEF OnlyEvidence, TheSignal, TheReceipt

LEMMA SucceededCampaign ==
  ASSUME IInv, AllAssumptions, CampInv, StaffInv, NEW d \in DecisionId, NEW e \in DecisionId,
         TwoGenerations(d, e), NEW c \in CampaignId, gens[1].campaign = c,
         camp[c].state = "completed"
  PROVE  CampaignVerifies(c) /\ CampaignEventsVerify(c) /\ RolesAreApart(c)
<1>1. Planned(1) /\ 1 \in Index /\ Status(1) # "planned"
  BY DEF TwoGenerations, Done
<1>2. Approved(c, 1)
  BY <1>1 DEF IInv, GenInv, GenInvAt
<1>3. Continuing(0) = {d} /\ ContinueDecision(1) = d
  <2>1. Continuing(0) = {d}
    BY DEF TwoGenerations, Continuing, ActionOf
  <2>2. Continuing(1 - 1) = {d}
    BY <2>1
  <2> QED BY <2>1, <2>2 DEF ContinueDecision
<1>4. Privileged(1, gens[1].att) = {producer, attributor[gens[1].att], decider[d]}
  BY <1>3 DEF Privileged
<1>5. /\ Exists(c) /\ Of(c) = 1 /\ Voters(c) = Approvers(c) /\ Cardinality(Voters(c)) = 2
      /\ Voters(c) \cap ({producer, attributor[gens[1].att]} \cup trail[c].evaluators) = {}
      /\ decider[d] \notin Voters(c)
  BY <1>2, <1>3 DEF Approved
<1>6. Voters(c) # {}
  BY <1>5, FS_EmptySet
<1>7. /\ trail[c].evaluators = {gens[1].binder}
      /\ gens[1].binder \notin {producer, attributor[gens[1].att]}
      /\ gens[1].binder # decider[d]
  BY <1>3, <1>5, <1>6 DEF CampInv, CampInvAt, Audited
<1>8. camp[c].rev = 6 /\ ~trail[c].reused
  <2>1. Base("completed") = 4
    BY DEF Base
  <2> QED BY <1>5, <2>1 DEF CampInv, CampInvAt
<1>9. PICK o \in Actor : o \notin {producer, attributor[gens[1].att], decider[d]}
                                    \cup trail[c].evaluators \cup Voters(c)
  BY <1>1, <1>3 DEF StaffInv, Staffed
<1>10. CampaignVerifies(c)
  BY <1>4, <1>5 DEF CampaignVerifies
<1>11. CampaignEventsVerify(c)
  BY <1>5, <1>8 DEF CampaignEventsVerify
<1>12. RolesAreApart(c)
  BY <1>4, <1>5, <1>7, <1>9 DEF RolesAreApart
<1> QED BY <1>10, <1>11, <1>12

LEMMA SucceededEvents ==
  ASSUME IInv, AllAssumptions, NEW d \in DecisionId, NEW e \in DecisionId, TwoGenerations(d, e),
         NEW s, NEW r, OnlyEvidence(s, r), signals[s].by # producer
  PROVE  EventsVerify
<1>1. Cardinality({t \in SignalId : signals[t] # NoSignal}) = 1
  BY FS_Singleton DEF OnlyEvidence
<1>2. Cardinality({q \in ReceiptId : receipts[q] # NoSignal}) = 1
  BY FS_Singleton DEF OnlyEvidence
<1>3. Cardinality(Stored) = 2
  BY OneAndTwo DEF TwoGenerations
<1>4. Cardinality({x \in Stored : ActionOf(x) # "continue"}) = 1
  <2>1. {x \in Stored : ActionOf(x) # "continue"} = {e}
    BY DEF TwoGenerations
  <2> QED BY <2>1, FS_Singleton
<1>5. Cardinality({x \in (Index \ {0}) \X (1 .. 5) : x[2] <= Reached(x[1])}) = 5
  <2>1. Reached(1) = 5
    BY DEF TwoGenerations, Reached
  <2>2. \A k \in Index \ {0, 1} : Reached(k) = 0
    <3> SUFFICES ASSUME NEW k \in Index \ {0, 1} PROVE Reached(k) = 0
      OBVIOUS
    <3>1. ~Planned(k)
      BY DEF TwoGenerations
    <3>2. Status(k) = "absent" /\ ~Done(k)
      BY <3>1 DEF Planned, Status, Done
    <3> QED BY <3>2 DEF Reached
  <2>3. \A x \in (Index \ {0}) \X (1 .. 5) : x[2] <= Reached(x[1]) <=> x \in {1} \X (1 .. 5)
    BY <2>1, <2>2
  <2>4. {1} \X (1 .. 5) \subseteq (Index \ {0}) \X (1 .. 5)
    BY DEF TwoGenerations
  <2>5. {x \in (Index \ {0}) \X (1 .. 5) : x[2] <= Reached(x[1])} = {1} \X (1 .. 5)
    BY <2>3, <2>4
  <2>6. Cardinality({1} \X (1 .. 5)) = 5
    BY RowOfPairs
  <2> QED BY <2>5, <2>6
<1>6. EventCount = 12
  BY <1>1, <1>2, <1>3, <1>4, <1>5 DEF EventCount
<1> QED BY <1>6 DEF EventsVerify, OnlyEvidence

(* What the package recomputes of a program that succeeded is what is       *)
(* stored of it.                                                            *)
LEMMA SucceededVerifies ==
  ASSUME IInv, AllAssumptions, PackageInv, Succeeded, NEW c \in CampaignId, gens[1].campaign = c,
         camp[c].state = "completed"
  PROVE  PackageVerifies(c)
<1>1. HeadInv /\ FeedbackInv /\ MadeInv /\ CampInv /\ StaffInv
  BY DEF PackageInv
<1>2. PICK d \in DecisionId, e \in DecisionId : TwoGenerations(d, e)
  BY <1>1, SucceededInTwo
<1>3. PICK s \in SignalId : OnlyEvidence(s, gens[1].att) /\ signals[s].by # producer
  BY <1>1, <1>2, SucceededEvidence
<1>4. MainProgramVerifies
  BY <1>1, <1>2, SucceededProgram
<1>5. EvidenceIsExact
  <2>1. Attributed(gens[1].att)
    BY <1>2 DEF TwoGenerations, IInv, ChainInv, ChainInvAt, Done
  <2> QED BY <1>3, <2>1, FS_Singleton DEF EvidenceIsExact, OnlyEvidence
<1>6. CampaignVerifies(c) /\ CampaignEventsVerify(c) /\ RolesAreApart(c)
  BY <1>1, <1>2, SucceededCampaign
<1>7. EventsVerify
  BY <1>2, <1>3, SucceededEvents
<1> QED BY <1>4, <1>5, <1>6, <1>7 DEF PackageVerifies

-----------------------------------------------------------------------------
(* A negative control *)

Control(action) ==
  /\ head # NoHead /\ gens[0].outcome = "rollback" /\ OneDecisionEach
  /\ head.state = StateForAction(action) /\ head.cur = 0
  /\ \A s \in SignalsOf(0) : signals[s].by \notin Deciders(0)
  /\ action = "stop_budget" =>
       SignalsOf(0) # {} /\ \A s \in SignalsOf(0) : ReceiptsOf(s) = {}

(* One generation, and d the decision on it.                                *)
OneGeneration(d) ==
  /\ 0 \in Index /\ \A k \in Index : Planned(k) <=> k = 0
  /\ Done(0) /\ Status(0) = "rolled_back" /\ gens[0].outcome = "rollback"
  /\ Stored = {d} /\ DecisionsOf(0) = {d} /\ TheDecision(0) = d

LEMMA ControlOfOne ==
  ASSUME IInv, AllAssumptions, HeadInv, MadeInv, NEW action \in {"stop_budget", "escalate"},
         Control(action)
  PROVE  \E d \in DecisionId : OneGeneration(d) /\ ActionOf(d) = action
<1>1. 0 \in Index /\ Index \subseteq Nat /\ head \in Head
  BY HeadFacts, Indexes DEF IInv, TypeOK, Control
<1>2. PICK x \in Stored : StateForAction(ActionOf(x)) = head.state
  BY DEF HeadInv, Control, Ending, StateForAction
<1>3. ActionOf(x) = action
  <2>1. StateForAction(ActionOf(x)) = StateForAction(action)
    BY <1>2 DEF Control
  <2>2. StateForAction("stop_budget") = "budget_exhausted" /\ StateForAction("escalate") = "escalated"
    BY DEF StateForAction
  <2> QED BY <2>1, <2>2, StoredDecision, EndingActions
<1>4. ASSUME NEW y \in Stored PROVE y \in DecisionsOf(0) /\ Done(0)
  <2>1. PICK k \in Index : k = decisions[y].gen /\ y \in DecisionsOf(k) /\ Done(k)
    BY StoredDecision DEF MadeInv, MadeInvAt
  <2>2. k <= 0
    BY <2>1 DEF HeadInv, Control
  <2>3. k = 0
    BY <1>1, <2>1, <2>2
  <2> QED BY <2>1, <2>3
<1>5. Done(0) /\ x \in DecisionsOf(0)
  BY <1>4
<1>6. Cardinality(DecisionsOf(0)) = 1
  BY <1>1, <1>5 DEF Control, OneDecisionEach
<1>7. PICK d \in DecisionId : d \in Stored /\ DecisionsOf(0) = {d} /\ TheDecision(0) = d
  BY <1>6, OnlyDecision
<1>8. ActionOf(d) = action /\ Stored = {d}
  BY <1>3, <1>4, <1>5, <1>7
<1>9. Continuing(0) = {}
  BY <1>7, <1>8 DEF Continuing, ActionOf
<1>10. \A k \in Index : Planned(k) <=> k = 0
  BY <1>5, <1>9, OnlyTheRelease DEF Done
<1>11. Status(0) = "rolled_back"
  <2>1. StatusFor("rollback") = "rolled_back"
    BY DEF StatusFor
  <2> QED BY <1>1, <1>5, <2>1 DEF IInv, ShapeInv, ShapeAt, Control, Done
<1> QED BY <1>1, <1>5, <1>7, <1>8, <1>10, <1>11 DEF OneGeneration, Control

LEMMA ControlHead ==
  ASSUME IInv, AllAssumptions, HeadInv, NEW action, Control(action), NEW d \in DecisionId,
         OneGeneration(d)
  PROVE  head = [state |-> StateForAction(action), cur |-> 0, rev |-> 1, rollbacks |-> 1,
                 holds |-> 0, campaigns |-> 0, spent |-> gens[0].pairs]
<1>1. /\ head # NoHead /\ \A k \in Index : Planned(k) => k = 0
      /\ gens[0].outcome = "rollback"
  BY DEF Control, OneGeneration
<1>2. /\ head \in Head /\ head.cur = 0 /\ head.rollbacks = 1 /\ head.holds = 0
      /\ head.campaigns = 0 /\ head.spent = gens[0].pairs
  BY <1>1, HeadOfOne
<1>3. head.rev = 1
  <2>1. \A k \in Index : Moved(k) = 0
    BY <1>1, Indexes DEF Moved
  <2>2. Moves = {}
    BY <2>1 DEF Moves
  <2>3. Cardinality(Stored) = 1 /\ Cardinality(Moves) = 0
    BY <2>2, FS_Singleton, FS_EmptySet DEF OneGeneration
  <2> QED BY <1>1, <2>3 DEF HeadInv
<1>4. head.state = StateForAction(action)
  BY DEF Control
<1> QED BY <1>2, <1>3, <1>4 DEF Head

(* The signal that the control was decided on, and its receipts.            *)
LEMMA ControlEvidenceIs ==
  ASSUME IInv, AllAssumptions, Apart, FeedbackInv, MadeInv,
         NEW action \in {"stop_budget", "escalate"}, Control(action), NEW d \in DecisionId,
         OneGeneration(d), ActionOf(d) = action
  PROVE  \E s \in SignalId :
           /\ SignalsOf(0) = {s} /\ TheSignal(0) = s
           /\ {t \in SignalId : signals[t] # NoSignal} = {s}
           /\ {q \in ReceiptId : receipts[q] # NoSignal} = ReceiptsOf(s)
           /\ signals[s].by \notin {producer, decider[d]}
           /\ Cardinality(ReceiptsOf(s)) = IF action = "escalate" THEN 1 ELSE 0
           /\ \A r \in ReceiptsOf(s) :
                attributor[r] # producer /\ ~conclusive[r] /\ decider[d] # attributor[r]
<1>1. \A t \in SignalId : signals[t] # NoSignal => t \in SignalsOf(0)
  <2> SUFFICES ASSUME NEW t \in SignalId, signals[t] # NoSignal PROVE t \in SignalsOf(0)
    OBVIOUS
  <2>1. signals[t].gen \in Index /\ Done(signals[t].gen)
    BY DEF FeedbackInv, IInv, TypeOK, RegistryTypeOK, Signal
  <2> QED BY <2>1 DEF OneGeneration, Done, SignalsOf
<1>2. decisions[d].gen = 0 /\ d \in Stored
  BY DEF OneGeneration, DecisionsOf
<1>3. PICK s \in SignalId :
        /\ s \in SignalsOf(0)
        /\ Cardinality(ReceiptsOf(s)) = IF action = "escalate" THEN 1 ELSE 0
        /\ \A r \in ReceiptsOf(s) :
             attributor[r] # producer /\ ~conclusive[r] /\ decider[d] # attributor[r]
  <2>1. CASE action = "escalate"
    <3>1. Escalates(d, 0)
      BY <1>2, <2>1 DEF MadeInv, MadeInvAt
    <3>2. PICK s \in SignalId, r \in ReceiptId :
            UniqueEvidence(0, s, r) /\ ~Attributed(r) /\ decider[d] # attributor[r]
      BY <3>1 DEF Escalates
    <3>3. attributor[r] # producer /\ ~conclusive[r]
      BY <3>2 DEF Apart, Attributed
    <3>4. s \in SignalsOf(0) /\ ReceiptsOf(s) = {r} /\ Cardinality(ReceiptsOf(s)) = 1
      BY <3>2, FS_Singleton DEF UniqueEvidence
    <3> QED BY <2>1, <3>2, <3>3, <3>4
  <2>2. CASE action = "stop_budget"
    <3>1. PICK s \in SignalId : s \in SignalsOf(0) /\ ReceiptsOf(s) = {}
      BY <2>2 DEF Control, SignalsOf
    <3>2. Cardinality(ReceiptsOf(s)) = 0
      BY <3>1, FS_EmptySet
    <3> QED BY <2>2, <3>1, <3>2
  <2> QED BY <2>1, <2>2
<1>4. signals[s] # NoSignal /\ signals[s].gen = 0
  BY <1>3 DEF SignalsOf
<1>5. SignalsOf(0) = {s} /\ TheSignal(0) = s
  <2>1. SignalsOf(0) = {s}
    BY <1>3, <1>4 DEF FeedbackInv
  <2> QED BY <2>1 DEF TheSignal
<1>6. {t \in SignalId : signals[t] # NoSignal} = {s}
  BY <1>1, <1>4, <1>5
<1>7. {q \in ReceiptId : receipts[q] # NoSignal} = ReceiptsOf(s)
  <2>1. \A q \in ReceiptId : receipts[q] # NoSignal => receipts[q] = s
    BY <1>6 DEF FeedbackInv, IInv, TypeOK, RegistryTypeOK
  <2>2. s # NoSignal
    BY DEF AllAssumptions, RegistryAssumption
  <2> QED BY <2>1, <2>2 DEF ReceiptsOf
<1>8. signals[s].by \notin {producer, decider[d]}
  BY <1>3, <1>4 DEF FeedbackInv, Control, Deciders, OneGeneration
<1> QED BY <1>3, <1>5, <1>6, <1>7, <1>8

LEMMA ControlIsAccepted ==
  ASSUME IInv, AllAssumptions, Apart, PackageInv, NEW action \in {"stop_budget", "escalate"},
         Control(action)
  PROVE  ControlVerifies(action)
<1>1. HeadInv /\ FeedbackInv /\ MadeInv
  BY DEF PackageInv
<1>2. PICK d \in DecisionId : OneGeneration(d) /\ ActionOf(d) = action
  BY <1>1, ControlOfOne
<1>3. PICK s \in SignalId :
        /\ SignalsOf(0) = {s} /\ TheSignal(0) = s
        /\ {t \in SignalId : signals[t] # NoSignal} = {s}
        /\ {q \in ReceiptId : receipts[q] # NoSignal} = ReceiptsOf(s)
        /\ signals[s].by \notin {producer, decider[d]}
        /\ Cardinality(ReceiptsOf(s)) = IF action = "escalate" THEN 1 ELSE 0
        /\ \A r \in ReceiptsOf(s) :
             attributor[r] # producer /\ ~conclusive[r] /\ decider[d] # attributor[r]
  BY <1>1, <1>2, ControlEvidenceIs
<1>4. ControlDecision = d /\ ControlEvidence = ReceiptsOf(s)
  BY <1>2, <1>3 DEF ControlDecision, ControlEvidence, OneGeneration
<1>5. ControlHeadVerifies(action)
  <2>1. {i \in Index : Planned(i)} = {0} /\ Status(0) = "rolled_back"
    BY <1>2 DEF OneGeneration
  <2>2. Cardinality(SignalsOf(0)) = 1 /\ Cardinality(DecisionsOf(0)) = 1
    BY <1>2, <1>3, FS_Singleton DEF OneGeneration
  <2> QED BY <1>1, <1>2, <2>1, <2>2, ControlHead DEF ControlHeadVerifies
<1>6. ControlPolicyVerifies(action)
  <2>1. ActionOf(d) = "stop_budget" <=> ExhaustedAfterRollback
    BY <1>1, <1>2, ReleaseDecision DEF OneGeneration
  <2> QED BY <1>2, <1>3, <1>4, <2>1 DEF ControlPolicyVerifies
<1>7. ControlRolesAreApart
  <2>1. decider[d] # producer
    BY DEF Apart
  <2> QED BY <1>3, <1>4, <2>1 DEF ControlRolesAreApart
<1>8. ControlEventsVerify
  <2>1. Cardinality({t \in SignalId : signals[t] # NoSignal}) = 1
    BY <1>3, FS_Singleton
  <2>2. Cardinality(Stored) = 1
    BY <1>2, FS_Singleton DEF OneGeneration
  <2>3. Cardinality({x \in Stored : ActionOf(x) # "continue"}) = 1
    <3>1. {x \in Stored : ActionOf(x) # "continue"} = {d}
      BY <1>2 DEF OneGeneration
    <3> QED BY <3>1, FS_Singleton
  <2>4. Cardinality({x \in (Index \ {0}) \X (1 .. 5) : x[2] <= Reached(x[1])}) = 0
    <3>1. \A k \in Index \ {0} : Reached(k) = 0
      <4> SUFFICES ASSUME NEW k \in Index \ {0} PROVE Reached(k) = 0
        OBVIOUS
      <4>1. ~Planned(k)
        BY <1>2 DEF OneGeneration
      <4>2. Status(k) = "absent" /\ ~Done(k)
        BY <4>1 DEF Planned, Status, Done
      <4> QED BY <4>2 DEF Reached
    <3>2. {x \in (Index \ {0}) \X (1 .. 5) : x[2] <= Reached(x[1])} = {}
      BY <3>1
    <3> QED BY <3>2, FS_EmptySet
  <2>5. PICK n \in Nat : n = Cardinality(ReceiptsOf(s))
    BY <1>3
  <2>6. Cardinality({q \in ReceiptId : receipts[q] # NoSignal}) = n
    BY <1>3, <2>5
  <2>7. EventCount = 5 + n
    BY <2>1, <2>2, <2>3, <2>4, <2>6 DEF EventCount
  <2> QED BY <1>4, <2>5, <2>7 DEF ControlEventsVerify
<1> QED BY <1>5, <1>6, <1>7, <1>8 DEF ControlVerifies

(* package_policy_hardened, package_events_hardened, package_hardened and   *)
(* the controls: where one process serves the program and nobody uses the   *)
(* campaigns beside it, what it stores of a program that ended in           *)
(* completion, on its budget or in an escalation is what the package's      *)
(* managers recompute, whatever calls were made and wherever they stopped.  *)
THEOREM EndedProgramsArePackageable ==
  ASSUME Calm, Apart
  PROVE  Spec \/ FairSpec => []EndedProgramIsPackageable
<1>1. IInv /\ PackageInv => EndedProgramIsPackageable
  <2> SUFFICES ASSUME IInv, PackageInv PROVE EndedProgramIsPackageable
    OBVIOUS
  <2>1. ASSUME Succeeded, NEW c \in CampaignId, gens[1].campaign = c, camp[c].state = "completed"
        PROVE  PackageVerifies(c)
    BY <2>1, AssumptionsHold, SucceededVerifies
  <2>2. ASSUME NEW action \in {"stop_budget", "escalate"}, Control(action)
        PROVE  ControlVerifies(action)
    BY <2>2, AssumptionsHold, ControlIsAccepted
  <2> QED BY <2>1, <2>2 DEF EndedProgramIsPackageable, Succeeded, Control
<1> QED BY <1>1, InvariantHolds, PackageInvariant, PTL

-----------------------------------------------------------------------------
(***************************************************************************)
(* The executions that people authorize beside the program                 *)
(* (ExecutionLedger), for any requests, people, processes, windows of time *)
(* and freshness.  An authorization is used once because whoever may run   *)
(* it left a row in the ledger that nobody takes away, and nobody else who *)
(* may run it can have found that row missing.                             *)
(***************************************************************************)
CONSTANTS Request, Person, Process, requester, highRisk, issued, expires, emptyWorkspace,
          Freshness, MaxTime
VARIABLES now, given, ledger, dirty, task, begun

Ledger == INSTANCE ExecutionLedger WITH job <- task

Time == 0 .. MaxTime
Authorization == [req: Request, votes: SUBSET Ledger!Approval]
Use == [auth: Authorization, status: {"claimed", "completed", "failed"}, at: Time]
Execution == [auth: Authorization, by: Process, at: Time, checked: Time]
Tasks == [pc: {"claim", "run", "complete"}, auth: Authorization, checked: Time, until: Nat]

ExecutionTypes ==
  /\ now \in Time
  /\ given \subseteq Ledger!Approval /\ IsFiniteSet(given) /\ \A v \in given : v.cast <= now
  /\ ledger \subseteq Use /\ \A u \in ledger : u.at <= now
  /\ dirty \in BOOLEAN
  /\ task \in [Process -> Tasks \cup {Ledger!Idle}]
  /\ begun \subseteq Execution

(* The votes for a were all given by the time t.                            *)
ApprovedBy(a, t) ==
  Ledger!ApprovalsAreValid(a) /\ a.votes \subseteq given /\ \A v \in a.votes : v.cast <= t

(* The row that a preflight at the time t has led to.                       *)
ClaimedAfter(a, t, u) == t <= u.at /\ u.at < t + Freshness /\ u.at < expires[a.req]

Running(p) == task[p] # Ledger!Idle /\ task[p].pc \in {"run", "complete"}

TaskInvAt(p) ==
  task[p] # Ledger!Idle =>
    /\ ApprovedBy(task[p].auth, task[p].checked) /\ task[p].checked <= now
    /\ task[p].until <= task[p].checked + Freshness /\ task[p].until <= expires[task[p].auth.req]
    /\ Running(p) =>
         /\ \E u \in Ledger!Uses(task[p].auth) : ClaimedAfter(task[p].auth, task[p].checked, u)
         /\ \A q \in Process \ {p} : Running(q) => task[q].auth # task[p].auth
    /\ task[p].pc = "run" => \A b \in begun : b.auth # task[p].auth

BegunInvAt(b) ==
  /\ ApprovedBy(b.auth, b.checked)
  /\ \E u \in Ledger!Uses(b.auth) : ClaimedAfter(b.auth, b.checked, u) /\ u.at <= b.at
  /\ \A c \in begun : c.auth = b.auth => c = b

ExecutionInv ==
  /\ ExecutionTypes
  /\ \A p \in Process : TaskInvAt(p)
  /\ \A b \in begun : BegunInvAt(b)

-----------------------------------------------------------------------------
(* What no step takes away *)

LedgerGoesOn ==
  /\ given \subseteq given' /\ now <= now'
  /\ \A u \in ledger : \E x \in ledger' : x.auth = u.auth /\ x.at = u.at

LEMMA ApprovalStays ==
  ASSUME LedgerGoesOn, NEW a, NEW t, ApprovedBy(a, t)
  PROVE  ApprovedBy(a, t)'
BY DEF LedgerGoesOn, ApprovedBy, Ledger!ApprovalsAreValid, Ledger!RequiredApprovals, Ledger!InWindow

LEMMA RowStays ==
  ASSUME LedgerGoesOn, NEW a, NEW t, \E u \in Ledger!Uses(a) : ClaimedAfter(a, t, u)
  PROVE  \E u \in Ledger!Uses(a)' : ClaimedAfter(a, t, u)
BY DEF LedgerGoesOn, Ledger!Uses, ClaimedAfter

LEMMA ExecutionStays ==
  ASSUME LedgerGoesOn, NEW b, BegunInvAt(b), \A c \in begun' : c.auth = b.auth => c \in begun
  PROVE  BegunInvAt(b)'
<1>1. ApprovedBy(b.auth, b.checked)'
  BY ApprovalStays DEF BegunInvAt
<1>2. \E u \in Ledger!Uses(b.auth)' : ClaimedAfter(b.auth, b.checked, u) /\ u.at <= b.at
  BY DEF LedgerGoesOn, BegunInvAt, Ledger!Uses, ClaimedAfter
<1>3. \A c \in begun' : c.auth = b.auth => c = b
  BY DEF BegunInvAt
<1> QED BY <1>1, <1>2, <1>3 DEF BegunInvAt

(* A process that does nothing keeps what is known of its job.              *)
LEMMA OtherTaskStays ==
  ASSUME ExecutionTypes, Ledger!ExecutionAssumption, LedgerGoesOn, now' \in Time,
         NEW q \in Process, TaskInvAt(q),
         task'[q] = task[q],
         Running(q) => \A r \in Process \ {q} : Running(r)' => task'[r].auth # task[q].auth,
         \A c \in begun' : c \in begun \/ c.auth # task[q].auth
  PROVE  TaskInvAt(q)'
<1> SUFFICES ASSUME task[q] # Ledger!Idle
             PROVE  TaskInvAt(q)'
  BY DEF TaskInvAt
<1>1. ApprovedBy(task[q].auth, task[q].checked)'
  BY ApprovalStays DEF TaskInvAt
<1>2. task[q].checked <= now'
  <2>1. task[q].checked \in Time
    BY DEF ExecutionTypes, Tasks
  <2> QED BY <2>1 DEF TaskInvAt, LedgerGoesOn, ExecutionTypes, Time, Ledger!ExecutionAssumption
<1>3. Running(q)' <=> Running(q)
  BY DEF Running
<1>4. Running(q) => \E u \in Ledger!Uses(task[q].auth)' :
                      ClaimedAfter(task[q].auth, task[q].checked, u)
  BY RowStays DEF TaskInvAt
<1>5. task[q].pc = "run" => \A c \in begun' : c.auth # task[q].auth
  BY DEF TaskInvAt
<1> QED BY <1>1, <1>2, <1>3, <1>4, <1>5 DEF TaskInvAt

(* A step of p to the job j that begins no execution.                       *)
LEMMA TaskStep ==
  ASSUME ExecutionInv, Ledger!ExecutionAssumption, LedgerGoesOn, ExecutionTypes', UNCHANGED begun,
         NEW p \in Process, NEW j, task' = [task EXCEPT ![p] = j], TaskInvAt(p)',
         j # Ledger!Idle /\ j.pc \in {"run", "complete"} =>
           \A q \in Process \ {p} : Running(q) => task[q].auth # j.auth
  PROVE  ExecutionInv'
<1>1. task'[p] = j /\ \A q \in Process \ {p} : task'[q] = task[q]
  BY DEF ExecutionInv, ExecutionTypes
<1>2. ASSUME NEW q \in Process \ {p}
      PROVE  TaskInvAt(q)'
  <2>1. ASSUME NEW r \in Process \ {q}, Running(q), Running(r)'
        PROVE  task'[r].auth # task[q].auth
    <3>1. CASE r = p
      BY <1>1, <1>2, <2>1, <3>1 DEF Running
    <3>2. CASE r # p
      BY <1>1, <2>1, <3>2 DEF ExecutionInv, TaskInvAt, Running
    <3> QED BY <3>1, <3>2
  <2> QED BY <1>1, <2>1, OtherTaskStays DEF ExecutionInv, ExecutionTypes
<1>3. \A b \in begun' : BegunInvAt(b)'
  BY ExecutionStays DEF ExecutionInv
<1> QED BY <1>2, <1>3 DEF ExecutionInv

(* A step that leaves all jobs alone.                                       *)
LEMMA OutsidersStep ==
  ASSUME ExecutionInv, Ledger!ExecutionAssumption, LedgerGoesOn, ExecutionTypes',
         UNCHANGED <<task, begun>>
  PROVE  ExecutionInv'
<1>1. \A q \in Process : TaskInvAt(q)'
  BY OtherTaskStays DEF ExecutionInv, ExecutionTypes, TaskInvAt, Running
<1>2. \A b \in begun' : BegunInvAt(b)'
  BY ExecutionStays DEF ExecutionInv
<1> QED BY <1>1, <1>2 DEF ExecutionInv

-----------------------------------------------------------------------------
(* The steps *)

LEMMA WithoutLedger ==
  ASSUME ExecutionTypes, given \subseteq given', now' \in Time, now <= now', UNCHANGED ledger
  PROVE  LedgerGoesOn
BY DEF LedgerGoesOn

LEMMA TimesAreNat == ASSUME Ledger!ExecutionAssumption PROVE MaxTime \in Nat /\ Time \subseteq Nat
BY DEF Ledger!ExecutionAssumption, Time

LEMMA ExecutionStart == ASSUME Ledger!Init, Ledger!ExecutionAssumption PROVE ExecutionInv
<1>1. IsFiniteSet(given)
  BY FS_EmptySet DEF Ledger!Init
<1>2. ExecutionTypes
  <2>1. now \in Time
    BY DEF Ledger!Init, Ledger!ExecutionAssumption, Time
  <2>2. task \in [Process -> Tasks \cup {Ledger!Idle}]
    BY DEF Ledger!Init
  <2> QED BY <1>1, <2>1, <2>2 DEF Ledger!Init, ExecutionTypes
<1>3. \A p \in Process : TaskInvAt(p)
  BY DEF Ledger!Init, TaskInvAt
<1> QED BY <1>2, <1>3 DEF Ledger!Init, ExecutionInv

LEMMA ApproveStep ==
  ASSUME ExecutionInv, Ledger!ExecutionAssumption, NEW r \in Request, NEW a \in Person,
         NEW t \in Time, Ledger!Approve(r, a, t)
  PROVE  ExecutionInv'
<1>1. IsFiniteSet(given')
  BY FS_AddElement DEF Ledger!Approve, ExecutionInv, ExecutionTypes
<1>2. now \in Nat /\ [req |-> r, by |-> a, at |-> t, cast |-> now] \in Ledger!Approval
  BY TimesAreNat DEF Ledger!Approval, ExecutionInv, ExecutionTypes, Time
<1>3. ExecutionTypes'
  BY <1>1, <1>2 DEF Ledger!Approve, ExecutionInv, ExecutionTypes
<1>4. LedgerGoesOn
  BY <1>2, WithoutLedger DEF Ledger!Approve, ExecutionInv, ExecutionTypes
<1> QED BY <1>3, <1>4, OutsidersStep DEF Ledger!Approve

LEMMA ClearStep ==
  ASSUME ExecutionInv, Ledger!ExecutionAssumption, Ledger!Clear
  PROVE  ExecutionInv'
<1>1. ExecutionTypes'
  BY DEF Ledger!Clear, ExecutionInv, ExecutionTypes
<1>2. LedgerGoesOn
  BY TimesAreNat, WithoutLedger DEF Ledger!Clear, ExecutionInv, ExecutionTypes
<1> QED BY <1>1, <1>2, OutsidersStep DEF Ledger!Clear

LEMMA TickStep ==
  ASSUME ExecutionInv, Ledger!ExecutionAssumption, Ledger!Tick
  PROVE  ExecutionInv'
<1>1. now \in Nat /\ now' \in Time /\ now <= now'
  BY TimesAreNat DEF Ledger!Tick, ExecutionInv, ExecutionTypes, Time
<1>2. (\A v \in given : v.cast \in Nat) /\ (\A u \in ledger : u.at \in Nat)
  BY TimesAreNat DEF ExecutionInv, ExecutionTypes, Ledger!Approval, Use
<1>3. ExecutionTypes'
  BY <1>1, <1>2 DEF Ledger!Tick, ExecutionInv, ExecutionTypes
<1>4. LedgerGoesOn
  BY <1>1, WithoutLedger DEF Ledger!Tick, ExecutionInv, ExecutionTypes
<1> QED BY <1>3, <1>4, OutsidersStep DEF Ledger!Tick

(* A step of a call that touches only its own job.                          *)
LEMMA QuietStep ==
  ASSUME ExecutionInv, Ledger!ExecutionAssumption, UNCHANGED <<now, given, ledger, dirty, begun>>,
         NEW p \in Process, NEW j \in Tasks \cup {Ledger!Idle},
         task' = [task EXCEPT ![p] = j], TaskInvAt(p)',
         j # Ledger!Idle /\ j.pc \in {"run", "complete"} => Running(p) /\ j.auth = task[p].auth
  PROVE  ExecutionInv'
<1>1. ExecutionTypes'
  BY DEF ExecutionInv, ExecutionTypes
<1>2. LedgerGoesOn
  BY TimesAreNat, WithoutLedger DEF ExecutionInv, ExecutionTypes
<1>3. j # Ledger!Idle /\ j.pc \in {"run", "complete"} =>
        \A q \in Process \ {p} : Running(q) => task[q].auth # j.auth
  BY DEF ExecutionInv, TaskInvAt, Running
<1> QED BY <1>1, <1>2, <1>3, TaskStep

LEMMA IdleStep ==
  ASSUME ExecutionInv, Ledger!ExecutionAssumption, UNCHANGED <<now, given, ledger, dirty, begun>>,
         NEW p \in Process, Ledger!Continue(p, Ledger!Idle)
  PROVE  ExecutionInv'
<1>1. TaskInvAt(p)'
  BY DEF Ledger!Continue, TaskInvAt, ExecutionInv, ExecutionTypes
<1> QED BY <1>1, QuietStep DEF Ledger!Continue

LEMMA PreflightStep ==
  ASSUME ExecutionInv, Ledger!ExecutionAssumption, NEW p \in Process,
         NEW a \in Ledger!Authorizations, Ledger!Preflight(p, a)
  PROVE  ExecutionInv'
<1>1. /\ a \in Authorization /\ Ledger!ApprovalsAreValid(a) /\ a.votes \subseteq given
      /\ expires[a.req] \in Nat /\ now \in Nat /\ now \in Time /\ Freshness \in Nat
  BY TimesAreNat DEF Ledger!Authorizations, Authorization, ExecutionInv, ExecutionTypes,
                     Ledger!ExecutionAssumption
<1>2. PICK until \in Nat :
        /\ until = IF now + Freshness < expires[a.req] THEN now + Freshness ELSE expires[a.req]
        /\ until <= now + Freshness /\ until <= expires[a.req]
  BY <1>1
<1>3. PICK j : j = [pc |-> "claim", auth |-> a, checked |-> now, until |-> until]
  OBVIOUS
<1>4. j \in Tasks /\ j.pc = "claim" /\ j.auth = a /\ j.checked = now /\ j.until = until
  BY <1>1, <1>3 DEF Tasks
<1>5. /\ task' = [task EXCEPT ![p] = j] /\ task'[p] = j
      /\ UNCHANGED <<now, given, ledger, dirty, begun>>
  BY <1>2, <1>3 DEF Ledger!Preflight, Ledger!Continue, ExecutionInv, ExecutionTypes
<1>6. ApprovedBy(a, now)'
  BY <1>1, <1>5 DEF ApprovedBy, Ledger!ApprovalsAreValid, Ledger!RequiredApprovals,
                    Ledger!InWindow, ExecutionInv, ExecutionTypes
<1>7. TaskInvAt(p)'
  BY <1>1, <1>2, <1>4, <1>5, <1>6 DEF TaskInvAt, Running
<1> QED BY <1>4, <1>5, <1>7, QuietStep

LEMMA TaskFacts ==
  ASSUME ExecutionInv, Ledger!ExecutionAssumption, NEW p \in Process, task[p] # Ledger!Idle
  PROVE  /\ task[p] \in Tasks /\ TaskInvAt(p) /\ task[p].auth \in Authorization
         /\ task[p].checked \in Nat /\ task[p].until \in Nat /\ now \in Nat
         /\ Freshness \in Nat /\ expires[task[p].auth.req] \in Nat
<1>1. task[p] \in Tasks /\ TaskInvAt(p)
  BY DEF ExecutionInv, ExecutionTypes
<1>2. task[p].auth.req \in Request
  BY <1>1 DEF Tasks, Authorization
<1> QED BY <1>1, <1>2, TimesAreNat DEF Tasks, ExecutionInv, ExecutionTypes,
                                       Ledger!ExecutionAssumption

LEMMA ClaimStep ==
  ASSUME ExecutionInv, Ledger!ExecutionAssumption, NEW p \in Process, Ledger!Claim(p)
  PROVE  ExecutionInv'
<1>1. task[p] # Ledger!Idle /\ task[p].pc = "claim"
  BY DEF Ledger!Claim, Ledger!At, Ledger!Idle
<1>2. CASE Ledger!Continue(p, Ledger!Idle) /\ UNCHANGED ledger
  BY <1>2, IdleStep DEF Ledger!Claim
<1>3. CASE /\ Ledger!ClaimIsTimely(p) /\ ~Ledger!UseIsRefused(task[p].auth)
           /\ ledger' = (ledger \ Ledger!Uses(task[p].auth))
                          \cup {[auth |-> task[p].auth, status |-> "claimed", at |-> now]}
           /\ Ledger!Continue(p, [task[p] EXCEPT !.pc = "run"])
  <2>1. PICK old \in Tasks : old = task[p] /\ old.pc = "claim" /\ TaskInvAt(p)
    BY <1>1, TaskFacts
  <2>2. PICK u : u = [auth |-> old.auth, status |-> "claimed", at |-> now]
    OBVIOUS
  <2>3. u \in Use /\ u.auth = old.auth /\ u.at = now /\ ledger' = ledger \cup {u}
    BY <1>3, <2>1, <2>2 DEF Use, Tasks, Ledger!UseIsRefused, ExecutionInv, ExecutionTypes
  <2>4. PICK j : j = [old EXCEPT !.pc = "run"]
    OBVIOUS
  <2>5. /\ j \in Tasks /\ j.pc = "run" /\ j.auth = old.auth /\ j.checked = old.checked
        /\ j.until = old.until
    BY <2>4 DEF Tasks
  <2>6. /\ task' = [task EXCEPT ![p] = j] /\ task'[p] = j
        /\ UNCHANGED <<now, given, dirty, begun>>
    BY <1>3, <2>1, <2>4 DEF Ledger!Continue, Ledger!Claim, ExecutionInv, ExecutionTypes
  <2>7. ExecutionTypes'
    BY <2>3, <2>5, <2>6, TimesAreNat DEF ExecutionInv, ExecutionTypes
  <2>8. LedgerGoesOn
    BY <2>3, <2>6, TimesAreNat DEF LedgerGoesOn, ExecutionInv, ExecutionTypes
  <2>9. Ledger!Uses(old.auth) = {} /\ u \in Ledger!Uses(old.auth)'
    BY <1>3, <2>1, <2>3 DEF Ledger!UseIsRefused, Ledger!Uses
  <2>10. \A q \in Process \ {p} : Running(q) => task[q].auth # old.auth
    BY <2>9 DEF ExecutionInv, TaskInvAt, Running
  <2>11. \A b \in begun : b.auth # old.auth
    BY <2>9 DEF ExecutionInv, BegunInvAt
  <2>12. ClaimedAfter(old.auth, old.checked, u)
    BY <1>1, <1>3, <2>1, <2>3, TaskFacts
       DEF Ledger!ClaimIsTimely, Ledger!InWindow, TaskInvAt, ClaimedAfter
  <2>13. ApprovedBy(old.auth, old.checked)' /\ old.checked <= now'
    BY <1>1, <2>1, <2>6, <2>8, ApprovalStays DEF TaskInvAt
  <2>14. TaskInvAt(p)'
    <3>1. \A q \in Process \ {p} : Running(q)' => task'[q].auth # old.auth
      BY <2>6, <2>10 DEF Running, ExecutionInv, ExecutionTypes
    <3>2. \E x \in Ledger!Uses(old.auth)' : ClaimedAfter(old.auth, old.checked, x)
      BY <2>9, <2>12
    <3>3. old.until <= old.checked + Freshness /\ old.until <= expires[old.auth.req]
      BY <1>1, <2>1 DEF TaskInvAt
    <3> QED BY <2>5, <2>6, <2>11, <2>13, <3>1, <3>2, <3>3 DEF TaskInvAt
  <2> QED BY <2>5, <2>6, <2>7, <2>8, <2>10, <2>14, TaskStep
<1> QED BY <1>2, <1>3 DEF Ledger!Claim

LEMMA CannotRunStep ==
  ASSUME ExecutionInv, Ledger!ExecutionAssumption, NEW p \in Process, Ledger!CannotRun(p)
  PROVE  ExecutionInv'
<1>1. PICK old \in Tasks : old = task[p] /\ old.pc = "run" /\ TaskInvAt(p) /\ old # Ledger!Idle
  BY TaskFacts DEF Ledger!CannotRun, Ledger!At, Ledger!Idle
<1>2. PICK j : j = [old EXCEPT !.pc = "complete"]
  OBVIOUS
<1>3. /\ j \in Tasks /\ j.pc = "complete" /\ j.auth = old.auth /\ j.checked = old.checked
      /\ j.until = old.until
  BY <1>2 DEF Tasks
<1>4. /\ task' = [task EXCEPT ![p] = j] /\ task'[p] = j
      /\ UNCHANGED <<now, given, ledger, dirty, begun>>
  BY <1>1, <1>2 DEF Ledger!CannotRun, Ledger!Continue, ExecutionInv, ExecutionTypes
<1>5. Running(p)
  BY <1>1 DEF Running
<1>6. TaskInvAt(p)'
  <2>1. ApprovedBy(old.auth, old.checked)' /\ Ledger!Uses(old.auth)' = Ledger!Uses(old.auth)
    BY <1>1, <1>4 DEF TaskInvAt, ApprovedBy, Ledger!ApprovalsAreValid,
                      Ledger!RequiredApprovals, Ledger!InWindow, Ledger!Uses
  <2>2. \A q \in Process \ {p} : Running(q)' => task'[q].auth # old.auth
    BY <1>1, <1>4, <1>5 DEF TaskInvAt, Running, ExecutionInv, ExecutionTypes
  <2>3. \E u \in Ledger!Uses(old.auth)' : ClaimedAfter(old.auth, old.checked, u)
    BY <1>1, <1>5, <2>1 DEF TaskInvAt
  <2> QED BY <1>1, <1>3, <1>4, <2>1, <2>2, <2>3 DEF TaskInvAt
<1> QED BY <1>1, <1>3, <1>4, <1>5, <1>6, QuietStep

LEMMA RunStep ==
  ASSUME ExecutionInv, Ledger!ExecutionAssumption, NEW p \in Process, Ledger!Run(p)
  PROVE  ExecutionInv'
<1>1. PICK old \in Tasks : old = task[p] /\ old.pc = "run" /\ TaskInvAt(p) /\ old # Ledger!Idle
  BY TaskFacts DEF Ledger!Run, Ledger!At, Ledger!Idle
<1>2. PICK j : j = [old EXCEPT !.pc = "complete"]
  OBVIOUS
<1>3. /\ j \in Tasks /\ j.pc = "complete" /\ j.auth = old.auth /\ j.checked = old.checked
      /\ j.until = old.until /\ j # Ledger!Idle
  BY <1>2 DEF Tasks, Ledger!Idle
<1>4. PICK b \in Execution :
        b = [auth |-> old.auth, by |-> p, at |-> now, checked |-> old.checked]
  BY DEF Execution, Tasks, ExecutionInv, ExecutionTypes
<1>5. /\ task' = [task EXCEPT ![p] = j] /\ task'[p] = j /\ begun' = begun \cup {b} /\ dirty' = TRUE
      /\ UNCHANGED <<now, given, ledger>> /\ \A q \in Process \ {p} : task'[q] = task[q]
  BY <1>1, <1>2, <1>4 DEF Ledger!Run, Ledger!Continue, ExecutionInv, ExecutionTypes
<1>6. ExecutionTypes'
  BY <1>3, <1>5 DEF ExecutionInv, ExecutionTypes
<1>7. LedgerGoesOn
  BY <1>5, TimesAreNat, WithoutLedger DEF ExecutionInv, ExecutionTypes
<1>8. /\ \A c \in begun : c.auth # old.auth
      /\ \A q \in Process \ {p} : Running(q) => task[q].auth # old.auth
      /\ \E u \in Ledger!Uses(old.auth) : ClaimedAfter(old.auth, old.checked, u)
      /\ ApprovedBy(old.auth, old.checked) /\ old.checked <= now
      /\ old.until <= old.checked + Freshness /\ old.until <= expires[old.auth.req]
  BY <1>1 DEF TaskInvAt, Running
<1>9. ApprovedBy(old.auth, old.checked)' /\ Ledger!Uses(old.auth)' = Ledger!Uses(old.auth)
  BY <1>5, <1>7, <1>8, ApprovalStays DEF Ledger!Uses
<1>10. TaskInvAt(p)'
  <2>1. \A q \in Process \ {p} : Running(q)' => task'[q].auth # old.auth
    BY <1>5, <1>8 DEF Running
  <2> QED BY <1>3, <1>5, <1>8, <1>9, <2>1 DEF TaskInvAt
<1>11. ASSUME NEW q \in Process \ {p}
       PROVE  TaskInvAt(q)'
  <2>1. \A r \in Process \ {q} : Running(q) /\ Running(r)' => task'[r].auth # task[q].auth
    BY <1>1, <1>3, <1>5, <1>8 DEF Running, ExecutionInv, TaskInvAt
  <2>2. CASE Running(q)
    BY <1>4, <1>5, <1>6, <1>7, <1>8, <1>11, <2>1, <2>2, OtherTaskStays
       DEF ExecutionInv, ExecutionTypes
  <2>3. CASE ~Running(q)
    <3>1. TaskInvAt(q) /\ task'[q] = task[q]
      BY <1>5, <1>11 DEF ExecutionInv
    <3>2. task[q] # Ledger!Idle => ApprovedBy(task[q].auth, task[q].checked)'
      BY <1>7, <3>1, ApprovalStays DEF TaskInvAt
    <3>3. task[q] # Ledger!Idle => task[q].pc # "run"
      BY <2>3 DEF Running
    <3> QED BY <1>5, <2>3, <3>1, <3>2, <3>3 DEF TaskInvAt, Running
  <2> QED BY <2>2, <2>3
<1>12. BegunInvAt(b)'
  <2>1. \A u \in ledger : u.at <= now
    BY DEF ExecutionInv, ExecutionTypes
  <2>2. \E u \in Ledger!Uses(b.auth)' : ClaimedAfter(b.auth, b.checked, u) /\ u.at <= b.at
    BY <1>4, <1>8, <1>9, <2>1 DEF Ledger!Uses
  <2>3. \A c \in begun' : c.auth = b.auth => c = b
    BY <1>4, <1>5, <1>8
  <2> QED BY <1>4, <1>9, <2>2, <2>3 DEF BegunInvAt
<1>13. \A c \in begun : BegunInvAt(c)'
  BY <1>4, <1>5, <1>7, <1>8, ExecutionStays DEF ExecutionInv
<1> QED BY <1>5, <1>6, <1>10, <1>11, <1>12, <1>13 DEF ExecutionInv

LEMMA CompletionStep ==
  ASSUME ExecutionInv, Ledger!ExecutionAssumption, NEW p \in Process, Ledger!Complete(p)
  PROVE  ExecutionInv'
<1>1. PICK u \in Ledger!Uses(task[p].auth), done \in {"completed", "failed"} :
        ledger' = (ledger \ {u}) \cup {[u EXCEPT !.status = done]}
  BY DEF Ledger!Complete
<1>2. PICK x : x = [u EXCEPT !.status = done]
  OBVIOUS
<1>3. u \in ledger /\ u \in Use /\ x \in Use /\ x.auth = u.auth /\ x.at = u.at
  BY <1>1, <1>2 DEF Ledger!Uses, Use, ExecutionInv, ExecutionTypes
<1>4. /\ UNCHANGED <<now, given, dirty, begun>> /\ task' = [task EXCEPT ![p] = Ledger!Idle]
      /\ task'[p] = Ledger!Idle
  BY DEF Ledger!Complete, Ledger!Continue, ExecutionInv, ExecutionTypes
<1>5. ExecutionTypes'
  BY <1>1, <1>2, <1>3, <1>4 DEF ExecutionInv, ExecutionTypes
<1>6. LedgerGoesOn
  <2>1. \A y \in ledger : y # u => y \in ledger'
    BY <1>1
  <2>2. x \in ledger'
    BY <1>1, <1>2
  <2>3. now <= now'
    BY <1>4, TimesAreNat DEF ExecutionInv, ExecutionTypes
  <2> QED BY <1>3, <1>4, <2>1, <2>2, <2>3 DEF LedgerGoesOn
<1>7. TaskInvAt(p)'
  BY <1>4 DEF TaskInvAt
<1> QED BY <1>4, <1>5, <1>6, <1>7, TaskStep

LEMMA ExecutionStep ==
  ASSUME ExecutionInv, Ledger!ExecutionAssumption, [Ledger!Next]_(Ledger!vars)
  PROVE  ExecutionInv'
<1>1. CASE \E r \in Request, a \in Person, t \in Time : Ledger!Approve(r, a, t)
  BY <1>1, ApproveStep
<1>2. CASE Ledger!Clear \/ Ledger!Tick
  BY <1>2, ClearStep, TickStep
<1>3. ASSUME NEW p \in Process,
             (\E a \in Ledger!Authorizations : Ledger!Preflight(p, a)) \/ Ledger!Claim(p)
              \/ Ledger!Run(p) \/ Ledger!CannotRun(p)
      PROVE  ExecutionInv'
  BY <1>3, PreflightStep, ClaimStep, RunStep, CannotRunStep
<1>4. ASSUME NEW p \in Process, Ledger!Complete(p) \/ Ledger!Stop(p)
      PROVE  ExecutionInv'
  BY <1>4, CompletionStep, IdleStep DEF Ledger!Stop
<1>5. CASE UNCHANGED Ledger!vars
  <2>1. ExecutionTypes'
    BY <1>5 DEF Ledger!vars, ExecutionInv, ExecutionTypes
  <2>2. LedgerGoesOn
    BY <1>5, TimesAreNat, WithoutLedger DEF Ledger!vars, ExecutionInv, ExecutionTypes
  <2> QED BY <1>5, <2>1, <2>2, OutsidersStep DEF Ledger!vars
<1> QED BY <1>1, <1>2, <1>3, <1>4, <1>5 DEF Ledger!Next, Time

-----------------------------------------------------------------------------

(* preflight, claim, run and complete of the adapters: however processes    *)
(* race, stop or fail, each row and each job in progress keeps what its     *)
(* preflight has seen.                                                      *)
THEOREM ExecutionInvariant ==
  ASSUME Ledger!ExecutionAssumption
  PROVE  Ledger!Spec => []ExecutionInv
<1>1. Ledger!Init => ExecutionInv
  BY ExecutionStart
<1>2. ExecutionInv /\ [Ledger!Next]_(Ledger!vars) => ExecutionInv'
  BY ExecutionStep
<1> QED BY <1>1, <1>2, PTL DEF Ledger!Spec

(* As many others as it takes have given the votes for a, in time.          *)
LEMMA VotesCount ==
  ASSUME ExecutionTypes, NEW a, NEW t, ApprovedBy(a, t)
  PROVE  Ledger!Cardinality({v.by : v \in {w \in a.votes :
            /\ w.req = a.req /\ w.cast <= t /\ Ledger!InWindow(w.req, w.at)
            /\ w.by # requester[a.req]}})
           >= Ledger!RequiredApprovals(a.req)
<1>1. {w \in a.votes : /\ w.req = a.req /\ w.cast <= t /\ Ledger!InWindow(w.req, w.at)
                       /\ w.by # requester[a.req]} = a.votes
  BY DEF ApprovedBy, Ledger!ApprovalsAreValid
<1>2. /\ Ledger!Cardinality(a.votes) >= Ledger!RequiredApprovals(a.req)
      /\ Ledger!Cardinality({v.by : v \in a.votes}) = Ledger!Cardinality(a.votes)
  BY DEF ApprovedBy, Ledger!ApprovalsAreValid
<1> QED BY <1>1, <1>2

(* The one-use ledger: for any number of processes that race for it, what   *)
(* an authorization allows begins once, soon after a preflight of that      *)
(* request, and on as many approvals of others, given by then and as of a   *)
(* time in the window, as it takes.                                         *)
THEOREM ExecutionsWereAuthorized ==
  ASSUME Ledger!ExecutionAssumption
  PROVE  Ledger!Spec => []Ledger!ExecutionsAreAuthorized
<1>1. ExecutionInv => Ledger!ExecutionsAreAuthorized
  <2> SUFFICES ASSUME ExecutionInv, NEW b \in begun
               PROVE  /\ \A c \in begun : c.auth = b.auth => c = b
                      /\ \E u \in Ledger!Uses(b.auth) :
                           ClaimedAfter(b.auth, b.checked, u) /\ u.at <= b.at
                      /\ ApprovedBy(b.auth, b.checked)
    BY VotesCount DEF Ledger!ExecutionsAreAuthorized, ClaimedAfter, ExecutionInv
  <2> QED BY DEF ExecutionInv, BegunInvAt
<1> QED BY <1>1, ExecutionInvariant, PTL

-----------------------------------------------------------------------------
(***************************************************************************)
(* The lineage of a continual agent (ContinualAgent), for any snapshots,   *)
(* results, callers and gate.  A call in progress knows whose place its    *)
(* candidate takes, which is so as long as the revision that it read; the  *)
(* activations are numbered without a gap and each names its parent.       *)
(***************************************************************************)
CONSTANTS Snapshot, Initial, parent, Role, Task, roleOf, Retention, Results,
          MinGain, MaxDrop, MaxRegressions, SafetyIsRequired, MaxSafetyGrowth, MaxToolGrowth,
          NoRecord
VARIABLES result, record, tip, activated

Agent == INSTANCE ContinualAgent WITH head <- tip, job <- task

LEMMA AgentSets ==
  ASSUME NEW S
  PROVE  Agent!Cardinality(S) = Cardinality(S) /\ (Agent!IsFiniteSet(S) <=> IsFiniteSet(S))
BY DEF Agent!Cardinality, Agent!IsFiniteSet, Cardinality, IsFiniteSet

Tips == [active : Snapshot, rev : Nat]
Targets == SUBSET Role \ {{}}

(* Some caller may find s eligible, or not.                                 *)
Supported(s) == \E roles \in Targets : Agent!Eligible(s, roles)
Opposed(s) == \E roles \in Targets : ~Agent!Eligible(s, roles)

LineageTypes ==
  /\ record \in [Snapshot -> {NoRecord, "candidate", "active", "rejected", "superseded"}]
  /\ tip \in Tips \cup {NoRecord}
  /\ activated \subseteq [s : Agent!Candidates, at : Nat] /\ IsFiniteSet(activated)
  /\ task = [p \in Process |-> task[p]]

(* An activation follows from the one before it.                            *)
FollowsInv(a) ==
  /\ a.at \in 1 .. tip.rev
  /\ a.at = 1 => parent[a.s] = Initial
  /\ a.at > 1 => [s |-> parent[a.s], at |-> a.at - 1] \in activated
  /\ Supported(a.s)

LineageInv ==
  tip # NoRecord =>
    /\ Cardinality(activated) = tip.rev
    /\ \A a, b \in activated : a.at = b.at => a = b
    /\ \A n \in 1 .. tip.rev : \E a \in activated : a.at = n
    /\ IF tip.rev = 0 THEN tip.active = Initial
       ELSE [s |-> tip.active, at |-> tip.rev] \in activated
    /\ \A a \in activated : FollowsInv(a)

RowInv ==
  tip # NoRecord =>
    /\ \/ record[tip.active] = "active"
       \/ record[tip.active] = "rejected" /\ tip.active # Initial /\ Opposed(tip.active)
    /\ \A s \in Snapshot : record[s] = "active" => s = tip.active

EmptyInv ==
  tip = NoRecord => activated = {} /\ \A s \in Snapshot : record[s] = NoRecord

Passes(s) == result[s].passes
KeptInv ==
  MaxRegressions = 0 /\ tip # NoRecord =>
    \A a \in activated : Passes(parent[a.s]) \cup Passes(a.s) \subseteq Passes(tip.active)

(* What a call in progress has seen, and is so as long as the revision is.  *)
CallIs(j) ==
  j # Agent!Idle =>
    /\ tip # NoRecord /\ {"pc", "s"} \subseteq DOMAIN j
    /\ \E s \in Agent!Candidates :
         /\ j.s = s
         /\ j.pc \in {"activate", "commit"} =>
              j.rev \in Nat /\ j.rev <= tip.rev /\ (j.ok => Supported(s))
         /\ j.pc = "commit" =>
              j.ok /\ (j.rev = tip.rev => j.from = tip.active /\ parent[s] = tip.active)
         /\ j.pc \in {"reject", "replace"} => Opposed(s)

CallsInv == \A p \in Process : CallIs(task[p])

FoundInv == result \in [Snapshot -> Results]

AgentInv ==
  FoundInv /\ LineageTypes /\ LineageInv /\ RowInv /\ EmptyInv /\ KeptInv /\ CallsInv

-----------------------------------------------------------------------------
LEMMA SameVerdicts ==
  ASSUME NEW s, NEW roles, result' = result
  PROVE Agent!Eligible(s, roles)' <=> Agent!Eligible(s, roles)
<1>1. Agent!RoleScore(s, Retention)' = Agent!RoleScore(s, Retention)
  BY DEF Agent!RoleScore
<1>2. Agent!RoleScore(parent[s], Retention)' = Agent!RoleScore(parent[s], Retention)
  BY DEF Agent!RoleScore
<1>3. Agent!TargetScore(s, roles)' = Agent!TargetScore(s, roles)
  BY DEF Agent!TargetScore, Agent!RoleScore, Agent!MapThenSumSet, Agent!MapThenFoldSet
<1>4. Agent!TargetScore(parent[s], roles)' = Agent!TargetScore(parent[s], roles)
  BY DEF Agent!TargetScore, Agent!RoleScore, Agent!MapThenSumSet, Agent!MapThenFoldSet
<1>5. Agent!GainIsMissed(s, roles)' <=> Agent!GainIsMissed(s, roles)
  BY <1>3, <1>4 DEF Agent!GainIsMissed
<1>6. Agent!RetentionDrops(s)' <=> Agent!RetentionDrops(s)
  BY <1>1, <1>2 DEF Agent!RetentionDrops
<1>7. Agent!TasksRegress(s)' <=> Agent!TasksRegress(s)
  BY DEF Agent!TasksRegress, Agent!Regressions
<1>8. /\ Agent!SafetyIsViolated(s)' <=> Agent!SafetyIsViolated(s)
      /\ Agent!ToolsGrow(s)' <=> Agent!ToolsGrow(s)
  BY DEF Agent!SafetyIsViolated, Agent!ToolsGrow
<1> QED BY <1>5, <1>6, <1>7, <1>8 DEF Agent!Eligible

LEMMA SameSupport ==
  ASSUME NEW s, result' = result
  PROVE  (Supported(s)' <=> Supported(s)) /\ (Opposed(s)' <=> Opposed(s))
BY SameVerdicts DEF Supported, Opposed

TipGoesOn ==
  tip # NoRecord =>
    /\ tip' # NoRecord /\ tip'.rev >= tip.rev
    /\ tip'.rev = tip.rev => tip' = tip

LEMMA CallGoesOn ==
  ASSUME NEW j, CallIs(j), TipGoesOn, LineageTypes, LineageTypes', result' = result
  PROVE  CallIs(j)'
<1> SUFFICES ASSUME j # Agent!Idle PROVE CallIs(j)'
  BY DEF CallIs
<1>1. PICK s \in Agent!Candidates : 
         /\ j.s = s
         /\ j.pc \in {"activate", "commit"} =>
              j.rev \in Nat /\ j.rev <= tip.rev /\ (j.ok => Supported(s))
         /\ j.pc = "commit" =>
              j.ok /\ (j.rev = tip.rev => j.from = tip.active /\ parent[s] = tip.active)
         /\ j.pc \in {"reject", "replace"} => Opposed(s)
  BY DEF CallIs
<1>2. tip \in Tips /\ tip' \in Tips /\ tip'.rev >= tip.rev
      /\ (tip'.rev = tip.rev => tip' = tip) /\ tip' # NoRecord
  BY DEF CallIs, TipGoesOn, LineageTypes
<1>3. (Supported(s)' <=> Supported(s)) /\ (Opposed(s)' <=> Opposed(s))
  BY SameSupport
<1>4. tip.rev \in Nat /\ tip'.rev \in Nat
  BY <1>2 DEF Tips
<1> QED BY <1>1, <1>2, <1>3, <1>4 DEF CallIs

LEMMA CallsGoOn ==
  ASSUME AgentInv, TipGoesOn, LineageTypes', result' = result, NEW p \in Process, NEW j,
         task' = [task EXCEPT ![p] = j], CallIs(j)'
  PROVE  CallsInv'
<1> SUFFICES ASSUME NEW q \in Process PROVE CallIs(task[q])'
  BY DEF CallsInv
<1>1. PICK k : k = task[q]
  OBVIOUS
<1>2. CallIs(k)'
  BY <1>1, CallGoesOn DEF AgentInv, CallsInv
<1>3. task'[q] = IF q = p THEN j ELSE k
  BY <1>1 DEF AgentInv, LineageTypes
<1> QED BY <1>2, <1>3 DEF CallIs

LEMMA LineageGoesOn ==
  ASSUME AgentInv, UNCHANGED <<result, tip, activated>>
  PROVE  FoundInv' /\ LineageInv' /\ KeptInv'
<1>1. \A s : Supported(s)' <=> Supported(s)
  BY SameSupport
<1>2. FoundInv' /\ KeptInv'
  BY DEF AgentInv, FoundInv, KeptInv, Passes
<1>3. \A a \in activated : FollowsInv(a) => FollowsInv(a)'
  BY <1>1 DEF FollowsInv
<1> QED BY <1>2, <1>3 DEF AgentInv, LineageInv

LEMMA SameRows ==
  ASSUME RowInv, EmptyInv, UNCHANGED <<result, record, tip, activated>>
  PROVE  RowInv' /\ EmptyInv'
<1>1. PICK h : h = tip
  OBVIOUS
<1>2. Opposed(h.active)' <=> Opposed(h.active)
  BY SameSupport
<1> QED BY <1>1, <1>2 DEF RowInv, EmptyInv

(* A step that leaves all rows alone.                                       *)
LEMMA CallOnlyStep ==
  ASSUME AgentInv, NEW p \in Process, NEW j, task' = [task EXCEPT ![p] = j],
         UNCHANGED <<result, record, tip, activated>>, CallIs(j)
  PROVE  AgentInv'
<1>1. LineageTypes'
  BY DEF AgentInv, LineageTypes
<1>2. TipGoesOn
  BY DEF AgentInv, LineageTypes, TipGoesOn, Tips
<1>3. CallIs(j)'
  BY <1>1, <1>2, CallGoesOn DEF AgentInv
<1>4. CallsInv'
  BY <1>1, <1>2, <1>3, CallsGoOn
<1>5. RowInv' /\ EmptyInv'
  BY SameRows DEF AgentInv
<1> QED BY <1>1, <1>4, <1>5, LineageGoesOn DEF AgentInv

LEMMA ActiveRowIsThere ==
  ASSUME AgentInv, Agent!ContinualAssumption, tip # NoRecord
  PROVE  tip.active \in Snapshot /\ tip.rev \in Nat /\ Agent!Registered(tip.active)
BY DEF AgentInv, LineageTypes, RowInv, Agent!ContinualAssumption, Tips, Agent!Registered

(* One that sets the state of one row, which is not the active one.         *)
LEMMA RowStep ==
  ASSUME AgentInv, Agent!ContinualAssumption, NEW p \in Process, NEW j,
         task' = [task EXCEPT ![p] = j],
         UNCHANGED <<result, tip, activated>>, CallIs(j), tip # NoRecord,
         NEW s \in Snapshot, NEW state \in {"candidate", "rejected"},
         record' = [record EXCEPT ![s] = state],
         s # tip.active \/ (state = "rejected" /\ Opposed(s)), s # Initial
  PROVE  AgentInv'
<1>1. LineageTypes'
  BY DEF AgentInv, LineageTypes
<1>2. TipGoesOn
  BY ActiveRowIsThere DEF TipGoesOn
<1>3. CallIs(j)'
  BY <1>1, <1>2, CallGoesOn DEF AgentInv
<1>4. CallsInv'
  BY <1>1, <1>2, <1>3, CallsGoOn
<1>5. RowInv' /\ EmptyInv'
  <2>1. PICK h : h = tip.active
    OBVIOUS
  <2>2. (Opposed(h)' <=> Opposed(h)) /\ (Opposed(s)' <=> Opposed(s))
    BY SameSupport
  <2>3. record'[s] = state /\ \A r \in Snapshot \ {s} : record'[r] = record[r]
    BY DEF AgentInv, LineageTypes
  <2>4. h \in Snapshot /\ h = tip'.active /\ tip' # NoRecord
    BY <2>1, ActiveRowIsThere
  <2>5. record'[h] = "active" \/ (record'[h] = "rejected" /\ h # Initial /\ Opposed(h)')
    BY <2>1, <2>2, <2>3, <2>4 DEF AgentInv, RowInv
  <2>6. \A r \in Snapshot : record'[r] = "active" => r = h
    BY <2>1, <2>3 DEF AgentInv, RowInv
  <2> QED BY <2>4, <2>5, <2>6 DEF RowInv, EmptyInv
<1> QED BY <1>1, <1>4, <1>5, LineageGoesOn DEF AgentInv

-----------------------------------------------------------------------------
(* The steps *)

LEMMA AgentStart == ASSUME Agent!Init, Agent!ContinualAssumption PROVE AgentInv
<1>1. LineageTypes /\ FoundInv
  BY FS_EmptySet DEF Agent!Init, LineageTypes, FoundInv
<1> QED BY <1>1 DEF Agent!Init, AgentInv, LineageInv, RowInv, EmptyInv, KeptInv, CallsInv,
   CallIs

LEMMA NobodyWorks ==
  ASSUME AgentInv, tip = NoRecord, NEW p \in Process
  PROVE  task[p] = Agent!Idle
BY DEF AgentInv, CallsInv, CallIs

LEMMA RegisterInitialStep ==
  ASSUME AgentInv, Agent!ContinualAssumption, Agent!RegisterInitial
  PROVE  AgentInv'
<1>1. /\ tip' = [active |-> Initial, rev |-> 0] /\ tip' \in Tips /\ tip' # NoRecord
      /\ Initial \in Snapshot
  BY DEF Agent!RegisterInitial, Agent!ContinualAssumption, Tips
<1>2. LineageTypes'
  BY <1>1 DEF AgentInv, LineageTypes, Agent!RegisterInitial
<1>3. activated' = {} /\ Cardinality({}) = 0
  BY FS_EmptySet DEF AgentInv, EmptyInv, Agent!RegisterInitial
<1>4. FoundInv' /\ LineageInv' /\ KeptInv'
  BY <1>1, <1>3 DEF AgentInv, FoundInv, LineageInv, KeptInv, Agent!RegisterInitial
<1>5. RowInv' /\ EmptyInv'
  BY <1>1 DEF AgentInv, LineageTypes, RowInv, EmptyInv, Agent!RegisterInitial,
     Agent!ContinualAssumption
<1>6. CallsInv'
  BY NobodyWorks DEF CallsInv, CallIs, Agent!RegisterInitial
<1> QED BY <1>2, <1>4, <1>5, <1>6 DEF AgentInv

LEMMA ReadParentStep ==
  ASSUME AgentInv, Agent!ContinualAssumption, NEW p \in Process,
         NEW s \in Agent!Candidates, Agent!ReadParent(p, s)
  PROVE  AgentInv'
<1>1. CallIs([pc |-> "register", s |-> s, saw |-> tip])
  BY DEF CallIs, Agent!ReadParent
<1> QED BY <1>1, CallOnlyStep DEF Agent!ReadParent, Agent!Continue

LEMMA NoCall == CallIs(Agent!Idle)
BY DEF CallIs

LEMMA CallOf ==
  ASSUME AgentInv, NEW p \in Process, NEW j, j = task[p], j # Agent!Idle
  PROVE  /\ CallIs(j) /\ tip # NoRecord /\ j.s \in Agent!Candidates
         /\ {"pc", "s"} \subseteq DOMAIN j
BY DEF AgentInv, CallsInv, CallIs

LEMMA Busy ==
  ASSUME NEW p,
         NEW pc \in {"register", "check", "decide", "activate", "commit", "reject", "replace"},
         Agent!At(p, pc)
  PROVE  task[p] # Agent!Idle /\ task[p].pc = pc
BY DEF Agent!At, Agent!Idle

LEMMA RegisterCandidateStep ==
  ASSUME AgentInv, Agent!ContinualAssumption, NEW p \in Process, Agent!RegisterCandidate(p)
  PROVE  AgentInv'
<1>1. PICK j : j = task[p]
  OBVIOUS
<1>2. j # Agent!Idle /\ j.pc = "register"
  BY <1>1, Busy DEF Agent!RegisterCandidate
<1>3. tip # NoRecord /\ j.s \in Agent!Candidates /\ {"pc", "s"} \subseteq DOMAIN j
  BY <1>1, <1>2, CallOf
<1>4. CASE Agent!Registered(j.s)
  <2>1. CallIs([pc |-> "decide", s |-> j.s])
    BY <1>3 DEF CallIs
  <2>2. \/ task' = [task EXCEPT ![p] = [pc |-> "decide", s |-> j.s]]
        \/ task' = [task EXCEPT ![p] = Agent!Idle]
    BY <1>1, <1>4 DEF Agent!RegisterCandidate, Agent!Continue, Agent!Leave
  <2>3. UNCHANGED <<result, record, tip, activated>>
    BY <1>1, <1>4 DEF Agent!RegisterCandidate
  <2> QED BY <2>1, <2>2, <2>3, NoCall, CallOnlyStep
<1>5. CASE ~Agent!Registered(j.s)
  <2>1. PICK k : k = [j EXCEPT !.pc = "check"]
    OBVIOUS
  <2>2. k.s = j.s /\ k.pc = "check" /\ DOMAIN k = DOMAIN j
    BY <1>1, <1>2, <2>1, CallOf
  <2>3. CallIs(k)
    BY <1>3, <2>2 DEF CallIs
  <2>4. task' = [task EXCEPT ![p] = k] /\ record' = [record EXCEPT ![j.s] = "candidate"]
    BY <1>1, <1>5, <2>1 DEF Agent!RegisterCandidate, Agent!Continue
  <2>5. j.s \in Snapshot \ {Initial} /\ j.s # tip.active
    BY <1>3, <1>5, ActiveRowIsThere DEF Agent!Candidates
  <2> QED BY <1>3, <2>3, <2>4, <2>5, RowStep DEF Agent!RegisterCandidate
<1> QED BY <1>4, <1>5

LEMMA CheckTipStep ==
  ASSUME AgentInv, Agent!ContinualAssumption, NEW p \in Process, Agent!CheckHead(p)
  PROVE  AgentInv'
<1>1. PICK j : j = task[p]
  OBVIOUS
<1>2. j # Agent!Idle /\ tip # NoRecord /\ j.s \in Agent!Candidates
  BY <1>1, Busy, CallOf DEF Agent!CheckHead
<1>3. CallIs([pc |-> "decide", s |-> j.s])
  BY <1>2 DEF CallIs
<1>4. \/ task' = [task EXCEPT ![p] = [pc |-> "decide", s |-> j.s]]
      \/ task' = [task EXCEPT ![p] = Agent!Idle]
  BY <1>1 DEF Agent!CheckHead, Agent!Continue, Agent!Leave
<1> QED BY <1>3, <1>4, NoCall, CallOnlyStep DEF Agent!CheckHead

LEMMA DecisionStep ==
  ASSUME AgentInv, Agent!ContinualAssumption, NEW p \in Process, Agent!Decide(p)
  PROVE  AgentInv'
<1>1. PICK j : j = task[p]
  OBVIOUS
<1>2. tip # NoRecord /\ j.s \in Agent!Candidates
  BY <1>1, Busy, CallOf DEF Agent!Decide
<1>3. tip.rev \in Nat
  BY <1>2, ActiveRowIsThere
<1>4. PICK roles \in Targets :
        task' = [task EXCEPT ![p] =
          [pc |-> IF Agent!Eligible(j.s, roles) THEN "activate" ELSE "reject",
           s |-> j.s, ok |-> Agent!Eligible(j.s, roles), rev |-> tip.rev]]
  BY <1>1 DEF Agent!Decide, Agent!Continue, Targets
<1>5. PICK k : k = [pc |-> IF Agent!Eligible(j.s, roles) THEN "activate" ELSE "reject",
                    s |-> j.s, ok |-> Agent!Eligible(j.s, roles), rev |-> tip.rev]
  OBVIOUS
<1>6. CallIs(k)
  <2>1. CASE Agent!Eligible(j.s, roles)
    <3>1. k.pc = "activate" /\ k.s = j.s /\ k.rev = tip.rev /\ {"pc", "s"} \subseteq DOMAIN k
      BY <1>5, <2>1
    <3> QED BY <1>2, <1>3, <2>1, <3>1 DEF CallIs, Supported
  <2>2. CASE ~Agent!Eligible(j.s, roles)
    <3>1. k.pc = "reject" /\ k.s = j.s /\ {"pc", "s"} \subseteq DOMAIN k
      BY <1>5, <2>2
    <3> QED BY <1>2, <2>2, <3>1 DEF CallIs, Opposed
  <2> QED BY <2>1, <2>2
<1> QED BY <1>4, <1>5, <1>6, CallOnlyStep DEF Agent!Decide

LEMMA ReadCandidateStep ==
  ASSUME AgentInv, Agent!ContinualAssumption, NEW p \in Process, Agent!ReadCandidate(p)
  PROVE  AgentInv'
<1>1. PICK j : j = task[p]
  OBVIOUS
<1>2. /\ tip # NoRecord /\ j.s \in Agent!Candidates /\ j # Agent!Idle /\ j.pc = "activate"
      /\ CallIs(j)
  BY <1>1, Busy, CallOf DEF Agent!ReadCandidate
<1>3. CASE ~Agent!MayActivate(p)
  BY <1>1, <1>3, NoCall, CallOnlyStep DEF Agent!ReadCandidate, Agent!Leave, Agent!Continue
<1>4. CASE Agent!MayActivate(p)
  <2>1. PICK k : k = [pc |-> "commit", s |-> j.s, ok |-> j.ok, rev |-> j.rev,
                      from |-> tip.active]
    OBVIOUS
  <2>2. /\ k.pc = "commit" /\ k.s = j.s /\ k.ok = j.ok /\ k.rev = j.rev
        /\ k.from = tip.active /\ {"pc", "s"} \subseteq DOMAIN k
    BY <2>1
  <2>3. task' = [task EXCEPT ![p] = k]
    BY <1>1, <1>4, <2>1 DEF Agent!ReadCandidate, Agent!Continue
  <2>4. j.ok /\ parent[j.s] = tip.active
    BY <1>1, <1>4 DEF Agent!MayActivate
  <2>5. CallIs(k)
    BY <1>2, <2>2, <2>4 DEF CallIs
  <2> QED BY <2>3, <2>5, CallOnlyStep DEF Agent!ReadCandidate
<1> QED BY <1>3, <1>4

LEMMA ReadRejectedStep ==
  ASSUME AgentInv, Agent!ContinualAssumption, NEW p \in Process, Agent!ReadRejected(p)
  PROVE  AgentInv'
<1>1. PICK j : j = task[p]
  OBVIOUS
<1>2. /\ tip # NoRecord /\ j.s \in Agent!Candidates /\ {"pc", "s"} \subseteq DOMAIN j
      /\ j # Agent!Idle /\ j.pc = "reject" /\ CallIs(j)
  BY <1>1, Busy, CallOf DEF Agent!ReadRejected
<1>3. PICK k : k = [j EXCEPT !.pc = "replace"]
  OBVIOUS
<1>4. k.pc = "replace" /\ k.s = j.s /\ DOMAIN k = DOMAIN j
  BY <1>2, <1>3
<1>5. CallIs(k)
  BY <1>2, <1>4 DEF CallIs
<1>6. task' = [task EXCEPT ![p] = k] \/ task' = [task EXCEPT ![p] = Agent!Idle]
  BY <1>1, <1>3 DEF Agent!ReadRejected, Agent!Continue, Agent!Leave
<1> QED BY <1>5, <1>6, NoCall, CallOnlyStep DEF Agent!ReadRejected

LEMMA RejectStep ==
  ASSUME AgentInv, Agent!ContinualAssumption, NEW p \in Process, Agent!Reject(p)
  PROVE  AgentInv'
<1>1. PICK j : j = task[p]
  OBVIOUS
<1>2. /\ tip # NoRecord /\ j.s \in Snapshot \ {Initial} /\ j # Agent!Idle /\ j.pc = "replace"
      /\ CallIs(j)
  BY <1>1, Busy, CallOf DEF Agent!Reject, Agent!Candidates
<1>3. Opposed(j.s)
  BY <1>2 DEF CallIs
<1>4. /\ record' = [record EXCEPT ![j.s] = "rejected"]
      /\ task' = [task EXCEPT ![p] = Agent!Idle]
      /\ UNCHANGED <<result, tip, activated>>
  BY <1>1 DEF Agent!Reject, Agent!Leave, Agent!Continue
<1> QED BY <1>2, <1>3, <1>4, NoCall, RowStep

LEMMA StopStep ==
  ASSUME AgentInv, Agent!ContinualAssumption, NEW p \in Process, Agent!Stop(p)
  PROVE  AgentInv'
BY NoCall, CallOnlyStep DEF Agent!Stop, Agent!Leave, Agent!Continue

(* A gate that allows no regression lets nothing be lost.                   *)
LEMMA NothingRegresses ==
  ASSUME FoundInv, Agent!ContinualAssumption, MaxRegressions = 0,
         NEW s \in Snapshot, Supported(s)
  PROVE  Passes(parent[s]) \subseteq Passes(s)
<1>1. result[parent[s]].passes \in SUBSET Task
  BY DEF FoundInv, Agent!ContinualAssumption
<1>2. IsFiniteSet(Agent!Regressions(s))
  BY <1>1, FS_Subset, AgentSets DEF Agent!Regressions, Agent!ContinualAssumption
<1>3. ~(Cardinality(Agent!Regressions(s)) > 0)
  BY AgentSets DEF Supported, Agent!Eligible, Agent!TasksRegress
<1>4. Cardinality(Agent!Regressions(s)) = 0
  BY <1>2, <1>3, FS_CardinalityType
<1>5. Agent!Regressions(s) = {}
  BY <1>2, <1>4, FS_EmptySet
<1> QED BY <1>5 DEF Agent!Regressions, Passes

Activated(s) ==
  /\ tip' = [active |-> s, rev |-> tip.rev + 1]
  /\ activated' = activated \cup {[s |-> s, at |-> tip.rev + 1]}

LEMMA ActivationIsCounted ==
  ASSUME AgentInv, Agent!ContinualAssumption, tip # NoRecord, result' = result,
         NEW s \in Agent!Candidates,
         Activated(s), tip.active = parent[s], Supported(s)
  PROVE  /\ LineageInv' /\ IsFiniteSet(activated')
         /\ activated' \subseteq [s : Agent!Candidates, at : Nat]
<1>1. PICK n \in Nat : n = tip.rev
  BY ActiveRowIsThere
<1>2. PICK new : new = [s |-> s, at |-> n + 1]
  OBVIOUS
<1>3. new \in [s : Agent!Candidates, at : Nat] /\ new.s = s /\ new.at = n + 1
  BY <1>2
<1>4. activated' = activated \cup {new} /\ tip'.rev = n + 1 /\ tip'.active = s
  BY <1>1, <1>2 DEF Activated
<1>5. IsFiniteSet(activated) /\ activated \subseteq [s : Agent!Candidates, at : Nat]
  BY DEF AgentInv, LineageTypes
<1>6. \A a \in activated : a.at \in 1 .. n
  BY <1>1 DEF AgentInv, LineageInv, FollowsInv
<1>7. new \notin activated
  BY <1>3, <1>6
<1>8. Cardinality(activated') = n + 1 /\ IsFiniteSet(activated')
  BY <1>1, <1>4, <1>5, <1>7, FS_AddElement DEF AgentInv, LineageInv
<1>9. \A a, b \in activated' : a.at = b.at => a = b
  BY <1>3, <1>4, <1>6 DEF AgentInv, LineageInv
<1>10. ASSUME NEW m \in 1 .. n + 1 PROVE \E a \in activated' : a.at = m
  <2>1. CASE m = n + 1
    BY <1>3, <1>4, <2>1
  <2>2. CASE m # n + 1
    <3>1. m \in 1 .. n
      BY <2>2
    <3> QED BY <1>1, <1>4, <3>1 DEF AgentInv, LineageInv
  <2> QED BY <2>1, <2>2
<1>11. ASSUME NEW a \in activated PROVE FollowsInv(a)'
  <2>1. FollowsInv(a)
    BY DEF AgentInv, LineageInv
  <2>2. a.at \in 1 .. n + 1
    BY <1>6
  <2> QED BY <1>4, <2>1, <2>2, SameSupport DEF FollowsInv
<1>12. FollowsInv(new)'
  <2>1. n = 0 => parent[s] = Initial
    BY <1>1 DEF AgentInv, LineageInv
  <2>2. n # 0 => [s |-> parent[s], at |-> n] \in activated
    BY <1>1 DEF AgentInv, LineageInv
  <2>3. Supported(s)'
    BY SameSupport
  <2>4. n + 1 \in 1 .. n + 1 /\ (n + 1) - 1 = n /\ (n + 1 = 1 => n = 0) /\ (n + 1 > 1 => n # 0)
    OBVIOUS
  <2> QED BY <1>3, <1>4, <2>1, <2>2, <2>3, <2>4 DEF FollowsInv
<1>13. tip'.rev # 0 /\ [s |-> tip'.active, at |-> tip'.rev] \in activated'
  BY <1>2, <1>4
<1>14. LineageInv'
  BY <1>4, <1>8, <1>9, <1>10, <1>11, <1>12, <1>13 DEF LineageInv
<1> QED BY <1>3, <1>4, <1>5, <1>8, <1>14

LEMMA ActivateStep ==
  ASSUME AgentInv, Agent!ContinualAssumption, NEW p \in Process, Agent!Activate(p)
  PROVE  AgentInv'
<1>1. PICK j : j = task[p]
  OBVIOUS
<1>2. tip # NoRecord /\ j # Agent!Idle /\ j.pc = "commit" /\ CallIs(j)
  BY <1>1, Busy, CallOf DEF Agent!Activate
<1>3. task' = [task EXCEPT ![p] = Agent!Idle] /\ UNCHANGED result
  BY <1>1 DEF Agent!Activate, Agent!Leave, Agent!Continue
<1>4. CASE tip.rev # j.rev
  BY <1>1, <1>3, <1>4, NoCall, CallOnlyStep DEF Agent!Activate
<1>5. CASE tip.rev = j.rev
  <2>1. PICK s \in Agent!Candidates :
          s = j.s /\ Supported(s) /\ j.from = tip.active /\ parent[s] = tip.active
    BY <1>2, <1>5 DEF CallIs
  <2>2. PICK h : h = tip.active
    OBVIOUS
  <2>3. /\ record' = [record EXCEPT ![h] = "superseded", ![s] = "active"]
        /\ Activated(s)
    BY <1>1, <1>5, <2>1, <2>2 DEF Agent!Activate, Activated
  <2>4. h \in Snapshot /\ s \in Snapshot /\ h # s /\ tip.rev \in Nat
    BY <1>2, <2>1, <2>2, ActiveRowIsThere DEF Agent!Candidates, Agent!ContinualAssumption
  <2>5. /\ LineageInv' /\ IsFiniteSet(activated')
        /\ activated' \subseteq [s : Agent!Candidates, at : Nat]
    BY <1>2, <1>3, <2>1, ActivationIsCounted, <2>3
  <2>6. tip' \in Tips /\ tip'.active = s /\ tip' # NoRecord
    BY <2>3, <2>4 DEF Activated, Tips, Agent!ContinualAssumption
  <2>7. LineageTypes'
    BY <1>3, <2>3, <2>4, <2>5, <2>6 DEF AgentInv, LineageTypes
  <2>8. record'[s] = "active" /\ \A r \in Snapshot \ {s, h} : record'[r] = record[r]
    BY <2>3, <2>4 DEF AgentInv, LineageTypes
  <2>9. record'[h] = "superseded"
    BY <2>3, <2>4 DEF AgentInv, LineageTypes
  <2>10. RowInv' /\ EmptyInv'
    BY <1>2, <2>2, <2>6, <2>8, <2>9 DEF AgentInv, RowInv, EmptyInv
  <2>11. KeptInv'
    <3> SUFFICES ASSUME MaxRegressions = 0, NEW a \in activated'
                 PROVE  Passes(parent[a.s]) \cup Passes(a.s) \subseteq Passes(s)
      BY <1>3, <2>6 DEF KeptInv, Passes
    <3>1. Passes(h) \subseteq Passes(s)
      BY <2>1, <2>2, <2>4, NothingRegresses DEF AgentInv
    <3>2. CASE a \in activated
      BY <1>2, <2>2, <3>1, <3>2 DEF AgentInv, KeptInv
    <3>3. CASE a \notin activated
      <4>1. a.s = s
        BY <2>3, <3>3 DEF Activated
      <4> QED BY <2>1, <2>2, <3>1, <4>1
    <3> QED BY <3>2, <3>3
  <2>12. TipGoesOn
    BY <2>3, <2>4, <2>6 DEF TipGoesOn, Activated
  <2>13. CallsInv'
    BY <1>3, <2>7, <2>12, CallsGoOn, NoCall DEF CallIs
  <2> QED BY <1>3, <2>5, <2>7, <2>10, <2>11, <2>13 DEF AgentInv, FoundInv
<1> QED BY <1>4, <1>5

-----------------------------------------------------------------------------
LEMMA AgentStep ==
  ASSUME AgentInv, Agent!ContinualAssumption, [Agent!Next]_(Agent!vars)
  PROVE  AgentInv'
<1>1. CASE Agent!RegisterInitial
  BY <1>1, RegisterInitialStep
<1>2. ASSUME NEW p \in Process, NEW s \in Agent!Candidates, Agent!ReadParent(p, s) PROVE AgentInv'
  BY <1>2, ReadParentStep
<1>3. ASSUME NEW p \in Process, Agent!RegisterCandidate(p) \/ Agent!CheckHead(p)
 \/ Agent!Decide(p)
      PROVE  AgentInv'
  BY <1>3, RegisterCandidateStep, CheckTipStep, DecisionStep
<1>4. ASSUME NEW p \in Process, Agent!ReadCandidate(p) \/ Agent!Activate(p) PROVE AgentInv'
  BY <1>4, ReadCandidateStep, ActivateStep
<1>5. ASSUME NEW p \in Process, Agent!ReadRejected(p) \/ Agent!Reject(p)
 \/ Agent!Stop(p) PROVE AgentInv'
  BY <1>5, ReadRejectedStep, RejectStep, StopStep
<1>6. CASE UNCHANGED Agent!vars
  <2>1. LineageTypes'
    BY <1>6 DEF Agent!vars, AgentInv, LineageTypes
  <2>2. TipGoesOn
    BY <1>6 DEF Agent!vars, AgentInv, LineageTypes, TipGoesOn, Tips
  <2>3. ASSUME NEW p \in Process PROVE CallIs(task[p])'
    <3>1. PICK j : j = task[p]
      OBVIOUS
    <3>2. CallIs(j)'
      BY <1>6, <2>1, <2>2, <3>1, CallGoesOn DEF Agent!vars, AgentInv, CallsInv
    <3> QED BY <1>6, <3>1, <3>2 DEF Agent!vars, CallIs
  <2>4. RowInv' /\ EmptyInv'
    BY <1>6, SameRows DEF Agent!vars, AgentInv
  <2> QED BY <1>6, <2>1, <2>3, <2>4, LineageGoesOn DEF Agent!vars, AgentInv, CallsInv
<1> QED BY <1>1, <1>2, <1>3, <1>4, <1>5, <1>6 DEF Agent!Next

(* Whichever callers register, activate, reject and stop, each activation   *)
(* is of a candidate compared with the snapshot that was then active.       *)
THEOREM AgentInvariant ==
  ASSUME Agent!ContinualAssumption
  PROVE  Agent!Spec => []AgentInv
<1>1. Agent!Init => AgentInv
  BY AgentStart
<1>2. AgentInv /\ [Agent!Next]_(Agent!vars) => AgentInv'
  BY AgentStep
<1> QED BY <1>1, <1>2, PTL DEF Agent!Spec

(* The snapshot whose place the activation a took is the parent of a.       *)
LEMMA PreviousIsParent ==
  ASSUME AgentInv, Agent!ContinualAssumption, tip # NoRecord, NEW a \in activated
  PROVE  Agent!Previous(a) = parent[a.s]
<1>1. FollowsInv(a) /\ a.at \in Nat /\ a.s \in Agent!Candidates
  BY DEF AgentInv, LineageTypes, LineageInv
<1>2. tip.rev \in Nat
  BY ActiveRowIsThere
<1>3. CASE a.at = 1
  BY <1>1, <1>3 DEF Agent!Previous, FollowsInv
<1>4. CASE a.at # 1
  <2>1. [s |-> parent[a.s], at |-> a.at - 1] \in activated
    BY <1>1, <1>2, <1>4 DEF FollowsInv
  <2>2. parent[a.s] \in Snapshot
    BY <1>1 DEF Agent!Candidates, Agent!ContinualAssumption
  <2>3. ASSUME NEW s \in Snapshot, [s |-> s, at |-> a.at - 1] \in activated
        PROVE  s = parent[a.s]
    <3>1. [s |-> s, at |-> a.at - 1] = [s |-> parent[a.s], at |-> a.at - 1]
      BY <2>1, <2>3 DEF AgentInv, LineageInv
    <3> QED BY <3>1
  <2> QED BY <1>4, <2>1, <2>2, <2>3 DEF Agent!Previous
<1> QED BY <1>3, <1>4

(* docs/28, the registry: for any callers, any components and any gate, the *)
(* activations form one chain of parents without a gap, each found eligible *)
(* by somebody, and one row is active, unless callers disagree on it.       *)
THEOREM TheLineageIsSound ==
  ASSUME Agent!ContinualAssumption
  PROVE  Agent!Spec => []Agent!LineageIsSound
<1>1. AgentInv => Agent!LineageIsSound
  <2> SUFFICES ASSUME AgentInv, tip # NoRecord PROVE Agent!LineageIsSound
    BY DEF Agent!LineageIsSound
  <2>1. tip.rev \in Nat
    BY ActiveRowIsThere
  <2>2. {a.at : a \in activated} = 1 .. tip.rev /\ Agent!Cardinality(activated) = tip.rev
    <3>1. \A a \in activated : a.at \in 1 .. tip.rev
      BY DEF AgentInv, LineageInv, FollowsInv
    <3>2. \A n \in 1 .. tip.rev : \E a \in activated : a.at = n
      BY DEF AgentInv, LineageInv
    <3> QED BY <3>1, <3>2, AgentSets DEF AgentInv, LineageInv
  <2>3. \A a \in activated : parent[a.s] = Agent!Previous(a)
                              /\ \E roles \in SUBSET Role : Agent!Eligible(a.s, roles)
    BY PreviousIsParent DEF AgentInv, LineageInv, FollowsInv, Supported, Targets
  <2>4. tip.rev > 0 => [s |-> tip.active, at |-> tip.rev] \in activated
    BY <2>1 DEF AgentInv, LineageInv
  <2>5. ASSUME ~Agent!Disputable(tip.active) PROVE record[tip.active] = "active"
    <3> SUFFICES ASSUME record[tip.active] # "active" PROVE FALSE
      OBVIOUS
    <3>1. Opposed(tip.active) /\ tip.active # Initial
      BY <2>5 DEF AgentInv, RowInv, Agent!ContinualAssumption
    <3>2. PICK a : a = [s |-> tip.active, at |-> tip.rev]
      OBVIOUS
    <3>3. a \in activated /\ a.s = tip.active
      BY <3>1, <3>2 DEF AgentInv, LineageInv
    <3>4. Supported(a.s)
      BY <3>3 DEF AgentInv, LineageInv, FollowsInv
    <3>5. Supported(tip.active)
      BY <3>3, <3>4
    <3> QED BY <2>5, <3>1, <3>5 DEF Agent!Disputable, Supported, Opposed, Targets
  <2> QED BY <2>2, <2>3, <2>4, <2>5 DEF Agent!LineageIsSound, AgentInv, RowInv
<1> QED BY <1>1, AgentInvariant, PTL

(* A gate that allows no regression: what any snapshot of the lineage       *)
(* passed, the active one passes, however long the lineage.                 *)
THEOREM NothingWasForgotten ==
  ASSUME Agent!ContinualAssumption
  PROVE  Agent!Spec => []Agent!NothingIsForgotten
<1>1. AgentInv => Agent!NothingIsForgotten
  BY PreviousIsParent DEF Agent!NothingIsForgotten, AgentInv, KeptInv, Passes
<1> QED BY <1>1, AgentInvariant, PTL

-----------------------------------------------------------------------------
(***************************************************************************)
(* The binding of a local training to a generation (ProgramTraining), for  *)
(* any people, any times that they state and any order of the documents.   *)
(* A document is never changed, so what its maker verified about those it  *)
(* rests on goes on to hold; the invariant says it of each document.       *)
(***************************************************************************)
CONSTANTS Reviewers, Governors, Origins, PlanApprovers, StatedTime, Started
VARIABLES generation, governed, doc

Doc == INSTANCE ProgramTraining WITH Time <- StatedTime

(* What each document has made sure of, about itself and what it rests on,  *)
(* when it was made.                                                        *)

Attested ==
  /\ Doc!By("attestor") \notin Reviewers \cup Governors
  /\ Doc!At("attestor") >= Started

Intended ==
  /\ Doc!Made("attestor") /\ Doc!At("attestor") <= Doc!At("author")
  /\ Origins \cup {Doc!By("attestor")} \subseteq governed
  /\ Doc!By("author") \notin governed

Authorized ==
  /\ Doc!Made("author") /\ Doc!At("author") <= Doc!At("authorizer")
  /\ Doc!By("authorizer") \notin governed \cup {Doc!By("author")}

Bound ==
  /\ Doc!Made("authorizer") /\ Doc!Made("trainer") /\ Doc!At("authorizer") <= Doc!At("executor")
  /\ Doc!By("executor") \notin governed \cup {Doc!By("author"), Doc!By("authorizer")}

Reviewed == Doc!Made("specAuthor")
Verified == Doc!Made("reviewer")

(* Those whom the binder and all after it must not be one of.               *)
Handlers == governed \cup {Doc!By("author"), Doc!By("authorizer"), Doc!By("executor"),
                           Doc!By("verifier")}

BoundAsAttested ==
  /\ Doc!Made("executor") /\ Doc!Made("verifier")
  /\ Doc!At("executor") <= Doc!At("verifier") /\ Doc!At("verifier") <= Doc!At("binder")
  /\ Doc!By("binder") \notin Handlers

RuntimeAccepted ==
  /\ Doc!Made("binder") /\ Doc!At("binder") <= Doc!At("runtimeAcceptor")
  /\ Doc!By("specAuthor") \notin Handlers \cup {Doc!By("binder")}
  /\ Doc!At("specAuthor") <= Doc!At("verifier")
  /\ Doc!By("reviewer") \notin Handlers \cup {Doc!By("binder"), Doc!By("specAuthor")}
  /\ Doc!At("reviewer") <= Doc!At("verifier")
  /\ Doc!By("runtimeAcceptor") \notin
       Handlers \cup {Doc!By("binder"), Doc!By("specAuthor"), Doc!By("reviewer")}

PackageAccepted ==
  /\ Doc!Made("runtimeAcceptor") /\ Doc!At("runtimeAcceptor") <= Doc!At("acceptor")
  /\ Doc!By("acceptor") \notin
       Handlers \cup {Doc!By("binder"), Doc!By("specAuthor"), Doc!By("reviewer"),
                      Doc!By("runtimeAcceptor")}

Received ==
  /\ Doc!Made("acceptor") /\ Doc!Made("anchorer")
  /\ Doc!At("acceptor") <= Doc!At("receiver") /\ Doc!At("anchorer") <= Doc!At("receiver")
  /\ Doc!By("receiver") \notin
       Handlers \cup {Doc!By("binder"), Doc!By("specAuthor"), Doc!By("reviewer"),
                      Doc!By("runtimeAcceptor"), Doc!By("acceptor"), Doc!By("anchorer")}

Trained == Doc!Made("trainer") <=> Doc!Made("registrar")

Ticketed == Doc!By("ticketer") \notin Doc!Privileged /\ Doc!At("ticketer") >= Started

Completed ==
  /\ Doc!Made("ticketer") /\ Doc!Made("trainer")
  /\ Doc!By("registrar") = Doc!By("ticketer") /\ Doc!At("registrar") >= Doc!At("ticketer")
  /\ Doc!By("trainer") \notin Doc!Privileged \cup {Doc!By("ticketer")}
  /\ Doc!By("completer") \notin Doc!Privileged \cup {Doc!By("ticketer"), Doc!By("trainer")}
  /\ Doc!At("completer") >= Doc!At("trainer")

TimesInv == \A r \in DOMAIN doc : Doc!At(r) \in StatedTime

EvidenceInv ==
  /\ Doc!Made("attestor") => Attested
  /\ Doc!Made("author") => Intended
  /\ Doc!Made("authorizer") => Authorized
  /\ Doc!Made("executor") => Bound
  /\ Doc!Made("reviewer") => Reviewed
  /\ Doc!Made("verifier") => Verified
  /\ Doc!Made("binder") => BoundAsAttested
  /\ Doc!Made("runtimeAcceptor") => RuntimeAccepted
  /\ Doc!Made("acceptor") => PackageAccepted
  /\ Doc!Made("receiver") => Received

TicketInv ==
  /\ Trained
  /\ Doc!Made("ticketer") => Ticketed
  /\ Doc!Made("completer") => Completed

DocInv == TimesInv /\ EvidenceInv /\ TicketInv

-----------------------------------------------------------------------------
(* No document is changed or taken away, and what an intent names neither.  *)
Kept ==
  /\ \A r \in DOMAIN doc : r \in DOMAIN doc' /\ doc'[r] = doc[r]
  /\ Doc!Made("author") => governed' = governed

LEMMA IntentsStay ==
  ASSUME Kept
  PROVE  /\ Doc!Made("attestor") /\ Attested => Attested'
         /\ Doc!Made("author") /\ Intended => Intended'
         /\ Doc!Made("authorizer") /\ Authorized => Authorized'
<1>1. Doc!Made("attestor") /\ Attested => Attested'
  BY DEF Kept, Attested, Doc!Made, Doc!By, Doc!At
<1>2. Doc!Made("author") /\ Intended => Intended'
  BY DEF Kept, Intended, Doc!Made, Doc!By, Doc!At
<1>3. Doc!Made("authorizer") /\ Authorized => Authorized'
  BY DEF Kept, Authorized, Doc!Made, Doc!By, Doc!At
<1> QED BY <1>1, <1>2, <1>3

LEMMA ResultsStay ==
  ASSUME Kept, EvidenceInv
  PROVE  /\ Doc!Made("executor") => Bound'
         /\ Doc!Made("reviewer") => Reviewed'
         /\ Doc!Made("verifier") => Verified'
         /\ Doc!Made("binder") => BoundAsAttested'
<1>1. Doc!Made("executor") => Bound'
  BY DEF Kept, EvidenceInv, Bound, Authorized, Doc!Made, Doc!By, Doc!At
<1>2. (Doc!Made("reviewer") => Reviewed') /\ (Doc!Made("verifier") => Verified')
  BY DEF Kept, EvidenceInv, Reviewed, Verified, Doc!Made
<1>3. Doc!Made("binder") => BoundAsAttested'
  BY DEF Kept, EvidenceInv, BoundAsAttested, Handlers, Bound, Authorized, Doc!Made, Doc!By,
     Doc!At
<1> QED BY <1>1, <1>2, <1>3

(* What all is there once a binder has bound it.                            *)
LEMMA BehindBinder ==
  ASSUME EvidenceInv, Doc!Made("binder")
  PROVE  /\ Doc!Made("attestor") /\ Doc!Made("author") /\ Doc!Made("authorizer")
         /\ Doc!Made("executor")
         /\ Doc!Made("verifier") /\ Doc!Made("reviewer") /\ Doc!Made("specAuthor")
BY DEF EvidenceInv, BoundAsAttested, Bound, Authorized, Intended, Verified, Reviewed

LEMMA MakersStay ==
  ASSUME EvidenceInv, Doc!Made("binder"), Kept
  PROVE  Handlers' = Handlers
BY BehindBinder DEF Kept, Handlers, Doc!Made, Doc!By

LEMMA AcceptancesStay ==
  ASSUME Kept, EvidenceInv
  PROVE  /\ Doc!Made("runtimeAcceptor") => RuntimeAccepted'
         /\ Doc!Made("acceptor") => PackageAccepted'
         /\ Doc!Made("receiver") => Received'
<1>1. Doc!Made("runtimeAcceptor") => RuntimeAccepted'
  BY BehindBinder, MakersStay DEF Kept, EvidenceInv, RuntimeAccepted, Doc!Made, Doc!By, Doc!At
<1>2. Doc!Made("acceptor") => PackageAccepted'
  <2> SUFFICES ASSUME Doc!Made("acceptor") PROVE PackageAccepted'
    OBVIOUS
  <2>1. PackageAccepted /\ Doc!Made("runtimeAcceptor") /\ Doc!Made("binder")
    BY DEF EvidenceInv, PackageAccepted, RuntimeAccepted
  <2> QED BY <2>1, BehindBinder, MakersStay DEF Kept, PackageAccepted, Doc!Made, Doc!By, Doc!At
<1>3. Doc!Made("receiver") => Received'
  <2> SUFFICES ASSUME Doc!Made("receiver") PROVE Received'
    OBVIOUS
  <2>1. /\ Received /\ Doc!Made("acceptor") /\ Doc!Made("anchorer")
        /\ Doc!Made("runtimeAcceptor") /\ Doc!Made("binder")
    BY DEF EvidenceInv, Received, PackageAccepted, RuntimeAccepted
  <2> QED BY <2>1, BehindBinder, MakersStay DEF Kept, Received, Doc!Made, Doc!By, Doc!At
<1> QED BY <1>1, <1>2, <1>3

LEMMA TicketsStay ==
  ASSUME Kept, TicketInv
  PROVE  /\ Doc!Made("ticketer") => Ticketed'
         /\ Doc!Made("completer") => Completed'
BY DEF Kept, TicketInv, Trained, Ticketed, Completed, Doc!Made, Doc!By, Doc!At

(* What the document of the role r has made sure of.                        *)
Secured(r) ==
  /\ r = "attestor" => Attested
  /\ r = "author" => Intended
  /\ r = "authorizer" => Authorized
  /\ r = "executor" => Bound
  /\ r = "reviewer" => Reviewed
  /\ r = "verifier" => Verified
  /\ r = "binder" => BoundAsAttested
  /\ r = "runtimeAcceptor" => RuntimeAccepted
  /\ r = "acceptor" => PackageAccepted
  /\ r = "receiver" => Received
  /\ r = "ticketer" => Ticketed
  /\ r = "completer" => Completed

(* A new document of the role r.                                            *)
Wrote(r, by, at) ==
  /\ ~Doc!Made(r) /\ Doc!Made(r)' /\ doc'[r] = [by |-> by, at |-> at]
  /\ \A q : q # r => (Doc!Made(q)' <=> Doc!Made(q))
  /\ \A q \in DOMAIN doc : doc'[q] = doc[q]

LEMMA WriteWrites ==
  ASSUME NEW r, NEW by, NEW at, Doc!Write(r, by, at)
  PROVE  Wrote(r, by, at)
BY DEF Doc!Write, Doc!With, Wrote, Doc!Made

LEMMA WriteKeeps ==
  ASSUME NEW r, NEW by, NEW at \in StatedTime, TimesInv, Wrote(r, by, at),
         Doc!Made("author") => governed' = governed
  PROVE  Kept /\ TimesInv' /\ Doc!By(r)' = by /\ Doc!At(r)' = at
<1>1. Kept
  BY DEF Wrote, Kept, Doc!Made
<1>2. doc'[r].by = by /\ doc'[r].at = at
  BY DEF Wrote
<1>3. TimesInv'
  BY <1>2 DEF TimesInv, Wrote, Doc!At, Doc!Made
<1> QED BY <1>1, <1>2, <1>3 DEF Doc!By, Doc!At

LEMMA WriteStep ==
  ASSUME DocInv, NEW r, NEW by, NEW at \in StatedTime, Wrote(r, by, at),
         r \notin {"trainer", "registrar"},
         Doc!Made("author") => governed' = governed,
         Secured(r)'
  PROVE  DocInv'
<1>1. Kept /\ TimesInv'
  BY WriteKeeps DEF DocInv
<1>2. \A q : Doc!Made(q)' => Doc!Made(q) \/ q = r
  BY DEF Wrote
<1>3. /\ Doc!Made("attestor")' => Attested'
      /\ Doc!Made("author")' => Intended'
      /\ Doc!Made("authorizer")' => Authorized'
  BY <1>1, <1>2, IntentsStay DEF DocInv, EvidenceInv, Secured
<1>4. /\ Doc!Made("executor")' => Bound'
      /\ Doc!Made("reviewer")' => Reviewed'
      /\ Doc!Made("verifier")' => Verified'
      /\ Doc!Made("binder")' => BoundAsAttested'
  BY <1>1, <1>2, ResultsStay DEF DocInv, Secured
<1>5. /\ Doc!Made("runtimeAcceptor")' => RuntimeAccepted'
      /\ Doc!Made("acceptor")' => PackageAccepted'
      /\ Doc!Made("receiver")' => Received'
  BY <1>1, <1>2, AcceptancesStay DEF DocInv, Secured
<1>6. Trained'
  BY DEF DocInv, TicketInv, Trained, Wrote
<1>7. /\ Doc!Made("ticketer")' => Ticketed'
      /\ Doc!Made("completer")' => Completed'
  BY <1>1, <1>2, TicketsStay DEF DocInv, Secured
<1> QED BY <1>1, <1>3, <1>4, <1>5, <1>6, <1>7 DEF DocInv, EvidenceInv, TicketInv

(* A step that writes nothing, or that of the training, which writes two.   *)
LEMMA OtherStep ==
  ASSUME DocInv, Kept, TimesInv', Trained', governed' = governed,
         \A q : Doc!Made(q)' => Doc!Made(q) \/ q \in {"trainer", "registrar"}
  PROVE  DocInv'
<1>1. /\ Doc!Made("attestor")' => Attested'
      /\ Doc!Made("author")' => Intended'
      /\ Doc!Made("authorizer")' => Authorized'
  BY IntentsStay DEF DocInv, EvidenceInv
<1>2. /\ Doc!Made("executor")' => Bound'
      /\ Doc!Made("reviewer")' => Reviewed'
      /\ Doc!Made("verifier")' => Verified'
      /\ Doc!Made("binder")' => BoundAsAttested'
  BY ResultsStay DEF DocInv
<1>3. /\ Doc!Made("runtimeAcceptor")' => RuntimeAccepted'
      /\ Doc!Made("acceptor")' => PackageAccepted'
      /\ Doc!Made("receiver")' => Received'
  BY AcceptancesStay DEF DocInv
<1>4. /\ Doc!Made("ticketer")' => Ticketed'
      /\ Doc!Made("completer")' => Completed'
  BY TicketsStay DEF DocInv
<1> QED BY <1>1, <1>2, <1>3, <1>4 DEF DocInv, EvidenceInv, TicketInv

-----------------------------------------------------------------------------
(* The steps *)

LEMMA BindingStart == ASSUME Doc!Init, Doc!BindingAssumption PROVE DocInv
<1>1. \A r : ~Doc!Made(r)
  BY DEF Doc!Init, Doc!Made
<1> QED BY <1>1 DEF DocInv, TimesInv, EvidenceInv, TicketInv, Trained, Doc!Made

LEMMA TrainLocallyStep ==
  ASSUME DocInv, NEW by \in Person, NEW at \in StatedTime, Doc!TrainLocally(by, at)
  PROVE  DocInv'
<1>1. PICK trainer : doc' = Doc!With("trainer", trainer, at, Doc!With("registrar", by, at, doc))
  BY DEF Doc!TrainLocally
<1>2. ~Doc!Made("trainer") /\ ~Doc!Made("registrar") /\ governed' = governed
  BY DEF Doc!TrainLocally, DocInv, TicketInv, Trained
<1>3. PICK docs : docs = Doc!With("registrar", by, at, doc)
  OBVIOUS
<1>4. /\ DOMAIN docs = DOMAIN doc \cup {"registrar"}
      /\ docs["registrar"] = [by |-> by, at |-> at]
      /\ \A r \in DOMAIN doc : docs[r] = doc[r]
  BY <1>2, <1>3 DEF Doc!With, Doc!Made
<1>5. /\ DOMAIN doc' = DOMAIN doc \cup {"registrar", "trainer"}
      /\ doc'["registrar"] = [by |-> by, at |-> at]
      /\ doc'["trainer"] = [by |-> trainer, at |-> at]
      /\ \A r \in DOMAIN doc : doc'[r] = doc[r]
  BY <1>1, <1>2, <1>3, <1>4 DEF Doc!With, Doc!Made
<1>6. Kept
  BY <1>2, <1>5 DEF Kept
<1>7. TimesInv'
  <2> SUFFICES ASSUME NEW r \in DOMAIN doc' PROVE doc'[r].at \in StatedTime
    BY DEF TimesInv, Doc!At
  <2>1. CASE r \in DOMAIN doc
    BY <1>5, <2>1 DEF DocInv, TimesInv, Doc!At
  <2>2. CASE r \notin DOMAIN doc
    BY <1>5, <2>2
  <2> QED BY <2>1, <2>2
<1>8. Trained'
  BY <1>5 DEF Trained, Doc!Made
<1>9. \A q : Doc!Made(q)' => Doc!Made(q) \/ q \in {"trainer", "registrar"}
  BY <1>5 DEF Doc!Made
<1> QED BY <1>2, <1>6, <1>7, <1>8, <1>9, OtherStep

LEMMA EndGenerationStep ==
  ASSUME DocInv, UNCHANGED <<governed, doc>>
  PROVE  DocInv'
<1>1. Kept /\ TimesInv' /\ Trained'
  BY DEF DocInv, TimesInv, TicketInv, Trained, Kept, Doc!Made, Doc!At
<1>2. \A q : Doc!Made(q)' <=> Doc!Made(q)
  BY DEF Doc!Made
<1> QED BY <1>1, <1>2, OtherStep
(* What is there already, says the same after r is written.                 *)
LEMMA SameDocuments ==
  ASSUME NEW r, NEW by, NEW at, Wrote(r, by, at), NEW q, Doc!Made(q)
  PROVE  Doc!Made(q)' /\ Doc!By(q)' = Doc!By(q) /\ Doc!At(q)' = Doc!At(q)
BY DEF Wrote, Doc!Made, Doc!By, Doc!At

LEMMA NewDocument ==
  ASSUME NEW r, NEW by, NEW at, Wrote(r, by, at)
  PROVE  Doc!Made(r)' /\ Doc!By(r)' = by /\ Doc!At(r)' = at
<1>1. doc'[r].by = by /\ doc'[r].at = at
  BY DEF Wrote
<1> QED BY <1>1 DEF Wrote, Doc!By, Doc!At

LEMMA Hand == ASSUME NEW rs, NEW r \in rs PROVE Doc!By(r) \in Doc!Hands(rs)
BY DEF Doc!Hands

LEMMA AttestStep ==
  ASSUME DocInv, Doc!BindingAssumption, NEW by \in Person, NEW at \in StatedTime,
         Doc!Attest(by, at)
  PROVE  DocInv'
<1>1. Wrote("attestor", by, at)
  BY WriteWrites DEF Doc!Attest
<1>2. Attested'
  BY <1>1, NewDocument DEF Doc!Attest, Attested
<1> QED BY <1>1, <1>2, WriteStep DEF Doc!Attest, Secured

LEMMA WriteIntentStep ==
  ASSUME DocInv, Doc!BindingAssumption, NEW by \in Person, NEW at \in StatedTime,
         Doc!WriteIntent(by, at)
  PROVE  DocInv'
<1>1. Wrote("author", by, at)
  BY WriteWrites DEF Doc!WriteIntent
<1>2. /\ Doc!Made("attestor") /\ ~Doc!Made("author") /\ at >= Doc!At("attestor")
      /\ by # Doc!By("attestor")
  BY DEF Doc!WriteIntent, Doc!Write
<1>3. PICK named \in Doc!Nameable : by \notin named /\ governed' = named \cup {Doc!By("attestor")}
  BY DEF Doc!WriteIntent
<1>4. /\ Doc!Made("attestor")' /\ Doc!By("attestor")' = Doc!By("attestor")
      /\ Doc!At("attestor")' = Doc!At("attestor")
      /\ Doc!By("author")' = by /\ Doc!At("author")' = at
  BY <1>1, <1>2, SameDocuments, NewDocument
<1>5. Doc!At("attestor") \in Nat /\ at \in Nat
  BY <1>2 DEF DocInv, TimesInv, Doc!Made, Doc!BindingAssumption
<1>6. Intended'
  BY <1>2, <1>3, <1>4, <1>5 DEF Intended, Doc!Nameable
<1> QED BY <1>1, <1>2, <1>6, WriteStep DEF Secured

LEMMA AuthorizationStep ==
  ASSUME DocInv, Doc!BindingAssumption, NEW by \in Person, NEW at \in StatedTime,
         Doc!Authorize(by, at)
  PROVE  DocInv'
<1>1. Wrote("authorizer", by, at)
  BY WriteWrites DEF Doc!Authorize
<1>2. /\ Doc!Made("author") /\ by \notin governed \cup {Doc!By("author")}
      /\ at >= Doc!At("author") /\ governed' = governed
  BY Hand DEF Doc!Authorize
<1>3. /\ Doc!Made("author")' /\ Doc!By("author")' = Doc!By("author")
      /\ Doc!At("author")' = Doc!At("author")
      /\ Doc!By("authorizer")' = by /\ Doc!At("authorizer")' = at
  BY <1>1, <1>2, SameDocuments, NewDocument
<1>4. Doc!At("author") \in Nat /\ at \in Nat
  BY <1>2 DEF DocInv, TimesInv, Doc!Made, Doc!BindingAssumption
<1>5. Authorized'
  BY <1>2, <1>3, <1>4 DEF Authorized
<1> QED BY <1>1, <1>2, <1>5, WriteStep DEF Secured

LEMMA BindResultStep ==
  ASSUME DocInv, Doc!BindingAssumption, NEW by \in Person, NEW at \in StatedTime,
         Doc!BindResult(by, at)
  PROVE  DocInv'
<1>1. Wrote("executor", by, at)
  BY WriteWrites DEF Doc!BindResult
<1>2. /\ Doc!Made("authorizer") /\ Doc!Made("trainer") /\ governed' = governed
      /\ at >= Doc!At("authorizer")
      /\ by \notin governed \cup {Doc!By("author"), Doc!By("authorizer")}
  BY Hand DEF Doc!BindResult
<1>3. Doc!Made("author")
  BY <1>2 DEF DocInv, EvidenceInv, Authorized
<1>4. /\ Doc!Made("authorizer")' /\ Doc!By("authorizer")' = Doc!By("authorizer")
      /\ Doc!At("authorizer")' = Doc!At("authorizer") /\ Doc!By("author")' = Doc!By("author")
      /\ Doc!Made("trainer")' /\ Doc!By("executor")' = by /\ Doc!At("executor")' = at
  BY <1>1, <1>2, <1>3, SameDocuments, NewDocument
<1>5. Doc!At("authorizer") \in Nat /\ at \in Nat
  BY <1>2 DEF DocInv, TimesInv, Doc!Made, Doc!BindingAssumption
<1>6. Bound'
  BY <1>2, <1>4, <1>5 DEF Bound
<1> QED BY <1>1, <1>2, <1>6, WriteStep DEF Secured

LEMMA WriteSpecStep ==
  ASSUME DocInv, Doc!BindingAssumption, NEW by \in Person, NEW at \in StatedTime,
         Doc!WriteSpec(by, at)
  PROVE  DocInv'
<1>1. Wrote("specAuthor", by, at)
  BY WriteWrites DEF Doc!WriteSpec
<1> QED BY <1>1, WriteStep DEF Doc!WriteSpec, Secured

LEMMA ReviewContractStep ==
  ASSUME DocInv, Doc!BindingAssumption, NEW by \in Person, NEW at \in StatedTime,
         Doc!ReviewContract(by, at)
  PROVE  DocInv'
<1>1. Wrote("reviewer", by, at)
  BY WriteWrites DEF Doc!ReviewContract
<1>2. Reviewed'
  BY <1>1 DEF Doc!ReviewContract, Reviewed, Wrote
<1> QED BY <1>1, <1>2, WriteStep DEF Doc!ReviewContract, Secured

LEMMA VerifyPackageStep ==
  ASSUME DocInv, Doc!BindingAssumption, NEW by \in Person, NEW at \in StatedTime,
         Doc!VerifyPackage(by, at)
  PROVE  DocInv'
<1>1. Wrote("verifier", by, at)
  BY WriteWrites DEF Doc!VerifyPackage
<1>2. Verified'
  BY <1>1 DEF Doc!VerifyPackage, Verified, Wrote
<1> QED BY <1>1, <1>2, WriteStep DEF Doc!VerifyPackage, Secured

LEMMA AnchorStep ==
  ASSUME DocInv, Doc!BindingAssumption, NEW by \in Person, NEW at \in StatedTime,
         Doc!Anchor(by, at)
  PROVE  DocInv'
<1>1. Wrote("anchorer", by, at)
  BY WriteWrites DEF Doc!Anchor
<1> QED BY <1>1, WriteStep DEF Doc!Anchor, Secured

LEMMA HandlersAreMakers == Doc!Makers = Handlers
BY DEF Doc!Makers, Handlers, Doc!Hands

LEMMA BindAttestedStep ==
  ASSUME DocInv, Doc!BindingAssumption, NEW by \in Person, NEW at \in StatedTime,
         Doc!BindAttested(by, at)
  PROVE  DocInv'
<1>1. Wrote("binder", by, at)
  BY WriteWrites DEF Doc!BindAttested
<1>2. /\ Doc!Made("executor") /\ Doc!Made("verifier") /\ governed' = governed
      /\ by \notin Handlers
      /\ Doc!At("verifier") >= Doc!At("executor") /\ at >= Doc!At("verifier")
  BY HandlersAreMakers DEF Doc!BindAttested
<1>3. Doc!Made("author") /\ Doc!Made("authorizer")
  BY <1>2 DEF DocInv, EvidenceInv, Bound, Authorized
<1>4. /\ Doc!Made("executor")' /\ Doc!Made("verifier")' /\ Handlers' = Handlers
      /\ Doc!At("executor")' = Doc!At("executor") /\ Doc!At("verifier")' = Doc!At("verifier")
      /\ Doc!By("binder")' = by /\ Doc!At("binder")' = at
  BY <1>1, <1>2, <1>3, SameDocuments, NewDocument DEF Handlers
<1>5. Doc!At("executor") \in Nat /\ Doc!At("verifier") \in Nat /\ at \in Nat
  BY <1>2 DEF DocInv, TimesInv, Doc!Made, Doc!BindingAssumption
<1>6. BoundAsAttested'
  BY <1>2, <1>4, <1>5 DEF BoundAsAttested
<1> QED BY <1>1, <1>2, <1>6, WriteStep DEF Secured

LEMMA AcceptRuntimeStep ==
  ASSUME DocInv, Doc!BindingAssumption, NEW by \in Person, NEW at \in StatedTime,
         Doc!AcceptRuntime(by, at)
  PROVE  DocInv'
<1>1. Wrote("runtimeAcceptor", by, at)
  BY WriteWrites DEF Doc!AcceptRuntime
<1>2. /\ Doc!Made("binder") /\ at >= Doc!At("binder") /\ governed' = governed
      /\ by \notin Handlers \cup {Doc!By("binder"), Doc!By("specAuthor"), Doc!By("reviewer")}
  BY HandlersAreMakers, Hand DEF Doc!AcceptRuntime
<1>3. /\ Doc!By("specAuthor") \notin Handlers \cup {Doc!By("binder")}
      /\ Doc!At("specAuthor") <= Doc!At("verifier")
      /\ Doc!By("reviewer") \notin Handlers \cup {Doc!By("binder"), Doc!By("specAuthor")}
      /\ Doc!At("reviewer") <= Doc!At("verifier")
  BY HandlersAreMakers, Hand DEF Doc!AcceptRuntime, Doc!RuntimeIsBound, Doc!SpecIsIndependent,
     Doc!ReviewerIsIndependent
<1>4. /\ Doc!Made("attestor") /\ Doc!Made("author") /\ Doc!Made("authorizer")
      /\ Doc!Made("executor")
      /\ Doc!Made("verifier") /\ Doc!Made("reviewer") /\ Doc!Made("specAuthor")
  BY <1>2, BehindBinder DEF DocInv
<1>5. /\ Doc!Made("binder")' /\ Handlers' = Handlers /\ Doc!By("binder")' = Doc!By("binder")
      /\ Doc!By("specAuthor")' = Doc!By("specAuthor")
      /\ Doc!By("reviewer")' = Doc!By("reviewer")
      /\ Doc!At("binder")' = Doc!At("binder") /\ Doc!At("specAuthor")' = Doc!At("specAuthor")
      /\ Doc!At("reviewer")' = Doc!At("reviewer") /\ Doc!At("verifier")' = Doc!At("verifier")
      /\ Doc!By("runtimeAcceptor")' = by /\ Doc!At("runtimeAcceptor")' = at
  BY <1>1, <1>2, <1>4, SameDocuments, NewDocument DEF Handlers
<1>6. Doc!At("binder") \in Nat /\ at \in Nat
  BY <1>2 DEF DocInv, TimesInv, Doc!Made, Doc!BindingAssumption
<1>7. RuntimeAccepted'
  BY <1>2, <1>3, <1>5, <1>6 DEF RuntimeAccepted
<1> QED BY <1>1, <1>2, <1>7, WriteStep DEF Secured

LEMMA AcceptPackageStep ==
  ASSUME DocInv, Doc!BindingAssumption, NEW by \in Person, NEW at \in StatedTime,
         Doc!AcceptPackage(by, at)
  PROVE  DocInv'
<1>1. Wrote("acceptor", by, at)
  BY WriteWrites DEF Doc!AcceptPackage
<1>2. /\ Doc!Made("runtimeAcceptor") /\ at >= Doc!At("runtimeAcceptor") /\ governed' = governed
      /\ by \notin Handlers \cup {Doc!By("binder"), Doc!By("specAuthor"), Doc!By("reviewer"),
                                 Doc!By("runtimeAcceptor")}
  BY HandlersAreMakers, Hand DEF Doc!AcceptPackage
<1>3. Doc!Made("binder")
  BY <1>2 DEF DocInv, EvidenceInv, RuntimeAccepted
<1>4. /\ Doc!Made("attestor") /\ Doc!Made("author") /\ Doc!Made("authorizer")
      /\ Doc!Made("executor")
      /\ Doc!Made("verifier") /\ Doc!Made("reviewer") /\ Doc!Made("specAuthor")
  BY <1>3, BehindBinder DEF DocInv
<1>5. /\ Doc!Made("runtimeAcceptor")' /\ Handlers' = Handlers
      /\ Doc!By("binder")' = Doc!By("binder")
      /\ Doc!By("specAuthor")' = Doc!By("specAuthor")
      /\ Doc!By("reviewer")' = Doc!By("reviewer")
      /\ Doc!By("runtimeAcceptor")' = Doc!By("runtimeAcceptor")
      /\ Doc!At("runtimeAcceptor")' = Doc!At("runtimeAcceptor")
      /\ Doc!By("acceptor")' = by /\ Doc!At("acceptor")' = at
  BY <1>1, <1>2, <1>3, <1>4, SameDocuments, NewDocument DEF Handlers
<1>6. Doc!At("runtimeAcceptor") \in Nat /\ at \in Nat
  BY <1>2 DEF DocInv, TimesInv, Doc!Made, Doc!BindingAssumption
<1>7. PackageAccepted'
  BY <1>2, <1>5, <1>6 DEF PackageAccepted
<1> QED BY <1>1, <1>2, <1>7, WriteStep DEF Secured

LEMMA MaxOfTwo ==
  ASSUME NEW m \in Nat, NEW n \in Nat
  PROVE  Doc!Max({m, n}) \in Nat /\ Doc!Max({m, n}) >= m /\ Doc!Max({m, n}) >= n
<1>1. \E x \in {m, n} : \A y \in {m, n} : x >= y
  OBVIOUS
<1> QED BY <1>1 DEF Doc!Max

LEMMA AcceptStep ==
  ASSUME DocInv, Doc!BindingAssumption, NEW by \in Person, NEW at \in StatedTime,
         Doc!Accept(by, at)
  PROVE  DocInv'
<1>1. Wrote("receiver", by, at)
  BY WriteWrites DEF Doc!Accept
<1>2. /\ Doc!Made("acceptor") /\ Doc!Made("anchorer") /\ governed' = governed
      /\ at >= Doc!Max({Doc!At("acceptor"), Doc!At("anchorer")})
      /\ by \notin Handlers \cup {Doc!By("binder"), Doc!By("specAuthor"), Doc!By("reviewer"),
                                 Doc!By("runtimeAcceptor"), Doc!By("acceptor"),
                                 Doc!By("anchorer")}
  BY HandlersAreMakers, Hand DEF Doc!Accept
<1>3. Doc!Made("runtimeAcceptor") /\ Doc!Made("binder")
  BY <1>2 DEF DocInv, EvidenceInv, PackageAccepted, RuntimeAccepted
<1>4. /\ Doc!Made("attestor") /\ Doc!Made("author") /\ Doc!Made("authorizer")
      /\ Doc!Made("executor")
      /\ Doc!Made("verifier") /\ Doc!Made("reviewer") /\ Doc!Made("specAuthor")
  BY <1>3, BehindBinder DEF DocInv
<1>5. /\ Doc!Made("acceptor")' /\ Doc!Made("anchorer")' /\ Handlers' = Handlers
      /\ Doc!By("binder")' = Doc!By("binder")
      /\ Doc!By("specAuthor")' = Doc!By("specAuthor")
      /\ Doc!By("reviewer")' = Doc!By("reviewer")
      /\ Doc!By("runtimeAcceptor")' = Doc!By("runtimeAcceptor")
      /\ Doc!By("acceptor")' = Doc!By("acceptor") /\ Doc!By("anchorer")' = Doc!By("anchorer")
      /\ Doc!At("acceptor")' = Doc!At("acceptor") /\ Doc!At("anchorer")' = Doc!At("anchorer")
      /\ Doc!By("receiver")' = by /\ Doc!At("receiver")' = at
  BY <1>1, <1>2, <1>3, <1>4, SameDocuments, NewDocument DEF Handlers
<1>6. Doc!At("acceptor") \in Nat /\ Doc!At("anchorer") \in Nat /\ at \in Nat
  BY <1>2 DEF DocInv, TimesInv, Doc!Made, Doc!BindingAssumption
<1>7. at >= Doc!At("acceptor") /\ at >= Doc!At("anchorer")
  BY <1>2, <1>6, MaxOfTwo
<1>8. Received'
  BY <1>2, <1>5, <1>6, <1>7 DEF Received
<1> QED BY <1>1, <1>2, <1>8, WriteStep DEF Secured

LEMMA WriteTicketStep ==
  ASSUME DocInv, Doc!BindingAssumption, NEW by \in Person, NEW at \in StatedTime,
         Doc!WriteTicket(by, at)
  PROVE  DocInv'
<1>1. Wrote("ticketer", by, at)
  BY WriteWrites DEF Doc!WriteTicket
<1>2. Ticketed'
  BY <1>1, NewDocument DEF Doc!WriteTicket, Ticketed, Doc!Privileged
<1> QED BY <1>1, <1>2, WriteStep DEF Doc!WriteTicket, Secured

LEMMA CompleteTicketStep ==
  ASSUME DocInv, Doc!BindingAssumption, NEW by \in Person, NEW at \in StatedTime,
         Doc!CompleteTicket(by, at)
  PROVE  DocInv'
<1>1. Wrote("completer", by, at)
  BY WriteWrites DEF Doc!CompleteTicket
<1>2. /\ Doc!Made("ticketer") /\ Doc!Made("trainer") /\ governed' = governed
      /\ Doc!By("registrar") = Doc!By("ticketer") /\ Doc!At("registrar") >= Doc!At("ticketer")
      /\ Doc!By("trainer") \notin Doc!Privileged \cup {Doc!By("ticketer")}
      /\ by \notin Doc!Privileged \cup {Doc!By("ticketer"), Doc!By("trainer")}
      /\ at >= Doc!At("trainer")
  BY Hand DEF Doc!CompleteTicket, Doc!LocalHandsAreFree
<1>3. Doc!Made("registrar")
  BY <1>2 DEF DocInv, TicketInv, Trained
<1>4. /\ Doc!Made("ticketer")' /\ Doc!By("ticketer")' = Doc!By("ticketer")
      /\ Doc!At("ticketer")' = Doc!At("ticketer")
      /\ Doc!Made("trainer")' /\ Doc!By("trainer")' = Doc!By("trainer")
      /\ Doc!At("trainer")' = Doc!At("trainer")
      /\ Doc!By("registrar")' = Doc!By("registrar")
      /\ Doc!At("registrar")' = Doc!At("registrar")
      /\ Doc!By("completer")' = by /\ Doc!At("completer")' = at
  BY <1>1, <1>2, <1>3, SameDocuments, NewDocument
<1>5. Completed'
  BY <1>2, <1>4 DEF Completed, Doc!Privileged
<1> QED BY <1>1, <1>2, <1>5, WriteStep DEF Secured

-----------------------------------------------------------------------------
LEMMA BindingStep == ASSUME DocInv, Doc!BindingAssumption, [Doc!Next]_(Doc!vars) PROVE DocInv'
<1>1. CASE Doc!EndGeneration
  BY <1>1, EndGenerationStep DEF Doc!EndGeneration
<1>2. ASSUME NEW by \in Person, NEW at \in StatedTime,
             Doc!TrainLocally(by, at) \/ Doc!WriteTicket(by, at) \/ Doc!CompleteTicket(by, at)
      PROVE  DocInv'
  BY <1>2, TrainLocallyStep, WriteTicketStep, CompleteTicketStep
<1>3. ASSUME NEW by \in Person, NEW at \in StatedTime,
             Doc!Attest(by, at) \/ Doc!WriteIntent(by, at) \/ Doc!Authorize(by, at)
              \/ Doc!BindResult(by, at)
      PROVE  DocInv'
  BY <1>3, AttestStep, WriteIntentStep, AuthorizationStep, BindResultStep
<1>4. ASSUME NEW by \in Person, NEW at \in StatedTime,
             Doc!WriteSpec(by, at) \/ Doc!ReviewContract(by, at) \/ Doc!VerifyPackage(by, at)
      PROVE  DocInv'
  BY <1>4, WriteSpecStep, ReviewContractStep, VerifyPackageStep
<1>5. ASSUME NEW by \in Person, NEW at \in StatedTime,
             Doc!BindAttested(by, at) \/ Doc!AcceptRuntime(by, at) \/ Doc!AcceptPackage(by, at)
      PROVE  DocInv'
  BY <1>5, BindAttestedStep, AcceptRuntimeStep, AcceptPackageStep
<1>6. ASSUME NEW by \in Person, NEW at \in StatedTime, Doc!Anchor(by, at) \/ Doc!Accept(by, at)
      PROVE  DocInv'
  BY <1>6, AnchorStep, AcceptStep
<1>7. CASE UNCHANGED Doc!vars
  BY <1>7, EndGenerationStep DEF Doc!vars
<1> QED BY <1>1, <1>2, <1>3, <1>4, <1>5, <1>6, <1>7 DEF Doc!Next

(* program_binding*.py and program_rl/: whoever writes which document, each *)
(* goes on to rest on what its maker verified.                              *)
THEOREM BindingInvariant ==
  ASSUME Doc!BindingAssumption
  PROVE  Doc!Spec => []DocInv
<1>1. Doc!Init => DocInv
  BY BindingStart
<1>2. DocInv /\ [Doc!Next]_(Doc!vars) => DocInv'
  BY BindingStep
<1> QED BY <1>1, <1>2, PTL DEF Doc!Spec

(* What stands behind evidence that was received.                           *)
LEMMA BehindReceiver ==
  ASSUME EvidenceInv, Doc!Made("receiver")
  PROVE  /\ Received /\ PackageAccepted /\ RuntimeAccepted /\ BoundAsAttested
         /\ Bound /\ Authorized /\ Intended /\ Attested
BY DEF EvidenceInv, Received, PackageAccepted, RuntimeAccepted, BoundAsAttested, Bound,
       Authorized, Intended

(* Each role and those whose maker has been found to be another one.        *)
Earlier(r) ==
  CASE r = "attestor" -> {}
    [] r = "author" -> {"attestor"}
    [] r = "authorizer" -> {"attestor", "author"}
    [] r = "executor" -> {"attestor", "author", "authorizer"}
    [] r = "verifier" -> {}
    [] r = "binder" -> {"attestor", "author", "authorizer", "executor", "verifier"}
    [] r = "specAuthor" -> {"attestor", "author", "authorizer", "executor", "verifier", "binder"}
    [] r = "reviewer" ->
         {"attestor", "author", "authorizer", "executor", "verifier", "binder", "specAuthor"}
    [] r = "runtimeAcceptor" ->
         {"attestor", "author", "authorizer", "executor", "verifier", "binder", "specAuthor",
          "reviewer"}
    [] r = "acceptor" ->
         {"attestor", "author", "authorizer", "executor", "verifier", "binder", "specAuthor",
          "reviewer", "runtimeAcceptor"}
    [] r = "receiver" -> Doc!Chain \ {"receiver"}

LEMMA OneBeforeTheOther ==
  ASSUME NEW r \in Doc!Chain, NEW q \in Doc!Chain, Doc!Apart(r, q)
  PROVE  r \in Earlier(q) \/ q \in Earlier(r)
BY DEF Doc!Chain, Doc!Apart, Earlier

LEMMA EarlierAreOthers ==
  ASSUME EvidenceInv, Doc!Made("receiver"), NEW r \in Doc!Chain, NEW q \in Earlier(r)
  PROVE  Doc!By(q) # Doc!By(r)
<1>1. Doc!By("attestor") \in governed
  BY BehindReceiver DEF Intended
<1>2. CASE r \in {"attestor", "author", "authorizer", "executor", "verifier"}
  BY <1>1, <1>2, BehindReceiver DEF Earlier, Intended, Authorized, Bound
<1>3. CASE r \in {"binder", "specAuthor", "reviewer"}
  BY <1>1, <1>3, BehindReceiver DEF Earlier, BoundAsAttested, RuntimeAccepted, Handlers
<1>4. CASE r = "runtimeAcceptor"
  BY <1>1, <1>4, BehindReceiver DEF Earlier, RuntimeAccepted, Handlers
<1>5. CASE r = "acceptor"
  BY <1>1, <1>5, BehindReceiver DEF Earlier, PackageAccepted, Handlers
<1>6. CASE r = "receiver"
  BY <1>1, <1>6, BehindReceiver DEF Earlier, Doc!Chain, Received, Handlers
<1> QED BY <1>2, <1>3, <1>4, <1>5, <1>6 DEF Doc!Chain

LEMMA PlannersAreFree ==
  ASSUME EvidenceInv, Doc!BindingAssumption, Doc!Made("receiver"),
         NEW r \in Doc!Chain \ {"verifier"}
  PROVE  Doc!By(r) \notin Origins
<1>1. Origins \subseteq governed /\ Origins \subseteq Handlers
  BY BehindReceiver DEF Intended, Handlers
<1>2. CASE r \in {"attestor", "author", "authorizer", "executor"}
  BY <1>1, <1>2, BehindReceiver DEF Attested, Intended, Authorized, Bound, Doc!BindingAssumption
<1>3. CASE r \in {"binder", "specAuthor", "reviewer", "runtimeAcceptor"}
  BY <1>1, <1>3, BehindReceiver DEF BoundAsAttested, RuntimeAccepted
<1>4. CASE r \in {"acceptor", "receiver"}
  BY <1>1, <1>4, BehindReceiver DEF PackageAccepted, Received
<1> QED BY <1>2, <1>3, <1>4 DEF Doc!Chain

LEMMA TimesFollow ==
  ASSUME EvidenceInv, Doc!Made("receiver"), NEW b \in Doc!Before
  PROVE  Doc!At(b[1]) <= Doc!At(b[2])
BY BehindReceiver DEF Doc!Before, Intended, Authorized, Bound, BoundAsAttested, RuntimeAccepted,
   PackageAccepted, Received

LEMMA ThreeOfThem ==
  ASSUME NEW a, NEW b, NEW c, a # b, a # c, b # c
  PROVE  Cardinality({a, b, c}) = 3
<1>1. IsFiniteSet({a}) /\ Cardinality({a}) = 1
  BY FS_Singleton
<1>2. IsFiniteSet({a} \cup {b}) /\ Cardinality({a} \cup {b}) = 2
  BY <1>1, FS_AddElement
<1>3. Cardinality(({a} \cup {b}) \cup {c}) = 3
  BY <1>2, FS_AddElement
<1>4. ({a} \cup {b}) \cup {c} = {a, b, c}
  OBVIOUS
<1> QED BY <1>3, <1>4

LEMMA DocSets == ASSUME NEW S PROVE Doc!Cardinality(S) = Cardinality(S)
BY DEF Doc!Cardinality, Cardinality

(* docs/24: whoever makes the documents, and whichever times they state,    *)
(* accepted evidence has gone through different hands in their order, none  *)
(* of which planned the generation; and a completed ticket was registered   *)
(* by who wrote it and trained by somebody who judged nothing.              *)
THEOREM TheTrainingIsGoverned ==
  ASSUME Doc!BindingAssumption
  PROVE  Doc!Spec => []Doc!TrainingIsGoverned
<1>1. DocInv => Doc!TrainingIsGoverned
  <2> SUFFICES ASSUME DocInv PROVE Doc!TrainingIsGoverned
    OBVIOUS
  <2>1. ASSUME Doc!Made("receiver")
        PROVE  /\ \A r, q \in Doc!Chain : Doc!Apart(r, q) => Doc!By(r) # Doc!By(q)
               /\ Origins \cap Doc!Hands(Doc!Chain \ {"verifier"}) = {}
               /\ Doc!By("anchorer") # Doc!By("receiver")
               /\ \A b \in Doc!Before : Doc!At(b[1]) <= Doc!At(b[2])
               /\ Doc!At("attestor") >= Started
    <3>1. EvidenceInv
      BY DEF DocInv
    <3>2. \A r, q \in Doc!Chain : Doc!Apart(r, q) => Doc!By(r) # Doc!By(q)
      BY <2>1, <3>1, OneBeforeTheOther, EarlierAreOthers
    <3>3. Origins \cap Doc!Hands(Doc!Chain \ {"verifier"}) = {}
      BY <2>1, <3>1, PlannersAreFree DEF Doc!Hands
    <3>4. Doc!By("anchorer") # Doc!By("receiver") /\ Doc!At("attestor") >= Started
      BY <2>1, <3>1, BehindReceiver DEF Received, Attested
    <3> QED BY <2>1, <3>1, <3>2, <3>3, <3>4, TimesFollow
  <2>2. ASSUME Doc!Made("completer")
        PROVE  /\ Doc!By("registrar") = Doc!By("ticketer")
               /\ Doc!At("registrar") >= Doc!At("ticketer")
               /\ Doc!Hands({"ticketer", "trainer", "completer"})
                    \cap (Origins \cup PlanApprovers) = {}
               /\ Doc!Cardinality(Doc!Hands({"ticketer", "trainer", "completer"})) = 3
               /\ Doc!At("ticketer") >= Started /\ Doc!At("completer") >= Doc!At("trainer")
    <3>1. Completed /\ Ticketed
      BY <2>2 DEF DocInv, TicketInv, Completed
    <3>2. Doc!Hands({"ticketer", "trainer", "completer"})
            = {Doc!By("ticketer"), Doc!By("trainer"), Doc!By("completer")}
      BY DEF Doc!Hands
    <3>3. Cardinality({Doc!By("ticketer"), Doc!By("trainer"), Doc!By("completer")}) = 3
      BY <3>1, ThreeOfThem, DocSets DEF Completed
    <3> QED BY <3>1, <3>2, <3>3, DocSets DEF Completed, Ticketed, Doc!Privileged
  <2> QED BY <2>1, <2>2 DEF Doc!TrainingIsGoverned
<1> QED BY <1>1, BindingInvariant, PTL
=============================================================================
