--------------------------- MODULE ChampionRegistry ---------------------------
(***************************************************************************)
(* SQLiteChampionRegistry (src/evoagent/champion/repository_lifecycle.py   *)
(* and repository.py): the snapshots of one family, the pointer to its     *)
(* active Champion and the stored selection decisions, in a database of    *)
(* its own.  Each method is one transaction; its audit events, which only  *)
(* verify_audit reads, are left out.                                       *)
(*                                                                         *)
(* A selection decision is a value: base[d] and sel[d] are its baseline    *)
(* and selected snapshots.  Decisions bind evidence of one benchmark       *)
(* package, so that comparing decisions compares run and package hashes.   *)
(***************************************************************************)
EXTENDS Campaigns

CONSTANTS Snapshot, NoSnapshot, Decision, NoDecision, NoCampaign, base, sel

RegistryAssumption ==
  /\ base \in [Decision -> Snapshot] /\ sel \in [Decision -> Snapshot]
  /\ \A d \in Decision : base[d] # sel[d]
  /\ NoSnapshot \notin Snapshot /\ NoDecision \notin Decision
  /\ NoCampaign \notin CampaignId

VARIABLES snap,  \* champion_snapshots: the record of each snapshot, or NoRecord
          head,  \* champion_heads: the active snapshot and the revision
          decs   \* champion_decisions
registryVars == <<snap, head, decs>>

Statuses == {"champion", "challenger", "evaluated", "authorized", "retired",
             "rolled_back"}

Record == [status: Statuses, parent: Snapshot \cup {NoSnapshot},
           dec: Decision \cup {NoDecision}, camp: CampaignId \cup {NoCampaign}]
NoRecord == [status |-> "absent"]

RegistryTypeOK ==
  /\ snap \in [Snapshot -> Record \cup {NoRecord}]
  /\ head \in [active: Snapshot \cup {NoSnapshot}, rev: Nat]
  /\ decs \subseteq Decision

RegistryInit ==
  /\ snap = [s \in Snapshot |-> NoRecord]
  /\ head = [active |-> NoSnapshot, rev |-> 0]
  /\ decs = {}

RegisterInitial(s) ==
  /\ head.active = NoSnapshot
  /\ snap' = [snap EXCEPT ![s] = [status |-> "champion", parent |-> NoSnapshot,
                                  dec |-> NoDecision, camp |-> NoCampaign]]
  /\ head' = [active |-> s, rev |-> 0]
  /\ UNCHANGED decs

StoreDecision(d) ==
  /\ decs' = decs \cup {d}
  /\ UNCHANGED <<snap, head>>

Admitted(d, c) == [status |-> "challenger", parent |-> base[d], dec |-> d, camp |-> c]

(* A snapshot admitted before must have been admitted by the same decision  *)
(* under the same campaign; whatever became of it since is left as it is.   *)
AdmitChallenger(d, c) ==
  /\ IF snap[sel[d]] = NoRecord
     THEN /\ head.active = base[d]
          /\ snap' = [snap EXCEPT ![sel[d]] = Admitted(d, c)]
     ELSE /\ [snap[sel[d]] EXCEPT !.status = "challenger"] = Admitted(d, c)
          /\ UNCHANGED snap
  /\ UNCHANGED <<head, decs>>

RecordEvaluation(d) ==
  /\ snap[sel[d]].status \in {"challenger", "evaluated", "authorized", "champion",
                              "rolled_back"}
  /\ snap[sel[d]].dec = d
  /\ snap' = IF snap[sel[d]].status = "challenger"
             THEN [snap EXCEPT ![sel[d]].status = "evaluated"] ELSE snap
  /\ UNCHANGED <<head, decs>>

MarkAuthorized(s, c) ==
  /\ snap[s].status \in {"evaluated", "authorized", "champion", "rolled_back"}
  /\ snap[s].camp = c
  /\ snap' = IF snap[s].status = "evaluated"
             THEN [snap EXCEPT ![s].status = "authorized"] ELSE snap
  /\ UNCHANGED <<head, decs>>

MovePointer(s, left) ==
  /\ snap' = [snap EXCEPT ![head.active].status = left, ![s].status = "champion"]
  /\ head' = [active |-> s, rev |-> head.rev + 1]
  /\ UNCHANGED decs

MayActivate_AnyParent(s, c) == snap[s].status = "authorized" /\ snap[s].camp = c
MayActivate(s, c) ==
  /\ snap[s].status = "authorized"
  /\ snap[s].camp = c
  /\ snap[s].parent = head.active

ActivateSnapshot(s, c, rev) ==
  /\ head.rev = rev
  /\ MayActivate(s, c)
  /\ MovePointer(s, "retired")

MayRollBack(to) ==
  /\ snap[head.active].status = "champion"
  /\ snap[to].status = "retired"
  /\ snap[head.active].parent = to

RollBack(to, rev) ==
  /\ head.active # NoSnapshot
  /\ head.rev = rev
  /\ MayRollBack(to)
  /\ MovePointer(to, "rolled_back")

-----------------------------------------------------------------------------
(* SQLiteChampionRegistry.verify_state *)

StateVerifies ==
  head.active # NoSnapshot =>
    /\ {s \in Snapshot : snap[s].status = "champion"} = {head.active}
    /\ \A s \in Snapshot : snap[s] # NoRecord /\ snap[s].dec # NoDecision =>
                             snap[s].dec \in decs
=============================================================================
