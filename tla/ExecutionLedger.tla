--------------------------- MODULE ExecutionLedger ---------------------------
(***************************************************************************)
(* Commands that other people approve before the framework executes them   *)
(* (src/evoagent/execution/, integrations/harbor.py, resource2skill.py,    *)
(* training/ml_intern.py): a request is valid for a window of time, an     *)
(* authorization is the request with approvals of it, a preflight looks at *)
(* the machine without executing anything, and the ledger lets every       *)
(* authorization be used once.                                             *)
(*                                                                         *)
(* An authorization is identified by its hash, that is by its request and  *)
(* the approvals in it: two sets of approvals of one request are two       *)
(* authorizations.  Each step of a process is one read, one transaction or *)
(* one act of the child process; processes stop anywhere.                  *)
(***************************************************************************)
EXTENDS Integers, FiniteSets

CONSTANTS
  Request, Person, Process,
  requester,  \* who makes each request
  highRisk,   \* the requests that use a network, upload, publish, train or cost
  issued, expires,       \* the window of each request: [Request -> time]
  emptyWorkspace,        \* the requests whose workspace must be empty
  Freshness,  \* freshness_seconds of a preflight
  MaxTime     \* bound: the clock

ExecutionAssumption ==
  /\ requester \in [Request -> Person] /\ highRisk \subseteq Request
  /\ emptyWorkspace \subseteq Request
  /\ issued \in [Request -> Nat] /\ expires \in [Request -> Nat]
  /\ \A r \in Request : issued[r] < expires[r]
  /\ Freshness \in Nat \ {0} /\ MaxTime \in Nat

VARIABLES now,
          given,   \* the approvals that were given
          ledger,  \* the rows of execution_uses
          dirty,   \* whether something is in the workspace, which the requests share
          job,     \* what each process does
          begun    \* the executions that began: authorization, process and time
vars == <<now, given, ledger, dirty, job, begun>>

(* Who gave it, about what, when as they say and when as a clock would.     *)
Approval == [req: Request, by: Person, at: 0..MaxTime, cast: 0..MaxTime]
Idle == [pc |-> "idle"]

Init ==
  /\ now = 0 /\ given = {} /\ ledger = {} /\ dirty = FALSE /\ begun = {}
  /\ job = [p \in Process |-> Idle]

-----------------------------------------------------------------------------
(* Authorizations *)

RequiredApprovals(r) == IF r \in highRisk THEN 2 ELSE 1

InWindow(r, t) == issued[r] <= t /\ t < expires[r]

(* _validate_approvals: in any number, but of distinct people.              *)
ApprovalsAreValid(a) ==
  /\ Cardinality(a.votes) >= RequiredApprovals(a.req)
  /\ Cardinality({v.by : v \in a.votes}) = Cardinality(a.votes)
  /\ \A v \in a.votes :
       v.by # requester[a.req] /\ v.req = a.req /\ InWindow(a.req, v.at)

(* approve() takes the word of whoever calls it, about any request and its  *)
(* own time; what is said twice is one approval.                            *)
Approve(r, a, t) ==
  /\ ~\E v \in given : v.req = r /\ v.by = a /\ v.at = t
  /\ given' = given \cup {[req |-> r, by |-> a, at |-> t, cast |-> now]}
  /\ UNCHANGED <<now, ledger, dirty, job, begun>>

(* What can be authorized with the approvals there are.                     *)
Authorizations ==
  {a \in [req: Request, votes: SUBSET given] : ApprovalsAreValid(a)}

-----------------------------------------------------------------------------
(* execute() of an adapter: preflight, claim, run, complete                 *)

Continue(p, new) == job' = [job EXCEPT ![p] = new]
At(p, pc) == job[p].pc = pc
Uses(a) == {u \in ledger : u.auth = a}

Preflight(p, a) ==
  /\ job[p] = Idle
  /\ InWindow(a.req, now)
  /\ a.req \in emptyWorkspace => ~dirty
  /\ LET fresh == now + Freshness
     IN Continue(p, [pc |-> "claim", auth |-> a, checked |-> now,
                     until |-> IF fresh < expires[a.req] THEN fresh ELSE expires[a.req]])
  /\ UNCHANGED <<now, given, ledger, dirty, begun>>

(* The authorization and the preflight are verified again, the workspace is *)
(* not looked at again; then the transaction.                               *)
ClaimIsTimely(p) ==
  /\ InWindow(job[p].auth.req, now)
  /\ job[p].checked <= now /\ now < job[p].until

UseIsRefused_OnceCompleted(a) == \E u \in Uses(a) : u.status \in {"claimed", "completed"}
UseIsRefused(a) == Uses(a) # {}

Claim(p) ==
  /\ At(p, "claim")
  /\ LET a == job[p].auth
     IN IF ClaimIsTimely(p) /\ ~UseIsRefused(a)
        THEN /\ ledger' = (ledger \ Uses(a)) \cup {[auth |-> a, status |-> "claimed", at |-> now]}
             /\ Continue(p, [job[p] EXCEPT !.pc = "run"])
        ELSE /\ Continue(p, Idle)
             /\ UNCHANGED ledger
  /\ UNCHANGED <<now, given, dirty, begun>>

(* The child process begins, and leaves files behind; or it cannot begin,   *)
(* which the return code 127 says.                                          *)
Run(p) ==
  /\ At(p, "run")
  /\ begun' = begun \cup {[auth |-> job[p].auth, by |-> p, at |-> now, checked |-> job[p].checked]}
  /\ dirty' = TRUE
  /\ Continue(p, [job[p] EXCEPT !.pc = "complete"])
  /\ UNCHANGED <<now, given, ledger>>

CannotRun(p) ==
  /\ At(p, "run")
  /\ Continue(p, [job[p] EXCEPT !.pc = "complete"])
  /\ UNCHANGED <<now, given, ledger, dirty, begun>>

(* complete(): the return code, or that of a timeout, is no success.        *)
Complete(p) ==
  /\ At(p, "complete")
  /\ \E u \in Uses(job[p].auth), done \in {"completed", "failed"} :
       /\ u.status = "claimed"
       /\ done = "completed" => \E b \in begun : b.auth = u.auth /\ b.by = p
       /\ ledger' = (ledger \ {u}) \cup {[u EXCEPT !.status = done]}
  /\ Continue(p, Idle)
  /\ UNCHANGED <<now, given, dirty, begun>>

Stop(p) ==
  /\ job[p] # Idle
  /\ Continue(p, Idle)
  /\ UNCHANGED <<now, given, ledger, dirty, begun>>

(* People clear the workspace.                                              *)
Clear ==
  /\ dirty
  /\ dirty' = FALSE
  /\ UNCHANGED <<now, given, ledger, job, begun>>

Tick ==
  /\ now < MaxTime
  /\ now' = now + 1
  /\ UNCHANGED <<given, ledger, dirty, job, begun>>

Next ==
  \/ \E r \in Request, a \in Person, t \in 0..MaxTime : Approve(r, a, t)
  \/ \E p \in Process :
       \/ \E a \in Authorizations : Preflight(p, a)
       \/ Claim(p) \/ Run(p) \/ CannotRun(p) \/ Complete(p) \/ Stop(p)
  \/ Clear \/ Tick

Spec == Init /\ [][Next]_vars

-----------------------------------------------------------------------------
(* Properties *)

(* docs/12, One-use execution ledger: whatever processes race for it, stop  *)
(* or fail, what an authorization allows begins once, after a preflight of  *)
(* that request no older than its freshness when it was claimed, and only   *)
(* if as many others as it takes had by then approved that very request, as *)
(* of a time in its window.                                                 *)
ExecutionsAreAuthorized ==
  \A b \in begun :
    /\ \A c \in begun : c.auth = b.auth => c = b
    /\ \E u \in Uses(b.auth) :
         /\ b.checked <= u.at /\ u.at < b.checked + Freshness
         /\ u.at <= b.at /\ u.at < expires[b.auth.req]
         /\ Cardinality({v.by : v \in {w \in b.auth.votes :
                           /\ w.req = b.auth.req /\ w.cast <= b.checked
                           /\ InWindow(w.req, w.at)
                           /\ w.by # requester[b.auth.req]}})
              >= RequiredApprovals(b.auth.req)
=============================================================================
