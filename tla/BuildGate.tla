------------------------------ MODULE BuildGate ------------------------------
(***************************************************************************)
(* The compiler's chain of files and the gate of a v3 build.               *)
(*                                                                         *)
(* Contracts, plans, reports and evaluations are kept in files named by a  *)
(* hash of their content; here an artifact is its own name. A file is      *)
(* written only if it is missing: write_text truncates it first, and its   *)
(* text arrives later. The files are in the job's repository, so that a    *)
(* hard reset can take some away. A v3 run checks the chain, reads the     *)
(* risk score and, above a threshold, an approval that expires, records    *)
(* the lineage and starts the build (build_v3.py, app/core/compiler/,      *)
(* app/core/build_approval.py).                                            *)
(***************************************************************************)
EXTENDS Integers, Sequences, FiniteSets

CONSTANTS
  Shapes,       \* of contracts: [stages : Nat, joins : Nat]
  Clusters,     \* [memory : Nat, rate : Nat], the rate of the whole cluster
  Thresholds,   \* of a policy: [mode, maxCost, maxRisk, maxFailure, minConfidence]
  Workers,
  HighRisk,     \* COPILOT_HIGH_RISK_APPROVAL_THRESHOLD, in percent
  TTL,          \* COPILOT_APPROVAL_TTL_SECONDS
  MaxTime,
  MaxFaults,    \* bound on crashes and on files that resets remove, together
  MaxRuns       \* bound: no request comes once this many lineages are recorded

\* MCServices assumes this of the instance it checks.
BuildGateAssumption ==
  /\ Shapes \subseteq [stages : Nat, joins : Nat]
  /\ Clusters \subseteq [memory : Nat, rate : Nat]
  /\ HighRisk \in Nat /\ TTL \in Nat
  /\ MaxTime \in Nat /\ MaxFaults \in Nat /\ MaxRuns \in Nat

VARIABLES
  whole, torn,  \* the files that hold their artifact, and the empty ones
  approvals,    \* the approval file of a plan
  lineage,      \* what was recorded in build_lineage/, and the runs that were started
  started,
  worker,
  now, crashes,
  grants,       \* history: the approvals that were given
  removed,      \* history: the files a reset has removed
  reopened      \* history: the files truncated when they were whole

vars == <<whole, torn, approvals, lineage, started, worker, now, crashes,
          grants, removed, reopened>>

-----------------------------------------------------------------------------
(* Artifacts. *)

Contracts == [kind : {"contract"}, shape : Shapes]
Plans == [kind : {"plan"}, contract : Contracts]
Reports == [kind : {"report"}, plan : Plans, cluster : Clusters]
Decisions == {"ALLOW", "WARN", "BLOCK"}
Evaluations == [kind : {"evaluation"}, contract : Contracts, plan : Plans,
                report : Reports, decision : Decisions]
Artifacts == Contracts \cup Plans \cup Reports \cup Evaluations

\* Minutes, in tenths, and cents: 2.5 minutes a stage, 3 more a shuffle; the
\* parallelism of a plan is always 200, so its factor is 1.
Runtime(r) == 25 * r.plan.contract.shape.stages + 30 * r.plan.contract.shape.joins
Cost(r) == (Runtime(r) * r.cluster.rate) \div 600

\* compute_risk, in percent.
Risk(r) ==
  (IF r.plan.contract.shape.joins > 2 THEN 25 ELSE 0)
    + (IF r.cluster.memory < 8 THEN 20 ELSE 0)
    + (IF Runtime(r) > 600 THEN 20 ELSE 0)
FailureProbability(r) == IF Risk(r) < 90 THEN Risk(r) ELSE 90
Confidence(r) ==
  LET rounded == (301 - 2 * Risk(r)) \div 3 IN IF rounded > 50 THEN rounded ELSE 50

\* PolicyBinding.evaluate: what the thresholds make of a report.
Decision(r, t) ==
  LET hard == \/ Cost(r) > t.maxCost
              \/ Risk(r) > t.maxRisk
              \/ FailureProbability(r) > t.maxFailure
      soft == Confidence(r) < t.minConfidence
      extreme == Risk(r) >= 90 \/ FailureProbability(r) >= 60
  IN CASE t.mode = "strict" /\ (hard \/ soft) -> "BLOCK"
       [] t.mode = "balanced" /\ hard -> "BLOCK"
       [] t.mode = "balanced" /\ ~hard /\ soft -> "WARN"
       [] t.mode = "permissive" /\ extreme -> "BLOCK"
       [] t.mode = "permissive" /\ ~extreme /\ (hard \/ soft) -> "WARN"
       [] OTHER -> "ALLOW"

\* What evaluate stores; the thresholds and the reasons are not in its hash.
Evaluated(c, p, r, t) ==
  [kind |-> "evaluation", contract |-> c, plan |-> p, report |-> r,
   decision |-> Decision(r, t)]

\* The files a request loads before it makes an artifact, in their order.
Needs(a) ==
  CASE a.kind = "contract" -> << >>
    [] a.kind = "plan" -> <<a.contract>>
    [] a.kind = "report" -> <<a.plan>>
    [] a.kind = "evaluation" -> <<a.contract, a.plan, a.report>>

Stored == whole \cup torn
Absent == -1
Empty == -2
NoArtifact == [kind |-> "none"]
Times == 0..MaxTime

Requests == [at : {"idle", "load", "open", "fill", "gate", "risk", "approval",
                   "record", "sign", "lost"},
             target : Artifacts \cup {NoArtifact}, todo : Seq(Artifacts), stamp : Times]

TypeOK ==
  /\ whole \subseteq Artifacts /\ torn \subseteq Artifacts /\ whole \cap torn = {}
  /\ approvals \in [Plans -> Times \cup {Absent, Empty}]
  /\ lineage \subseteq Evaluations
  /\ started \subseteq [eval : Evaluations, at : Times]
  /\ worker \in [Workers -> Requests]
  /\ now \in Times /\ crashes \in 0..MaxFaults
  /\ grants \subseteq Plans \X Times
  /\ removed \subseteq Artifacts /\ reopened \subseteq Artifacts

Idle == [at |-> "idle", target |-> NoArtifact, todo |-> << >>, stamp |-> 0]

Init ==
  /\ whole = {} /\ torn = {}
  /\ approvals = [p \in Plans |-> Absent]
  /\ lineage = {} /\ started = {}
  /\ worker = [w \in Workers |-> Idle]
  /\ now = 0 /\ crashes = 0
  /\ grants = {} /\ removed = {} /\ reopened = {}

-----------------------------------------------------------------------------
(* Requests on the chain. *)

At(w, step) == worker[w].at = step
GoTo(w, step) == worker' = [worker EXCEPT ![w].at = step]
Answer(w) == worker' = [worker EXCEPT ![w] = Idle]
Free(w) == At(w, "idle") /\ Cardinality(lineage) < MaxRuns
FaultsLeft == crashes + Cardinality(removed) < MaxFaults

\* POST contracts/create, plans/create, intelligence/analyze, policy/evaluate,
\* by hashes that may name anything.  What evaluate decides depends on the
\* report; it does not ask whether the report is of the plan, or the plan of the
\* contract.  A request for a file that is there, and that no reset can take away
\* any more, changes nothing and is left out.
Post(w, a) ==
  /\ Free(w) /\ (a \in Stored => FaultsLeft)
  /\ worker' = [worker EXCEPT ![w] =
       [@ EXCEPT !.at = "load", !.target = a, !.todo = Needs(a)]]
  /\ UNCHANGED <<whole, torn, approvals, lineage, started, now, crashes,
                 grants, removed, reopened>>

PostContract(w) == \E c \in Contracts : Post(w, c)
PostPlan(w) == \E c \in Contracts : Post(w, [kind |-> "plan", contract |-> c])
PostReport(w) == \E p \in Plans, k \in Clusters :
  Post(w, [kind |-> "report", plan |-> p, cluster |-> k])
PostEvaluation(w) == \E c \in Contracts, p \in Plans, r \in Reports, t \in Thresholds :
  Post(w, Evaluated(c, p, r, t))

\* Mutant of Load: what is missing is left out.
LoadWhatThereIs(w) ==
  /\ At(w, "load") /\ worker[w].todo # << >>
  /\ IF Head(worker[w].todo) \notin torn
     THEN worker' = [worker EXCEPT ![w].todo = Tail(@)]
     ELSE Answer(w)
  /\ UNCHANGED <<whole, torn, approvals, lineage, started, now, crashes,
                 grants, removed, reopened>>

\* load_contract, load_plan, _load_intelligence_report: what is not there is
\* refused, and JSON in an empty file raises.
Load(w) ==
  /\ At(w, "load") /\ worker[w].todo # << >>
  /\ IF Head(worker[w].todo) \in whole
     THEN worker' = [worker EXCEPT ![w].todo = Tail(@)]
     ELSE Answer(w)
  /\ UNCHANGED <<whole, torn, approvals, lineage, started, now, crashes,
                 grants, removed, reopened>>

\* Everything is loaded: is the file there already?
Test(w) ==
  /\ At(w, "load") /\ worker[w].todo = << >>
  /\ IF worker[w].target \in Stored THEN Answer(w) ELSE GoTo(w, "open")
  /\ UNCHANGED <<whole, torn, approvals, lineage, started, now, crashes,
                 grants, removed, reopened>>

\* Mutant of Open: the request ends while the text is still in a buffer.
OpenUnflushed(w) ==
  LET a == worker[w].target IN
  /\ At(w, "open")
  /\ whole' = whole \ {a} /\ torn' = torn \cup {a}
  /\ reopened' = reopened \cup (whole \cap {a})
  /\ Answer(w)
  /\ UNCHANGED <<approvals, lineage, started, now, crashes, grants, removed>>

\* write_text opens the file, whatever it holds by now.
Open(w) ==
  LET a == worker[w].target IN
  /\ At(w, "open")
  /\ whole' = whole \ {a} /\ torn' = torn \cup {a}
  /\ reopened' = reopened \cup (whole \cap {a})
  /\ GoTo(w, "fill")
  /\ UNCHANGED <<approvals, lineage, started, now, crashes, grants, removed>>

Fill(w) ==
  LET a == worker[w].target IN
  /\ At(w, "fill")
  /\ whole' = whole \cup {a} /\ torn' = torn \ {a}
  /\ Answer(w)
  /\ UNCHANGED <<approvals, lineage, started, now, crashes,
                 grants, removed, reopened>>

-----------------------------------------------------------------------------
(* Approvals. *)

\* POST approvals: the time is taken, the file truncated; then it is filled.
Sign(w, p) ==
  /\ Free(w)
  /\ approvals' = [approvals EXCEPT ![p] = Empty]
  /\ worker' = [worker EXCEPT ![w] = [@ EXCEPT !.at = "sign", !.target = p, !.stamp = now]]
  /\ UNCHANGED <<whole, torn, lineage, started, now, crashes,
                 grants, removed, reopened>>

Signed(w) ==
  LET p == worker[w].target IN
  /\ At(w, "sign")
  /\ approvals' = [approvals EXCEPT ![p] = worker[w].stamp]
  /\ grants' = grants \cup {<<p, worker[w].stamp>>}
  /\ Answer(w)
  /\ UNCHANGED <<whole, torn, lineage, started, now, crashes, removed, reopened>>

\* The file was unlinked between the two: the text of the approval, or of the
\* artifact, goes nowhere.
WrittenInVain(w) ==
  /\ At(w, "lost") /\ Answer(w)
  /\ UNCHANGED <<whole, torn, approvals, lineage, started, now, crashes,
                 grants, removed, reopened>>

\* revoke_approval unlinks the file, under a signer that holds it open, too.
Unlink(p) ==
  /\ approvals' = [approvals EXCEPT ![p] = Absent]
  /\ worker' = [v \in Workers |->
       IF At(v, "sign") /\ worker[v].target = p
       THEN [worker[v] EXCEPT !.at = "lost"] ELSE worker[v]]

\* DELETE approvals; a plan that has none is not found.
Revoke(w, p) ==
  /\ Free(w) /\ approvals[p] # Absent
  /\ Unlink(p)
  /\ UNCHANGED <<whole, torn, lineage, started, now, crashes,
                 grants, removed, reopened>>

\* get_approval finds a file it can read, no older than the TTL.
InForce(p) == approvals[p] \notin {Absent, Empty} /\ now - approvals[p] <= TTL

-----------------------------------------------------------------------------
(* POST /api/v3/build/run *)

\* The contract and the plan are the evaluation's: with any other hashes the
\* cross-link check refuses the run.
Run(w, e) ==
  /\ Free(w) /\ e \in Stored
  /\ worker' = [worker EXCEPT ![w] =
       [@ EXCEPT !.at = "gate", !.target = e, !.todo = <<e.contract, e.plan>>]]
  /\ UNCHANGED <<whole, torn, approvals, lineage, started, now, crashes,
                 grants, removed, reopened>>

GateLoad(w) ==
  /\ At(w, "gate") /\ worker[w].todo # << >>
  /\ IF Head(worker[w].todo) \in whole
     THEN worker' = [worker EXCEPT ![w].todo = Tail(@)]
     ELSE Answer(w)
  /\ UNCHANGED <<whole, torn, approvals, lineage, started, now, crashes,
                 grants, removed, reopened>>

\* The rest of validate_inputs: the report's file exists, the evaluation can be
\* read and does not block.
Pass(w) ==
  LET e == worker[w].target IN
  /\ At(w, "gate") /\ worker[w].todo = << >>
  /\ IF e.report \in Stored /\ e \in whole /\ e.decision # "BLOCK"
     THEN GoTo(w, "risk") ELSE Answer(w)
  /\ UNCHANGED <<whole, torn, approvals, lineage, started, now, crashes,
                 grants, removed, reopened>>

\* Mutant of NeedsApproval: the comparison is strict.
NeedsApprovalAbove(r) == r \in whole /\ Risk(r) > HighRisk

\* _risk_score_for_job and evaluate_high_risk_requirement: a report that cannot
\* be read has no score, and without a score no approval is asked for.
NeedsApproval(r) == r \in whole /\ Risk(r) >= HighRisk

ReadRisk(w) ==
  /\ At(w, "risk")
  /\ IF NeedsApproval(worker[w].target.report) THEN GoTo(w, "approval") ELSE GoTo(w, "record")
  /\ UNCHANGED <<whole, torn, approvals, lineage, started, now, crashes,
                 grants, removed, reopened>>

ReadApproval(w) ==
  /\ At(w, "approval")
  /\ IF InForce(worker[w].target.plan)
     THEN worker' = [worker EXCEPT ![w] = [@ EXCEPT !.at = "record", !.stamp = now]]
     ELSE Answer(w)
  /\ UNCHANGED <<whole, torn, approvals, lineage, started, now, crashes,
                 grants, removed, reopened>>

\* record_lineage: a file with a name of its own, kept here by what it is about.
RecordLineage(e) == lineage' = lineage \cup {e}

\* The lineage; then, for ALLOW only, the runner, which starts a v2 build if
\* the workspace holds a specification it can read.
Record(w) ==
  LET e == worker[w].target IN
  /\ At(w, "record")
  /\ RecordLineage(e)
  /\ \/ e.decision = "ALLOW" /\ started' = started \cup {[eval |-> e, at |-> worker[w].stamp]}
     \/ UNCHANGED started
  /\ Answer(w)
  /\ UNCHANGED <<whole, torn, approvals, now, crashes,
                 grants, removed, reopened>>

-----------------------------------------------------------------------------
\* A hard reset of the repository component (repo_manager.py, hard_reset), one
\* file of it: a file that the ref's tree does not have goes.  A writer that holds
\* it open writes to one that is gone.  The approvals are not in the job's
\* repository.  Files of a chain that the ref's tree has, and that a reset would
\* put there, are not modelled.
Reset(a) ==
  /\ a \in Stored /\ FaultsLeft
  /\ whole' = whole \ {a} /\ torn' = torn \ {a} /\ removed' = removed \cup {a}
  /\ worker' = [v \in Workers |->
       IF At(v, "fill") /\ worker[v].target = a
       THEN [worker[v] EXCEPT !.at = "lost"] ELSE worker[v]]
  /\ UNCHANGED <<approvals, lineage, started, now, crashes, grants, reopened>>

Tick ==
  /\ now < MaxTime /\ now' = now + 1
  /\ UNCHANGED <<whole, torn, approvals, lineage, started, worker, crashes,
                 grants, removed, reopened>>

\* The process dies; what was truncated stays empty.
Crash ==
  /\ FaultsLeft /\ crashes' = crashes + 1
  /\ worker' = [w \in Workers |-> Idle]
  /\ UNCHANGED <<whole, torn, approvals, lineage, started, now, grants, removed, reopened>>

Step(w) ==
  \/ PostContract(w) \/ PostPlan(w) \/ PostReport(w) \/ PostEvaluation(w)
  \/ Load(w) \/ Test(w) \/ Open(w) \/ Fill(w)
  \/ \E p \in Plans : Sign(w, p) \/ Revoke(w, p)
  \/ Signed(w) \/ WrittenInVain(w)
  \/ \E e \in Evaluations : Run(w, e)
  \/ GateLoad(w) \/ Pass(w) \/ ReadRisk(w) \/ ReadApproval(w) \/ Record(w)

Next ==
  \/ \E w \in Workers : Step(w)
  \/ \E a \in Artifacts : Reset(a)
  \/ Tick \/ Crash

Spec == Init /\ [][Next]_vars

-----------------------------------------------------------------------------
(* Properties. *)

\* Whatever a request has written, the files it was made from are on disk too,
\* empty or not, or a reset has removed them: no hash of nothing enters the chain,
\* which validate_inputs relies on (plan_engine.py:32, policy_binding.py:43).
ChainsClosed ==
  \A a \in Stored : \A i \in DOMAIN Needs(a) : Needs(a)[i] \in Stored \cup removed

\* While no process has died, an empty file is one that a request is about to
\* fill, whatever resets remove: "stored" will be true (contract_engine.py:23 and
\* its three likes).
TornAreBeingFilled ==
  crashes = 0 =>
    \A a \in torn : \E w \in Workers : At(w, "fill") /\ worker[w].target = a

\* A build at or above the threshold was started on an approval of its plan
\* that was no older than the TTL when it was read (RUNBOOK.md, build_v3.py:65),
\* unless a second writer had emptied the report it was judged by, or a reset had
\* removed it.
HighRiskApproved ==
  \A b \in started :
    LET r == b.eval.report IN
    Risk(r) >= HighRisk /\ r \notin reopened \cup removed =>
      \E g \in grants : g[1] = b.eval.plan /\ b.at - g[2] \in 0..TTL

=============================================================================
