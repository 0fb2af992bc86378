---------------------------- MODULE ServicesProofs ----------------------------
(***************************************************************************)
(* What is proved of the services TLC checks in MCServices.  A behaviour   *)
(* is one of a single service, and keeps that service's inductive          *)
(* invariant.                                                              *)
(*                                                                         *)
(* The gate, the v2 build and the gateway have modules of proofs of their  *)
(* own; a second instance of each gives their invariants here, and the     *)
(* first lemmas say that the two instances are the same system.  The       *)
(* advisors, the request path, the registry of models and the federation   *)
(* are proved in place, each in its section.                               *)
(***************************************************************************)
EXTENDS MCServices, FiniteSetTheorems, SequenceTheorems, TLAPS

GateP == INSTANCE BuildGateProofs WITH
  worker <- gateWorker, now <- gateNow, crashes <- gateCrashes,
  MaxTime <- GateTime, MaxRuns <- GateRuns, MaxFaults <- GateFaults
PipelineP == INSTANCE BuildPipelineProofs WITH
  plans <- buildPlans, worker <- buildWorker, crashes <- buildCrashes,
  overlapped <- buildOverlaps
AIP == INSTANCE AIGatewayProofs WITH
  worker <- aiWorker, requests <- aiCount, crashes <- aiCrashes,
  MaxRequests <- AIRequests

-----------------------------------------------------------------------------
(* The instances agree. *)

\* The gate's contracts, plans, reports and evaluations.
LEMMA SameArtifacts ==
  /\ Gate!Contracts = GateP!Contracts /\ Gate!Plans = GateP!Plans
  /\ Gate!Idle = GateP!Idle
BY DEF Gate!Contracts, GateP!Contracts, Gate!Idle, GateP!Idle, Gate!NoArtifact,
     GateP!NoArtifact, Gate!Plans, GateP!Plans

\* When the gate takes a request, and when it may still lose a file or a process.
LEMMA SameGuards ==
  /\ \A w : Gate!Free(w) <=> GateP!Free(w)
  /\ Gate!FaultsLeft <=> GateP!FaultsLeft
BY DEF Gate!Free, GateP!Free, Gate!FaultsLeft, GateP!FaultsLeft, Gate!At, GateP!At,
       Gate!Cardinality, GateP!Cardinality

\* The gate.
LEMMA SameGate ==
  /\ Gate!BuildGateAssumption <=> GateP!BuildGateAssumption
  /\ Gate!Init <=> GateP!Init
  /\ [Gate!Next]_gateVars <=> [GateP!Next]_(GateP!vars)
<1>1. Gate!BuildGateAssumption <=> GateP!BuildGateAssumption
  BY SameArtifacts DEF Gate!BuildGateAssumption, GateP!BuildGateAssumption
<1>2. Gate!Init <=> GateP!Init
  BY SameArtifacts DEF Gate!Init, GateP!Init, Gate!Absent, GateP!Absent
<1>3. Gate!Next <=> GateP!Next
  <2>1. \A w : /\ Gate!PostContract(w) <=> GateP!PostContract(w)
               /\ Gate!PostPlan(w) <=> GateP!PostPlan(w)
    BY SameGuards DEF Gate!Contracts, GateP!Contracts, Gate!Needs,
       GateP!Needs, Gate!Post, GateP!Post, Gate!PostContract,
       GateP!PostContract, Gate!PostPlan, GateP!PostPlan, Gate!Stored,
       GateP!Stored
  <2>2. \A w : Gate!PostReport(w) <=> GateP!PostReport(w)
    <3>1. \A w, a : Gate!Post(w, a) <=> GateP!Post(w, a)
      BY SameGuards DEF Gate!Post, GateP!Post, Gate!Needs, GateP!Needs, Gate!Stored, GateP!Stored
    <3> QED BY <3>1, SameArtifacts DEF Gate!PostReport, GateP!PostReport
  <2>3. \A w : Gate!PostEvaluation(w) <=> GateP!PostEvaluation(w)
    <3>1. \A r : /\ Gate!Cost(r) = GateP!Cost(r) /\ Gate!Risk(r) = GateP!Risk(r)
      BY DEF Gate!Cost, GateP!Cost, Gate!Risk, GateP!Risk, Gate!Runtime, GateP!Runtime
    <3>2. \A r : /\ Gate!FailureProbability(r) = GateP!FailureProbability(r)
                /\ Gate!Confidence(r) = GateP!Confidence(r)
      BY <3>1 DEF Gate!FailureProbability, GateP!FailureProbability,
         Gate!Confidence, GateP!Confidence
    <3>3. \A r, t : Gate!Decision(r, t) = GateP!Decision(r, t)
      BY <3>1, <3>2 DEF Gate!Decision, GateP!Decision
    <3>4. \A c, p, r, t : Gate!Evaluated(c, p, r, t) = GateP!Evaluated(c, p, r, t)
      BY <3>3 DEF Gate!Evaluated, GateP!Evaluated
    <3>5. Gate!Reports = GateP!Reports
      BY SameArtifacts DEF Gate!Reports, GateP!Reports
    <3>6. \A w, a : Gate!Post(w, a) <=> GateP!Post(w, a)
      BY SameGuards DEF Gate!Post, GateP!Post, Gate!Needs, GateP!Needs,
         Gate!Stored, GateP!Stored
    <3> QED BY <3>4, <3>5, <3>6, SameArtifacts DEF Gate!PostEvaluation, GateP!PostEvaluation
  <2>4. \A w : /\ Gate!Load(w) <=> GateP!Load(w)
               /\ Gate!Test(w) <=> GateP!Test(w)
               /\ Gate!Open(w) <=> GateP!Open(w)
               /\ Gate!Fill(w) <=> GateP!Fill(w)
    BY DEF Gate!Answer, GateP!Answer, Gate!At, GateP!At, Gate!Fill,
       GateP!Fill, Gate!GoTo, GateP!GoTo, Gate!Idle, GateP!Idle, Gate!Load,
       GateP!Load, Gate!NoArtifact, GateP!NoArtifact, Gate!Open, GateP!Open, Gate!Stored,
       GateP!Stored, Gate!Test, GateP!Test
  <2>5. \A w : /\ Gate!Signed(w) <=> GateP!Signed(w)
               /\ Gate!WrittenInVain(w) <=> GateP!WrittenInVain(w)
    BY DEF Gate!Answer, GateP!Answer, Gate!At, GateP!At, Gate!Idle,
       GateP!Idle, Gate!NoArtifact, GateP!NoArtifact, Gate!Signed, GateP!Signed,
       Gate!WrittenInVain, GateP!WrittenInVain
  <2>6. \A w : /\ Gate!GateLoad(w) <=> GateP!GateLoad(w)
               /\ Gate!Pass(w) <=> GateP!Pass(w)
    BY DEF Gate!Answer, GateP!Answer, Gate!At, GateP!At, Gate!GateLoad,
       GateP!GateLoad, Gate!GoTo, GateP!GoTo, Gate!Idle, GateP!Idle,
       Gate!NoArtifact, GateP!NoArtifact, Gate!Pass, GateP!Pass, Gate!Stored, GateP!Stored
  <2>7. \A w : /\ Gate!ReadRisk(w) <=> GateP!ReadRisk(w)
               /\ Gate!ReadApproval(w) <=> GateP!ReadApproval(w)
    BY DEF Gate!Absent, GateP!Absent, Gate!Answer, GateP!Answer, Gate!At,
       GateP!At, Gate!Empty, GateP!Empty, Gate!GoTo, GateP!GoTo, Gate!Idle,
       GateP!Idle, Gate!InForce, GateP!InForce, Gate!NeedsApproval,
       GateP!NeedsApproval, Gate!NoArtifact, GateP!NoArtifact, Gate!ReadApproval,
       GateP!ReadApproval, Gate!ReadRisk, GateP!ReadRisk, Gate!Risk,
       GateP!Risk, Gate!Runtime, GateP!Runtime
  <2>8. \A w : Gate!Record(w) <=> GateP!Record(w)
    BY DEF Gate!Answer, GateP!Answer, Gate!At, GateP!At, Gate!Idle,
       GateP!Idle, Gate!NoArtifact, GateP!NoArtifact, Gate!Record, GateP!Record,
       Gate!RecordLineage, GateP!RecordLineage
  <2>9. \A w, p : /\ Gate!Sign(w, p) <=> GateP!Sign(w, p)
                  /\ Gate!Revoke(w, p) <=> GateP!Revoke(w, p)
    BY SameGuards DEF Gate!Absent, GateP!Absent, Gate!At, GateP!At, Gate!Empty,
       GateP!Empty, Gate!Revoke, GateP!Revoke, Gate!Sign, GateP!Sign,
       Gate!Unlink, GateP!Unlink
  <2>10. \A w, e : Gate!Run(w, e) <=> GateP!Run(w, e)
    BY SameGuards DEF Gate!Run, GateP!Run, Gate!Stored, GateP!Stored
  <2>11. (Gate!Tick <=> GateP!Tick) /\ (Gate!Crash <=> GateP!Crash)
    BY SameArtifacts, SameGuards DEF Gate!Tick, GateP!Tick, Gate!Crash, GateP!Crash
  <2>12. Gate!Evaluations = GateP!Evaluations
    BY DEF Gate!Contracts, GateP!Contracts, Gate!Decisions, GateP!Decisions,
       Gate!Evaluations, GateP!Evaluations, Gate!Plans, GateP!Plans,
       Gate!Reports, GateP!Reports
  <2>13. \A w : Gate!Step(w) <=> GateP!Step(w)
    <3> TAKE w
    <3>1. /\ Gate!PostContract(w) <=> GateP!PostContract(w)
          /\ Gate!PostPlan(w) <=> GateP!PostPlan(w)
          /\ Gate!PostReport(w) <=> GateP!PostReport(w)
          /\ Gate!PostEvaluation(w) <=> GateP!PostEvaluation(w)
          /\ Gate!Load(w) <=> GateP!Load(w)
          /\ Gate!Test(w) <=> GateP!Test(w)
          /\ Gate!Open(w) <=> GateP!Open(w)
          /\ Gate!Fill(w) <=> GateP!Fill(w)
          /\ Gate!Signed(w) <=> GateP!Signed(w)
          /\ Gate!WrittenInVain(w) <=> GateP!WrittenInVain(w)
          /\ Gate!GateLoad(w) <=> GateP!GateLoad(w)
          /\ Gate!Pass(w) <=> GateP!Pass(w)
          /\ Gate!ReadRisk(w) <=> GateP!ReadRisk(w)
          /\ Gate!ReadApproval(w) <=> GateP!ReadApproval(w)
          /\ Gate!Record(w) <=> GateP!Record(w)
      BY <2>1, <2>2, <2>3, <2>4, <2>5, <2>6, <2>7, <2>8
    <3>2. (\E p \in Gate!Plans : Gate!Sign(w, p) \/ Gate!Revoke(w, p))
             <=> (\E p \in GateP!Plans : GateP!Sign(w, p) \/ GateP!Revoke(w, p))
      <4>1. Gate!Plans = GateP!Plans
        BY SameArtifacts
      <4>2. ASSUME NEW p
            PROVE  Gate!Sign(w, p) \/ Gate!Revoke(w, p)
                     <=> GateP!Sign(w, p) \/ GateP!Revoke(w, p)
        BY <2>9
      <4> QED BY <4>1, <4>2, Zenon
    <3>3. (\E e \in Gate!Evaluations : Gate!Run(w, e))
             <=> (\E e \in GateP!Evaluations : GateP!Run(w, e))
      <4>1. \A e : Gate!Run(w, e) <=> GateP!Run(w, e)
        BY <2>10
      <4> QED BY <4>1, <2>12
    <3> QED BY <3>1, <3>2, <3>3 DEF Gate!Step, GateP!Step
  <2>14. \A a : Gate!Reset(a) <=> GateP!Reset(a)
    BY SameGuards DEF Gate!Reset, GateP!Reset, Gate!Stored, GateP!Stored, Gate!At, GateP!At
  <2>15. Gate!Artifacts = GateP!Artifacts
    BY <2>12 DEF Gate!Artifacts, GateP!Artifacts, Gate!Reports, GateP!Reports,
       Gate!Plans, GateP!Plans, Gate!Contracts, GateP!Contracts
  <2> QED BY <2>11, <2>13, <2>14, <2>15 DEF Gate!Next, GateP!Next
<1> QED BY <1>1, <1>2, <1>3 DEF gateVars, GateP!vars

\* The v2 build.
LEMMA SamePipeline ==
  /\ Pipeline!BuildPipelineAssumption <=> PipelineP!BuildPipelineAssumption
  /\ Pipeline!Init <=> PipelineP!Init
  /\ [Pipeline!Next]_pipelineVars <=> [PipelineP!Next]_(PipelineP!vars)
<1>1. Pipeline!BuildPipelineAssumption <=> PipelineP!BuildPipelineAssumption
  BY DEF Pipeline!BuildPipelineAssumption, PipelineP!BuildPipelineAssumption,
     Pipeline!Content, PipelineP!Content, Pipeline!Meta, PipelineP!Meta,
     Pipeline!Plan, PipelineP!Plan
<1>2. Pipeline!Init <=> PipelineP!Init
  BY DEF Pipeline!Idle, PipelineP!Idle, Pipeline!Init, PipelineP!Init,
     Pipeline!NoMeta, PipelineP!NoMeta
<1>3. Pipeline!Next <=> PipelineP!Next
  BY DEF Pipeline!Advised, PipelineP!Advised, Pipeline!Answer,
     PipelineP!Answer, Pipeline!At, PipelineP!At, Pipeline!Begin,
     PipelineP!Begin, Pipeline!BeginIntent, PipelineP!BeginIntent,
     Pipeline!BeginV1, PipelineP!BeginV1, Pipeline!BeginV2, PipelineP!BeginV2,
     Pipeline!BuildFromSpec, PipelineP!BuildFromSpec, Pipeline!BuildPath,
     PipelineP!BuildPath, Pipeline!Crash, PipelineP!Crash, Pipeline!Crowded,
     PipelineP!Crowded, Pipeline!Expire, PipelineP!Expire,
     Pipeline!FinalizeBaseline, PipelineP!FinalizeBaseline,
     Pipeline!FinalizeWorkspaceRepo, PipelineP!FinalizeWorkspaceRepo,
     Pipeline!Flush, PipelineP!Flush, Pipeline!Generate, PipelineP!Generate,
     Pipeline!GoTo, PipelineP!GoTo, Pipeline!Hit, PipelineP!Hit,
     Pipeline!Idle, PipelineP!Idle, Pipeline!Lookup, PipelineP!Lookup,
     Pipeline!Next, PipelineP!Next, Pipeline!NoMeta, PipelineP!NoMeta,
     Pipeline!Open, PipelineP!Open, Pipeline!PlanHome, PipelineP!PlanHome,
     Pipeline!Saving, PipelineP!Saving,
     Pipeline!PlanOf, PipelineP!PlanOf, Pipeline!Registration,
     PipelineP!Registration, Pipeline!Remember, PipelineP!Remember,
     Pipeline!Save, PipelineP!Save, Pipeline!SavePlan, PipelineP!SavePlan,
     Pipeline!ShouldRebuild, PipelineP!ShouldRebuild, Pipeline!SkipPath,
     PipelineP!SkipPath, Pipeline!Step, PipelineP!Step, Pipeline!Truncate,
     PipelineP!Truncate, Pipeline!Write, PipelineP!Write
<1> QED BY <1>1, <1>2, <1>3 DEF pipelineVars, PipelineP!vars

\* The gateway.
LEMMA SameAI ==
  /\ AI!AIGatewayAssumption <=> AIP!AIGatewayAssumption
  /\ AI!Init <=> AIP!Init
  /\ [AI!Next]_aiVars <=> [AIP!Next]_(AIP!vars)
<1>1. AI!AIGatewayAssumption <=> AIP!AIGatewayAssumption
  BY DEF AI!AIGatewayAssumption, AIP!AIGatewayAssumption, AI!IsFiniteSet,
     AIP!IsFiniteSet
<1>2. AI!Init <=> AIP!Init
  BY DEF AI!Idle, AIP!Idle, AI!Init, AIP!Init
<1>3. AI!Next <=> AIP!Next
  BY DEF AI!AddDocument, AIP!AddDocument, AI!Ask, AIP!Ask, AI!At, AIP!At, AI!Book,
     AIP!Book, AI!Call, AIP!Call, AI!Complete, AIP!Complete, AI!Crash, AIP!Crash,
     AI!Done, AIP!Done, AI!Empty, AIP!Empty, AI!Enter, AIP!Enter, AI!Explain,
     AIP!Explain, AI!Flush, AIP!Flush, AI!Garbled, AIP!Garbled, AI!Gate, AIP!Gate,
     AI!GoTo, AIP!GoTo, AI!Idle, AIP!Idle, AI!Load, AIP!Load, AI!Next, AIP!Next,
     AI!ParseIntent, AIP!ParseIntent, AI!Parsed, AIP!Parsed, AI!Passes, AIP!Passes,
     AI!Raise, AIP!Raise, AI!Remember, AIP!Remember, AI!Retry, AIP!Retry, AI!Step,
     AIP!Step, AI!HalfWritten, AIP!HalfWritten, AI!Triage, AIP!Triage, AI!Truncate, AIP!Truncate,
     AI!Unrecorded, AIP!Unrecorded
<1> QED BY <1>1, <1>2, <1>3 DEF aiVars, AIP!vars

\* The sizes of sets are the same in every service.
LEMMA SameSizes ==
  /\ \A S : /\ Graph!Cardinality(S) = Cardinality(S)
           /\ Path!Cardinality(S) = Cardinality(S)
           /\ Fed!Cardinality(S) = Cardinality(S)
  /\ \A S : Fed!IsFiniteSet(S) <=> IsFiniteSet(S)
BY DEF Graph!Cardinality, Path!Cardinality, Fed!Cardinality, Cardinality,
   Fed!IsFiniteSet, IsFiniteSet

-----------------------------------------------------------------------------
(* The advisors: sequences of nodes. *)

Ran(s) == {s[i] : i \in DOMAIN s}
Once(s) == \A i, j \in DOMAIN s : s[i] = s[j] => i = j

\* What appending does to the members.
LEMMA AppendOnce ==
  ASSUME NEW s \in Seq(Graph!Nodes), NEW n \in Graph!Nodes, Once(s), n \notin Ran(s)
  PROVE  /\ Append(s, n) \in Seq(Graph!Nodes) /\ Once(Append(s, n))
         /\ Ran(Append(s, n)) = Ran(s) \cup {n}
<1>1. /\ Len(Append(s, n)) = Len(s) + 1 /\ Append(s, n)[Len(s) + 1] = n
      /\ \A i \in 1..Len(s) : Append(s, n)[i] = s[i] /\ s[i] # n
  BY DEF Ran
<1>2. DOMAIN Append(s, n) = 1..(Len(s) + 1) /\ DOMAIN s = 1..Len(s) /\ Len(s) \in Nat
  OBVIOUS
<1>3. Once(Append(s, n))
  BY <1>1, <1>2 DEF Once
<1>4. Ran(Append(s, n)) = Ran(s) \cup {n}
  <2>1. Ran(Append(s, n)) \subseteq Ran(s) \cup {n}
    BY <1>1, <1>2 DEF Ran
  <2>2. Ran(s) \subseteq Ran(Append(s, n)) /\ n \in Ran(Append(s, n))
    BY <1>1, <1>2 DEF Ran
  <2> QED BY <2>1, <2>2
<1> QED BY <1>3, <1>4

\* What taking the head away does to them.
LEMMA TailOnce ==
  ASSUME NEW s \in Seq(Graph!Nodes), s # << >>, Once(s)
  PROVE  /\ Tail(s) \in Seq(Graph!Nodes) /\ Once(Tail(s))
         /\ Head(s) \in Graph!Nodes /\ Head(s) \in Ran(s)
         /\ Ran(Tail(s)) = Ran(s) \ {Head(s)}
<1>1. /\ Len(s) \in Nat \ {0} /\ Len(Tail(s)) = Len(s) - 1 /\ Head(s) = s[1]
      /\ Tail(s) \in Seq(Graph!Nodes) /\ DOMAIN s = 1..Len(s)
      /\ DOMAIN Tail(s) = 1..(Len(s) - 1)
      /\ \A i \in 1..(Len(s) - 1) : Tail(s)[i] = s[i + 1]
  OBVIOUS
<1>2. Once(Tail(s))
  BY <1>1 DEF Once
<1>3. Head(s) \in Ran(s) /\ Head(s) \in Graph!Nodes
  BY <1>1 DEF Ran
<1>4. Ran(Tail(s)) \subseteq Ran(s) \ {Head(s)}
  BY <1>1 DEF Ran, Once
<1>5. ASSUME NEW n \in Ran(s), n # Head(s)
      PROVE  n \in Ran(Tail(s))
  <2>1. PICK i \in 1..Len(s) : s[i] = n
    BY <1>1 DEF Ran
  <2>2. i - 1 \in 1..(Len(s) - 1) /\ Tail(s)[i - 1] = s[i]
    BY <1>1, <1>5, <2>1
  <2> QED BY <1>1, <2>1, <2>2 DEF Ran
<1> QED BY <1>1, <1>2, <1>3, <1>4, <1>5

\* And joining two sequences that share none.
LEMMA JoinOnce ==
  ASSUME NEW s \in Seq(Graph!Nodes), NEW t \in Seq(Graph!Nodes), Once(s), Once(t),
         Ran(s) \cap Ran(t) = {}
  PROVE  s \o t \in Seq(Graph!Nodes) /\ Once(s \o t) /\ Ran(s \o t) = Ran(s) \cup Ran(t)
<1>1. /\ Len(s) \in Nat /\ Len(t) \in Nat /\ DOMAIN s = 1..Len(s) /\ DOMAIN t = 1..Len(t)
      /\ s \o t \in Seq(Graph!Nodes) /\ DOMAIN (s \o t) = 1..(Len(s) + Len(t))
      /\ \A i \in 1..(Len(s) + Len(t)) :
           (s \o t)[i] = IF i <= Len(s) THEN s[i] ELSE t[i - Len(s)]
  OBVIOUS
<1>2. \A i \in 1..Len(s), j \in 1..Len(t) : s[i] # t[j]
  BY <1>1 DEF Ran
<1>3. Once(s \o t)
  <2>1. SUFFICES ASSUME NEW i \in 1..(Len(s) + Len(t)), NEW j \in 1..(Len(s) + Len(t)),
                        (s \o t)[i] = (s \o t)[j]
                 PROVE  i = j
    BY <1>1 DEF Once
  <2>2. CASE i <= Len(s) /\ j <= Len(s)
    BY <1>1, <2>1, <2>2 DEF Once
  <2>3. CASE i > Len(s) /\ j > Len(s)
    <3>1. i - Len(s) \in 1..Len(t) /\ j - Len(s) \in 1..Len(t)
      BY <1>1, <2>3
    <3>2. t[i - Len(s)] = t[j - Len(s)]
      BY <1>1, <2>1, <2>3
    <3>3. i - Len(s) = j - Len(s)
      BY <1>1, <3>1, <3>2 DEF Once
    <3> QED BY <1>1, <3>3
  <2>4. CASE i <= Len(s) /\ j > Len(s)
    <3>1. i \in 1..Len(s) /\ j - Len(s) \in 1..Len(t)
      BY <1>1, <2>4
    <3> QED BY <1>1, <1>2, <2>1, <2>4, <3>1
  <2>5. CASE i > Len(s) /\ j <= Len(s)
    <3>1. j \in 1..Len(s) /\ i - Len(s) \in 1..Len(t)
      BY <1>1, <2>5
    <3> QED BY <1>1, <1>2, <2>1, <2>5, <3>1
  <2> QED BY <1>1, <2>2, <2>3, <2>4, <2>5
<1>4. Ran(s \o t) \subseteq Ran(s) \cup Ran(t)
  <2>1. SUFFICES ASSUME NEW i \in 1..(Len(s) + Len(t))
                 PROVE  (s \o t)[i] \in Ran(s) \cup Ran(t)
    BY <1>1 DEF Ran
  <2>2. CASE i <= Len(s)
    BY <1>1, <2>2 DEF Ran
  <2>3. CASE i > Len(s)
    <3>1. i - Len(s) \in 1..Len(t)
      BY <1>1, <2>3
    <3> QED BY <1>1, <2>3, <3>1 DEF Ran
  <2> QED BY <1>1, <2>2, <2>3
<1>5. Ran(s) \subseteq Ran(s \o t)
  <2>1. \A i \in 1..Len(s) : i \in 1..(Len(s) + Len(t)) /\ (s \o t)[i] = s[i]
    BY <1>1
  <2> QED BY <1>1, <2>1 DEF Ran
<1>6. Ran(t) \subseteq Ran(s \o t)
  <2>1. \A i \in 1..Len(t) :
          i + Len(s) \in 1..(Len(s) + Len(t)) /\ (s \o t)[i + Len(s)] = t[i]
    BY <1>1
  <2>2. SUFFICES ASSUME NEW i \in 1..Len(t)
                 PROVE  t[i] \in Ran(s \o t)
    BY <1>1 DEF Ran
  <2>3. i + Len(s) \in DOMAIN (s \o t) /\ (s \o t)[i + Len(s)] = t[i]
    BY <1>1, <2>1
  <2> QED BY <2>3 DEF Ran
<1> QED BY <1>1, <1>3, <1>4, <1>5, <1>6

-----------------------------------------------------------------------------
(* The advisors: the resolver's order. *)

\* How many members come before n.
Rank(S, n) == Cardinality({m \in S : m < n})

\* The nodes are finitely many.
LEMMA NodesFinite ==
  ASSUME Graph!AdvisorAssumption
  PROVE  /\ IsFiniteSet(Graph!Nodes) /\ Cardinality(Graph!Nodes) = Advisors
         /\ IsFiniteSet(Graph!Nodes \cup {Graph!Missing})
         /\ Cardinality(Graph!Nodes \cup {Graph!Missing}) = Advisors + 1
<1>1. IsFiniteSet(Graph!Nodes) /\ Cardinality(Graph!Nodes) = Advisors
  BY FS_Interval DEF Graph!Nodes, Graph!AdvisorAssumption
<1>2. Graph!Missing \notin Graph!Nodes
  BY DEF Graph!Nodes, Graph!Missing, Graph!AdvisorAssumption
<1> QED BY <1>1, <1>2, FS_AddElement

\* Every place in the order has its member: ranks are an injection into as many
\* numbers as there are members.
LEMMA EveryRank ==
  ASSUME Graph!AdvisorAssumption, NEW S \in SUBSET Graph!Nodes, NEW i \in 1..Cardinality(S)
  PROVE  \E n \in S : Rank(S, n) = i - 1
<1>1. IsFiniteSet(S) /\ Cardinality(S) \in Nat /\ S \subseteq Nat
  <2>1. IsFiniteSet(S)
    BY NodesFinite, FS_Subset
  <2>2. Graph!Nodes \subseteq Nat
    BY DEF Graph!Nodes, Graph!AdvisorAssumption
  <2> QED BY <2>1, <2>2, FS_CardinalityType
<1> DEFINE T == 0..(Cardinality(S) - 1)
           r == [n \in S |-> Rank(S, n)]
<1>2. ASSUME NEW n \in S
      PROVE  Rank(S, n) \in T
  <2>1. {m \in S : m < n} \subseteq S \ {n} /\ IsFiniteSet(S \ {n})
        /\ Cardinality(S \ {n}) = Cardinality(S) - 1
    BY <1>1, <1>2, FS_RemoveElement
  <2>2. IsFiniteSet({m \in S : m < n}) /\ Rank(S, n) <= Cardinality(S \ {n})
    BY <2>1, FS_Subset DEF Rank
  <2>3. Rank(S, n) \in Nat
    BY <2>2, FS_CardinalityType DEF Rank
  <2> QED BY <1>1, <2>1, <2>2, <2>3
<1>3. ASSUME NEW m \in S, NEW n \in S, m < n
      PROVE  Rank(S, m) < Rank(S, n)
  <2> DEFINE A == {k \in S : k < m}  B == {k \in S : k < n}
  <2>0. m \in Nat /\ n \in Nat /\ \A k \in S : k \in Nat
    BY <1>1
  <2>1. A \subseteq B /\ m \in B /\ m \notin A /\ B \subseteq S
    <3>1. \A k \in S : k < m => k < n
      BY <1>3, <2>0
    <3>2. ~(m < m)
      BY <2>0
    <3> QED BY <1>3, <3>1, <3>2
  <2>2. IsFiniteSet(B) /\ IsFiniteSet(A) /\ Cardinality(A) <= Cardinality(B)
        /\ Cardinality(A) # Cardinality(B)
    BY <1>1, <2>1, FS_Subset
  <2>3. Cardinality(A) \in Nat /\ Cardinality(B) \in Nat
    BY <2>2, FS_CardinalityType
  <2> QED BY <2>2, <2>3 DEF Rank
<1>4. \A m, n \in S : Rank(S, m) = Rank(S, n) => m = n
  <2>1. SUFFICES ASSUME NEW m \in S, NEW n \in S, Rank(S, m) = Rank(S, n), m # n
                 PROVE  FALSE
    OBVIOUS
  <2>2. m < n \/ n < m
    BY <1>1, <2>1
  <2>3. Rank(S, m) \in Int /\ Rank(S, n) \in Int
    BY <1>2
  <2> QED BY <1>3, <2>1, <2>2, <2>3
<1>5. r \in [S -> T] /\ \A m, n \in S : r[m] = r[n] => m = n
  BY <1>2, <1>4
<1>6. r \in Injection(S, T)
  BY <1>5 DEF Injection, IsInjective
<1>7. IsFiniteSet(T) /\ Cardinality(T) = Cardinality(S)
  <2>1. 0 \in Int /\ Cardinality(S) - 1 \in Int
    BY <1>1
  <2>2. IsFiniteSet(T) /\ Cardinality(T) = IF 0 > Cardinality(S) - 1 THEN 0
                                           ELSE Cardinality(S) - 1 - 0 + 1
    BY <2>1, FS_Interval
  <2> QED BY <1>1, <2>2
<1>8. r \in Surjection(S, T)
  BY <1>6, <1>7, FS_Injection
<1>9. i - 1 \in T
  BY <1>1
<1> QED BY <1>8, <1>9 DEF Surjection

\* InOrder lists every member once.
LEMMA InOrderOnce ==
  ASSUME Graph!AdvisorAssumption, NEW S \in SUBSET Graph!Nodes
  PROVE  Graph!InOrder(S) \in Seq(Graph!Nodes) /\ Once(Graph!InOrder(S))
           /\ Ran(Graph!InOrder(S)) = S
<1>1. IsFiniteSet(S) /\ Cardinality(S) \in Nat
  BY NodesFinite, FS_Subset, FS_CardinalityType
<1>2. \A i \in 1..Cardinality(S) : Graph!InOrder(S)[i] \in S
        /\ Rank(S, Graph!InOrder(S)[i]) = i - 1
  BY EveryRank, SameSizes DEF Graph!InOrder, Rank
<1>3. Graph!InOrder(S) \in [1..Cardinality(S) -> S]
        /\ DOMAIN Graph!InOrder(S) = 1..Cardinality(S)
  BY <1>2, SameSizes DEF Graph!InOrder
<1>4. Graph!InOrder(S) \in Seq(Graph!Nodes)
  BY <1>1, <1>3
<1>5. \A i, j \in 1..Cardinality(S) : Graph!InOrder(S)[i] = Graph!InOrder(S)[j] => i = j
  BY <1>1, <1>2
<1>6. Once(Graph!InOrder(S))
  BY <1>3, <1>5 DEF Once
<1>7. Graph!InOrder(S) \in Injection(1..Cardinality(S), S)
  BY <1>3, <1>5 DEF Injection, IsInjective
<1>8. Cardinality(1..Cardinality(S)) = Cardinality(S)
  BY <1>1, FS_Interval
<1>9. Graph!InOrder(S) \in Surjection(1..Cardinality(S), S)
  BY <1>1, <1>7, <1>8, FS_Injection
<1>10. Ran(Graph!InOrder(S)) = S
  BY <1>3, <1>9 DEF Ran, Surjection
<1> QED BY <1>4, <1>6, <1>10

-----------------------------------------------------------------------------
(* The advisors: the sort.  The in-degree of a node counts the dependencies that
   have not been sorted, and the sorted and the queued nodes are exactly those
   whose count is zero.  A set of nodes that wait for one another is never
   entered: the first of its members to be sorted would have a dependency in it. *)

\* Nodes that wait for one another, or for one that is not active.
Stuck(S) == \A n \in S : dependsOn[n] \cap (S \cup {Graph!Missing}) # {}

Sorting ==
  /\ Once(order) /\ Once(queue) /\ Ran(order) \cap Ran(queue) = {}
  /\ \A n \in Graph!Nodes : inDegree[n] = Cardinality(dependsOn[n] \ Ran(order))
  /\ \A n \in Graph!Nodes : inDegree[n] = 0 <=> n \in Ran(order) \cup Ran(queue)
  /\ \A S \in SUBSET Graph!Nodes : Stuck(S) => S \cap Ran(order) = {}
  /\ result # "running" =>
       queue = << >> /\ (result = "sorted" <=> Len(order) = Advisors)
  /\ Graph!DependenciesFirst

\* The sets an in-degree counts are finite, and no larger than the nodes.
LEMMA WaitingFinite ==
  ASSUME Graph!AdvisorAssumption, Graph!TypeOK, NEW n \in Graph!Nodes, NEW S
  PROVE  /\ IsFiniteSet(dependsOn[n] \ S)
         /\ Cardinality(dependsOn[n] \ S) \in 0..(Advisors + 1)
<1>1. dependsOn[n] \ S \in SUBSET (Graph!Nodes \cup {Graph!Missing})
  BY DEF Graph!TypeOK
<1>2. /\ IsFiniteSet(dependsOn[n] \ S)
      /\ Cardinality(dependsOn[n] \ S) <= Advisors + 1
  BY <1>1, NodesFinite, FS_Subset
<1>3. Cardinality(dependsOn[n] \ S) \in Nat /\ Advisors \in Nat
  BY <1>2, FS_CardinalityType DEF Graph!AdvisorAssumption
<1> QED BY <1>2, <1>3

\* Before the first turn the queue holds the nodes that wait for nothing.
LEMMA SortingInit ==
  ASSUME Graph!AdvisorAssumption, Graph!Init
  PROVE  Graph!TypeOK /\ Sorting
<1>1. /\ dependsOn \in [Graph!Nodes -> SUBSET (Graph!Nodes \cup {Graph!Missing})]
      /\ inDegree = [n \in Graph!Nodes |-> Cardinality(dependsOn[n])]
      /\ queue = Graph!InOrder({n \in Graph!Nodes : inDegree[n] = 0})
      /\ order = << >> /\ result = "running"
  BY SameSizes DEF Graph!Init
<1>2. queue \in Seq(Graph!Nodes) /\ Once(queue)
        /\ Ran(queue) = {n \in Graph!Nodes : inDegree[n] = 0}
  BY <1>1, InOrderOnce
<1>3. Ran(order) = {} /\ Once(order) /\ order \in Seq(Graph!Nodes)
  BY <1>1 DEF Ran, Once
<1>4. \A n \in Graph!Nodes : dependsOn[n] \ Ran(order) = dependsOn[n]
  BY <1>3
<1>5. ASSUME NEW n \in Graph!Nodes
      PROVE  Cardinality(dependsOn[n]) \in 0..(Advisors + 1)
  <2>1. dependsOn[n] \in SUBSET (Graph!Nodes \cup {Graph!Missing})
    BY <1>1
  <2>2. IsFiniteSet(dependsOn[n]) /\ Cardinality(dependsOn[n]) <= Advisors + 1
    BY <2>1, NodesFinite, FS_Subset
  <2>3. Cardinality(dependsOn[n]) \in Nat /\ Advisors \in Nat
    BY <2>2, FS_CardinalityType DEF Graph!AdvisorAssumption
  <2> QED BY <2>2, <2>3
<1>6. Graph!TypeOK
  BY <1>1, <1>2, <1>3, <1>5 DEF Graph!TypeOK
<1>7. Graph!DependenciesFirst
  BY <1>1 DEF Graph!DependenciesFirst
<1> QED BY <1>1, <1>2, <1>3, <1>4, <1>6, <1>7 DEF Sorting

\* One turn of the loop keeps it right.
LEMMA SortingVisit ==
  ASSUME Graph!AdvisorAssumption, Graph!TypeOK, Sorting, Graph!Visit
  PROVE  Graph!TypeOK' /\ Sorting'
<1> DEFINE current == Head(queue)
           waiting == {n \in Graph!Nodes : current \in dependsOn[n]}
           new == {n \in waiting : inDegree[n] = 1}
<1>1. /\ result = "running" /\ queue # << >>
      /\ order' = Append(order, current)
      /\ inDegree' =
           [n \in Graph!Nodes |-> IF n \in waiting THEN inDegree[n] - 1 ELSE inDegree[n]]
      /\ queue' = Tail(queue) \o Graph!InOrder(new)
      /\ dependsOn' = dependsOn /\ result' = result
  BY DEF Graph!Visit
<1>2. /\ dependsOn \in [Graph!Nodes -> SUBSET (Graph!Nodes \cup {Graph!Missing})]
      /\ inDegree \in [Graph!Nodes -> 0..(Advisors + 1)] /\ Advisors \in Nat
      /\ queue \in Seq(Graph!Nodes) /\ order \in Seq(Graph!Nodes)
      /\ Once(order) /\ Once(queue) /\ Ran(order) \cap Ran(queue) = {}
  BY DEF Graph!TypeOK, Sorting, Graph!AdvisorAssumption
<1>3. /\ current \in Graph!Nodes /\ current \in Ran(queue) /\ current \notin Ran(order)
      /\ Tail(queue) \in Seq(Graph!Nodes) /\ Once(Tail(queue))
      /\ Ran(Tail(queue)) = Ran(queue) \ {current}
  BY <1>1, <1>2, TailOnce
<1> HIDE DEF current
<1>4. /\ order' \in Seq(Graph!Nodes) /\ Once(order') /\ Ran(order') = Ran(order) \cup {current}
  BY <1>1, <1>2, <1>3, AppendOnce
<1>5. new \in SUBSET Graph!Nodes
  OBVIOUS
<1>6. Graph!InOrder(new) \in Seq(Graph!Nodes) /\ Once(Graph!InOrder(new))
        /\ Ran(Graph!InOrder(new)) = new
  BY <1>5, InOrderOnce
<1>7. \A n \in new : n \notin Ran(order) \cup Ran(queue)
  BY DEF Sorting
<1>8. /\ queue' \in Seq(Graph!Nodes) /\ Once(queue')
      /\ Ran(queue') = (Ran(queue) \ {current}) \cup new
  <2> HIDE DEF new
  <2>1. Ran(Tail(queue)) \cap Ran(Graph!InOrder(new)) = {}
    BY <1>3, <1>6, <1>7
  <2>2. queue' = Tail(queue) \o Graph!InOrder(new)
    BY <1>1
  <2> QED BY <1>3, <1>6, <2>1, <2>2, JoinOnce
<1>9. Ran(order') \cap Ran(queue') = {}
  BY <1>2, <1>3, <1>4, <1>7, <1>8
<1>10. ASSUME NEW n \in Graph!Nodes
       PROVE  /\ inDegree'[n] = Cardinality(dependsOn'[n] \ Ran(order'))
              /\ inDegree'[n] \in 0..(Advisors + 1)
  <2>1. /\ inDegree[n] = Cardinality(dependsOn[n] \ Ran(order))
        /\ IsFiniteSet(dependsOn[n] \ Ran(order))
    BY WaitingFinite DEF Sorting
  <2>2. dependsOn'[n] \ Ran(order') = (dependsOn[n] \ Ran(order)) \ {current}
    BY <1>1, <1>4
  <2>3. n \in waiting <=> current \in dependsOn[n] \ Ran(order)
    BY <1>3
  <2>4. inDegree'[n] = IF n \in waiting THEN inDegree[n] - 1 ELSE inDegree[n]
    BY <1>1
  <2>5. inDegree'[n] = Cardinality(dependsOn'[n] \ Ran(order'))
    <3> DEFINE D == dependsOn[n] \ Ran(order)
    <3>1. CASE n \in waiting
      <4>1. Cardinality(D \ {current}) = Cardinality(D) - 1
        <5>1. IsFiniteSet(D) /\ current \in D
          BY <2>1, <2>3, <3>1
        <5> HIDE DEF D
        <5> QED BY <5>1, FS_RemoveElement
      <4>2. inDegree'[n] = inDegree[n] - 1
        BY <2>4, <3>1
      <4>3. inDegree[n] = Cardinality(D) /\ dependsOn'[n] \ Ran(order') = D \ {current}
        BY <2>1, <2>2
      <4> QED BY <4>1, <4>2, <4>3
    <3>2. CASE n \notin waiting
      <4>1. D \ {current} = D
        BY <2>3, <3>2
      <4>2. inDegree'[n] = inDegree[n]
        BY <2>4, <3>2
      <4> QED BY <2>1, <2>2, <4>1, <4>2
    <3> QED BY <3>1, <3>2
  <2>6. Cardinality((dependsOn[n] \ Ran(order)) \ {current}) \in 0..(Advisors + 1)
    <3>1. (dependsOn[n] \ Ran(order)) \ {current} = dependsOn[n] \ (Ran(order) \cup {current})
      OBVIOUS
    <3> QED BY <3>1, WaitingFinite
  <2> QED BY <2>2, <2>5, <2>6
<1>11. Graph!TypeOK'
  BY <1>1, <1>2, <1>4, <1>8, <1>10 DEF Graph!TypeOK
<1>12. ASSUME NEW n \in Graph!Nodes
       PROVE  inDegree'[n] = 0 <=> n \in Ran(order') \cup Ran(queue')
  <2>1. /\ inDegree[n] \in Nat
        /\ inDegree'[n] = IF n \in waiting THEN inDegree[n] - 1 ELSE inDegree[n]
        /\ inDegree[n] = 0 <=> n \in Ran(order) \cup Ran(queue)
    BY <1>1, <1>2 DEF Sorting
  <2>2. n \in waiting => inDegree[n] # 0
    <3>1. n \in waiting => dependsOn[n] \ Ran(order) # {}
      BY <1>3
    <3>2. inDegree[n] = Cardinality(dependsOn[n] \ Ran(order))
      BY DEF Sorting
    <3> QED BY <3>1, <3>2, WaitingFinite, FS_EmptySet
  <2>3. Ran(order') \cup Ran(queue') = Ran(order) \cup Ran(queue) \cup new
    BY <1>3, <1>4, <1>8
  <2>4. n \in new <=> n \in waiting /\ inDegree[n] = 1
    OBVIOUS
  <2> HIDE DEF new, waiting
  <2> QED BY <2>1, <2>2, <2>3, <2>4
<1>13. dependsOn[current] \subseteq Ran(order)
  <2>1. inDegree[current] = 0
          /\ inDegree[current] = Cardinality(dependsOn[current] \ Ran(order))
    BY <1>3 DEF Sorting
  <2>2. dependsOn[current] \ Ran(order) = {}
    BY <1>3, <2>1, WaitingFinite, FS_EmptySet
  <2> QED BY <2>2
<1>14. ASSUME NEW S \in SUBSET Graph!Nodes, Stuck(S)'
       PROVE  S \cap Ran(order') = {}
  <2>1. Stuck(S)
    BY <1>1, <1>14 DEF Stuck
  <2>2. S \cap Ran(order) = {}
    BY <2>1 DEF Sorting
  <2>3. Ran(order) \subseteq Graph!Nodes /\ Graph!Missing \notin Graph!Nodes
    BY <1>2 DEF Ran, Graph!Nodes, Graph!Missing
  <2>4. current \notin S
    BY <1>13, <2>1, <2>2, <2>3 DEF Stuck
  <2> QED BY <1>4, <2>2, <2>4
<1>15. Graph!DependenciesFirst'
  <2>1. /\ Len(order) \in Nat /\ DOMAIN order = 1..Len(order)
        /\ DOMAIN order' = 1..(Len(order) + 1) /\ order'[Len(order) + 1] = current
        /\ \A i \in 1..Len(order) : order'[i] = order[i]
    BY <1>1, <1>2, <1>3
  <2>2. SUFFICES ASSUME NEW i \in 1..(Len(order) + 1), NEW d \in dependsOn[order'[i]]
                 PROVE  \E j \in 1..(i - 1) : order'[j] = d
    BY <1>1, <2>1 DEF Graph!DependenciesFirst
  <2>3. CASE i = Len(order) + 1
    <3>1. PICK j \in 1..Len(order) : order[j] = d
      BY <1>13, <2>1, <2>2, <2>3 DEF Ran
    <3> QED BY <2>1, <2>3, <3>1
  <2>4. CASE i # Len(order) + 1
    <3>1. i \in DOMAIN order /\ d \in dependsOn[order[i]] /\ 1..(i - 1) \subseteq 1..Len(order)
      BY <2>1, <2>2, <2>4
    <3>2. PICK j \in 1..(i - 1) : order[j] = d
      BY <3>1 DEF Sorting, Graph!DependenciesFirst
    <3> QED BY <2>1, <3>1, <3>2
  <2> QED BY <2>3, <2>4
<1> QED BY <1>1, <1>4, <1>8, <1>9, <1>10, <1>11, <1>12, <1>14, <1>15 DEF Sorting

\* The end of the loop and stuttering do too.
LEMMA SortingNext ==
  ASSUME Graph!AdvisorAssumption, Graph!TypeOK, Sorting, [Graph!Next]_(Graph!vars)
  PROVE  Graph!TypeOK' /\ Sorting'
<1>1. CASE Graph!Return
  <2>1. UNCHANGED <<dependsOn, inDegree, queue, order>> /\ queue = << >>
        /\ result' = IF Len(order) = Advisors THEN "sorted" ELSE "circular"
    BY <1>1 DEF Graph!Return
  <2>2. Graph!TypeOK'
    BY <2>1 DEF Graph!TypeOK
  <2>3. Sorting'
    BY <2>1 DEF Sorting, Graph!DependenciesFirst, Stuck
  <2> QED BY <2>2, <2>3
<1>2. CASE UNCHANGED Graph!vars
  BY <1>2 DEF Graph!vars, Graph!TypeOK, Sorting, Graph!DependenciesFirst, Stuck
<1> QED BY <1>1, <1>2, SortingVisit DEF Graph!Next

\* What has been sorted is all the nodes exactly if it is as long.
LEMMA AllSorted ==
  ASSUME Graph!AdvisorAssumption, NEW s \in Seq(Graph!Nodes), Once(s)
  PROVE  Len(s) = Advisors <=> Ran(s) = Graph!Nodes
<1>1. Len(s) \in Nat /\ DOMAIN s = 1..Len(s) /\ s \in [1..Len(s) -> Graph!Nodes]
        /\ Advisors \in Nat
  BY DEF Graph!AdvisorAssumption
<1>2. s \in Injection(1..Len(s), Graph!Nodes)
  BY <1>1 DEF Once, Injection, IsInjective
<1>3. Cardinality(1..Len(s)) = Len(s)
  BY <1>1, FS_Interval
<1>4. Len(s) = Advisors <=> s \in Surjection(1..Len(s), Graph!Nodes)
  BY <1>2, <1>3, NodesFinite, FS_Injection
<1>5. Ran(s) \subseteq Graph!Nodes
  BY <1>1 DEF Ran
<1>6. s \in Surjection(1..Len(s), Graph!Nodes) <=> Ran(s) = Graph!Nodes
  BY <1>1, <1>5 DEF Surjection, Ran
<1> QED BY <1>4, <1>6

\* The outcome.
LEMMA SortingGives ==
  ASSUME Graph!AdvisorAssumption, Graph!TypeOK, Sorting
  PROVE  Graph!FailsOnlyIfCircular
<1>1. order \in Seq(Graph!Nodes) /\ Once(order) /\ Ran(order) \subseteq Graph!Nodes
  BY DEF Graph!TypeOK, Sorting, Ran
<1>2. ASSUME result = "circular"
      PROVE  \E S \in (SUBSET Graph!Nodes) \ {{}} : Stuck(S)
  <2> DEFINE S == Graph!Nodes \ Ran(order)
  <2>1. queue = << >> /\ Len(order) # Advisors
    BY <1>2 DEF Sorting
  <2>2. Ran(order) # Graph!Nodes
    BY <1>1, <2>1, AllSorted
  <2>3. S # {} /\ S \in SUBSET Graph!Nodes
    BY <1>1, <2>2
  <2>4. ASSUME NEW n \in S
        PROVE  dependsOn[n] \cap (S \cup {Graph!Missing}) # {}
    <3>1. Ran(queue) = {}
      BY <2>1 DEF Ran
    <3>2. inDegree[n] # 0 /\ inDegree[n] = Cardinality(dependsOn[n] \ Ran(order))
      BY <3>1, <2>4 DEF Sorting
    <3>3. dependsOn[n] \ Ran(order) # {}
      BY <3>2, FS_EmptySet
    <3>4. dependsOn[n] \subseteq Graph!Nodes \cup {Graph!Missing}
      BY <2>4 DEF Graph!TypeOK
    <3> QED BY <3>3, <3>4
  <2> QED BY <2>3, <2>4 DEF Stuck
<1>3. ASSUME result = "sorted"
      PROVE  /\ ~\E S \in (SUBSET Graph!Nodes) \ {{}} : Stuck(S)
             /\ Ran(order) = Graph!Nodes /\ Len(order) = Advisors
  <2>1. Len(order) = Advisors
    BY <1>3 DEF Sorting
  <2>2. Ran(order) = Graph!Nodes
    BY <1>1, <2>1, AllSorted
  <2>3. \A S \in (SUBSET Graph!Nodes) \ {{}} : S \in SUBSET Graph!Nodes /\ S # {}
    OBVIOUS
  <2>4. ~\E S \in (SUBSET Graph!Nodes) \ {{}} : Stuck(S)
    BY <2>2, <2>3 DEF Sorting
  <2> QED BY <2>1, <2>2, <2>4
<1>4. ASSUME result = "circular", \A n \in Graph!Nodes : Graph!Missing \notin dependsOn[n]
      PROVE  Graph!Circle
  <2>1. PICK S \in (SUBSET Graph!Nodes) \ {{}} : Stuck(S)
    BY <1>2, <1>4
  <2>2. \A n \in S : dependsOn[n] \cap S # {}
    BY <1>4, <2>1 DEF Stuck
  <2> QED BY <2>2 DEF Graph!Circle
<1>5. ASSUME Graph!Circle
      PROVE  \E S \in (SUBSET Graph!Nodes) \ {{}} : Stuck(S)
  <2>1. PICK S \in (SUBSET Graph!Nodes) \ {{}} : \A n \in S : dependsOn[n] \cap S # {}
    BY <1>5 DEF Graph!Circle
  <2>2. Stuck(S)
    BY <2>1 DEF Stuck
  <2> QED BY <2>2
<1> QED BY <1>3, <1>4, <1>5 DEF Graph!FailsOnlyIfCircular, Ran

-----------------------------------------------------------------------------
(* The request path: the request ids. *)

\* Every request that is handled has its filter, once, and no other is there.
FiltersFit ==
  /\ filters \in Seq(1..PathRequests) /\ flight \subseteq 1..PathRequests
  /\ arrived \in 0..PathRequests
  /\ \A r \in flight : r <= arrived
  /\ \A i \in DOMAIN filters : filters[i] \in flight
  /\ \A r \in flight : \E i \in DOMAIN filters : filters[i] = r
  /\ \A i, k \in DOMAIN filters : filters[i] = filters[k] => i = k
  /\ stamps \subseteq [by : 1..PathRequests, as : 1..PathRequests, alone : BOOLEAN]
  /\ Path!OwnIdWhenAlone

\* The filter of one request is removed.
LEMMA RemoveOne ==
  ASSUME NEW S, NEW f \in Seq(S), NEW i \in DOMAIN f,
         \A k, m \in DOMAIN f : f[k] = f[m] => k = m
  PROVE  LET g == Path!RemoveFirst(f, f[i]) IN
         /\ g \in Seq(S) /\ Len(g) = Len(f) - 1
         /\ \A k \in DOMAIN g : g[k] = IF k < i THEN f[k] ELSE f[k + 1]
<1>1. DOMAIN f = 1..Len(f) /\ Len(f) \in Nat /\ i \in 1..Len(f)
  OBVIOUS
<1> DEFINE I == {k \in 1..Len(f) : f[k] = f[i]}
<1>2. I = {i}
  BY <1>1
<1>3. Path!Min(I) = i
  BY <1>1, <1>2 DEF Path!Min
<1>4. Path!SelectInSeq(f, LAMBDA v : v = f[i]) = i
  BY <1>2, <1>3 DEF Path!SelectInSeq
<1>5. Path!RemoveFirst(f, f[i]) = Path!RemoveAt(f, i)
  BY <1>1, <1>4 DEF Path!RemoveFirst
<1> DEFINE a == SubSeq(f, 1, i - 1)
           b == SubSeq(f, i + 1, Len(f))
<1>6. /\ a \in Seq(S) /\ Len(a) = i - 1 /\ \A k \in 1..(i - 1) : a[k] = f[k]
  BY <1>1
<1>7. /\ b \in Seq(S) /\ Len(b) = Len(f) - i
      /\ \A k \in 1..(Len(f) - i) : b[k] = f[i + k]
  <2>1. \A k \in (i + 1)..Len(f) : f[k] \in S
    BY <1>1
  <2>2. /\ b \in Seq(S)
        /\ Len(b) = IF i + 1 <= Len(f) THEN Len(f) - (i + 1) + 1 ELSE 0
        /\ \A k \in 1..(Len(f) - (i + 1) + 1) : b[k] = f[i + 1 + k - 1]
    BY <1>1, <2>1, SubSeqProperties
  <2> QED BY <1>1, <2>2
<1> HIDE DEF a, b
<1>8. /\ a \o b \in Seq(S) /\ Len(a \o b) = Len(f) - 1
      /\ \A k \in 1..(Len(f) - 1) : (a \o b)[k] = IF k < i THEN a[k] ELSE b[k - (i - 1)]
  <2>1. /\ a \o b \in Seq(S) /\ Len(a \o b) = Len(a) + Len(b)
        /\ \A k \in 1..(Len(a) + Len(b)) :
             (a \o b)[k] = IF k <= Len(a) THEN a[k] ELSE b[k - Len(a)]
    <3>1. a \in Seq(S) /\ b \in Seq(S)
      BY <1>6, <1>7
    <3> QED BY <3>1, ConcatProperties
  <2> QED BY <1>1, <1>6, <1>7, <2>1
<1>9. \A k \in 1..(Len(f) - 1) : (a \o b)[k] = IF k < i THEN f[k] ELSE f[k + 1]
  <2> SUFFICES ASSUME NEW k \in 1..(Len(f) - 1)
               PROVE  (a \o b)[k] = IF k < i THEN f[k] ELSE f[k + 1]
    OBVIOUS
  <2>1. CASE k < i
    BY <1>1, <1>6, <1>8, <2>1
  <2>2. CASE ~(k < i)
    <3>1. k - (i - 1) \in 1..(Len(f) - i) /\ i + (k - (i - 1)) = k + 1
      BY <1>1, <2>2
    <3> QED BY <1>1, <1>7, <1>8, <2>2, <3>1
  <2> QED BY <2>1, <2>2
<1>10. Path!RemoveFirst(f, f[i]) = a \o b /\ DOMAIN (a \o b) = 1..(Len(f) - 1)
  BY <1>1, <1>5, <1>8 DEF Path!RemoveAt, a, b
<1> HIDE DEF I
<1> QED BY <1>8, <1>9, <1>10

\* A request that comes in has a new filter.
LEMMA FiltersEnter ==
  ASSUME Path!RequestPathAssumption, FiltersFit, Path!Enter, UNCHANGED stamps
  PROVE  FiltersFit'
<1> DEFINE r == arrived + 1
<1>1. /\ r \in 1..PathRequests /\ arrived' = r /\ flight' = flight \cup {r}
      /\ filters' = Append(filters, r) /\ \A q \in flight : q < r
  BY DEF FiltersFit, Path!Enter, Path!RequestPathAssumption
<1>2. /\ filters' \in Seq(1..PathRequests) /\ Len(filters') = Len(filters) + 1
      /\ \A i \in 1..Len(filters) : filters'[i] = filters[i] /\ filters'[i] # r
      /\ filters'[Len(filters) + 1] = r
      /\ DOMAIN filters = 1..Len(filters) /\ DOMAIN filters' = 1..(Len(filters) + 1)
      /\ Len(filters) \in Nat
  BY <1>1 DEF FiltersFit
<1>3. \A i, k \in DOMAIN filters' : filters'[i] = filters'[k] => i = k
  BY <1>2 DEF FiltersFit
<1>4. \A q \in flight' : \E i \in DOMAIN filters' : filters'[i] = q
  BY <1>1, <1>2 DEF FiltersFit
<1>5. \A i \in DOMAIN filters' : filters'[i] \in flight'
  BY <1>1, <1>2 DEF FiltersFit
<1> QED BY <1>1, <1>2, <1>3, <1>4, <1>5 DEF FiltersFit, Path!OwnIdWhenAlone

\* The filter leaves with the request.
LEMMA FiltersLeave ==
  ASSUME Path!RequestPathAssumption, FiltersFit, NEW r \in flight, Path!Leave(r)
  PROVE  FiltersFit'
<1>1. PICK i \in DOMAIN filters : filters[i] = r
  BY DEF FiltersFit
<1>2. /\ filters' \in Seq(1..PathRequests) /\ Len(filters') = Len(filters) - 1
      /\ \A k \in DOMAIN filters' : filters'[k] = IF k < i THEN filters[k] ELSE filters[k + 1]
  BY <1>1, RemoveOne DEF FiltersFit, Path!Leave
<1>3. /\ DOMAIN filters = 1..Len(filters) /\ DOMAIN filters' = 1..(Len(filters) - 1)
      /\ Len(filters) \in Nat /\ i \in 1..Len(filters)
      /\ flight' = flight \ {r} /\ UNCHANGED <<arrived, stamps>>
  BY <1>1, <1>2 DEF FiltersFit, Path!Leave
<1>4. \A k \in DOMAIN filters' : filters'[k] \in flight'
  BY <1>1, <1>2, <1>3 DEF FiltersFit
<1>5. \A k, m \in DOMAIN filters' : filters'[k] = filters'[m] => k = m
  <2> SUFFICES ASSUME NEW k \in DOMAIN filters', NEW m \in DOMAIN filters',
                      filters'[k] = filters'[m]
               PROVE  k = m
    OBVIOUS
  <2>1. PICK x \in DOMAIN filters, y \in DOMAIN filters :
          /\ x = (IF k < i THEN k ELSE k + 1) /\ y = (IF m < i THEN m ELSE m + 1)
          /\ filters[x] = filters[y]
    BY <1>2, <1>3
  <2>2. x = y
    BY <2>1 DEF FiltersFit
  <2> QED BY <1>3, <2>1, <2>2
<1>6. ASSUME NEW q \in flight'
      PROVE  \E k \in DOMAIN filters' : filters'[k] = q
  <2>1. PICK m \in DOMAIN filters : filters[m] = q /\ m # i
    BY <1>1, <1>3, <1>6 DEF FiltersFit
  <2>2. CASE m < i
    BY <1>2, <1>3, <2>1, <2>2
  <2>3. CASE m > i
    <3>1. m - 1 \in DOMAIN filters' /\ ~(m - 1 < i) /\ (m - 1) + 1 = m
      BY <1>3, <2>1, <2>3
    <3> QED BY <1>2, <2>1, <3>1
  <2> QED BY <1>3, <2>1, <2>2, <2>3
<1> QED BY <1>2, <1>3, <1>4, <1>5, <1>6 DEF FiltersFit, Path!OwnIdWhenAlone

\* A record of a request that is alone gets its id, the only one there is.
LEMMA FiltersLog ==
  ASSUME Path!RequestPathAssumption, FiltersFit, NEW r \in flight, Path!Log(r)
  PROVE  FiltersFit'
<1>1. PICK i \in DOMAIN filters : filters[i] = r
  BY DEF FiltersFit
<1>2. Len(filters) \in DOMAIN filters
  BY <1>1 DEF FiltersFit
<1>3. filters[Len(filters)] \in flight /\ filters[Len(filters)] \in 1..PathRequests
  BY <1>2 DEF FiltersFit
<1>4. PICK s : s = [by |-> r, as |-> filters[Len(filters)], alone |-> flight = {r}]
  OBVIOUS
<1>5. /\ stamps' = {s} /\ UNCHANGED <<flight, filters, arrived>>
      /\ s \in [by : 1..PathRequests, as : 1..PathRequests, alone : BOOLEAN]
      /\ s.alone => s.as = s.by
  BY <1>3, <1>4 DEF Path!Log, FiltersFit
<1> QED BY <1>5 DEF FiltersFit, Path!OwnIdWhenAlone

LEMMA FiltersInit == ASSUME Path!RequestPathAssumption, Path!Init PROVE FiltersFit
BY DEF Path!Init, FiltersFit, Path!OwnIdWhenAlone, Path!RequestPathAssumption

LEMMA FiltersNext ==
  ASSUME Path!RequestPathAssumption, FiltersFit, [Path!Next]_(Path!vars)
  PROVE  FiltersFit'
<1>1. CASE Path!ArriveFree
  BY <1>1, FiltersEnter DEF Path!ArriveFree
<1>2. ASSUME NEW k \in Keys, Path!Arrive(k)
      PROVE  FiltersFit'
  <2>1. CASE Path!Counted(k).count > Rpm
    <3>1. /\ arrived < PathRequests /\ arrived' = arrived + 1
          /\ UNCHANGED <<flight, filters, stamps>>
      BY <1>2, <2>1 DEF Path!Arrive
    <3> QED BY <3>1 DEF FiltersFit, Path!OwnIdWhenAlone, Path!RequestPathAssumption
  <2>2. CASE ~(Path!Counted(k).count > Rpm)
    BY <1>2, <2>2, FiltersEnter DEF Path!Arrive
  <2> QED BY <2>1, <2>2
<1>3. CASE Path!Tick \/ UNCHANGED Path!vars
  BY <1>3 DEF Path!Tick, Path!vars, FiltersFit, Path!OwnIdWhenAlone
<1> QED BY <1>1, <1>2, <1>3, FiltersLog, FiltersLeave DEF Path!Next

-----------------------------------------------------------------------------
(* The request path: the rate limiter.  Windows of a key do not overlap, so a
   stretch of a window's length meets two of them at most; and of the first it
   misses the request that began it. *)

\* A request that was let in is the nth of a window of its key that began no
\* longer than a window's time before it; the first begins it.
InWindow(a) ==
  /\ a.nth \in 1..Rpm /\ a.at \in a.start..(a.start + Window - 1)
  /\ a.nth = 1 => a.at = a.start

\* Windows of a key do not overlap.
Apart(s, t) == s = t \/ s + Window <= t \/ t + Window <= s

\* The bucket is the last window; it has counted all that were let in.
Windows ==
  /\ now \in Nat /\ bucket \in [Keys -> [start : Nat, count : Nat]]
  /\ admitted \subseteq Path!Admissions
  /\ \A k \in Keys : bucket[k].start <= now
  /\ \A a \in admitted :
       /\ InWindow(a) /\ bucket[a.key].count # 0
       /\ \/ a.start = bucket[a.key].start /\ a.nth <= bucket[a.key].count
          \/ a.start + Window <= bucket[a.key].start
  /\ \A a, b \in admitted : a.key = b.key =>
       /\ Apart(a.start, b.start)
       /\ a.start = b.start /\ a.nth = b.nth => a = b

LEMMA WindowsInit == ASSUME Path!RequestPathAssumption, Path!Init PROVE Windows
BY DEF Path!Init, Windows, Path!NoBucket

\* The next request of a key is the next of its window, or begins another.
LEMMA NextCounted ==
  ASSUME Path!RequestPathAssumption, Windows, NEW k \in Keys
  PROVE  LET b == Path!Counted(k) IN
         /\ b \in [start : Nat, count : Nat] /\ b.count # 0 /\ b.start <= now
         /\ now < b.start + Window /\ (b.count = 1 => now = b.start)
         /\ \/ /\ b.start = bucket[k].start /\ b.count = bucket[k].count + 1
               /\ bucket[k].count # 0
            \/ /\ b.count = 1 /\ b.start = now
               /\ (bucket[k].count = 0 \/ bucket[k].start + Window <= b.start)
<1>1. /\ bucket[k] \in [start : Nat, count : Nat] /\ now \in Nat /\ Window \in Nat \ {0}
      /\ bucket[k].start <= now
  BY DEF Windows, Path!RequestPathAssumption
<1>2. CASE bucket[k].count = 0 \/ now - bucket[k].start >= Window
  <2>1. Path!Counted(k) = [start |-> now, count |-> 1]
    BY <1>2 DEF Path!Counted
  <2> QED BY <1>1, <1>2, <2>1
<1>3. CASE ~(bucket[k].count = 0 \/ now - bucket[k].start >= Window)
  <2>1. Path!Counted(k) = [bucket[k] EXCEPT !.count = bucket[k].count + 1]
    BY <1>3 DEF Path!Counted
  <2>2. Path!Counted(k) \in [start : Nat, count : Nat]
    BY <1>1, <2>1
  <2>3. Path!Counted(k).start = bucket[k].start /\ Path!Counted(k).count = bucket[k].count + 1
    BY <1>1, <2>1
  <2>4. bucket[k].count # 0 /\ now < bucket[k].start + Window
    BY <1>1, <1>3
  <2>5. bucket[k].start \in Nat /\ bucket[k].count \in Nat
    BY <1>1
  <2> HIDE <2>1
  <2> QED BY <1>1, <2>2, <2>3, <2>4, <2>5
<1> QED BY <1>2, <1>3

\* Counting keeps what was let in where it is.
LEMMA OldInWindows ==
  ASSUME Path!RequestPathAssumption, Windows, NEW k \in Keys, NEW b,
         b = Path!Counted(k), bucket' = [bucket EXCEPT ![k] = b], NEW a \in admitted
  PROVE  /\ InWindow(a) /\ bucket'[a.key].count # 0
         /\ \/ a.start = bucket'[a.key].start /\ a.nth <= bucket'[a.key].count
            \/ a.start + Window <= bucket'[a.key].start
         /\ a.key = k => /\ Apart(a.start, b.start)
                         /\ a.start = b.start => a.nth < b.count
<1>1. /\ a.key \in Keys /\ a.start \in Nat /\ a.nth \in Nat /\ Window \in Nat \ {0}
      /\ InWindow(a) /\ bucket[a.key].count # 0
      /\ \/ a.start = bucket[a.key].start /\ a.nth <= bucket[a.key].count
         \/ a.start + Window <= bucket[a.key].start
      /\ bucket[a.key].start \in Nat /\ bucket[a.key].count \in Nat
  BY DEF Windows, Path!Admissions, Path!RequestPathAssumption
<1>2. /\ b.start \in Nat /\ b.count \in Nat /\ b.count # 0
      /\ \/ /\ b.start = bucket[k].start /\ b.count = bucket[k].count + 1
            /\ bucket[k].count # 0
         \/ /\ b.count = 1 /\ b.start = now
            /\ (bucket[k].count = 0 \/ bucket[k].start + Window <= b.start)
  BY NextCounted
<1>3. CASE a.key # k
  BY <1>1, <1>3 DEF Windows
<1>4. CASE a.key = k
  <2>1. bucket'[a.key] = b
    BY <1>1, <1>4 DEF Windows
  <2>2. \/ a.start = b.start /\ a.nth < b.count
        \/ a.start + Window <= b.start
    BY <1>1, <1>2, <1>4
  <2>3. a.start = b.start => a.nth < b.count
    BY <1>1, <1>2, <2>2
  <2> QED BY <1>1, <1>2, <1>4, <2>1, <2>2, <2>3 DEF Apart
<1> QED BY <1>3, <1>4

\* A request that mutates is counted, and let in if it is among the first.
LEMMA WindowsArrive ==
  ASSUME Path!RequestPathAssumption, Windows, NEW k \in Keys, Path!Arrive(k)
  PROVE  Windows'
<1>1. PICK b : b = Path!Counted(k)
  OBVIOUS
<1>2. /\ b \in [start : Nat, count : Nat] /\ b.start \in Nat /\ b.count \in Nat
      /\ b.count # 0 /\ b.start <= now
      /\ now < b.start + Window /\ (b.count = 1 => now = b.start)
  <2>1. /\ b \in [start : Nat, count : Nat] /\ b.count # 0 /\ b.start <= now
        /\ now < b.start + Window /\ (b.count = 1 => now = b.start)
    BY <1>1, NextCounted
  <2> QED BY <2>1
<1>3. bucket' = [bucket EXCEPT ![k] = b] /\ now' = now /\ now \in Nat
  BY <1>1 DEF Path!Arrive, Windows
<1>4. /\ bucket' \in [Keys -> [start : Nat, count : Nat]] /\ bucket'[k] = b
      /\ \A j \in Keys : bucket'[j].start <= now'
  BY <1>2, <1>3 DEF Windows
<1>5. \A a \in admitted :
        /\ InWindow(a) /\ bucket'[a.key].count # 0
        /\ \/ a.start = bucket'[a.key].start /\ a.nth <= bucket'[a.key].count
           \/ a.start + Window <= bucket'[a.key].start
        /\ a.key = k => /\ Apart(a.start, b.start)
                        /\ a.start = b.start => a.nth < b.count
  BY <1>1, <1>3, OldInWindows
<1>6. CASE b.count > Rpm
  <2>1. admitted' = admitted
    BY <1>1, <1>6 DEF Path!Arrive
  <2> QED BY <1>3, <1>4, <1>5, <2>1 DEF Windows, InWindow
<1>7. CASE ~(b.count > Rpm)
  <2>1. PICK n : n = [key |-> k, start |-> b.start, nth |-> b.count, at |-> now]
    OBVIOUS
  <2>2. admitted' = admitted \cup {n}
    BY <1>1, <1>7, <2>1 DEF Path!Arrive
  <2>3. /\ n \in Path!Admissions /\ n.key = k /\ n.start = b.start /\ n.nth = b.count
        /\ n.at = now
        /\ Window \in Nat /\ Rpm \in Nat
    BY <1>2, <1>3, <2>1 DEF Path!Admissions, Path!RequestPathAssumption
  <2>4. InWindow(n)
    BY <1>2, <1>3, <1>7, <2>3 DEF InWindow
  <2>5. \A a \in admitted : a.key = n.key =>
          /\ Apart(a.start, n.start) /\ Apart(n.start, a.start)
          /\ ~(a.start = n.start /\ a.nth = n.nth)
    <3> SUFFICES ASSUME NEW a \in admitted, a.key = n.key
                 PROVE  /\ Apart(a.start, n.start) /\ Apart(n.start, a.start)
                        /\ ~(a.start = n.start /\ a.nth = n.nth)
      OBVIOUS
    <3>1. a.nth \in Nat
      BY DEF Windows, Path!Admissions
    <3> QED BY <1>2, <1>5, <2>3, <3>1 DEF Apart
  <2>6. Apart(n.start, n.start)
    BY DEF Apart
  <2>7. \A a, c \in admitted' : a.key = c.key =>
          /\ Apart(a.start, c.start)
          /\ a.start = c.start /\ a.nth = c.nth => a = c
    BY <2>2, <2>5, <2>6 DEF Windows
  <2>8. \A a \in admitted' :
          /\ InWindow(a) /\ bucket'[a.key].count # 0
          /\ \/ a.start = bucket'[a.key].start /\ a.nth <= bucket'[a.key].count
             \/ a.start + Window <= bucket'[a.key].start
    BY <1>2, <1>4, <1>5, <2>2, <2>3, <2>4
  <2> QED BY <1>3, <1>4, <2>2, <2>3, <2>7, <2>8 DEF Windows, InWindow, Apart
<1> QED BY <1>6, <1>7

LEMMA WindowsNext ==
  ASSUME Path!RequestPathAssumption, Windows, [Path!Next]_(Path!vars)
  PROVE  Windows'
<1>1. CASE UNCHANGED <<now, bucket, admitted>>
  BY <1>1 DEF Windows, InWindow, Apart
<1>2. CASE Path!Tick
  BY <1>2 DEF Path!Tick, Windows, InWindow, Apart
<1> QED BY <1>1, <1>2, WindowsArrive DEF Path!Next, Path!ArriveFree, Path!Log, Path!Leave,
           Path!vars

\* Fewer than twice the limit are numbered so.
LEMMA Numbering ==
  ASSUME Path!RequestPathAssumption, Windows, NEW k \in Keys, NEW t \in Nat
  PROVE  Cardinality({a \in admitted : a.key = k /\ a.at \in t..(t + Window - 1)}) < 2 * Rpm
<1> DEFINE S == {a \in admitted : a.key = k /\ a.at \in t..(t + Window - 1)}
           T == 1..(2 * Rpm - 1)
           f == [a \in S |-> IF a.start >= t THEN a.nth ELSE Rpm + a.nth - 1]
<1>1. Rpm \in Nat \ {0} /\ Window \in Nat \ {0}
  BY DEF Path!RequestPathAssumption
<1>2. IsFiniteSet(T) /\ Cardinality(T) = 2 * Rpm - 1
  BY <1>1, FS_Interval
<1>3. ASSUME NEW a \in S
      PROVE  /\ a \in admitted /\ a.key = k /\ a.start \in Nat /\ a.nth \in Nat /\ a.at \in Nat
             /\ a.nth \in 1..Rpm /\ a.at \in a.start..(a.start + Window - 1)
             /\ (a.nth = 1 => a.at = a.start) /\ a.at \in t..(t + Window - 1)
  BY <1>3 DEF Windows, InWindow, Path!Admissions
<1>4. ASSUME NEW a \in S
      PROVE  f[a] \in T /\ (a.start < t => a.nth >= 2)
  BY <1>1, <1>3, <1>4
<1>5. ASSUME NEW a \in S, NEW b \in S, f[a] = f[b]
      PROVE  a = b
  <2>1. Apart(a.start, b.start) /\ (a.start = b.start /\ a.nth = b.nth => a = b)
    BY <1>3, <1>5 DEF Windows
  <2>2. CASE a.start >= t /\ b.start >= t
    BY <1>1, <1>3, <1>5, <2>1, <2>2 DEF Apart
  <2>3. CASE a.start < t /\ b.start < t
    BY <1>1, <1>3, <1>5, <2>1, <2>3 DEF Apart
  <2>4. CASE \/ a.start >= t /\ b.start < t
             \/ a.start < t /\ b.start >= t
    BY <1>1, <1>3, <1>4, <1>5, <2>4
  <2> QED BY <1>3, <1>5, <2>2, <2>3, <2>4
<1> HIDE DEF S, T
<1>6. f \in [S -> T] /\ \A a, b \in S : f[a] = f[b] => a = b
  <2>1. f \in [S -> T]
    BY <1>4
  <2> QED BY <1>5, <2>1
<1> HIDE DEF f
<1>7. f \in Injection(S, T)
  BY <1>6 DEF Injection, IsInjective
<1>8. IsFiniteSet(S) /\ Cardinality(S) <= Cardinality(T)
  BY <1>2, <1>7, FS_Injection
<1>9. Cardinality(S) \in Nat
  BY <1>8, FS_CardinalityType
<1>10. Cardinality(S) < 2 * Rpm
  BY <1>1, <1>2, <1>8, <1>9
<1> QED BY <1>10 DEF S

LEMMA WindowsGive ==
  ASSUME Path!RequestPathAssumption, Windows
  PROVE  Path!BelowTwiceTheLimit
<1>1. \A t \in 0..now : t \in Nat
  BY DEF Windows
<1> QED BY <1>1, Numbering, SameSizes DEF Path!BelowTwiceTheLimit

-----------------------------------------------------------------------------
(* The registry of models: the types. *)

\* The record of a request.
Registrations ==
  [step : {"idle", "load", "install", "set", "dump", "open", "fill", "replace"},
   name : Names \cup {None}, id : 0..ModelRequests, copy : Models!Models,
   handle : {"none", "tmp", "disk"}]

\* What a file may hold after a write.
LEMMA WrittenTypes ==
  ASSUME NEW f \in Models!Texts, NEW m \in Models!Models
  PROVE  Models!Written(f, m) \subseteq Models!Texts
BY DEF Models!Written, Models!Texts

LEMMA RegistryTypedInit ==
  ASSUME Models!ModelRegistryAssumption, Models!Init
  PROVE  Models!TypeOK
<1>1. Models!NoModels \in Models!Models /\ Models!Idle \in Registrations
        /\ None \in Models!Texts
  BY DEF Models!NoModels, Models!Models, Models!Idle, Registrations, Models!Texts,
     Models!ModelRegistryAssumption
<1>2. /\ modelWorker \in [Workers -> Registrations]
      /\ models \in Models!Models /\ modelFile \in Models!Texts
      /\ modelTmp \in Models!Texts /\ answered \in Models!Models
  BY <1>1 DEF Models!Init
<1>3. /\ modelCount \in 0..ModelRequests /\ modelCrashes \in 0..MaxCrashes
      /\ faults \in 0..MaxFaults
  BY DEF Models!Init, Models!ModelRegistryAssumption
<1>4. modelOverlaps \in BOOLEAN
  BY DEF Models!Init
<1> QED BY <1>2, <1>3, <1>4 DEF Models!TypeOK, Registrations

\* Every step keeps the types.
LEMMA RegistryTypedNext ==
  ASSUME Models!ModelRegistryAssumption, Models!TypeOK, [Models!Next]_(Models!vars)
  PROVE  Models!TypeOK'
<1>1. /\ Models!NoModels \in Models!Models /\ Models!Idle \in Registrations
      /\ modelWorker \in [Workers -> Registrations]
      /\ ModelRequests \in Nat /\ MaxCrashes \in Nat /\ MaxFaults \in Nat
  BY DEF Models!NoModels, Models!Models, Models!Idle, Registrations,
     Models!ModelRegistryAssumption, Models!TypeOK
<1>2. /\ models \in Models!Models /\ modelFile \in Models!Texts
      /\ modelTmp \in Models!Texts /\ answered \in Models!Models
      /\ modelCount \in 0..ModelRequests /\ modelCrashes \in 0..MaxCrashes
      /\ faults \in 0..MaxFaults
      /\ modelOverlaps \in BOOLEAN
  BY DEF Models!TypeOK
<1>3. \A m \in Models!Models, i \in 0..ModelRequests :
        \A n : [m EXCEPT ![n] = i] \in Models!Models
  BY DEF Models!Models
<1> HIDE DEF Models!Models, Models!Texts, Registrations
<1> DEFINE Typed ==
             /\ models' \in Models!Models /\ modelFile' \in Models!Texts
             /\ modelTmp' \in Models!Texts /\ modelWorker' \in [Workers -> Registrations]
             /\ modelCount' \in 0..ModelRequests /\ modelCrashes' \in 0..MaxCrashes
             /\ faults' \in 0..MaxFaults /\ answered' \in Models!Models
             /\ modelOverlaps' \in BOOLEAN
<1> SUFFICES Typed
  BY DEF Models!TypeOK, Registrations
<1>4. ASSUME NEW w \in Workers
      PROVE  /\ modelWorker[w] \in Registrations /\ modelWorker[w].copy \in Models!Models
             /\ modelWorker[w].id \in 0..ModelRequests
             /\ \A s \in {"idle", "load", "install", "set", "dump", "open", "fill", "replace"},
                   m \in Models!Models, h \in {"none", "tmp", "disk"} :
                  [modelWorker[w] EXCEPT !.step = s, !.copy = m, !.handle = h] \in Registrations
  BY <1>1 DEF Registrations
<1>5. ASSUME NEW w \in Workers, NEW n \in Names \cup {None}, NEW s \in {"load", "set"},
             Models!Accept(w, n, s)
      PROVE  Typed
  <2> DEFINE x == [Models!Idle EXCEPT !.step = IF models = Models!NoModels THEN "load" ELSE s,
                               !.name = n, !.id = modelCount + 1]
  <2>1. modelCount + 1 \in 0..ModelRequests
    BY <1>1, <1>2, <1>5 DEF Models!Accept
  <2>2. x \in Registrations
    BY <1>1, <2>1 DEF Models!Idle, Registrations
  <2> HIDE DEF x
  <2>3. modelWorker' = [modelWorker EXCEPT ![w] = x] /\ modelOverlaps' \in BOOLEAN
          /\ modelCount' = modelCount + 1
        /\ UNCHANGED <<models, modelFile, modelTmp, modelCrashes, faults, answered>>
    BY <1>2, <1>5 DEF Models!Accept, x
  <2> QED BY <1>1, <1>2, <2>1, <2>2, <2>3
<1>6. ASSUME NEW w \in Workers, NEW x \in Registrations,
             modelWorker' = [modelWorker EXCEPT ![w] = x]
      PROVE  modelWorker' \in [Workers -> Registrations]
  BY <1>1, <1>6
<1>7. ASSUME NEW w \in Workers,
             \/ Models!Answer(w)
             \/ \E s \in {"set", "dump"} : Models!GoTo(w, s)
             \/ \E s \in {"install", "open", "fill", "replace"}, m \in Models!Models,
                   h \in {"none", "tmp", "disk"} :
                  modelWorker' = [modelWorker EXCEPT ![w] =
                    [modelWorker[w] EXCEPT !.step = s, !.copy = m, !.handle = h]]
      PROVE  modelWorker' \in [Workers -> Registrations]
  <2>1. CASE Models!Answer(w)
    BY <1>1, <1>6, <2>1 DEF Models!Answer
  <2>2. ASSUME NEW s \in {"set", "dump"}, Models!GoTo(w, s)
        PROVE  modelWorker' \in [Workers -> Registrations]
    <3>1. [modelWorker[w] EXCEPT !.step = s] \in Registrations
      BY <1>1 DEF Registrations
    <3> QED BY <1>1, <2>2, <3>1 DEF Models!GoTo
  <2> QED BY <1>4, <1>6, <1>7, <2>1, <2>2
<1>8. ASSUME NEW w \in Workers, Models!Load(w)
      PROVE  Typed
  <2> DEFINE m == IF modelFile \in {None, Torn} THEN Models!NoModels ELSE modelFile
  <2>1. m \in Models!Models
    BY <1>1, <1>2 DEF Models!Texts
  <2>2. modelWorker' =
          [modelWorker EXCEPT ![w] = [modelWorker[w] EXCEPT !.step = "install", !.copy = m]]
    BY <1>1, <1>8 DEF Models!Load
  <2>3. [modelWorker[w] EXCEPT !.step = "install", !.copy = m] \in Registrations
    BY <1>1, <2>1 DEF Registrations
  <2> HIDE DEF m
  <2> QED BY <1>2, <1>6, <1>8, <2>2, <2>3 DEF Models!Load
<1>9. ASSUME NEW w \in Workers, Models!Install(w)
      PROVE  Typed
  <2>1. modelWorker' \in [Workers -> Registrations]
    BY <1>7, <1>9 DEF Models!Install
  <2> QED BY <1>2, <1>4, <1>9, <2>1 DEF Models!Install
<1>10. ASSUME NEW w \in Workers, Models!Set(w)
       PROVE  Typed
  <2>1. modelWorker' \in [Workers -> Registrations]
    BY <1>7, <1>10 DEF Models!Set
  <2> QED BY <1>2, <1>3, <1>4, <1>10, <2>1 DEF Models!Set
<1>11. ASSUME NEW w \in Workers, Models!Dump(w)
       PROVE  Typed
  <2>1. [modelWorker[w] EXCEPT !.step = "open", !.copy = models] \in Registrations
    BY <1>1, <1>2 DEF Registrations
  <2> QED BY <1>1, <1>2, <1>11, <2>1 DEF Models!Dump
<1>12. ASSUME NEW w \in Workers, Models!OpenTmp(w)
       PROVE  Typed
  <2>1. [modelWorker[w] EXCEPT !.step = "fill", !.handle = "tmp"] \in Registrations
          /\ Torn \in Models!Texts
    BY <1>1, <1>2 DEF Registrations, Models!Texts
  <2> QED BY <1>1, <1>2, <1>12, <2>1 DEF Models!OpenTmp
<1>13. ASSUME NEW w \in Workers, Models!Fill(w)
       PROVE  Typed
  <2>1. [modelWorker[w] EXCEPT !.step = "replace", !.handle = "none"] \in Registrations
    BY <1>1 DEF Registrations
  <2>2. modelWorker' \in [Workers -> Registrations] /\ modelFile' \in Models!Texts
          /\ modelTmp' \in Models!Texts
    <3>1. CASE /\ modelWorker' = [modelWorker EXCEPT ![w] =
                    [modelWorker[w] EXCEPT !.step = "replace", !.handle = "none"]]
               /\ CASE modelWorker[w].handle = "tmp" ->
                         modelTmp' \in Models!Written(modelTmp, modelWorker[w].copy)
                           /\ UNCHANGED modelFile
                    [] modelWorker[w].handle = "disk" ->
                         modelFile' \in Models!Written(modelFile, modelWorker[w].copy)
                           /\ UNCHANGED modelTmp
                    [] modelWorker[w].handle = "none" -> UNCHANGED <<modelFile, modelTmp>>
      <4>1. modelWorker[w].handle \in {"none", "tmp", "disk"}
        BY <1>1 DEF Registrations
      <4>2. Models!Written(modelTmp, modelWorker[w].copy) \subseteq Models!Texts
              /\ Models!Written(modelFile, modelWorker[w].copy) \subseteq Models!Texts
        BY <1>2, <1>4, WrittenTypes
      <4>3. modelWorker' \in [Workers -> Registrations]
        BY <1>6, <2>1, <3>1
      <4> QED BY <1>2, <3>1, <4>1, <4>2, <4>3
    <3>2. CASE Models!Answer(w) /\ UNCHANGED <<modelFile, modelTmp>>
      BY <1>2, <1>7, <3>2
    <3> QED BY <1>1, <1>13, <3>1, <3>2 DEF Models!Fill
  <2>3. faults' = faults \/ (faults < MaxFaults /\ faults' = faults + 1)
    BY <1>13, Zenon DEF Models!Fill
  <2>4. faults' \in 0..MaxFaults
    BY <1>1, <1>2, <2>3
  <2> QED BY <1>2, <1>13, <2>2, <2>4 DEF Models!Fill
<1>14. ASSUME NEW w \in Workers, Models!Replace(w)
       PROVE  Typed
  <2>1. CASE modelTmp = None
    <3>1. modelWorker' \in [Workers -> Registrations]
      BY <1>7, <1>14, <2>1 DEF Models!Replace
    <3> QED BY <1>2, <1>14, <2>1, <3>1 DEF Models!Replace
  <2>2. CASE modelTmp # None
    <3>1. \A v \in Workers :
            /\ [modelWorker[v] EXCEPT !.handle = "disk"] \in Registrations
            /\ [modelWorker[v] EXCEPT !.handle = "none"] \in Registrations
      BY <1>1 DEF Registrations
    <3>2. modelWorker' \in [Workers -> Registrations]
      BY <1>1, <1>14, <2>2, <3>1 DEF Models!Replace
    <3>3. None \in Models!Texts
      BY DEF Models!Texts
    <3>4. /\ modelFile' = modelTmp /\ modelTmp' = None
          /\ answered' = [answered EXCEPT ![modelWorker[w].name] = modelWorker[w].id]
          /\ UNCHANGED <<models, modelCount, modelCrashes, faults, modelOverlaps>>
      BY <1>14, <2>2, Zenon DEF Models!Replace
    <3>5. answered' \in Models!Models
      BY <1>2, <1>3, <1>4, <3>4
    <3> QED BY <1>2, <3>2, <3>3, <3>4, <3>5
  <2> QED BY <2>1, <2>2
<1>15. CASE Models!Crash
  <2>1. modelWorker' \in [Workers -> Registrations]
    BY <1>1, <1>15 DEF Models!Crash
  <2>2. modelCrashes' \in 0..MaxCrashes
    BY <1>1, <1>2, <1>15 DEF Models!Crash
  <2> QED BY <1>1, <1>2, <1>15, <2>1, <2>2 DEF Models!Crash
<1>16. CASE UNCHANGED Models!vars
  BY <1>1, <1>2, <1>16 DEF Models!vars
<1>17. ASSUME NEW w \in Workers, Models!Step(w)
       PROVE  Typed
  <2>1. \A n \in Names : Models!Register(w, n) => Typed
    BY <1>5 DEF Models!Register
  <2>2. Models!Look(w) => Typed
    BY <1>5 DEF Models!Look
  <2> HIDE DEF Typed
  <2> QED BY <1>8, <1>9, <1>10, <1>11, <1>12, <1>13, <1>14, <1>17, <2>1, <2>2 DEF
             Models!Step
<1> QED BY <1>15, <1>16, <1>17 DEF Models!Next

-----------------------------------------------------------------------------
(* The registry of models: one request at a time, what is answered is in the
   file. *)

\* Every registration that was answered is in the models m, or a later one.
Covers(m) == m \in Models!Models /\ \A n \in Names : m[n] >= answered[n]

\* The request under way, if there is one, came last; and what its step may rely
\* on.
OnTheWay(w) ==
  LET x == modelWorker[w] IN
  /\ x.step # "idle" => x.id = modelCount
  /\ x.step \in {"set", "dump", "open", "fill", "replace"} => x.name \in Names
  /\ x.step = "install" => Covers(x.copy)
  /\ x.step \in {"set", "dump"} => Covers(models)
  /\ x.step \in {"dump", "open", "fill", "replace"} => models[x.name] = x.id
  /\ x.step \in {"open", "fill", "replace"} => Covers(x.copy) /\ x.copy[x.name] = x.id
  /\ x.step = "fill" => x.handle = "tmp" /\ modelTmp = Torn
  /\ x.step = "replace" => modelTmp = x.copy

\* As long as no two requests met, the file covers what was answered, and the
\* memory does unless it was emptied and not loaded since.
Kept ==
  ~modelOverlaps =>
    /\ \A v, w \in Workers : ~Models!At(v, "idle") /\ ~Models!At(w, "idle") => v = w
    /\ \A w \in Workers : OnTheWay(w)
    /\ \A n \in Names : answered[n] <= modelCount
    /\ Covers(modelFile) \/ (modelFile = None /\ answered = Models!NoModels)
    /\ models = Models!NoModels \/ Covers(models)

\* What remains to be shown of a step of the only request.
LEMMA KeptByOne ==
  ASSUME NEW w \in Workers, modelWorker \in [Workers -> Registrations],
         \A v \in Workers \ {w} : Models!At(v, "idle"),
         \A v \in Workers \ {w} : modelWorker'[v].step = modelWorker[v].step,
         OnTheWay(w)', \A n \in Names : answered'[n] <= modelCount',
         Covers(modelFile)' \/ (modelFile' = None /\ answered' = Models!NoModels),
         models' = Models!NoModels \/ Covers(models)'
  PROVE  Kept'
<1>1. \A v \in Workers \ {w} : modelWorker'[v].step = "idle"
  BY DEF Models!At
<1>2. \A u, v \in Workers : ~Models!At(u, "idle")' /\ ~Models!At(v, "idle")' => u = v
  BY <1>1 DEF Models!At
<1>3. \A v \in Workers \ {w} : OnTheWay(v)'
  BY <1>1 DEF OnTheWay
<1> QED BY <1>2, <1>3 DEF Kept

LEMMA KeptInit == ASSUME Models!ModelRegistryAssumption, Models!Init PROVE Kept
BY DEF Models!Init, Kept, Models!At, OnTheWay, Models!Idle, Models!NoModels,
   Models!ModelRegistryAssumption

\* A request begins with what is in memory, or with the file.
LEMMA KeptAccept ==
  ASSUME Models!ModelRegistryAssumption, Models!TypeOK, Kept, NEW w \in Workers,
         NEW n \in Names \cup {None}, NEW next \in {"load", "set"},
         next = "set" => n \in Names, Models!Accept(w, n, next)
  PROVE  Kept'
<1>1. SUFFICES ASSUME ~modelOverlaps' PROVE Kept'
  BY DEF Kept
<1>2. /\ ~modelOverlaps /\ (\A v \in Workers \ {w} : Models!At(v, "idle"))
      /\ modelCount' = modelCount + 1
      /\ UNCHANGED <<models, modelFile, modelTmp, modelCrashes, faults, answered>>
  BY <1>1 DEF Models!Accept
<1> DEFINE x == [Models!Idle EXCEPT !.step = IF models = Models!NoModels THEN "load" ELSE next,
                             !.name = n, !.id = modelCount + 1]
<1>3. /\ modelWorker' = [modelWorker EXCEPT ![w] = x]
      /\ modelWorker \in [Workers -> Registrations]
      /\ answered \in Models!Models /\ modelCount \in Nat /\ models \in Models!Models
  BY DEF Models!Accept, Models!TypeOK, Registrations, Models!ModelRegistryAssumption
<1>4. /\ x.step \in {"load", "set"} /\ x.name = n /\ x.id = modelCount + 1
      /\ x.step = "set" => next = "set" /\ models # Models!NoModels
  BY DEF Models!Idle
<1> HIDE DEF x
<1>5. modelWorker'[w] = x /\ \A v \in Workers \ {w} : modelWorker'[v] = modelWorker[v]
  BY <1>3
<1>6. Covers(models)' <=> Covers(models)
  BY <1>2 DEF Covers
<1>7. OnTheWay(w)'
  BY <1>2, <1>4, <1>5, <1>6 DEF OnTheWay, Kept
<1>8. \A m \in Names : answered'[m] <= modelCount'
  BY <1>2, <1>3 DEF Kept, Models!Models
<1> QED BY <1>2, <1>3, <1>5, <1>7, <1>8, KeptByOne DEF Kept, Covers

\* Then it goes on alone.
LEMMA KeptStep ==
  ASSUME Models!ModelRegistryAssumption, Models!TypeOK, Kept, NEW w \in Workers,
         \/ Models!Load(w) \/ Models!Install(w) \/ Models!Set(w) \/ Models!Dump(w)
              \/ Models!OpenTmp(w) \/ Models!Fill(w) \/ Models!Replace(w)
  PROVE  Kept'
<1>1. SUFFICES ASSUME ~modelOverlaps' PROVE Kept'
  BY DEF Kept
<1>2. ~modelOverlaps /\ modelWorker[w].step # "idle"
  <2>1. CASE Models!Load(w) \/ Models!Install(w) \/ Models!Set(w) \/ Models!Dump(w)
               \/ Models!OpenTmp(w)
    BY <1>1, <2>1 DEF Models!At, Models!Load, Models!Install, Models!Set, Models!Dump,
       Models!OpenTmp
  <2>2. CASE Models!Fill(w)
    <3>1. modelOverlaps' = modelOverlaps /\ modelWorker[w].step = "fill"
      BY <2>2, Zenon DEF Models!Fill, Models!At
    <3> QED BY <1>1, <3>1
  <2>3. CASE Models!Replace(w)
    BY <1>1, <2>3 DEF Models!Replace, Models!At
  <2> QED BY <2>1, <2>2, <2>3
<1>3. /\ \A v \in Workers \ {w} : Models!At(v, "idle")
      /\ OnTheWay(w) /\ (\A n \in Names : answered[n] <= modelCount)
      /\ Covers(modelFile) \/ (modelFile = None /\ answered = Models!NoModels)
      /\ models = Models!NoModels \/ Covers(models)
  BY <1>2 DEF Kept, Models!At
<1>4. /\ modelWorker \in [Workers -> Registrations] /\ modelWorker[w] \in Registrations
      /\ modelWorker[w].id \in Nat /\ modelWorker[w].copy \in Models!Models
      /\ answered \in Models!Models /\ models \in Models!Models /\ modelCount \in Nat
      /\ Models!NoModels \in Models!Models /\ Models!Idle.step = "idle"
      /\ None \notin Models!Models /\ Torn \notin Models!Models
      /\ \A m \in Models!Models, n \in Names : m[n] \in Nat
  BY DEF Models!TypeOK, Registrations, Models!ModelRegistryAssumption, Models!NoModels,
     Models!Models, Models!Idle
<1>5. ASSUME NEW x, modelWorker' = [modelWorker EXCEPT ![w] = x]
      PROVE  modelWorker'[w] = x
               /\ \A v \in Workers \ {w} : modelWorker'[v].step = modelWorker[v].step
  BY <1>4, <1>5
<1>6. ASSUME UNCHANGED answered
      PROVE  \A m : Covers(m) <=> m \in Models!Models /\ \A n \in Names : m[n] >= answered'[n]
  BY <1>6 DEF Covers
<1>7. CASE Models!Load(w)
  <2> DEFINE m == IF modelFile \in {None, Torn} THEN Models!NoModels ELSE modelFile
             x == [modelWorker[w] EXCEPT !.step = "install", !.copy = m]
  <2>1. x.step = "install" /\ x.copy = m /\ x.id = modelWorker[w].id
    BY <1>4 DEF Registrations
  <2>2. Covers(m)
    BY <1>3, <1>4 DEF Covers, Models!NoModels
  <2>3. modelWorker' = [modelWorker EXCEPT ![w] = x]
        /\ UNCHANGED <<models, modelFile, modelTmp, modelCount, modelCrashes, faults,
             answered, modelOverlaps>>
    BY <1>4, <1>7 DEF Models!Load
  <2> HIDE DEF x, m
  <2>4. OnTheWay(w)'
    BY <1>2, <1>3, <1>5, <2>1, <2>2, <2>3 DEF OnTheWay, Covers
  <2> QED BY <1>3, <1>4, <1>5, <2>3, <2>4, KeptByOne DEF Covers
<1>8. CASE Models!Install(w)
  <2>1. /\ models' = modelWorker[w].copy
        /\ UNCHANGED <<modelFile, modelTmp, modelCount, modelCrashes, faults, answered,
             modelOverlaps>>
        /\ Covers(models)'
    BY <1>3, <1>8 DEF Models!Install, OnTheWay, Models!At, Covers
  <2>2. CASE modelWorker[w].name = None
    <3>1. modelWorker' = [modelWorker EXCEPT ![w] = Models!Idle]
      BY <1>8, <2>2 DEF Models!Install, Models!Answer
    <3>2. OnTheWay(w)'
      BY <1>4, <1>5, <3>1 DEF OnTheWay
    <3> QED BY <1>3, <1>4, <1>5, <2>1, <3>1, <3>2, KeptByOne DEF Covers
  <2>3. CASE modelWorker[w].name # None
    <3> DEFINE x == [modelWorker[w] EXCEPT !.step = "set"]
    <3>1. /\ x.step = "set" /\ x.name = modelWorker[w].name /\ x.id = modelWorker[w].id
          /\ x.name \in Names
      BY <1>4, <2>3 DEF Registrations
    <3>2. modelWorker' = [modelWorker EXCEPT ![w] = x]
      BY <1>4, <1>8, <2>3 DEF Models!Install, Models!GoTo
    <3> HIDE DEF x
    <3>3. OnTheWay(w)'
      BY <1>2, <1>3, <1>5, <2>1, <3>1, <3>2 DEF OnTheWay
    <3> QED BY <1>3, <1>4, <1>5, <2>1, <3>2, <3>3, KeptByOne DEF Covers
  <2> QED BY <2>2, <2>3
<1>9. CASE Models!Set(w)
  <2> DEFINE x == [modelWorker[w] EXCEPT !.step = "dump"]
  <2>1. /\ x.step = "dump" /\ x.name = modelWorker[w].name /\ x.id = modelWorker[w].id
    BY <1>4 DEF Registrations
  <2>2. /\ modelWorker' = [modelWorker EXCEPT ![w] = x]
        /\ models' = [models EXCEPT ![modelWorker[w].name] = modelWorker[w].id]
        /\ UNCHANGED <<modelFile, modelTmp, modelCount, modelCrashes, faults, answered,
             modelOverlaps>>
    BY <1>4, <1>9 DEF Models!Set, Models!GoTo
  <2>3. modelWorker[w].name \in Names /\ Covers(models) /\ modelWorker[w].id = modelCount
    BY <1>2, <1>3, <1>9 DEF Models!Set, Models!At, OnTheWay
  <2> HIDE DEF x
  <2>4. models'[modelWorker[w].name] = modelWorker[w].id /\ models' \in Models!Models
    BY <1>4, <2>2, <2>3 DEF Models!Models, Models!TypeOK, Registrations
  <2>5. \A n \in Names : models'[n] >= answered'[n]
    BY <1>3, <1>4, <2>2, <2>3 DEF Covers, Models!Models
  <2>6. Covers(models)'
    BY <2>4, <2>5 DEF Covers
  <2>7. OnTheWay(w)'
    BY <1>5, <2>1, <2>2, <2>3, <2>4, <2>6 DEF OnTheWay
  <2> QED BY <1>3, <1>4, <1>5, <2>2, <2>6, <2>7, KeptByOne DEF Covers
<1>10. CASE Models!Dump(w)
  <2> DEFINE x == [modelWorker[w] EXCEPT !.step = "open", !.copy = models]
  <2>1. /\ x.step = "open" /\ x.name = modelWorker[w].name /\ x.id = modelWorker[w].id
        /\ x.copy = models
    BY <1>4 DEF Registrations
  <2>2. /\ modelWorker' = [modelWorker EXCEPT ![w] = x]
        /\ UNCHANGED <<models, modelFile, modelTmp, modelCount, modelCrashes, faults,
             answered, modelOverlaps>>
    BY <1>4, <1>10 DEF Models!Dump
  <2>3. /\ modelWorker[w].name \in Names /\ Covers(models) /\ modelWorker[w].id = modelCount
        /\ models[modelWorker[w].name] = modelWorker[w].id
    BY <1>2, <1>3, <1>10 DEF Models!Dump, Models!At, OnTheWay
  <2> HIDE DEF x
  <2>4. OnTheWay(w)'
    BY <1>5, <2>1, <2>2, <2>3 DEF OnTheWay, Covers
  <2> QED BY <1>3, <1>4, <1>5, <2>2, <2>4, KeptByOne DEF Covers
<1>11. CASE Models!OpenTmp(w)
  <2> DEFINE x == [modelWorker[w] EXCEPT !.step = "fill", !.handle = "tmp"]
  <2>1. /\ x.step = "fill" /\ x.name = modelWorker[w].name /\ x.id = modelWorker[w].id
        /\ x.copy = modelWorker[w].copy /\ x.handle = "tmp"
    BY <1>4 DEF Registrations
  <2>2. /\ modelWorker' = [modelWorker EXCEPT ![w] = x] /\ modelTmp' = Torn
        /\ UNCHANGED <<models, modelFile, modelCount, modelCrashes, faults, answered,
             modelOverlaps>>
    BY <1>4, <1>11 DEF Models!OpenTmp
  <2>3. /\ modelWorker[w].name \in Names /\ Covers(modelWorker[w].copy)
        /\ modelWorker[w].id = modelCount
        /\ models[modelWorker[w].name] = modelWorker[w].id
        /\ modelWorker[w].copy[modelWorker[w].name] = modelWorker[w].id
    BY <1>2, <1>3, <1>11 DEF Models!OpenTmp, Models!At, OnTheWay
  <2> HIDE DEF x
  <2>4. OnTheWay(w)'
    BY <1>5, <2>1, <2>2, <2>3 DEF OnTheWay, Covers
  <2> QED BY <1>3, <1>4, <1>5, <2>2, <2>4, KeptByOne DEF Covers
<1>12. CASE Models!Fill(w)
  <2>1. /\ modelWorker[w].name \in Names /\ Covers(modelWorker[w].copy)
        /\ modelWorker[w].id = modelCount
        /\ models[modelWorker[w].name] = modelWorker[w].id
        /\ modelWorker[w].copy[modelWorker[w].name] = modelWorker[w].id
        /\ modelWorker[w].handle = "tmp" /\ modelTmp = Torn
    BY <1>2, <1>3, <1>12 DEF Models!Fill, Models!At, OnTheWay
  <2>2. UNCHANGED <<models, modelFile, modelCount, modelCrashes, answered, modelOverlaps>>
    BY <1>12, <2>1 DEF Models!Fill
  <2>3. CASE Models!Answer(w)
    <3>1. OnTheWay(w)'
      BY <1>4, <1>5, <2>3 DEF OnTheWay, Models!Answer
    <3> QED BY <1>3, <1>4, <1>5, <2>2, <2>3, <3>1, KeptByOne DEF Covers, Models!Answer
  <2>4. CASE /\ modelWorker' = [modelWorker EXCEPT ![w] =
                  [modelWorker[w] EXCEPT !.step = "replace", !.handle = "none"]]
             /\ modelTmp' \in Models!Written(modelTmp, modelWorker[w].copy)
    <3> DEFINE x == [modelWorker[w] EXCEPT !.step = "replace", !.handle = "none"]
    <3>1. /\ x.step = "replace" /\ x.name = modelWorker[w].name /\ x.id = modelWorker[w].id
          /\ x.copy = modelWorker[w].copy
      BY <1>4 DEF Registrations
    <3>2. modelWorker' = [modelWorker EXCEPT ![w] = x] /\ modelTmp' = modelWorker[w].copy
      BY <2>1, <2>4 DEF Models!Written
    <3> HIDE DEF x
    <3>3. OnTheWay(w)'
      BY <1>5, <2>1, <2>2, <3>1, <3>2 DEF OnTheWay, Covers
    <3> QED BY <1>3, <1>4, <1>5, <2>2, <3>2, <3>3, KeptByOne DEF Covers
  <2> QED BY <1>4, <1>12, <2>1, <2>3, <2>4 DEF Models!Fill
<1>13. CASE Models!Replace(w)
  <2>1. /\ modelWorker[w].name \in Names /\ Covers(modelWorker[w].copy)
        /\ modelWorker[w].id = modelCount
        /\ models[modelWorker[w].name] = modelWorker[w].id
        /\ modelWorker[w].copy[modelWorker[w].name] = modelWorker[w].id
        /\ modelTmp = modelWorker[w].copy
    BY <1>2, <1>3, <1>13 DEF Models!Replace, Models!At, OnTheWay
  <2>2. modelTmp # None
    BY <1>4, <2>1
  <2>3. /\ modelFile' = modelWorker[w].copy
        /\ answered' = [answered EXCEPT ![modelWorker[w].name] = modelWorker[w].id]
        /\ modelWorker' = [v \in Workers |->
               CASE v = w -> Models!Idle
                 [] v # w /\ modelWorker[v].handle = "tmp" ->
                      [modelWorker[v] EXCEPT !.handle = "disk"]
                 [] v # w /\ modelWorker[v].handle # "tmp" ->
                      [modelWorker[v] EXCEPT !.handle = "none"]]
        /\ UNCHANGED <<models, modelCount, modelCrashes, faults, modelOverlaps>>
    BY <1>13, <2>1, <2>2, Zenon DEF Models!Replace
  <2>4. modelWorker'[w].step = "idle"
          /\ \A v \in Workers \ {w} : modelWorker'[v].step = modelWorker[v].step
    BY <1>4, <2>3 DEF Registrations
  <2>5. /\ \A n \in Names : answered'[n] <= modelCount'
        /\ \A n \in Names : modelWorker[w].copy[n] >= answered'[n]
    BY <1>3, <1>4, <2>1, <2>3 DEF Covers, Models!Models
  <2>6. Covers(modelFile)'
    BY <1>4, <2>3, <2>5 DEF Covers
  <2>7. models' = Models!NoModels \/ Covers(models)'
    <3>1. CASE models = Models!NoModels
      BY <2>3, <3>1
    <3>2. CASE Covers(models)
      BY <1>3, <1>4, <2>1, <2>3, <3>2 DEF Covers, Models!Models
    <3> QED BY <1>3, <3>1, <3>2
  <2> QED BY <1>3, <1>4, <2>4, <2>5, <2>6, <2>7, KeptByOne DEF OnTheWay
<1> QED BY <1>7, <1>8, <1>9, <1>10, <1>11, <1>12, <1>13

LEMMA KeptNext ==
  ASSUME Models!ModelRegistryAssumption, Models!TypeOK, Kept, [Models!Next]_(Models!vars)
  PROVE  Kept'
<1>1. CASE UNCHANGED Models!vars
  BY <1>1 DEF Models!vars, Kept, Models!At, OnTheWay, Covers
<1>2. CASE Models!Crash
  <2>1. /\ \A w \in Workers : modelWorker'[w] = Models!Idle
        /\ models' = Models!NoModels
        /\ UNCHANGED <<modelFile, modelTmp, modelCount, faults, answered, modelOverlaps>>
        /\ Models!Idle.step = "idle"
    BY <1>2 DEF Models!Crash, Models!Idle
  <2>2. \A w \in Workers : OnTheWay(w)'
    BY <2>1 DEF OnTheWay
  <2> QED BY <2>1, <2>2 DEF Kept, Models!At, Covers
<1>3. ASSUME NEW w \in Workers, Models!Step(w)
      PROVE  Kept'
  <2>1. ASSUME NEW n \in Names, Models!Register(w, n)
        PROVE  Kept'
    BY <2>1, KeptAccept DEF Models!Register
  <2>2. CASE Models!Look(w)
    BY <2>2, KeptAccept DEF Models!Look
  <2> QED BY <1>3, <2>1, <2>2, KeptStep DEF Models!Step
<1> QED BY <1>1, <1>2, <1>3 DEF Models!Next

\* What the file covers is kept.
LEMMA KeptGives ==
  ASSUME Models!ModelRegistryAssumption, Models!TypeOK, Kept
  PROVE  Models!AnsweredModelsKept
BY DEF Kept, Covers, Models!AnsweredModelsKept, Models!ModelRegistryAssumption,
   Models!NoModels

-----------------------------------------------------------------------------
(* The federation: the types. *)

Configs == [Names -> Urls \cup {None}]
SyncSteps == {"idle", "save", "sync", "clone", "fetch", "clean", "add", "empty", "copy", "head"}
Syncs ==
  [step : SyncSteps, todo : Seq(Fed!RepoSpecs), copy : Configs \cup {<< >>},
   on : BOOLEAN]

\* A request has something to do, and a clone that it uses is complete.
Ready(w) ==
  /\ ~Fed!At(w, "idle") => fedWorker[w].todo # << >>
  /\ Fed!At(w, "save") => fedWorker[w].copy \in Configs
  /\ Fed!At(w, "fetch") \/ Fed!At(w, "clean") \/ Fed!At(w, "add")
       => clones[Fed!Target(w).name] \in Fed!Caches
  /\ Fed!At(w, "clone") => clones[Fed!Target(w).name] = Broken

\* One thread at most makes a clone.
OneMakes ==
  \A v, w \in Workers :
    v # w /\ Fed!At(v, "clone") /\ Fed!At(w, "clone") =>
      Fed!Target(v).name # Fed!Target(w).name

\* The types, of the functions and records as a whole.
Clones ==
  /\ tip \in [Urls -> 1..UrlCommits] /\ config \in Configs
  /\ clones \in [Names -> Fed!Caches \cup {None, Broken}]
  /\ checkout \in [Names -> Fed!Commits \cup {None}]
  /\ materialized \in [Names -> Fed!Commits \cup {None, Broken}]
  /\ fedWorker \in [Workers -> Syncs]
  /\ fedCount \in 0..FederationRequests /\ fedCrashes \in 0..MaxCrashes
  /\ answer \in [Names -> Fed!Commits \cup {None}]
  /\ raced \subseteq Names /\ halted \subseteq Names
  /\ \A w \in Workers : Ready(w)
  /\ OneMakes

LEMMA ClonesGive == ASSUME Clones PROVE Fed!TypeOK
BY DEF Clones, Fed!TypeOK, Syncs, SyncSteps, Configs

\* A thread that has something to do has a name and a URL to do it with.
LEMMA Targets ==
  ASSUME Clones, NEW w \in Workers, ~Fed!At(w, "idle")
  PROVE  /\ Fed!Target(w).name \in Names /\ Fed!Target(w).url \in Urls
         /\ Tail(fedWorker[w].todo) \in Seq(Fed!RepoSpecs)
<1>1. fedWorker[w].todo \in Seq(Fed!RepoSpecs) /\ fedWorker[w].todo # << >>
  BY DEF Clones, Ready, Syncs
<1>2. Head(fedWorker[w].todo) \in Fed!RepoSpecs
        /\ Tail(fedWorker[w].todo) \in Seq(Fed!RepoSpecs)
  BY <1>1
<1> QED BY <1>2 DEF Fed!Target, Fed!RepoSpecs

\* What a thread that is at work does next.
LEMMA Goes ==
  ASSUME Clones, NEW w \in Workers, NEW s \in SyncSteps, Fed!GoTo(w, s)
  PROVE  /\ fedWorker' \in [Workers -> Syncs]
         /\ fedWorker'[w].step = s /\ fedWorker'[w].todo = fedWorker[w].todo
         /\ fedWorker'[w].copy = fedWorker[w].copy
         /\ \A v \in Workers \ {w} : fedWorker'[v] = fedWorker[v]
<1>1. fedWorker \in [Workers -> Syncs] /\ fedWorker[w] \in Syncs
  BY DEF Clones
<1>2. fedWorker' = [fedWorker EXCEPT ![w] = [fedWorker[w] EXCEPT !.step = s]]
  BY <1>1 DEF Fed!GoTo
<1>3. /\ [fedWorker[w] EXCEPT !.step = s] \in Syncs
      /\ [fedWorker[w] EXCEPT !.step = s].step = s
      /\ [fedWorker[w] EXCEPT !.step = s].todo = fedWorker[w].todo
      /\ [fedWorker[w] EXCEPT !.step = s].copy = fedWorker[w].copy
  BY <1>1 DEF Syncs
<1> QED BY <1>1, <1>2, <1>3

LEMMA Answers ==
  ASSUME Clones, NEW w \in Workers, Fed!Answer(w)
  PROVE  /\ fedWorker' \in [Workers -> Syncs] /\ fedWorker'[w].step = "idle"
         /\ \A v \in Workers \ {w} : fedWorker'[v] = fedWorker[v]
<1>1. fedWorker \in [Workers -> Syncs]
  BY DEF Clones
<1>2. Fed!Idle \in Syncs /\ Fed!Idle.step = "idle"
  BY DEF Fed!Idle, Syncs, SyncSteps
<1> QED BY <1>1, <1>2 DEF Fed!Answer

\* No step spoils what another thread needs, as long as complete clones remain so
\* and only who makes a clone changes it.
LEMMA ReadyKept ==
  ASSUME Clones, NEW w \in Workers,
         \A v \in Workers \ {w} : fedWorker'[v] = fedWorker[v],
         \A n \in Names : clones[n] \in Fed!Caches => clones'[n] \in Fed!Caches,
         \A n \in Names :
           clones[n] = Broken /\ ~(Fed!At(w, "clone") /\ n = Fed!Target(w).name)
             => clones'[n] = Broken,
         Fed!At(w, "clone")' => clones[(Fed!Target(w).name)'] # Broken,
         Ready(w)'
  PROVE  (\A v \in Workers : Ready(v)') /\ OneMakes'
<1>1. ASSUME NEW v \in Workers, v # w
      PROVE  /\ Ready(v)'
             /\ Fed!At(v, "clone")' => clones[(Fed!Target(v).name)'] = Broken
             /\ fedWorker'[v] = fedWorker[v]
  <2>1. fedWorker'[v] = fedWorker[v] /\ Ready(v)
    BY <1>1 DEF Clones
  <2>2. ~Fed!At(v, "idle") => Fed!Target(v).name \in Names
    BY Targets
  <2>3. Fed!At(v, "clone") /\ Fed!At(w, "clone") => Fed!Target(v).name # Fed!Target(w).name
    BY <1>1 DEF Clones, OneMakes
  <2> QED BY <2>1, <2>2, <2>3 DEF Ready, Fed!At, Fed!Target
<1>2. ASSUME NEW u \in Workers, NEW v \in Workers, u # v,
             Fed!At(u, "clone")', Fed!At(v, "clone")'
      PROVE  (Fed!Target(u).name)' # (Fed!Target(v).name)'
  <2>1. CASE u # w /\ v # w
    BY <1>1, <1>2, <2>1 DEF Clones, OneMakes, Fed!At, Fed!Target
  <2>2. CASE u = w \/ v = w
    BY <1>1, <1>2, <2>2
  <2> QED BY <2>1, <2>2
<1> QED BY <1>1, <1>2 DEF OneMakes

\* The repositories that are configured are finitely many.
LEMMA KnownFinite ==
  ASSUME Fed!FederationAssumption, Clones, NEW some,
         some \subseteq {s \in Fed!RepoSpecs : config[s.name] = s.url}, some # {}
  PROVE  Cardinality(some) \in Nat \ {0}
<1> DEFINE D == {n \in Names : config[n] \in Urls}
           f == [n \in D |-> [name |-> n, url |-> config[n]]]
           T == {s \in Fed!RepoSpecs : config[s.name] = s.url}
<1>1. IsFiniteSet(D)
  BY FS_Subset, SameSizes DEF Fed!FederationAssumption
<1>2. f \in Surjection(D, T)
  <2>1. f \in [D -> T]
    BY DEF Fed!RepoSpecs
  <2>2. \A s \in T : \E n \in D : f[n] = s
    <3> SUFFICES ASSUME NEW s \in T PROVE s.name \in D /\ f[s.name] = s
      OBVIOUS
    <3> QED BY DEF Fed!RepoSpecs
  <2> QED BY <2>1, <2>2 DEF Surjection
<1>3. IsFiniteSet(T)
  BY <1>1, <1>2, FS_Surjection
<1>4. IsFiniteSet(some)
  BY <1>3, FS_Subset
<1> QED BY <1>4, FS_CardinalityType, FS_EmptySet

LEMMA ClonesInit == ASSUME Fed!FederationAssumption, Fed!Init PROVE Clones
<1>1. Fed!Idle \in Syncs /\ Fed!Idle.step = "idle"
  BY DEF Fed!Idle, Syncs, SyncSteps
<1>2. fedWorker \in [Workers -> Syncs] /\ (\A w \in Workers : Ready(w)) /\ OneMakes
  BY <1>1 DEF Fed!Init, Ready, OneMakes, Fed!At
<1>3. tip \in [Urls -> 1..UrlCommits] /\ fedCount \in 0..FederationRequests
        /\ fedCrashes \in 0..MaxCrashes
  BY DEF Fed!Init, Fed!FederationAssumption
<1> QED BY <1>2, <1>3 DEF Fed!Init, Clones, Configs

\* A request that comes in.
LEMMA ClonesAccept ==
  ASSUME Fed!FederationAssumption, Clones, NEW w \in Workers,
         (\E n \in Names, u \in Urls : Fed!Connect(w, n, u)) \/ Fed!Sync(w)
  PROVE  Clones'
<1>1. /\ UNCHANGED <<tip, config, clones, checkout, materialized, fedCrashes, answer, raced,
                    halted>>
      /\ fedCount < FederationRequests /\ fedCount' = fedCount + 1
  BY DEF Fed!Connect, Fed!Sync, Fed!Accept
<1>2. fedCount' \in 0..FederationRequests /\ fedWorker \in [Workers -> Syncs]
        /\ config \in Configs
  BY <1>1 DEF Clones, Fed!FederationAssumption
<1>3. ASSUME NEW x \in Syncs, fedWorker' = [fedWorker EXCEPT ![w] = x],
             x.step \in {"save", "sync"}, x.todo # << >>,
             x.step = "save" => x.copy \in Configs
      PROVE  Clones'
  <2>1. Ready(w)' /\ ~Fed!At(w, "clone")'
    BY <1>2, <1>3 DEF Ready, Fed!At
  <2>2. fedWorker' \in [Workers -> Syncs]
          /\ \A v \in Workers \ {w} : fedWorker'[v] = fedWorker[v]
    BY <1>2, <1>3
  <2>3. (\A v \in Workers : Ready(v)') /\ OneMakes'
    BY <1>1, <2>1, <2>2, ReadyKept
  <2> QED BY <1>1, <1>2, <2>2, <2>3 DEF Clones
<1>4. ASSUME NEW n \in Names, NEW u \in Urls, Fed!Connect(w, n, u)
      PROVE  Clones'
  <2>1. PICK sync \in BOOLEAN :
          fedWorker' = [fedWorker EXCEPT ![w] =
            [step |-> "save", todo |-> <<[name |-> n, url |-> u]>>,
             copy |-> [config EXCEPT ![n] = u], on |-> sync]]
    BY <1>4 DEF Fed!Connect
  <2> DEFINE t == <<[name |-> n, url |-> u]>>
             x == [step |-> "save", todo |-> t,
                   copy |-> [config EXCEPT ![n] = u], on |-> sync]
  <2>2. t \in Seq(Fed!RepoSpecs) /\ t # << >>
    BY DEF Fed!RepoSpecs
  <2>3. [config EXCEPT ![n] = u] \in Configs
    BY <1>2 DEF Configs
  <2>4. /\ x \in Syncs /\ x.step = "save" /\ x.todo # << >> /\ x.copy \in Configs
        /\ fedWorker' = [fedWorker EXCEPT ![w] = x]
    BY <2>1, <2>2, <2>3 DEF Syncs, SyncSteps
  <2> HIDE DEF x
  <2> QED BY <1>3, <2>4
<1>5. ASSUME Fed!Sync(w)
      PROVE  Clones'
  <2> DEFINE known == {s \in Fed!RepoSpecs : config[s.name] = s.url}
  <2>1. PICK some \in {{s} : s \in known} \cup {known} :
          \E todo \in [1..Cardinality(some) -> some] :
            /\ some # {}
            /\ fedWorker' =
                 [fedWorker EXCEPT ![w] = [Fed!Idle EXCEPT !.step = "sync", !.todo = todo]]
    BY <1>5, SameSizes, Zenon DEF Fed!Sync
  <2>2. PICK todo \in [1..Cardinality(some) -> some] :
          fedWorker' =
            [fedWorker EXCEPT ![w] = [Fed!Idle EXCEPT !.step = "sync", !.todo = todo]]
    BY <2>1
  <2>3. some \subseteq known /\ some \subseteq Fed!RepoSpecs /\ some # {}
    BY <2>1
  <2>4. Cardinality(some) \in Nat \ {0}
    BY <2>3, KnownFinite
  <2> HIDE DEF known
  <2>5. PICK k \in Nat \ {0} : k = Cardinality(some)
    BY <2>4
  <2>6. todo \in Seq(Fed!RepoSpecs) /\ todo # << >>
    BY <2>2, <2>3, <2>5
  <2> DEFINE x == [Fed!Idle EXCEPT !.step = "sync", !.todo = todo]
  <2>7. x \in Syncs /\ x.step = "sync" /\ x.todo # << >>
    BY <2>6 DEF Fed!Idle, Syncs, SyncSteps
  <2> HIDE DEF x
  <2> QED BY <1>3, <2>2, <2>7 DEF x
<1> QED BY <1>4, <1>5

LEMMA ClonesNext ==
  ASSUME Fed!FederationAssumption, Clones, [Fed!Next]_(Fed!vars)
  PROVE  Clones'
<1>1. /\ tip \in [Urls -> 1..UrlCommits] /\ config \in Configs
      /\ clones \in [Names -> Fed!Caches \cup {None, Broken}]
      /\ checkout \in [Names -> Fed!Commits \cup {None}]
      /\ materialized \in [Names -> Fed!Commits \cup {None, Broken}]
      /\ fedWorker \in [Workers -> Syncs]
      /\ fedCount \in 0..FederationRequests /\ fedCrashes \in 0..MaxCrashes
      /\ answer \in [Names -> Fed!Commits \cup {None}]
      /\ raced \subseteq Names /\ halted \subseteq Names
      /\ None \notin Fed!Caches /\ None \notin Fed!Commits /\ None # Broken
      /\ Broken \notin Fed!Caches
      /\ UrlCommits \in Nat /\ MaxCrashes \in Nat
  BY DEF Clones, Fed!FederationAssumption
<1>2. ASSUME NEW w \in Workers, Fed!Save(w)
      PROVE  Clones'
  <2>1. config' \in Configs
    BY <1>2 DEF Fed!Save, Clones, Ready
  <2>2. /\ fedWorker' \in [Workers -> Syncs] /\ Ready(w)' /\ ~Fed!At(w, "clone")'
        /\ \A v \in Workers \ {w} : fedWorker'[v] = fedWorker[v]
    <3>1. CASE Fed!GoTo(w, "sync")
      BY <1>2, <3>1, Goes DEF Fed!Save, SyncSteps, Clones, Ready, Fed!At
    <3>2. CASE Fed!Answer(w)
      BY <3>2, Answers DEF Ready, Fed!At
    <3> QED BY <1>2, <3>1, <3>2 DEF Fed!Save
  <2>3. (\A v \in Workers : Ready(v)') /\ OneMakes'
    BY <1>2, <2>2, ReadyKept DEF Fed!Save
  <2> QED BY <1>1, <1>2, <2>1, <2>2, <2>3 DEF Fed!Save, Clones
<1>3. ASSUME NEW w \in Workers, Fed!SyncBegin(w)
      PROVE  Clones'
  <2> DEFINE n == Fed!Target(w).name  u == Fed!Target(w).url
  <2>1. n \in Names /\ u \in Urls /\ fedWorker[w].todo # << >> /\ Fed!At(w, "sync")
    BY <1>3, Targets DEF Fed!SyncBegin, Fed!At, Clones, Ready
  <2>2. raced' \subseteq Names
    BY <1>1, <1>3, <2>1 DEF Fed!SyncBegin
  <2>3. /\ clones' \in [Names -> Fed!Caches \cup {None, Broken}]
        /\ \A m \in Names : clones[m] \in Fed!Caches => clones'[m] \in Fed!Caches
        /\ \A m \in Names : clones[m] = Broken => clones'[m] = Broken
        /\ fedWorker' \in [Workers -> Syncs] /\ Ready(w)'
        /\ Fed!At(w, "clone")' => clones[(Fed!Target(w).name)'] # Broken
        /\ \A v \in Workers \ {w} : fedWorker'[v] = fedWorker[v]
    <3>1. CASE clones[n] = None
      <4>1. clones' = [clones EXCEPT ![n] = Broken] /\ Fed!GoTo(w, "clone")
        BY <1>1, <1>3, <3>1 DEF Fed!SyncBegin
      <4>2. \A m \in Names : clones[m] \in Fed!Caches => m # n
        BY <1>1, <3>1
      <4>3. fedWorker'[w].todo = fedWorker[w].todo /\ fedWorker'[w].step = "clone"
            /\ fedWorker' \in [Workers -> Syncs]
            /\ \A v \in Workers \ {w} : fedWorker'[v] = fedWorker[v]
        BY <4>1, Goes DEF SyncSteps
      <4>4. (Fed!Target(w).name)' = n
        BY <4>3 DEF Fed!Target
      <4>5. Ready(w)'
        BY <1>1, <2>1, <4>1, <4>3, <4>4 DEF Ready, Fed!At
      <4> QED BY <1>1, <2>1, <3>1, <4>1, <4>2, <4>3, <4>4, <4>5
    <3>2. CASE clones[n] = Broken
      <4>1. UNCHANGED clones /\ Fed!Answer(w)
        BY <1>1, <1>3, <3>2 DEF Fed!SyncBegin
      <4> QED BY <1>1, <4>1, Answers DEF Ready, Fed!At
    <3>3. CASE clones[n] \notin {None, Broken}
      <4>1. clones' = [clones EXCEPT ![n].origin = u] /\ Fed!GoTo(w, "fetch")
        BY <1>1, <1>3, <3>3 DEF Fed!SyncBegin
      <4>2. clones[n] \in Fed!Caches /\ [clones[n] EXCEPT !.origin = u] \in Fed!Caches
        BY <1>1, <2>1, <3>3 DEF Fed!Caches
      <4>3. clones' = [clones EXCEPT ![n] = [clones[n] EXCEPT !.origin = u]]
        BY <1>1, <2>1, <4>1
      <4>4. /\ clones'[n] \in Fed!Caches
            /\ clones' \in [Names -> Fed!Caches \cup {None, Broken}]
            /\ \A m \in Names : clones[m] \in Fed!Caches => clones'[m] \in Fed!Caches
            /\ \A m \in Names : clones[m] = Broken => clones'[m] = Broken
        BY <1>1, <2>1, <3>3, <4>2, <4>3
      <4> QED BY <2>1, <4>1, <4>4, Goes DEF SyncSteps, Ready, Fed!At, Fed!Target
    <3> QED BY <3>1, <3>2, <3>3
  <2>4. (\A v \in Workers : Ready(v)') /\ OneMakes'
    BY <2>3, ReadyKept
  <2>5. UNCHANGED <<tip, config, checkout, materialized, fedCount, fedCrashes, answer,
                  halted>>
    BY <1>3 DEF Fed!SyncBegin
  <2> HIDE DEF n, u
  <2> QED BY <1>1, <2>2, <2>3, <2>4, <2>5 DEF Clones
<1>4. ASSUME NEW w \in Workers, Fed!Clone(w) \/ Fed!FetchAll(w)
      PROVE  Clones'
  <2> DEFINE n == Fed!Target(w).name
  <2>1. n \in Names /\ Fed!Target(w).url \in Urls /\ fedWorker[w].todo # << >>
    BY <1>4, Targets DEF Fed!Clone, Fed!FetchAll, Fed!At, Clones, Ready
  <2>2. ASSUME NEW u \in Urls
        PROVE  [url |-> u, n |-> tip[u]] \in Fed!Commits
    BY <1>1 DEF Fed!Commits
  <2>3. \E c \in Fed!Caches : clones' = [clones EXCEPT ![n] = c]
    <3>1. CASE Fed!Clone(w)
      <4>1. PICK c \in Fed!Commits :
              c = [url |-> Fed!Target(w).url, n |-> tip[Fed!Target(w).url]]
        BY <2>1, <2>2
      <4>2. [origin |-> Fed!Target(w).url, tracking |-> c, local |-> c] \in Fed!Caches
        BY <2>1 DEF Fed!Caches
      <4> QED BY <3>1, <4>1, <4>2 DEF Fed!Clone
    <3>2. CASE Fed!FetchAll(w)
      <4>1. clones[n] \in Fed!Caches
        BY <3>2 DEF Fed!FetchAll, Clones, Ready
      <4>2. PICK c \in Fed!Commits : c = [url |-> clones[n].origin, n |-> tip[clones[n].origin]]
        BY <2>2, <4>1 DEF Fed!Caches
      <4>3. clones' = [clones EXCEPT ![n] = [clones[n] EXCEPT !.tracking = c]]
        BY <1>1, <2>1, <3>2, <4>2 DEF Fed!FetchAll
      <4>4. [clones[n] EXCEPT !.tracking = c] \in Fed!Caches
        BY <4>1 DEF Fed!Caches
      <4> QED BY <4>3, <4>4
    <3> QED BY <1>4, <3>1, <3>2
  <2>4. /\ clones' \in [Names -> Fed!Caches \cup {None, Broken}] /\ clones'[n] \in Fed!Caches
        /\ \A m \in Names : clones[m] \in Fed!Caches => clones'[m] \in Fed!Caches
    BY <1>1, <2>1, <2>3
  <2>8. \A m \in Names : clones[m] = Broken /\ ~(Fed!At(w, "clone") /\ m = n)
          => clones'[m] = Broken
    <3>1. Fed!FetchAll(w) => clones[n] \in Fed!Caches
      BY DEF Fed!FetchAll, Clones, Ready
    <3>2. Fed!Clone(w) => Fed!At(w, "clone")
      BY DEF Fed!Clone
    <3> HIDE DEF n
    <3> QED BY <1>1, <1>4, <2>1, <2>3, <3>1, <3>2
  <2>5. /\ UNCHANGED <<tip, config, checkout, materialized, fedCount, fedCrashes, answer,
             raced, halted>>
        /\ Fed!GoTo(w, "clean")
    BY <1>4 DEF Fed!Clone, Fed!FetchAll
  <2>6. /\ fedWorker' \in [Workers -> Syncs] /\ Ready(w)' /\ ~Fed!At(w, "clone")'
        /\ \A v \in Workers \ {w} : fedWorker'[v] = fedWorker[v]
    BY <2>1, <2>4, <2>5, Goes DEF SyncSteps, Ready, Fed!At, Fed!Target
  <2>7. (\A v \in Workers : Ready(v)') /\ OneMakes'
    BY <2>4, <2>6, <2>8, ReadyKept
  <2> HIDE DEF n
  <2> QED BY <1>1, <2>4, <2>5, <2>6, <2>7 DEF Clones
<1>5. ASSUME NEW w \in Workers,
             Fed!CleanCheckout(w) \/ Fed!WorktreeAdd(w) \/ Fed!Empty(w) \/ Fed!Copy(w)
               \/ Fed!Finish(w)
      PROVE  Clones'
  <2> DEFINE n == Fed!Target(w).name
  <2>1. /\ n \in Names /\ fedWorker[w].todo # << >>
        /\ Tail(fedWorker[w].todo) \in Seq(Fed!RepoSpecs)
        /\ Ready(w)
    BY <1>5, Targets DEF Fed!CleanCheckout, Fed!WorktreeAdd, Fed!Empty, Fed!Copy,
       Fed!Finish, Fed!At, Clones, Ready
  <2>2. UNCHANGED <<tip, config, clones, fedCount, fedCrashes, raced>>
    BY <1>5 DEF Fed!CleanCheckout, Fed!WorktreeAdd, Fed!Empty, Fed!Copy, Fed!Finish
  <2>7. halted' \subseteq Names
    BY <1>1, <1>5, <2>1 DEF Fed!CleanCheckout, Fed!WorktreeAdd, Fed!Empty, Fed!Copy, Fed!Finish
  <2>3. /\ checkout' \in [Names -> Fed!Commits \cup {None}]
        /\ materialized' \in [Names -> Fed!Commits \cup {None, Broken}]
        /\ answer' \in [Names -> Fed!Commits \cup {None}]
    <3>1. CASE Fed!CleanCheckout(w) \/ Fed!Empty(w)
      BY <1>1, <3>1 DEF Fed!CleanCheckout, Fed!Empty
    <3>2. CASE Fed!WorktreeAdd(w)
      <4>1. clones[n].local \in Fed!Commits
        BY <2>1, <3>2 DEF Fed!WorktreeAdd, Ready, Fed!Caches
      <4> QED BY <1>1, <3>2, <4>1 DEF Fed!WorktreeAdd
    <3>3. CASE Fed!Copy(w) \/ Fed!Finish(w)
      BY <1>1, <2>1, <3>3 DEF Fed!Copy, Fed!Finish
    <3> QED BY <1>5, <3>1, <3>2, <3>3
  <2>4. \/ Fed!Answer(w)
        \/ Fed!CleanCheckout(w) /\ Fed!GoTo(w, "add")
        \/ \E s \in {"empty", "copy", "head"} : Fed!GoTo(w, s)
        \/ /\ Tail(fedWorker[w].todo) # << >>
           /\ fedWorker' = [fedWorker EXCEPT ![w] =
                [@ EXCEPT !.step = "sync", !.todo = Tail(fedWorker[w].todo)]]
    BY <1>5 DEF Fed!CleanCheckout, Fed!WorktreeAdd, Fed!Empty, Fed!Copy, Fed!Finish
  <2>5. /\ fedWorker' \in [Workers -> Syncs] /\ Ready(w)' /\ ~Fed!At(w, "clone")'
        /\ \A v \in Workers \ {w} : fedWorker'[v] = fedWorker[v]
    <3>1. CASE Fed!Answer(w)
      BY <3>1, Answers DEF Ready, Fed!At
    <3>2. CASE Fed!CleanCheckout(w) /\ Fed!GoTo(w, "add")
      BY <2>1, <2>2, <3>2, Goes DEF SyncSteps, Fed!CleanCheckout, Ready, Fed!At, Fed!Target
    <3>3. ASSUME NEW s \in {"empty", "copy", "head"}, Fed!GoTo(w, s)
          PROVE  /\ fedWorker' \in [Workers -> Syncs] /\ Ready(w)' /\ ~Fed!At(w, "clone")'
                 /\ \A v \in Workers \ {w} : fedWorker'[v] = fedWorker[v]
      BY <2>1, <3>3, Goes DEF SyncSteps, Ready, Fed!At
    <3>4. CASE /\ Tail(fedWorker[w].todo) # << >>
               /\ fedWorker' = [fedWorker EXCEPT ![w] =
                    [@ EXCEPT !.step = "sync", !.todo = Tail(fedWorker[w].todo)]]
      <4> DEFINE x == [fedWorker[w] EXCEPT !.step = "sync", !.todo = Tail(fedWorker[w].todo)]
      <4>1. x \in Syncs /\ x.step = "sync" /\ x.todo # << >>
        BY <1>1, <2>1, <3>4 DEF Syncs, SyncSteps
      <4>2. fedWorker' = [fedWorker EXCEPT ![w] = x]
        BY <1>1, <3>4
      <4> HIDE DEF x
      <4> QED BY <1>1, <4>1, <4>2 DEF Ready, Fed!At
    <3> QED BY <2>4, <3>1, <3>2, <3>3, <3>4
  <2>6. (\A v \in Workers : Ready(v)') /\ OneMakes'
    BY <2>2, <2>5, ReadyKept
  <2> HIDE DEF n
  <2> QED BY <1>1, <2>2, <2>3, <2>5, <2>6, <2>7 DEF Clones
<1>9. ASSUME NEW w \in Workers, Fed!Fail(w)
      PROVE  Clones'
  <2> DEFINE n == Fed!Target(w).name
  <2>1. n \in Names /\ Ready(w)
    BY <1>9, Targets DEF Fed!Fail, Fed!At, Clones
  <2>2. /\ Fed!Answer(w) /\ halted' \subseteq Names
        /\ UNCHANGED <<tip, config, checkout, materialized, fedCount, fedCrashes, answer,
                       raced>>
    BY <1>1, <1>9, <2>1 DEF Fed!Fail
  <2>3. /\ clones' \in [Names -> Fed!Caches \cup {None, Broken}]
        /\ \A m \in Names : clones[m] \in Fed!Caches => clones'[m] \in Fed!Caches
        /\ \A m \in Names :
             clones[m] = Broken /\ ~(Fed!At(w, "clone") /\ m = n) => clones'[m] = Broken
    <3>1. CASE Fed!At(w, "clone")
      <4>1. clones[n] = Broken /\ clones' = [clones EXCEPT ![n] = None]
        BY <1>9, <2>1, <3>1 DEF Fed!Fail, Ready
      <4> HIDE DEF n
      <4> QED BY <1>1, <2>1, <3>1, <4>1
    <3>2. CASE ~Fed!At(w, "clone")
      BY <1>1, <1>9, <3>2 DEF Fed!Fail
    <3> QED BY <3>1, <3>2
  <2>4. /\ fedWorker' \in [Workers -> Syncs] /\ Ready(w)' /\ ~Fed!At(w, "clone")'
        /\ \A v \in Workers \ {w} : fedWorker'[v] = fedWorker[v]
    BY <2>2, Answers DEF Ready, Fed!At
  <2>5. (\A v \in Workers : Ready(v)') /\ OneMakes'
    BY <2>3, <2>4, ReadyKept
  <2> HIDE DEF n
  <2> QED BY <1>1, <2>2, <2>3, <2>4, <2>5 DEF Clones
<1>6. ASSUME NEW u \in Urls, Fed!Push(u)
      PROVE  Clones'
  <2>1. tip' \in [Urls -> 1..UrlCommits]
    BY <1>1, <1>6 DEF Fed!Push
  <2> QED BY <1>1, <1>6, <2>1 DEF Fed!Push, Clones, Ready, OneMakes, Fed!At, Fed!Target
<1>7. CASE Fed!Crash
  <2>1. Fed!Idle \in Syncs /\ Fed!Idle.step = "idle"
    BY DEF Fed!Idle, Syncs, SyncSteps
  <2>2. fedWorker' \in [Workers -> Syncs] /\ (\A w \in Workers : Ready(w)') /\ OneMakes'
    BY <1>7, <2>1 DEF Fed!Crash, Ready, OneMakes, Fed!At
  <2>3. raced' \subseteq Names
    <3>1. \A w \in Workers : Fed!Busy(w) \subseteq Names
      BY Targets DEF Fed!Busy, Fed!At
    <3> QED BY <1>1, <1>7, <3>1 DEF Fed!Crash
  <2>4. fedCrashes' \in 0..MaxCrashes
    BY <1>1, <1>7 DEF Fed!Crash
  <2> QED BY <1>1, <1>7, <2>2, <2>3, <2>4 DEF Fed!Crash, Clones
<1>8. CASE UNCHANGED Fed!vars
  BY <1>8 DEF Fed!vars, Clones, Ready, OneMakes, Fed!At, Fed!Target
<1> QED BY <1>2, <1>3, <1>4, <1>5, <1>6, <1>7, <1>8, <1>9, ClonesAccept
        DEF Fed!Next, Fed!Step

-----------------------------------------------------------------------------
(* The federation: what is materialised. *)

\* The materialised files of n are those that were answered last, unless the last
\* request emptied them and failed.
Fits(n) == n \notin halted /\ answer[n] # None => materialized[n] = answer[n]

\* The only thread that synchronises n leaves the files alone until it has a
\* checkout, and has copied it before it answers.
OnlySync(n, w) ==
  /\ \A v \in Workers : n \in Fed!Busy(v) => v = w
  /\ Fed!At(w, "clone") \/ Fed!At(w, "fetch") \/ Fed!At(w, "clean") \/ Fed!At(w, "add")
       => Fits(n)
  /\ Fed!At(w, "add") => checkout[n] = None
  /\ Fed!At(w, "empty") \/ Fed!At(w, "copy") \/ Fed!At(w, "head") => checkout[n] # None
  /\ Fed!At(w, "head") => materialized[n] = checkout[n]

Alone ==
  \A n \in Names \ raced :
    /\ Fed!Quiet(n) => Fits(n)
    /\ \A w \in Workers : n \in Fed!Busy(w) => OnlySync(n, w)

LEMMA AloneInit == ASSUME Fed!Init PROVE Alone
BY DEF Fed!Init, Alone, Fed!Quiet, Fed!Busy, Fits, Fed!Idle

\* A step that begins and ends no synchronisation, and moves none.
LEMMA AloneSame ==
  ASSUME Alone, UNCHANGED <<checkout, materialized, answer, raced, halted>>,
         \A v \in Workers : fedWorker'[v] = fedWorker[v]
           \/ (Fed!Busy(v) = {} /\ Fed!Busy(v)' = {})
  PROVE  Alone'
<1>1. \A v \in Workers : Fed!Busy(v)' = Fed!Busy(v)
  BY DEF Fed!Busy, Fed!Target
<1>2. \A n \in Names : Fits(n)' <=> Fits(n)
  BY DEF Fits
<1>3. ASSUME NEW n \in Names \ raced, NEW w \in Workers, n \in Fed!Busy(w)
      PROVE  OnlySync(n, w)'
  <2>1. OnlySync(n, w) /\ fedWorker'[w] = fedWorker[w]
    BY <1>3 DEF Alone
  <2> QED BY <1>1, <1>2, <2>1 DEF OnlySync, Fed!At
<1> QED BY <1>1, <1>2, <1>3 DEF Alone, Fed!Quiet

\* What remains to be shown of a step that synchronises.
LEMMA AloneStep ==
  ASSUME Clones, Alone, NEW w \in Workers, NEW n \in Names,
         Fed!Busy(w) \subseteq {n}, Fed!Busy(w)' \subseteq {n}, raced \subseteq raced',
         \A v \in Workers \ {w} : fedWorker'[v] = fedWorker[v],
         \A m \in Names \ {n} : /\ checkout'[m] = checkout[m] /\ answer'[m] = answer[m]
                               /\ materialized'[m] = materialized[m],
         \A m \in Names \ {n} : m \in halted' <=> m \in halted,
         n \notin raced' =>
           /\ \A v \in Workers \ {w} : n \notin Fed!Busy(v)
           /\ n \notin Fed!Busy(w)' => Fits(n)'
           /\ n \in Fed!Busy(w)' =>
                /\ Fed!At(w, "clone")' \/ Fed!At(w, "fetch")' \/ Fed!At(w, "clean")'
                     \/ Fed!At(w, "add")' => Fits(n)'
                /\ Fed!At(w, "add")' => checkout'[n] = None
                /\ Fed!At(w, "empty")' \/ Fed!At(w, "copy")' \/ Fed!At(w, "head")'
                     => checkout'[n] # None
                /\ Fed!At(w, "head")' => materialized'[n] = checkout'[n]
  PROVE  Alone'
<1>1. \A v \in Workers \ {w} : Fed!Busy(v)' = Fed!Busy(v)
  BY DEF Fed!Busy, Fed!Target
<1>2. ASSUME n \notin raced'
      PROVE  /\ Fed!Quiet(n)' => Fits(n)'
             /\ \A v \in Workers : n \in Fed!Busy(v)' => OnlySync(n, v)'
  BY <1>1, <1>2 DEF Fed!Quiet, OnlySync
<1>3. ASSUME NEW m \in Names \ raced', m # n
      PROVE  /\ Fed!Quiet(m)' => Fits(m)'
             /\ \A v \in Workers : m \in Fed!Busy(v)' => OnlySync(m, v)'
  <2>1. /\ m \notin raced /\ m \notin Fed!Busy(w) /\ m \notin Fed!Busy(w)'
        /\ \A v \in Workers : m \in Fed!Busy(v)' <=> m \in Fed!Busy(v)
    BY <1>1, <1>3
  <2>2. Fits(m)' <=> Fits(m)
    BY <1>3 DEF Fits
  <2>3. Fed!Quiet(m)' => Fits(m)'
    BY <2>1, <2>2 DEF Fed!Quiet, Alone
  <2>4. ASSUME NEW v \in Workers, m \in Fed!Busy(v)'
        PROVE  OnlySync(m, v)'
    <3>1. OnlySync(m, v) /\ fedWorker'[v] = fedWorker[v]
      BY <1>3, <2>1, <2>4 DEF Alone
    <3>2. checkout'[m] = checkout[m] /\ materialized'[m] = materialized[m]
      BY <1>3
    <3> QED BY <2>1, <2>2, <3>1, <3>2 DEF OnlySync, Fed!At
  <2> QED BY <2>3, <2>4
<1> QED BY <1>2, <1>3 DEF Alone

LEMMA AloneNext ==
  ASSUME Fed!FederationAssumption, Clones, Alone, [Fed!Next]_(Fed!vars)
  PROVE  Alone'
<1>1. /\ fedWorker \in [Workers -> Syncs] /\ None \notin Fed!Commits /\ None \notin Fed!Caches
      /\ None # Broken
      /\ checkout \in [Names -> Fed!Commits \cup {None}]
      /\ materialized \in [Names -> Fed!Commits \cup {None, Broken}]
      /\ answer \in [Names -> Fed!Commits \cup {None}]
      /\ clones \in [Names -> Fed!Caches \cup {None, Broken}]
  BY DEF Clones, Fed!FederationAssumption
<1>2. ASSUME NEW w \in Workers,
             (\E n \in Names, u \in Urls : Fed!Connect(w, n, u)) \/ Fed!Save(w) \/ Fed!Sync(w)
      PROVE  Alone'
  <2>1. UNCHANGED <<checkout, materialized, answer, raced, halted>> /\ Fed!Busy(w) = {}
    BY <1>2 DEF Fed!Connect, Fed!Save, Fed!Sync, Fed!Accept, Fed!At, Fed!Busy
  <2>2. \E x : /\ fedWorker' = [fedWorker EXCEPT ![w] = x]
               /\ x.step \in {"idle", "save", "sync"}
    <3>1. ASSUME NEW n \in Names, NEW u \in Urls, Fed!Connect(w, n, u)
          PROVE  \E x : fedWorker' = [fedWorker EXCEPT ![w] = x] /\ x.step = "save"
      <4>1. PICK sync : fedWorker' = [fedWorker EXCEPT ![w] =
              [step |-> "save", todo |-> <<[name |-> n, url |-> u]>>,
               copy |-> [config EXCEPT ![n] = u], on |-> sync]]
        BY <3>1, Zenon DEF Fed!Connect
      <4> DEFINE x == [step |-> "save", todo |-> <<[name |-> n, url |-> u]>>,
                       copy |-> [config EXCEPT ![n] = u], on |-> sync]
      <4>2. x.step = "save"
        OBVIOUS
      <4> HIDE DEF x
      <4> QED BY <4>1, <4>2 DEF x
    <3>2. ASSUME Fed!Save(w)
          PROVE  \E x : fedWorker' = [fedWorker EXCEPT ![w] = x] /\ x.step \in {"idle", "sync"}
      <4>1. fedWorker' = [fedWorker EXCEPT ![w] = [fedWorker[w] EXCEPT !.step = "sync"]]
            \/ fedWorker' = [fedWorker EXCEPT ![w] = Fed!Idle]
        BY <1>1, <3>2 DEF Fed!Save, Fed!GoTo, Fed!Answer
      <4>2. [fedWorker[w] EXCEPT !.step = "sync"].step = "sync" /\ Fed!Idle.step = "idle"
        BY <1>1 DEF Syncs, Fed!Idle
      <4> QED BY <4>1, <4>2
    <3>3. ASSUME Fed!Sync(w)
          PROVE  \E x : fedWorker' = [fedWorker EXCEPT ![w] = x] /\ x.step = "sync"
      <4>1. PICK t :
              fedWorker' =
                [fedWorker EXCEPT ![w] = [Fed!Idle EXCEPT !.step = "sync", !.todo = t]]
        BY <3>3, Zenon DEF Fed!Sync
      <4>2. [Fed!Idle EXCEPT !.step = "sync", !.todo = t].step = "sync"
        BY DEF Fed!Idle
      <4> QED BY <4>1, <4>2
    <3> QED BY <1>2, <3>1, <3>2, <3>3
  <2>3. Fed!Busy(w)' = {} /\ \A v \in Workers \ {w} : fedWorker'[v] = fedWorker[v]
    BY <1>1, <2>2 DEF Fed!Busy
  <2> QED BY <2>1, <2>3, AloneSame
<1>3. ASSUME NEW w \in Workers, Fed!SyncBegin(w)
      PROVE  Alone'
  <2> SUFFICES ASSUME NEW n, n = Fed!Target(w).name PROVE Alone'
    OBVIOUS
  <2>1. n \in Names /\ Fed!Busy(w) = {} /\ fedWorker[w].step = "sync"
    BY <1>3, Targets DEF Fed!SyncBegin, Fed!At, Fed!Busy
  <2>2. /\ raced \subseteq raced' /\ UNCHANGED <<checkout, materialized, answer, halted>>
        /\ n \notin raced' => n \notin raced /\ \A v \in Workers \ {w} : n \notin Fed!Busy(v)
    BY <1>3 DEF Fed!SyncBegin
  <2>3. Fed!Answer(w) \/ Fed!GoTo(w, "clone") \/ Fed!GoTo(w, "fetch")
    <3>1. CASE clones[n] = None
      BY <1>1, <1>3, <3>1 DEF Fed!SyncBegin
    <3>2. CASE clones[n] = Broken
      BY <1>1, <1>3, <3>2 DEF Fed!SyncBegin
    <3>3. CASE clones[n] \notin {None, Broken}
      BY <1>1, <1>3, <3>3 DEF Fed!SyncBegin
    <3> QED BY <3>1, <3>2, <3>3
  <2>4. /\ fedWorker'[w].step \in {"idle", "clone", "fetch"} /\ Fed!Busy(w)' \subseteq {n}
        /\ \A v \in Workers \ {w} : fedWorker'[v] = fedWorker[v]
    <3>1. CASE Fed!Answer(w)
      BY <3>1, Answers DEF Fed!Busy
    <3>2. ASSUME NEW s \in {"clone", "fetch"}, Fed!GoTo(w, s)
          PROVE  /\ fedWorker'[w].step = s /\ Fed!Busy(w)' \subseteq {n}
                 /\ \A v \in Workers \ {w} : fedWorker'[v] = fedWorker[v]
      BY <3>2, Goes DEF Fed!Busy, SyncSteps, Fed!Target
    <3> QED BY <2>3, <3>1, <3>2
  <2>5. n \notin raced' => Fits(n) /\ Fits(n)'
    BY <2>1, <2>2 DEF Alone, Fed!Quiet, Fits
  <2> QED BY <2>1, <2>2, <2>4, <2>5, AloneStep DEF Fed!At
<1>4. ASSUME NEW w \in Workers,
             \/ Fed!Clone(w) \/ Fed!FetchAll(w) \/ Fed!CleanCheckout(w)
             \/ Fed!WorktreeAdd(w) \/ Fed!Empty(w) \/ Fed!Copy(w) \/ Fed!Finish(w)
             \/ Fed!Fail(w)
      PROVE  Alone'
  <2> SUFFICES ASSUME NEW n, n = Fed!Target(w).name PROVE Alone'
    OBVIOUS
  <2>1. /\ n \in Names /\ Fed!Busy(w) = {n} /\ raced' = raced
        /\ n \notin raced => OnlySync(n, w)
    <3>1. /\ fedWorker[w].step \in {"clone", "fetch", "clean", "add", "empty", "copy", "head"}
          /\ raced' = raced
      BY <1>4 DEF Fed!Clone, Fed!FetchAll, Fed!CleanCheckout, Fed!WorktreeAdd, Fed!Empty,
         Fed!Copy, Fed!Finish, Fed!Fail, Fed!At
    <3> QED BY <3>1, Targets DEF Fed!Busy, Fed!At, Alone
  <2>2. /\ \/ Fed!Answer(w)
           \/ \E s \in {"clean", "add", "empty", "copy", "head"} : Fed!GoTo(w, s)
           \/ /\ Fed!Finish(w)
              /\ fedWorker' = [fedWorker EXCEPT ![w] =
                   [@ EXCEPT !.step = "sync", !.todo = Tail(fedWorker[w].todo)]]
    BY <1>4 DEF Fed!Clone, Fed!FetchAll, Fed!CleanCheckout, Fed!WorktreeAdd, Fed!Empty,
       Fed!Copy, Fed!Finish, Fed!Fail
  <2>3. /\ \A v \in Workers \ {w} : fedWorker'[v] = fedWorker[v]
        /\ Fed!Busy(w)' \subseteq {n}
    <3>1. CASE Fed!Answer(w)
      BY <3>1, Answers DEF Fed!Busy
    <3>2. ASSUME NEW s \in {"clean", "add", "empty", "copy", "head"}, Fed!GoTo(w, s)
          PROVE  /\ \A v \in Workers \ {w} : fedWorker'[v] = fedWorker[v]
                 /\ Fed!Busy(w)' \subseteq {n}
      BY <3>2, Goes DEF Fed!Busy, SyncSteps, Fed!Target
    <3>3. CASE fedWorker' = [fedWorker EXCEPT ![w] =
                 [@ EXCEPT !.step = "sync", !.todo = Tail(fedWorker[w].todo)]]
      <4>1. fedWorker' = [fedWorker EXCEPT ![w] =
              [fedWorker[w] EXCEPT !.step = "sync", !.todo = Tail(fedWorker[w].todo)]]
        BY <1>1, <3>3
      <4>2. [fedWorker[w] EXCEPT !.step = "sync", !.todo = Tail(fedWorker[w].todo)].step
              = "sync"
        BY <1>1 DEF Syncs
      <4>3. fedWorker'[w].step = "sync" /\ \A v \in Workers \ {w} : fedWorker'[v] = fedWorker[v]
        BY <1>1, <4>1, <4>2
      <4> QED BY <4>3 DEF Fed!Busy
    <3> QED BY <2>2, <3>1, <3>2, <3>3
  <2>4. \A m \in Names \ {n} : /\ checkout'[m] = checkout[m] /\ answer'[m] = answer[m]
                              /\ materialized'[m] = materialized[m]
    BY <1>1, <1>4 DEF Fed!Clone, Fed!FetchAll, Fed!CleanCheckout, Fed!WorktreeAdd,
       Fed!Empty, Fed!Copy, Fed!Finish, Fed!Fail
  <2>7. \A m \in Names \ {n} : m \in halted' <=> m \in halted
    BY <1>4 DEF Fed!Clone, Fed!FetchAll, Fed!CleanCheckout, Fed!WorktreeAdd,
       Fed!Empty, Fed!Copy, Fed!Finish, Fed!Fail
  <2>5. ASSUME n \notin raced
        PROVE  /\ n \notin Fed!Busy(w)' => Fits(n)'
               /\ n \in Fed!Busy(w)' =>
                    /\ Fed!At(w, "clone")' \/ Fed!At(w, "fetch")' \/ Fed!At(w, "clean")'
                         \/ Fed!At(w, "add")' =>
                         Fits(n)'
                    /\ Fed!At(w, "add")' => checkout'[n] = None
                    /\ Fed!At(w, "empty")' \/ Fed!At(w, "copy")' \/ Fed!At(w, "head")'
                         => checkout'[n] # None
                    /\ Fed!At(w, "head")' => materialized'[n] = checkout'[n]
    <3>1. OnlySync(n, w)
      BY <2>1, <2>5
    <3>2. ASSUME NEW s \in SyncSteps, Fed!GoTo(w, s)
          PROVE  \A t : Fed!At(w, t)' <=> t = s
      BY <3>2, Goes DEF Fed!At
    <3>3. CASE Fed!Clone(w) \/ Fed!FetchAll(w)
      <4>1. Fed!GoTo(w, "clean") /\ Fits(n)
            /\ UNCHANGED <<checkout, materialized, answer, halted>>
        BY <3>1, <3>3 DEF Fed!Clone, Fed!FetchAll, OnlySync
      <4>2. \A t : Fed!At(w, t)' <=> t = "clean"
        BY <3>2, <4>1 DEF SyncSteps
      <4> QED BY <4>1, <4>2 DEF Fits
    <3>4. CASE Fed!CleanCheckout(w)
      <4>1. /\ Fed!GoTo(w, "add") /\ UNCHANGED <<materialized, answer, halted>> /\ Fits(n)
            /\ checkout'[n] = None
        BY <1>1, <2>1, <3>1, <3>4 DEF Fed!CleanCheckout, OnlySync
      <4>2. \A t : Fed!At(w, t)' <=> t = "add"
        BY <3>2, <4>1 DEF SyncSteps
      <4> QED BY <4>1, <4>2 DEF Fits
    <3>5. CASE Fed!WorktreeAdd(w)
      <4>1. clones[n] \in Fed!Caches /\ checkout[n] = None
        BY <3>1, <3>5 DEF Fed!WorktreeAdd, OnlySync, Clones, Ready
      <4>2. /\ Fed!GoTo(w, "empty") /\ checkout'[n] = clones[n].local
        BY <1>1, <2>1, <3>5, <4>1 DEF Fed!WorktreeAdd
      <4>3. \A t : Fed!At(w, t)' <=> t = "empty"
        BY <3>2, <4>2 DEF SyncSteps
      <4>4. checkout'[n] # None
        BY <1>1, <4>1, <4>2 DEF Fed!Caches
      <4>5. n \in Fed!Busy(w)'
        BY <4>2, Goes DEF Fed!Busy, SyncSteps, Fed!Target
      <4> QED BY <4>3, <4>4, <4>5
    <3>6. CASE Fed!Empty(w)
      <4>1. Fed!GoTo(w, "copy") /\ UNCHANGED checkout /\ checkout[n] # None
        BY <3>1, <3>6 DEF Fed!Empty, OnlySync
      <4>2. \A t : Fed!At(w, t)' <=> t = "copy"
        BY <3>2, <4>1 DEF SyncSteps
      <4>3. n \in Fed!Busy(w)'
        BY <4>1, Goes DEF Fed!Busy, SyncSteps, Fed!Target
      <4> QED BY <4>1, <4>2, <4>3
    <3>7. CASE Fed!Copy(w)
      <4>1. checkout[n] # None
        BY <3>1, <3>7 DEF Fed!Copy, OnlySync
      <4>2. /\ Fed!GoTo(w, "head") /\ UNCHANGED checkout /\ materialized'[n] = checkout[n]
        BY <1>1, <2>1, <3>7, <4>1 DEF Fed!Copy
      <4>3. \A t : Fed!At(w, t)' <=> t = "head"
        BY <3>2, <4>2 DEF SyncSteps
      <4>4. n \in Fed!Busy(w)'
        BY <4>2, Goes DEF Fed!Busy, SyncSteps, Fed!Target
      <4> QED BY <4>1, <4>2, <4>3, <4>4
    <3>8. CASE Fed!Finish(w)
      <4>1. checkout[n] # None /\ materialized[n] = checkout[n]
        BY <3>1, <3>8 DEF Fed!Finish, OnlySync
      <4>2. UNCHANGED materialized /\ answer'[n] = checkout[n]
        BY <1>1, <2>1, <3>8, <4>1 DEF Fed!Finish
      <4>3. n \notin Fed!Busy(w)'
        <5>1. \/ Fed!Answer(w)
              \/ fedWorker' = [fedWorker EXCEPT ![w] =
                   [@ EXCEPT !.step = "sync", !.todo = Tail(fedWorker[w].todo)]]
          BY <3>8 DEF Fed!Finish
        <5>2. CASE Fed!Answer(w)
          BY <5>2, Answers DEF Fed!Busy
        <5>3. CASE fedWorker' = [fedWorker EXCEPT ![w] =
                     [@ EXCEPT !.step = "sync", !.todo = Tail(fedWorker[w].todo)]]
          <6>1. fedWorker'[w] =
                  [fedWorker[w] EXCEPT !.step = "sync", !.todo = Tail(fedWorker[w].todo)]
            BY <1>1, <5>3
          <6>2. fedWorker'[w].step = "sync"
            BY <1>1, <6>1 DEF Syncs
          <6> QED BY <6>2 DEF Fed!Busy
        <5> QED BY <5>1, <5>2, <5>3
      <4> QED BY <4>1, <4>2, <4>3 DEF Fits
    <3>9. CASE Fed!Fail(w)
      <4>1. /\ Fed!Answer(w) /\ UNCHANGED <<materialized, answer>>
            /\ ~Fed!At(w, "copy") /\ ~Fed!At(w, "head") => halted' = halted
            /\ Fed!At(w, "copy") \/ Fed!At(w, "head") => n \in halted'
            /\ Fed!At(w, "clone") \/ Fed!At(w, "fetch") \/ Fed!At(w, "add")
                 \/ Fed!At(w, "copy") \/ Fed!At(w, "head")
        BY <3>9 DEF Fed!Fail, Fed!At
      <4>2. n \notin Fed!Busy(w)'
        BY <4>1, Answers DEF Fed!Busy
      <4>3. Fits(n)'
        BY <3>1, <4>1 DEF OnlySync, Fits
      <4> QED BY <4>2, <4>3
    <3> QED BY <1>4, <3>3, <3>4, <3>5, <3>6, <3>7, <3>8, <3>9
  <2>6. n \notin raced => \A v \in Workers \ {w} : n \notin Fed!Busy(v)
    BY <2>1 DEF OnlySync
  <2> QED BY <2>1, <2>3, <2>4, <2>5, <2>6, <2>7, AloneStep
<1>5. ASSUME NEW u \in Urls, Fed!Push(u)
      PROVE  Alone'
  BY <1>5, AloneSame DEF Fed!Push
<1>6. CASE Fed!Crash
  <2>1. \A w \in Workers : Fed!Busy(w)' = {}
    BY <1>6 DEF Fed!Crash, Fed!Busy, Fed!Idle
  <2>2. ASSUME NEW n \in Names \ raced'
        PROVE  Fits(n)'
    <3>1. n \notin raced /\ Fed!Quiet(n) /\ UNCHANGED <<materialized, answer, halted>>
      BY <1>6, <2>2 DEF Fed!Crash, Fed!Quiet
    <3> QED BY <3>1 DEF Alone, Fits
  <2> QED BY <2>1, <2>2 DEF Alone
<1>7. CASE UNCHANGED Fed!vars
  BY <1>7, AloneSame DEF Fed!vars
<1> QED BY <1>2, <1>3, <1>4, <1>5, <1>6, <1>7 DEF Fed!Next, Fed!Step

LEMMA AloneGives == ASSUME Alone PROVE Fed!HeadIsMaterialized
BY DEF Alone, Fed!HeadIsMaterialized, Fits

-----------------------------------------------------------------------------
(* A behaviour is one of a single part. *)

PartNames == {"gate", "pipeline", "federation", "advisors", "path", "ai", "models"}

\* The part that moves starts as it does alone,
LEMMA PartInit ==
  ASSUME Init
  PROVE  /\ part \in PartNames
         /\ part = "gate" => GateP!Init
         /\ part = "pipeline" => PipelineP!Init
         /\ part = "federation" => Fed!Init
         /\ part = "advisors" => Graph!Init
         /\ part = "path" => Path!Init
         /\ part = "ai" => AIP!Init
         /\ part = "models" => Models!Init
BY SameGate, SamePipeline, SameAI DEF Init, PartNames

\* and goes on so; it remains the part that moves.
LEMMA PartNext ==
  ASSUME [Next]_vars
  PROVE  /\ UNCHANGED part
         /\ part = "gate" => [GateP!Next]_(GateP!vars)
         /\ part = "pipeline" => [PipelineP!Next]_(PipelineP!vars)
         /\ part = "federation" => [Fed!Next]_(Fed!vars)
         /\ part = "advisors" => [Graph!Next]_(Graph!vars)
         /\ part = "path" => [Path!Next]_(Path!vars)
         /\ part = "ai" => [AIP!Next]_(AIP!vars)
         /\ part = "models" => [Models!Next]_(Models!vars)
<1>1. /\ UNCHANGED part
      /\ part = "gate" => [Gate!Next]_gateVars
      /\ part = "pipeline" => [Pipeline!Next]_pipelineVars
      /\ part = "federation" => [Fed!Next]_fedVars
      /\ part = "advisors" => [Graph!Next]_graphVars
      /\ part = "path" => [Path!Next]_pathVars
      /\ part = "ai" => [AI!Next]_aiVars
      /\ part = "models" => [Models!Next]_modelVars
  BY DEF Next, vars
<1>2. /\ fedVars = Fed!vars /\ graphVars = Graph!vars /\ pathVars = Path!vars
      /\ modelVars = Models!vars
      /\ fedVars' = Fed!vars' /\ graphVars' = Graph!vars' /\ pathVars' = Path!vars'
      /\ modelVars' = Models!vars'
  BY DEF fedVars, Fed!vars, graphVars, Graph!vars, pathVars, Path!vars, modelVars, Models!vars
<1> QED BY <1>1, <1>2, SameGate, SamePipeline, SameAI

\* What the services assume of their constants.
LEMMA PartAssumptions ==
  ASSUME ServicesAssumption
  PROVE  /\ GateP!BuildGateAssumption /\ PipelineP!BuildPipelineAssumption
         /\ Fed!FederationAssumption /\ Graph!AdvisorAssumption
         /\ Path!RequestPathAssumption /\ AIP!AIGatewayAssumption
         /\ Models!ModelRegistryAssumption
BY SameGate, SamePipeline, SameAI DEF ServicesAssumption

-----------------------------------------------------------------------------
(* The invariants of the parts. *)

GateInvariant ==
  part = "gate" =>
    GateP!Typed /\ GateP!Chain /\ GateP!TornAreBeingFilled /\ GateP!Signatures
PipelineInvariant ==
  part = "pipeline" =>
    PipelineP!Typed /\ PipelineP!Saved /\ PipelineP!AllCounted /\ PipelineP!AllDescribed
FederationInvariant == part = "federation" => Clones /\ Alone
GraphInvariant == part = "advisors" => Graph!TypeOK /\ Sorting
PathInvariant == part = "path" => FiltersFit /\ Windows
AIInvariant == part = "ai" => AIP!Bound /\ AIP!Balanced /\ AIP!Numbered /\ AIP!Honest
ModelInvariant == part = "models" => Models!TypeOK /\ Kept

\* The part is one of the seven for good,
LEMMA PartHolds == Spec => [](part \in PartNames)
<1>1. Init => part \in PartNames
  BY PartInit
<1>2. part \in PartNames /\ [Next]_vars => (part \in PartNames)'
  BY PartNext
<1> QED BY <1>1, <1>2, PTL DEF Spec

\* All that is known of the gate holds along every behaviour,
LEMMA GateHolds == ASSUME ServicesAssumption PROVE Spec => []GateInvariant
<1>1. Init => GateInvariant
  BY PartInit, PartAssumptions, GateP!TypedInit, GateP!ChainInit, GateP!TornInit,
     GateP!SignaturesInit DEF GateInvariant
<1>2. GateInvariant /\ [Next]_vars => GateInvariant'
  <2> SUFFICES ASSUME GateInvariant, [Next]_vars, part = "gate"
               PROVE  (GateP!Typed /\ GateP!Chain /\ GateP!TornAreBeingFilled
                         /\ GateP!Signatures)'
    BY PartNext DEF GateInvariant
  <2>1. /\ GateP!Typed /\ GateP!Chain /\ GateP!TornAreBeingFilled /\ GateP!Signatures
        /\ [GateP!Next]_(GateP!vars) /\ GateP!BuildGateAssumption
    BY PartNext, PartAssumptions DEF GateInvariant
  <2> QED BY <2>1, GateP!TypedNext, GateP!ChainNext, GateP!TornNext, GateP!SignaturesNext
<1> QED BY <1>1, <1>2, PTL DEF Spec

\* of the build,
LEMMA PipelineHolds == ASSUME ServicesAssumption PROVE Spec => []PipelineInvariant
<1>1. Init => PipelineInvariant
  BY PartInit, PartAssumptions, PipelineP!TypedInit, PipelineP!SavedInit,
     PipelineP!CountedInit, PipelineP!DescribedInit DEF PipelineInvariant
<1>2. PipelineInvariant /\ [Next]_vars => PipelineInvariant'
  <2> SUFFICES ASSUME PipelineInvariant, [Next]_vars, part = "pipeline"
               PROVE  (PipelineP!Typed /\ PipelineP!Saved /\ PipelineP!AllCounted
                         /\ PipelineP!AllDescribed)'
    BY PartNext DEF PipelineInvariant
  <2>1. /\ PipelineP!Typed /\ PipelineP!Saved /\ PipelineP!AllCounted /\ PipelineP!AllDescribed
        /\ [PipelineP!Next]_(PipelineP!vars) /\ PipelineP!BuildPipelineAssumption
    BY PartNext, PartAssumptions DEF PipelineInvariant
  <2> QED BY <2>1, PipelineP!TypedNext, PipelineP!SavedNext, PipelineP!CountedNext,
             PipelineP!DescribedNext
<1> QED BY <1>1, <1>2, PTL DEF Spec

\* of the federated repositories,
LEMMA FederationHolds == ASSUME ServicesAssumption PROVE Spec => []FederationInvariant
<1>1. Init => FederationInvariant
  BY PartInit, PartAssumptions, ClonesInit, AloneInit DEF FederationInvariant
<1>2. FederationInvariant /\ [Next]_vars => FederationInvariant'
  BY PartNext, PartAssumptions, ClonesNext, AloneNext DEF FederationInvariant
<1> QED BY <1>1, <1>2, PTL DEF Spec

\* of the sort,
LEMMA GraphHolds == ASSUME ServicesAssumption PROVE Spec => []GraphInvariant
<1>1. Init => GraphInvariant
  BY PartInit, PartAssumptions, SortingInit DEF GraphInvariant
<1>2. GraphInvariant /\ [Next]_vars => GraphInvariant'
  BY PartNext, PartAssumptions, SortingNext DEF GraphInvariant
<1> QED BY <1>1, <1>2, PTL DEF Spec

\* of the request path,
LEMMA PathHolds == ASSUME ServicesAssumption PROVE Spec => []PathInvariant
<1>1. Init => PathInvariant
  BY PartInit, PartAssumptions, FiltersInit, WindowsInit DEF PathInvariant
<1>2. PathInvariant /\ [Next]_vars => PathInvariant'
  BY PartNext, PartAssumptions, FiltersNext, WindowsNext DEF PathInvariant
<1> QED BY <1>1, <1>2, PTL DEF Spec

\* of the gateway,
LEMMA AIHolds == ASSUME ServicesAssumption PROVE Spec => []AIInvariant
<1>1. Init => AIInvariant
  BY PartInit, PartAssumptions, AIP!BoundInit, AIP!BalancedInit, AIP!NumberedInit,
     AIP!HonestInit
     DEF AIInvariant
<1>2. AIInvariant /\ [Next]_vars => AIInvariant'
  BY PartNext, PartAssumptions, AIP!BoundNext, AIP!BalancedNext, AIP!NumberedNext,
     AIP!HonestNext
     DEF AIInvariant, AIP!Bound
<1> QED BY <1>1, <1>2, PTL DEF Spec

\* and of the registry of models.
LEMMA ModelHolds == ASSUME ServicesAssumption PROVE Spec => []ModelInvariant
<1>1. Init => ModelInvariant
  BY PartInit, PartAssumptions, RegistryTypedInit, KeptInit DEF ModelInvariant
<1>2. ModelInvariant /\ [Next]_vars => ModelInvariant'
  BY PartNext, PartAssumptions, RegistryTypedNext, KeptNext DEF ModelInvariant
<1> QED BY <1>1, <1>2, PTL DEF Spec

-----------------------------------------------------------------------------
(* The theorems. *)

\* Every service keeps the types of its state, and a part that is one of the seven
\* remains the one it is (MCServices).
THEOREM TypeCorrect == ASSUME ServicesAssumption PROVE Spec => []TypeOK
<1>1. /\ part \in PartNames /\ GateInvariant /\ PipelineInvariant /\ FederationInvariant
      /\ GraphInvariant /\ PathInvariant /\ AIInvariant /\ ModelInvariant
      => TypeOK
  <2> SUFFICES ASSUME part \in PartNames, GateInvariant, PipelineInvariant,
                      FederationInvariant, GraphInvariant, PathInvariant, AIInvariant,
                      ModelInvariant
               PROVE  TypeOK
    OBVIOUS
  <2>1. part = "gate" => Gate!TypeOK
    <3>1. Gate!Artifacts = GateP!Artifacts /\ Gate!Evaluations = GateP!Evaluations
      BY DEF Gate!Artifacts, GateP!Artifacts, Gate!Evaluations, GateP!Evaluations,
         Gate!Decisions, GateP!Decisions, Gate!Reports, GateP!Reports, Gate!Plans,
         GateP!Plans, Gate!Contracts, GateP!Contracts
    <3>2. Gate!Requests = GateP!Requests /\ Gate!Times = GateP!Times
      BY <3>1 DEF Gate!Requests, GateP!Requests, Gate!NoArtifact, GateP!NoArtifact,
         Gate!Times, GateP!Times
    <3> QED BY <3>1, <3>2, SameArtifacts DEF GateInvariant, GateP!Typed, Gate!TypeOK,
               GateP!TypeOK, Gate!Empty, GateP!Empty, Gate!Absent, GateP!Absent
  <2>2. part = "pipeline" => Pipeline!TypeOK
    BY DEF PipelineInvariant, PipelineP!Typed, Pipeline!TypeOK, PipelineP!TypeOK,
       Pipeline!Worker, PipelineP!Worker, Pipeline!Meta, PipelineP!Meta,
       Pipeline!Plan, PipelineP!Plan, Pipeline!Content, PipelineP!Content
  <2>3. part = "federation" => Fed!TypeOK
    BY ClonesGive DEF FederationInvariant
  <2>4. part = "advisors" => Graph!TypeOK
    BY DEF GraphInvariant
  <2>5. part = "path" => Path!TypeOK
    BY DEF PathInvariant, FiltersFit, Windows, Path!TypeOK
  <2>6. part = "ai" => AI!TypeOK
    BY DEF AIInvariant, AIP!Bound, AI!TypeOK, AIP!TypeOK, AI!Requests, AIP!Requests,
       AI!Empty, AIP!Empty, AI!Garbled, AIP!Garbled
  <2>7. part = "models" => Models!TypeOK
    BY DEF ModelInvariant
  <2> QED BY <2>1, <2>2, <2>3, <2>4, <2>5, <2>6, <2>7 DEF TypeOK, PartNames
<1> QED BY <1>1, PartHolds, GateHolds, PipelineHolds, FederationHolds, GraphHolds, PathHolds,
           AIHolds, ModelHolds, PTL

\* A chain of files is never entered in the middle (build_gate.py:26), whatever
\* threads rewrite and die, and whatever resets take away.
THEOREM ChainsAreClosed == ASSUME ServicesAssumption PROVE Spec => []ChainsClosed
<1>1. GateInvariant => ChainsClosed
  <2> SUFFICES ASSUME GateInvariant, part = "gate" PROVE Gate!ChainsClosed
    BY DEF ChainsClosed
  <2>1. GateP!ChainsClosed
    BY GateP!ChainCloses DEF GateInvariant
  <2> QED BY <2>1 DEF Gate!ChainsClosed, GateP!ChainsClosed, Gate!Stored,
       GateP!Stored, Gate!Needs, GateP!Needs
<1> QED BY <1>1, GateHolds, PTL

\* While no process has died, an empty file of the chain is about to be filled
\* (contract_engine.py:23), for any number of writers.
THEOREM TornAreFilled == ASSUME ServicesAssumption PROVE Spec => []TornAreBeingFilled
<1>1. GateInvariant => TornAreBeingFilled
  BY DEF GateInvariant, TornAreBeingFilled, Gate!TornAreBeingFilled,
     GateP!TornAreBeingFilled, Gate!At, GateP!At
<1> QED BY <1>1, GateHolds, PTL

\* A high-risk build was started on an approval of its plan that had not expired
\* (build_v3.py:65), unless a second writer had reopened its report or a reset had
\* removed it.
THEOREM HighRisksApproved == ASSUME ServicesAssumption PROVE Spec => []HighRiskApproved
<1>1. GateInvariant => HighRiskApproved
  BY DEF GateInvariant, HighRiskApproved, GateP!Signatures, Gate!HighRiskApproved,
     GateP!HighRiskApproved, Gate!Risk, GateP!Risk, Gate!Runtime, GateP!Runtime
<1> QED BY <1>1, GateHolds, PTL

\* What is registered has its plan, whole, in the job's own plans directory
\* (build_v2_impl.py, save_plan before PlanRunner.run), whatever builds overlap and
\* are answered from the cache: unless one is just writing it again, or a crash
\* cut that short.
THEOREM PlansAreSaved == ASSUME ServicesAssumption PROVE Spec => []RegisteredPlansSaved
<1>1. PipelineInvariant => RegisteredPlansSaved
  BY DEF PipelineInvariant, RegisteredPlansSaved, PipelineP!Saved,
     PipelineP!MetaSaved, PipelineP!Kept, Pipeline!RegisteredPlansSaved,
     Pipeline!Readable, PipelineP!Readable, Pipeline!Saving, PipelineP!Saving,
     Pipeline!At, PipelineP!At
<1> QED BY <1>1, PipelineHolds, PTL

\* No registration is lost (build_registry.py:75) of a job whose builds did not
\* overlap.
THEOREM RegistrationsAreKept == ASSUME ServicesAssumption PROVE Spec => []RegistrationsKept
<1>1. PipelineInvariant => RegistrationsKept
  BY DEF PipelineInvariant, RegistrationsKept, PipelineP!AllCounted, PipelineP!Counted,
     Pipeline!RegistrationsKept, Pipeline!Readable, PipelineP!Readable
<1> QED BY <1>1, PipelineHolds, PTL

\* The metadata of a job that nothing disturbed name the specification its
\* workspace was generated from (runner.py, should_rebuild).
THEOREM RegistryDescribesTrees ==
  ASSUME ServicesAssumption PROVE Spec => []RegistryDescribesTree
<1>1. PipelineInvariant => RegistryDescribesTree
  BY DEF PipelineInvariant, RegistryDescribesTree, PipelineP!AllDescribed,
     PipelineP!Described, PipelineP!Fits, Pipeline!RegistryDescribesTree,
     Pipeline!Readable, PipelineP!Readable, Pipeline!Quiet, PipelineP!Quiet
<1> QED BY <1>1, PipelineHolds, PTL

\* No advisor runs before one it depends on (graph.py:55), whatever depends on
\* what.
THEOREM DependenciesAreFirst == ASSUME ServicesAssumption PROVE Spec => []DependenciesFirst
<1>1. GraphInvariant => DependenciesFirst
  BY DEF GraphInvariant, DependenciesFirst, Sorting
<1> QED BY <1>1, GraphHolds, PTL

\* Advisors whose dependencies are all active fail to be sorted only if some wait
\* for one another, and are sorted only if none do (graph.py:65).
THEOREM FailsExactlyIfCircular ==
  ASSUME ServicesAssumption PROVE Spec => []FailsOnlyIfCircular
<1>1. GraphInvariant => FailsOnlyIfCircular
  BY PartAssumptions, SortingGives DEF GraphInvariant, FailsOnlyIfCircular
<1> QED BY <1>1, GraphHolds, PTL

\* The ledger exceeds the limit by what was under way when it was reached and by
\* what jobs cost, at most (gateway.py:149): until two rewrites of it overlap, or one
\* is read half done or cut short.
THEOREM OverspendIsBounded == ASSUME ServicesAssumption PROVE Spec => []OverspendBounded
<1>1. AIInvariant => OverspendBounded
  <2> SUFFICES ASSUME AIInvariant, part = "ai"
               PROVE  AI!OverspendBounded
    BY DEF OverspendBounded
  <2>1. AIP!OverspendBounded
    BY PartAssumptions, AIP!BoundGives DEF AIInvariant
  <2> QED BY <2>1 DEF AI!OverspendBounded, AIP!OverspendBounded, AI!Cardinality, AIP!Cardinality,
     AI!Empty, AIP!Empty
<1> QED BY <1>1, AIHolds, PTL

\* A triage that was answered is in the memory (triage_engine.py:130), whatever
\* threads triage, fail and die at once.
THEOREM TriagesAreRemembered == ASSUME ServicesAssumption PROVE Spec => []TriagesRemembered
<1>1. AIInvariant => TriagesRemembered
  BY DEF AIInvariant, TriagesRemembered, AIP!Numbered, AI!TriagesRemembered,
     AIP!TriagesRemembered, AIP!Pending, AI!At, AIP!At
<1> QED BY <1>1, AIHolds, PTL

\* Between requests the ledger has no cost that was not incurred, and all of them but
\* those of requests that failed before the cost was recorded (gateway.py:184): the
\* latter until two rewrites of it overlap, or one is read half done or cut short.
THEOREM CallsAreBilled == ASSUME ServicesAssumption PROVE Spec => []CallsBilled
<1>1. AIInvariant => CallsBilled
  <2> SUFFICES ASSUME AIInvariant, part = "ai"
               PROVE  AI!CallsBilled
    BY DEF CallsBilled
  <2>1. AIP!CallsBilled
    BY PartAssumptions, AIP!BalancedGives DEF AIInvariant
  <2> QED BY <2>1 DEF AI!CallsBilled, AIP!CallsBilled, AI!At, AIP!At, AI!Parsed, AIP!Parsed,
     AI!Empty, AIP!Empty, AI!Garbled, AIP!Garbled
<1> QED BY <1>1, AIHolds, PTL

\* The materialised files of a name are those of the head that its last sync
\* answered (federation_manager.py, sync_repo), unless two synchronised it at once
\* or one failed or was cut short; for any names, URLs, threads and pushes.
THEOREM HeadsAreMaterialized == ASSUME ServicesAssumption PROVE Spec => []HeadIsMaterialized
<1>1. FederationInvariant => HeadIsMaterialized
  BY AloneGives DEF FederationInvariant, HeadIsMaterialized
<1> QED BY <1>1, FederationHolds, PTL

\* No stretch of a window's length lets in twice the limit of a key
\* (request_context.py), wherever it begins and however long the limiter runs.
THEOREM RatesAreBounded == ASSUME ServicesAssumption PROVE Spec => []BelowTwiceTheLimit
<1>1. PathInvariant => BelowTwiceTheLimit
  BY PartAssumptions, WindowsGive DEF PathInvariant, BelowTwiceTheLimit
<1> QED BY <1>1, PathHolds, PTL

\* The log record of a request that is alone carries its own id
\* (request_context.py), whatever requests came and went before.
THEOREM IdsAreOwn == ASSUME ServicesAssumption PROVE Spec => []OwnIdWhenAlone
<1>1. PathInvariant => OwnIdWhenAlone
  BY DEF PathInvariant, OwnIdWhenAlone, FiltersFit
<1> QED BY <1>1, PathHolds, PTL

\* A registration that was answered is in the file, or a later one of its name
\* (modeling/registry.py), as long as no two requests overlapped; through failing
\* writes and restarts.
THEOREM AnswersAreKept == ASSUME ServicesAssumption PROVE Spec => []AnsweredModelsKept
<1>1. ModelInvariant => AnsweredModelsKept
  BY PartAssumptions, KeptGives DEF ModelInvariant, AnsweredModelsKept
<1> QED BY <1>1, ModelHolds, PTL

=============================================================================
