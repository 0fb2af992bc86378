--------------------------- MODULE BuildGateProofs ---------------------------
(***************************************************************************)
(* Proofs about BuildGate, for any contracts, clusters, thresholds,        *)
(* threads, TTL and number of runs: the types, the chain of files, the     *)
(* files left empty, and the approvals of high-risk builds.                *)
(*                                                                         *)
(* A file that was whole may be empty again, or gone, so "was read once"   *)
(* is stated with the histories: every file something on disk was made     *)
(* from is whole, or has been reopened or removed.  This is what makes a   *)
(* report without a risk score one that a second writer has reopened or a  *)
(* reset has removed.                                                      *)
(***************************************************************************)
EXTENDS BuildGate, FiniteSetTheorems, TLAPS

-----------------------------------------------------------------------------
(* Artifacts. *)

\* What an artifact needs is made of artifacts.
LEMMA NeedsTyped ==
  ASSUME NEW a \in Artifacts
  PROVE  Needs(a) \in Seq(Artifacts)
<1>1. CASE a \in Contracts
  BY <1>1 DEF Contracts, Needs
<1>2. CASE a \in Plans
  <2>1. a.kind = "plan" /\ a.contract \in Artifacts
    BY <1>2 DEF Plans, Artifacts
  <2>2. Needs(a) = <<a.contract>>
    BY <2>1 DEF Needs
  <2> QED BY <2>1, <2>2
<1>3. CASE a \in Reports
  <2>1. a.kind = "report" /\ a.plan \in Artifacts
    BY <1>3 DEF Reports, Artifacts
  <2>2. Needs(a) = <<a.plan>>
    BY <2>1 DEF Needs
  <2> QED BY <2>1, <2>2
<1>4. CASE a \in Evaluations
  <2>1. /\ a.kind = "evaluation" /\ a.contract \in Artifacts
        /\ a.plan \in Artifacts /\ a.report \in Artifacts
    BY <1>4 DEF Evaluations, Artifacts
  <2>2. Needs(a) = <<a.contract, a.plan, a.report>>
    BY <2>1 DEF Needs
  <2> QED BY <2>1, <2>2
<1> QED BY <1>1, <1>2, <1>3, <1>4 DEF Artifacts

\* An evaluation needs its report, and names a plan.
LEMMA EvaluationNeeds ==
  ASSUME NEW e \in Evaluations
  PROVE  /\ e.contract \in Artifacts /\ e.plan \in Plans /\ e.plan \in Artifacts
         /\ e.report \in Reports
         /\ 3 \in DOMAIN Needs(e) /\ Needs(e)[3] = e.report
<1>1. e.kind = "evaluation" /\ e.contract \in Contracts /\ e.plan \in Plans /\ e.report \in Reports
  BY DEF Evaluations
<1>2. Needs(e) = <<e.contract, e.plan, e.report>>
  BY <1>1 DEF Needs
<1> QED BY <1>1, <1>2 DEF Artifacts

\* What a request posts is an artifact.
LEMMA PostedTyped ==
  /\ \A c \in Contracts : c \in Artifacts
  /\ \A c \in Contracts : [kind |-> "plan", contract |-> c] \in Artifacts
  /\ \A p \in Plans, k \in Clusters :
       [kind |-> "report", plan |-> p, cluster |-> k] \in Artifacts
  /\ \A c \in Contracts, p \in Plans, r \in Reports, t \in Thresholds :
       Evaluated(c, p, r, t) \in Artifacts
<1>1. ASSUME NEW c \in Contracts, NEW p \in Plans, NEW r \in Reports, NEW t \in Thresholds
      PROVE  Evaluated(c, p, r, t) \in Evaluations
  <2>1. Decision(r, t) \in Decisions
    BY DEF Decision, Decisions
  <2> QED BY <2>1 DEF Evaluated, Evaluations
<1>2. \A c \in Contracts : [kind |-> "plan", contract |-> c] \in Plans
  BY DEF Plans
<1>3. \A p \in Plans, k \in Clusters :
        [kind |-> "report", plan |-> p, cluster |-> k] \in Reports
  BY DEF Reports
<1> QED BY <1>1, <1>2, <1>3 DEF Artifacts

-----------------------------------------------------------------------------
(* Types. *)

\* A request's target is what its step works on.
Sensible ==
  {x \in Requests :
    /\ x.at \in {"load", "open", "fill"} => x.target \in Artifacts
    /\ x.at = "sign" => x.target \in Plans
    /\ x.at \in {"gate", "risk", "approval", "record"} => x.target \in Evaluations}

Typed == TypeOK /\ worker \in [Workers -> Sensible] /\ IsFiniteSet(removed)

\* The types hold at the start.
LEMMA TypedInit ==
  ASSUME BuildGateAssumption, Init
  PROVE  Typed
<1>1. Idle \in Sensible /\ Idle \in Requests
  <2>1. << >> \in Seq(Artifacts) /\ 0 \in Times
    BY DEF Times, BuildGateAssumption
  <2> QED BY <2>1 DEF Idle, Requests, Sensible
<1>2. 0 \in Times /\ 0 \in 0..MaxFaults
  BY DEF Times, BuildGateAssumption
<1> QED BY <1>1, <1>2, FS_EmptySet DEF Init, TypeOK, Typed

\* Every step of a thread leaves it with a sensible request.
LEMMA StepSensible ==
  ASSUME BuildGateAssumption, Typed, NEW w \in Workers, Step(w)
  PROVE  worker' \in [Workers -> Sensible]
<1>1. /\ worker \in [Workers -> Sensible] /\ worker[w] \in Sensible /\ worker[w] \in Requests
      /\ now \in Times /\ 0 \in Times /\ << >> \in Seq(Artifacts)
  BY DEF Typed, TypeOK, Times, BuildGateAssumption, Sensible
<1>2. Idle \in Sensible
  BY <1>1 DEF Idle, Requests, Sensible
<1>3. ASSUME Answer(w)
      PROVE  worker' \in [Workers -> Sensible]
  BY <1>1, <1>2, <1>3 DEF Answer
<1>4. ASSUME NEW s \in {"open", "fill", "risk", "approval", "record"}, GoTo(w, s),
             \/ worker[w].at \in {"load", "open"} /\ s \in {"open", "fill"}
             \/ worker[w].at \in {"gate", "risk"} /\ s \in {"risk", "approval", "record"}
      PROVE  worker' \in [Workers -> Sensible]
  <2>1. [worker[w] EXCEPT !.at = s] \in Sensible
    BY <1>1, <1>4 DEF Requests, Sensible
  <2> QED BY <1>1, <1>4, <2>1 DEF GoTo
<1>5. ASSUME NEW a \in Artifacts, Post(w, a)
      PROVE  worker' \in [Workers -> Sensible]
  <2>1. [worker[w] EXCEPT !.at = "load", !.target = a, !.todo = Needs(a)] \in Sensible
    BY <1>1, NeedsTyped DEF Requests, Sensible
  <2> QED BY <1>1, <1>5, <2>1 DEF Post
<1>6. ASSUME worker[w].todo # << >>, worker' = [worker EXCEPT ![w].todo = Tail(@)]
      PROVE  worker' \in [Workers -> Sensible]
  <2>1. Tail(worker[w].todo) \in Seq(Artifacts)
    BY <1>1, <1>6 DEF Requests
  <2>2. [worker[w] EXCEPT !.todo = Tail(worker[w].todo)] \in Sensible
    BY <1>1, <2>1 DEF Requests, Sensible
  <2> QED BY <1>1, <1>6, <2>2
<1>7. CASE PostContract(w) \/ PostPlan(w) \/ PostReport(w) \/ PostEvaluation(w)
  BY <1>5, <1>7, PostedTyped DEF PostContract, PostPlan, PostReport, PostEvaluation
<1>8. CASE Load(w) \/ GateLoad(w)
  BY <1>3, <1>6, <1>8 DEF Load, GateLoad
<1>9. CASE Test(w) \/ Open(w) \/ Fill(w) \/ Signed(w) \/ WrittenInVain(w) \/ Pass(w)
           \/ ReadRisk(w) \/ Record(w)
  BY <1>3, <1>4, <1>9 DEF Test, Open, Fill, Signed, WrittenInVain, Pass, ReadRisk, Record, At
<1>10. ASSUME NEW p \in Plans, Sign(w, p)
       PROVE  worker' \in [Workers -> Sensible]
  <2>1. [worker[w] EXCEPT !.at = "sign", !.target = p, !.stamp = now] \in Sensible
    BY <1>1 DEF Requests, Sensible, Artifacts
  <2> QED BY <1>1, <1>10, <2>1 DEF Sign
<1>11. ASSUME NEW p \in Plans, Revoke(w, p)
       PROVE  worker' \in [Workers -> Sensible]
  <2>1. \A v \in Workers : [worker[v] EXCEPT !.at = "lost"] \in Sensible
    BY <1>1 DEF Requests, Sensible
  <2> QED BY <1>1, <1>11, <2>1 DEF Revoke, Unlink
<1>12. ASSUME NEW e \in Evaluations, Run(w, e)
       PROVE  worker' \in [Workers -> Sensible]
  <2>1. <<e.contract, e.plan>> \in Seq(Artifacts) /\ e \in Artifacts
    BY EvaluationNeeds DEF Artifacts
  <2>2. [worker[w] EXCEPT !.at = "gate", !.target = e, !.todo = <<e.contract, e.plan>>] \in Sensible
    BY <1>1, <2>1 DEF Requests, Sensible
  <2> QED BY <1>1, <1>12, <2>2 DEF Run
<1>13. CASE ReadApproval(w)
  <2>1. worker[w].at = "approval" => [worker[w] EXCEPT !.at = "record", !.stamp = now] \in Sensible
    BY <1>1 DEF Requests, Sensible
  <2> QED BY <1>1, <1>3, <1>13, <2>1 DEF ReadApproval, At
<1> QED BY <1>7, <1>8, <1>9, <1>10, <1>11, <1>12, <1>13 DEF Step

\* And keeps the types of everything it shares.
LEMMA StepTyped ==
  ASSUME BuildGateAssumption, Typed, NEW w \in Workers, Step(w)
  PROVE  Typed'
<1>1. worker' \in [Workers -> Sensible] /\ worker' \in [Workers -> Requests]
  BY StepSensible DEF Sensible
<1>2. TypeOK /\ worker[w] \in Sensible /\ worker[w] \in Requests
  BY DEF Typed, Sensible
<1>3. ASSUME UNCHANGED <<whole, torn, approvals, lineage, started, now, crashes,
                         grants, removed, reopened>>
      PROVE  Typed'
  BY <1>1, <1>2, <1>3 DEF Typed, TypeOK
<1>4. CASE PostContract(w) \/ PostPlan(w) \/ PostReport(w) \/ PostEvaluation(w)
  <2>1. ASSUME NEW a, Post(w, a)
        PROVE  Typed'
    BY <1>3, <2>1 DEF Post
  <2> QED BY <1>4, <2>1 DEF PostContract, PostPlan, PostReport, PostEvaluation
<1>5. CASE \/ Load(w) \/ GateLoad(w) \/ Test(w) \/ WrittenInVain(w) \/ Pass(w)
           \/ ReadRisk(w) \/ ReadApproval(w) \/ \E e \in Evaluations : Run(w, e)
  BY <1>3, <1>5 DEF Load, GateLoad, Test, WrittenInVain, Pass, ReadRisk, ReadApproval, Run
<1>6. CASE Open(w) \/ Fill(w)
  <2>1. worker[w].target \in Artifacts
    BY <1>2, <1>6 DEF Open, Fill, At, Sensible
  <2> QED BY <1>1, <1>2, <1>6, <2>1 DEF Open, Fill, Typed, TypeOK
<1>7. ASSUME NEW p \in Plans, Sign(w, p) \/ Revoke(w, p)
      PROVE  Typed'
  <2>1. approvals \in [Plans -> Times \cup {Absent, Empty}]
    BY <1>2 DEF TypeOK
  <2>2. approvals' \in [Plans -> Times \cup {Absent, Empty}]
    BY <1>7, <2>1 DEF Sign, Revoke, Unlink
  <2>3. UNCHANGED <<whole, torn, lineage, started, now, crashes, grants, removed, reopened>>
    BY <1>7 DEF Sign, Revoke
  <2> QED BY <1>1, <1>2, <2>2, <2>3 DEF Typed, TypeOK
<1>8. CASE Signed(w)
  <2>1. worker[w].target \in Plans /\ worker[w].stamp \in Times
    BY <1>2, <1>8 DEF Signed, At, Sensible, Requests
  <2> QED BY <1>1, <1>2, <1>8, <2>1 DEF Signed, Typed, TypeOK
<1>9. CASE Record(w)
  <2>1. worker[w].target \in Evaluations /\ worker[w].stamp \in Times
    BY <1>2, <1>9 DEF Record, At, Sensible, Requests
  <2>2. /\ lineage' \subseteq Evaluations
        /\ started' \subseteq [eval : Evaluations, at : Times]
    <3>1. [eval |-> worker[w].target, at |-> worker[w].stamp] \in [eval : Evaluations, at : Times]
      BY <2>1
    <3>2. lineage \subseteq Evaluations /\ started \subseteq [eval : Evaluations, at : Times]
      BY <1>2 DEF TypeOK
    <3> QED BY <1>9, <2>1, <3>1, <3>2 DEF Record, RecordLineage
  <2> QED BY <1>1, <1>2, <1>9, <2>2 DEF Record, RecordLineage, Typed, TypeOK
<1> QED BY <1>4, <1>5, <1>6, <1>7, <1>8, <1>9 DEF Step

\* Time and crashes keep the types too.
LEMMA TypedNext ==
  ASSUME BuildGateAssumption, Typed, [Next]_vars
  PROVE  Typed'
<1>1. ASSUME NEW w \in Workers, Step(w)
      PROVE  Typed'
  BY <1>1, StepTyped
<1>2. CASE Tick
  <2>1. now' \in Times
    BY <1>2 DEF Tick, Typed, TypeOK, Times, BuildGateAssumption
  <2> QED BY <1>2, <2>1 DEF Tick, Typed, TypeOK
<1>3. CASE Crash
  <2>1. crashes' \in 0..MaxFaults
    BY <1>3, FS_CardinalityType DEF Crash, FaultsLeft, Typed, TypeOK, BuildGateAssumption
  <2>2. Idle \in Sensible /\ Idle \in Requests
    <3>1. << >> \in Seq(Artifacts) /\ 0 \in Times
      BY DEF Times, BuildGateAssumption
    <3> QED BY <3>1 DEF Idle, Requests, Sensible
  <2> QED BY <1>3, <2>1, <2>2 DEF Crash, Typed, TypeOK
<1>4. ASSUME NEW a \in Artifacts, Reset(a)
      PROVE  Typed'
  <2>1. \A v \in Workers : [worker[v] EXCEPT !.at = "lost"] \in Sensible
    BY DEF Typed, Requests, Sensible
  <2>2. worker' \in [Workers -> Sensible] /\ worker' \in [Workers -> Requests]
    BY <1>4, <2>1 DEF Reset, Typed, Sensible
  <2>3. IsFiniteSet(removed')
    BY <1>4, FS_AddElement DEF Reset, Typed
  <2> QED BY <1>4, <2>2, <2>3 DEF Reset, Typed, TypeOK
<1>5. CASE UNCHANGED vars
  BY <1>5 DEF vars, Typed, TypeOK
<1> QED BY <1>1, <1>2, <1>3, <1>4, <1>5 DEF Next

-----------------------------------------------------------------------------
(* The chain of files. *)

\* The files that were whole once, or are gone.
Known == whole \cup reopened \cup removed

\* What a request that makes an artifact has seen whole, or has still to load.
Loading(x) ==
  \A i \in DOMAIN Needs(x.target) :
    \/ Needs(x.target)[i] \in Known
    \/ x.at = "load" /\ \E j \in DOMAIN x.todo : x.todo[j] = Needs(x.target)[i]

\* What a run is judged by was made from files that were whole.
Founded(x) == \A i \in DOMAIN Needs(x.target) : Needs(x.target)[i] \in Known

Chain ==
  /\ \A a \in Stored : \A i \in DOMAIN Needs(a) : Needs(a)[i] \in Known
  /\ reopened \subseteq Stored \cup removed
  /\ \A w \in Workers : worker[w].at \in {"load", "open", "fill"} => Loading(worker[w])
  /\ \A w \in Workers : worker[w].at = "fill" => worker[w].target \in Stored
  /\ \A w \in Workers :
       worker[w].at \in {"gate", "risk", "approval", "record"} => Founded(worker[w])

\* A step that leaves the files alone, and all threads but one, whose own
\* request is as the chain has it.
LEMMA ChainSame ==
  ASSUME Typed, Chain, NEW w \in Workers, NEW x, worker' = [worker EXCEPT ![w] = x],
         UNCHANGED <<whole, torn, reopened, removed>>,
         x.at \in {"load", "open", "fill"} => Loading(x),
         x.at = "fill" => x.target \in Stored,
         x.at \in {"gate", "risk", "approval", "record"} => Founded(x)
  PROVE  Chain'
<1>1. Stored' = Stored /\ Known' = Known
  BY DEF Stored, Known
<1>2. \A v \in Workers : worker'[v] = IF v = w THEN x ELSE worker[v]
  BY DEF Typed, TypeOK
<1>3. \A v \in Workers : worker'[v].at \in {"load", "open", "fill"} => Loading(worker'[v])
  BY <1>2 DEF Chain
<1>4. \A v \in Workers :
        worker'[v].at \in {"gate", "risk", "approval", "record"} => Founded(worker'[v])
  BY <1>2 DEF Chain
<1>5. \A a \in Stored' : \A i \in DOMAIN Needs(a) : Needs(a)[i] \in Known'
  BY <1>1 DEF Chain
<1>6. reopened' \subseteq Stored' \cup removed'
  BY <1>1 DEF Chain
<1>7. \A v \in Workers : worker'[v].at \in {"load", "open", "fill"} => Loading(worker[v])'
  BY <1>1, <1>3 DEF Loading
<1>8. \A v \in Workers : worker'[v].at = "fill" => worker'[v].target \in Stored'
  BY <1>1, <1>2 DEF Chain
<1>9. \A v \in Workers :
        worker'[v].at \in {"gate", "risk", "approval", "record"} => Founded(worker[v])'
  BY <1>1, <1>4 DEF Founded
<1> QED BY <1>5, <1>6, <1>7, <1>8, <1>9 DEF Chain

\* A step that leaves the files alone and ends some requests.
LEMMA ChainEnds ==
  ASSUME Typed, Chain, UNCHANGED <<whole, torn, reopened, removed>>,
         \A v \in Workers : worker'[v] = worker[v] \/ worker'[v].at \in {"idle", "lost"}
  PROVE  Chain'
<1>1. Stored' = Stored /\ Known' = Known
  BY DEF Stored, Known
<1>2. \A v \in Workers : worker'[v].at \in {"load", "open", "fill"} => Loading(worker'[v])
  BY DEF Chain
<1>3. \A v \in Workers :
        worker'[v].at \in {"gate", "risk", "approval", "record"} => Founded(worker'[v])
  BY DEF Chain
<1>4. \A a \in Stored' : \A i \in DOMAIN Needs(a) : Needs(a)[i] \in Known'
  BY <1>1 DEF Chain
<1>5. reopened' \subseteq Stored' \cup removed'
  BY <1>1 DEF Chain
<1>6. \A v \in Workers : worker'[v].at \in {"load", "open", "fill"} => Loading(worker[v])'
  BY <1>1, <1>2 DEF Loading
<1>7. \A v \in Workers : worker'[v].at = "fill" => worker'[v].target \in Stored'
  BY <1>1 DEF Chain
<1>8. \A v \in Workers :
        worker'[v].at \in {"gate", "risk", "approval", "record"} => Founded(worker[v])'
  BY <1>1, <1>3 DEF Founded
<1> QED BY <1>4, <1>5, <1>6, <1>7, <1>8 DEF Chain

\* The end of a request.
LEMMA ChainAnswer ==
  ASSUME Typed, Chain, UNCHANGED <<whole, torn, reopened, removed>>, NEW w \in Workers, Answer(w)
  PROVE  Chain'
<1>1. \A v \in Workers : worker'[v] = worker[v] \/ worker'[v].at \in {"idle", "lost"}
  BY DEF Typed, TypeOK, Answer, Idle
<1> QED BY <1>1, ChainEnds

\* A request that writes: its own artifact becomes a file, and what was known
\* stays known.
LEMMA ChainWrites ==
  ASSUME Typed, Chain, NEW w \in Workers, NEW x, worker' = [worker EXCEPT ![w] = x],
         worker[w].at \in {"open", "fill"},
         Stored' = Stored \cup {worker[w].target}, Known \subseteq Known',
         reopened' \subseteq Stored' \cup removed',
         x.at = "idle" \/ x = [worker[w] EXCEPT !.at = "fill"]
  PROVE  Chain'
<1>1. \A v \in Workers : worker'[v] = IF v = w THEN x ELSE worker[v]
  BY DEF Typed, TypeOK
<1>2. \A i \in DOMAIN Needs(worker[w].target) : Needs(worker[w].target)[i] \in Known
  BY DEF Chain, Loading
<1>3. \A a \in Stored' : \A i \in DOMAIN Needs(a) : Needs(a)[i] \in Known'
  BY <1>2 DEF Chain
<1>4. x.at # "idle" => x.target = worker[w].target /\ x.at = "fill"
  BY DEF Typed, TypeOK, Requests
<1>5. \A v \in Workers : worker'[v].at \in {"load", "open", "fill"} => Loading(worker[v])'
  <2>1. SUFFICES ASSUME NEW v \in Workers, worker'[v].at \in {"load", "open", "fill"}
                 PROVE  Loading(worker[v])'
    OBVIOUS
  <2>2. CASE v = w
    BY <1>1, <1>2, <1>4, <2>1, <2>2 DEF Loading
  <2>3. CASE v # w
    BY <1>1, <2>1, <2>3 DEF Chain, Loading
  <2> QED BY <2>2, <2>3
<1>6. \A v \in Workers : worker'[v].at = "fill" => worker'[v].target \in Stored'
  BY <1>1, <1>4 DEF Chain
<1>7. \A v \in Workers : worker'[v].at \in {"gate", "risk", "approval", "record"} =>
        Founded(worker[v])'
  BY <1>1, <1>4 DEF Chain, Founded
<1> QED BY <1>3, <1>5, <1>6, <1>7 DEF Chain

\* A run's thread goes from one test of the gate to the next.
LEMMA ChainGate ==
  ASSUME Typed, Chain, NEW w \in Workers, NEW x, worker' = [worker EXCEPT ![w] = x],
         UNCHANGED <<whole, torn, reopened, removed>>,
         x.at \in {"gate", "risk", "approval", "record"},
         x.target = worker[w].target, worker[w].at \in {"gate", "risk", "approval"}
  PROVE  Chain'
<1>1. Founded(x)
  BY DEF Chain, Founded
<1> QED BY <1>1, ChainSame

\* Every step of a thread keeps the chain.
LEMMA ChainStep ==
  ASSUME Typed, Chain, NEW w \in Workers, Step(w)
  PROVE  Chain'
<1>1. /\ worker \in [Workers -> Sensible] /\ worker[w] \in Requests /\ worker[w] \in Sensible
      /\ \A v \in Workers : worker[v] \in Requests
  BY DEF Typed, Sensible
<1>2. ASSUME NEW a \in Artifacts, Post(w, a)
      PROVE  Chain'
  <2> DEFINE x == [worker[w] EXCEPT !.at = "load", !.target = a, !.todo = Needs(a)]
  <2>1. x.at = "load" /\ x.target = a /\ x.todo = Needs(a)
    BY <1>1 DEF Requests
  <2>2. Loading(x)
    BY <2>1 DEF Loading
  <2> QED BY <1>2, <2>1, <2>2, ChainSame DEF Post
<1>3. CASE PostContract(w) \/ PostPlan(w) \/ PostReport(w) \/ PostEvaluation(w)
  BY <1>2, <1>3, PostedTyped DEF PostContract, PostPlan, PostReport, PostEvaluation
<1>4. CASE Load(w)
  <2> DEFINE todo == worker[w].todo
             x == [worker[w] EXCEPT !.todo = Tail(todo)]
  <2>1. todo \in Seq(Artifacts) /\ todo # << >> /\ worker[w].at = "load"
    BY <1>1, <1>4 DEF Load, At, Requests
  <2>2. CASE Head(todo) \in whole
    <3>1. x.at = "load" /\ x.target = worker[w].target /\ x.todo = Tail(todo)
      BY <1>1, <2>1 DEF Requests
    <3>2. ASSUME NEW i \in DOMAIN Needs(x.target), Needs(x.target)[i] \notin Known
          PROVE  \E j \in DOMAIN x.todo : x.todo[j] = Needs(x.target)[i]
      <4>1. PICK j \in DOMAIN todo : todo[j] = Needs(x.target)[i]
        BY <2>1, <3>1, <3>2 DEF Chain, Loading
      <4>2. j # 1
        BY <2>1, <2>2, <3>2, <4>1 DEF Known
      <4>3. j - 1 \in DOMAIN Tail(todo) /\ Tail(todo)[j - 1] = todo[j]
        BY <2>1, <4>1, <4>2
      <4> QED BY <3>1, <4>1, <4>3
    <3>3. Loading(x)
      BY <3>1, <3>2 DEF Loading
    <3>4. worker' = [worker EXCEPT ![w] = x]
      BY <1>4, <2>2 DEF Load
    <3> QED BY <1>4, <3>1, <3>3, <3>4, ChainSame DEF Load
  <2>3. CASE Head(todo) \notin whole
    BY <1>4, <2>3, ChainAnswer DEF Load
  <2> QED BY <2>2, <2>3
<1>5. CASE Test(w)
  <2>1. CASE worker[w].target \in Stored
    BY <1>5, <2>1, ChainAnswer DEF Test
  <2>2. CASE worker[w].target \notin Stored
    <3> DEFINE x == [worker[w] EXCEPT !.at = "open"]
    <3>1. x.at = "open" /\ x.target = worker[w].target /\ x.todo = worker[w].todo
      BY <1>1 DEF Requests
    <3>2. worker' = [worker EXCEPT ![w] = x]
      BY <1>1, <1>5, <2>2 DEF Test, GoTo
    <3>3. Loading(x)
      BY <1>5, <3>1 DEF Test, At, Chain, Loading
    <3> QED BY <1>5, <3>1, <3>2, <3>3, ChainSame DEF Test
  <2> QED BY <2>1, <2>2
<1>6. CASE Open(w)
  <2> DEFINE x == [worker[w] EXCEPT !.at = "fill"]
  <2>1. /\ Stored' = Stored \cup {worker[w].target} /\ Known \subseteq Known'
        /\ reopened' \subseteq Stored' \cup removed'
    BY <1>6 DEF Open, Stored, Known, Chain
  <2>2. worker' = [worker EXCEPT ![w] = x] /\ worker[w].at = "open"
    BY <1>1, <1>6 DEF Open, GoTo, At
  <2> QED BY <2>1, <2>2, ChainWrites
<1>7. CASE Fill(w)
  <2>1. /\ Stored' = Stored \cup {worker[w].target} /\ Known \subseteq Known'
        /\ reopened' \subseteq Stored' \cup removed'
    BY <1>7 DEF Fill, Stored, Known, Chain
  <2>2. worker' = [worker EXCEPT ![w] = Idle] /\ worker[w].at = "fill" /\ Idle.at = "idle"
    BY <1>7 DEF Fill, Answer, At, Idle
  <2> QED BY <2>1, <2>2, ChainWrites
<1>8. ASSUME NEW p \in Plans, Sign(w, p)
      PROVE  Chain'
  <2> DEFINE x == [worker[w] EXCEPT !.at = "sign", !.target = p, !.stamp = now]
  <2>1. x.at = "sign" /\ worker' = [worker EXCEPT ![w] = x]
    BY <1>1, <1>8 DEF Sign, Requests
  <2> QED BY <1>8, <2>1, ChainSame DEF Sign
<1>9. ASSUME NEW p \in Plans, Revoke(w, p)
      PROVE  Chain'
  <2>1. \A v \in Workers : worker'[v] = worker[v] \/ worker'[v].at \in {"idle", "lost"}
    BY <1>1, <1>9 DEF Revoke, Unlink, Requests
  <2> QED BY <1>9, <2>1, ChainEnds DEF Revoke
<1>10. CASE Signed(w) \/ WrittenInVain(w) \/ Record(w)
  BY <1>10, ChainAnswer DEF Signed, WrittenInVain, Record
<1>11. ASSUME NEW e \in Evaluations, Run(w, e)
       PROVE  Chain'
  <2> DEFINE x == [worker[w] EXCEPT !.at = "gate", !.target = e, !.todo = <<e.contract, e.plan>>]
  <2>1. x.at = "gate" /\ x.target = e /\ worker' = [worker EXCEPT ![w] = x]
    BY <1>1, <1>11 DEF Run, Requests
  <2>2. Founded(x)
    BY <1>11, <2>1 DEF Run, Chain, Founded
  <2> QED BY <1>11, <2>1, <2>2, ChainSame DEF Run
<1>12. CASE GateLoad(w)
  <2> DEFINE x == [worker[w] EXCEPT !.todo = Tail(worker[w].todo)]
  <2>1. x.at = "gate" /\ x.target = worker[w].target /\ worker[w].at = "gate"
    BY <1>1, <1>12 DEF GateLoad, At, Requests
  <2>2. worker' = [worker EXCEPT ![w] = x] \/ Answer(w)
    BY <1>12 DEF GateLoad
  <2>3. UNCHANGED <<whole, torn, reopened, removed>>
    BY <1>12 DEF GateLoad
  <2> HIDE DEF x
  <2>4. CASE worker' = [worker EXCEPT ![w] = x]
    BY <2>1, <2>3, <2>4, ChainGate
  <2> QED BY <2>2, <2>3, <2>4, ChainAnswer
<1>13. ASSUME NEW s \in {"risk", "approval", "record"}, GoTo(w, s),
              worker[w].at \in {"gate", "risk", "approval"},
              UNCHANGED <<whole, torn, reopened, removed>>
       PROVE  Chain'
  <2> DEFINE x == [worker[w] EXCEPT !.at = s]
  <2>1. x.at = s /\ x.target = worker[w].target /\ worker' = [worker EXCEPT ![w] = x]
    BY <1>1, <1>13 DEF GoTo, Requests
  <2> HIDE DEF x
  <2> QED BY <1>13, <2>1, ChainGate
<1>14. CASE Pass(w) \/ ReadRisk(w)
  BY <1>13, <1>14, ChainAnswer DEF Pass, ReadRisk, At
<1>15. CASE ReadApproval(w)
  <2> DEFINE x == [worker[w] EXCEPT !.at = "record", !.stamp = now]
  <2>1. x.at = "record" /\ x.target = worker[w].target /\ worker[w].at = "approval"
    BY <1>1, <1>15 DEF ReadApproval, At, Requests
  <2>2. worker' = [worker EXCEPT ![w] = x] \/ Answer(w)
    BY <1>15 DEF ReadApproval
  <2>3. UNCHANGED <<whole, torn, reopened, removed>>
    BY <1>15 DEF ReadApproval
  <2> HIDE DEF x
  <2>4. CASE worker' = [worker EXCEPT ![w] = x]
    BY <2>1, <2>3, <2>4, ChainGate
  <2> QED BY <2>2, <2>3, <2>4, ChainAnswer
<1> QED BY <1>3, <1>4, <1>5, <1>6, <1>7, <1>8, <1>9, <1>10, <1>11, <1>12, <1>14, <1>15 DEF Step

\* The chain holds at the start.
LEMMA ChainInit == Init => Chain
BY DEF Init, Chain, Stored, Idle

\* Every step keeps it.
LEMMA ChainNext ==
  ASSUME Typed, Chain, [Next]_vars
  PROVE  Chain'
<1>1. ASSUME NEW w \in Workers, Step(w)
      PROVE  Chain'
  BY <1>1, ChainStep
<1>2. CASE Tick \/ Crash
  <2>1. \A v \in Workers : worker'[v] = worker[v] \/ worker'[v].at \in {"idle", "lost"}
    BY <1>2 DEF Tick, Crash, Idle
  <2> QED BY <1>2, <2>1, ChainEnds DEF Tick, Crash
<1>3. ASSUME NEW a \in Artifacts, Reset(a)
      PROVE  Chain'
  <2>1. /\ Stored' = Stored \ {a} /\ Known' = Known \cup {a}
        /\ removed' = removed \cup {a} /\ reopened' = reopened
    BY <1>3 DEF Reset, Stored, Known
  <2>2. \A v \in Workers :
          \/ worker'[v] = worker[v] /\ ~(worker[v].at = "fill" /\ worker[v].target = a)
          \/ worker'[v].at = "lost"
    BY <1>3 DEF Reset, At, Typed, TypeOK, Requests
  <2>3. \A v \in Workers :
          /\ worker'[v].at \in {"load", "open", "fill"} => Loading(worker[v])'
          /\ worker'[v].at \in {"gate", "risk", "approval", "record"} => Founded(worker[v])'
    BY <2>1, <2>2 DEF Chain, Loading, Founded
  <2> QED BY <2>1, <2>2, <2>3 DEF Chain
<1>4. CASE UNCHANGED vars
  BY <1>4, ChainEnds DEF vars
<1> QED BY <1>1, <1>2, <1>3, <1>4 DEF Next

\* A file an artifact was made from is on disk, whatever became of it, or removed.
LEMMA ChainCloses ==
  ASSUME Chain
  PROVE  ChainsClosed
BY DEF Chain, ChainsClosed, Known, Stored

-----------------------------------------------------------------------------
(* Files left empty. *)

\* No file is empty at the start.
LEMMA TornInit == Init => TornAreBeingFilled
BY DEF Init, TornAreBeingFilled

\* No other step than its own fill ends a request that is about to fill.
LEMMA TornStep ==
  ASSUME Typed, TornAreBeingFilled, NEW w \in Workers, Step(w)
  PROVE  TornAreBeingFilled'
<1>1. /\ worker \in [Workers -> Sensible] /\ worker[w] \in Requests
      /\ \A v \in Workers : worker[v] \in Requests
  BY DEF Typed, Sensible
<1>2. ASSUME UNCHANGED <<torn, crashes>>, ~At(w, "fill"),
             \A v \in Workers \ {w} : worker[v].at = "fill" => worker'[v] = worker[v]
      PROVE  TornAreBeingFilled'
  BY <1>2 DEF TornAreBeingFilled, At
<1>3. ASSUME NEW x, worker' = [worker EXCEPT ![w] = x], ~At(w, "fill"), UNCHANGED <<torn, crashes>>
      PROVE  TornAreBeingFilled'
  BY <1>1, <1>2, <1>3
<1>4. ASSUME NEW a, Post(w, a)
      PROVE  TornAreBeingFilled'
  <2>1. UNCHANGED <<torn, crashes>> /\ ~At(w, "fill")
    BY <1>4 DEF Post, Free, At
  <2>2. \A v \in Workers \ {w} : worker'[v] = worker[v]
    BY <1>1, <1>4 DEF Post
  <2> QED BY <1>2, <2>1, <2>2
<1>5. CASE PostContract(w) \/ PostPlan(w) \/ PostReport(w) \/ PostEvaluation(w)
  BY <1>4, <1>5 DEF PostContract, PostPlan, PostReport, PostEvaluation
<1>6. CASE Load(w) \/ GateLoad(w) \/ Test(w) \/ Pass(w) \/ ReadRisk(w) \/ ReadApproval(w)
  <2>1. UNCHANGED <<torn, crashes>> /\ ~At(w, "fill")
    BY <1>6 DEF Load, GateLoad, Test, Pass, ReadRisk, ReadApproval, At
  <2>2. \A v \in Workers \ {w} : worker'[v] = worker[v]
    BY <1>1, <1>6 DEF Load, GateLoad, Test, Pass, ReadRisk, ReadApproval, Answer, GoTo
  <2> QED BY <1>2, <2>1, <2>2
<1>7. CASE Signed(w) \/ WrittenInVain(w) \/ Record(w)
  <2>1. UNCHANGED <<torn, crashes>> /\ ~At(w, "fill")
    BY <1>7 DEF Signed, WrittenInVain, Record, At
  <2>2. \A v \in Workers \ {w} : worker'[v] = worker[v]
    BY <1>1, <1>7 DEF Signed, WrittenInVain, Record, Answer
  <2> QED BY <1>2, <2>1, <2>2
<1>8. ASSUME NEW p \in Plans, Sign(w, p)
      PROVE  TornAreBeingFilled'
  <2>1. UNCHANGED <<torn, crashes>> /\ ~At(w, "fill")
    BY <1>8 DEF Sign, Free, At
  <2>2. \A v \in Workers \ {w} : worker'[v] = worker[v]
    BY <1>1, <1>8 DEF Sign
  <2> QED BY <1>2, <2>1, <2>2
<1>9. ASSUME NEW p \in Plans, Revoke(w, p)
      PROVE  TornAreBeingFilled'
  <2>1. \A v \in Workers : worker[v].at = "fill" => worker'[v] = worker[v]
    BY <1>9 DEF Revoke, Unlink, At
  <2>2. UNCHANGED <<torn, crashes>> /\ ~At(w, "fill")
    BY <1>9 DEF Revoke, Free, At
  <2> QED BY <1>2, <2>1, <2>2
<1>10. ASSUME NEW e \in Evaluations, Run(w, e)
       PROVE  TornAreBeingFilled'
  <2>1. UNCHANGED <<torn, crashes>> /\ ~At(w, "fill")
    BY <1>10 DEF Run, Free, At
  <2>2. \A v \in Workers \ {w} : worker'[v] = worker[v]
    BY <1>1, <1>10 DEF Run
  <2> QED BY <1>2, <2>1, <2>2
<1>11. CASE Open(w)
  <2> DEFINE a == worker[w].target
  <2>1. torn' = torn \cup {a} /\ crashes' = crashes /\ worker[w].at = "open"
    BY <1>11 DEF Open, At
  <2>2. worker'[w].at = "fill" /\ worker'[w].target = a
    BY <1>1, <1>11 DEF Open, GoTo, Requests
  <2>3. \A v \in Workers \ {w} : worker'[v] = worker[v]
    BY <1>1, <1>11 DEF Open, GoTo
  <2> HIDE DEF a
  <2> QED BY <2>1, <2>2, <2>3 DEF TornAreBeingFilled, At
<1>12. CASE Fill(w)
  <2>1. torn' = torn \ {worker[w].target} /\ crashes' = crashes
    BY <1>12 DEF Fill
  <2>2. \A v \in Workers \ {w} : worker'[v] = worker[v]
    BY <1>1, <1>12 DEF Fill, Answer
  <2> QED BY <2>1, <2>2 DEF TornAreBeingFilled, At
<1> QED BY <1>5, <1>6, <1>7, <1>8, <1>9, <1>10, <1>11, <1>12 DEF Step

\* A crash ends the claim, and nothing else does.
LEMMA TornNext ==
  ASSUME BuildGateAssumption, Typed, TornAreBeingFilled, [Next]_vars
  PROVE  TornAreBeingFilled'
<1>1. ASSUME NEW w \in Workers, Step(w)
      PROVE  TornAreBeingFilled'
  BY <1>1, TornStep
<1>2. CASE Tick
  BY <1>2 DEF Tick, TornAreBeingFilled, At
<1>3. CASE Crash
  <2>1. crashes' # 0
    BY <1>3 DEF Crash, Typed, TypeOK, BuildGateAssumption
  <2> QED BY <2>1 DEF TornAreBeingFilled
<1>4. ASSUME NEW a \in Artifacts, Reset(a)
      PROVE  TornAreBeingFilled'
  <2>1. torn' = torn \ {a} /\ crashes' = crashes
    BY <1>4 DEF Reset
  <2>2. \A v \in Workers : worker[v].target # a => worker'[v] = worker[v]
    BY <1>4 DEF Reset
  <2> QED BY <2>1, <2>2 DEF TornAreBeingFilled, At
<1>5. CASE UNCHANGED vars
  BY <1>5 DEF vars, TornAreBeingFilled, At
<1> QED BY <1>1, <1>2, <1>3, <1>4, <1>5 DEF Next

-----------------------------------------------------------------------------
(* Approvals. *)

\* The plan was approved, and not too long before t.
Approved(p, t) == \E g \in grants : g[1] = p /\ t - g[2] \in 0..TTL

\* A run that goes to its record asked for an approval, if its report's score is
\* high, unless the report has been reopened or removed.
Judged(x) ==
  LET r == x.target.report IN
  x.at = "record" /\ Risk(r) >= HighRisk /\ r \notin reopened \cup removed =>
    Approved(x.target.plan, x.stamp)

Signatures ==
  /\ \A p \in Plans : approvals[p] \notin {Absent, Empty} =>
       <<p, approvals[p]>> \in grants /\ approvals[p] <= now
  /\ \A w \in Workers : worker[w].at = "sign" => worker[w].stamp <= now
  /\ \A w \in Workers : Judged(worker[w])
  /\ HighRiskApproved

\* Nobody has been approved at the start, and nothing started.
LEMMA SignaturesInit == Init => Signatures
BY DEF Init, Signatures, Judged, HighRiskApproved, Idle

\* A step that keeps approvals, time and runs, and leaves every thread's claim
\* as it was or settled.
LEMMA SignaturesSame ==
  ASSUME Typed, Signatures, UNCHANGED <<approvals, now, started>>,
         grants \subseteq grants', reopened \cup removed \subseteq reopened' \cup removed',
         \A v \in Workers :
           \/ worker'[v] = worker[v]
           \/ worker'[v].at \notin {"sign", "record"}
           \/ worker'[v].at = "sign" /\ worker'[v].stamp <= now
           \/ worker'[v].at = "record" /\ Judged(worker'[v])
  PROVE  Signatures'
<1>1. \A p, t : Approved(p, t) => Approved(p, t)'
  BY DEF Approved
<1>2. \A x : Judged(x) => (Judged(x))'
  BY <1>1 DEF Judged
<1>3. \A v \in Workers : Judged(worker'[v])
  BY DEF Signatures, Judged
<1>4. \A v \in Workers : Judged(worker[v])'
  BY <1>1, <1>3 DEF Judged
<1>5. HighRiskApproved'
  BY DEF Signatures, HighRiskApproved
<1>6. \A v \in Workers : worker'[v].at = "sign" => worker'[v].stamp <= now'
  BY DEF Signatures
<1>7. \A p \in Plans : approvals'[p] \notin {Absent, Empty} =>
        <<p, approvals'[p]>> \in grants' /\ approvals'[p] <= now'
  BY DEF Signatures
<1> QED BY <1>4, <1>5, <1>6, <1>7 DEF Signatures

\* Every step of a thread keeps the claims.
LEMMA SignaturesStep ==
  ASSUME BuildGateAssumption, Typed, Chain, Signatures, NEW w \in Workers, Step(w)
  PROVE  Signatures'
<1>1. /\ worker \in [Workers -> Sensible] /\ worker[w] \in Requests /\ worker[w] \in Sensible
      /\ \A v \in Workers : worker[v] \in Requests
      /\ now \in Nat /\ worker[w].stamp \in Nat /\ TTL \in Nat
      /\ approvals \in [Plans -> Times \cup {Absent, Empty}]
  BY DEF Typed, TypeOK, Sensible, Requests, Times, BuildGateAssumption
<1>2. ASSUME UNCHANGED <<approvals, now, started, grants, removed>>, reopened \subseteq reopened',
             \A v \in Workers \ {w} : worker'[v] = worker[v],
             worker'[w].at \notin {"sign", "record"}
      PROVE  Signatures'
  BY <1>2, SignaturesSame
<1>3. ASSUME NEW a, Post(w, a)
      PROVE  Signatures'
  <2>1. worker'[w].at = "load" /\ \A v \in Workers \ {w} : worker'[v] = worker[v]
    BY <1>1, <1>3 DEF Post, Requests
  <2> QED BY <1>2, <1>3, <2>1 DEF Post
<1>4. CASE PostContract(w) \/ PostPlan(w) \/ PostReport(w) \/ PostEvaluation(w)
  BY <1>3, <1>4 DEF PostContract, PostPlan, PostReport, PostEvaluation
<1>5. CASE Load(w) \/ GateLoad(w) \/ Test(w) \/ Pass(w) \/ WrittenInVain(w)
  <2>1. /\ UNCHANGED <<approvals, now, started, grants, removed, reopened>>
        /\ \A v \in Workers \ {w} : worker'[v] = worker[v]
    BY <1>1, <1>5 DEF Load, GateLoad, Test, Pass, WrittenInVain, Answer, GoTo
  <2>2. worker'[w].at \in {"load", "gate", "open", "risk", "idle"}
    BY <1>1, <1>5 DEF Load, GateLoad, Test, Pass, WrittenInVain, Answer, GoTo, At, Idle, Requests
  <2> QED BY <1>2, <2>1, <2>2
<1>6. CASE Open(w) \/ Fill(w)
  <2>1. /\ UNCHANGED <<approvals, now, started, grants, removed>> /\ reopened \subseteq reopened'
        /\ \A v \in Workers \ {w} : worker'[v] = worker[v]
    BY <1>1, <1>6 DEF Open, Fill, Answer, GoTo
  <2>2. worker'[w].at \in {"fill", "idle"}
    BY <1>1, <1>6 DEF Open, Fill, Answer, GoTo, Idle, Requests
  <2> QED BY <1>2, <2>1, <2>2
<1>7. ASSUME NEW e \in Evaluations, Run(w, e)
      PROVE  Signatures'
  <2>1. worker'[w].at = "gate" /\ \A v \in Workers \ {w} : worker'[v] = worker[v]
    BY <1>1, <1>7 DEF Run, Requests
  <2> QED BY <1>2, <1>7, <2>1 DEF Run
<1>8. ASSUME NEW p \in Plans, Sign(w, p)
      PROVE  Signatures'
  <2>1. /\ approvals' = [approvals EXCEPT ![p] = Empty]
        /\ UNCHANGED <<now, started, grants, removed, reopened>>
    BY <1>8 DEF Sign
  <2>2. /\ worker'[w].at = "sign" /\ worker'[w].stamp = now
        /\ \A v \in Workers \ {w} : worker'[v] = worker[v]
    BY <1>1, <1>8 DEF Sign, Requests
  <2>3. \A q \in Plans : approvals'[q] \notin {Absent, Empty} => approvals'[q] = approvals[q]
    BY <1>1, <2>1
  <2>4. \A v \in Workers : Judged(worker[v])'
    BY <2>1, <2>2 DEF Signatures, Judged, Approved
  <2>5. \A v \in Workers : worker'[v].at = "sign" => worker'[v].stamp <= now'
    BY <1>1, <2>1, <2>2 DEF Signatures
  <2>6. HighRiskApproved'
    BY <2>1 DEF Signatures, HighRiskApproved
  <2> QED BY <2>1, <2>3, <2>4, <2>5, <2>6 DEF Signatures
<1>9. ASSUME NEW p \in Plans, Revoke(w, p)
      PROVE  Signatures'
  <2>1. /\ approvals' = [approvals EXCEPT ![p] = Absent]
        /\ UNCHANGED <<now, started, grants, removed, reopened>>
    BY <1>9 DEF Revoke, Unlink
  <2>2. \A v \in Workers : worker'[v] = worker[v] \/ worker'[v].at = "lost"
    BY <1>1, <1>9 DEF Revoke, Unlink, Requests
  <2>3. \A q \in Plans : approvals'[q] \notin {Absent, Empty} => approvals'[q] = approvals[q]
    BY <1>1, <2>1
  <2>4. \A v \in Workers : Judged(worker[v])'
    BY <2>1, <2>2 DEF Signatures, Judged, Approved
  <2>5. \A v \in Workers : worker'[v].at = "sign" => worker'[v].stamp <= now'
    BY <2>1, <2>2 DEF Signatures
  <2>6. HighRiskApproved'
    BY <2>1 DEF Signatures, HighRiskApproved
  <2> QED BY <2>1, <2>3, <2>4, <2>5, <2>6 DEF Signatures
<1>10. CASE Signed(w)
  <2> DEFINE p == worker[w].target  t == worker[w].stamp
  <2>1. /\ approvals' = [approvals EXCEPT ![p] = t] /\ grants' = grants \cup {<<p, t>>}
        /\ UNCHANGED <<now, started, removed, reopened>> /\ t <= now
    BY <1>10 DEF Signed, At, Signatures
  <2>2. \A v \in Workers : worker'[v] = worker[v] \/ worker'[v].at = "idle"
    BY <1>1, <1>10 DEF Signed, Answer, Idle
  <2> HIDE DEF p, t
  <2>3. \A q \in Plans : approvals'[q] \notin {Absent, Empty} =>
          <<q, approvals'[q]>> \in grants' /\ approvals'[q] <= now'
    BY <1>1, <2>1 DEF Signatures
  <2>4. \A v \in Workers : Judged(worker[v])'
    BY <2>1, <2>2 DEF Signatures, Judged, Approved
  <2>5. \A v \in Workers : worker'[v].at = "sign" => worker'[v].stamp <= now'
    BY <2>1, <2>2 DEF Signatures
  <2>6. HighRiskApproved'
    BY <2>1 DEF Signatures, HighRiskApproved
  <2> QED BY <2>3, <2>4, <2>5, <2>6 DEF Signatures
<1>11. CASE ReadRisk(w)
  <2> DEFINE e == worker[w].target
  <2>1. /\ UNCHANGED <<approvals, now, started, grants, removed, reopened>>
        /\ \A v \in Workers \ {w} : worker'[v] = worker[v]
        /\ worker'[w].target = e
    BY <1>1, <1>11 DEF ReadRisk, GoTo, Requests
  <2>2. CASE NeedsApproval(e.report)
    <3>1. worker'[w].at = "approval"
      BY <1>1, <1>11, <2>2 DEF ReadRisk, GoTo, Requests
    <3> QED BY <1>2, <2>1, <3>1
  <2>3. CASE ~NeedsApproval(e.report)
    <3>1. worker'[w].at = "record"
      BY <1>1, <1>11, <2>3 DEF ReadRisk, GoTo, Requests
    <3>2. e \in Evaluations /\ Founded(worker[w])
      BY <1>1, <1>11 DEF ReadRisk, At, Sensible, Chain
    <3>3. e.report \in Known
      BY <3>2, EvaluationNeeds DEF Founded
    <3>4. Risk(e.report) >= HighRisk => e.report \in reopened \cup removed
      BY <2>3, <3>3 DEF NeedsApproval, Known
    <3>5. Judged(worker'[w])
      BY <2>1, <3>4 DEF Judged
    <3> QED BY <2>1, <3>1, <3>5, SignaturesSame
  <2> QED BY <2>2, <2>3
<1>12. CASE ReadApproval(w)
  <2> DEFINE e == worker[w].target
  <2>1. /\ UNCHANGED <<approvals, now, started, grants, removed, reopened>>
        /\ \A v \in Workers \ {w} : worker'[v] = worker[v]
        /\ worker[w].at = "approval" /\ e \in Evaluations
    BY <1>1, <1>12 DEF ReadApproval, Answer, At, Sensible
  <2>2. CASE InForce(e.plan)
    <3> DEFINE x == [worker[w] EXCEPT !.at = "record", !.stamp = now]
    <3>0. worker' = [worker EXCEPT ![w] = x]
      BY <1>12, <2>2 DEF ReadApproval
    <3>1. worker'[w].at = "record" /\ worker'[w].target = e /\ worker'[w].stamp = now
      BY <1>1, <3>0 DEF Requests
    <3>2. /\ e.plan \in Plans
          /\ <<e.plan, approvals[e.plan]>> \in grants /\ approvals[e.plan] <= now
          /\ now - approvals[e.plan] <= TTL
      BY <2>1, <2>2, EvaluationNeeds DEF InForce, Signatures
    <3>3. approvals[e.plan] \in Int
      BY <1>1, <3>2 DEF Times, Absent, Empty
    <3>4. now - approvals[e.plan] \in 0..TTL
      BY <1>1, <3>2, <3>3
    <3>5. Approved(e.plan, now)
      BY <3>2, <3>4 DEF Approved
    <3>6. Judged(worker'[w])
      BY <3>1, <3>5 DEF Judged
    <3> QED BY <2>1, <3>1, <3>6, SignaturesSame
  <2>3. CASE ~InForce(e.plan)
    <3>1. worker'[w].at = "idle"
      BY <1>1, <1>12, <2>3 DEF ReadApproval, Answer, Idle
    <3> QED BY <1>2, <2>1, <3>1
  <2> QED BY <2>2, <2>3
<1>13. CASE Record(w)
  <2> DEFINE b == [eval |-> worker[w].target, at |-> worker[w].stamp]
  <2>1. /\ UNCHANGED <<approvals, now, grants, removed, reopened>> /\ started' \subseteq started \cup {b}
        /\ \A v \in Workers : worker'[v] = worker[v] \/ worker'[v].at = "idle"
        /\ worker[w].at = "record"
    BY <1>1, <1>13 DEF Record, Answer, Idle, At
  <2>2. Risk(b.eval.report) >= HighRisk /\ b.eval.report \notin reopened \cup removed =>
          \E g \in grants : g[1] = b.eval.plan /\ b.at - g[2] \in 0..TTL
    BY <2>1 DEF Signatures, Judged, Approved
  <2> HIDE DEF b
  <2>3. HighRiskApproved'
    BY <2>1, <2>2 DEF Signatures, HighRiskApproved
  <2>4. \A v \in Workers : Judged(worker[v])'
    BY <2>1 DEF Signatures, Judged, Approved
  <2>5. \A v \in Workers : worker'[v].at = "sign" => worker'[v].stamp <= now'
    BY <2>1 DEF Signatures
  <2>6. \A p \in Plans : approvals'[p] \notin {Absent, Empty} =>
          <<p, approvals'[p]>> \in grants' /\ approvals'[p] <= now'
    BY <2>1 DEF Signatures
  <2> QED BY <2>3, <2>4, <2>5, <2>6 DEF Signatures
<1> QED BY <1>4, <1>5, <1>6, <1>7, <1>8, <1>9, <1>10, <1>11, <1>12, <1>13 DEF Step

\* Time only grows, and a crash ends the runs that have not started.
LEMMA SignaturesNext ==
  ASSUME BuildGateAssumption, Typed, Chain, Signatures, [Next]_vars
  PROVE  Signatures'
<1>1. ASSUME NEW w \in Workers, Step(w)
      PROVE  Signatures'
  BY <1>1, SignaturesStep
<1>2. CASE Tick
  <2>1. /\ now \in Nat /\ now' = now + 1
        /\ UNCHANGED <<approvals, started, worker, grants, removed, reopened>>
    BY <1>2 DEF Tick, Typed, TypeOK, Times
  <2>2. \A p \in Plans : approvals[p] \in Int
    BY DEF Typed, TypeOK, Times, Absent, Empty
  <2>3. \A w \in Workers : worker[w].stamp \in Nat
    BY DEF Typed, TypeOK, Requests, Times
  <2>4. \A p \in Plans : approvals'[p] \notin {Absent, Empty} =>
          <<p, approvals'[p]>> \in grants' /\ approvals'[p] <= now'
    BY <2>1, <2>2 DEF Signatures
  <2>5. \A w \in Workers : worker'[w].at = "sign" => worker'[w].stamp <= now'
    BY <2>1, <2>3 DEF Signatures
  <2>6. \A w \in Workers : Judged(worker[w])'
    BY <2>1 DEF Signatures, Judged, Approved
  <2>7. HighRiskApproved'
    BY <2>1 DEF Signatures, HighRiskApproved
  <2> QED BY <2>4, <2>5, <2>6, <2>7 DEF Signatures
<1>3. CASE Crash
  <2>1. \A v \in Workers : worker'[v].at = "idle"
    BY <1>3 DEF Crash, Idle
  <2> QED BY <1>3, <2>1, SignaturesSame DEF Crash
<1>4. ASSUME NEW a \in Artifacts, Reset(a)
      PROVE  Signatures'
  <2>1. \A v \in Workers : worker'[v] = worker[v] \/ worker'[v].at = "lost"
    BY <1>4 DEF Reset, Typed, TypeOK, Requests
  <2>2. /\ UNCHANGED <<approvals, now, started, grants>>
        /\ reopened \cup removed \subseteq reopened' \cup removed'
    BY <1>4 DEF Reset
  <2> QED BY <2>1, <2>2, SignaturesSame
<1>5. CASE UNCHANGED vars
  BY <1>5, SignaturesSame DEF vars
<1> QED BY <1>1, <1>2, <1>3, <1>4, <1>5 DEF Next

-----------------------------------------------------------------------------
(* The theorems. *)

\* The types are an invariant, each request's target among them.
LEMMA TypedHolds == ASSUME BuildGateAssumption PROVE Spec => []Typed
<1>1. Init => Typed
  BY TypedInit
<1>2. Typed /\ [Next]_vars => Typed'
  BY TypedNext
<1> QED BY <1>1, <1>2, PTL DEF Spec

\* The chain is one on top of them.
LEMMA ChainHolds == ASSUME BuildGateAssumption PROVE Spec => []Chain
<1>1. Init => Chain
  BY ChainInit
<1>2. Typed /\ Chain /\ [Next]_vars => Chain'
  BY ChainNext
<1> QED BY <1>1, <1>2, TypedHolds, PTL DEF Spec

\* Files, approvals, runs and requests keep their types; no file is whole and
\* empty at once.
THEOREM TypeCorrect == ASSUME BuildGateAssumption PROVE Spec => []TypeOK
<1>1. Typed => TypeOK
  BY DEF Typed
<1> QED BY <1>1, TypedHolds, PTL

\* The chain is never entered in the middle (build_gate.py:26), whatever threads
\* rewrite and die, and whatever resets take away.
THEOREM ChainsAreClosed == ASSUME BuildGateAssumption PROVE Spec => []ChainsClosed
<1>1. Chain => ChainsClosed
  BY ChainCloses
<1> QED BY <1>1, ChainHolds, PTL

\* While no process has died, every empty file is about to be filled
\* (contract_engine.py:23), for any number of writers of it.
THEOREM TornAreFilled == ASSUME BuildGateAssumption PROVE Spec => []TornAreBeingFilled
<1>1. Init => TornAreBeingFilled
  BY TornInit
<1>2. Typed /\ TornAreBeingFilled /\ [Next]_vars => TornAreBeingFilled'
  BY TornNext
<1> QED BY <1>1, <1>2, TypedHolds, PTL DEF Spec

\* A high-risk build has an approval of its plan (build_v3.py:65), unless a
\* second writer reopened its report or a reset removed it, for any TTL and threshold.
THEOREM HighRisksApproved == ASSUME BuildGateAssumption PROVE Spec => []HighRiskApproved
<1>1. Init => Signatures
  BY SignaturesInit
<1>2. Typed /\ Chain /\ Signatures /\ [Next]_vars => Signatures'
  BY SignaturesNext
<1>3. Signatures => HighRiskApproved
  BY DEF Signatures
<1> QED BY <1>1, <1>2, <1>3, TypedHolds, ChainHolds, PTL DEF Spec

=============================================================================
