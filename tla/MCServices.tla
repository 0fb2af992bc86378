------------------------------ MODULE MCServices ------------------------------
(***************************************************************************)
(* The services around execution for TLC.  They share no state, so a       *)
(* behaviour is one of a single service, as "part" says:                   *)
(*   "gate"        the compiler's chain and the gate of v3 builds,         *)
(*   "pipeline"    the v2 build,                                           *)
(*   "federation"  the federated repositories,                             *)
(*   "advisors"    the order of the advisors,                              *)
(*   "path"        rate limiter and request ids,                           *)
(*   "ai"          the language-model gateway,                             *)
(*   "models"      the registry of data models.                            *)
(***************************************************************************)
EXTENDS Integers, TLC

CONSTANTS
  Workers, None, Torn,
  HighRisk, TTL, GateTime, GateRuns, GateFaults,                  \* gate
  Jobs, Specs, Files, MaxBuilds,                                  \* pipeline
  Names, Urls, Broken, UrlCommits, FederationRequests,            \* federation
  Advisors,
  Keys, Rpm, Window, PathTime, PathRequests,                      \* path
  Limit, Ceiling, Costs, MaxCost, AIRequests,                     \* ai
  ModelRequests, MaxFaults,                                       \* models
  MaxCrashes

\* Twelve joins are 66 minutes; with 4 GB that is a risk of 65, the highest
\* there is.  One contract, so one plan and one report.
Shapes == {[stages |-> 12, joins |-> 12]}
Clusters == {[memory |-> 4, rate |-> 100]}
Thresholds == {[mode |-> "balanced", maxCost |-> 1000, maxRisk |-> 100,
                maxFailure |-> 100, minConfidence |-> 0]}

VARIABLES
  part,
  whole, torn, approvals, lineage, started, gateWorker, gateNow, gateCrashes,
  grants, removed, reopened,
  tree, meta, buildPlans, yaml, cache, buildWorker, builds, buildCrashes,
  cut, registered, buildOverlaps, disturbed,
  tip, config, clones, checkout, materialized, fedWorker, fedCount, fedCrashes,
  answer, raced, halted,
  dependsOn, inDegree, queue, order, result,
  now, bucket, flight, filters, arrived, admitted, stamps,
  ledger, memory, aiWorker, aiCount, aiCrashes, billed, booked, paid, unbilled, asked,
  spoiled,
  models, modelFile, modelTmp, modelWorker, modelCount, modelCrashes, faults,
  answered, modelOverlaps

Gate == INSTANCE BuildGate WITH
  worker <- gateWorker, now <- gateNow, crashes <- gateCrashes,
  MaxTime <- GateTime, MaxRuns <- GateRuns, MaxFaults <- GateFaults
Pipeline == INSTANCE BuildPipeline WITH
  plans <- buildPlans, worker <- buildWorker, crashes <- buildCrashes,
  overlapped <- buildOverlaps
Fed == INSTANCE Federation WITH
  cache <- clones, worker <- fedWorker, requests <- fedCount, crashes <- fedCrashes,
  MaxCommits <- UrlCommits, MaxRequests <- FederationRequests
Graph == INSTANCE AdvisorGraph
Path == INSTANCE RequestPath WITH MaxTime <- PathTime, MaxRequests <- PathRequests
AI == INSTANCE AIGateway WITH
  worker <- aiWorker, requests <- aiCount, crashes <- aiCrashes,
  MaxRequests <- AIRequests
Models == INSTANCE ModelRegistry WITH
  memory <- models, disk <- modelFile, tmp <- modelTmp, worker <- modelWorker,
  requests <- modelCount, crashes <- modelCrashes, overlapped <- modelOverlaps,
  MaxRequests <- ModelRequests

ServicesAssumption ==
  /\ Gate!BuildGateAssumption /\ Pipeline!BuildPipelineAssumption
  /\ Fed!FederationAssumption /\ Graph!AdvisorAssumption
  /\ Path!RequestPathAssumption /\ AI!AIGatewayAssumption
  /\ Models!ModelRegistryAssumption
ASSUME ServicesAssumption

gateVars == <<whole, torn, approvals, lineage, started, gateWorker, gateNow,
              gateCrashes, grants, removed, reopened>>
pipelineVars == <<tree, meta, buildPlans, yaml, cache, buildWorker, builds,
                  buildCrashes, cut, registered, buildOverlaps, disturbed>>
fedVars == <<tip, config, clones, checkout, materialized, fedWorker, fedCount,
             fedCrashes, answer, raced, halted>>
graphVars == <<dependsOn, inDegree, queue, order, result>>
pathVars == <<now, bucket, flight, filters, arrived, admitted, stamps>>
aiVars == <<ledger, memory, aiWorker, aiCount, aiCrashes, billed, booked, paid,
            unbilled, asked, spoiled>>
modelVars == <<models, modelFile, modelTmp, modelWorker, modelCount, modelCrashes,
               faults, answered, modelOverlaps>>

vars == <<part, gateVars, pipelineVars, fedVars, graphVars, pathVars, aiVars,
          modelVars>>

\* A part that does not move has no state.
Off(v) == v = None

GateOff ==
  /\ Off(whole) /\ Off(torn) /\ Off(approvals) /\ Off(lineage) /\ Off(started)
  /\ Off(gateWorker) /\ Off(gateNow) /\ Off(gateCrashes) /\ Off(grants)
  /\ Off(removed) /\ Off(reopened)
PipelineOff ==
  /\ Off(tree) /\ Off(meta) /\ Off(buildPlans) /\ Off(yaml) /\ Off(cache)
  /\ Off(buildWorker) /\ Off(builds) /\ Off(buildCrashes) /\ Off(cut)
  /\ Off(registered)
  /\ Off(buildOverlaps) /\ Off(disturbed)
FedOff ==
  /\ Off(tip) /\ Off(config) /\ Off(clones) /\ Off(checkout)
  /\ Off(materialized) /\ Off(fedWorker) /\ Off(fedCount) /\ Off(fedCrashes)
  /\ Off(answer) /\ Off(raced) /\ Off(halted)
GraphOff ==
  /\ Off(dependsOn) /\ Off(inDegree) /\ Off(queue) /\ Off(order)
  /\ Off(result)
PathOff ==
  /\ Off(now) /\ Off(bucket) /\ Off(flight) /\ Off(filters) /\ Off(arrived)
  /\ Off(admitted) /\ Off(stamps)
AiOff ==
  /\ Off(ledger) /\ Off(memory) /\ Off(aiWorker) /\ Off(aiCount)
  /\ Off(aiCrashes) /\ Off(billed) /\ Off(booked) /\ Off(paid) /\ Off(unbilled)
  /\ Off(asked) /\ Off(spoiled)
ModelsOff ==
  /\ Off(models) /\ Off(modelFile) /\ Off(modelTmp) /\ Off(modelWorker)
  /\ Off(modelCount) /\ Off(modelCrashes) /\ Off(faults) /\ Off(answered)
  /\ Off(modelOverlaps)

Init ==
  \/ part = "gate" /\ Gate!Init
     /\ PipelineOff /\ FedOff /\ GraphOff /\ PathOff /\ AiOff /\ ModelsOff
  \/ part = "pipeline" /\ Pipeline!Init
     /\ GateOff /\ FedOff /\ GraphOff /\ PathOff /\ AiOff /\ ModelsOff
  \/ part = "federation" /\ Fed!Init
     /\ GateOff /\ PipelineOff /\ GraphOff /\ PathOff /\ AiOff /\ ModelsOff
  \/ part = "advisors" /\ Graph!Init
     /\ GateOff /\ PipelineOff /\ FedOff /\ PathOff /\ AiOff /\ ModelsOff
  \/ part = "path" /\ Path!Init
     /\ GateOff /\ PipelineOff /\ FedOff /\ GraphOff /\ AiOff /\ ModelsOff
  \/ part = "ai" /\ AI!Init
     /\ GateOff /\ PipelineOff /\ FedOff /\ GraphOff /\ PathOff /\ ModelsOff
  \/ part = "models" /\ Models!Init
     /\ GateOff /\ PipelineOff /\ FedOff /\ GraphOff /\ PathOff /\ AiOff

Next ==
  /\ UNCHANGED part
  /\ \/ /\ part = "gate" /\ Gate!Next
        /\ UNCHANGED <<pipelineVars, fedVars, graphVars, pathVars, aiVars, modelVars>>
     \/ /\ part = "pipeline" /\ Pipeline!Next
        /\ UNCHANGED <<gateVars, fedVars, graphVars, pathVars, aiVars, modelVars>>
     \/ /\ part = "federation" /\ Fed!Next
        /\ UNCHANGED <<gateVars, pipelineVars, graphVars, pathVars, aiVars, modelVars>>
     \/ /\ part = "advisors" /\ Graph!Next
        /\ UNCHANGED <<gateVars, pipelineVars, fedVars, pathVars, aiVars, modelVars>>
     \/ /\ part = "path" /\ Path!Next
        /\ UNCHANGED <<gateVars, pipelineVars, fedVars, graphVars, aiVars, modelVars>>
     \/ /\ part = "ai" /\ AI!Next
        /\ UNCHANGED <<gateVars, pipelineVars, fedVars, graphVars, pathVars, modelVars>>
     \/ /\ part = "models" /\ Models!Next
        /\ UNCHANGED <<gateVars, pipelineVars, fedVars, graphVars, pathVars, aiVars>>

Spec == Init /\ [][Next]_vars

Symmetry ==
  Permutations(Workers) \cup Permutations(Jobs) \cup Permutations(Specs)

-----------------------------------------------------------------------------
TypeOK ==
  CASE part = "gate" -> Gate!TypeOK
    [] part = "pipeline" -> Pipeline!TypeOK
    [] part = "federation" -> Fed!TypeOK
    [] part = "advisors" -> Graph!TypeOK
    [] part = "path" -> Path!TypeOK
    [] part = "ai" -> AI!TypeOK
    [] part = "models" -> Models!TypeOK

\* What a request has written was made from files that are there, or were removed.
ChainsClosed == part = "gate" => Gate!ChainsClosed
\* An empty file of the chain is about to be filled, unless a process died.
TornAreBeingFilled == part = "gate" => Gate!TornAreBeingFilled
\* A high-risk build was started on an approval that had not expired.
HighRiskApproved == part = "gate" => Gate!HighRiskApproved
\* What is registered has its plan, whole, in the job's plans directory.
RegisteredPlansSaved == part = "pipeline" => Pipeline!RegisteredPlansSaved
\* No registration is lost unless two builds of the job overlapped.
RegistrationsKept == part = "pipeline" => Pipeline!RegistrationsKept
\* The registered specification is the one the workspace was generated from.
RegistryDescribesTree == part = "pipeline" => Pipeline!RegistryDescribesTree
\* The materialised files are those of the head that was answered.
HeadIsMaterialized == part = "federation" => Fed!HeadIsMaterialized
\* No advisor runs before one it depends on.
DependenciesFirst == part = "advisors" => Graph!DependenciesFirst
\* Advisors that are all there fail to be sorted only if some form a circle.
FailsOnlyIfCircular == part = "advisors" => Graph!FailsOnlyIfCircular
\* A key gets less than twice the limit in a window's time.
BelowTwiceTheLimit == part = "path" => Path!BelowTwiceTheLimit
\* A log record of a request that is alone carries its id.
OwnIdWhenAlone == part = "path" => Path!OwnIdWhenAlone
\* The recorded costs exceed the limit by what is under way at most.
OverspendBounded == part = "ai" => AI!OverspendBounded
\* Every call of the model is booked, but those whose request failed.
CallsBilled == part = "ai" => AI!CallsBilled
\* Every triage that was answered is in the memory.
TriagesRemembered == part = "ai" => AI!TriagesRemembered
\* A registration that was answered is on disk, or a later one of its name.
AnsweredModelsKept == part = "models" => Models!AnsweredModelsKept

=============================================================================
