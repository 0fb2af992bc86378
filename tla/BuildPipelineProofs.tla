------------------------- MODULE BuildPipelineProofs -------------------------
(***************************************************************************)
(* Proofs about BuildPipeline, for any jobs, specifications, threads and   *)
(* numbers of files, builds and crashes: the types, and what the metadata  *)
(* of a job say of its plans, its builds and its workspace.                *)
(*                                                                         *)
(* What the metadata say is not inductive: a request between the reading   *)
(* and the writing of them holds a copy.  Each invariant says of a copy    *)
(* what it says of the file; those of an undisturbed job also say that one *)
(* request at most is at work on it, and how far it has come.              *)
(***************************************************************************)
EXTENDS BuildPipeline, TLAPS

-----------------------------------------------------------------------------
(* Types. *)

\* What a request has in hand at each step.
Sensible ==
  {x \in Worker :
    /\ x.step = "idle" => x.job = None
    /\ x.step # "idle" => x.job \in Jobs /\ x.spec \in Specs
    /\ x.step \in {"generate", "lookup", "remember", "open", "save"} => x.plan \in Plan
    /\ x.step = "write" /\ x.by = "v2" => x.plan \in Plan}

Typed == TypeOK /\ worker \in [Workers -> Sensible]

\* The thread of w alone goes on, with x.
Goes(w, x) == worker' = [worker EXCEPT ![w] = x]

\* An idle thread is a sensible one.
LEMMA IdleSensible == Idle \in Sensible
<1>1. NoMeta \in Meta
  BY DEF NoMeta, Meta
<1> QED BY <1>1 DEF Idle, Sensible, Worker

LEMMA IdleIs == Idle.step = "idle" /\ Idle.job = None
BY DEF Idle

\* The types hold at the start.
LEMMA TypedInit ==
  ASSUME BuildPipelineAssumption, Init
  PROVE  Typed
BY IdleSensible DEF Init, Typed, TypeOK, Sensible, BuildPipelineAssumption

\* What is registered is metadata.
LEMMA RegistrationTyped ==
  ASSUME TypeOK, NEW j \in Jobs, meta[j] # Torn, NEW p \in Plan
  PROVE  Registration(j, p) \in Meta
<1>1. p.job \in Jobs /\ p.spec \in Specs
  BY DEF Plan
<1>2. meta[j] = None \/ meta[j] \in Meta
  BY DEF TypeOK
<1> QED BY <1>1, <1>2 DEF Registration, Meta

\* Every step of a request moves its own thread only, and leaves it sensible.
LEMMA StepGoes ==
  ASSUME BuildPipelineAssumption, Typed, NEW w \in Workers, Step(w)
  PROVE  Goes(w, worker'[w]) /\ worker'[w] \in Sensible
<1>1. worker \in [Workers -> Sensible] /\ worker[w] \in Sensible /\ worker[w] \in Worker
  BY DEF Typed, Sensible
<1>2. ASSUME NEW x \in Sensible, Goes(w, x)
      PROVE  Goes(w, worker'[w]) /\ worker'[w] \in Sensible
  BY <1>1, <1>2 DEF Goes
<1>3. ASSUME Answer(w)
      PROVE  Goes(w, worker'[w]) /\ worker'[w] \in Sensible
  BY <1>2, <1>3, IdleSensible DEF Answer, Goes
<1>4. Idle \in Sensible /\ Idle \in Worker
  BY IdleSensible DEF Sensible
<1>5. ASSUME NEW j \in Jobs, NEW s \in Specs, NEW toYaml \in BOOLEAN, NEW force \in BOOLEAN,
             BuildFromSpec(w, j, s, toYaml, force)
      PROVE  Goes(w, worker'[w]) /\ worker'[w] \in Sensible
  <2>1. PlanOf(j, s, FALSE) \in Plan /\ PlanOf(j, s, TRUE) \in Plan
    BY DEF PlanOf, Plan
  <2>2. BuildPath(j, s, toYaml, force) \in Sensible
    BY <1>4, <2>1 DEF BuildPath, Sensible, Worker, Idle
  <2>3. SkipPath(j, s, force) \in Sensible
    BY <1>4, <2>1 DEF SkipPath, Sensible, Worker, Idle
  <2> QED BY <1>2, <1>5, <2>2, <2>3 DEF BuildFromSpec, Begin, Goes
<1>6. CASE BeginV1(w)
  <2>1. yaml[1] \in Jobs /\ yaml[2] \in Specs
    BY <1>6 DEF BeginV1, Typed, TypeOK
  <2>2. [Idle EXCEPT !.step = "write", !.job = yaml[1], !.spec = yaml[2], !.by = "v1",
                     !.left = 1..Files] \in Sensible
    BY <1>4, <2>1 DEF Sensible, Worker, Idle
  <2> QED BY <1>2, <1>6, <2>2 DEF BeginV1, Begin, Goes
<1>7. CASE Generate(w)
  <2>1. [worker[w] EXCEPT !.step = "write", !.yaml = FALSE, !.left = 1..Files] \in Sensible
    BY <1>1, <1>7 DEF Generate, At, Sensible, Worker
  <2> QED BY <1>2, <1>3, <1>7, <2>1 DEF Generate, Goes
<1>8. CASE Write(w)
  <2> DEFINE f == CHOOSE i \in worker[w].left : \A k \in worker[w].left : i <= k
             rest == worker[w].left \ {f}
  <2> HIDE DEF f
  <2>1. worker[w].step = "write" /\ rest \in SUBSET (1..Files)
    BY <1>1, <1>8 DEF Write, At, Worker
  <2>2. [worker[w] EXCEPT !.left = rest] \in Sensible
    BY <1>1, <2>1 DEF Sensible, Worker
  <2>3. worker[w].by = "v2" => [worker[w] EXCEPT !.step = "lookup", !.left = {}] \in Sensible
    BY <1>1, <2>1 DEF Sensible, Worker
  <2>4. \/ Goes(w, [worker[w] EXCEPT !.left = rest])
        \/ Answer(w)
        \/ worker[w].by = "v2" /\ Goes(w, [worker[w] EXCEPT !.step = "lookup", !.left = {}])
    <3>1. CASE rest # {}
      BY <1>1, <1>8, <3>1 DEF Write, Goes, f
    <3>2. CASE rest = {} /\ worker[w].by = "v1"
      BY <1>8, <3>2 DEF Write, FinalizeWorkspaceRepo, f
    <3>3. CASE rest = {} /\ worker[w].by = "v2"
      BY <1>8, <3>3 DEF Write, FinalizeBaseline, Goes, f
    <3> QED BY <1>1, <3>1, <3>2, <3>3 DEF Worker
  <2> QED BY <1>2, <1>3, <2>2, <2>3, <2>4
<1>9. CASE Lookup(w)
  <2>1. /\ worker[w].step = "lookup"
        /\ \/ Hit(w) /\ Advised(w, cache)
           \/ Goes(w, [worker[w] EXCEPT !.step = "remember", !.force = FALSE])
    BY <1>9 DEF Lookup, At, Goes
  <2>2. Hit(w) => [worker[w] EXCEPT !.step = "open", !.plan = cache, !.force = FALSE] \in Sensible
    <3>1. Hit(w) => cache \in Plan
      BY DEF Hit, Typed, TypeOK
    <3> QED BY <1>1, <2>1, <3>1 DEF Sensible, Worker
  <2>3. [worker[w] EXCEPT !.step = "remember", !.force = FALSE] \in Sensible
    BY <1>1, <2>1 DEF Sensible, Worker
  <2> QED BY <1>2, <2>1, <2>2, <2>3 DEF Advised, Goes
<1>10. CASE Remember(w)
  <2>1. worker[w].step = "remember" /\ worker[w].plan \in Plan
    BY <1>1, <1>10 DEF Remember, At, Sensible
  <2>2. [worker[w] EXCEPT !.step = "open", !.plan = worker[w].plan, !.force = FALSE] \in Sensible
    BY <1>1, <2>1 DEF Sensible, Worker
  <2> QED BY <1>2, <1>10, <2>2 DEF Remember, Advised, Goes
<1>11. CASE Save(w)
  <2>1. worker[w].step = "save" /\ worker[w].plan \in Plan /\ worker[w].job \in Jobs
    BY <1>1, <1>11 DEF Save, At, Sensible
  <2>2. CASE meta[worker[w].job] = Torn
    BY <1>3, <1>11, <2>2 DEF Save
  <2>3. CASE meta[worker[w].job] # Torn
    <3> DEFINE r == Registration(worker[w].job, worker[w].plan)
    <3>1. r \in Meta
      BY <2>1, <2>3, RegistrationTyped DEF Typed
    <3>2. Goes(w, [worker[w] EXCEPT !.step = "truncate", !.copy = r])
      BY <1>11, <2>3 DEF Save, Goes
    <3> HIDE DEF r
    <3>3. [worker[w] EXCEPT !.step = "truncate", !.copy = r] \in Sensible
      BY <1>1, <2>1, <3>1 DEF Sensible, Worker
    <3> QED BY <1>2, <3>2, <3>3
  <2> QED BY <2>2, <2>3
<1>12. CASE Truncate(w)
  <2>1. worker[w].step = "truncate"
    BY <1>12 DEF Truncate, At
  <2>2. [worker[w] EXCEPT !.step = "flush"] \in Sensible
    BY <1>1, <2>1 DEF Sensible, Worker
  <2> QED BY <1>1, <1>2, <1>12, <2>2 DEF Truncate, GoTo, Goes
<1>13. CASE Flush(w)
  BY <1>3, <1>13 DEF Flush
<1>14. CASE Open(w)
  <2>1. worker[w].step = "open"
    BY <1>14 DEF Open, At
  <2>2. [worker[w] EXCEPT !.step = "save"] \in Sensible
    BY <1>1, <2>1 DEF Sensible, Worker
  <2> QED BY <1>1, <1>2, <1>14, <2>2 DEF Open, GoTo, Goes
<1> QED BY <1>5, <1>6, <1>7, <1>8, <1>9, <1>10, <1>11, <1>12, <1>13, <1>14
        DEF Step, BeginV2, BeginIntent

\* The request of w is the same one as before.
Same(w) ==
  /\ worker'[w].job = worker[w].job /\ worker'[w].spec = worker[w].spec
  /\ worker'[w].by = worker[w].by /\ worker'[w].skipped = worker[w].skipped

\* How a request goes on.
LEMMA Effects ==
  ASSUME Typed, NEW w \in Workers
  PROVE  /\ Generate(w) =>
              worker'[w] = Idle \/ (worker'[w].step = "write" /\ Same(w)
                                     /\ worker'[w].left = 1..Files
                                     /\ worker'[w].plan = worker[w].plan)
         /\ Lookup(w) =>
              Same(w) /\ \/ worker'[w].step = "open" /\ Hit(w) /\ worker'[w].plan = cache
                         \/ worker'[w].step = "remember" /\ worker'[w].plan = worker[w].plan
         /\ Remember(w) =>
              Same(w) /\ worker'[w].step = "open" /\ worker'[w].plan = worker[w].plan
         /\ Open(w) =>
              Same(w) /\ worker'[w].step = "save" /\ worker'[w].plan = worker[w].plan
         /\ Save(w) =>
              IF meta[worker[w].job] = Torn
              THEN worker'[w] = Idle
              ELSE /\ Same(w) /\ worker'[w].step = "truncate"
                   /\ worker'[w].copy = Registration(worker[w].job, worker[w].plan)
         /\ Truncate(w) =>
              Same(w) /\ worker'[w].step = "flush" /\ worker'[w].copy = worker[w].copy
         /\ Flush(w) => worker'[w] = Idle
<1>1. worker \in [Workers -> Sensible] /\ worker[w] \in Worker
  BY DEF Typed, Sensible
<1>2. ASSUME Answer(w) PROVE worker'[w] = Idle
  BY <1>1, <1>2 DEF Answer
<1>3. ASSUME NEW x, worker' = [worker EXCEPT ![w] = x]
      PROVE  worker'[w] = x
  BY <1>1, <1>3
<1>4. Generate(w) => worker'[w] = Idle
                     \/ worker'[w] = [worker[w] EXCEPT !.step = "write", !.yaml = FALSE,
                                                       !.left = 1..Files]
  BY <1>2, <1>3 DEF Generate
<1>5. Lookup(w) =>
        \/ Hit(w) /\ worker'[w] = [worker[w] EXCEPT !.step = "open", !.plan = cache, !.force = FALSE]
        \/ worker'[w] = [worker[w] EXCEPT !.step = "remember", !.force = FALSE]
  BY <1>3 DEF Lookup, Advised
<1>6. Remember(w) =>
        worker'[w] = [worker[w] EXCEPT !.step = "open", !.plan = worker[w].plan, !.force = FALSE]
  BY <1>3 DEF Remember, Advised
<1>7. Save(w) =>
        IF meta[worker[w].job] = Torn
        THEN worker'[w] = Idle
        ELSE worker'[w] = [worker[w] EXCEPT !.step = "truncate",
                             !.copy = Registration(worker[w].job, worker[w].plan)]
  BY <1>2, <1>3 DEF Save
<1>8. Truncate(w) => worker'[w] = [worker[w] EXCEPT !.step = "flush"]
  BY <1>1 DEF Truncate, GoTo
<1>9. Flush(w) => worker'[w] = Idle
  BY <1>2 DEF Flush
<1>10. ASSUME NEW x, worker'[w] = [worker[w] EXCEPT !.step = x] PROVE
         /\ Same(w) /\ worker'[w].step = x /\ worker'[w].copy = worker[w].copy
         /\ worker'[w].plan = worker[w].plan
  BY <1>1, <1>10 DEF Same, Worker
<1>11. Generate(w) =>
         worker'[w] = Idle \/ (worker'[w].step = "write" /\ Same(w)
                                /\ worker'[w].left = 1..Files
                                /\ worker'[w].plan = worker[w].plan)
  BY <1>1, <1>4 DEF Same, Worker
<1>12. ASSUME NEW s, NEW p,
              worker'[w] = [worker[w] EXCEPT !.step = s, !.plan = p, !.force = FALSE]
       PROVE  Same(w) /\ worker'[w].step = s /\ worker'[w].plan = p
  BY <1>1, <1>12 DEF Same, Worker
<1>13. ASSUME worker'[w] = [worker[w] EXCEPT !.step = "remember", !.force = FALSE]
       PROVE  Same(w) /\ worker'[w].step = "remember" /\ worker'[w].plan = worker[w].plan
  BY <1>1, <1>13 DEF Same, Worker
<1>14. ASSUME NEW r, worker'[w] = [worker[w] EXCEPT !.step = "truncate", !.copy = r]
       PROVE  Same(w) /\ worker'[w].step = "truncate" /\ worker'[w].copy = r
  BY <1>1, <1>14 DEF Same, Worker
<1>15. Lookup(w) =>
         Same(w) /\ \/ worker'[w].step = "open" /\ Hit(w) /\ worker'[w].plan = cache
                    \/ worker'[w].step = "remember" /\ worker'[w].plan = worker[w].plan
  BY <1>5, <1>12, <1>13
<1>16. Remember(w) =>
         Same(w) /\ worker'[w].step = "open" /\ worker'[w].plan = worker[w].plan
  BY <1>6, <1>12
<1>17. Save(w) =>
         IF meta[worker[w].job] = Torn
         THEN worker'[w] = Idle
         ELSE /\ Same(w) /\ worker'[w].step = "truncate"
              /\ worker'[w].copy = Registration(worker[w].job, worker[w].plan)
  BY <1>7, <1>14
<1>18. Truncate(w) =>
         Same(w) /\ worker'[w].step = "flush" /\ worker'[w].copy = worker[w].copy
  BY <1>8, <1>10
<1>19. Open(w) =>
         Same(w) /\ worker'[w].step = "save" /\ worker'[w].plan = worker[w].plan
  <2>1. Open(w) => worker'[w] = [worker[w] EXCEPT !.step = "save"]
    BY <1>1 DEF Open, GoTo
  <2> QED BY <1>10, <2>1
<1> QED BY <1>9, <1>11, <1>15, <1>16, <1>17, <1>18, <1>19

\* How one goes on that is writing its files, f being the next.
LEMMA WriteDoes ==
  ASSUME Typed, NEW w \in Workers, Write(w)
  PROVE  \E f :
    /\ tree' = [tree EXCEPT ![worker[w].job][f] =
                  [job |-> worker[w].job, spec |-> worker[w].spec, by |-> worker[w].by]]
    /\ \/ worker'[w] = Idle /\ worker[w].by = "v1"
       \/ /\ Same(w) /\ worker'[w].step = "write"
          /\ worker'[w].left = worker[w].left \ {f} /\ worker'[w].plan = worker[w].plan
       \/ /\ Same(w) /\ worker'[w].step = "lookup" /\ worker[w].by = "v2"
          /\ worker[w].left \ {f} = {} /\ worker'[w].plan = worker[w].plan
<1> DEFINE f == CHOOSE i \in worker[w].left : \A k \in worker[w].left : i <= k
           rest == worker[w].left \ {f}
<1>1. /\ worker \in [Workers -> Sensible] /\ worker[w] \in Worker
      /\ tree' = [tree EXCEPT ![worker[w].job][f] =
                    [job |-> worker[w].job, spec |-> worker[w].spec, by |-> worker[w].by]]
      /\ worker[w].step = "write"
      /\ CASE rest # {} -> worker' = [worker EXCEPT ![w].left = rest]
           [] rest = {} /\ worker[w].by = "v1" -> FinalizeWorkspaceRepo(w)
           [] rest = {} /\ worker[w].by = "v2" -> FinalizeBaseline(w)
  BY DEF Typed, Sensible, Write, At
<1> HIDE DEF f
<1>2. worker[w].by \in {"v1", "v2"}
  BY <1>1 DEF Worker
<1>3. CASE rest # {}
  <2>1. worker'[w] = [worker[w] EXCEPT !.left = rest]
    BY <1>1, <1>3
  <2>2. Same(w) /\ worker'[w].step = "write" /\ worker'[w].left = rest
        /\ worker'[w].plan = worker[w].plan
    BY <1>1, <2>1 DEF Same, Worker
  <2> QED BY <1>1, <2>2
<1>4. CASE rest = {} /\ worker[w].by = "v1"
  <2>1. worker'[w] = Idle
    BY <1>1, <1>4 DEF FinalizeWorkspaceRepo, Answer
  <2> QED BY <1>1, <1>4, <2>1
<1>5. CASE rest = {} /\ worker[w].by = "v2"
  <2>1. worker'[w] = [worker[w] EXCEPT !.step = "lookup", !.left = {}]
    BY <1>1, <1>5 DEF FinalizeBaseline
  <2>2. Same(w) /\ worker'[w].step = "lookup" /\ worker'[w].plan = worker[w].plan
    BY <1>1, <2>1 DEF Same, Worker
  <2> QED BY <1>1, <1>5, <2>2
<1> QED BY <1>2, <1>3, <1>4, <1>5

\* A request for a v2 build, whichever endpoint it comes from.
LEMMA BeginBuilds ==
  ASSUME NEW w \in Workers, NEW j \in Jobs, NEW s \in Specs, BeginV2(w, j, s) \/ BeginIntent(w, j, s)
  PROVE  \E toYaml, force \in BOOLEAN : BuildFromSpec(w, j, s, toYaml, force)
BY DEF BeginV2, BeginIntent

\* Every step keeps the types.
LEMMA TypedStep ==
  ASSUME BuildPipelineAssumption, Typed, NEW w \in Workers, Step(w)
  PROVE  Typed'
<1>1. worker' \in [Workers -> Sensible] /\ worker' \in [Workers -> Worker]
  BY StepGoes DEF Typed, Goes, Sensible
<1>2. /\ worker[w] \in Sensible /\ worker[w] \in Worker
      /\ tree \in [Jobs -> [1..Files -> Content \cup {None}]]
      /\ meta \in [Jobs -> Meta \cup {None, Torn}]
      /\ plans \in [Jobs -> SUBSET Plan] /\ cut \in [Jobs -> SUBSET Plan]
      /\ yaml \in (Jobs \X Specs) \cup {None} /\ cache \in Plan \cup {None}
      /\ builds \in 0..MaxBuilds /\ crashes \in 0..MaxCrashes
      /\ registered \in [Jobs -> Nat]
      /\ overlapped \subseteq Jobs /\ disturbed \subseteq Jobs
  BY DEF Typed, TypeOK, Sensible
<1>3. /\ tree' \in [Jobs -> [1..Files -> Content \cup {None}]]
      /\ meta' \in [Jobs -> Meta \cup {None, Torn}]
      /\ plans' \in [Jobs -> SUBSET Plan] /\ cut' \in [Jobs -> SUBSET Plan]
      /\ yaml' \in (Jobs \X Specs) \cup {None} /\ cache' \in Plan \cup {None}
      /\ builds' \in 0..MaxBuilds /\ crashes' \in 0..MaxCrashes
      /\ registered' \in [Jobs -> Nat]
      /\ overlapped' \subseteq Jobs /\ disturbed' \subseteq Jobs
  <2>1. ASSUME NEW j \in Jobs, NEW x, Begin(w, j, x)
        PROVE  builds' \in 0..MaxBuilds /\ overlapped' \subseteq Jobs
    BY <1>2, <2>1 DEF Begin, BuildPipelineAssumption
  <2>2. ASSUME NEW j \in Jobs, NEW s \in Specs, NEW toYaml \in BOOLEAN, NEW force \in BOOLEAN,
               BuildFromSpec(w, j, s, toYaml, force)
        PROVE  /\ UNCHANGED <<tree, meta, plans, yaml, cache, crashes, cut, registered>>
               /\ builds' \in 0..MaxBuilds /\ overlapped' \subseteq Jobs
               /\ disturbed' \subseteq Jobs
    BY <1>2, <2>1, <2>2 DEF BuildFromSpec
  <2>3. CASE \E j \in Jobs, s \in Specs : BeginV2(w, j, s) \/ BeginIntent(w, j, s)
    <3>1. PICK j \in Jobs, s \in Specs : BeginV2(w, j, s) \/ BeginIntent(w, j, s)
      BY <2>3
    <3>2. PICK toYaml \in BOOLEAN, force \in BOOLEAN : BuildFromSpec(w, j, s, toYaml, force)
      BY <3>1, BeginBuilds
    <3> QED BY <1>2, <2>2, <3>2
  <2>4. CASE BeginV1(w)
    <3>1. yaml[1] \in Jobs
      BY <1>2, <2>4 DEF BeginV1
    <3> QED BY <1>2, <2>1, <2>4, <3>1 DEF BeginV1
  <2>5. CASE Generate(w)
    <3>1. <<worker[w].job, worker[w].spec>> \in Jobs \X Specs
      BY <1>2, <2>5 DEF Generate, At, Sensible
    <3> QED BY <1>2, <2>5, <3>1 DEF Generate
  <2>6. CASE Write(w)
    <3> DEFINE f == CHOOSE i \in worker[w].left : \A k \in worker[w].left : i <= k
               c == [job |-> worker[w].job, spec |-> worker[w].spec, by |-> worker[w].by]
    <3>1. tree' = [tree EXCEPT ![worker[w].job][f] = c]
      BY <2>6 DEF Write
    <3>2. UNCHANGED <<meta, plans, yaml, cache, builds, crashes, cut, registered, overlapped, disturbed>>
      BY <2>6 DEF Write
    <3>3. c \in Content
      BY <1>2, <2>6 DEF Write, At, Sensible, Worker, Content
    <3> HIDE DEF f, c
    <3>4. tree' \in [Jobs -> [1..Files -> Content \cup {None}]]
      BY <1>2, <3>1, <3>3
    <3> QED BY <1>2, <3>2, <3>4
  <2>7. CASE Lookup(w)
    <3>1. worker[w].job \in Jobs
      BY <1>2, <2>7 DEF Lookup, At, Sensible
    <3> QED BY <1>2, <2>7, <3>1 DEF Lookup
  <2>8. CASE Remember(w)
    <3>1. worker[w].plan \in Plan
      BY <1>2, <2>8 DEF Remember, At, Sensible
    <3> QED BY <1>2, <2>8, <3>1 DEF Remember
  <2>9. CASE Save(w)
    <3>1. worker[w].plan \in Plan /\ worker[w].job \in Jobs
      BY <1>2, <2>9 DEF Save, At, Sensible
    <3> QED BY <1>2, <2>9, <3>1 DEF Save, SavePlan, PlanHome
  <2>10. CASE Truncate(w)
    <3>1. meta' = [meta EXCEPT ![worker[w].job] = Torn]
      BY <2>10 DEF Truncate
    <3> QED BY <1>2, <2>10, <3>1 DEF Truncate
  <2>11. CASE Flush(w)
    <3>1. worker[w].copy \in Meta /\ worker[w].job \in Jobs
      BY <1>2, <2>11 DEF Flush, At, Sensible, Worker
    <3> QED BY <1>2, <2>11, <3>1 DEF Flush
  <2>12. CASE Open(w)
    <3>1. plans' = [plans EXCEPT ![worker[w].job] = @ \ {worker[w].plan}]
      BY <2>12 DEF Open, PlanHome
    <3> QED BY <1>2, <2>12, <3>1 DEF Open
  <2> QED BY <2>3, <2>4, <2>5, <2>6, <2>7, <2>8, <2>9, <2>10, <2>11, <2>12 DEF Step
<1> QED BY <1>1, <1>3 DEF Typed, TypeOK

\* So do a crash and the end of a cache entry.
LEMMA TypedNext ==
  ASSUME BuildPipelineAssumption, Typed, [Next]_vars
  PROVE  Typed'
<1>1. CASE Expire
  BY <1>1 DEF Expire, Typed, TypeOK
<1>2. CASE Crash
  <2>1. \A v \in Workers : ~At(v, "idle") => worker[v].job \in Jobs
    BY DEF Typed, Sensible, At
  <2>2. disturbed' \subseteq Jobs
    BY <1>2, <2>1 DEF Crash, Typed, TypeOK
  <2>3. worker' \in [Workers -> Sensible] /\ worker' \in [Workers -> Worker]
    BY <1>2, IdleSensible DEF Crash, Sensible
  <2>4. cut' \in [Jobs -> SUBSET Plan]
    <3>1. \A j \in Jobs : {worker[v].plan : v \in Saving(j)} \subseteq Plan
      BY DEF Saving, At, Typed, Sensible
    <3> QED BY <1>2, <3>1 DEF Crash, Typed, TypeOK
  <2> QED BY <1>2, <2>2, <2>3, <2>4 DEF Crash, Typed, TypeOK, BuildPipelineAssumption
<1>3. CASE UNCHANGED vars
  BY <1>3 DEF vars, Typed, TypeOK
<1> QED BY <1>1, <1>2, <1>3, TypedStep DEF Next

-----------------------------------------------------------------------------
(* The plans of what is registered. *)

\* The plan p was saved for j: its file is whole, being written again, or cut
\* short by a crash.
Kept(j, p) ==
  p \in plans[j] \cup cut[j] \/ \E w \in Saving(j) : worker[w].plan = p

\* A request about to write has saved the plans of all it will register.
CopySaved(w) ==
  worker[w].step \in {"truncate", "flush"} =>
    \A i \in DOMAIN worker[w].copy.builds :
      Kept(worker[w].job, worker[w].copy.builds[i])

CopiesSaved == \A w \in Workers : CopySaved(w)

\* So has everybody who registered one.
MetaSaved ==
  \A j \in Jobs : Readable(j) => \A i \in DOMAIN meta[j].builds : Kept(j, meta[j].builds[i])

Saved == MetaSaved /\ CopiesSaved

\* Nothing is registered at the start.
LEMMA SavedInit == Init => Saved
BY DEF Init, Saved, MetaSaved, CopiesSaved, CopySaved, Readable, Idle

\* A plan that was saved remains so, whatever happens.
LEMMA KeptNext ==
  ASSUME BuildPipelineAssumption, Typed, [Next]_vars, NEW j \in Jobs, NEW p, Kept(j, p)
  PROVE  Kept(j, p)'
<1>1. /\ worker \in [Workers -> Sensible] /\ plans \in [Jobs -> SUBSET Plan]
      /\ cut \in [Jobs -> SUBSET Plan]
  BY DEF Typed, TypeOK
<1>2. ASSUME NEW w \in Workers, Step(w) PROVE Kept(j, p)'
  <2>1. \A v \in Workers \ {w} : worker'[v] = worker[v]
    BY <1>1, <1>2, StepGoes DEF Goes
  <2>2. ASSUME UNCHANGED <<plans, cut>>, ~At(w, "save")
        PROVE  Kept(j, p)'
    BY <2>1, <2>2 DEF Kept, Saving, At
  <2>3. CASE Open(w)
    <3>1. /\ plans' = [plans EXCEPT ![worker[w].job] = @ \ {worker[w].plan}]
          /\ cut' = cut /\ ~At(w, "save") /\ worker[w].job \in Jobs
      BY <1>1, <2>3 DEF Open, PlanHome, At, Sensible
    <3>2. worker'[w].job = worker[w].job /\ worker'[w].step = "save"
          /\ worker'[w].plan = worker[w].plan
      BY <2>3, Effects DEF Same
    <3>3. CASE worker[w].job = j /\ worker[w].plan = p
      BY <3>2, <3>3 DEF Kept, Saving, At
    <3>4. CASE ~(worker[w].job = j /\ worker[w].plan = p)
      <4>1. p \in plans[j] => p \in plans'[j]
        BY <1>1, <3>1, <3>4
      <4> QED BY <2>1, <3>1, <4>1 DEF Kept, Saving, At
    <3> QED BY <3>3, <3>4
  <2>4. CASE Save(w)
    <3>1. /\ plans' = [plans EXCEPT ![worker[w].job] = @ \cup {worker[w].plan}]
          /\ cut' = [cut EXCEPT ![worker[w].job] = @ \ {worker[w].plan}]
          /\ At(w, "save") /\ worker[w].job \in Jobs
      BY <1>1, <2>4 DEF Save, SavePlan, PlanHome, At, Sensible
    <3>2. CASE worker[w].job = j /\ worker[w].plan = p
      BY <1>1, <3>1, <3>2 DEF Kept
    <3>3. CASE ~(worker[w].job = j /\ worker[w].plan = p)
      <4>1. (p \in plans[j] => p \in plans'[j]) /\ (p \in cut[j] => p \in cut'[j])
        BY <1>1, <3>1, <3>3
      <4>2. \A v \in Saving(j) : worker[v].plan = p => v \in Saving(j)' /\ worker'[v].plan = p
        BY <2>1, <3>3 DEF Saving, At
      <4> QED BY <4>1, <4>2 DEF Kept
    <3> QED BY <3>2, <3>3
  <2>5. ASSUME NEW i \in Jobs, NEW s \in Specs, NEW toYaml \in BOOLEAN, NEW force \in BOOLEAN,
               BuildFromSpec(w, i, s, toYaml, force)
        PROVE  Kept(j, p)'
    BY <2>2, <2>5 DEF BuildFromSpec, Begin, At
  <2>6. CASE \E i \in Jobs, s \in Specs : BeginV2(w, i, s) \/ BeginIntent(w, i, s)
    BY <2>5, <2>6, BeginBuilds
  <2>7. CASE BeginV1(w)
    BY <2>2, <2>7 DEF BeginV1, Begin, At
  <2>8. CASE Generate(w) \/ Lookup(w) \/ Remember(w) \/ Truncate(w) \/ Flush(w)
    BY <2>2, <2>8 DEF Generate, Lookup, Remember, Truncate, Flush, At
  <2>9. CASE Write(w)
    <3>1. UNCHANGED <<plans, cut>> /\ At(w, "write")
      BY <2>9 DEF Write
    <3> QED BY <2>2, <3>1 DEF At
  <2> QED BY <1>2, <2>3, <2>4, <2>6, <2>7, <2>8, <2>9 DEF Step
<1>3. CASE Crash
  <2>1. /\ plans' = plans
        /\ cut'[j] = cut[j] \cup ({worker[w].plan : w \in Saving(j)} \ plans[j])
    BY <1>3 DEF Crash
  <2> QED BY <2>1 DEF Kept
<1>4. CASE Expire \/ UNCHANGED vars
  BY <1>4 DEF Expire, vars, Kept, Saving, At
<1> QED BY <1>2, <1>3, <1>4 DEF Next

\* What register_build will write has its plans saved if what it read has.
LEMMA RegistrationSaved ==
  ASSUME TypeOK, MetaSaved, NEW j \in Jobs, meta[j] # Torn, NEW p \in Plan
  PROVE  \A i \in DOMAIN Registration(j, p).builds :
           Registration(j, p).builds[i] = p \/ Kept(j, Registration(j, p).builds[i])
<1> DEFINE b == IF meta[j] = None THEN << >> ELSE meta[j].builds
<1>1. b \in Seq(Plan) /\ \A i \in DOMAIN b : Kept(j, b[i])
  <2>1. CASE meta[j] = None
    BY <2>1
  <2>2. CASE meta[j] # None
    <3>1. meta[j] \in Meta /\ Readable(j)
      BY <2>2 DEF TypeOK, Readable
    <3> QED BY <2>2, <3>1 DEF MetaSaved, Meta
  <2> QED BY <2>1, <2>2
<1>2. Registration(j, p).builds = Append(b, p)
  BY DEF Registration
<1> HIDE DEF b
<1> QED BY <1>1, <1>2

\* A step that writes no metadata, and makes no copy to be written.
LEMMA SavedSame ==
  ASSUME BuildPipelineAssumption, Typed, Saved, [Next]_vars, UNCHANGED meta,
         \A v \in Workers : worker'[v].step \in {"truncate", "flush"} =>
           /\ worker[v].step \in {"truncate", "flush"}
           /\ worker'[v].copy = worker[v].copy /\ worker'[v].job = worker[v].job
  PROVE  Saved'
<1>1. MetaSaved'
  BY KeptNext DEF Saved, MetaSaved, Readable
<1>2. \A v \in Workers : worker[v].step \in {"truncate", "flush"} => worker[v].job \in Jobs
  BY DEF Typed, Sensible
<1>3. CopiesSaved'
  BY <1>2, KeptNext DEF Saved, CopiesSaved, CopySaved
<1> QED BY <1>1, <1>3 DEF Saved

\* Every step keeps the plans saved.
LEMMA SavedStep ==
  ASSUME BuildPipelineAssumption, Typed, Saved, NEW w \in Workers, Step(w)
  PROVE  Saved'
<1>1. /\ worker[w] \in Sensible /\ worker \in [Workers -> Sensible]
      /\ Goes(w, worker'[w]) /\ TypeOK /\ meta \in [Jobs -> Meta \cup {None, Torn}]
  BY StepGoes DEF Typed, TypeOK
<1>2. Next
  BY DEF Next
<1>3. \A v \in Workers \ {w} : worker'[v] = worker[v]
  BY <1>1 DEF Goes
<1>4. ASSUME NEW j \in Jobs, NEW p, Kept(j, p) PROVE Kept(j, p)'
  BY <1>2, <1>4, KeptNext
<1>5. ASSUME UNCHANGED meta, worker'[w].step \notin {"truncate", "flush"}
      PROVE  Saved'
  BY <1>2, <1>3, <1>5, SavedSame
\* What a copy of another thread has saved stays so.
<1>6. ASSUME NEW v \in Workers \ {w} PROVE CopySaved(v)'
  <2>1. worker'[v] = worker[v] /\ CopySaved(v)
        /\ (worker[v].step \in {"truncate", "flush"} => worker[v].job \in Jobs)
    BY <1>1, <1>3 DEF Sensible, Saved, CopiesSaved
  <2> QED BY <1>4, <2>1 DEF CopySaved
<1>7. CASE Save(w)
  <2>0. PICK j, p : j = worker[w].job /\ p = worker[w].plan
    OBVIOUS
  <2>1. /\ j \in Jobs /\ p \in Plan /\ meta' = meta
        /\ plans' = [plans EXCEPT ![j] = @ \cup {p}]
    BY <1>1, <1>7, <2>0 DEF Save, At, Sensible, SavePlan, PlanHome
  <2>2. MetaSaved'
    BY <1>4, <2>1 DEF Saved, MetaSaved, Readable
  <2>3. Kept(j, p)'
    BY <1>1, <2>1 DEF Kept, TypeOK
  <2>4. CASE meta[j] = Torn
    BY <1>5, <1>7, <2>0, <2>1, <2>4, Effects, IdleIs
  <2>5. CASE meta[j] # Torn
    <3>1. worker'[w].copy = Registration(j, p) /\ worker'[w].job = j
      BY <1>7, <2>0, <2>5, Effects DEF Same
    <3>0. PICK r : r = Registration(j, p).builds
      OBVIOUS
    <3>2. \A i \in DOMAIN r : r[i] = p \/ Kept(j, r[i])
      BY <1>1, <2>1, <2>5, <3>0, RegistrationSaved DEF Saved
    <3>3. ASSUME NEW i \in DOMAIN r PROVE Kept(j, r[i])'
      <4>1. CASE r[i] = p
        BY <2>1, <2>3, <4>1 DEF Kept
      <4>2. CASE Kept(j, r[i])
        BY <1>4, <2>1, <4>2
      <4> QED BY <3>2, <4>1, <4>2
    <3>4. CopySaved(w)'
      BY <3>0, <3>1, <3>3 DEF CopySaved
    <3>5. CopiesSaved'
      BY <1>6, <3>4 DEF CopiesSaved
    <3> QED BY <2>2, <3>5 DEF Saved
  <2> QED BY <2>4, <2>5
<1>8. CASE Truncate(w)
  <2>1. /\ meta' = [meta EXCEPT ![worker[w].job] = Torn]
        /\ worker'[w].copy = worker[w].copy /\ worker'[w].job = worker[w].job
        /\ worker[w].step = "truncate" /\ worker[w].job \in Jobs
    BY <1>1, <1>8, Effects DEF Truncate, At, Sensible, Same
  <2>2. MetaSaved'
    BY <1>1, <1>4, <2>1 DEF Saved, MetaSaved, Readable
  <2>3. CopySaved(w)'
    BY <1>4, <2>1 DEF Saved, CopiesSaved, CopySaved
  <2> QED BY <1>6, <2>2, <2>3 DEF Saved, CopiesSaved
<1>9. CASE Flush(w)
  <2>1. /\ meta' = [meta EXCEPT ![worker[w].job] = worker[w].copy]
        /\ worker[w].step = "flush" /\ worker[w].job \in Jobs
        /\ worker'[w].step = "idle"
    BY <1>1, <1>9, Effects, IdleIs DEF Flush, At, Sensible
  <2>2. MetaSaved'
    BY <1>1, <1>4, <2>1 DEF Saved, MetaSaved, CopiesSaved, CopySaved, Readable
  <2>3. CopySaved(w)'
    BY <2>1 DEF CopySaved
  <2> QED BY <1>6, <2>2, <2>3 DEF Saved, CopiesSaved
<1>10. ASSUME NEW j \in Jobs, NEW s \in Specs, NEW toYaml \in BOOLEAN, NEW force \in BOOLEAN,
              BuildFromSpec(w, j, s, toYaml, force)
       PROVE  Saved'
  BY <1>1, <1>5, <1>10 DEF BuildFromSpec, Begin, BuildPath, SkipPath, Idle
<1>11. CASE BeginV1(w)
  BY <1>1, <1>5, <1>11 DEF BeginV1, Begin, Idle
<1>12. CASE Generate(w)
  <2>1. UNCHANGED meta
    BY <1>12 DEF Generate
  <2>2. worker'[w].step \in {"write", "idle"}
    BY <1>12, Effects, IdleIs
  <2> QED BY <1>5, <2>1, <2>2
<1>13. CASE Write(w)
  <2>1. UNCHANGED meta
    BY <1>13 DEF Write
  <2>2. worker'[w].step \in {"write", "idle", "lookup"}
    BY <1>13, WriteDoes, IdleIs
  <2> QED BY <1>5, <2>1, <2>2
<1>14. CASE Lookup(w)
  BY <1>5, <1>14, Effects DEF Lookup
<1>15. CASE Remember(w)
  BY <1>5, <1>15, Effects DEF Remember
<1>16. CASE Open(w)
  BY <1>5, <1>16, Effects DEF Open
<1> QED BY <1>7, <1>8, <1>9, <1>10, <1>11, <1>12, <1>13, <1>14, <1>15, <1>16, BeginBuilds DEF Step

\* So do a crash and the end of a cache entry.
LEMMA SavedNext ==
  ASSUME BuildPipelineAssumption, Typed, Saved, [Next]_vars
  PROVE  Saved'
<1>1. CASE Expire
  BY <1>1, SavedSame DEF Expire
<1>2. CASE Crash
  BY <1>2, SavedSame, IdleIs DEF Crash
<1>3. CASE UNCHANGED vars
  BY <1>3, SavedSame DEF vars
<1> QED BY <1>1, <1>2, <1>3, SavedStep DEF Next

-----------------------------------------------------------------------------
(* The number of what is registered. *)

\* Of a job that no two requests have been at work on at once: there is one at
\* most, nothing is lost, and what it will write is one longer than what it read.
Counted(j) ==
  /\ \A v, w \in Workers : worker[v].job = j /\ worker[w].job = j => v = w
  /\ meta[j] = None => registered[j] = 0
  /\ Readable(j) => Len(meta[j].builds) = registered[j]
  /\ \A w \in Workers : worker[w].job = j /\ worker[w].step \in {"truncate", "flush"} =>
       Len(worker[w].copy.builds) = registered[j] + 1

AllCounted == \A j \in Jobs \ overlapped : Counted(j)

\* Nothing is registered at the start.
LEMMA CountedInit ==
  ASSUME BuildPipelineAssumption, Init
  PROVE  AllCounted
BY DEF Init, AllCounted, Counted, Readable, Idle, BuildPipelineAssumption

\* What register_build will write is one longer than what it read.
LEMMA RegistrationCounted ==
  ASSUME Typed, NEW j \in Jobs, Counted(j), meta[j] # Torn, NEW p \in Plan
  PROVE  Len(Registration(j, p).builds) = registered[j] + 1
<1> DEFINE b == IF meta[j] = None THEN << >> ELSE meta[j].builds
<1>1. b \in Seq(Plan) /\ Len(b) = registered[j]
  BY DEF Typed, TypeOK, Meta, Counted, Readable
<1>2. Registration(j, p).builds = Append(b, p)
  BY DEF Registration
<1> HIDE DEF b
<1> QED BY <1>1, <1>2

\* A step that leaves the job's metadata alone, and every request that is not at
\* its end where it was.
LEMMA CountedSame ==
  ASSUME NEW j, Counted(j), meta'[j] = meta[j], registered'[j] = registered[j],
         \A v \in Workers :
           \/ worker'[v].job # j
           \/ /\ worker'[v].job = worker[v].job
              /\ worker'[v].step \in {"truncate", "flush"} =>
                   /\ worker[v].step \in {"truncate", "flush"}
                   /\ worker'[v].copy = worker[v].copy
  PROVE  Counted(j)'
BY DEF Counted, Readable

\* A new request on the job, which nobody is at work on.
LEMMA CountedBegin ==
  ASSUME Typed, NEW w \in Workers, NEW i \in Jobs, NEW x \in Worker, Begin(w, i, x),
         x.job = i, x.step \notin {"truncate", "flush"},
         UNCHANGED <<meta, registered>>, AllCounted
  PROVE  AllCounted'
<1>1. worker' = [worker EXCEPT ![w] = x] /\ worker \in [Workers -> Sensible]
  BY DEF Begin, Typed
<1>2. SUFFICES ASSUME NEW j \in Jobs, j \notin overlapped', j \notin overlapped, Counted(j)
               PROVE  Counted(j)'
  BY DEF AllCounted, Begin
<1>3. CASE j # i
  BY <1>1, <1>2, <1>3, CountedSame
<1>4. CASE j = i
  <2>1. \A v \in Workers \ {w} : worker[v].job # j
    BY <1>2, <1>4 DEF Begin, Crowded
  <2> QED BY <1>1, <1>2, <1>4, <2>1 DEF Counted, Readable
<1> QED BY <1>3, <1>4

\* Every step of a request keeps the count.
LEMMA CountedStep ==
  ASSUME BuildPipelineAssumption, Typed, AllCounted, NEW w \in Workers, Step(w)
  PROVE  AllCounted'
<1>1. /\ worker[w] \in Sensible /\ worker \in [Workers -> Sensible]
      /\ Goes(w, worker'[w]) /\ TypeOK
      /\ meta \in [Jobs -> Meta \cup {None, Torn}] /\ registered \in [Jobs -> Nat]
  BY StepGoes DEF Typed, TypeOK
<1>2. \A v \in Workers \ {w} : worker'[v] = worker[v]
  BY <1>1 DEF Goes
<1>3. None \notin Jobs
  BY DEF BuildPipelineAssumption
<1>4. ASSUME UNCHANGED <<meta, registered, overlapped>>,
             \/ worker'[w] = Idle
             \/ /\ Same(w)
                /\ worker'[w].step \in {"truncate", "flush"} =>
                     /\ worker[w].step \in {"truncate", "flush"}
                     /\ worker'[w].copy = worker[w].copy
      PROVE  AllCounted'
  <2> SUFFICES ASSUME NEW j \in Jobs \ overlapped PROVE Counted(j)'
    BY <1>4 DEF AllCounted
  <2>1. Counted(j) /\ meta'[j] = meta[j] /\ registered'[j] = registered[j]
    BY <1>4 DEF AllCounted
  <2> QED BY <1>2, <1>3, <1>4, <2>1, CountedSame, IdleIs DEF Same
<1>5. ASSUME NEW j \in Jobs, NEW s \in Specs, NEW toYaml \in BOOLEAN, NEW force \in BOOLEAN,
             BuildFromSpec(w, j, s, toYaml, force)
      PROVE  AllCounted'
  <2>1. PICK x : x \in {BuildPath(j, s, toYaml, force), SkipPath(j, s, force)} /\ Begin(w, j, x)
    BY <1>5 DEF BuildFromSpec
  <2>2. x.job = j /\ x.step \notin {"truncate", "flush"}
    BY <2>1 DEF BuildPath, SkipPath, Idle
  <2>3. x \in Worker
    <3>1. PlanOf(j, s, FALSE) \in Plan /\ PlanOf(j, s, TRUE) \in Plan
      BY DEF PlanOf, Plan
    <3>2. Idle \in Worker
      BY IdleSensible DEF Sensible
    <3>3. BuildPath(j, s, toYaml, force) \in Worker
      BY <3>1, <3>2 DEF BuildPath, Idle, Worker
    <3>4. SkipPath(j, s, force) \in Worker
      BY <3>1, <3>2 DEF SkipPath, Idle, Worker
    <3> QED BY <2>1, <3>3, <3>4
  <2>4. UNCHANGED <<meta, registered>>
    BY <1>5 DEF BuildFromSpec
  <2> QED BY <2>1, <2>2, <2>3, <2>4, CountedBegin
<1>6. CASE BeginV1(w)
  <2> DEFINE x == [Idle EXCEPT !.step = "write", !.job = yaml[1], !.spec = yaml[2],
                               !.by = "v1", !.left = 1..Files]
  <2>1. Begin(w, yaml[1], x) /\ UNCHANGED <<meta, registered>> /\ yaml[1] \in Jobs
        /\ yaml[2] \in Specs
    BY <1>1, <1>6 DEF BeginV1, TypeOK
  <2>2. x.job = yaml[1] /\ x.step = "write"
    BY DEF Idle
  <2>3. x \in Worker
    BY <2>1, IdleSensible DEF Sensible, Worker, Idle
  <2> HIDE DEF x
  <2> QED BY <2>1, <2>2, <2>3, CountedBegin
<1>7. CASE Generate(w)
  <2>1. UNCHANGED <<meta, registered, overlapped>>
    BY <1>7 DEF Generate
  <2> QED BY <1>4, <1>7, <2>1, Effects
<1>8. CASE Write(w)
  <2>1. UNCHANGED <<meta, registered, overlapped>>
    BY <1>8 DEF Write
  <2>2. worker'[w] = Idle \/ (Same(w) /\ worker'[w].step \in {"write", "lookup"})
    BY <1>8, WriteDoes
  <2> QED BY <1>4, <2>1, <2>2
<1>9. CASE Lookup(w)
  <2>1. UNCHANGED <<meta, registered, overlapped>>
    BY <1>9 DEF Lookup
  <2> QED BY <1>4, <1>9, <2>1, Effects
<1>10. CASE Remember(w)
  <2>1. UNCHANGED <<meta, registered, overlapped>>
    BY <1>10 DEF Remember
  <2> QED BY <1>4, <1>10, <2>1, Effects
<1>11. CASE Save(w)
  <2>1. UNCHANGED <<meta, registered, overlapped>> /\ worker[w].job \in Jobs /\ worker[w].plan \in Plan
    BY <1>1, <1>11 DEF Save, At, Sensible
  <2>2. CASE meta[worker[w].job] = Torn
    BY <1>4, <1>11, <2>1, <2>2, Effects
  <2>3. CASE meta[worker[w].job] # Torn
    <3>1. Same(w) /\ worker'[w].copy = Registration(worker[w].job, worker[w].plan)
      BY <1>11, <2>3, Effects
    <3>2. SUFFICES ASSUME NEW j \in Jobs \ overlapped, Counted(j) PROVE Counted(j)'
      BY <2>1 DEF AllCounted
    <3>3. CASE worker[w].job # j
      BY <1>2, <2>1, <3>1, <3>2, <3>3, CountedSame DEF Same
    <3>4. CASE worker[w].job = j
      <4>1. Len(worker'[w].copy.builds) = registered[j] + 1
        BY <2>1, <2>3, <3>1, <3>2, <3>4, RegistrationCounted
      <4> QED BY <1>2, <2>1, <3>1, <3>2, <3>4, <4>1 DEF Counted, Readable, Same
    <3> QED BY <3>3, <3>4
  <2> QED BY <2>2, <2>3
<1>12. CASE Truncate(w)
  <2>1. /\ Same(w) /\ worker'[w].copy = worker[w].copy /\ worker[w].step = "truncate"
        /\ worker[w].job \in Jobs
    BY <1>1, <1>12, Effects DEF Truncate, At, Sensible
  <2>2. meta' = [meta EXCEPT ![worker[w].job] = Torn] /\ UNCHANGED <<registered, overlapped>>
    BY <1>12 DEF Truncate
  <2>3. SUFFICES ASSUME NEW j \in Jobs \ overlapped, Counted(j) PROVE Counted(j)'
    BY <2>2 DEF AllCounted
  <2>4. CASE worker[w].job # j
    BY <1>1, <1>2, <2>1, <2>2, <2>3, <2>4, CountedSame DEF Same
  <2>5. CASE worker[w].job = j
    <3>1. meta'[j] = Torn /\ Torn # None /\ registered' = registered
      BY <1>1, <2>2, <2>5 DEF BuildPipelineAssumption
    <3> QED BY <1>2, <2>1, <2>3, <2>5, <3>1 DEF Counted, Readable, Same
  <2> QED BY <2>4, <2>5
<1>13. CASE Flush(w)
  <2>1. worker'[w] = Idle /\ worker[w].step = "flush" /\ worker[w].job \in Jobs
    BY <1>1, <1>13, Effects DEF Flush, At, Sensible
  <2>2. /\ meta' = [meta EXCEPT ![worker[w].job] = worker[w].copy] /\ UNCHANGED overlapped
        /\ registered' = [registered EXCEPT ![worker[w].job] = @ + 1]
    BY <1>13 DEF Flush
  <2>3. SUFFICES ASSUME NEW j \in Jobs \ overlapped, Counted(j) PROVE Counted(j)'
    BY <2>2 DEF AllCounted
  <2>4. CASE worker[w].job # j
    BY <1>1, <1>2, <1>3, <2>1, <2>2, <2>3, <2>4, CountedSame, IdleIs
  <2>5. CASE worker[w].job = j
    <3>1. worker'[w].job # j
      BY <1>3, <2>1, <2>3, IdleIs
    <3>2. \A v \in Workers : worker'[v].job # j
      BY <1>2, <2>3, <2>5, <3>1 DEF Counted
    <3>3. meta'[j] = worker[w].copy /\ registered'[j] = registered[j] + 1
          /\ registered[j] \in Nat /\ worker[w].copy \in Meta
      BY <1>1, <2>2, <2>5 DEF Sensible, Worker
    <3>4. Len(worker[w].copy.builds) = registered[j] + 1
      BY <2>1, <2>3, <2>5 DEF Counted
    <3>5. meta'[j] # None
      BY <3>3 DEF BuildPipelineAssumption
    <3> QED BY <3>2, <3>3, <3>4, <3>5 DEF Counted, Readable
  <2> QED BY <2>4, <2>5
<1>14. CASE Open(w)
  <2>1. UNCHANGED <<meta, registered, overlapped>>
    BY <1>14 DEF Open
  <2> QED BY <1>4, <1>14, <2>1, Effects
<1> QED BY <1>5, <1>6, <1>7, <1>8, <1>9, <1>10, <1>11, <1>12, <1>13, <1>14, BeginBuilds DEF Step

\* So do a crash and the end of a cache entry.
LEMMA CountedNext ==
  ASSUME BuildPipelineAssumption, Typed, AllCounted, [Next]_vars
  PROVE  AllCounted'
<1>1. CASE Expire
  BY <1>1 DEF Expire, AllCounted, Counted, Readable
<1>2. CASE Crash
  <2>1. \A w \in Workers : worker'[w].job = None
    BY <1>2, IdleIs DEF Crash
  <2>2. UNCHANGED <<meta, registered, overlapped>> /\ None \notin Jobs
    BY <1>2 DEF Crash, BuildPipelineAssumption
  <2> QED BY <2>1, <2>2 DEF AllCounted, Counted, Readable
<1>3. CASE UNCHANGED vars
  BY <1>3 DEF vars, AllCounted, Counted, Readable
<1> QED BY <1>1, <1>2, <1>3, CountedStep DEF Next

-----------------------------------------------------------------------------
(* The workspace of what is registered. *)

\* The workspace of j was generated from c, a job and a specification.
Fits(j, c) ==
  \A f \in 1..Files : tree[j][f] # None /\ tree[j][f].by = "v2"
                   /\ <<tree[j][f].job, tree[j][f].spec>> = c

\* How far a v2 build x of the job j has come that nothing disturbs.
Progress(j, x) ==
  /\ x.by = "v2"
  /\ x.step = "generate" /\ Readable(j) => Fits(j, meta[j].spec)
  /\ x.step = "write" => \A f \in (1..Files) \ x.left :
       tree[j][f] = [job |-> j, spec |-> x.spec, by |-> "v2"]
  /\ x.step \in {"generate", "write", "lookup", "remember", "open", "save"} =>
       x.plan.job = j /\ x.plan.spec = x.spec
  /\ x.step \in {"lookup", "remember", "open", "save", "truncate", "flush"} => Fits(j, <<j, x.spec>>)
  /\ x.step \in {"truncate", "flush"} => x.copy.spec = <<j, x.spec>>

Described(j) ==
  /\ \A v, w \in Workers : worker[v].job = j /\ worker[w].job = j => v = w
  /\ \A w \in Workers : worker[w].job = j => Progress(j, worker[w])
  /\ Quiet(j) /\ Readable(j) => Fits(j, meta[j].spec)

AllDescribed == \A j \in Jobs \ disturbed : Described(j)

\* Nothing is registered at the start.
LEMMA DescribedInit ==
  ASSUME BuildPipelineAssumption, Init
  PROVE  AllDescribed
BY DEF Init, AllDescribed, Described, Readable, Idle, BuildPipelineAssumption

\* A request on another job.
LEMMA DescribedOther ==
  ASSUME NEW j, Described(j), NEW w \in Workers, worker[w].job # j, worker'[w].job # j,
         \A v \in Workers \ {w} : worker'[v] = worker[v],
         tree'[j] = tree[j], meta'[j] = meta[j]
  PROVE  Described(j)'
<1>1. \A v \in Workers : worker'[v].job = j => worker'[v] = worker[v]
  OBVIOUS
<1>2. Quiet(j)' => Quiet(j)
  BY DEF Quiet
<1>3. \A x : Progress(j, x) => Progress(j, x)'
  BY DEF Progress, Fits, Readable
<1>4. (\A v, u \in Workers : worker[v].job = j /\ worker[u].job = j => v = u)'
  BY <1>1 DEF Described
<1>5. (\A v \in Workers : worker[v].job = j => Progress(j, worker[v]))'
  BY <1>1, <1>3 DEF Described
<1>6. (Quiet(j) /\ Readable(j) => Fits(j, meta[j].spec))'
  BY <1>2 DEF Described, Readable, Fits
<1> QED BY <1>4, <1>5, <1>6 DEF Described

\* The request on the job goes on.
LEMMA DescribedMine ==
  ASSUME NEW j, NEW w \in Workers, \A v \in Workers \ {w} : worker[v].job # j,
         \A v \in Workers \ {w} : worker'[v] = worker[v],
         worker'[w].job = j, Progress(j, worker[w])'
  PROVE  Described(j)'
BY DEF Described, Quiet

\* The request on the job ends.
LEMMA DescribedEnds ==
  ASSUME NEW j, NEW w \in Workers, \A v \in Workers \ {w} : worker[v].job # j,
         \A v \in Workers \ {w} : worker'[v] = worker[v],
         worker'[w].job # j, Readable(j)' => Fits(j, meta[j].spec)'
  PROVE  Described(j)'
BY DEF Described, Quiet

\* A request for a v2 build, unless it crowds the job.
LEMMA DescribedBegin ==
  ASSUME BuildPipelineAssumption, Typed, AllDescribed, NEW w \in Workers, NEW i \in Jobs,
         NEW s \in Specs, NEW toYaml \in BOOLEAN, NEW force \in BOOLEAN,
         BuildFromSpec(w, i, s, toYaml, force)
  PROVE  AllDescribed'
<1> DEFINE x == IF ShouldRebuild(i, s) THEN BuildPath(i, s, toYaml, force)
                                       ELSE SkipPath(i, s, force)
<1>1. /\ worker' = [worker EXCEPT ![w] = x] /\ UNCHANGED <<tree, meta>>
      /\ disturbed' = IF Crowded(w, i) THEN disturbed \cup {i} ELSE disturbed
      /\ worker[w].step = "idle" /\ meta[i] # Torn
  BY DEF BuildFromSpec, Begin, At
<1>2. x.job = i /\ x.spec = s /\ x.by = "v2"
  BY DEF BuildPath, SkipPath, Idle
<1>3. x.plan.job = i /\ x.plan.spec = s
  BY DEF BuildPath, SkipPath, Idle, PlanOf
<1>4. /\ ShouldRebuild(i, s) => x.step = "generate"
      /\ ~ShouldRebuild(i, s) => x.step = "lookup"
  BY DEF BuildPath, SkipPath, Idle
<1> HIDE DEF x
<1>5. worker \in [Workers -> Sensible] /\ worker[w].job = None /\ None \notin Jobs
  BY <1>1 DEF Typed, Sensible, BuildPipelineAssumption
<1>6. worker'[w] = x /\ \A v \in Workers \ {w} : worker'[v] = worker[v]
  BY <1>1, <1>5
<1>7. SUFFICES ASSUME NEW j \in Jobs, j \notin disturbed', Described(j)
               PROVE  Described(j)'
  BY <1>1 DEF AllDescribed
<1>8. CASE j # i
  BY <1>1, <1>2, <1>5, <1>6, <1>7, <1>8, DescribedOther
<1>9. CASE j = i
  <2>1. \A v \in Workers \ {w} : worker[v].job # j
    BY <1>1, <1>7, <1>9 DEF Crowded
  <2>2. Quiet(j)
    BY <1>5, <2>1 DEF Quiet
  <2>3. Readable(j) => Fits(j, meta[j].spec)
    BY <1>7, <2>2 DEF Described
  <2>4. ~ShouldRebuild(i, s) => Fits(j, <<j, s>>)
    BY <1>1, <1>9, <2>3 DEF ShouldRebuild, Readable
  <2>5. Progress(j, x)
    BY <1>2, <1>3, <1>4, <1>9, <2>3, <2>4 DEF Progress
  <2>6. Progress(j, worker[w])'
    BY <1>1, <1>6, <2>5 DEF Progress, Fits, Readable
  <2> QED BY <1>2, <1>6, <1>9, <2>1, <2>6, DescribedMine
<1> QED BY <1>8, <1>9

\* Every step of a request keeps what is known of the jobs it does not disturb.
LEMMA DescribedStep ==
  ASSUME BuildPipelineAssumption, Typed, AllDescribed, NEW w \in Workers, Step(w)
  PROVE  AllDescribed'
<1> DEFINE i == worker[w].job
<1>1. /\ worker[w] \in Sensible /\ worker \in [Workers -> Sensible] /\ Goes(w, worker'[w])
      /\ meta \in [Jobs -> Meta \cup {None, Torn}]
      /\ tree \in [Jobs -> [1..Files -> Content \cup {None}]]
      /\ None \notin Jobs
  BY StepGoes DEF Typed, TypeOK, BuildPipelineAssumption
<1>2. \A v \in Workers \ {w} : worker'[v] = worker[v]
  BY <1>1 DEF Goes
<1>3. CASE \E j \in Jobs, s \in Specs : BeginV2(w, j, s) \/ BeginIntent(w, j, s)
  <2>1. PICK j \in Jobs, s \in Specs : BeginV2(w, j, s) \/ BeginIntent(w, j, s)
    BY <1>3
  <2>2. PICK toYaml \in BOOLEAN, force \in BOOLEAN : BuildFromSpec(w, j, s, toYaml, force)
    BY <2>1, BeginBuilds
  <2> QED BY <2>2, DescribedBegin
<1>4. CASE BeginV1(w)
  <2>1. /\ worker[w].job = None /\ worker'[w].job = yaml[1] /\ UNCHANGED <<tree, meta>>
        /\ disturbed' = disturbed \cup {yaml[1]}
    BY <1>1, <1>4 DEF BeginV1, Begin, At, Sensible, Idle
  <2>2. SUFFICES ASSUME NEW j \in Jobs, j \notin disturbed', Described(j)
                 PROVE  Described(j)'
    BY <2>1 DEF AllDescribed
  <2> QED BY <1>1, <1>2, <2>1, <2>2, DescribedOther
\* From here on the request has a job, i; only that of i is of interest.
<1>5. ASSUME NEW j \in Jobs, Described(j), worker[w].step # "idle",
             worker'[w] = Idle \/ Same(w), i # j,
             tree'[j] = tree[j], meta'[j] = meta[j]
      PROVE  Described(j)'
  BY <1>1, <1>2, <1>5, IdleIs, DescribedOther DEF Same
<1>6. ASSUME NEW j \in Jobs, Described(j), i = j
      PROVE  /\ \A v \in Workers \ {w} : worker[v].job # j
             /\ Progress(j, worker[w])
  BY <1>6 DEF Described
<1>7. ASSUME NEW j \in Jobs, Described(j), i = j, worker'[w] = Idle,
             Readable(j)' => Fits(j, meta[j].spec)'
      PROVE  Described(j)'
  BY <1>1, <1>2, <1>6, <1>7, IdleIs, DescribedEnds
<1>8. ASSUME NEW j \in Jobs, Described(j), i = j, Same(w), Progress(j, worker[w])'
      PROVE  Described(j)'
  BY <1>2, <1>6, <1>8, DescribedMine DEF Same
<1>9. CASE Generate(w)
  <2>1. UNCHANGED <<tree, meta, disturbed>> /\ worker[w].step = "generate"
    BY <1>9 DEF Generate, At
  <2>2. SUFFICES ASSUME NEW j \in Jobs, Described(j) PROVE Described(j)'
    BY <2>1 DEF AllDescribed
  <2>3. CASE i # j
    BY <1>5, <1>9, <2>1, <2>2, <2>3, Effects
  <2>4. CASE i = j
    <3>1. Progress(j, worker[w])
      BY <1>6, <2>2, <2>4
    <3>2. CASE worker'[w] = Idle
      <4>1. (Readable(j) => Fits(j, meta[j].spec))'
        BY <2>1, <3>1 DEF Progress, Readable, Fits
      <4> QED BY <1>7, <2>2, <2>4, <3>2, <4>1
    <3>3. CASE worker'[w] # Idle
      <4>1. /\ worker'[w].step = "write" /\ Same(w) /\ worker'[w].left = 1..Files
            /\ worker'[w].plan = worker[w].plan
        BY <1>9, <3>3, Effects
      <4>2. Progress(j, worker[w])'
        BY <2>1, <3>1, <4>1 DEF Progress, Same
      <4> QED BY <1>8, <2>2, <2>4, <4>1, <4>2
    <3> QED BY <3>2, <3>3
  <2> QED BY <2>3, <2>4
<1>10. CASE Write(w)
  <2>1. UNCHANGED <<meta, disturbed>> /\ worker[w].step = "write" /\ i \in Jobs
    BY <1>1, <1>10 DEF Write, At, Sensible
  <2>2. SUFFICES ASSUME NEW j \in Jobs, Described(j) PROVE Described(j)'
    BY <2>1 DEF AllDescribed
  <2> DEFINE c == [job |-> i, spec |-> worker[w].spec, by |-> worker[w].by]
  <2>3. PICK f :
          /\ tree' = [tree EXCEPT ![i][f] = c]
          /\ \/ worker'[w] = Idle /\ worker[w].by = "v1"
             \/ /\ Same(w) /\ worker'[w].step = "write"
                /\ worker'[w].left = worker[w].left \ {f} /\ worker'[w].plan = worker[w].plan
             \/ /\ Same(w) /\ worker'[w].step = "lookup" /\ worker[w].by = "v2"
                /\ worker[w].left \ {f} = {} /\ worker'[w].plan = worker[w].plan
    BY <1>10, WriteDoes
  <2>4. c.job = i /\ c.spec = worker[w].spec /\ c.by = worker[w].by /\ c # None
    BY <1>1, <2>1 DEF Sensible, Worker, Content, BuildPipelineAssumption
  <2>5. CASE i # j
    <3>1. tree'[j] = tree[j]
      BY <1>1, <2>1, <2>3, <2>5
    <3> QED BY <1>5, <2>1, <2>2, <2>3, <2>5, <3>1
  <2>6. CASE i = j
    <3>1. /\ worker[w].by = "v2" /\ worker[w].plan.job = j /\ worker[w].plan.spec = worker[w].spec
          /\ \A g \in (1..Files) \ worker[w].left : tree[j][g] = c
      <4>1. Progress(j, worker[w])
        BY <1>6, <2>2, <2>6
      <4>2. /\ worker[w].by = "v2" /\ worker[w].plan.job = j
            /\ worker[w].plan.spec = worker[w].spec
            /\ \A g \in (1..Files) \ worker[w].left :
                 tree[j][g] = [job |-> j, spec |-> worker[w].spec, by |-> "v2"]
        BY <2>1, <4>1 DEF Progress
      <4> QED BY <2>6, <4>2
    <3> HIDE DEF c
    <3>2. \A g \in (1..Files) \ (worker[w].left \ {f}) : tree'[j][g] = c
      BY <1>1, <2>1, <2>3, <2>6, <3>1
    <3>3. CASE worker'[w].step = "write" /\ Same(w)
      <4>1. worker'[w].left = worker[w].left \ {f} /\ worker'[w].plan = worker[w].plan
        BY <2>3, <3>3, IdleIs
      <4>2. Progress(j, worker[w])'
        BY <2>6, <3>1, <3>2, <3>3, <4>1 DEF Progress, Same, c
      <4> QED BY <1>8, <2>2, <2>6, <3>3, <4>2
    <3>4. CASE worker'[w].step = "lookup" /\ Same(w)
      <4>1. worker[w].left \ {f} = {} /\ worker'[w].plan = worker[w].plan
        BY <2>3, <3>4, IdleIs
      <4>2. \A g \in 1..Files : tree'[j][g] = c
        BY <3>2, <4>1
      <4>3. Fits(j, <<j, worker[w].spec>>)'
        BY <2>4, <2>6, <3>1, <3>4, <4>2 DEF Fits, Same
      <4>4. Progress(j, worker[w])'
        BY <3>1, <3>4, <4>1, <4>3 DEF Progress, Same, Fits
      <4> QED BY <1>8, <2>2, <2>6, <3>4, <4>4
    <3> QED BY <2>3, <3>1, <3>3, <3>4
  <2> QED BY <2>5, <2>6
<1>11. CASE Lookup(w)
  <2>1. UNCHANGED <<tree, meta>> /\ worker[w].step = "lookup" /\ disturbed \subseteq disturbed'
    BY <1>11 DEF Lookup, At
  <2>2. SUFFICES ASSUME NEW j \in Jobs, j \notin disturbed', Described(j) PROVE Described(j)'
    BY <2>1 DEF AllDescribed
  <2>3. CASE i # j
    BY <1>5, <1>11, <2>1, <2>2, <2>3, Effects
  <2>4. CASE i = j
    <3>1. /\ worker[w].by = "v2" /\ Fits(j, <<j, worker[w].spec>>)
          /\ worker[w].plan.job = j /\ worker[w].plan.spec = worker[w].spec
      BY <1>6, <2>1, <2>2, <2>4 DEF Progress
    <3>2. Hit(w) => cache.job = j /\ cache.spec = worker[w].spec
      BY <1>11, <2>2, <2>4 DEF Lookup
    <3>3. /\ Same(w) /\ worker'[w].step \in {"open", "remember"}
          /\ worker'[w].plan.job = j /\ worker'[w].plan.spec = worker[w].spec
      BY <1>11, <3>1, <3>2, Effects
    <3>4. Progress(j, worker[w])'
      BY <2>1, <3>1, <3>3 DEF Progress, Same, Fits
    <3> QED BY <1>8, <2>2, <2>4, <3>3, <3>4
  <2> QED BY <2>3, <2>4
<1>12. CASE Remember(w)
  <2>1. UNCHANGED <<tree, meta, disturbed>> /\ worker[w].step = "remember"
    BY <1>12 DEF Remember, At
  <2>2. SUFFICES ASSUME NEW j \in Jobs, Described(j) PROVE Described(j)'
    BY <2>1 DEF AllDescribed
  <2>3. Same(w) /\ worker'[w].step = "open" /\ worker'[w].plan = worker[w].plan
    BY <1>12, Effects
  <2>4. CASE i # j
    BY <1>5, <2>1, <2>2, <2>3, <2>4
  <2>5. CASE i = j
    <3>1. Progress(j, worker[w])
      BY <1>6, <2>2, <2>5
    <3>2. Progress(j, worker[w])'
      BY <2>1, <2>3, <3>1 DEF Progress, Same, Fits
    <3> QED BY <1>8, <2>2, <2>3, <2>5, <3>2
  <2> QED BY <2>4, <2>5
<1>13. CASE Save(w)
  <2>1. UNCHANGED <<tree, meta, disturbed>> /\ worker[w].step = "save"
    BY <1>13 DEF Save, At
  <2>2. SUFFICES ASSUME NEW j \in Jobs, Described(j) PROVE Described(j)'
    BY <2>1 DEF AllDescribed
  <2>3. CASE i # j
    BY <1>5, <1>13, <2>1, <2>2, <2>3, Effects
  <2>4. CASE i = j /\ meta[j] = Torn
    <3>1. worker'[w] = Idle /\ ~Readable(j)'
      BY <1>13, <2>1, <2>4, Effects DEF Readable
    <3> QED BY <1>7, <2>2, <2>4, <3>1
  <2>5. CASE i = j /\ meta[j] # Torn
    <3>1. Progress(j, worker[w])
      BY <1>6, <2>2, <2>5
    <3>2. /\ Same(w) /\ worker'[w].step = "truncate"
          /\ worker'[w].copy = Registration(j, worker[w].plan)
      BY <1>13, <2>5, Effects
    <3>3. worker'[w].copy.spec = <<j, worker[w].spec>>
      BY <2>1, <3>1, <3>2 DEF Registration, Progress
    <3>4. Progress(j, worker[w])'
      BY <2>1, <3>1, <3>2, <3>3 DEF Progress, Same, Fits
    <3> QED BY <1>8, <2>2, <2>5, <3>2, <3>4
  <2> QED BY <2>3, <2>4, <2>5
<1>14. CASE Truncate(w)
  <2>1. /\ UNCHANGED <<tree, disturbed>> /\ worker[w].step = "truncate"
        /\ meta' = [meta EXCEPT ![i] = Torn]
    BY <1>14 DEF Truncate, At
  <2>2. SUFFICES ASSUME NEW j \in Jobs, Described(j) PROVE Described(j)'
    BY <2>1 DEF AllDescribed
  <2>3. Same(w) /\ worker'[w].step = "flush" /\ worker'[w].copy = worker[w].copy
    BY <1>14, Effects
  <2>4. CASE i # j
    BY <1>1, <1>5, <2>1, <2>2, <2>3, <2>4
  <2>5. CASE i = j
    <3>1. Progress(j, worker[w])
      BY <1>6, <2>2, <2>5
    <3>2. Progress(j, worker[w])'
      BY <2>1, <2>3, <3>1 DEF Progress, Same, Fits
    <3> QED BY <1>8, <2>2, <2>3, <2>5, <3>2
  <2> QED BY <2>4, <2>5
<1>15. CASE Flush(w)
  <2>1. /\ UNCHANGED <<tree, disturbed>> /\ worker[w].step = "flush"
        /\ meta' = [meta EXCEPT ![i] = worker[w].copy]
    BY <1>15 DEF Flush, At
  <2>2. SUFFICES ASSUME NEW j \in Jobs, Described(j) PROVE Described(j)'
    BY <2>1 DEF AllDescribed
  <2>3. worker'[w] = Idle
    BY <1>15, Effects
  <2>4. CASE i # j
    BY <1>1, <1>5, <2>1, <2>2, <2>3, <2>4
  <2>5. CASE i = j
    <3>1. Fits(j, <<j, worker[w].spec>>) /\ worker[w].copy.spec = <<j, worker[w].spec>>
      BY <1>6, <2>1, <2>2, <2>5 DEF Progress
    <3>2. meta'[j] = worker[w].copy
      BY <1>1, <2>1, <2>5
    <3>3. Fits(j, meta[j].spec)'
      BY <2>1, <3>1, <3>2 DEF Fits
    <3> QED BY <1>7, <2>2, <2>3, <2>5, <3>3
  <2> QED BY <2>4, <2>5
<1>16. CASE Open(w)
  <2>1. UNCHANGED <<tree, meta, disturbed>> /\ worker[w].step = "open"
    BY <1>16 DEF Open, At
  <2>2. SUFFICES ASSUME NEW j \in Jobs, Described(j) PROVE Described(j)'
    BY <2>1 DEF AllDescribed
  <2>3. Same(w) /\ worker'[w].step = "save" /\ worker'[w].plan = worker[w].plan
    BY <1>16, Effects
  <2>4. CASE i # j
    BY <1>5, <2>1, <2>2, <2>3, <2>4
  <2>5. CASE i = j
    <3>1. Progress(j, worker[w])
      BY <1>6, <2>2, <2>5
    <3>2. Progress(j, worker[w])'
      BY <2>1, <2>3, <3>1 DEF Progress, Same, Fits
    <3> QED BY <1>8, <2>2, <2>3, <2>5, <3>2
  <2> QED BY <2>4, <2>5
<1> QED BY <1>3, <1>4, <1>9, <1>10, <1>11, <1>12, <1>13, <1>14, <1>15, <1>16 DEF Step

\* So do a crash and the end of a cache entry.
LEMMA DescribedNext ==
  ASSUME BuildPipelineAssumption, Typed, AllDescribed, [Next]_vars
  PROVE  AllDescribed'
<1>1. CASE Expire
  BY <1>1 DEF Expire, AllDescribed, Described, Progress, Fits, Quiet, Readable
<1>2. CASE Crash
  <2>1. /\ \A v \in Workers : worker'[v].job = None
        /\ UNCHANGED <<tree, meta>> /\ None \notin Jobs
        /\ disturbed' = disturbed \cup {worker[v].job : v \in {u \in Workers : ~At(u, "idle")}}
    BY <1>2, IdleIs DEF Crash, BuildPipelineAssumption
  <2>2. SUFFICES ASSUME NEW j \in Jobs, j \notin disturbed', Described(j) PROVE Described(j)'
    BY <2>1 DEF AllDescribed
  <2>3. \A v \in Workers : At(v, "idle") => worker[v].job = None
    BY DEF Typed, Sensible, At
  <2>4. Quiet(j)
    BY <2>1, <2>2, <2>3 DEF Quiet
  <2>5. (Readable(j) => Fits(j, meta[j].spec))'
    BY <2>1, <2>2, <2>4 DEF Described, Readable, Fits
  <2> QED BY <2>1, <2>5 DEF Described
<1>3. CASE UNCHANGED vars
  BY <1>3 DEF vars, AllDescribed, Described, Progress, Fits, Quiet, Readable
<1> QED BY <1>1, <1>2, <1>3, DescribedStep DEF Next

-----------------------------------------------------------------------------
(* The theorems. *)

\* Every request has in hand what its step needs.
LEMMA TypedHolds == ASSUME BuildPipelineAssumption PROVE Spec => []Typed
<1>1. Init => Typed
  BY TypedInit
<1>2. Typed /\ [Next]_vars => Typed'
  BY TypedNext
<1> QED BY <1>1, <1>2, PTL DEF Spec

\* Workspaces, metadata, plans, cache and requests keep their types.
THEOREM TypeCorrect == ASSUME BuildPipelineAssumption PROVE Spec => []TypeOK
<1>1. Typed => TypeOK
  BY DEF Typed
<1> QED BY <1>1, TypedHolds, PTL

\* What is registered has its plan, whole, in the job's own plans directory
\* (build_v2_impl.py, save_plan before PlanRunner.run), whatever builds of the
\* job overlap and are answered from the cache: unless one is just writing it
\* again, or a crash cut that short.
THEOREM PlansAreSaved == ASSUME BuildPipelineAssumption PROVE Spec => []RegisteredPlansSaved
<1>1. Init => Saved
  BY SavedInit
<1>2. Typed /\ Saved /\ [Next]_vars => Saved'
  BY SavedNext
<1>3. Saved => RegisteredPlansSaved
  BY DEF Saved, MetaSaved, Kept, RegisteredPlansSaved
<1> QED BY <1>1, <1>2, <1>3, TypedHolds, PTL DEF Spec

\* No registration is lost (build_registry.py:75) of a job whose builds did not
\* overlap.
THEOREM RegistrationsAreKept == ASSUME BuildPipelineAssumption PROVE Spec => []RegistrationsKept
<1>1. Init => AllCounted
  BY CountedInit
<1>2. Typed /\ AllCounted /\ [Next]_vars => AllCounted'
  BY CountedNext
<1>3. AllCounted => RegistrationsKept
  BY DEF AllCounted, Counted, RegistrationsKept
<1> QED BY <1>1, <1>2, <1>3, TypedHolds, PTL DEF Spec

\* The metadata of a job that nothing disturbed name the specification its
\* workspace was generated from (runner.py, should_rebuild).
THEOREM RegistryDescribesTrees ==
  ASSUME BuildPipelineAssumption PROVE Spec => []RegistryDescribesTree
<1>1. Init => AllDescribed
  BY DescribedInit
<1>2. Typed /\ AllDescribed /\ [Next]_vars => AllDescribed'
  BY DescribedNext
<1>3. AllDescribed => RegistryDescribesTree
  BY DEF AllDescribed, Described, Fits, RegistryDescribesTree
<1> QED BY <1>1, <1>2, <1>3, TypedHolds, PTL DEF Spec

=============================================================================
