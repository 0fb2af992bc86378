---------------------------- MODULE BuildPipeline ----------------------------
(***************************************************************************)
(* One v2 build after another, and at once: build_v2_impl.py with          *)
(* build_registry.py, build_plan/ and the advisors' run cache              *)
(* (plugins/advisors/_internal/registry.py, cache.py), and the v1 build of *)
(* build.py, which writes to the same workspace.                           *)
(*                                                                         *)
(* A build compares the hash of its specification with the one in the      *)
(* job's .copilot_meta.json.  If they are equal it is skipped; otherwise   *)
(* its files are written one by one.  Either way a plan is made, shown to  *)
(* the advisors, saved, and registered in the metadata, which are read,    *)
(* changed and written whole.  A plan's file, too, is truncated first and  *)
(* written then, however often the plan was saved before.  The advisors'   *)
(* answer is cached in memory under a key that does not name the plan, and *)
(* a hit replaces the plan.                                                *)
(***************************************************************************)
EXTENDS Naturals, Sequences

CONSTANTS
  Jobs, Specs,  \* a specification's hash is its job and its content
  Workers,
  Files,        \* how many files a build generates
  MaxBuilds, MaxCrashes,
  None, Torn    \* nothing there; a file truncated and not yet written

VARIABLES
  tree,         \* what a file of a job's workspace was generated from
  meta,         \* .copilot_meta.json
  plans,        \* .copilot/plans/ of a job: the plans whose files are whole
  yaml,         \* copilot_spec.yaml, one for all jobs
  cache,        \* the cached plan of the advisors' default configuration
  worker, builds, crashes,
  cut,          \* history: plans whose files a crash left truncated, per job
  registered,   \* history: registrations that were written, per job
  overlapped,   \* history: two builds of the job have run at once
  disturbed     \* history: see RegistryDescribesTree

vars == <<tree, meta, plans, yaml, cache, worker, builds, crashes, cut,
          registered, overlapped, disturbed>>

Content == [job : Jobs, spec : Specs, by : {"v1", "v2"}]
Plan == [job : Jobs, spec : Specs, files : BOOLEAN]
\* Entries of a registry are told apart by nothing that is read again but their
\* plan; current_build_id names the last of them.
Meta == [spec : (Jobs \X Specs) \cup {None}, builds : Seq(Plan)]
NoMeta == [spec |-> None, builds |-> << >>]

\* MCServices assumes this of the instance it checks.
BuildPipelineAssumption ==
  /\ Files \in Nat \ {0} /\ MaxBuilds \in Nat /\ MaxCrashes \in Nat
  /\ None \notin Jobs /\ None \notin Specs /\ None \notin Meta \cup Content \cup {Torn}

Worker == [step : {"idle", "generate", "write", "lookup",
                   "remember", "open", "save", "truncate", "flush"},
           job : Jobs \cup {None}, spec : Specs \cup {None}, by : {"v1", "v2"},
           yaml : BOOLEAN, force : BOOLEAN, skipped : BOOLEAN,
           left : SUBSET (1..Files), plan : Plan \cup {None}, copy : Meta]

TypeOK ==
  /\ tree \in [Jobs -> [1..Files -> Content \cup {None}]]
  /\ meta \in [Jobs -> Meta \cup {None, Torn}]
  /\ plans \in [Jobs -> SUBSET Plan] /\ cut \in [Jobs -> SUBSET Plan]
  /\ yaml \in (Jobs \X Specs) \cup {None}
  /\ cache \in Plan \cup {None}
  /\ worker \in [Workers -> Worker]
  /\ builds \in 0..MaxBuilds /\ crashes \in 0..MaxCrashes
  /\ registered \in [Jobs -> Nat]
  /\ overlapped \subseteq Jobs /\ disturbed \subseteq Jobs

Idle == [step |-> "idle", job |-> None, spec |-> None, by |-> "v2",
         yaml |-> FALSE, force |-> FALSE, skipped |-> FALSE, left |-> {},
         plan |-> None, copy |-> NoMeta]

Init ==
  /\ tree = [j \in Jobs |-> [f \in 1..Files |-> None]]
  /\ meta = [j \in Jobs |-> None]
  /\ plans = [j \in Jobs |-> {}] /\ cut = [j \in Jobs |-> {}]
  /\ yaml = None /\ cache = None
  /\ worker = [w \in Workers |-> Idle]
  /\ builds = 0 /\ crashes = 0
  /\ registered = [j \in Jobs |-> 0]
  /\ overlapped = {} /\ disturbed = {}

-----------------------------------------------------------------------------
At(w, step) == worker[w].step = step
Answer(w) == worker' = [worker EXCEPT ![w] = Idle]
GoTo(w, step) == worker' = [worker EXCEPT ![w].step = step]

\* Somebody else is at work in the job's workspace.
Crowded(w, j) == \E v \in Workers \ {w} : worker[v].job = j

Begin(w, j, request) ==
  /\ At(w, "idle") /\ builds < MaxBuilds
  /\ builds' = builds + 1
  /\ worker' = [worker EXCEPT ![w] = request]
  /\ overlapped' = IF Crowded(w, j) THEN overlapped \cup {j} ELSE overlapped

\* should_rebuild compares with the specification that was registered last.
ShouldRebuild(j, s) == meta[j] = None \/ meta[j].spec # <<j, s>>

\* make_build_plan: its steps are the same for all specifications.
PlanOf(j, s, files) == [job |-> j, spec |-> s, files |-> files]

\* The skip path goes straight on with a plan that expects no files.
SkipPath(j, s, force) ==
  [Idle EXCEPT !.step = "lookup", !.job = j, !.spec = s, !.skipped = TRUE,
               !.force = force, !.plan = PlanOf(j, s, FALSE)]

BuildPath(j, s, toYaml, force) ==
  [Idle EXCEPT !.step = "generate", !.job = j, !.spec = s,
               !.yaml = toYaml, !.force = force, !.plan = PlanOf(j, s, TRUE)]

\* build_v2_from_spec with a valid contract.  Metadata that cannot be parsed end
\* the request.  The policies cannot fail either plan: a specification whose
\* table names have no dot is not accepted.
BuildFromSpec(w, j, s, toYaml, force) ==
  /\ meta[j] # Torn
  /\ Begin(w, j, IF ShouldRebuild(j, s) THEN BuildPath(j, s, toYaml, force)
                                        ELSE SkipPath(j, s, force))
  /\ disturbed' = IF Crowded(w, j) THEN disturbed \cup {j} ELSE disturbed
  /\ UNCHANGED <<tree, meta, plans, yaml, cache, crashes, cut, registered>>

\* POST /build/v2, and the v2 build of a v3 run.
BeginV2(w, j, s) == \E toYaml \in BOOLEAN : BuildFromSpec(w, j, s, toYaml, FALSE)

\* POST /build/intent: the one request that can bypass the advisors' cache.  A
\* dry run or a plan alone changes nothing here; what the advisors are asked in
\* a dry run is cached under a key that names the specification.
BeginIntent(w, j, s) ==
  \E toYaml, force \in BOOLEAN : BuildFromSpec(w, j, s, toYaml, force)

\* POST /build/: the v1 build of whatever the yaml file says.
BeginV1(w) ==
  /\ yaml # None
  /\ Begin(w, yaml[1], [Idle EXCEPT !.step = "write", !.job = yaml[1],
                          !.spec = yaml[2], !.by = "v1", !.left = 1..Files])
  /\ disturbed' = disturbed \cup {yaml[1]}
  /\ UNCHANGED <<tree, meta, plans, yaml, cache, crashes, cut, registered>>

\* Mutant of Generate: the preflight gate runs when the files are written already.
GenerateBeforeGate(w) ==
  LET j == worker[w].job  s == worker[w].spec IN
  /\ At(w, "generate")
  /\ Answer(w) \/ worker' = [worker EXCEPT ![w] = [@ EXCEPT !.step = "lookup", !.yaml = FALSE]]
  /\ tree' = [tree EXCEPT ![j] = [f \in 1..Files |-> [job |-> j, spec |-> s, by |-> "v2"]]]
  /\ UNCHANGED <<meta, plans, yaml, cache, builds, crashes, cut, registered,
                 overlapped, disturbed>>

\* Generation and the preflight gate, which may block; then the yaml file is
\* written if the request asks for it.
Generate(w) ==
  /\ At(w, "generate")
  /\ \/ Answer(w) /\ UNCHANGED yaml
     \/ /\ worker' = [worker EXCEPT ![w] =
             [@ EXCEPT !.step = "write", !.yaml = FALSE, !.left = 1..Files]]
        /\ yaml' = IF worker[w].yaml THEN <<worker[w].job, worker[w].spec>> ELSE yaml
  /\ UNCHANGED <<tree, meta, plans, cache, builds, crashes, cut, registered,
                 overlapped, disturbed>>

\* _finalize_workspace_repo raises, as the ref "PENDING" never resolves, and the
\* v1 build ends.
FinalizeWorkspaceRepo(w) == Answer(w)

\* _finalize_baseline swallows that, and the v2 build goes on with its plan.
FinalizeBaseline(w) ==
  worker' = [worker EXCEPT ![w] = [@ EXCEPT !.step = "lookup", !.left = {}]]

\* materialize_files, one file after another in the order of the generators.
\* After the last, both builds commit.
Write(w) ==
  LET j == worker[w].job
      f == CHOOSE i \in worker[w].left : \A k \in worker[w].left : i <= k
      rest == worker[w].left \ {f}
  IN /\ At(w, "write")
     /\ tree' = [tree EXCEPT ![j][f] =
          [job |-> j, spec |-> worker[w].spec, by |-> worker[w].by]]
     /\ CASE rest # {} -> worker' = [worker EXCEPT ![w].left = rest]
          [] rest = {} /\ worker[w].by = "v1" -> FinalizeWorkspaceRepo(w)
          [] rest = {} /\ worker[w].by = "v2" -> FinalizeBaseline(w)
     /\ UNCHANGED <<meta, plans, yaml, cache, builds, crashes, cut, registered,
                    overlapped, disturbed>>

\* run_plan_advisors goes on with the plan it finds in the context.
Advised(w, plan) ==
  worker' = [worker EXCEPT ![w] = [@ EXCEPT !.step = "open", !.plan = plan, !.force = FALSE]]

\* The key of a build has no specification and no head in it: all builds with
\* the same advisors share an entry.
Hit(w) == ~worker[w].force /\ cache # None

\* PluginRegistry.run: a hit answers with the cached plan, whatever plan was
\* asked about.
Lookup(w) ==
  LET j == worker[w].job IN
  /\ At(w, "lookup")
  /\ IF Hit(w)
     THEN Advised(w, cache)
     ELSE worker' = [worker EXCEPT ![w] = [@ EXCEPT !.step = "remember", !.force = FALSE]]
  /\ disturbed' =
       IF Hit(w) /\ (cache.job # j \/ cache.spec # worker[w].spec)
       THEN disturbed \cup {j} ELSE disturbed
  /\ UNCHANGED <<tree, meta, plans, yaml, cache, builds, crashes, cut, registered, overlapped>>

\* The advisors have run.
Remember(w) ==
  /\ At(w, "remember")
  /\ cache' = worker[w].plan
  /\ Advised(w, worker[w].plan)
  /\ UNCHANGED <<tree, meta, plans, yaml, builds, crashes, cut, registered,
                 overlapped, disturbed>>

\* Five minutes pass, or 256 other configurations evict the entry.
Expire ==
  /\ cache # None /\ cache' = None
  /\ UNCHANGED <<tree, meta, plans, yaml, worker, builds, crashes, cut, registered,
                 overlapped, disturbed>>

\* register_build adds the build of the plan it was given.
Registration(j, p) ==
  [spec |-> <<p.job, p.spec>>,
   builds |-> Append(IF meta[j] = None THEN << >> ELSE meta[j].builds, p)]

\* Mutant of PlanHome: the plan goes to the workspace of the job it names.
PlanHomeNamed(w) == worker[w].plan.job

\* The workspace whose plans directory the plan goes to: that of the build.
PlanHome(w) == worker[w].job

\* save_plan opens the file, named for the plan: it is empty now,
Open(w) ==
  /\ At(w, "open")
  /\ plans' = [plans EXCEPT ![PlanHome(w)] = @ \ {worker[w].plan}]
  /\ GoTo(w, "save")
  /\ UNCHANGED <<tree, meta, yaml, cache, builds, crashes, cut, registered,
                 overlapped, disturbed>>

\* and the text arrives.
SavePlan(j, p) ==
  /\ plans' = [plans EXCEPT ![j] = @ \cup {p}]
  /\ cut' = [cut EXCEPT ![j] = @ \ {p}]

\* The plan is saved; then PlanRunner.run loads the metadata to register it.
Save(w) ==
  LET j == worker[w].job  p == worker[w].plan IN
  /\ At(w, "save")
  /\ SavePlan(PlanHome(w), p)
  /\ IF meta[j] = Torn
     THEN Answer(w)
     ELSE worker' = [worker EXCEPT ![w] =
            [@ EXCEPT !.step = "truncate", !.copy = Registration(j, p)]]
  /\ UNCHANGED <<tree, meta, yaml, cache, builds, crashes, registered,
                 overlapped, disturbed>>

\* open(meta_file, "w"),
Truncate(w) ==
  /\ At(w, "truncate")
  /\ meta' = [meta EXCEPT ![worker[w].job] = Torn]
  /\ GoTo(w, "flush")
  /\ UNCHANGED <<tree, plans, yaml, cache, builds, crashes, cut, registered,
                 overlapped, disturbed>>

\* Mutant of Flush: the list of builds starts again.
FlushLast(w) ==
  LET j == worker[w].job  n == Len(worker[w].copy.builds) IN
  /\ At(w, "flush")
  /\ meta' = [meta EXCEPT ![j] = [worker[w].copy EXCEPT !.builds = <<@[n]>>]]
  /\ registered' = [registered EXCEPT ![j] = @ + 1]
  /\ Answer(w)
  /\ UNCHANGED <<tree, plans, yaml, cache, builds, crashes, cut, overlapped, disturbed>>

\* and the text arrives.  The events are logged and the request is answered.
Flush(w) ==
  LET j == worker[w].job IN
  /\ At(w, "flush")
  /\ meta' = [meta EXCEPT ![j] = worker[w].copy]
  /\ registered' = [registered EXCEPT ![j] = @ + 1]
  /\ Answer(w)
  /\ UNCHANGED <<tree, plans, yaml, cache, builds, crashes, cut, overlapped, disturbed>>

Saving(j) == {w \in Workers : At(w, "save") /\ worker[w].job = j}

\* The process dies and comes up again: the cache is gone, and a plan that was
\* being saved has an empty file.
Crash ==
  /\ crashes < MaxCrashes /\ crashes' = crashes + 1
  /\ cache' = None
  /\ worker' = [w \in Workers |-> Idle]
  /\ cut' = [j \in Jobs |-> cut[j] \cup ({worker[w].plan : w \in Saving(j)} \ plans[j])]
  /\ disturbed' = disturbed \cup {worker[w].job : w \in {v \in Workers : ~At(v, "idle")}}
  /\ UNCHANGED <<tree, meta, plans, yaml, builds, registered, overlapped>>

Step(w) ==
  \/ \E j \in Jobs, s \in Specs : BeginV2(w, j, s) \/ BeginIntent(w, j, s)
  \/ BeginV1(w) \/ Generate(w) \/ Write(w) \/ Lookup(w) \/ Remember(w)
  \/ Open(w) \/ Save(w) \/ Truncate(w) \/ Flush(w)

Next == (\E w \in Workers : Step(w)) \/ Expire \/ Crash

Spec == Init /\ [][Next]_vars

-----------------------------------------------------------------------------
(* Properties. *)

Readable(j) == meta[j] \notin {None, Torn}
Quiet(j) == \A w \in Workers : worker[w].job # j

\* What is registered has its plan, whole, in the job's own plans directory
\* (save_plan before PlanRunner.run), whoever wrote the metadata last and
\* whichever plan the cache answered with: unless a build is just writing the
\* file again, or a crash cut that short and nobody has saved the plan since.
RegisteredPlansSaved ==
  \A j \in Jobs : Readable(j) =>
    \A i \in DOMAIN meta[j].builds :
      \/ meta[j].builds[i] \in plans[j] \cup cut[j]
      \/ \E w \in Saving(j) : worker[w].plan = meta[j].builds[i]

\* Unless two builds of the job ran at once, no registration is lost
\* (BuildRegistry.register_build).
RegistrationsKept ==
  \A j \in Jobs \ overlapped : Readable(j) => Len(meta[j].builds) = registered[j]

\* The specification in the metadata is the one the workspace was generated
\* from, so that a skip is right (should_rebuild), between builds and unless
\* the job was disturbed: by a build of the same job at the same time, a v1
\* build, a crash, or a plan of something else from the advisors' cache.
RegistryDescribesTree ==
  \A j \in Jobs \ disturbed : Readable(j) /\ Quiet(j) =>
    \A f \in 1..Files : tree[j][f] # None /\ tree[j][f].by = "v2"
                     /\ <<tree[j][f].job, tree[j][f].spec>> = meta[j].spec

\* "No changes detected": a build is skipped only if every file was generated
\* from its specification (build_v2_impl.py:260, runner.py:55).
SkipMeansUnchanged ==
  \A w \in Workers : worker[w].skipped =>
    \A f \in 1..Files :
      LET t == tree[worker[w].job][f] IN
      t # None /\ t.job = worker[w].job /\ t.spec = worker[w].spec

=============================================================================
