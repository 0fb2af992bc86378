# Verification of Data Platform Copilot

TLA+ models of the stateful core of this FastAPI service, checked by TLC on
small instances, with theorems checked by TLAPS for instances of any size.

The service keeps its state in JSON files under a workspace directory. Its
endpoints are plain `def` functions, so every request runs on a thread of the
server's pool, in one uvicorn process; one periodic task runs on the event
loop. No transaction spans two steps of a request. The questions worth asking
are therefore what survives when requests interleave, when the process dies
between two steps, and when the same request comes twice.

## The system

| Part | State | Operations | Correct when |
|---|---|---|---|
| Execution registry and executor (`app/core/execution/{registry,executor,state_machine}.py`, `app/api/endpoints/execution.py`) | one JSON record per job | apply, run, cancel, status | histories follow the transition table; terminal states stay; ended jobs are booked; no container is orphaned |
| Backends (`app/core/execution/backends/`) | docker containers | submit, status, cancel | as above |
| Billing ledger and budget guard (`app/core/billing/`, `app/core/execution/guards.py`) | one JSON ledger for all jobs | estimate on apply, actuals when a job ends | one entry per tenant, build and job; spend within the limit; nothing granted or reported is lost |
| Lifecycle store (`app/core/execution/lifecycle.py`, `executions_lifecycle.py`, `main.py`) | a dictionary of shared objects and one JSON file | create, cancel, retry, reconcile (also periodic) | the file agrees with memory; every run settles |
| Build v2, registry, advisors (`build_v2_impl.py`, `build.py`, `build_registry.py`, `build_plan/`, `plugins/advisors/`) | job metadata, workspace files, plans, a run cache | build (v2, intent, v1) | the registry describes the workspace; registered plans are saved; a skip skips nothing that changed; advisors run in order |
| Compiler chain, v3 gate, approvals (`app/core/compiler/`, `build_v3.py`, `build_approval.py`) | files named by a hash of their content, approval files, lineage | create contract, plan, report, evaluation; approve, revoke; run | chains are closed; no high-risk build without a valid approval |
| Sync (`sync_engine.py`, `guardrails.py`, `repo.py`, `repo_manager.py`) | git repository of the workspace, `.copilot/` in it | plan, apply, simulate; connect, fetch, switch | a plan says what the heads it names say; upstream.json and the baseline are true; an apply gets past its guard on a clean workspace only |
| Federation (`federation_manager.py`) | configuration, clones, checkouts, copies | connect, sync | what was answered is what is there |
| AI gateway, triage (`app/core/ai/`) | the ledger's actuals; a memory file | complete, triage, intent, explain | spend bounded, calls billed, triages kept |
| Request path (`request_context.py`) | buckets; filters of the root logger | admit, log | bounded rate; own request id |
| Model registry (`app/modeling/registry.py`) | a dictionary and one JSON file | register, look | what was answered is on disk |

Requests interact only through these files, through the lifecycle store's
objects, and through docker. `apply` calls the guards, which read and write
the ledger; `cancel` and `status` end jobs and write actuals to the ledger;
the AI gateway reads and writes its actuals too; a v3 run starts a v2 build, and
a v2 build asks the advisors. Hard behaviours: read, change and
write of whole files by several threads; `open(path, "w")` truncating a file
before any lock is taken; a docker pull between the test of a state and the
write that relies on it; the process dying between two writes that belong
together; the same apply sent twice. `PROJECT.json` lists these hazards at
their lines with the properties that cover them.

## The modules

`ExecutionStates` holds the states and the transition table; `JobLifecycle` is the
abstract specification of one job; `Executor` is the code; `MCExecutor` instantiates
it and maps it to `JobLifecycle`. `LedgerEntries` holds the pure operations on the
list of ledger entries, `Budget` the file and the requests on it. `LifecycleStore`
stands alone. `BuildGate`, `BuildPipeline`, `AdvisorGraph`, `Federation`,
`RequestPath`, `AIGateway` and `ModelRegistry` are seven services that share no state:
`MCServices` instantiates all of them, and each of its behaviours is one of a single
service, named by `part`, so that one run explores their sum and not their product.
`SyncEngine` is checked through `MCSync`. The `*Proofs` modules extend the modules
they prove about (`ServicesProofs` extends `MCServices`). Definitions whose comment
says "Mutant of" are not part of a specification: each is a plausible bug, put in
place of the definition it names to see that a property notices.

**Executor.** A request is the list of calls it still has to make (`worker[w].todo`).
A call that rewrites the record is three steps: `Load` (`registry.get` and the change
in memory), `Truncate` (`open(path, "w")`) and `Flush` (the text reaching the file
when the handle closes). The `flock` in `_locked_write` is taken after the truncation
and released before the close, so for texts below the write buffer it orders nothing
and is left out; a longer text is partly written inside the lock, which removes no
behaviour that matters here. A thread may wait for that lock, or for docker, which is
given no timeout, as long as it likes: no step is fair. `Decide*` read the record once
and set the rest of the request, so a decision may be stale when its calls are made.
`Submit`, `Poll` and `Kill` are calls of a backend. `ContainerExits`, `DockerFails`
and `Crash` are the environment. Fields no guard reads are abstracted: rewriting only
those is a `touch`. The policy's decision on an apply is nondeterministic here. `POST
/run` passes an empty config, with which docker's submit raises; containers are
started by callers of `Executor.run` that name an image, and both outcomes are in the
model for every run. The branch of `refresh_status` for a backend name that is not
registered is unreachable, since `run` refuses such names before it stores them; so is
its last branch, since no backend answers anything but RUNNING, SUCCEEDED or FAILED.

**Budget.** `Receive`, then for an apply `Refuse` or `Grant` on the spend read, then
`Load`, `Truncate`, `Flush` as above; a ledger that does not parse loads as empty.
`granted` and `reported` are history variables; `reported` has the cost last reported
of a build, which an end with no known cost does not change. Costs are positive whole
units; applies without an estimate, negative estimates and changes of a tenant's limit
are left out.

**LifecycleStore.** `get()` and `list()` hand out the dictionary's own objects,
so the model has a heap: an object is a run and a copy number, and a request
keeps the object it got even when a create puts another one in its place.
`Check` is the handler's test, `Flag` and `Settle` the unlocked assignments in
their order, `Put`, `Truncate` and `Write` the locked `put()`. `Age` makes an
object older than a reconcile's cutoff, at any time. The store's lock is real
and is the variable `holder`. The reconcile at startup is a first `Tick` after
a restart, which here may also be interleaved with requests. `asdict` reads
fields one by one while others write them; the model reads them at once, since
every such write is followed by a put of its own.

**BuildGate.** An artifact (contract, plan, report, evaluation) is its own name,
as files are named by a hash of their content. A request to make one names
whatever hashes its client likes: `Load` takes the files it is made from one by
one and refuses what is missing or cannot be read, `Test` asks whether the file is
there, `Open` truncates it and `Fill` writes it; a request for an artifact that
exists, and that no reset can take away any more, changes nothing and is left out.
`Reset` is one file of a hard reset of the job's repository: it goes, under a
writer that holds it open, too. `whole` and `torn` are the files that hold their text
and those that are empty. `Decision` and `Risk` are the arithmetic of the policy
and the risk model, in percent. A run (`Run`, `GateLoad`, `Pass`, `ReadRisk`,
`ReadApproval`, `Record`) reads each file at a step of its own. `Unlink` is a
revocation, which also takes the file from under a request that is signing it.
`grants`, `removed` and `reopened` are history variables.

**BuildPipeline.** `BuildFromSpec` is the test for a skip; `Generate` ends with
the preflight gate, which may block; `Write` materialises one file; `Lookup` and
`Remember` are the advisors' run and its cache; `Open` truncates the plan's file,
however often that plan was saved and registered before, `Save` fills it and loads
the metadata, `Truncate` and `Flush` write them. `cut` is the history of the plans
whose files a crash left empty. Both builds end their files with
a commit that raises, because the ref `PENDING` never resolves: the v2 build
swallows that and goes on, the v1 build ends there. `disturbed` is the history of
what takes workspace and registry apart: an overlapping build, a v1 build, a
crash, a plan of something else from the cache. The policies of a build cannot
fail here: the table names they test are refused by the specification already.

**AdvisorGraph.** An advisor is its place in the resolver's order; dependencies
are any sets, a missing one included, which is an edge without a node. `Visit` is
one turn of the loop, `Return` its end: an order, or a circle.

**SyncEngine.** A commit is the sequence of commits that led to it, so an ancestor is
a prefix and a merge base a longest common prefix. Each commit has its tree, who made
it and when: git names two commits of one tree differently, and a plan made for one of
them is stale once HEAD is the other. `PlanHeads`, `PlanTopology` and `PlanItems` read
the refs by name, three times. `Apply` is the guard, `ApplyLoad` the comparison of
heads, `ApplyWrite` one file. `Connect`, `Fetch` and `Switch` share one pipeline
(`SetUrl`, `WriteConfig`, `GitFetch`, `WriteFetched`, `Rebaseline`, `Reset`, `Clean`,
`WriteBase`, `WriteAgain`). A reset may fail before HEAD moves, with any of the files
written (`ResetFails`), or stop right after; a clean may fail with some files removed.
`Dirty` is what `git status` reports: tracked files that changed, untracked ones that
are not ignored (`Hidden` are the names `.gitignore` has), and `.copilot/`. `Shown` is
what `show_file_at_ref` makes of a content by decoding and stripping it, and
`RenamedTo` the renames `git diff` reports as one item of no file's name. The control
files live in `.copilot/` inside the workspace: `loose` says that it holds something
git sees and HEAD does not, `kept` what of it each commit has, which a reset to that
commit brings back. Edits and builds, commits, pushes, forced pushes, publication of
the workspace's commits and restarts are the environment. `rewound`, `mixed` and
`applied` are history variables. Not modelled: merges, fast-forwards and resets made
by hand in the workspace, developers of the upstream who change control files, and the
control files that a hard reset which fails halfway has written already. Git commands
that only read are taken together within one step of a plan or of an apply's
comparison; other requests come in between those steps, between two files of an apply,
and between any two writes of the pipeline.

**Federation.** Each git command and directory operation of `sync_repo` is a
step. A fetch moves the remote-tracking branch, `git worktree add` takes the
local one. `Fail` ends a request at any of the commands that may raise, the copy
included: what was emptied stays empty, and `halted` remembers it.

**RequestPath.** The limiter never awaits while it counts, so it is one step; a
request id is a filter on the root logger.

**AIGateway.** One tenant and month; `Gate`, `Call`, `Retry`, then `Load`,
`Truncate` and `Flush` of the ledger, in which jobs book their actuals too
(`Book`), and `Remember` for a triage, which goes on when the gateway fails. The
ledger is the sum of its entries, or empty or garbled, which reads as nothing.
`spoiled` is the history of a rewrite that overlapped another, was read half done
or was cut short; `paid`, `unbilled`, `billed` and `booked` count what calls and
jobs have cost, and what of it was written.

**ModelRegistry.** `Load` and `Install` are the lazy load, `Set` and
`Dump` the registration, `OpenTmp`, `Fill` and `Replace` the temporary file with
one name for all threads; a handle follows the file it was opened on.

## The runs

| Run | Instance | What it shows |
|---|---|---|
| `executor_one_thread` | 1 thread, 3 backends, 5 requests, 1 restart, 1 docker failure | With requests one at a time the file implements `JobLifecycle` (`ImplementsLifecycle`): a restart may lose the record, nothing else undoes a move. Between requests the file is readable, an ended job is booked (`EndIsBooked`) and no container is left (`ContainersTracked`). |
| `executor_two_threads` | 2 threads, docker, 3 requests, 1 restart, 1 docker failure | Every record tells a legal history (`HistoryLegal`), nothing follows a terminal event in one record (`TerminalAbsorbing`), and an outcome was preceded by RUNNING (`OutcomeWasRun`). |
| `executor_terminal_lost` | 2 threads, local, 4 requests | Violated (`TerminalIsFinal`): a stale copy undoes a terminal state, against executor.py:196. |
| `budget_one_thread` | 1 thread, 2 builds, 4 requests, 2 months, 1 restart | The spend on file stays within the limit (`WithinBudget`), no granted estimate is lost (`GrantsKept`), and no reported cost is lost or wiped by an end that reports none (`ActualsKept`). |
| `budget_two_threads` | 2 threads, 2 builds, 4 requests, 1 restart | `OneEntryPerId`, `EstimatesWereGranted` through torn and lost writes. |
| `budget_lost_update` | 2 threads, 2 requests | Violated: an estimate is lost, against tests/test_ledger_concurrent_writes.py:38. |
| `budget_reapply` | 1 thread, 3 requests | Violated: the same apply again is refused, against guards.py:94. |
| `lifecycle_threads` | 2 threads and the loop, 1 run, 3 requests, 1 restart | `DiskMatchesMemory`, `RunsSettle`. |
| `advisor_missing` | 2 advisors, every dependency relation | Violated (`MissingIsNoCircle`): a dependency that is not active is reported as a circle, against registry.py:171. |
| `services` | seven services, with 2 threads and 1 restart where they have threads | `ChainsClosed`, `TornAreBeingFilled`, `HighRiskApproved`; `RegisteredPlansSaved`, `RegistrationsKept`, `RegistryDescribesTree`; `HeadIsMaterialized`; `DependenciesFirst`, `FailsOnlyIfCircular`; `BelowTwiceTheLimit`, `OwnIdWhenAlone`; `OverspendBounded`, `CallsBilled`, `TriagesRemembered`; `AnsweredModelsKept`. |
| `sync` | 2 threads, 2 upstreams, 2 requests, 2 events | A fresh plan has the items of its heads (`FreshPlanTrue`), upstream.json tells where the branch came from (`FetchedFromUpstream`), a workspace that does not ignore `.copilot/` is never applied to (`UnignoredNeverApplied`), and the baseline is in HEAD's history (`BaselineInHead`). |
| `build_skip` | 1 thread, 1 job, 2 specifications, 3 builds | Violated: a build is skipped although the workspace holds files of another specification, against build_v2_impl.py:260. |

Bounds. Two threads are enough for a stale read and a torn file, which need a
reader and one writer. Five requests suffice for apply, a second apply, run,
status and cancel in any order. Two builds exhaust a limit of three in several
ways. Three requests on one run give create, cancel and retry, with a
reconcile of the loop between any two of their steps. One restart is enough to
lose each file once. The bounds (`MaxRequests`, `MaxCrashes`, `MaxFaults`,
`MaxMonth`, `MaxCopies`) are constants used in guards only.

In `services`, the gate has one contract and one cluster, so one plan and one report,
at the highest risk there is, 65, with the threshold at 65 and a TTL of 0 against a
clock of one tick: every run of it needs an approval that may be fresh or expired. One
policy that allows everything is enough, as evaluations with other decisions start
nothing; runs are posted until one lineage is recorded, however many are refused. One
fault is a crash or a file of the chain that a reset removes. Two jobs, two
specifications, two files and three builds are a cache hit of each kind, a skip and an
overlap. Two names, two URLs and two requests are two syncs of a name at once and one
after another; two commits per URL, a push between. Three advisors with every
dependency relation cover a circle of three, a diamond's half and missing ones.
Windows of two ticks in a time of four show two adjacent windows; one key, as keys
have separate buckets. A limit of 4 with a ceiling of 2 and calls of 2 lets two
threads pass the gate together, and three requests are two rewrites of the ledger that
overlap, between gates that read it before and after. Three registrations are one
answered, one that overlaps and one after a restart. `sync` has one path, since all
but renames, which only the theorems cover, treats each alone; two contents are enough
to differ, return and differ again, and two requests with two events cover a plan with
an apply, a simulation, a fetch or a switch halfway, each with two things that happen
at any of their steps: a commit and a failed clean, a fetch and a forced push.
Histories have at most three commits. The one path is named by `.gitignore`, so it is
ignored until it is committed and tracked after that, and contents have nothing that
`show_file_at_ref` strips; the theorems are for any `Hidden` and `Shown`.

Threads, jobs, specifications, names, URLs, repositories and contents are
interchangeable, so those runs use their symmetry; they check no liveness.
The runs whose requests are bounded stop, so deadlock is not checked there.

Fairness. Only `LifecycleStore` states any, for `RunsSettle`: weak fairness of each
thread's steps, of the periodic task, which is a `while True` whose body catches every
exception, and of time passing. The lock needs no stronger fairness: in that run the
requests are finite, and whoever holds the lock releases it. The other modules state
no fairness: their properties are safety. In particular a request of the executor may
never end, since docker's pull and run have no timeout (docker.py:26-34).

What the code does not guarantee and no property claims, although one might
expect it: with two threads the record file may be left garbled
(registry.py:22-30), and concurrent applies may together exceed a budget
(guards.py:73-97; the same race of the AI gateway is in KNOWN_LIMITATIONS.md);
a restart between an ending and its actuals leaves them unwritten for good
(executor.py:176-182); `POST /run` on a job nobody applied creates it as
APPLIED, past the guards (execution.py:206); a cancel that races with a
reconcile takes a run out of FAILED (lifecycle.py:126-131), and the reconcile fails
a run that a retry left PENDING, which its documentation does not name
(lifecycle.py:163-172).

The same of the services. Two concurrent v2 builds of a job lose registrations
(build_registry.py:75). A v3 run whose report another request is writing again finds
no risk score and asks for no approval (build_v3.py:25-28), and with the default
threshold of 0.70 none is ever asked for, as the risk model ends at 0.65. A process
that dies between truncation and write leaves an empty file of the chain that is never
written again; one that dies while a plan is saved again leaves a registered build
without its plan (persist.py:52). `git status` does not name ignored files, so an
apply or a reset overwrites an ignored file that upstream has, and anything written
after the check (guardrails.py:23-33). A clean that fails after a hard reset leaves
the baseline of another HEAD (repo_manager.py:322). `/sync/apply` does not ask for
`auto_apply_allowed`; a plan marks files of a workspace that is ahead `safe_auto`
where upstream differs, so after the workspace's commits were published it may take
back what they changed. A federated repository stays at the commit of its first clone
whatever is fetched, unless its ref names a remote branch, tag or commit; two syncs of
one name leave any mixture; a copy that fails leaves the emptied directory under the
old answer (federation_manager.py:112-120); a clone cut short is not repaired. A log
record may carry the id of another request that is being handled at the same time. The
calls of a gateway request that fails are not billed; those of two requests that
record at once may be lost, and a gate that reads the ledger while it is empty lets
any call through (ledger.py:89-103, 162-199). Two overlapping registrations of models
may lose one that was answered. The properties name the exclusions they need for
these, and hold otherwise.

## The proofs

TLAPS checks theorems for every value of the constants that state each property
of the passing runs but the liveness one: for any sets of threads, jobs or
contents and any bounds on requests and restarts.

**Assumptions.** `ExecutorAssumption`, `BudgetAssumption`, `LifecycleAssumption`
and `SyncAssumption` are assumed in their modules: bounds are naturals, costs
positive, the values that stand for nothing or for an unreadable file are no
records, there is at least one tenant, build or run. The services' modules state
theirs as operators (`BuildGateAssumption` to `ModelRegistryAssumption`), which
are hypotheses of their theorems; `ServicesAssumption` is their conjunction,
assumed of the instance `MCServices` checks. `Federation` and `AIGateway` need
finite sets where they count; `RefinementAssumption` says that `JobLifecycle`'s
name for a job without a record is no state.

`OneThread` is a hypothesis of the executor's and the budget's theorems about
requests one at a time. It is not an assumption of the module: with two threads
these properties are false, as the runs that expect a violation and "What the
code does not guarantee" above say.

* `ExecutorProofs`, any number of threads: `TypeCorrect`, `HistoriesLegal`,
  `TerminalsAbsorb`, `OutcomesWereRun`. A stale record is as good as the one on
  disk: whatever a thread holds was a legal record once, and every rewrite is
  `Edit` of such a record under `Accepts`. The invariant says this of the file,
  of every thread's copy and of the calls still to make: an outcome is written
  only by a request that read RUNNING, or is refused by the table.
* `ExecutorProofs`, one thread: `FilesImplementLifecycle` is the refinement of
  `JobLifecycle`. `Exclusive` says that a rewrite holds the next state of the
  record on disk, or a new one while there is none, and that the file is empty
  while it is written; then each step maps to a transition, a loss or a
  stutter. `ReadableBetweenRequests` needs `Whole` too: before the first restart
  an empty file is being written. `EndsAreBooked` and `ContainersAreTracked` say
  what a request still has to do. `InPlan` lists the stages a request may be at
  (about to submit, to note the container, to poll, to kill, to finish, to
  charge), with the record and the containers each stage finds; `Followed` says
  that the thread is at one of them, in the record it holds or reads next.
* `BudgetProofs`, any number of threads: `TypeCorrect`, `EntriesUnique`,
  `EstimatesGranted`. The executor's argument for ledgers; a thread about to
  record an estimate has it in `granted`. The lemmas on `UpsertEstimate` and
  `UpsertActual` say what each keeps of a list of entries.
* `BudgetProofs`, one thread: `BudgetIsKept`, `GrantsAreKept`, `ActualsAreKept`.
  `AloneInv` says that an estimate about to be recorded still fits in the ledger
  that will be read again (`Affordable`), restarts included, and before the first
  restart that grants and reported costs are on file or in the image about to be
  (`Recorded`). What is spent is a fold. `SubsetInduction` is induction over
  finite sets stated for a set of sets in place of a predicate, which the provers
  can instantiate; with it `SumIsCells` shows the fold equal to the cardinality
  of a diagram, a row of cells for each entry, and replacing an entry adds and
  removes rows.
* `LifecycleProofs`: `TypeCorrect`, `DiskAgrees`. `DiskMatchesMemory` is not
  inductive: between requests nothing is said of the requests under way. The
  invariant `CaughtUp` says that some thread still has its put to make, or
  the one that saves holds an image that is current, or the file is current;
  with `LockHeld` (who saves holds the lock) it is inductive.
* `BuildGateProofs`: `TypeCorrect`, `ChainsAreClosed`, `TornAreFilled`,
  `HighRisksApproved`. `Chain` adds to `ChainsClosed` what requests under way
  have loaded: what a load let through was whole, and since then it may have been
  truncated again or removed, and nothing else (`Known`).
  `Signatures` says of a run that is past the gate that its approval was in
  force when read or that its report has been truncated again, and of an
  approval file that its time was granted.
* `BuildPipelineProofs`: `TypeCorrect`, `PlansAreSaved`, `RegistrationsAreKept`,
  `RegistryDescribesTrees`. `Saved` extends to the copies in hand, each of whose
  builds has a whole plan, a cut one or one being written; `AllCounted`
  counts a copy that is about to be written; `AllDescribed` says how far the
  build of an undisturbed job has come: which files are new, and that its plan
  is its own.
* `AIGatewayProofs`: `TypeCorrect`, `OverspendIsBounded`, `TriagesAreRemembered`,
  `CallsAreBilled`. `Headroom` counts, for every thread past the gate, what it may
  still add to what was billed; the bound follows from the number of threads.
  `Shown` says that while no rewrite overlapped another the file has all that was
  billed, unless its one writer has emptied it, and `Honest` that no file or image
  ever has more, overlaps or not.
  `Numbered` ties each triage under way to its number. `Balanced` says that what
  was paid is billed, unbilled or in the hands of a thread: that last
  sum is a cardinality again, each thread's cost a column of cells.
* `ServicesProofs` is about `MCServices!Spec`, which the run `services` checks:
  a behaviour keeps the invariant of the one service it is of. It carries over
  the theorems of the gate, the builds and the AI gateway, and proves those of
  the four small services in place.
  Advisors (`DependenciesAreFirst`, `FailsExactlyIfCircular`): `Sorting` relates
  each degree to the dependencies that are not yet in the order, and the queue
  to the nodes of degree zero; if the loop stops early and no dependency is missing,
  those left wait for one another, and no member of a circle enters the order.
  Request path (`RatesAreBounded`, `IdsAreOwn`): `Windows` says that the windows
  a key has had do not overlap, that each began with a request and admitted at
  most the limit; a stretch of one window's length meets two of them at most,
  and misses the beginning of the first or the second altogether. `FiltersFit`
  says that each request being handled has its filter, once, and nobody else has.
  Model registry (`AnswersAreKept`): `Kept` says that file, dictionary and the
  copy in a request's hands all cover what was answered, and what the temporary
  file holds at each step.
  Federation (`HeadsAreMaterialized`): `Clones` says that a clone in use is
  complete, `Alone` that the only sync of a name leaves its files alone until it
  has a checkout, has copied that before it answers, and is remembered in `halted`
  if it fails between the two.
* `SyncProofs`: `TypeCorrect`, `FreshPlansAreTrue`, `UpstreamIsFetchedFrom`,
  `BaselineIsInHead`, `UnignoredIsNeverApplied`. The
  invariant has a part for each question, with the types of a request at each
  of its steps (`Typed`).
  `PlansTrue`: unless a head has gone back, heads only grow, so a plan whose
  heads are the heads at the end of its making had them all along; and a plan that a
  reset brings back was true of heads that have only grown since.
  `UpstreamTrue`: while requests that move the upstream do not meet, the one
  under way has told git and the configuration of the same repository (`Told`),
  histories are of one repository (`Origins`), and the baseline is behind HEAD but
  for the steps between a reset and the write that follows it.
  `Shut`: without an entry in `.gitignore` a plan is either uncommitted, which
  the guard sees, or in HEAD's commit. That a new commit never is an old plan's head,
  and that a plan in a commit is of an earlier one, needs their dates (`Dated`); that
  nobody makes a plan that has been made needs that its name is new (`Unmade`).
  `AncestorIs` and `AncestorOrder` give being a prefix as an order, and
  `MergeBaseType` that a longest common prefix exists.

**Model-checked only.** The liveness property `RunsSettle`: it rests on fairness,
hence on ENABLED, which these provers do not handle. The
runs that expect a violation refute what they check, on the instance they give.

## The plan

Done: `Executor` with `JobLifecycle`, `Budget` with `LedgerEntries`,
`LifecycleStore`; `BuildGate`, `BuildPipeline`, `AdvisorGraph`, `Federation`,
`RequestPath`, `AIGateway`, `ModelRegistry` with `MCServices`; `SyncEngine`; a
theorem for each safety property of their passing runs and for the refinement of
`JobLifecycle`. Left:

1. Record and ledger of an apply in one module, with tenants and build ids on
   the record: what a job that ran has in the ledger (execution.py:206,
   guards.py:97).
2. The lemmas that the modules of proofs share (cells of a sum, ranks in a
   sequence without repetition) in one module.
3. A smaller instance of `SyncEngine` with two paths, so that renames occur in a
   run too.

## Not modelled

Authentication and roles (checks of one request against static tables), code
generation, cost and preflight arithmetic, intelligence scores, packaging,
signing and supply chain tools, metrics (one lock) and the two user interfaces:
they keep no state that requests share, or keep it trivially. Within the
modelled parts: requests that only read, dry runs and plans alone, the audit log's
and event logs' contents, changes of a tenant's budget
(`set_tenant_limit_usd`), the executor's background triage, search and
clustering of the triage memory, the request body limit, the contents subdirectory
and path filters of federation select, and files of the compiler's chain that a
reset brings back. Reading a small file is one step, and so is the
writing of one that no other request reads half-written:
`federation.json`, `upstream.json` and `baseline.json` are replaced at once here.
The build endpoints import `app.core.workspace.materialize`, which is not in the
repository, so `BuildPipeline` takes it from its use.
