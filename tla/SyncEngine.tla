------------------------------ MODULE SyncEngine ------------------------------
(***************************************************************************)
(* A job's workspace and the upstream it is synchronised with:             *)
(* sync_engine.py with its guardrails, repo.py (connect, fetch, switch)    *)
(* and repo_manager.py.                                                    *)
(*                                                                         *)
(* A plan records the two heads and, for each file in its scope that       *)
(* differs, whether it may be taken from upstream without a look.  An      *)
(* apply checks that the workspace is clean and the heads are still those, *)
(* then overwrites those files one by one.  Other requests come between    *)
(* two readings of the heads, two writes of a file, and a git command that *)
(* changes something and the next; git commands that only read the heads   *)
(* and the baseline are taken together where PlanTopology does.            *)
(*                                                                         *)
(* A commit is the sequence of commits that led to it, so that an ancestor *)
(* is a prefix; each has its date, for git gives two commits of one tree   *)
(* different names.  The control files are in .copilot/, inside the        *)
(* workspace; nothing in the program makes git ignore them, but the        *)
(* workspace's own .gitignore may ("ignored"), as it may any other file    *)
(* ("Hidden").  Control files that are not ignored are committed with the  *)
(* rest, published with it and restored by a reset ("kept").               *)
(***************************************************************************)
EXTENDS Naturals, Sequences

CONSTANTS
  Repos, Paths, Contents, Workers, None,
  Hidden,       \* the files .gitignore names: git ignores them while it does not
                \*   track them
  Shown,        \* what show_file_at_ref makes of a content
  MaxHistory,   \* bound: of the commits in a history
  MaxRequests, MaxEvents

SyncAssumption ==
  /\ None \notin Workers \cup Repos \cup Contents
  /\ Hidden \subseteq Paths /\ Shown \in [Contents -> Contents]
  /\ MaxHistory \in Nat /\ MaxRequests \in Nat /\ MaxEvents \in Nat
ASSUME SyncAssumption

Trees == [Paths -> Contents \cup {None}]
\* by None: made in the workspace; at: the event that made it.
Commits == [by : Repos \cup {None}, tree : Trees, at : 0..MaxEvents]
Histories == Seq(Commits)

VARIABLES
  remote,             \* the branch in each upstream repository
  head, work,         \* HEAD and the work tree
  url, ref,           \* git's URL of the remote, and its remote-tracking branch
  upstream, baseline, \* upstream.json and baseline.json
  plans,              \* .copilot/plans/
  ignored,            \* whether git ignores .copilot/
  loose,              \* whether .copilot/ holds something HEAD does not
  kept,               \* .copilot/ in the commit that was made at an event
  worker, requests, events,
  applied,            \* history: an apply wrote a file
  rewound,            \* history: HEAD or the branch may have gone back
  mixed               \* history: two requests that move the upstream met
                      \*   halfway, or one stopped halfway

repoVars == <<remote, head, work, url, ref>>
controlVars == <<upstream, baseline, plans, ignored, loose, kept>>
boundVars == <<requests, events>>
historyVars == <<applied, rewound, mixed>>
vars == <<repoVars, controlVars, worker, boundVars, historyVars>>

-----------------------------------------------------------------------------
(* Histories and plans. *)

Tree(h) == h[Len(h)].tree
Ancestor(a, b) == Len(a) <= Len(b) /\ SubSeq(b, 1, Len(a)) = a

MergeBase(a, b) ==
  LET shared == {n \in 0..Len(a) : n <= Len(b) /\ SubSeq(a, 1, n) = SubSeq(b, 1, n)}
  IN SubSeq(a, 1, CHOOSE n \in shared : \A k \in shared : k <= n)

Topology(ws, up) ==
  CASE MergeBase(ws, up) = << >> -> "unrelated_histories"
    [] MergeBase(ws, up) # << >> /\ Ancestor(up, ws) -> "workspace_ahead_linear"
    [] MergeBase(ws, up) # << >> /\ ~Ancestor(up, ws) /\ Ancestor(ws, up)
         -> "workspace_behind_linear"
    [] OTHER -> "diverged"

\* baseline_ref_effective; b is << >> when there is no baseline.
EffectiveBase(b, ws, up) ==
  IF b # << >> /\ Ancestor(b, ws) THEN b
  ELSE IF MergeBase(ws, up) # << >> THEN MergeBase(ws, up) ELSE up

\* compute_sync_risk's auto_apply_allowed: LOW is for linear histories and a
\* baseline both heads descend from.  apply does not ask for it.
AutoApplyAllowed(b, ws, up) ==
  /\ Topology(ws, up) \in {"workspace_ahead_linear", "workspace_behind_linear"}
  /\ b # << >> /\ Ancestor(b, ws) /\ Ancestor(b, up)

\* The apply_mode of a file, from its contents at the three commits.
Mode(kind, base, ws, up) ==
  IF /\ kind \in {"workspace_ahead_linear", "workspace_behind_linear"}
     /\ ws = base /\ up # base
  THEN "safe_auto" ELSE "manual"

\* show_file_at_ref: the text is decoded and stripped.
ShowFileAtRef(h, q) == IF Tree(h)[q] = None THEN None ELSE Shown[Tree(h)[q]]

\* git takes a file that is gone and a new one of the same content for one that
\* was renamed: one item, of no file's name, which no apply writes.
RenamedTo(ws, up, p, q) == Tree(up)[p] = Tree(ws)[q] /\ Tree(ws)[p] = None /\ Tree(up)[q] = None

\* git diff --name-status, of the paths in scope, without the renamed ones; a
\* file that is renamed and changed counts as two.
Differing(ws, up, scope) ==
  {q \in scope : /\ Tree(ws)[q] # Tree(up)[q]
                 /\ \A p \in scope : ~RenamedTo(ws, up, p, q) /\ ~RenamedTo(ws, up, q, p)}

Modes(kind, base, ws, up, scope) ==
  [p \in Differing(ws, up, scope) |->
     Mode(kind, ShowFileAtRef(base, p), ShowFileAtRef(ws, p), ShowFileAtRef(up, p))]

\* "" in a plan whose topology has not been read.
Kinds == {"", "unrelated_histories", "workspace_ahead_linear", "workspace_behind_linear",
          "diverged"}

Commit == Histories \ {<< >>}
Plans == [id : 1..MaxRequests, ws : Commit, up : Commit, base : Histories, kind : Kinds,
          fork : Histories, scope : SUBSET Paths, mode : UNION {[S -> {"safe_auto", "manual"}] : S \in SUBSET Paths},
          auto : BOOLEAN]
NoPlan == [id |-> 0, ws |-> << >>, up |-> << >>, base |-> << >>, kind |-> "", fork |-> << >>,
           scope |-> {}, mode |-> << >>, auto |-> FALSE]

Configs == [repo : Repos \cup {None}, fetched : BOOLEAN]
NoConfig == [repo |-> None, fetched |-> FALSE]

NoSnapshot == [plans |-> {}, upstream |-> NoConfig, baseline |-> << >>]

TypeOK ==
  /\ remote \in [Repos -> Commit] /\ head \in Commit /\ work \in Trees
  /\ url \in Repos \cup {None} /\ ref \in Histories
  /\ upstream \in Configs /\ baseline \in Histories
  /\ \A p \in plans : p \in Plans
  /\ ignored \in BOOLEAN /\ loose \in BOOLEAN
  /\ DOMAIN kept = 0..MaxEvents
  /\ \A e \in 0..MaxEvents :
       /\ \A p \in kept[e].plans : p \in Plans
       /\ kept[e].upstream \in Configs /\ kept[e].baseline \in Histories
  /\ DOMAIN worker = Workers
  /\ \A w \in Workers :
       /\ worker[w].step \in {"idle", "topology", "items", "load", "write", "url", "config",
                              "fetch", "fetched", "rebaseline", "reset", "clean", "base",
                              "again", "replay", "audit"}
       /\ worker[w].plan \in Plans \cup {NoPlan} /\ worker[w].repo \in Repos \cup {None}
       /\ worker[w].todo \subseteq Paths
  /\ requests \in 0..MaxRequests /\ events \in 0..MaxEvents
  /\ applied \in BOOLEAN /\ rewound \in BOOLEAN /\ mixed \in BOOLEAN

Idle == [step |-> "idle", plan |-> NoPlan, repo |-> None, op |-> "", head |-> << >>,
         todo |-> {}]

\* An upstream with two commits; and a workspace that builds made and that
\* knows no upstream, or one that was reset to one of the commits and has
\* fetched the second.
Init ==
  \E one, two \in Contents, q \in Paths :
    LET tree == [p \in Paths |-> one]
        root(r) == <<[by |-> r, tree |-> tree, at |-> 0]>>
        tip(r) == Append(root(r), [by |-> r, tree |-> [tree EXCEPT ![q] = two], at |-> 0])
    IN /\ one # two
       /\ remote = [r \in Repos |-> tip(r)]
       /\ \/ head = root(None) /\ url = None /\ ref = << >>
             /\ upstream = NoConfig /\ baseline = << >>
          \/ \E r \in Repos :
               head \in {root(r), tip(r)} /\ url = r /\ ref = tip(r)
               /\ upstream = [repo |-> r, fetched |-> TRUE] /\ baseline = head
       /\ work = Tree(head)
       /\ plans = {} /\ ignored \in BOOLEAN
       /\ loose = ~ignored
       /\ kept = [e \in 0..MaxEvents |-> NoSnapshot]
       /\ worker = [w \in Workers |-> Idle]
       /\ requests = 0 /\ events = 0
       /\ applied = FALSE /\ rewound = FALSE /\ mixed = FALSE

-----------------------------------------------------------------------------
At(w, step) == worker[w].step = step
Answer(w) == worker' = [worker EXCEPT ![w] = Idle]
GoTo(w, step) == worker' = [worker EXCEPT ![w].step = step]
Become(w, request) == worker' = [worker EXCEPT ![w] = request]
Accept(w) ==
  At(w, "idle") /\ requests < MaxRequests /\ requests' = requests + 1

\* A control file was written or the audit log grew.
Touched == loose' = ~ignored

\* The files git does not track and does not ignore.
Untracked == {p \in Paths \ Hidden : Tree(head)[p] = None /\ work[p] # None}

\* The tracked files that were changed or removed.
Changed == {p \in Paths : Tree(head)[p] # None /\ work[p] # Tree(head)[p]}

\* Mutant of Dirty: files git does not track yet are overlooked.
DirtyTracked == Changed # {}

\* git status --porcelain says something.
Dirty == Changed # {} \/ Untracked # {} \/ loose

\* validate_clean_workspace; validate_baseline is passed by a client that names
\* HEAD, or no commit.
ValidateCleanWorkspace == ~Dirty

-----------------------------------------------------------------------------
(* POST /sync/plan *)

\* Mutant of PlanHeads: upstream need not have been fetched.
PlanUnfetched(w) ==
  /\ Accept(w)
  /\ \E s \in (SUBSET Paths) \ {{}} :
       Become(w, [Idle EXCEPT !.step = "topology",
                              !.plan = [NoPlan EXCEPT !.id = requests + 1, !.ws = head,
                                                      !.up = ref, !.scope = s]])
  /\ UNCHANGED <<repoVars, controlVars, events, historyVars>>

PlanHeads(w) ==
  /\ Accept(w)
  /\ upstream.fetched /\ ref # << >>
  /\ \E s \in (SUBSET Paths) \ {{}} :
       Become(w, [Idle EXCEPT !.step = "topology",
                              !.plan = [NoPlan EXCEPT !.id = requests + 1, !.ws = head,
                                                      !.up = ref, !.scope = s]])
  /\ UNCHANGED <<repoVars, controlVars, events, historyVars>>

\* The refs are read again, by name, and the baseline.
PlanTopology(w) ==
  /\ At(w, "topology")
  /\ Become(w, [worker[w] EXCEPT
       !.step = "items",
       !.plan.kind = Topology(head, ref), !.plan.fork = MergeBase(head, ref),
       !.plan.base = EffectiveBase(baseline, head, ref),
       !.plan.auto = AutoApplyAllowed(baseline, head, ref)])
  /\ UNCHANGED <<repoVars, controlVars, boundVars, historyVars>>

\* And again.
PlanItems(w) ==
  LET p == worker[w].plan IN
  /\ At(w, "items")
  /\ plans' = plans \cup {[p EXCEPT !.mode = Modes(p.kind, p.base, head, ref, p.scope)]}
  /\ Touched /\ Answer(w)
  /\ UNCHANGED <<repoVars, upstream, baseline, ignored, kept, boundVars,
                 historyVars>>

-----------------------------------------------------------------------------
(* POST /sync/apply *)

Apply(w, p) ==
  /\ Accept(w)
  /\ ValidateCleanWorkspace
  /\ Become(w, [Idle EXCEPT !.step = "load", !.plan = p])
  /\ UNCHANGED <<repoVars, controlVars, events, historyVars>>

\* Mutant of Fresh: the head of upstream is not compared.
FreshWorkspace(p) == p.ws = head

Fresh(p) == p.ws = head /\ p.up = ref

\* load_plan and the comparison of the heads.  Manual items are skipped.
ApplyLoad(w) ==
  LET p == worker[w].plan IN
  /\ At(w, "load")
  /\ IF p \in plans /\ Fresh(p)
     THEN Become(w, [worker[w] EXCEPT !.step = "write",
            !.todo = {q \in DOMAIN p.mode : p.mode[q] = "safe_auto"}])
     ELSE Answer(w)
  /\ UNCHANGED <<repoVars, controlVars, boundVars, historyVars>>

\* One item: the content is read from the ref of that name, and a file that
\* upstream does not have is skipped.  What is written is the text that
\* show_file_at_ref made of it.
ApplyWrite(w, q) ==
  LET content == ShowFileAtRef(ref, q) IN
  /\ At(w, "write") /\ q \in worker[w].todo
  /\ work' = IF content = None THEN work ELSE [work EXCEPT ![q] = content]
  /\ worker' = [worker EXCEPT ![w].todo = @ \ {q}]
  /\ applied' = (applied \/ content # None)
  /\ UNCHANGED <<remote, head, url, ref, controlVars, boundVars, rewound, mixed>>

ApplyEnd(w) ==
  /\ At(w, "write") /\ worker[w].todo = {}
  /\ Touched /\ Answer(w)
  /\ UNCHANGED <<repoVars, upstream, baseline, plans, ignored, kept, boundVars,
                 historyVars>>

-----------------------------------------------------------------------------
(* POST /sync/rebase/simulate *)

\* The plan is loaded and its heads are compared as for an apply.  Histories
\* with no commit in common are answered at once.
Simulate(w, p) ==
  /\ Accept(w)
  /\ Fresh(p) /\ p.fork # << >>
  /\ Become(w, [Idle EXCEPT !.step = "replay", !.plan = p])
  /\ UNCHANGED <<repoVars, controlVars, events, historyVars>>

\* rev-list fork..HEAD, the head read by name once more.
CommitsToReplay(p) == {n \in 1..Len(head) : ~Ancestor(SubSeq(head, 1, n), p.fork)}

\* The commits are replayed in a worktree of its own, which is below .copilot/
\* of the workspace; when there are none, nothing is written.
Replay(w) ==
  /\ At(w, "replay")
  /\ IF CommitsToReplay(worker[w].plan) = {}
     THEN Answer(w) /\ UNCHANGED loose
     ELSE Touched /\ GoTo(w, "audit")
  /\ UNCHANGED <<repoVars, upstream, baseline, plans, ignored, kept, boundVars,
                 historyVars>>

\* The rebase is undone, the worktree is removed and the audit log has a line
\* more, whether or not there were conflicts.
SimulateEnd(w) ==
  /\ At(w, "audit")
  /\ Touched /\ Answer(w)
  /\ UNCHANGED <<repoVars, upstream, baseline, plans, ignored, kept, boundVars,
                 historyVars>>

-----------------------------------------------------------------------------
(* Connecting, fetching and switching: one pipeline, entered and left at   *)
(* different steps.                                                        *)

\* Another such request is under way.
Crowded(w) == \E v \in Workers \ {w} : worker[v].op # ""

Connect(w, r) ==
  /\ Accept(w)
  /\ Become(w, [Idle EXCEPT !.step = "url", !.op = "connect", !.repo = r])
  /\ mixed' = (mixed \/ Crowded(w))
  /\ UNCHANGED <<repoVars, controlVars, events, applied, rewound>>

Fetch(w) ==
  /\ Accept(w) /\ upstream # NoConfig
  /\ Become(w, [Idle EXCEPT !.step = "fetch", !.op = "fetch", !.repo = upstream.repo])
  /\ mixed' = (mixed \/ Crowded(w))
  /\ UNCHANGED <<repoVars, controlVars, events, applied, rewound>>

\* The repository may be left out if upstream.json names one.  A reset of a
\* dirty workspace is refused unless it is forced, which any client may do.
Switch(w, r) ==
  /\ Accept(w)
  /\ \E op \in {"replace", "rebaseline", "reset"} :
       Become(w, [Idle EXCEPT !.step = "url", !.op = op, !.repo = r,
                              !.head = IF op = "rebaseline" THEN head ELSE << >>])
  /\ mixed' = (mixed \/ Crowded(w))
  /\ UNCHANGED <<repoVars, controlVars, events, applied, rewound>>

\* add_or_set_remote
SetUrl(w) ==
  /\ At(w, "url")
  /\ url' = worker[w].repo
  /\ GoTo(w, "config")
  /\ UNCHANGED <<remote, head, work, ref, controlVars, boundVars, historyVars>>

\* Mutant of WriteConfig: the file says at once that the fetch was done.
WriteConfigEarly(w) ==
  /\ At(w, "config")
  /\ upstream' = [repo |-> worker[w].repo, fetched |-> TRUE]
  /\ Touched
  /\ IF worker[w].op = "connect" THEN Answer(w) ELSE GoTo(w, "fetch")
  /\ UNCHANGED <<repoVars, baseline, plans, ignored, kept, boundVars,
                 historyVars>>

\* write_upstream before the fetch; connect ends here.
WriteConfig(w) ==
  /\ At(w, "config")
  /\ upstream' = [repo |-> worker[w].repo, fetched |-> FALSE]
  /\ Touched
  /\ IF worker[w].op = "connect" THEN Answer(w) ELSE GoTo(w, "fetch")
  /\ UNCHANGED <<repoVars, baseline, plans, ignored, kept, boundVars,
                 historyVars>>

\* git fetch --prune takes the URL git knows; it may fail.
GitFetch(w) ==
  /\ At(w, "fetch")
  /\ \/ Answer(w) /\ UNCHANGED <<ref, rewound>>
     \/ /\ ref' = remote[url]
        /\ rewound' = (rewound \/ ~Ancestor(ref, ref'))
        /\ GoTo(w, "fetched")
  /\ UNCHANGED <<remote, head, work, url, controlVars, boundVars, applied, mixed>>

\* write_upstream after the fetch, with what was read or made before it.
WriteFetched(w) ==
  /\ At(w, "fetched")
  /\ upstream' = [repo |-> worker[w].repo, fetched |-> TRUE]
  /\ Touched
  /\ CASE worker[w].op \in {"rebaseline", "reset"} -> GoTo(w, worker[w].op)
       [] worker[w].op \in {"fetch", "replace"} -> Answer(w)
  /\ UNCHANGED <<repoVars, baseline, plans, ignored, kept, boundVars,
                 historyVars>>

\* write_baseline with the head that was read at the start.
Rebaseline(w) ==
  /\ At(w, "rebaseline")
  /\ baseline' = worker[w].head
  /\ Touched /\ Answer(w)
  /\ UNCHANGED <<repoVars, upstream, plans, ignored, kept, boundVars,
                 historyVars>>

\* .copilot/ as it is in the last commit of a history.
KeptIn(h) == kept[h[Len(h)].at]

\* git reset --hard: the files either commit knows become those of the ref, the
\* control files among them; the others stay.
CheckOut(from, to) ==
  LET old == KeptIn(from)
      new == KeptIn(to)
  IN /\ work' = [p \in Paths |->
          IF Tree(to)[p] = None /\ Tree(from)[p] = None THEN work[p] ELSE Tree(to)[p]]
     /\ plans' = (plans \ old.plans) \cup new.plans
     /\ upstream' = IF new.upstream = NoConfig /\ old.upstream = NoConfig
                    THEN upstream ELSE new.upstream
     /\ baseline' = IF new.baseline = << >> /\ old.baseline = << >>
                    THEN baseline ELSE new.baseline
     /\ \/ UNCHANGED loose
        \/ /\ loose' = FALSE
           /\ [plans |-> plans', upstream |-> upstream', baseline |-> baseline'] = new

\* The reset is followed by a git clean if that was asked for.  The request may
\* also stop once HEAD has moved.
ResetThen(w, steps) ==
  /\ At(w, "reset")
  /\ head' = ref /\ CheckOut(head, ref)
  /\ rewound' = (rewound \/ ~Ancestor(head, ref))
  /\ \/ (\E s \in steps : GoTo(w, s)) /\ UNCHANGED mixed
     \/ Answer(w) /\ mixed' = TRUE
  /\ UNCHANGED <<remote, url, ref, ignored, kept, boundVars, applied>>

\* Mutant of Reset: the baseline is not set to the new HEAD.
ResetUnbased(w) == ResetThen(w, {"again"})

Reset(w) == ResetThen(w, {"clean", "base"})

\* git reset --hard fails before it moves HEAD, with some of the files written.
ResetFails(w) ==
  /\ At(w, "reset")
  /\ \E written \in SUBSET Paths :
       work' = [p \in Paths |-> IF p \in written THEN Tree(ref)[p] ELSE work[p]]
  /\ Answer(w)
  /\ UNCHANGED <<remote, head, url, ref, controlVars, boundVars, historyVars>>

\* git clean -fd keeps .copilot/ and what git ignores.  When it fails, the
\* request ends and the baseline is that of another HEAD.
Clean(w) ==
  /\ At(w, "clean")
  /\ \E removed \in SUBSET Untracked :
       /\ work' = [p \in Paths |-> IF p \in removed THEN None ELSE work[p]]
       /\ \/ removed = Untracked /\ GoTo(w, "base") /\ UNCHANGED mixed
          \/ Answer(w) /\ mixed' = TRUE
  /\ UNCHANGED <<remote, head, url, ref, controlVars, boundVars, applied, rewound>>

WriteBase(w) ==
  /\ At(w, "base")
  /\ baseline' = head
  /\ Touched /\ GoTo(w, "again")
  /\ UNCHANGED <<repoVars, upstream, plans, ignored, kept, boundVars,
                 historyVars>>

WriteAgain(w) ==
  /\ At(w, "again")
  /\ upstream' = [repo |-> worker[w].repo, fetched |-> TRUE]
  /\ Touched /\ Answer(w)
  /\ UNCHANGED <<repoVars, baseline, plans, ignored, kept, boundVars,
                 historyVars>>

-----------------------------------------------------------------------------
(* Builds, users, the upstream's own developers, and restarts. *)

Happens == events < MaxEvents /\ events' = events + 1

\* A build materialises a file, or somebody edits one.
Edit(q, c) ==
  /\ Happens /\ work[q] # c
  /\ work' = [work EXCEPT ![q] = c]
  /\ UNCHANGED <<remote, head, url, ref, controlVars, worker, requests, historyVars>>

\* commit_all: git add -A takes all that git does not ignore.
CommitAll ==
  /\ Happens /\ Dirty /\ Len(head) < MaxHistory
  /\ head' = Append(head, [by |-> None, at |-> events + 1, tree |-> [p \in Paths |->
                 IF p \in Hidden /\ Tree(head)[p] = None THEN None ELSE work[p]]])
  /\ loose' = FALSE
  /\ kept' = [kept EXCEPT ![events + 1] = IF ignored THEN NoSnapshot ELSE
                 [plans |-> plans, upstream |-> upstream, baseline |-> baseline]]
  /\ UNCHANGED <<remote, work, url, ref, upstream, baseline, plans, ignored, worker,
                 requests, historyVars>>

\* Upstream's developers do not touch the control files that were published.
Push(r, q, c) ==
  /\ Happens /\ Len(remote[r]) < MaxHistory /\ Tree(remote[r])[q] # c
  /\ remote' = [remote EXCEPT ![r] =
       Append(@, [by |-> r, tree |-> [Tree(@) EXCEPT ![q] = c], at |-> events + 1])]
  /\ kept' = [kept EXCEPT ![events + 1] = KeptIn(remote[r])]
  /\ UNCHANGED <<head, work, url, ref, upstream, baseline, plans, ignored, loose, worker,
                 requests, historyVars>>

ForcePush(r) ==
  /\ Happens /\ Len(remote[r]) > 1
  /\ remote' = [remote EXCEPT ![r] = SubSeq(@, 1, Len(@) - 1)]
  /\ UNCHANGED <<head, work, url, ref, controlVars, worker, requests, historyVars>>

\* The workspace's commits reach upstream.
Publish(r) ==
  /\ Happens /\ url = r /\ Ancestor(remote[r], head) /\ remote[r] # head
  /\ remote' = [remote EXCEPT ![r] = head]
  /\ UNCHANGED <<head, work, url, ref, controlVars, worker, requests, historyVars>>

Crash ==
  /\ Happens
  /\ worker' = [w \in Workers |-> Idle]
  /\ mixed' = (mixed \/ \E w \in Workers : worker[w].op # "")
  /\ UNCHANGED <<repoVars, controlVars, requests, applied, rewound>>

Configure(w) ==
  \/ \E r \in Repos : Connect(w, r) \/ Switch(w, r)
  \/ Fetch(w) \/ SetUrl(w) \/ WriteConfig(w) \/ GitFetch(w) \/ WriteFetched(w)
  \/ Rebaseline(w) \/ Reset(w) \/ ResetFails(w) \/ Clean(w) \/ WriteBase(w) \/ WriteAgain(w)

Synchronise(w) ==
  \/ PlanHeads(w) \/ PlanTopology(w) \/ PlanItems(w)
  \/ (\E p \in plans : Apply(w, p)) \/ ApplyLoad(w)
  \/ (\E q \in Paths : ApplyWrite(w, q)) \/ ApplyEnd(w)
  \/ (\E p \in plans : Simulate(w, p)) \/ Replay(w) \/ SimulateEnd(w)

Environment ==
  \/ \E q \in Paths, c \in Contents \cup {None} : Edit(q, c) \/ \E r \in Repos : Push(r, q, c)
  \/ CommitAll
  \/ \E r \in Repos : ForcePush(r) \/ Publish(r)

Next ==
  \/ \E w \in Workers : Configure(w) \/ Synchronise(w)
  \/ Environment \/ Crash

Spec == Init /\ [][Next]_vars

-----------------------------------------------------------------------------
(* Properties. *)

\* As long as neither head has gone back, a plan that passes the comparison of
\* the heads has the items of those heads, although it read them by name three
\* times (sync_engine.py:363, 421, 578).
FreshPlanTrue ==
  \A p \in plans : ~rewound /\ Fresh(p) =>
    /\ p.kind = Topology(head, ref)
    /\ p.mode = Modes(p.kind, p.base, head, ref, p.scope)

\* upstream.json says that the fetch was done only when the remote-tracking
\* branch came from the repository it names, unless a reset has just brought a
\* committed upstream.json back, or two requests of the kind overlapped or one
\* stopped halfway (repo.py:318-341).
FetchedFromUpstream ==
  /\ ~mixed /\ upstream.fetched
  /\ \A w \in Workers : worker[w].step \notin {"clean", "base", "again"}
  => \A i \in DOMAIN ref : ref[i].by \in {upstream.repo, None}

\* In a workspace whose .gitignore does not name .copilot/, every plan makes
\* the workspace dirty, and no apply gets past the guard (guardrails.py:29)
\* before HEAD has moved on.
UnignoredNeverApplied == applied => ignored

\* The baseline is HEAD or one of its ancestors, through commits, switches and
\* resets that bring committed control files back, except between a reset and
\* the write that follows it and after a request that stopped there: a plan of
\* another baseline falls back to the merge base, without a word (repo.py:333-337,
\* sync_engine.py:402).
BaselineInHead ==
  /\ ~mixed
  /\ \A w \in Workers : worker[w].step \notin {"clean", "base"}
  => baseline = << >> \/ Ancestor(baseline, head)

=============================================================================
