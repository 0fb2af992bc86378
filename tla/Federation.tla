------------------------------ MODULE Federation ------------------------------
(***************************************************************************)
(* The repositories federated into a job's workspace:                      *)
(* federation_manager.py and the requests of endpoints/federation.py.      *)
(*                                                                         *)
(* For each name there is a specification in federation.json, a clone in   *)
(* _git_cache, a temporary checkout and a directory with the materialised  *)
(* files.  The clone gets its local branch when it is made; a fetch moves  *)
(* the remote-tracking branch only, and "git worktree add" takes the local *)
(* one.  Nothing is locked.                                                *)
(***************************************************************************)
EXTENDS Naturals, Sequences, FiniteSets

CONSTANTS
  Names, Urls, Workers,
  None,         \* nothing there
  Broken,       \* a clone that is not complete, a directory that is
  MaxCommits, MaxRequests, MaxCrashes

VARIABLES
  tip,          \* how many commits the branch has at each URL
  config,       \* federation.json: the URL of each name
  cache, checkout, materialized,
  worker, requests, crashes,
  answer,       \* history: the head that the last sync of a name answered
  raced,        \* history: names two requests synchronised at once, or that
                \*   were cut short
  halted        \* history: names whose files the last sync emptied, and then
                \*   ended in an error

vars == <<tip, config, cache, checkout, materialized, worker, requests, crashes,
          answer, raced, halted>>

Commits == [url : Urls, n : 1..MaxCommits]
Caches == [origin : Urls, tracking : Commits, local : Commits]
RepoSpecs == [name : Names, url : Urls]

\* MCServices assumes this of the instance it checks.
FederationAssumption ==
  /\ IsFiniteSet(Names) /\ {None, Broken} \cap (Commits \cup Caches) = {}
  /\ None # Broken
  /\ MaxCommits \in Nat \ {0} /\ MaxRequests \in Nat /\ MaxCrashes \in Nat

TypeOK ==
  /\ tip \in [Urls -> 1..MaxCommits]
  /\ config \in [Names -> Urls \cup {None}]
  /\ \A n \in Names : cache[n] \in Caches \cup {None, Broken}
  /\ checkout \in [Names -> Commits \cup {None}]
  /\ materialized \in [Names -> Commits \cup {None, Broken}]
  /\ \A w \in Workers :
       /\ worker[w].step \in {"idle", "save", "sync", "clone", "fetch", "clean", "add",
                              "empty", "copy", "head"}
       /\ worker[w].todo \in Seq(RepoSpecs)
  /\ requests \in 0..MaxRequests /\ crashes \in 0..MaxCrashes
  /\ \A n \in Names : answer[n] \in Commits \cup {None}
  /\ raced \subseteq Names /\ halted \subseteq Names

Idle == [step |-> "idle", todo |-> << >>, copy |-> << >>, on |-> FALSE]

Init ==
  /\ tip = [u \in Urls |-> 1]
  /\ config = [n \in Names |-> None]
  /\ cache = [n \in Names |-> None] /\ checkout = [n \in Names |-> None]
  /\ materialized = [n \in Names |-> None]
  /\ worker = [w \in Workers |-> Idle]
  /\ requests = 0 /\ crashes = 0
  /\ answer = [n \in Names |-> None]
  /\ raced = {} /\ halted = {}

-----------------------------------------------------------------------------
At(w, step) == worker[w].step = step
GoTo(w, step) == worker' = [worker EXCEPT ![w].step = step]
Answer(w) == worker' = [worker EXCEPT ![w] = Idle]
Target(w) == Head(worker[w].todo)

\* The names a thread has begun to synchronise.
Busy(w) == IF worker[w].step \in {"clone", "fetch", "clean", "add", "empty", "copy", "head"}
           THEN {Target(w).name} ELSE {}

Accept(w) ==
  At(w, "idle") /\ requests < MaxRequests /\ requests' = requests + 1

\* POST /federation/connect: upsert_repo loads the configuration and replaces
\* the entry of that name; "on" if the client wants a sync.
Connect(w, n, u) ==
  /\ Accept(w)
  /\ \E sync \in BOOLEAN :
       worker' = [worker EXCEPT ![w] =
         [step |-> "save", todo |-> <<[name |-> n, url |-> u]>>,
          copy |-> [config EXCEPT ![n] = u], on |-> sync]]
  /\ UNCHANGED <<tip, config, cache, checkout, materialized, crashes, answer, raced,
                 halted>>

\* save_federation_config
Save(w) ==
  /\ At(w, "save")
  /\ config' = worker[w].copy
  /\ IF worker[w].on THEN GoTo(w, "sync") ELSE Answer(w)
  /\ UNCHANGED <<tip, cache, checkout, materialized, requests, crashes, answer, raced,
                 halted>>

\* POST /federation/sync of one name or of all of them, in the order of the
\* configuration, which is any order here.
Sync(w) ==
  /\ Accept(w)
  /\ LET known == {s \in RepoSpecs : config[s.name] = s.url} IN
     \E some \in {{s} : s \in known} \cup {known} :
     \E todo \in [1..Cardinality(some) -> some] :
       /\ \A i, k \in DOMAIN todo : i # k => todo[i] # todo[k]
       /\ some # {}
       /\ worker' = [worker EXCEPT ![w] = [Idle EXCEPT !.step = "sync", !.todo = todo]]
  /\ UNCHANGED <<tip, config, cache, checkout, materialized, crashes, answer, raced,
                 halted>>

-----------------------------------------------------------------------------
(* sync_repo *)

\* Is there a clone?  If not git starts one; if so its origin is set, which
\* fails in a clone that is not complete.
SyncBegin(w) ==
  LET n == Target(w).name  u == Target(w).url IN
  /\ At(w, "sync")
  /\ raced' = IF \E v \in Workers \ {w} : n \in Busy(v) THEN raced \cup {n} ELSE raced
  /\ CASE cache[n] = None ->
            cache' = [cache EXCEPT ![n] = Broken] /\ GoTo(w, "clone")
       [] cache[n] = Broken -> UNCHANGED cache /\ Answer(w)
       [] cache[n] \notin {None, Broken} ->
            cache' = [cache EXCEPT ![n].origin = u] /\ GoTo(w, "fetch")
  /\ UNCHANGED <<tip, config, checkout, materialized, requests, crashes, answer, halted>>

\* git clone --no-checkout makes both branches.
Clone(w) ==
  LET u == Target(w).url  c == [url |-> u, n |-> tip[u]] IN
  /\ At(w, "clone")
  /\ cache' = [cache EXCEPT ![Target(w).name] = [origin |-> u, tracking |-> c, local |-> c]]
  /\ GoTo(w, "clean")
  /\ UNCHANGED <<tip, config, checkout, materialized, requests, crashes, answer, raced,
                 halted>>

\* git fetch --all --prune
FetchAll(w) ==
  LET n == Target(w).name  u == cache[n].origin IN
  /\ At(w, "fetch")
  /\ cache' = [cache EXCEPT ![n].tracking = [url |-> u, n |-> tip[u]]]
  /\ GoTo(w, "clean")
  /\ UNCHANGED <<tip, config, checkout, materialized, requests, crashes, answer, raced,
                 halted>>

\* _clean_dir of the temporary checkout
CleanCheckout(w) ==
  /\ At(w, "clean")
  /\ checkout' = [checkout EXCEPT ![Target(w).name] = None]
  /\ GoTo(w, "add")
  /\ UNCHANGED <<tip, config, cache, materialized, requests, crashes, answer, raced,
                 halted>>

\* git worktree add --force <dir> main: the local branch, in an empty directory.
WorktreeAdd(w) ==
  LET n == Target(w).name IN
  /\ At(w, "add")
  /\ IF checkout[n] = None
     THEN checkout' = [checkout EXCEPT ![n] = cache[n].local] /\ GoTo(w, "empty")
     ELSE UNCHANGED checkout /\ Answer(w)
  /\ UNCHANGED <<tip, config, cache, materialized, requests, crashes, answer, raced,
                 halted>>

\* _clean_dir of the materialised files
Empty(w) ==
  /\ At(w, "empty")
  /\ materialized' = [materialized EXCEPT ![Target(w).name] = Broken]
  /\ GoTo(w, "copy")
  /\ UNCHANGED <<tip, config, cache, checkout, requests, crashes, answer, raced,
                 halted>>

\* Mutant of Copy: the copy stops at the first file.
CopyFirst(w) ==
  /\ At(w, "copy")
  /\ GoTo(w, "head")
  /\ UNCHANGED <<tip, config, cache, checkout, materialized, requests, crashes, answer, raced,
                 halted>>

\* _copy_selected: if somebody removed the checkout there is nothing to copy.
Copy(w) ==
  LET n == Target(w).name IN
  /\ At(w, "copy")
  /\ IF checkout[n] = None
     THEN halted' = halted \cup {n} /\ UNCHANGED materialized /\ Answer(w)
     ELSE /\ materialized' = [materialized EXCEPT ![n] = checkout[n]]
          /\ UNCHANGED halted /\ GoTo(w, "head")
  /\ UNCHANGED <<tip, config, cache, checkout, requests, crashes, answer, raced>>

\* git rev-parse and git worktree remove; then the next repository.
Finish(w) ==
  LET n == Target(w).name  rest == Tail(worker[w].todo) IN
  /\ At(w, "head")
  /\ IF checkout[n] = None
     THEN halted' = halted \cup {n} /\ UNCHANGED <<checkout, answer>> /\ Answer(w)
     ELSE /\ checkout' = [checkout EXCEPT ![n] = None]
          /\ answer' = [answer EXCEPT ![n] = checkout[n]]
          /\ halted' = halted \ {n}
          /\ IF rest = << >> THEN Answer(w)
             ELSE worker' = [worker EXCEPT ![w] = [@ EXCEPT !.step = "sync", !.todo = rest]]
  /\ UNCHANGED <<tip, config, cache, materialized, requests, crashes, raced>>

\* A git command fails, or the subdir or a path is not in the checkout: the
\* error ends the request, with nothing put back.  git removes the clone it
\* could not finish.
Fail(w) ==
  LET n == Target(w).name IN
  /\ worker[w].step \in {"clone", "fetch", "add", "copy", "head"}
  /\ cache' = IF At(w, "clone") THEN [cache EXCEPT ![n] = None] ELSE cache
  /\ halted' = IF worker[w].step \in {"copy", "head"} THEN halted \cup {n} ELSE halted
  /\ Answer(w)
  /\ UNCHANGED <<tip, config, checkout, materialized, requests, crashes, answer, raced>>

-----------------------------------------------------------------------------
Push(u) ==
  /\ tip[u] < MaxCommits /\ tip' = [tip EXCEPT ![u] = @ + 1]
  /\ UNCHANGED <<config, cache, checkout, materialized, worker, requests, crashes,
                 answer, raced, halted>>

\* A clone that was being made stays as it is.
Crash ==
  /\ crashes < MaxCrashes /\ crashes' = crashes + 1
  /\ worker' = [w \in Workers |-> Idle]
  /\ raced' = raced \cup UNION {Busy(w) : w \in Workers}
  /\ UNCHANGED <<tip, config, cache, checkout, materialized, requests, answer, halted>>

Step(w) ==
  \/ \E n \in Names, u \in Urls : Connect(w, n, u)
  \/ Save(w) \/ Sync(w) \/ SyncBegin(w) \/ Clone(w) \/ FetchAll(w) \/ CleanCheckout(w)
  \/ WorktreeAdd(w) \/ Empty(w) \/ Copy(w) \/ Finish(w)
  \/ Fail(w)

Next == (\E w \in Workers : Step(w)) \/ (\E u \in Urls : Push(u)) \/ Crash

Spec == Init /\ [][Next]_vars

-----------------------------------------------------------------------------
(* Properties. *)

Quiet(n) == \A w \in Workers : n \notin Busy(w)

\* Between requests, the materialised files are those of the head the last sync
\* answered with, whatever failed since before the files were emptied, unless
\* two requests synchronised the name at once, or one was cut short or failed
\* after that (sync_repo).
HeadIsMaterialized ==
  \A n \in Names \ (raced \cup halted) :
    Quiet(n) /\ answer[n] # None => materialized[n] = answer[n]

=============================================================================
