------------------------------ MODULE SyncProofs ------------------------------
(***************************************************************************)
(* Proofs about SyncEngine, for any repositories, paths, contents,         *)
(* threads, requests and events.                                           *)
(*                                                                         *)
(* None of its properties is inductive.  What a plan says is true because  *)
(* heads that only go forward never come back to a plan they have left,    *)
(* nor to one a reset brings back (PlansTrue); upstream.json and the       *)
(* baseline are true because the URL, the files, the tracking branch and   *)
(* HEAD are those of the one request that is moving them (Told); and a     *)
(* plan that git sees is made before the commit that holds it and dirties  *)
(* the workspace until that commit (Dated, Unmade, Shut).                  *)
(*                                                                         *)
(* The actions are first put in a common form: a request becomes another   *)
(* one, the others stay, and so many variables with them.                  *)
(***************************************************************************)
EXTENDS SyncEngine, SequenceTheorems, WellFoundedInduction, TLAPS

-----------------------------------------------------------------------------
(* The parts of the invariant. *)

Steps == {"idle", "topology", "items", "load", "write", "url", "config", "fetch", "fetched",
          "rebaseline", "reset", "clean", "base", "again", "replay", "audit"}
\* The steps of a request that moves the upstream, those after its URL is set,
\* and those after its fetch.
Moving == {"url", "config", "fetch", "fetched", "rebaseline", "reset", "clean", "base", "again"}
Fetching == Moving \ {"url"}
Fetched == Fetching \ {"config", "fetch"}
\* The steps of a plan being made, and of one in use.
Making == {"topology", "items"}
Using == {"load", "write", "replay"}

Request == [step : Steps, plan : Plans \cup {NoPlan}, repo : Repos \cup {None},
            op : {"", "connect", "fetch", "replace", "rebaseline", "reset"},
            head : Histories, todo : SUBSET Paths]

\* What a request has at each step, u being the URL and r the tracking branch.
Placed(v, u, r) ==
  /\ v.op # "" <=> v.step \in Moving
  /\ v.step \in Moving => v.repo \in Repos
  /\ v.step \in {"fetch", "fetched"} => v.op # "connect"
  /\ v.step = "rebaseline" => v.op = "rebaseline"
  /\ v.step \in {"reset", "clean", "base", "again"} => v.op = "reset"
  /\ v.step \in Fetching => u \in Repos
  /\ v.step \in Making \cup Using => v.plan \in Plans
  /\ v.step \in Making \cup Using \cup Fetched => r # << >>

\* The control files a commit holds.
Snapshot(s) ==
  /\ \A p \in s.plans : p \in Plans
  /\ s.upstream \in Configs /\ (s.upstream = NoConfig \/ s.upstream.repo \in Repos)
  /\ s.baseline \in Histories

Data ==
  /\ remote \in [Repos -> Commit] /\ head \in Commit /\ work \in Trees
  /\ url \in Repos \cup {None} /\ ref \in Histories
  /\ upstream \in Configs /\ baseline \in Histories
  /\ \A p \in plans : p \in Plans
  /\ ignored \in BOOLEAN /\ loose \in BOOLEAN
  /\ DOMAIN kept = 0..MaxEvents /\ \A e \in 0..MaxEvents : Snapshot(kept[e])
  /\ requests \in 0..MaxRequests /\ events \in 0..MaxEvents
  /\ applied \in BOOLEAN /\ rewound \in BOOLEAN /\ mixed \in BOOLEAN

Typed ==
  /\ Data
  /\ worker \in [Workers -> Request]
  /\ \A w \in Workers : Placed(worker[w], url, ref)
  /\ upstream = NoConfig \/ (upstream.repo \in Repos /\ url \in Repos)
  /\ plans # {} => ref # << >>

\* Plans are about commits that have been: they are not ahead of the heads.
Behind(p) == Ancestor(p.ws, head) /\ Ancestor(p.up, ref)
KindTrue(p) == Fresh(p) => p.kind = Topology(head, ref)
ModeTrue(p) == Fresh(p) => p.mode = Modes(p.kind, p.base, head, ref, p.scope)

\* The plans there are, and those some commit has.
Recorded == plans \cup UNION {kept[e].plans : e \in 0..MaxEvents}

PlansTrue == ~rewound =>
  /\ \A p \in Recorded : Behind(p) /\ KindTrue(p) /\ ModeTrue(p)
  /\ \A w \in Workers :
       /\ worker[w].step \in Making => Behind(worker[w].plan)
       /\ worker[w].step = "items" => KindTrue(worker[w].plan)

\* Where commits come from.
Own(h, r) == \A i \in 1..Len(h) : h[i].by \in {r, None}
Uniform(h) == h # << >> => Own(h, h[1].by)

Origins ==
  /\ \A r \in Repos : remote[r][1].by = r /\ Own(remote[r], r)
  /\ Uniform(head) /\ Uniform(ref)

Alone == \A v, w \in Workers : worker[v].op # "" /\ worker[w].op # "" => v = w

Told(v) ==
  /\ v.step \in Fetching => url = v.repo
  /\ v.step \in {"fetch", "fetched", "rebaseline", "reset"} => upstream.repo = v.repo
  /\ v.step \in Fetched => Own(ref, v.repo)
  /\ v.op = "rebaseline" => Ancestor(v.head, head)

Nobody(steps) == \A w \in Workers : worker[w].step \notin steps

TrueNow ==
  /\ Alone
  /\ \A w \in Workers : Told(worker[w])
  /\ Nobody({"config", "clean", "base", "again"}) => upstream = NoConfig \/ url = upstream.repo
  /\ Nobody({"clean", "base", "again"}) /\ upstream.fetched => Own(ref, upstream.repo)
  /\ Nobody({"clean", "base"}) /\ baseline # << >> => Ancestor(baseline, head)

UpstreamTrue == ~mixed => TrueNow

\* Commits and plans are as old as the model says.
Old(h) == \A i \in 1..Len(h) : h[i].at <= events
Dated ==
  /\ \A r \in Repos : Old(remote[r])
  /\ Old(head) /\ Old(ref)
  /\ \A p \in Recorded : Old(p.ws) /\ p.id <= requests
  /\ \A e \in 0..MaxEvents : \A p \in kept[e].plans : p.ws[Len(p.ws)].at < e
  /\ \A w \in Workers : Old(worker[w].plan.ws) /\ worker[w].plan.id <= requests

\* Nobody makes a plan that has been made.
Unmade == \A w \in Workers : worker[w].step \in Making =>
  /\ \A p \in Recorded : p.id # worker[w].plan.id
  /\ \A v \in Workers \ {w} :
       worker[v].step \in Making \cup {"load"} => worker[v].plan.id # worker[w].plan.id

Shut == ~ignored =>
  /\ ~applied
  /\ \A p \in plans : p \in KeptIn(head).plans \/ loose
  /\ \A w \in Workers :
       /\ worker[w].step # "write"
       /\ worker[w].step = "load" /\ worker[w].plan \in plans =>
            worker[w].plan \in KeptIn(head).plans

-----------------------------------------------------------------------------
(* Histories. *)

LEMMA AncestorIs ==
  ASSUME NEW a \in Histories, NEW b \in Histories
  PROVE  Ancestor(a, b) <=> Len(a) <= Len(b) /\ \A i \in 1..Len(a) : a[i] = b[i]
<1> USE DEF Histories
<1>1. CASE Len(a) <= Len(b)
  <2> DEFINE c == SubSeq(b, 1, Len(a))
  <2>1. c \in Seq(Commits) /\ Len(c) = Len(a) /\ \A i \in 1..Len(a) : c[i] = b[i]
    BY <1>1
  <2> HIDE DEF c
  <2>2. c = a <=> \A i \in 1..Len(a) : c[i] = a[i]
    BY <2>1, SeqEqual
  <2> QED BY <1>1, <2>1, <2>2 DEF Ancestor, c
<1>2. CASE ~(Len(a) <= Len(b))
  BY <1>2 DEF Ancestor
<1> QED BY <1>1, <1>2

LEMMA TreeType ==
  ASSUME NEW h \in Histories, h # << >>
  PROVE  h \in Commit /\ Tree(h) \in Trees /\ \A q \in Paths : Tree(h)[q] \in Contents \cup {None}
<1>1. h \in Seq(Commits) /\ h # << >>
  BY DEF Histories
<1>2. Len(h) \in 1..Len(h)
  BY <1>1
<1>3. h[Len(h)] \in Commits
  BY <1>1, <1>2
<1>4. Tree(h) \in Trees
  BY <1>3 DEF Commits, Tree
<1> QED BY <1>4 DEF Trees, Commit

LEMMA AncestorOrder ==
  ASSUME NEW a \in Histories, NEW b \in Histories, NEW c \in Histories
  PROVE  /\ Ancestor(a, a)
         /\ Ancestor(a, b) /\ Ancestor(b, c) => Ancestor(a, c)
         /\ Ancestor(a, b) /\ Ancestor(b, a) => a = b
<1>1. Ancestor(a, a)
  BY AncestorIs DEF Histories
<1>2. ASSUME Ancestor(a, b), Ancestor(b, c) PROVE Ancestor(a, c)
  BY <1>2, AncestorIs DEF Histories
<1>3. ASSUME Ancestor(a, b), Ancestor(b, a) PROVE a = b
  <2>1. Len(a) = Len(b) /\ \A i \in 1..Len(a) : a[i] = b[i]
    BY <1>3, AncestorIs DEF Histories
  <2> QED BY <2>1, SeqEqual DEF Histories
<1> QED BY <1>1, <1>2, <1>3

LEMMA MergeBaseType ==
  ASSUME NEW a \in Histories, NEW b \in Histories
  PROVE  MergeBase(a, b) \in Histories
<1> DEFINE shared == {n \in 0..Len(a) : n <= Len(b) /\ SubSeq(a, 1, n) = SubSeq(b, 1, n)}
           rest == {k \in Nat : Len(a) - k \in shared}
<1>1. Len(a) \in Nat /\ Len(b) \in Nat
  BY DEF Histories
<1>2. 0 \in shared
  <2>1. SubSeq(a, 1, 0) = << >> /\ SubSeq(b, 1, 0) = << >>
    BY DEF Histories
  <2> QED BY <1>1, <2>1
<1>3. Len(a) \in rest
  BY <1>1, <1>2
<1>4. rest \subseteq Nat /\ rest # {}
  BY <1>3
<1>5. \A n \in shared : n \in 0..Len(a)
  OBVIOUS
<1> HIDE DEF shared, rest
<1>6. PICK k \in rest : \A j \in rest : ~(<<j, k>> \in OpToRel(<, Nat))
  BY <1>4, NatLessThanWellFounded, WFMin
<1>7. k \in Nat /\ \A j \in rest : ~(j < k)
  BY <1>4, <1>6 DEF OpToRel
<1>8. Len(a) - k \in shared
  BY <1>6 DEF rest
<1>9. \A n \in shared : n <= Len(a) - k
  <2> SUFFICES ASSUME NEW n \in shared PROVE n <= Len(a) - k
    OBVIOUS
  <2>1. n \in 0..Len(a)
    BY <1>5
  <2>2. Len(a) - n \in rest
    BY <1>1, <2>1 DEF rest
  <2> QED BY <1>1, <1>7, <2>1, <2>2
<1>10. \E n \in shared : \A m \in shared : m <= n
  BY <1>8, <1>9
<1> DEFINE last == CHOOSE n \in shared : \A m \in shared : m <= n
<1>11. last \in 0..Len(a)
  BY <1>5, <1>10
<1>12. MergeBase(a, b) = SubSeq(a, 1, last)
  BY DEF MergeBase, shared
<1> HIDE DEF last
<1> QED BY <1>1, <1>11, <1>12 DEF Histories

LEMMA EffectiveBaseType ==
  ASSUME NEW a \in Histories, NEW b \in Histories, NEW c \in Histories
  PROVE  EffectiveBase(c, a, b) \in Histories
BY MergeBaseType DEF EffectiveBase

LEMMA TopologyType == ASSUME NEW a, NEW b PROVE Topology(a, b) \in Kinds
BY DEF Topology, Kinds

-----------------------------------------------------------------------------
(* Requests. *)

\* The request of w becomes v, those of the others stay.
Goes(w, v) ==
  /\ worker' \in [Workers -> Request]
  /\ worker'[w] = v
  /\ \A u \in Workers \ {w} : worker'[u] = worker[u]

AnyPlan == [id : 0..MaxRequests, ws : Histories, up : Histories, base : Histories,
            kind : Kinds, fork : Histories, scope : SUBSET Paths,
            mode : UNION {[S -> {"safe_auto", "manual"}] : S \in SUBSET Paths},
            auto : BOOLEAN]

LEMMA NoPlanIsAny == NoPlan \in AnyPlan /\ \A p \in Plans : p \in AnyPlan
<1>1. << >> \in [{} -> {"safe_auto", "manual"}]
  OBVIOUS
<1>2. << >> \in UNION {[S -> {"safe_auto", "manual"}] : S \in SUBSET Paths}
  BY <1>1
<1>3. << >> \in Histories /\ 0 \in 0..MaxRequests
  BY SyncAssumption DEF Histories, SyncAssumption
<1>4. NoPlan \in AnyPlan
  <2> DEFINE M == UNION {[S -> {"safe_auto", "manual"}] : S \in SUBSET Paths}
             n == << >>
  <2>1. n \in M /\ n \in Histories
    BY <1>2, <1>3
  <2>2. NoPlan = [id |-> 0, ws |-> n, up |-> n, base |-> n, kind |-> "", fork |-> n,
                  scope |-> {}, mode |-> n, auto |-> FALSE]
    BY DEF NoPlan
  <2> HIDE DEF M, n
  <2>3. {} \in SUBSET Paths /\ "" \in Kinds
    BY DEF Kinds
  <2>4. NoPlan \in [id : 0..MaxRequests, ws : Histories, up : Histories, base : Histories,
                   kind : Kinds, fork : Histories, scope : SUBSET Paths, mode : M,
                   auto : BOOLEAN]
    BY <1>3, <2>1, <2>2, <2>3
  <2> QED BY <2>4 DEF AnyPlan, M
<1>5. ASSUME NEW p \in Plans PROVE p \in AnyPlan
  <2>1. \A n \in 1..MaxRequests : n \in 0..MaxRequests
    OBVIOUS
  <2>2. \A h \in Commit : h \in Histories
    BY DEF Commit
  <2> HIDE DEF Histories
  <2> QED BY <2>1, <2>2 DEF Plans, AnyPlan
<1> QED BY <1>4, <1>5

LEMMA IdleRequest ==
  Idle \in Request /\ Idle.step = "idle" /\ Idle.op = "" /\ Idle.plan = NoPlan
  /\ Idle.repo = None
BY DEF Idle, Request, Steps, Histories

LEMMA BecomeGoes ==
  ASSUME worker \in [Workers -> Request], NEW w \in Workers, NEW v \in Request, Become(w, v)
  PROVE  Goes(w, v) /\ worker' = [worker EXCEPT ![w] = v]
BY DEF Become, Goes

\* The request of w is over, or at step s now.
Over(w) == Goes(w, Idle) /\ worker' = [worker EXCEPT ![w] = Idle]

GoesOn(w, s) ==
  \E v \in Request :
    /\ v.step = s
    /\ v.plan = worker[w].plan /\ v.repo = worker[w].repo /\ v.op = worker[w].op
    /\ v.head = worker[w].head /\ v.todo = worker[w].todo
    /\ Goes(w, v) /\ worker' = [worker EXCEPT ![w] = v]

LEMMA AnswerGoes ==
  ASSUME worker \in [Workers -> Request], NEW w \in Workers, Answer(w)
  PROVE  Over(w)
BY IdleRequest DEF Answer, Goes, Over

LEMMA GoToGoes ==
  ASSUME worker \in [Workers -> Request], NEW w \in Workers, NEW s \in Steps, GoTo(w, s)
  PROVE  GoesOn(w, s)
<1> DEFINE v == [worker[w] EXCEPT !.step = s]
<1>1. v \in Request /\ v.step = s
      /\ v.plan = worker[w].plan /\ v.repo = worker[w].repo /\ v.op = worker[w].op
      /\ v.head = worker[w].head /\ v.todo = worker[w].todo
  BY DEF Request
<1>2. worker' = [worker EXCEPT ![w] = v]
  BY DEF GoTo
<1> HIDE DEF v
<1>3. Goes(w, v)
  BY <1>1, <1>2 DEF Goes
<1> QED BY <1>1, <1>2, <1>3 DEF GoesOn

\* What is known of a request at work.
LEMMA Here ==
  ASSUME Typed, NEW w \in Workers
  PROVE  LET v == worker[w] IN
         /\ worker \in [Workers -> Request] /\ v \in Request /\ Placed(v, url, ref)
         /\ v.step \in Steps /\ v.plan \in Plans \cup {NoPlan} /\ v.repo \in Repos \cup {None}
         /\ v.op \in {"", "connect", "fetch", "replace", "rebaseline", "reset"}
         /\ v.head \in Histories /\ v.todo \subseteq Paths
         /\ v.plan \in AnyPlan
BY NoPlanIsAny DEF Typed, Request

-----------------------------------------------------------------------------
(* What the requests do, one lemma for each group of actions. *)

\* A request that moves the upstream meets another.
Meets(w) == mixed' = (mixed \/ Crowded(w))

\* v is a request just accepted.
Accepted(w, v) ==
  \/ /\ v.step = "topology" /\ v.op = "" /\ UNCHANGED mixed
     /\ v.plan \in Plans /\ v.plan.id = requests + 1 /\ v.plan.ws = head /\ v.plan.up = ref
     /\ ref # << >>
  \/ /\ v.step = "load" /\ v.op = "" /\ v.plan \in plans /\ ~Dirty /\ UNCHANGED mixed
  \/ /\ v.step = "replay" /\ v.op = "" /\ v.plan \in plans /\ UNCHANGED mixed
  \/ /\ v.step = "fetch" /\ v.op = "fetch" /\ v.repo = upstream.repo /\ upstream # NoConfig
     /\ v.plan = NoPlan /\ Meets(w)
  \/ /\ v.step = "url" /\ v.op \in {"connect", "replace", "rebaseline", "reset"}
     /\ v.repo \in Repos /\ v.plan = NoPlan /\ Meets(w)
     /\ v.op = "rebaseline" => v.head = head

Accepting(w) ==
  \/ PlanHeads(w) \/ (\E p \in plans : Apply(w, p) \/ Simulate(w, p))
  \/ Fetch(w) \/ \E r \in Repos : Connect(w, r) \/ Switch(w, r)

LEMMA AcceptingIs ==
  ASSUME Typed, NEW w \in Workers, Accepting(w)
  PROVE  /\ worker[w].step = "idle"
         /\ requests' = requests + 1 /\ requests < MaxRequests
         /\ UNCHANGED <<repoVars, controlVars, events, applied, rewound>>
         /\ \E v \in Request : /\ worker' = [worker EXCEPT ![w] = v] /\ Goes(w, v)
                               /\ Accepted(w, v)
<1>1. Idle \in Request /\ worker \in [Workers -> Request] /\ Idle.op = "" /\ Idle.plan = NoPlan
  BY IdleRequest DEF Typed
<1>2. requests \in Nat /\ MaxRequests \in Nat
  BY SyncAssumption DEF Typed, Data, SyncAssumption
<1>3. ASSUME NEW v \in Request, Become(w, v), Accepted(w, v)
      PROVE  \E x \in Request : /\ worker' = [worker EXCEPT ![w] = x] /\ Goes(w, x)
                                /\ Accepted(w, x)
  BY <1>1, <1>3, BecomeGoes
<1>4. CASE PlanHeads(w)
  <2>1. PICK s \in SUBSET Paths :
          Become(w, [Idle EXCEPT !.step = "topology",
                                 !.plan = [NoPlan EXCEPT !.id = requests + 1, !.ws = head,
                                                         !.up = ref, !.scope = s]])
    BY <1>4 DEF PlanHeads
  <2> DEFINE p == [NoPlan EXCEPT !.id = requests + 1, !.ws = head, !.up = ref, !.scope = s]
             v == [Idle EXCEPT !.step = "topology", !.plan = p]
  <2>2. /\ worker[w].step = "idle" /\ requests < MaxRequests /\ requests' = requests + 1
        /\ ref # << >>
        /\ UNCHANGED <<repoVars, controlVars, events, historyVars>>
    BY <1>4 DEF PlanHeads, Accept, At
  <2>3. p \in Plans /\ p.id = requests + 1 /\ p.ws = head /\ p.up = ref
    <3>1. NoPlan \in AnyPlan
      BY NoPlanIsAny
    <3>2. requests + 1 \in 1..MaxRequests /\ head \in Commit /\ ref \in Commit
      BY <1>2, <2>2 DEF Typed, Data, Commit
    <3> HIDE DEF p
    <3> QED BY <3>1, <3>2 DEF AnyPlan, Plans, p
  <2> HIDE DEF p
  <2>4. v \in Request /\ v.step = "topology" /\ v.op = "" /\ v.plan = p
    BY <1>1, <2>3 DEF Request, Steps
  <2>5. Become(w, v)
    BY <2>1 DEF p
  <2> HIDE DEF v
  <2>6. Accepted(w, v)
    BY <2>2, <2>3, <2>4 DEF Accepted, historyVars
  <2>7. \E x \in Request : /\ worker' = [worker EXCEPT ![w] = x] /\ Goes(w, x)
                           /\ Accepted(w, x)
    BY <1>3, <2>4, <2>5, <2>6
  <2> QED BY <2>2, <2>7 DEF historyVars
<1>5. ASSUME NEW p \in plans, Apply(w, p) \/ Simulate(w, p)
      PROVE  /\ worker[w].step = "idle"
             /\ requests' = requests + 1 /\ requests < MaxRequests
             /\ UNCHANGED <<repoVars, controlVars, events, applied, rewound>>
             /\ \E v \in Request : /\ worker' = [worker EXCEPT ![w] = v] /\ Goes(w, v)
                                   /\ Accepted(w, v)
  <2>1. PICK s \in {"load", "replay"} :
          /\ Become(w, [Idle EXCEPT !.step = s, !.plan = p])
          /\ s = "load" => ~Dirty
    BY <1>5 DEF Apply, Simulate, ValidateCleanWorkspace
  <2>2. /\ worker[w].step = "idle" /\ requests < MaxRequests /\ requests' = requests + 1
        /\ UNCHANGED <<repoVars, controlVars, events, historyVars>>
    BY <1>5 DEF Apply, Simulate, Accept, At
  <2> DEFINE v == [Idle EXCEPT !.step = s, !.plan = p]
  <2>3. p \in Plans
    BY DEF Typed, Data
  <2>4. v \in Request /\ v.step = s /\ v.op = "" /\ v.plan = p
    BY <1>1, <2>3 DEF Request, Steps
  <2>5. Become(w, v)
    BY <2>1
  <2> HIDE DEF v
  <2>6. Accepted(w, v)
    BY <2>1, <2>2, <2>4 DEF Accepted, historyVars
  <2>7. \E x \in Request : /\ worker' = [worker EXCEPT ![w] = x] /\ Goes(w, x)
                           /\ Accepted(w, x)
    BY <1>3, <2>4, <2>5, <2>6
  <2> QED BY <2>2, <2>7 DEF historyVars
<1>6. CASE Fetch(w)
  <2>1. /\ worker[w].step = "idle" /\ requests < MaxRequests /\ requests' = requests + 1
        /\ upstream # NoConfig /\ Meets(w)
        /\ UNCHANGED <<repoVars, controlVars, events, applied, rewound>>
    BY <1>6 DEF Fetch, Accept, At, Meets
  <2> DEFINE v == [Idle EXCEPT !.step = "fetch", !.op = "fetch", !.repo = upstream.repo]
  <2>2. upstream.repo \in Repos \cup {None}
    BY DEF Typed, Data, Configs
  <2>3. v \in Request /\ v.step = "fetch" /\ v.op = "fetch" /\ v.repo = upstream.repo
        /\ v.plan = NoPlan
    BY <1>1, <2>2 DEF Request, Steps
  <2>4. Become(w, v)
    BY <1>6 DEF Fetch
  <2> HIDE DEF v
  <2>5. Accepted(w, v)
    BY <2>1, <2>3 DEF Accepted
  <2>6. \E x \in Request : /\ worker' = [worker EXCEPT ![w] = x] /\ Goes(w, x)
                           /\ Accepted(w, x)
    BY <1>3, <2>3, <2>4, <2>5
  <2> QED BY <2>1, <2>6
<1>7. ASSUME NEW r \in Repos, Connect(w, r) \/ Switch(w, r)
      PROVE  /\ worker[w].step = "idle"
             /\ requests' = requests + 1 /\ requests < MaxRequests
             /\ UNCHANGED <<repoVars, controlVars, events, applied, rewound>>
             /\ \E v \in Request : /\ worker' = [worker EXCEPT ![w] = v] /\ Goes(w, v)
                                   /\ Accepted(w, v)
  <2>1. /\ worker[w].step = "idle" /\ requests < MaxRequests /\ requests' = requests + 1
        /\ Meets(w)
        /\ UNCHANGED <<repoVars, controlVars, events, applied, rewound>>
    BY <1>7 DEF Connect, Switch, Accept, At, Meets
  <2>2. << >> \in Histories /\ head \in Histories
    BY DEF Typed, Data, Commit, Histories
  <2>3. CASE Connect(w, r)
    <3> DEFINE v == [Idle EXCEPT !.step = "url", !.op = "connect", !.repo = r]
    <3>1. v \in Request /\ v.step = "url" /\ v.op = "connect" /\ v.repo = r /\ v.plan = NoPlan
      BY <1>1 DEF Request, Steps
    <3>2. Become(w, v)
      BY <2>3 DEF Connect
    <3> HIDE DEF v
    <3>3. Accepted(w, v)
      BY <2>1, <3>1 DEF Accepted
    <3>4. \E x \in Request : /\ worker' = [worker EXCEPT ![w] = x] /\ Goes(w, x)
                             /\ Accepted(w, x)
      BY <1>3, <3>1, <3>2, <3>3
    <3> QED BY <2>1, <3>4
  <2>4. CASE Switch(w, r)
    <3>1. PICK op \in {"replace", "rebaseline", "reset"} :
            Become(w, [Idle EXCEPT !.step = "url", !.op = op, !.repo = r,
                                   !.head = IF op = "rebaseline" THEN head ELSE << >>])
      BY <2>4 DEF Switch
    <3> DEFINE h == IF op = "rebaseline" THEN head ELSE << >>
               v == [Idle EXCEPT !.step = "url", !.op = op, !.repo = r, !.head = h]
    <3>2. Become(w, v)
      BY <3>1
    <3>3. h \in Histories /\ (op = "rebaseline" => h = head)
      BY <2>2
    <3> HIDE DEF h
    <3>4. v \in Request
      BY <1>1, <3>3 DEF Request, Steps
    <3>5. v.step = "url" /\ v.op = op /\ v.repo = r /\ v.plan = NoPlan /\ v.head = h
      BY <1>1 DEF Request
    <3> HIDE DEF v
    <3>6. Accepted(w, v)
      BY <2>1, <3>3, <3>5 DEF Accepted
    <3>7. \E x \in Request : /\ worker' = [worker EXCEPT ![w] = x] /\ Goes(w, x)
                             /\ Accepted(w, x)
      BY <1>3, <3>2, <3>4, <3>6
    <3> QED BY <2>1, <3>7
  <2> QED BY <1>7, <2>3, <2>4
<1> QED BY <1>4, <1>5, <1>6, <1>7 DEF Accepting

\* The plan is told the topology of the heads as they are now.
LEMMA PlanTopologyIs ==
  ASSUME Typed, NEW w \in Workers, PlanTopology(w)
  PROVE  /\ worker[w].step = "topology"
         /\ UNCHANGED <<repoVars, controlVars, boundVars, historyVars>>
         /\ \E v \in Request :
              /\ worker' = [worker EXCEPT ![w] = v] /\ Goes(w, v)
              /\ v.step = "items" /\ v.op = "" /\ v.plan \in Plans
              /\ v.plan.id = worker[w].plan.id
              /\ v.plan.ws = worker[w].plan.ws /\ v.plan.up = worker[w].plan.up
              /\ v.plan.kind = Topology(head, ref)
              /\ v.plan.base = EffectiveBase(baseline, head, ref)
              /\ v.plan.auto = AutoApplyAllowed(baseline, head, ref)
<1> DEFINE k == Topology(head, ref)
           m == MergeBase(head, ref)
           b == EffectiveBase(baseline, head, ref)
           a == AutoApplyAllowed(baseline, head, ref)
           p == worker[w].plan
           q == [p EXCEPT !.kind = k, !.fork = m, !.base = b, !.auto = a]
           v == [worker[w] EXCEPT !.step = "items", !.plan = q]
<1>1. /\ worker[w].step = "topology"
      /\ UNCHANGED <<repoVars, controlVars, boundVars, historyVars>>
  BY DEF PlanTopology, At
<1>2. head \in Histories /\ ref \in Histories /\ baseline \in Histories
  BY DEF Typed, Data, Commit
<1>3. k \in Kinds /\ m \in Histories /\ b \in Histories
  BY <1>2, TopologyType, MergeBaseType, EffectiveBaseType
<1>4. a \in BOOLEAN
  BY DEF AutoApplyAllowed
<1>5. worker \in [Workers -> Request] /\ worker[w] \in Request /\ p \in Plans
      /\ worker[w].op = ""
  BY <1>1, Here DEF Placed, Making, Moving
<1>6. Become(w, v)
  <2>1. Become(w, [worker[w] EXCEPT !.step = "items", !.plan.kind = k, !.plan.fork = m,
                                    !.plan.base = b, !.plan.auto = a])
    BY DEF PlanTopology
  <2> HIDE DEF k, m, b, a
  <2>2. [worker[w] EXCEPT !.step = "items", !.plan.kind = k, !.plan.fork = m,
                          !.plan.base = b, !.plan.auto = a] = v
    BY <1>5 DEF Request, Plans
  <2> QED BY <2>1, <2>2
<1> HIDE DEF k, m, b, a, p
<1>7. q \in Plans /\ q.id = p.id /\ q.ws = p.ws /\ q.up = p.up /\ q.kind = k /\ q.base = b
  BY <1>3, <1>4, <1>5 DEF Plans
<1>8. q.auto = a
  BY <1>5 DEF Plans
<1> HIDE DEF q
<1>9. v \in Request /\ v.step = "items" /\ v.op = "" /\ v.plan = q
  BY <1>5, <1>7 DEF Request, Steps
<1> HIDE DEF v
<1>10. Goes(w, v) /\ worker' = [worker EXCEPT ![w] = v]
  BY <1>5, <1>6, <1>9, BecomeGoes
<1> QED BY <1>1, <1>7, <1>8, <1>9, <1>10 DEF k, b, a, p

\* The plan is written with its items.
LEMMA PlanItemsIs ==
  ASSUME Typed, NEW w \in Workers, PlanItems(w)
  PROVE  LET p == worker[w].plan IN
         /\ worker[w].step = "items" /\ Over(w)
         /\ Touched
         /\ UNCHANGED <<repoVars, upstream, baseline, ignored, kept,
                        boundVars, historyVars>>
         /\ \E q \in Plans : /\ plans' = plans \cup {q}
                             /\ q.id = p.id /\ q.ws = p.ws /\ q.up = p.up /\ q.kind = p.kind
                             /\ q.base = p.base /\ q.auto = p.auto /\ q.scope = p.scope
                             /\ q.mode = Modes(p.kind, p.base, head, ref, p.scope)
<1> DEFINE p == worker[w].plan
           m == Modes(p.kind, p.base, head, ref, p.scope)
           q == [p EXCEPT !.mode = m]
<1>1. worker[w].step = "items" /\ plans' = plans \cup {q} /\ Touched /\ Answer(w)
      /\ UNCHANGED <<repoVars, upstream, baseline, ignored, kept,
                     boundVars, historyVars>>
  BY DEF PlanItems, At
<1>2. p \in Plans /\ worker \in [Workers -> Request]
  BY <1>1, Here DEF Placed, Making
<1>3. m \in UNION {[S -> {"safe_auto", "manual"}] : S \in SUBSET Paths}
  <2> DEFINE D == Differing(head, ref, p.scope)
             f(x) == Mode(p.kind, ShowFileAtRef(p.base, x), ShowFileAtRef(head, x),
                              ShowFileAtRef(ref, x))
  <2>1. D \in SUBSET Paths
    BY <1>2 DEF Differing, Plans
  <2>2. \A x : f(x) \in {"safe_auto", "manual"}
    BY DEF Mode
  <2>3. m = [x \in D |-> f(x)]
    BY DEF Modes
  <2> HIDE DEF D, f
  <2>4. m \in [D -> {"safe_auto", "manual"}]
    BY <2>2, <2>3
  <2> QED BY <2>1, <2>4
<1>4. Over(w)
  BY <1>1, <1>2, AnswerGoes
<1> HIDE DEF m
<1>5. q \in Plans /\ q.id = p.id /\ q.ws = p.ws /\ q.up = p.up /\ q.kind = p.kind
      /\ q.base = p.base /\ q.auto = p.auto /\ q.scope = p.scope /\ q.mode = m
  BY <1>2, <1>3 DEF Plans
<1> HIDE DEF q
<1> QED BY <1>1, <1>4, <1>5 DEF m

\* The plan is taken up, or it is out of date.
LEMMA ApplyLoadIs ==
  ASSUME Typed, NEW w \in Workers, ApplyLoad(w)
  PROVE  LET p == worker[w].plan IN
         /\ worker[w].step = "load"
         /\ UNCHANGED <<repoVars, controlVars, boundVars, historyVars>>
         /\ \/ Over(w)
            \/ /\ p \in plans /\ Fresh(p)
               /\ \E v \in Request :
                    /\ worker' = [worker EXCEPT ![w] = v] /\ Goes(w, v)
                    /\ v.step = "write" /\ v.op = "" /\ v.plan = p
<1> DEFINE p == worker[w].plan
           t == {q \in DOMAIN p.mode : p.mode[q] = "safe_auto"}
           v == [worker[w] EXCEPT !.step = "write", !.todo = t]
<1>1. /\ worker[w].step = "load"
      /\ UNCHANGED <<repoVars, controlVars, boundVars, historyVars>>
  BY DEF ApplyLoad, At
<1>2. worker \in [Workers -> Request] /\ worker[w] \in Request /\ worker[w].op = ""
      /\ p \in Plans
  BY <1>1, Here DEF Placed, Moving, Using
<1>3. CASE p \in plans /\ Fresh(p)
  <2>1. Become(w, v)
    BY <1>3 DEF ApplyLoad
  <2>2. t \in SUBSET Paths
    <3>1. PICK S \in SUBSET Paths : p.mode \in [S -> {"safe_auto", "manual"}]
      BY <1>2 DEF Plans
    <3> QED BY <3>1
  <2> HIDE DEF t
  <2>3. v \in Request /\ v.step = "write" /\ v.op = "" /\ v.plan = p
    BY <1>2, <2>2 DEF Request, Steps
  <2> HIDE DEF v
  <2>4. Goes(w, v) /\ worker' = [worker EXCEPT ![w] = v]
    BY <1>2, <2>1, <2>3, BecomeGoes
  <2> QED BY <1>1, <1>3, <2>3, <2>4
<1>4. CASE ~(p \in plans /\ Fresh(p))
  <2>1. Answer(w)
    BY <1>4 DEF ApplyLoad
  <2> QED BY <1>1, <1>2, <2>1, AnswerGoes
<1> QED BY <1>3, <1>4

\* A file is written.
LEMMA ApplyWriteIs ==
  ASSUME Typed, NEW w \in Workers, NEW q \in Paths, ApplyWrite(w, q)
  PROVE  /\ worker[w].step = "write" /\ work' \in Trees
         /\ applied' = (applied \/ ShowFileAtRef(ref, q) # None)
         /\ UNCHANGED <<remote, head, url, ref, controlVars, boundVars, rewound, mixed>>
         /\ \E v \in Request :
              /\ v.step = "write" /\ v.op = "" /\ v.plan = worker[w].plan
              /\ Goes(w, v) /\ worker' = [worker EXCEPT ![w] = v]
<1> DEFINE content == ShowFileAtRef(ref, q)
           v == [worker[w] EXCEPT !.todo = @ \ {q}]
<1>1. /\ worker[w].step = "write" /\ q \in worker[w].todo
      /\ work' = IF content = None THEN work ELSE [work EXCEPT ![q] = content]
      /\ worker' = [worker EXCEPT ![w].todo = @ \ {q}]
      /\ applied' = (applied \/ content # None)
      /\ UNCHANGED <<remote, head, url, ref, controlVars, boundVars, rewound, mixed>>
  BY DEF ApplyWrite, At
<1>2. worker \in [Workers -> Request] /\ worker[w] \in Request /\ worker[w].op = ""
      /\ ref # << >>
  BY <1>1, Here DEF Placed, Moving, Using
<1>3. content \in Contents \cup {None}
  <2>1. Tree(ref)[q] \in Contents \cup {None}
    BY <1>2, TreeType DEF Typed, Data
  <2> QED BY <2>1, SyncAssumption DEF ShowFileAtRef, SyncAssumption
<1> HIDE DEF content
<1>4. work' \in Trees
  <2>1. work \in [Paths -> Contents \cup {None}]
    BY DEF Typed, Data, Trees
  <2> QED BY <1>1, <1>3, <2>1 DEF Trees
<1>5. v \in Request /\ v.step = "write" /\ v.op = "" /\ v.plan = worker[w].plan
  BY <1>1, <1>2 DEF Request
<1>6. worker' = [worker EXCEPT ![w] = v]
  BY <1>1, <1>2
<1> HIDE DEF v
<1>7. Goes(w, v)
  BY <1>2, <1>5, <1>6 DEF Goes
<1> QED BY <1>1, <1>4, <1>5, <1>6, <1>7 DEF content

\* The control files of a history's last commit.
LEMMA KeptType ==
  ASSUME Typed, NEW h \in Commit
  PROVE  /\ Len(h) \in 1..Len(h) /\ h[Len(h)] \in Commits /\ h[Len(h)].at \in 0..MaxEvents
         /\ Snapshot(KeptIn(h))
<1>1. h \in Seq(Commits) /\ h # << >>
  BY DEF Commit, Histories
<1>2. Len(h) \in 1..Len(h)
  BY <1>1
<1>3. h[Len(h)] \in Commits
  BY <1>1, <1>2
<1>4. h[Len(h)].at \in 0..MaxEvents
  BY <1>3 DEF Commits
<1> QED BY <1>2, <1>3, <1>4 DEF KeptIn, Typed, Data

\* The work tree and HEAD become those of upstream, or some of the files do, or
\* files that git does not track are removed.
Resetting(w) == Reset(w) \/ ResetFails(w) \/ Clean(w)

\* HEAD and the control files after a reset.
HeadMoved ==
  /\ head' = ref /\ rewound' = (rewound \/ ~Ancestor(head, ref))
  /\ plans' = (plans \ KeptIn(head).plans) \cup KeptIn(ref).plans
  /\ upstream' \in {upstream, KeptIn(ref).upstream}
  /\ baseline' \in {baseline, KeptIn(ref).baseline}
  /\ loose' = loose \/ (loose' = FALSE /\ plans' = KeptIn(ref).plans)

LEMMA ResettingIs ==
  ASSUME Typed, NEW w \in Workers, Resetting(w)
  PROVE  /\ work' \in Trees /\ worker[w].step \in {"reset", "clean"}
         /\ UNCHANGED <<remote, url, ref, ignored, kept, requests, events, applied>>
         /\ \/ Over(w) /\ mixed' = TRUE
            \/ Over(w) /\ UNCHANGED <<mixed, head, upstream, baseline>>
            \/ (\E s \in {"clean", "base"} : GoesOn(w, s)) /\ UNCHANGED mixed
         /\ \/ UNCHANGED <<head, upstream, baseline, plans, loose, rewound>>
            \/ worker[w].step = "reset" /\ HeadMoved
<1>1. /\ worker \in [Workers -> Request] /\ Placed(worker[w], url, ref)
      /\ work \in [Paths -> Contents \cup {None}]
  BY DEF Typed, Data, Trees
<1>2. Answer(w) => Over(w)
  BY <1>1, AnswerGoes
<1>3. \A s \in {"clean", "base"} : GoTo(w, s) => GoesOn(w, s)
  BY <1>1, GoToGoes DEF Steps
<1>4. CASE Reset(w)
  <2>1. /\ worker[w].step = "reset" /\ CheckOut(head, ref) /\ head' = ref
        /\ rewound' = (rewound \/ ~Ancestor(head, ref))
        /\ \/ (\E s \in {"clean", "base"} : GoTo(w, s)) /\ UNCHANGED mixed
           \/ Answer(w) /\ mixed' = TRUE
        /\ UNCHANGED <<remote, url, ref, ignored, kept, boundVars, applied>>
    BY <1>4 DEF Reset, ResetThen, At
  <2>2. \A p \in Paths : Tree(ref)[p] \in Contents \cup {None}
    <3>1. ref # << >>
      BY <1>1, <2>1 DEF Placed, Moving, Fetching, Fetched
    <3> QED BY <3>1, TreeType DEF Typed, Data
  <2>3. work' \in Trees
    BY <1>1, <2>1, <2>2 DEF CheckOut, Trees
  <2>4. HeadMoved
    BY <2>1 DEF CheckOut, HeadMoved
  <2> QED BY <1>2, <1>3, <2>1, <2>3, <2>4 DEF boundVars
<1>5. CASE ResetFails(w)
  <2>1. PICK written \in SUBSET Paths :
          work' = [p \in Paths |-> IF p \in written THEN Tree(ref)[p] ELSE work[p]]
    BY <1>5 DEF ResetFails
  <2>2. /\ worker[w].step = "reset" /\ Answer(w)
        /\ UNCHANGED <<remote, head, url, ref, controlVars, boundVars, historyVars>>
    BY <1>5 DEF ResetFails, At
  <2>3. \A p \in Paths : Tree(ref)[p] \in Contents \cup {None}
    <3>1. ref # << >>
      BY <1>1, <2>2 DEF Placed, Moving, Fetching, Fetched
    <3> QED BY <3>1, TreeType DEF Typed, Data
  <2>4. work' \in Trees
    BY <1>1, <2>1, <2>3 DEF Trees
  <2> QED BY <1>2, <2>2, <2>4 DEF controlVars, boundVars, historyVars
<1>6. CASE Clean(w)
  <2>1. PICK removed \in SUBSET Untracked :
          /\ work' = [p \in Paths |-> IF p \in removed THEN None ELSE work[p]]
          /\ \/ GoTo(w, "base") /\ UNCHANGED mixed
             \/ Answer(w) /\ mixed' = TRUE
    BY <1>6 DEF Clean
  <2>2. /\ worker[w].step = "clean"
        /\ UNCHANGED <<remote, head, url, ref, controlVars, boundVars, applied, rewound>>
    BY <1>6 DEF Clean, At
  <2>3. work' \in Trees
    BY <1>1, <2>1 DEF Trees
  <2> QED BY <1>2, <1>3, <2>1, <2>2, <2>3 DEF controlVars, boundVars
<1> QED BY <1>4, <1>5, <1>6 DEF Resetting

-----------------------------------------------------------------------------
(* Types, and what each step has. *)

LEMMA TypedGoes ==
  ASSUME Typed, NEW w \in Workers, NEW v \in Request, Goes(w, v), Placed(v, url', ref'),
         Data', url \in Repos => url' \in Repos, ref # << >> => ref' # << >>,
         upstream' = NoConfig \/ (upstream'.repo \in Repos /\ url' \in Repos),
         plans' # {} => ref' # << >>
  PROVE  Typed'
<1>1. ASSUME NEW u \in Workers PROVE Placed(worker'[u], url', ref')
  <2>1. CASE u = w
    BY <2>1 DEF Goes, Placed
  <2>2. CASE u # w
    <3>1. worker'[u] = worker[u] /\ Placed(worker[u], url, ref)
      BY <2>2 DEF Goes, Typed
    <3> QED BY <3>1 DEF Placed
  <2> QED BY <2>1, <2>2
<1> QED BY <1>1 DEF Typed, Goes

LEMMA IdlePlaced == \A u, r : Placed(Idle, u, r)
BY IdleRequest DEF Placed, Moving, Fetching, Fetched, Making, Using

\* The request of w ends and nothing but the control files' state is touched.
LEMMA TypedOver ==
  ASSUME Typed, NEW w \in Workers, Over(w), Data', UNCHANGED <<url, ref, upstream>>,
         plans' # {} => ref # << >>
  PROVE  Typed'
<1>1. upstream' = NoConfig \/ (upstream'.repo \in Repos /\ url' \in Repos)
  BY DEF Typed
<1> QED BY <1>1, IdlePlaced, IdleRequest, TypedGoes DEF Over

LEMMA TypedAccepting ==
  ASSUME Typed, NEW w \in Workers, Accepting(w)
  PROVE  Typed'
<1>1. /\ requests' = requests + 1 /\ requests < MaxRequests
      /\ UNCHANGED <<repoVars, controlVars, events, applied, rewound>>
      /\ \E v \in Request : /\ worker' = [worker EXCEPT ![w] = v] /\ Goes(w, v)
                            /\ Accepted(w, v)
  BY AcceptingIs
<1>2. PICK v \in Request : Goes(w, v) /\ Accepted(w, v)
  BY <1>1
<1>3. mixed' \in BOOLEAN /\ requests' \in 0..MaxRequests
  <2>1. mixed' = mixed \/ Meets(w)
    BY <1>2 DEF Accepted
  <2>2. mixed' \in BOOLEAN
    BY <2>1 DEF Meets, Crowded, Typed, Data
  <2> QED BY <1>1, <2>2, SyncAssumption DEF Typed, Data, SyncAssumption
<1>4. UNCHANGED <<remote, head, work, url, ref, upstream, baseline, plans, ignored, loose,
                  kept, events, applied, rewound>>
  BY <1>1 DEF repoVars, controlVars
<1>5. Data'
  BY <1>3, <1>4 DEF Typed, Data
<1>6. Placed(v, url, ref)
  <2>1. upstream # NoConfig => upstream.repo \in Repos /\ url \in Repos
    BY DEF Typed
  <2>2. \A p \in plans : p \in Plans /\ ref # << >>
    BY DEF Typed, Data
  <2> QED BY <1>2, <2>1, <2>2
          DEF Accepted, Placed, Moving, Fetching, Fetched, Making, Using
<1> QED BY <1>2, <1>4, <1>5, <1>6, TypedGoes DEF Typed

LEMMA TypedSynchronise ==
  ASSUME Typed, NEW w \in Workers,
         \/ PlanTopology(w) \/ PlanItems(w) \/ ApplyLoad(w) \/ ApplyEnd(w) \/ Replay(w)
         \/ SimulateEnd(w) \/ \E q \in Paths : ApplyWrite(w, q)
  PROVE  Typed'
<1>0. worker \in [Workers -> Request] /\ Placed(worker[w], url, ref)
      /\ ignored \in BOOLEAN
  BY DEF Typed, Data
<1>1. CASE PlanTopology(w)
  <2>1. /\ worker[w].step = "topology"
        /\ UNCHANGED <<repoVars, controlVars, boundVars, historyVars>>
        /\ \E v \in Request : /\ Goes(w, v) /\ v.step = "items" /\ v.op = ""
                              /\ v.plan \in Plans
    BY <1>1, PlanTopologyIs
  <2>2. PICK v \in Request : Goes(w, v) /\ v.step = "items" /\ v.op = "" /\ v.plan \in Plans
    BY <2>1
  <2>3. UNCHANGED <<remote, head, work, url, ref, upstream, baseline, plans, ignored, loose,
                    kept, requests, events, applied, rewound, mixed>>
    BY <2>1 DEF repoVars, controlVars, boundVars, historyVars
  <2>4. Data'
    BY <2>3 DEF Typed, Data
  <2>5. Placed(v, url, ref)
    BY <1>0, <2>1, <2>2 DEF Placed, Moving, Fetching, Fetched, Making, Using
  <2> QED BY <2>2, <2>3, <2>4, <2>5, TypedGoes DEF Typed
<1>2. CASE PlanItems(w)
  <2>1. /\ worker[w].step = "items" /\ Over(w) /\ Touched
        /\ UNCHANGED <<repoVars, upstream, baseline, ignored, kept,
                       boundVars, historyVars>>
        /\ \E q \in Plans : plans' = plans \cup {q}
    BY <1>2, PlanItemsIs
  <2>2. UNCHANGED <<remote, head, work, url, ref, upstream, baseline, ignored,
                    kept, requests, events, applied, rewound, mixed>>
    BY <2>1 DEF repoVars, boundVars, historyVars
  <2>3. loose' \in BOOLEAN
    BY <1>0, <2>1 DEF Touched
  <2>4. Data'
    BY <2>1, <2>2, <2>3 DEF Typed, Data
  <2>5. ref # << >>
    BY <1>0, <2>1 DEF Placed, Making
  <2> QED BY <2>1, <2>2, <2>4, <2>5, TypedOver
<1>3. CASE ApplyLoad(w)
  <2>1. /\ worker[w].step = "load"
        /\ UNCHANGED <<repoVars, controlVars, boundVars, historyVars>>
        /\ \/ Over(w)
           \/ \E v \in Request : /\ Goes(w, v) /\ v.step = "write" /\ v.op = ""
                                 /\ v.plan = worker[w].plan
    BY <1>3, ApplyLoadIs
  <2>2. UNCHANGED <<remote, head, work, url, ref, upstream, baseline, plans, ignored, loose,
                    kept, requests, events, applied, rewound, mixed>>
    BY <2>1 DEF repoVars, controlVars, boundVars, historyVars
  <2>3. Data'
    BY <2>2 DEF Typed, Data
  <2>4. CASE Over(w)
    BY <2>2, <2>3, <2>4, TypedOver DEF Typed
  <2>5. ASSUME NEW v \in Request, Goes(w, v), v.step = "write", v.op = "",
               v.plan = worker[w].plan
        PROVE  Typed'
    <3>1. Placed(v, url, ref)
      BY <1>0, <2>1, <2>5 DEF Placed, Moving, Fetching, Fetched, Making, Using
    <3> QED BY <2>2, <2>3, <2>5, <3>1, TypedGoes DEF Typed
  <2> QED BY <2>1, <2>4, <2>5
<1>4. CASE ApplyEnd(w) \/ SimulateEnd(w) \/ Replay(w)
  <2>1. /\ worker[w].step \in {"write", "audit", "replay"} /\ loose' \in {loose, ~ignored}
        /\ Answer(w) \/ (GoTo(w, "audit") /\ worker[w].step = "replay")
        /\ UNCHANGED <<repoVars, upstream, baseline, plans, ignored, kept,
                       boundVars, historyVars>>
    BY <1>4 DEF ApplyEnd, SimulateEnd, Replay, At, Touched
  <2>2. UNCHANGED <<remote, head, work, url, ref, upstream, baseline, plans, ignored,
                    kept, requests, events, applied, rewound, mixed>>
    BY <2>1 DEF repoVars, boundVars, historyVars
  <2>3. loose' \in BOOLEAN
    BY <1>0, <2>1 DEF Typed, Data
  <2>4. Data'
    BY <2>2, <2>3 DEF Typed, Data
  <2>5. CASE Answer(w)
    <3>1. Over(w)
      BY <1>0, <2>5, AnswerGoes
    <3> QED BY <2>2, <2>4, <3>1, TypedOver DEF Typed
  <2>6. CASE GoTo(w, "audit") /\ worker[w].step = "replay"
    <3>1. GoesOn(w, "audit")
      BY <1>0, <2>6, GoToGoes DEF Steps
    <3>2. PICK v \in Request : Goes(w, v) /\ v.step = "audit" /\ v.op = worker[w].op
      BY <3>1 DEF GoesOn
    <3>3. Placed(v, url, ref)
      BY <1>0, <2>6, <3>2 DEF Placed, Moving, Fetching, Fetched, Making, Using
    <3> QED BY <2>2, <2>4, <3>2, <3>3, TypedGoes DEF Typed
  <2> QED BY <2>1, <2>5, <2>6
<1>5. ASSUME NEW q \in Paths, ApplyWrite(w, q)
      PROVE  Typed'
  <2>1. /\ worker[w].step = "write" /\ work' \in Trees
        /\ applied' = (applied \/ ShowFileAtRef(ref, q) # None)
        /\ UNCHANGED <<remote, head, url, ref, controlVars, boundVars, rewound, mixed>>
        /\ \E v \in Request : /\ v.step = "write" /\ v.op = "" /\ v.plan = worker[w].plan
                              /\ Goes(w, v)
    BY <1>5, ApplyWriteIs
  <2>2. PICK v \in Request : Goes(w, v) /\ v.step = "write" /\ v.op = ""
                             /\ v.plan = worker[w].plan
    BY <2>1
  <2>3. UNCHANGED <<remote, head, url, ref, upstream, baseline, plans, ignored, loose,
                    kept, requests, events, rewound, mixed>>
    BY <2>1 DEF controlVars, boundVars
  <2>4. applied' \in BOOLEAN
    BY <2>1 DEF Typed, Data
  <2>5. Data'
    BY <2>1, <2>3, <2>4 DEF Typed, Data
  <2>6. Placed(v, url, ref)
    BY <1>0, <2>1, <2>2 DEF Placed, Moving, Fetching, Fetched, Making, Using
  <2> QED BY <2>2, <2>3, <2>5, <2>6, TypedGoes DEF Typed
<1> QED BY <1>1, <1>2, <1>3, <1>4, <1>5

\* The steps of a request that moves the upstream, but for the reset.
Piping(w) ==
  \/ SetUrl(w) \/ WriteConfig(w) \/ GitFetch(w) \/ WriteFetched(w)
  \/ Rebaseline(w) \/ WriteBase(w) \/ WriteAgain(w)

\* Where such a request goes.
LEMMA PipingIs ==
  ASSUME Typed, NEW w \in Workers, Piping(w)
  PROVE  LET v == worker[w] IN
         /\ UNCHANGED <<remote, head, work, plans, ignored, kept, requests,
                        events, applied, mixed>>
         /\ loose' \in {loose, ~ignored}
         /\ \/ /\ v.step = "url" /\ GoesOn(w, "config") /\ url' = v.repo
               /\ UNCHANGED <<ref, upstream, baseline, loose, rewound>>
            \/ /\ v.step = "config" /\ (Over(w) \/ (v.op # "connect" /\ GoesOn(w, "fetch")))
               /\ upstream' = [repo |-> v.repo, fetched |-> FALSE] /\ Touched
               /\ UNCHANGED <<url, ref, baseline, rewound>>
            \/ /\ v.step = "fetch" /\ Over(w)
               /\ UNCHANGED <<url, ref, upstream, baseline, loose, rewound>>
            \/ /\ v.step = "fetch" /\ GoesOn(w, "fetched") /\ ref' = remote[url]
               /\ rewound' = (rewound \/ ~Ancestor(ref, ref'))
               /\ UNCHANGED <<url, upstream, baseline, loose>>
            \/ /\ v.step = "fetched"
               /\ upstream' = [repo |-> v.repo, fetched |-> TRUE] /\ Touched
               /\ \/ Over(w)
                  \/ v.op = "rebaseline" /\ GoesOn(w, "rebaseline")
                  \/ v.op = "reset" /\ GoesOn(w, "reset")
               /\ UNCHANGED <<url, ref, baseline, rewound>>
            \/ /\ v.step = "rebaseline" /\ Over(w) /\ baseline' = v.head /\ Touched
               /\ UNCHANGED <<url, ref, upstream, rewound>>
            \/ /\ v.step = "base" /\ GoesOn(w, "again") /\ baseline' = head /\ Touched
               /\ UNCHANGED <<url, ref, upstream, rewound>>
            \/ /\ v.step = "again" /\ Over(w) /\ Touched
               /\ upstream' = [repo |-> v.repo, fetched |-> TRUE]
               /\ UNCHANGED <<url, ref, baseline, rewound>>
<1>1. worker \in [Workers -> Request] /\ Placed(worker[w], url, ref)
      /\ worker[w].op \in {"", "connect", "fetch", "replace", "rebaseline", "reset"}
  BY Here
<1>2. Answer(w) => Over(w)
  BY <1>1, AnswerGoes
<1>3. \A s \in Steps : GoTo(w, s) => GoesOn(w, s)
  BY <1>1, GoToGoes
<1>4. {"config", "fetch", "fetched", "rebaseline", "reset", "again"} \subseteq Steps
  BY DEF Steps
<1>5. CASE SetUrl(w)
  BY <1>3, <1>4, <1>5
     DEF SetUrl, At, controlVars, boundVars, historyVars
<1>6. CASE WriteConfig(w)
  BY <1>2, <1>3, <1>4, <1>6
     DEF WriteConfig, At, repoVars, boundVars, historyVars, Touched
<1>7. CASE GitFetch(w)
  BY <1>2, <1>3, <1>4, <1>7
     DEF GitFetch, At, controlVars, boundVars
<1>8. CASE WriteFetched(w)
  <2>1. /\ worker[w].step = "fetched"
        /\ upstream' = [repo |-> worker[w].repo, fetched |-> TRUE] /\ Touched
        /\ UNCHANGED <<repoVars, baseline, plans, ignored, kept,
                       boundVars, historyVars>>
    BY <1>8 DEF WriteFetched, At
  <2>2. worker[w].op \in {"fetch", "replace", "rebaseline", "reset"}
    BY <1>1, <2>1 DEF Placed, Moving
  <2>3. \/ Answer(w)
        \/ worker[w].op = "rebaseline" /\ GoTo(w, "rebaseline")
        \/ worker[w].op = "reset" /\ GoTo(w, "reset")
    <3>1. CASE worker[w].op = "rebaseline"
      BY <1>8, <3>1 DEF WriteFetched
    <3>2. CASE worker[w].op = "reset"
      BY <1>8, <3>2 DEF WriteFetched
    <3>3. CASE worker[w].op \in {"fetch", "replace"}
      BY <1>8, <3>3 DEF WriteFetched
    <3> QED BY <2>2, <3>1, <3>2, <3>3
  <2> QED BY <1>2, <1>3, <1>4, <2>1, <2>3
          DEF repoVars, boundVars, historyVars, Touched
<1>9. CASE Rebaseline(w)
  BY <1>2, <1>9 DEF Rebaseline, At, repoVars, boundVars, historyVars, Touched
<1>10. CASE WriteBase(w)
  BY <1>3, <1>4, <1>10 DEF WriteBase, At, repoVars, boundVars, historyVars, Touched
<1>11. CASE WriteAgain(w)
  BY <1>2, <1>11 DEF WriteAgain, At, repoVars, boundVars, historyVars, Touched
<1> QED BY <1>5, <1>6, <1>7, <1>8, <1>9, <1>10, <1>11 DEF Piping

LEMMA TypedPiping ==
  ASSUME Typed, NEW w \in Workers, Piping(w)
  PROVE  Typed'
<1> DEFINE v == worker[w]
<1>0. /\ Placed(v, url, ref) /\ v.repo \in Repos \cup {None} /\ v.head \in Histories
      /\ v.op \in {"", "connect", "fetch", "replace", "rebaseline", "reset"} /\ v.step \in Steps
  BY Here
<1>1. /\ UNCHANGED <<remote, head, work, plans, ignored, kept, requests,
                     events, applied, mixed>>
      /\ loose' \in {loose, ~ignored}
  BY PipingIs
<1>2. loose' \in BOOLEAN /\ head \in Histories /\ upstream \in Configs
  BY <1>1 DEF Typed, Data, Commit
<1>3. \A b \in BOOLEAN : [repo |-> v.repo, fetched |-> b] \in Configs
  BY <1>0 DEF Configs
<1>4. v.step \in Moving => v.repo \in Repos
  BY <1>0 DEF Placed
<1>5. v.step \in Fetching => url \in Repos
  BY <1>0 DEF Placed
<1>6. Moving = {"url", "config", "fetch", "fetched", "rebaseline", "reset", "clean", "base",
               "again"}
      /\ Fetching = {"config", "fetch", "fetched", "rebaseline", "reset", "clean", "base", "again"}
      /\ Fetched = {"fetched", "rebaseline", "reset", "clean", "base", "again"}
  BY DEF Moving, Fetching, Fetched
<1>7. /\ url' \in Repos \cup {None} /\ ref' \in Histories /\ upstream' \in Configs
      /\ baseline' \in Histories /\ rewound' \in BOOLEAN
      /\ url \in Repos => url' \in Repos
      /\ ref # << >> => ref' # << >>
      /\ upstream' = NoConfig \/ (upstream'.repo \in Repos /\ url' \in Repos)
  <2>1. CASE /\ v.step = "fetch" /\ GoesOn(w, "fetched") /\ ref' = remote[url]
             /\ rewound' = (rewound \/ ~Ancestor(ref, ref'))
             /\ UNCHANGED <<url, upstream, baseline, loose>>
    <3>1. ref' \in Commit
      BY <1>5, <1>6, <2>1 DEF Typed, Data
    <3> QED BY <2>1, <3>1 DEF Typed, Data, Commit
  <2>2. CASE /\ v.step = "url" /\ url' = v.repo
             /\ UNCHANGED <<ref, upstream, baseline, loose, rewound>>
    BY <1>4, <1>6, <2>2 DEF Typed, Data
  <2>3. CASE /\ v.step \in {"config", "fetched", "again"}
             /\ \E b \in BOOLEAN : upstream' = [repo |-> v.repo, fetched |-> b]
             /\ UNCHANGED <<url, ref, baseline, rewound>>
    BY <1>3, <1>4, <1>5, <1>6, <2>3 DEF Typed, Data
  <2>4. CASE /\ v.step \in {"fetch", "rebaseline", "base"}
             /\ baseline' \in {baseline, v.head, head}
             /\ UNCHANGED <<url, ref, upstream, rewound>>
    BY <1>0, <1>2, <2>4 DEF Typed, Data
  <2> QED BY <2>1, <2>2, <2>3, <2>4, PipingIs
<1>8. Data'
  BY <1>1, <1>2, <1>7 DEF Typed, Data
<1>9. plans' # {} => ref' # << >>
  BY <1>1, <1>7 DEF Typed
<1>10. ASSUME Over(w) PROVE Typed'
  BY <1>7, <1>8, <1>9, <1>10, IdlePlaced, IdleRequest, TypedGoes DEF Over
<1>11. ASSUME NEW s \in Moving, GoesOn(w, s),
              s = "fetch" => v.op # "connect",
              s = "fetched" => v.op # "connect",
              s = "rebaseline" => v.op = "rebaseline",
              s \in {"reset", "clean", "base", "again"} => v.op = "reset",
              s \in Fetching => url' \in Repos, s \in Fetched => ref' # << >>,
              v.step \in Moving
       PROVE  Typed'
  <2>1. PICK x \in Request : x.step = s /\ x.op = v.op /\ x.repo = v.repo /\ Goes(w, x)
    BY <1>11 DEF GoesOn
  <2>2. v.op # "" /\ v.repo \in Repos
    BY <1>0, <1>11 DEF Placed
  <2>3. s \notin Making \cup Using
    BY <1>6, <1>11 DEF Making, Using
  <2>4. /\ x.op # "" <=> x.step \in Moving
        /\ x.step \in Moving => x.repo \in Repos
        /\ x.step \in Fetching => url' \in Repos
        /\ x.step \in Making \cup Using \cup Fetched => ref' # << >>
    BY <1>11, <2>1, <2>2, <2>3
  <2>5. /\ x.step \in {"fetch", "fetched"} => x.op # "connect"
        /\ x.step = "rebaseline" => x.op = "rebaseline"
        /\ x.step \in {"reset", "clean", "base", "again"} => x.op = "reset"
    BY <1>11, <2>1
  <2>6. Placed(x, url', ref')
    BY <2>1, <2>3, <2>4, <2>5 DEF Placed
  <2> QED BY <1>7, <1>8, <1>9, <2>1, <2>6, TypedGoes
<1>12. CASE v.step = "url" /\ GoesOn(w, "config") /\ url' = v.repo
  BY <1>4, <1>6, <1>11, <1>12
<1>13. CASE v.step = "config" /\ v.op # "connect" /\ GoesOn(w, "fetch") /\ url' = url
  BY <1>5, <1>6, <1>11, <1>13
<1>14. CASE v.step = "fetch" /\ GoesOn(w, "fetched") /\ ref' = remote[url] /\ url' = url
  <2>1. ref' # << >> /\ v.op # "connect"
    BY <1>0, <1>5, <1>6, <1>14 DEF Typed, Data, Commit, Placed
  <2> QED BY <1>5, <1>6, <1>11, <1>14, <2>1
<1>15. CASE /\ v.step \in {"fetched", "base"} /\ url' = url /\ ref' = ref
            /\ \E s \in {"rebaseline", "reset"} : v.op = s /\ GoesOn(w, s)
  <2>1. ref # << >>
    BY <1>0, <1>6, <1>15 DEF Placed
  <2> QED BY <1>5, <1>6, <1>11, <1>15, <2>1
<1>16. CASE v.step = "base" /\ GoesOn(w, "again") /\ url' = url /\ ref' = ref
  <2>1. ref # << >> /\ v.op = "reset"
    BY <1>0, <1>6, <1>16 DEF Placed
  <2> QED BY <1>5, <1>6, <1>11, <1>16, <2>1
<1> QED BY <1>10, <1>12, <1>13, <1>14, <1>15, <1>16, PipingIs

LEMMA TypedReset ==
  ASSUME Typed, NEW w \in Workers, Resetting(w)
  PROVE  Typed'
<1>0. /\ worker[w].step \in {"reset", "clean"} /\ work' \in Trees
      /\ UNCHANGED <<remote, url, ref, ignored, kept, requests, events, applied>>
      /\ Over(w) \/ \E s \in {"clean", "base"} : GoesOn(w, s)
      /\ mixed' \in {TRUE, mixed}
      /\ \/ UNCHANGED <<head, upstream, baseline, plans, loose, rewound>>
         \/ worker[w].step = "reset" /\ HeadMoved
  BY ResettingIs
<1>1. Placed(worker[w], url, ref)
  BY DEF Typed
<1>2. ref # << >> /\ url \in Repos /\ worker[w].repo \in Repos /\ worker[w].op = "reset"
  BY <1>0, <1>1 DEF Placed, Moving, Fetching, Fetched
<1>3. ref \in Commit /\ head \in Commit
  BY <1>2 DEF Typed, Data, Commit
<1>4. /\ head' \in Commit /\ baseline' \in Histories /\ upstream' \in Configs
      /\ upstream' = NoConfig \/ upstream'.repo \in Repos
      /\ \A p \in plans' : p \in Plans
      /\ loose' \in BOOLEAN /\ rewound' \in BOOLEAN /\ mixed' \in BOOLEAN
  <2>1. CASE UNCHANGED <<head, upstream, baseline, plans, loose, rewound>>
    BY <1>0, <2>1 DEF Typed, Data
  <2>2. CASE HeadMoved
    <3>1. Snapshot(KeptIn(ref))
      BY <1>3, KeptType
    <3> HIDE DEF KeptIn
    <3> QED BY <1>0, <1>3, <2>2, <3>1 DEF HeadMoved, Snapshot, Typed, Data
  <2> QED BY <1>0, <2>1, <2>2
<1>5. Data'
  BY <1>0, <1>4 DEF Typed, Data
<1>6. upstream' = NoConfig \/ (upstream'.repo \in Repos /\ url' \in Repos)
  BY <1>0, <1>2, <1>4
<1>7. CASE Over(w)
  BY <1>0, <1>2, <1>5, <1>6, <1>7, IdlePlaced, IdleRequest, TypedGoes DEF Over
<1>8. ASSUME NEW s \in {"clean", "base"}, GoesOn(w, s)
      PROVE  Typed'
  <2>1. PICK v \in Request : v.step = s /\ v.op = worker[w].op /\ v.repo = worker[w].repo
                             /\ Goes(w, v)
    BY <1>8 DEF GoesOn
  <2>2. Placed(v, url, ref)
    BY <1>2, <2>1 DEF Placed, Moving, Fetching, Fetched, Making, Using
  <2> QED BY <1>0, <1>2, <1>5, <1>6, <2>1, <2>2, TypedGoes
<1> QED BY <1>0, <1>7, <1>8

-----------------------------------------------------------------------------
(* The environment. *)

EnvironmentFrame ==
  UNCHANGED <<url, ref, upstream, baseline, plans, ignored, worker, requests,
              applied, rewound, mixed>>

\* A commit in the workspace.
Committed ==
  /\ UNCHANGED <<remote, work>> /\ loose' = FALSE
  /\ \E c \in Commits : c.by = None /\ c.at = events + 1 /\ head' = Append(head, c)
  /\ \E s : /\ kept' = [kept EXCEPT ![events + 1] = s] /\ Snapshot(s)
            /\ s.plans \subseteq plans /\ (~ignored => s.plans = plans)

\* Something reaches an upstream.
Reached ==
  /\ UNCHANGED <<head, work, loose>>
  /\ \E r \in Repos :
       \/ /\ \E c \in Commits : /\ c.by = r /\ c.at = events + 1
                                /\ remote' = [remote EXCEPT ![r] = Append(@, c)]
          /\ kept' = [kept EXCEPT ![events + 1] = KeptIn(remote[r])]
       \/ /\ Len(remote[r]) > 1
          /\ remote' = [remote EXCEPT ![r] = SubSeq(@, 1, Len(@) - 1)]
          /\ kept' = kept
       \/ /\ Ancestor(remote[r], head)
          /\ remote' = [remote EXCEPT ![r] = head]
          /\ kept' = kept

LEMMA EnvironmentIs ==
  ASSUME Typed, Environment
  PROVE  /\ EnvironmentFrame /\ events < MaxEvents /\ events' = events + 1
         /\ events + 1 \in 0..MaxEvents
         /\ \/ UNCHANGED <<remote, head, loose, kept>> /\ work' \in Trees
            \/ Committed \/ Reached
<1>0. events \in 0..MaxEvents /\ MaxEvents \in Nat
  BY SyncAssumption DEF Typed, Data, SyncAssumption
<1>1. ASSUME Happens PROVE events < MaxEvents /\ events' = events + 1 /\ events + 1 \in 0..MaxEvents
  BY <1>0, <1>1 DEF Happens
<1>2. ASSUME NEW q \in Paths, NEW c \in Contents \cup {None}, Edit(q, c)
      PROVE  /\ EnvironmentFrame /\ Happens
             /\ UNCHANGED <<remote, head, loose, kept>> /\ work' \in Trees
  BY <1>2 DEF Edit, EnvironmentFrame, Typed, Data, Trees, controlVars, historyVars
<1>3. ASSUME CommitAll
      PROVE  EnvironmentFrame /\ Happens /\ Committed
  <2> DEFINE t == [p \in Paths |-> IF p \in Hidden /\ Tree(head)[p] = None THEN None ELSE work[p]]
             c == [by |-> None, at |-> events + 1, tree |-> t]
             s == IF ignored THEN NoSnapshot ELSE
                    [plans |-> plans, upstream |-> upstream, baseline |-> baseline]
  <2>1. /\ Happens /\ head' = Append(head, c) /\ loose' = FALSE
        /\ kept' = [kept EXCEPT ![events + 1] = s]
        /\ UNCHANGED <<remote, work, url, ref, upstream, baseline, plans, ignored, worker,
                       requests, historyVars>>
    BY <1>3 DEF CommitAll
  <2>2. t \in Trees
    BY DEF Typed, Data, Trees
  <2> HIDE DEF t
  <2>3. c \in Commits /\ c.by = None /\ c.at = events + 1
    BY <1>1, <2>1, <2>2 DEF Commits
  <2> HIDE DEF c
  <2>4. Snapshot(s) /\ s.plans \subseteq plans /\ (~ignored => s.plans = plans)
    <3>1. NoConfig \in Configs /\ << >> \in Histories
      BY DEF NoConfig, Configs, Histories
    <3> QED BY <3>1 DEF NoSnapshot, Snapshot, Typed, Data
  <2> HIDE DEF s
  <2> QED BY <2>1, <2>3, <2>4 DEF Committed, EnvironmentFrame, historyVars
<1>4. ASSUME NEW r \in Repos, NEW q \in Paths, NEW c \in Contents \cup {None}, Push(r, q, c)
      PROVE  EnvironmentFrame /\ Happens /\ Reached
  <2>1. /\ Happens
        /\ kept' = [kept EXCEPT ![events + 1] = KeptIn(remote[r])]
        /\ UNCHANGED <<head, work, url, ref, upstream, baseline, plans, ignored, loose, worker,
                       requests, historyVars>>
    BY <1>4 DEF Push
  <2>2. remote[r] \in Histories /\ remote[r] # << >> /\ remote \in [Repos -> Commit]
    BY DEF Typed, Data, Commit
  <2> DEFINE t == [Tree(remote[r]) EXCEPT ![q] = c]
             x == [by |-> r, tree |-> t, at |-> events + 1]
  <2>3. t \in Trees
    <3>1. Tree(remote[r]) \in Trees
      BY <2>2, TreeType
    <3> QED BY <3>1 DEF Trees
  <2>4. remote' = [remote EXCEPT ![r] = Append(remote[r], x)]
    BY <1>4, <2>2 DEF Push
  <2> HIDE DEF t
  <2>5. x \in Commits /\ x.by = r /\ x.at = events + 1
    BY <1>1, <2>1, <2>3 DEF Commits
  <2> HIDE DEF x
  <2>6. \E y \in Commits : /\ y.by = r /\ y.at = events + 1
                           /\ remote' = [remote EXCEPT ![r] = Append(@, y)]
    BY <2>2, <2>4, <2>5
  <2> QED BY <2>1, <2>6 DEF EnvironmentFrame, Reached, historyVars
<1>5. ASSUME NEW r \in Repos, ForcePush(r) \/ Publish(r)
      PROVE  EnvironmentFrame /\ Happens /\ Reached
  BY <1>5 DEF ForcePush, Publish, EnvironmentFrame, Reached, controlVars, historyVars
<1>6. CASE \E q \in Paths, c \in Contents \cup {None} : Edit(q, c)
  BY <1>1, <1>2, <1>6
<1>7. CASE CommitAll
  BY <1>1, <1>3, <1>7
<1>8. CASE \E q \in Paths, c \in Contents \cup {None} : \E r \in Repos : Push(r, q, c)
  BY <1>1, <1>4, <1>8
<1>9. CASE \E r \in Repos : ForcePush(r) \/ Publish(r)
  BY <1>1, <1>5, <1>9
<1> QED BY <1>6, <1>7, <1>8, <1>9 DEF Environment

LEMMA HistoriesStay ==
  /\ \A h \in Commit, c \in Commits : Append(h, c) \in Commit
  /\ \A h \in Commit : Len(h) > 1 => SubSeq(h, 1, Len(h) - 1) \in Commit
<1>1. \A h \in Commit, c \in Commits : Append(h, c) \in Commit
  BY DEF Commit, Histories
<1>2. ASSUME NEW h \in Commit, Len(h) > 1 PROVE SubSeq(h, 1, Len(h) - 1) \in Commit
  <2>1. h \in Seq(Commits) /\ Len(h) \in Nat
    BY DEF Commit, Histories
  <2> DEFINE s == SubSeq(h, 1, Len(h) - 1)
  <2>2. s \in Seq(Commits) /\ Len(s) = Len(h) - 1
    BY <1>2, <2>1
  <2> HIDE DEF s
  <2>3. Len(s) > 0
    BY <1>2, <2>1, <2>2
  <2>4. s # << >>
    BY <2>2, <2>3
  <2>5. s \in Commit
    BY <2>2, <2>4 DEF Commit, Histories
  <2> QED BY <2>5 DEF s
<1> QED BY <1>1, <1>2

\* What the commits hold stays; one more may hold something.
LEMMA KeptEnvironment ==
  ASSUME Typed, Environment
  PROVE  \/ kept' = kept
         \/ \E s : /\ kept' = [kept EXCEPT ![events + 1] = s] /\ Snapshot(s)
                   /\ \/ s.plans \subseteq plans
                      \/ \E r \in Repos : s = KeptIn(remote[r])
<1>1. \A r \in Repos : Snapshot(KeptIn(remote[r]))
  BY KeptType DEF Typed, Data
<1>2. Committed => \E s : /\ kept' = [kept EXCEPT ![events + 1] = s] /\ Snapshot(s)
                          /\ s.plans \subseteq plans
  BY DEF Committed
<1>3. Reached => \/ kept' = kept
                 \/ \E r \in Repos : kept' = [kept EXCEPT ![events + 1] = KeptIn(remote[r])]
  BY DEF Reached
<1> QED BY <1>1, <1>2, <1>3, EnvironmentIs

LEMMA TypedEnvironment ==
  ASSUME Typed, Environment
  PROVE  Typed'
<1>1. UNCHANGED <<url, ref, upstream, baseline, plans, ignored, worker, requests,
                  applied, rewound, mixed>> /\ events' \in 0..MaxEvents
      /\ events + 1 \in 0..MaxEvents
  BY EnvironmentIs DEF EnvironmentFrame
<1>2. remote \in [Repos -> Commit] /\ head \in Commit /\ work \in Trees /\ loose \in BOOLEAN
      /\ DOMAIN kept = 0..MaxEvents /\ \A e \in 0..MaxEvents : Snapshot(kept[e])
  BY DEF Typed, Data
<1>3. remote' \in [Repos -> Commit] /\ head' \in Commit /\ work' \in Trees /\ loose' \in BOOLEAN
  <2>1. CASE UNCHANGED <<remote, head, loose, kept>> /\ work' \in Trees
    BY <1>2, <2>1
  <2>2. CASE Committed
    <3>1. \A c \in Commits : Append(head, c) \in Commit
      BY <1>2, HistoriesStay
    <3>2. UNCHANGED <<remote, work>> /\ loose' = FALSE
          /\ \E c \in Commits : head' = Append(head, c)
      BY <2>2 DEF Committed
    <3> QED BY <1>2, <3>1, <3>2
  <2>3. CASE Reached
    <3>1. \E r \in Repos, h \in Commit : remote' = [remote EXCEPT ![r] = h]
      BY <1>2, <2>3, HistoriesStay DEF Reached
    <3> QED BY <1>2, <2>3, <3>1 DEF Reached
  <2> QED BY <2>1, <2>2, <2>3, EnvironmentIs
<1>4. DOMAIN kept' = 0..MaxEvents /\ \A e \in 0..MaxEvents : Snapshot(kept'[e])
  <2>1. CASE kept' = kept
    BY <1>2, <2>1
  <2>2. ASSUME NEW s, kept' = [kept EXCEPT ![events + 1] = s], Snapshot(s)
        PROVE  DOMAIN kept' = 0..MaxEvents /\ \A e \in 0..MaxEvents : Snapshot(kept'[e])
    <3>1. \A e \in 0..MaxEvents : kept'[e] = s \/ kept'[e] = kept[e]
      BY <1>2, <2>2
    <3> QED BY <1>2, <2>2, <3>1
  <2> QED BY <2>1, <2>2, KeptEnvironment
<1>5. \A e \in 0..MaxEvents : Snapshot(kept[e])'
  BY <1>4 DEF Snapshot
<1>6. Data'
  BY <1>1, <1>3, <1>4, <1>5 DEF Typed, Data
<1>7. worker' \in [Workers -> Request]
      /\ (upstream' = NoConfig \/ (upstream'.repo \in Repos /\ url' \in Repos))
      /\ (plans' # {} => ref' # << >>)
  BY <1>1 DEF Typed
<1>8. (\A w \in Workers : Placed(worker[w], url, ref))'
  <2>1. \A w \in Workers : Placed(worker[w], url, ref)
    BY DEF Typed
  <2> QED BY <1>1, <2>1
<1> QED BY <1>6, <1>7, <1>8 DEF Typed

LEMMA CrashIs ==
  ASSUME Typed, Crash
  PROVE  /\ UNCHANGED <<repoVars, controlVars, requests, applied, rewound>>
         /\ events < MaxEvents /\ events' = events + 1
         /\ worker' = [w \in Workers |-> Idle]
         /\ mixed' = (mixed \/ \E w \in Workers : worker[w].op # "")
         /\ mixed' \in BOOLEAN
BY DEF Crash, Happens, Typed, Data

LEMMA TypedCrash ==
  ASSUME Typed, Crash
  PROVE  Typed'
<1>1. /\ UNCHANGED <<remote, head, work, url, ref, upstream, baseline, plans, ignored, loose,
                     kept, requests, applied, rewound>>
      /\ events' = events + 1 /\ events < MaxEvents /\ mixed' \in BOOLEAN
      /\ worker' = [w \in Workers |-> Idle]
  BY CrashIs DEF repoVars, controlVars
<1>2. events' \in 0..MaxEvents
  BY <1>1, SyncAssumption DEF Typed, Data, SyncAssumption
<1>3. Data'
  BY <1>1, <1>2 DEF Typed, Data
<1> QED BY <1>1, <1>3, IdlePlaced, IdleRequest DEF Typed

-----------------------------------------------------------------------------
(* What any step does. *)

Synchronising(w) ==
  \/ PlanTopology(w) \/ PlanItems(w) \/ ApplyLoad(w) \/ ApplyEnd(w) \/ Replay(w)
  \/ SimulateEnd(w) \/ \E q \in Paths : ApplyWrite(w, q)

LEMMA NextIs ==
  ASSUME [Next]_vars
  PROVE  \/ \E w \in Workers : Accepting(w) \/ Synchronising(w) \/ Piping(w) \/ Resetting(w)
         \/ Environment \/ Crash \/ UNCHANGED vars
BY DEF Next, Configure, Synchronise, Accepting, Synchronising, Piping, Resetting

LEMMA TypedNext ==
  ASSUME Typed, [Next]_vars
  PROVE  Typed'
<1>1. ASSUME UNCHANGED vars PROVE Typed'
  BY <1>1 DEF vars, repoVars, controlVars, boundVars, historyVars, Typed, Data, Placed
<1> QED BY <1>1, NextIs, TypedAccepting, TypedSynchronise, TypedPiping, TypedReset,
           TypedEnvironment, TypedCrash DEF Synchronising

\* The steps of a request under a guard, and what they leave alone.
LEMMA SynchronisingIs ==
  ASSUME Typed, NEW w \in Workers, Synchronising(w)
  PROVE  /\ UNCHANGED <<remote, head, url, ref, upstream, baseline, ignored, kept, requests,
                        events, rewound, mixed>>
         /\ worker[w].step \in {"topology", "items", "load", "write", "replay", "audit"}
         /\ worker[w].op = ""
         /\ \/ PlanTopology(w) /\ UNCHANGED <<plans, loose, applied, work>>
            \/ PlanItems(w) /\ UNCHANGED <<applied, work>>
            \/ ApplyLoad(w) /\ UNCHANGED <<plans, loose, applied, work>>
            \/ /\ worker[w].step \in {"write", "replay", "audit"}
               /\ Over(w) \/ GoesOn(w, "audit")
               /\ loose' \in {loose, ~ignored} /\ UNCHANGED <<plans, applied, work>>
            \/ /\ \E q \in Paths : ApplyWrite(w, q)
               /\ worker[w].step = "write" /\ UNCHANGED <<plans, loose>>
<1>0. worker \in [Workers -> Request] /\ Placed(worker[w], url, ref)
  BY DEF Typed
<1>1. worker[w].step \in {"topology", "items", "load", "write", "replay", "audit"}
  BY DEF Synchronising, PlanTopology, PlanItems, ApplyLoad, ApplyEnd, Replay, SimulateEnd,
         ApplyWrite, At
<1>2. worker[w].op = ""
  BY <1>0, <1>1 DEF Placed, Moving
<1>3. CASE PlanTopology(w)
  <2>1. UNCHANGED <<repoVars, controlVars, boundVars, historyVars>>
    BY <1>3 DEF PlanTopology
  <2> QED BY <1>1, <1>2, <1>3, <2>1 DEF repoVars, controlVars, boundVars, historyVars
<1>4. CASE PlanItems(w)
  <2>1. UNCHANGED <<repoVars, upstream, baseline, ignored, kept,
                    boundVars, historyVars>>
    BY <1>4 DEF PlanItems
  <2> QED BY <1>1, <1>2, <1>4, <2>1 DEF repoVars, boundVars, historyVars
<1>5. CASE ApplyLoad(w)
  <2>1. UNCHANGED <<repoVars, controlVars, boundVars, historyVars>>
    BY <1>5 DEF ApplyLoad
  <2> QED BY <1>1, <1>2, <1>5, <2>1 DEF repoVars, controlVars, boundVars, historyVars
<1>6. CASE ApplyEnd(w) \/ SimulateEnd(w) \/ Replay(w)
  <2>1. /\ worker[w].step \in {"write", "audit", "replay"} /\ loose' \in {loose, ~ignored}
        /\ Answer(w) \/ GoTo(w, "audit")
        /\ UNCHANGED <<repoVars, upstream, baseline, plans, ignored, kept,
                       boundVars, historyVars>>
    BY <1>6 DEF ApplyEnd, SimulateEnd, Replay, At, Touched
  <2>2. Over(w) \/ GoesOn(w, "audit")
    BY <1>0, <2>1, AnswerGoes, GoToGoes DEF Steps
  <2> QED BY <1>1, <1>2, <2>1, <2>2 DEF repoVars, boundVars, historyVars
<1>7. CASE \E q \in Paths : ApplyWrite(w, q)
  <2>1. /\ worker[w].step = "write"
        /\ UNCHANGED <<remote, head, url, ref, controlVars, boundVars, rewound, mixed>>
    BY <1>7 DEF ApplyWrite, At
  <2> QED BY <1>1, <1>2, <1>7, <2>1 DEF controlVars, boundVars
<1> QED BY <1>3, <1>4, <1>5, <1>6, <1>7 DEF Synchronising

\* A request changes by a step of its own only.
LEMMA WorkerStep ==
  ASSUME Typed, [Next]_vars, NEW u \in Workers
  PROVE  \/ worker'[u] = worker[u] \/ worker'[u] = Idle
         \/ Accepting(u) \/ Synchronising(u) \/ Piping(u) \/ Resetting(u)
<1>0. worker[u] = worker[u]
  OBVIOUS
<1>1. ASSUME NEW w \in Workers, Accepting(w) \/ Synchronising(w) \/ Piping(w) \/ Resetting(w)
      PROVE  \E v : Goes(w, v)
  <2>1. CASE Accepting(w)
    BY <2>1, AcceptingIs
  <2>2. CASE Synchronising(w)
    <3>1. CASE PlanTopology(w)
      BY <3>1, PlanTopologyIs
    <3>2. CASE PlanItems(w)
      BY <3>2, PlanItemsIs DEF Over
    <3>3. CASE ApplyLoad(w)
      BY <3>3, ApplyLoadIs DEF Over
    <3>4. CASE Over(w) \/ GoesOn(w, "audit")
      BY <3>4 DEF Over, GoesOn
    <3>5. CASE \E q \in Paths : ApplyWrite(w, q)
      BY <3>5, ApplyWriteIs
    <3> QED BY <2>2, <3>1, <3>2, <3>3, <3>4, <3>5, SynchronisingIs
  <2>3. CASE Piping(w)
    <3>1. Over(w) \/ \E s \in Steps : GoesOn(w, s)
      BY <2>3, PipingIs DEF Steps
    <3> QED BY <3>1 DEF Over, GoesOn
  <2>4. CASE Resetting(w)
    BY <2>4, ResettingIs DEF Over, GoesOn
  <2> QED BY <1>1, <2>1, <2>2, <2>3, <2>4
<1>2. ASSUME NEW w \in Workers, w # u,
             Accepting(w) \/ Synchronising(w) \/ Piping(w) \/ Resetting(w)
      PROVE  worker'[u] = worker[u]
  BY <1>1, <1>2 DEF Goes
<1>3. ASSUME Environment PROVE worker'[u] = worker[u]
  BY <1>3, EnvironmentIs DEF EnvironmentFrame
<1>4. ASSUME Crash PROVE worker'[u] = Idle
  BY <1>4 DEF Crash
<1>5. ASSUME UNCHANGED vars PROVE worker'[u] = worker[u]
  BY <1>0, <1>5 DEF vars
<1> QED BY <1>2, <1>3, <1>4, <1>5, NextIs

\* Who makes a plan did so before, has just been asked, or has read the topology.
LEMMA MakingIs ==
  ASSUME Typed, [Next]_vars, NEW u \in Workers, worker'[u].step \in Making
  PROVE  LET x == worker'[u].plan IN
         \/ worker'[u] = worker[u]
         \/ /\ Accepting(u) /\ worker'[u].step = "topology"
            /\ x \in Plans /\ x.id = requests + 1 /\ requests' = requests + 1
            /\ x.ws = head /\ x.up = ref /\ UNCHANGED <<head, ref, plans, kept, events>>
         \/ /\ PlanTopology(u) /\ worker[u].step = "topology" /\ worker'[u].step = "items"
            /\ x.id = worker[u].plan.id
            /\ x.ws = worker[u].plan.ws /\ x.up = worker[u].plan.up
            /\ x.kind = Topology(head, ref)
            /\ UNCHANGED <<head, ref, plans, kept>>
<1>1. CASE Accepting(u)
  <2>1. /\ requests' = requests + 1
        /\ UNCHANGED <<repoVars, controlVars, events, applied, rewound>>
        /\ \E v \in Request : Goes(u, v) /\ Accepted(u, v)
    BY <1>1, AcceptingIs
  <2>2. PICK v \in Request : Goes(u, v) /\ Accepted(u, v)
    BY <2>1
  <2>3. worker'[u] = v
    BY <2>2 DEF Goes
  <2>4. v.step = "topology"
    BY <2>2, <2>3 DEF Accepted, Making
  <2> QED BY <1>1, <2>1, <2>2, <2>3, <2>4 DEF Accepted, repoVars, controlVars
<1>2. CASE Synchronising(u)
  <2>1. CASE PlanTopology(u)
    <3>1. /\ worker[u].step = "topology"
          /\ UNCHANGED <<repoVars, controlVars, boundVars, historyVars>>
          /\ \E v \in Request :
               /\ Goes(u, v) /\ v.step = "items"
               /\ v.plan.id = worker[u].plan.id
               /\ v.plan.ws = worker[u].plan.ws /\ v.plan.up = worker[u].plan.up
               /\ v.plan.kind = Topology(head, ref)
      BY <2>1, PlanTopologyIs
    <3> QED BY <2>1, <3>1 DEF Goes, repoVars, controlVars
  <2>2. CASE Over(u)
    BY <2>2, IdleRequest DEF Over, Goes, Making
  <2>3. CASE GoesOn(u, "audit")
    BY <2>3 DEF GoesOn, Goes, Making
  <2>4. CASE ApplyLoad(u) \/ PlanItems(u)
    <3>1. Over(u) \/ \E v \in Request : Goes(u, v) /\ v.step = "write"
      BY <2>4, ApplyLoadIs, PlanItemsIs
    <3> QED BY <3>1, <2>2 DEF Goes, Making
  <2>5. CASE \E q \in Paths : ApplyWrite(u, q)
    <3>1. \E v \in Request : Goes(u, v) /\ v.step = "write"
      BY <2>5, ApplyWriteIs
    <3> QED BY <3>1 DEF Goes, Making
  <2> QED BY <1>2, <2>1, <2>2, <2>3, <2>4, <2>5, SynchronisingIs
<1>3. CASE Piping(u)
  <2>1. Over(u) \/ \E s \in Steps \ Making : GoesOn(u, s)
    BY <1>3, PipingIs DEF Steps, Making
  <2>2. CASE Over(u)
    BY <2>2, IdleRequest DEF Over, Goes, Making
  <2>3. ASSUME NEW s \in Steps \ Making, GoesOn(u, s) PROVE FALSE
    BY <2>3 DEF GoesOn, Goes
  <2> QED BY <2>1, <2>2, <2>3
<1>4. CASE Resetting(u)
  <2>1. Over(u) \/ \E s \in {"clean", "base"} : GoesOn(u, s)
    BY <1>4, ResettingIs
  <2>2. CASE Over(u)
    BY <2>2, IdleRequest DEF Over, Goes, Making
  <2>3. ASSUME NEW s \in {"clean", "base"}, GoesOn(u, s) PROVE FALSE
    BY <2>3 DEF GoesOn, Goes, Making
  <2> QED BY <2>1, <2>2, <2>3
<1>5. CASE worker'[u] = Idle
  BY <1>5, IdleRequest DEF Making
<1> QED BY <1>1, <1>2, <1>3, <1>4, <1>5, WorkerStep

\* A commit that is made holds plans there are, or that another commit holds.
LEMMA KeptNext ==
  ASSUME Typed, [Next]_vars
  PROVE  kept' = kept \/ \E s : /\ kept' = [kept EXCEPT ![events + 1] = s]
                                /\ s.plans \subseteq Recorded /\ Environment
<1>1. ASSUME NEW w \in Workers, Accepting(w) PROVE kept' = kept
  BY <1>1, AcceptingIs DEF controlVars
<1>2. ASSUME NEW w \in Workers, Synchronising(w) PROVE kept' = kept
  BY <1>2, SynchronisingIs
<1>3. ASSUME NEW w \in Workers, Piping(w) PROVE kept' = kept
  BY <1>3, PipingIs
<1>4. ASSUME NEW w \in Workers, Resetting(w) PROVE kept' = kept
  BY <1>4, ResettingIs
<1>5. CASE Environment
  <2>1. \A r \in Repos : KeptIn(remote[r]).plans \subseteq Recorded
    <3>1. \A r \in Repos : remote[r][Len(remote[r])].at \in 0..MaxEvents
      BY KeptType DEF Typed, Data
    <3> QED BY <3>1 DEF KeptIn, Recorded
  <2>2. plans \subseteq Recorded
    BY DEF Recorded
  <2> QED BY <1>5, <2>1, <2>2, KeptEnvironment
<1>6. ASSUME Crash \/ UNCHANGED vars PROVE kept' = kept
  BY <1>6 DEF Crash, vars, controlVars
<1> QED BY <1>1, <1>2, <1>3, <1>4, <1>5, <1>6, NextIs

\* Plans come from PlanItems, and from where they are kept.
LEMMA PlansIs ==
  ASSUME Typed, [Next]_vars
  PROVE  \/ Recorded' \subseteq Recorded
         \/ kept' = kept /\ \E w \in Workers : PlanItems(w)
<1>0. ref # << >> => ref \in Commit
  BY DEF Typed, Data, Commit
<1>1. ASSUME plans' = plans, kept' = kept PROVE Recorded' \subseteq Recorded
  BY <1>1 DEF Recorded
<1>2. ASSUME NEW w \in Workers, Accepting(w) PROVE plans' = plans /\ kept' = kept
  BY <1>2, AcceptingIs DEF controlVars
<1>3. ASSUME NEW w \in Workers, Synchronising(w)
      PROVE  kept' = kept /\ (plans' = plans \/ PlanItems(w))
  BY <1>3, SynchronisingIs
<1>4. ASSUME NEW w \in Workers, Piping(w) PROVE plans' = plans /\ kept' = kept
  BY <1>4, PipingIs
<1>5. ASSUME NEW w \in Workers, Resetting(w) PROVE Recorded' \subseteq Recorded
  <2>1. Placed(worker[w], url, ref)
    BY DEF Typed
  <2>2. worker[w].step = "reset" => ref # << >>
    BY <2>1 DEF Placed, Moving, Fetching, Fetched
  <2>3. worker[w].step = "reset" => ref[Len(ref)].at \in 0..MaxEvents
    BY <1>0, <2>2, KeptType
  <2>4. kept' = kept /\ (plans' = plans \/ (worker[w].step = "reset" /\ HeadMoved))
    BY <1>5, ResettingIs
  <2>5. kept' = kept /\ plans' \subseteq Recorded
    BY <2>3, <2>4 DEF HeadMoved, KeptIn, Recorded
  <2> QED BY <2>5 DEF Recorded
<1>6. ASSUME Environment PROVE Recorded' \subseteq Recorded
  <2>1. plans' = plans
    BY <1>6, EnvironmentIs DEF EnvironmentFrame
  <2>2. CASE kept' = kept
    BY <1>1, <2>1, <2>2
  <2>3. ASSUME NEW s, kept' = [kept EXCEPT ![events + 1] = s], s.plans \subseteq Recorded
        PROVE  Recorded' \subseteq Recorded
    <3>1. \A e \in 0..MaxEvents : kept'[e] = s \/ kept'[e] = kept[e]
      BY <2>3 DEF Typed, Data
    <3> QED BY <2>1, <2>3, <3>1 DEF Recorded
  <2> QED BY <2>2, <2>3, KeptNext
<1>7. ASSUME Crash \/ UNCHANGED vars PROVE plans' = plans /\ kept' = kept
  BY <1>7 DEF Crash, vars, controlVars
<1> QED BY <1>1, <1>2, <1>3, <1>4, <1>5, <1>6, <1>7, NextIs

\* A new plan has what its request was about.
LEMMA RecordedIs ==
  ASSUME Typed, [Next]_vars, NEW p \in Recorded', p \notin Recorded
  PROVE  \E w \in Workers : LET x == worker[w].plan IN
           /\ PlanItems(w) /\ worker[w].step = "items" /\ worker'[w].step = "idle"
           /\ UNCHANGED <<head, ref>>
           /\ p.id = x.id /\ p.ws = x.ws /\ p.up = x.up /\ p.kind = x.kind
           /\ p.base = x.base /\ p.scope = x.scope
           /\ p.mode = Modes(x.kind, x.base, head, ref, x.scope)
<1>1. PICK w \in Workers : PlanItems(w) /\ kept' = kept
  BY PlansIs
<1>2. PICK x : x = worker[w].plan
  OBVIOUS
<1>3. /\ worker[w].step = "items" /\ Over(w)
      /\ UNCHANGED <<repoVars, upstream, baseline, ignored, kept, boundVars, historyVars>>
      /\ \E q \in Plans : /\ plans' = plans \cup {q}
                          /\ q.id = x.id /\ q.ws = x.ws /\ q.up = x.up /\ q.kind = x.kind
                          /\ q.base = x.base /\ q.auto = x.auto /\ q.scope = x.scope
                          /\ q.mode = Modes(x.kind, x.base, head, ref, x.scope)
  BY <1>1, <1>2, PlanItemsIs
<1>4. p \in plans' /\ p \notin plans
  BY <1>1 DEF Recorded
<1>5. /\ p.id = x.id /\ p.ws = x.ws /\ p.up = x.up /\ p.kind = x.kind
      /\ p.base = x.base /\ p.scope = x.scope
      /\ p.mode = Modes(x.kind, x.base, head, ref, x.scope)
  BY <1>3, <1>4
<1>6. worker'[w].step = "idle"
  BY <1>3, IdleRequest DEF Over, Goes
<1>7. UNCHANGED <<head, ref>>
  BY <1>3 DEF repoVars
<1> QED BY <1>1, <1>2, <1>3, <1>5, <1>6, <1>7

\* Unless they are known to have gone back, the heads go on.
LEMMA AppendAhead ==
  ASSUME NEW h \in Histories, NEW c \in Commits
  PROVE  Append(h, c) \in Histories /\ Ancestor(h, Append(h, c))
<1> DEFINE z == Append(h, c)
<1>1. h \in Seq(Commits) /\ z \in Seq(Commits) /\ Len(z) = Len(h) + 1 /\ Len(h) \in Nat
      /\ \A i \in 1..Len(h) : z[i] = h[i]
  BY DEF Histories
<1> HIDE DEF z
<1>2. Ancestor(h, z)
  BY <1>1, AncestorIs DEF Histories
<1> QED BY <1>1, <1>2 DEF Histories, z

LEMMA HeadsGo ==
  ASSUME Typed, [Next]_vars, ~rewound'
  PROVE  ~rewound /\ Ancestor(head, head') /\ Ancestor(ref, ref')
<1>0. head \in Histories /\ ref \in Histories /\ Ancestor(head, head) /\ Ancestor(ref, ref)
  BY AncestorOrder DEF Typed, Data, Commit
<1>1. ASSUME NEW w \in Workers, Accepting(w) PROVE UNCHANGED <<head, ref, rewound>>
  BY <1>1, AcceptingIs DEF repoVars
<1>2. ASSUME NEW w \in Workers, Synchronising(w) PROVE UNCHANGED <<head, ref, rewound>>
  BY <1>2, SynchronisingIs
<1>3. ASSUME NEW w \in Workers, Piping(w)
      PROVE  /\ head' = head
             /\ \/ UNCHANGED <<ref, rewound>>
                \/ rewound' = (rewound \/ ~Ancestor(ref, ref'))
  BY <1>3, PipingIs
<1>4. ASSUME NEW w \in Workers, Resetting(w)
      PROVE  /\ ref' = ref
             /\ \/ UNCHANGED <<head, rewound>>
                \/ head' = ref /\ rewound' = (rewound \/ ~Ancestor(head, ref))
  BY <1>4, ResettingIs DEF HeadMoved
<1>5. ASSUME Environment
      PROVE  UNCHANGED <<ref, rewound>> /\ Ancestor(head, head')
  <2>1. UNCHANGED <<ref, rewound>>
    BY <1>5, EnvironmentIs DEF EnvironmentFrame
  <2>2. CASE head' = head
    BY <1>0, <2>1, <2>2
  <2>3. CASE Committed
    BY <1>0, <2>1, <2>3, AppendAhead DEF Committed
  <2> QED BY <1>5, <2>2, <2>3, EnvironmentIs DEF Reached
<1>6. ASSUME Crash \/ UNCHANGED vars PROVE UNCHANGED <<head, ref, rewound>>
  BY <1>6 DEF Crash, vars, repoVars, historyVars
<1>7. CASE UNCHANGED <<head, ref, rewound>>
  BY <1>0, <1>7
<1>8. ASSUME NEW w \in Workers, Piping(w)
      PROVE  ~rewound /\ Ancestor(head, head') /\ Ancestor(ref, ref')
  BY <1>0, <1>3, <1>8
<1>9. ASSUME NEW w \in Workers, Resetting(w)
      PROVE  ~rewound /\ Ancestor(head, head') /\ Ancestor(ref, ref')
  BY <1>0, <1>4, <1>9
<1>10. ASSUME Environment
       PROVE  ~rewound /\ Ancestor(head, head') /\ Ancestor(ref, ref')
  BY <1>0, <1>5, <1>10
<1> QED BY <1>1, <1>2, <1>6, <1>7, <1>8, <1>9, <1>10, NextIs

-----------------------------------------------------------------------------
(* Where commits come from. *)

LEMMA OwnAppend ==
  ASSUME NEW h \in Histories, NEW c \in Commits, NEW r, Own(h, r), c.by \in {r, None}
  PROVE  Own(Append(h, c), r)
<1> DEFINE z == Append(h, c)
<1>1. Len(h) \in Nat /\ Len(z) = Len(h) + 1
      /\ \A i \in 1..Len(z) : z[i] = IF i = Len(h) + 1 THEN c ELSE h[i]
  BY DEF Histories
<1> HIDE DEF z
<1>2. Own(z, r)
  BY <1>1 DEF Own
<1> QED BY <1>2 DEF z

LEMMA AncestorFirst ==
  ASSUME NEW a \in Commit, NEW b \in Histories, Ancestor(a, b)
  PROVE  b \in Commit /\ b[1] = a[1]
<1>1. a \in Histories /\ Len(a) \in Nat /\ Len(a) >= 1
  BY DEF Commit, Histories
<1>2. Len(a) <= Len(b) /\ \A i \in 1..Len(a) : a[i] = b[i]
  BY <1>1, AncestorIs
<1>3. b # << >>
  BY <1>1, <1>2 DEF Histories
<1> QED BY <1>1, <1>2, <1>3 DEF Commit

LEMMA OriginsNext ==
  ASSUME Typed, Origins, [Next]_vars
  PROVE  Origins'
<1>0. /\ remote \in [Repos -> Commit] /\ head \in Commit /\ head \in Histories
      /\ ref \in Histories /\ Len(head) >= 1
  BY DEF Typed, Data, Commit, Histories
<1>1. CASE /\ remote' = remote /\ head' \in {head, ref}
            /\ ref' \in {ref} \cup {remote[r] : r \in Repos}
  <2>1. \A r \in Repos : Uniform(remote[r])
    BY DEF Origins, Uniform
  <2>2. Uniform(head') /\ Uniform(ref')
    BY <1>1, <2>1 DEF Origins
  <2> QED BY <1>1, <2>2 DEF Origins, Uniform
<1>2. ASSUME NEW w \in Workers, Accepting(w) PROVE UNCHANGED <<remote, head, ref>>
  BY <1>2, AcceptingIs DEF repoVars
<1>3. ASSUME NEW w \in Workers, Synchronising(w) PROVE UNCHANGED <<remote, head, ref>>
  BY <1>3, SynchronisingIs
<1>4. ASSUME NEW w \in Workers, Piping(w)
      PROVE  /\ UNCHANGED <<remote, head>>
             /\ ref' \in {ref} \cup {remote[r] : r \in Repos}
  <2>1. Placed(worker[w], url, ref)
    BY DEF Typed
  <2>2. worker[w].step = "fetch" => url \in Repos
    BY <2>1 DEF Placed, Fetching, Moving
  <2> QED BY <1>4, <2>2, PipingIs
<1>5. ASSUME NEW w \in Workers, Resetting(w)
      PROVE  UNCHANGED <<remote, ref>> /\ head' \in {head, ref}
  BY <1>5, ResettingIs DEF HeadMoved
<1>6. ASSUME Crash \/ UNCHANGED vars PROVE UNCHANGED <<remote, head, ref>>
  BY <1>6 DEF Crash, vars, repoVars
<1>7. CASE Environment
  <2>0. ref' = ref
    BY <1>7, EnvironmentIs DEF EnvironmentFrame
  <2>1. CASE UNCHANGED <<remote, head>>
    BY <1>1, <2>0, <2>1
  <2>2. CASE Committed
    <3> DEFINE r == head[1].by
    <3>1. remote' = remote
      BY <2>2 DEF Committed
    <3>2. PICK c \in Commits : c.by = None /\ head' = Append(head, c)
      BY <2>2 DEF Committed
    <3>3. Own(head, r)
      BY <1>0 DEF Origins, Uniform, Commit
    <3>4. Own(head', r)
      BY <1>0, <3>2, <3>3, OwnAppend
    <3>5. Ancestor(head, head') /\ head' \in Histories
      BY <1>0, <3>2, AppendAhead
    <3>6. head'[1] = head[1]
      BY <1>0, <3>5, AncestorFirst
    <3>7. Uniform(head')
      BY <3>4, <3>6 DEF Uniform
    <3> QED BY <2>0, <3>1, <3>7 DEF Origins, Uniform
  <2>3. ASSUME head' = head, NEW r \in Repos, NEW h \in Commit, h[1].by = r, Own(h, r),
               remote' = [remote EXCEPT ![r] = h]
        PROVE  Origins'
    <3>1. \A q \in Repos : remote'[q] = IF q = r THEN h ELSE remote[q]
      BY <1>0, <2>3
    <3>2. \A q \in Repos : remote'[q][1].by = q /\ Own(remote'[q], q)
      BY <2>3, <3>1 DEF Origins
    <3> QED BY <2>0, <2>3, <3>2 DEF Origins, Uniform, Own
  <2>4. ASSUME NEW r \in Repos PROVE remote[r] \in Commit /\ remote[r] \in Histories
               /\ remote[r][1].by = r /\ Own(remote[r], r) /\ Len(remote[r]) \in Nat
    BY <1>0 DEF Origins, Commit, Histories
  <2>5. ASSUME head' = head, NEW r \in Repos, NEW c \in Commits, c.by = r,
               remote' = [remote EXCEPT ![r] = Append(@, c)]
        PROVE  Origins'
    <3> DEFINE h == Append(remote[r], c)
    <3>1. Own(h, r)
      BY <2>4, <2>5, OwnAppend
    <3>2. h \in Histories /\ Ancestor(remote[r], h)
      BY <2>4, AppendAhead
    <3>3. h \in Commit /\ h[1] = remote[r][1]
      BY <2>4, <3>2, AncestorFirst
    <3>4. remote' = [remote EXCEPT ![r] = h]
      BY <1>0, <2>5
    <3> HIDE DEF h
    <3> QED BY <2>3, <2>4, <2>5, <3>1, <3>3, <3>4
  <2>6. ASSUME head' = head, NEW r \in Repos, Len(remote[r]) > 1,
               remote' = [remote EXCEPT ![r] = SubSeq(@, 1, Len(@) - 1)]
        PROVE  Origins'
    <3> DEFINE s == remote[r]
               h == SubSeq(s, 1, Len(s) - 1)
    <3>1. s \in Seq(Commits) /\ Len(s) \in Nat /\ Len(s) > 1 /\ s[1].by = r /\ Own(s, r)
      BY <2>4, <2>6 DEF Histories
    <3>2. remote' = [remote EXCEPT ![r] = h]
      BY <1>0, <2>6
    <3> HIDE DEF s
    <3>3. h \in Seq(Commits) /\ Len(h) = Len(s) - 1 /\ \A i \in 1..Len(h) : h[i] = s[i]
      BY <3>1
    <3> HIDE DEF h
    <3>4. h[1].by = r /\ Own(h, r) /\ Len(h) > 0
      BY <3>1, <3>3 DEF Own
    <3>5. h # << >>
      BY <3>3, <3>4
    <3>6. h \in Commit
      BY <3>3, <3>5 DEF Commit, Histories
    <3> QED BY <2>3, <2>6, <3>2, <3>4, <3>6
  <2>7. ASSUME head' = head, NEW r \in Repos, Ancestor(remote[r], head),
               remote' = [remote EXCEPT ![r] = head]
        PROVE  Origins'
    <3>1. head[1].by = r
      BY <1>0, <2>4, <2>7, AncestorFirst
    <3>2. Own(head, r)
      BY <1>0, <3>1 DEF Origins, Uniform, Commit
    <3> QED BY <1>0, <2>3, <2>7, <3>1, <3>2
  <2> QED BY <1>7, <2>1, <2>2, <2>5, <2>6, <2>7, EnvironmentIs DEF Reached
<1>8. ASSUME UNCHANGED <<remote, head, ref>> PROVE Origins'
  BY <1>1, <1>8
<1>9. ASSUME NEW w \in Workers, Piping(w) PROVE Origins'
  BY <1>1, <1>4, <1>9
<1>10. ASSUME NEW w \in Workers, Resetting(w) PROVE Origins'
  BY <1>1, <1>5, <1>10
<1> QED BY <1>2, <1>3, <1>6, <1>7, <1>8, <1>9, <1>10, NextIs

-----------------------------------------------------------------------------
(* What upstream.json and baseline.json say. *)

\* A request that does not move the upstream has nothing to be told.
LEMMA ToldNothing ==
  ASSUME NEW v \in Request, v.op = "", Placed(v, url, ref)
  PROVE  Told(v) /\ v.step \notin Moving
BY DEF Placed, Told, Moving, Fetching, Fetched

\* Steps of other requests, and commits in the workspace.
LEMMA TrueElsewhere ==
  ASSUME Typed, Typed', TrueNow, UNCHANGED <<url, ref, upstream, baseline>>,
         head' = head \/ \E c \in Commits : head' = Append(head, c),
         \A u \in Workers : \/ worker'[u] = worker[u]
                            \/ worker'[u].op = "" /\ worker[u].op = ""
  PROVE  TrueNow'
<1>1. \A b \in Histories : Ancestor(b, head) => Ancestor(b, head')
  <2>1. head \in Histories
    BY DEF Typed, Data, Commit
  <2>2. ASSUME NEW b \in Histories, Ancestor(b, head), NEW c \in Commits,
               head' = Append(head, c)
        PROVE  Ancestor(b, head')
    BY <2>1, <2>2, AppendAhead, AncestorOrder
  <2> QED BY <2>2
<1>2. \A u \in Workers : /\ worker'[u] \in Request /\ Placed(worker'[u], url', ref')
                         /\ worker[u] \in Request /\ Placed(worker[u], url, ref)
                         /\ worker[u].head \in Histories
  <2>1. \A u \in Workers : worker'[u] \in Request /\ Placed(worker'[u], url', ref')
    BY DEF Typed
  <2> QED BY <2>1, Here
<1>3. \A u \in Workers : worker'[u].op # "" => worker'[u] = worker[u]
  OBVIOUS
<1>4. Alone'
  <2>1. \A u \in Workers : worker'[u].op # "" => worker[u].op # ""
    BY <1>3
  <2> QED BY <2>1 DEF TrueNow, Alone
<1>5. ASSUME NEW u \in Workers PROVE Told(worker[u])'
  <2>1. CASE worker'[u].op = ""
    <3>1. worker'[u].step \notin Moving
      BY <1>2, <2>1 DEF Placed
    <3> QED BY <2>1, <3>1 DEF Told, Moving, Fetching, Fetched
  <2>2. CASE worker'[u] = worker[u]
    <3>1. Told(worker[u]) /\ Ancestor(worker[u].head, head) => Ancestor(worker[u].head, head')
      BY <1>1, <1>2
    <3> QED BY <1>1, <1>2, <2>2 DEF Told, TrueNow
  <2> QED BY <2>1, <2>2
<1>6. \A u \in Workers : worker'[u].step \in Moving <=> worker[u].step \in Moving
  BY <1>2 DEF Placed
<1>7. \A u \in Workers : worker'[u].step \in Moving => worker'[u].step = worker[u].step
  BY <1>2, <1>3 DEF Placed
<1>8. \A S \in SUBSET Moving : Nobody(S)' => Nobody(S)
  BY <1>6, <1>7 DEF Nobody
<1>9. {"config", "clean", "base", "again"} \subseteq Moving
  BY DEF Moving
<1>10. Nobody({"config", "clean", "base", "again"})' =>
         upstream' = NoConfig \/ url' = upstream'.repo
  BY <1>8, <1>9 DEF TrueNow
<1>11. Nobody({"clean", "base", "again"})' /\ upstream'.fetched => Own(ref', upstream'.repo)
  BY <1>8, <1>9 DEF TrueNow
<1>12. Nobody({"clean", "base"})' /\ baseline' # << >> => Ancestor(baseline', head')
  <2>1. baseline \in Histories
    BY DEF Typed, Data
  <2> QED BY <1>1, <1>8, <1>9, <2>1 DEF TrueNow
<1> QED BY <1>4, <1>5, <1>10, <1>11, <1>12 DEF TrueNow

LEMMA OverIs ==
  ASSUME worker \in [Workers -> Request], NEW w \in Workers, Over(w)
  PROVE  /\ worker'[w].step = "idle" /\ worker'[w].op = "" /\ worker'[w].plan = NoPlan
         /\ \A u \in Workers \ {w} : worker'[u] = worker[u]
BY IdleRequest DEF Over

LEMMA GoesOnIs ==
  ASSUME worker \in [Workers -> Request], NEW w \in Workers, NEW s, GoesOn(w, s)
  PROVE  /\ worker'[w].step = s /\ worker'[w].op = worker[w].op
         /\ worker'[w].repo = worker[w].repo /\ worker'[w].head = worker[w].head
         /\ worker'[w].plan = worker[w].plan
         /\ \A u \in Workers \ {w} : worker'[u] = worker[u]
BY DEF GoesOn

\* Steps of a request that moves the upstream, when it is the only one.
LEMMA TrueAlone ==
  ASSUME Typed, Typed', NEW w \in Workers,
         \A u \in Workers \ {w} : worker'[u] = worker[u] /\ worker[u].op = "",
         Told(worker[w])',
         worker'[w].step \notin {"config", "clean", "base", "again"} =>
           upstream' = NoConfig \/ url' = upstream'.repo,
         worker'[w].step \notin {"clean", "base", "again"} /\ upstream'.fetched =>
           Own(ref', upstream'.repo),
         worker'[w].step \notin {"clean", "base"} /\ baseline' # << >> =>
           Ancestor(baseline', head')
  PROVE  TrueNow'
<1>1. \A u \in Workers \ {w} : worker'[u].op = ""
  OBVIOUS
<1>2. \A u \in Workers : Placed(worker'[u], url', ref')
  BY DEF Typed
<1>3. Alone'
  BY <1>1 DEF Alone
<1>4. ASSUME NEW u \in Workers PROVE Told(worker[u])'
  <2>1. CASE u = w
    BY <2>1
  <2>2. CASE u # w
    <3>1. worker'[u].op = "" /\ worker'[u].step \notin Moving
      BY <1>1, <1>2, <2>2 DEF Placed
    <3> QED BY <3>1 DEF Told, Moving, Fetching, Fetched
  <2> QED BY <2>1, <2>2
<1>5. \A S : Nobody(S)' => worker'[w].step \notin S
  BY DEF Nobody
<1> QED BY <1>3, <1>4, <1>5 DEF TrueNow

LEMMA UpstreamNext ==
  ASSUME Typed, Origins, UpstreamTrue, [Next]_vars
  PROVE  UpstreamTrue'
<1> SUFFICES ASSUME ~mixed' PROVE TrueNow'
  BY DEF UpstreamTrue
<1>0. /\ Typed' /\ worker \in [Workers -> Request]
      /\ head \in Histories /\ ref \in Histories /\ baseline \in Histories
      /\ upstream = NoConfig \/ (upstream.repo \in Repos /\ url \in Repos)
  BY TypedNext DEF Typed, Data, Commit
<1>1. \A u \in Workers : Placed(worker[u], url, ref)
  BY DEF Typed
<1>2. NoConfig.fetched = FALSE
  BY DEF NoConfig
<1>3. TrueNow => /\ \A u \in Workers : Told(worker[u])
                 /\ \A w \in Workers : worker[w].op # "" =>
                      \A u \in Workers \ {w} : worker[u].op = ""
  BY DEF TrueNow, Alone
<1>4. ASSUME NEW w \in Workers, Accepting(w) PROVE TrueNow'
  <2>1. /\ worker[w].step = "idle"
        /\ UNCHANGED <<repoVars, controlVars, events, applied, rewound>>
        /\ \E v \in Request : Goes(w, v) /\ Accepted(w, v)
    BY <1>4, AcceptingIs
  <2>2. PICK v \in Request : Goes(w, v) /\ Accepted(w, v)
    BY <2>1
  <2>3. UNCHANGED <<remote, head, url, ref, upstream, baseline>>
    BY <2>1 DEF repoVars, controlVars
  <2>4. ~mixed
    BY <2>2 DEF Accepted, Meets
  <2>5. TrueNow
    BY <2>4 DEF UpstreamTrue
  <2>6. worker[w].op = "" /\ worker'[w] = v
        /\ \A u \in Workers \ {w} : worker'[u] = worker[u]
    BY <1>1, <2>1, <2>2 DEF Placed, Moving, Goes
  <2>7. CASE v.op = ""
    <3>1. worker'[w].op = ""
      BY <2>6, <2>7
    <3> QED BY <1>0, <2>3, <2>5, <2>6, <3>1, TrueElsewhere
  <2>8. CASE v.op # ""
    <3>1. /\ v.step \in {"fetch", "url"} /\ Meets(w)
          /\ v.step = "fetch" => v.repo = upstream.repo /\ upstream # NoConfig /\ v.op = "fetch"
          /\ v.op = "rebaseline" => v.head = head
      BY <2>2, <2>8 DEF Accepted
    <3>2. \A u \in Workers \ {w} : worker[u].op = ""
      BY <3>1 DEF Meets, Crowded
    <3>3. \A u \in Workers : worker[u].step \notin Moving
      BY <1>1, <2>6, <3>2 DEF Placed
    <3>4. \A S \in SUBSET Moving : Nobody(S)
      BY <3>3 DEF Nobody
    <3>5. upstream = NoConfig \/ url = upstream.repo
      BY <2>5, <3>4 DEF TrueNow, Moving
    <3>6. baseline # << >> => Ancestor(baseline, head)
      BY <2>5, <3>4 DEF TrueNow, Moving
    <3>7. Ancestor(head, head)
      BY <1>0, AncestorOrder
    <3>8. Told(v)
      BY <3>1, <3>5, <3>7 DEF Told, Fetched, Fetching, Moving
    <3>9. Told(worker[w])'
      BY <2>3, <2>6, <3>8 DEF Told
    <3>10. upstream.fetched => Own(ref, upstream.repo)
      BY <2>5, <3>4 DEF TrueNow, Moving
    <3> QED BY <1>0, <2>3, <2>6, <3>2, <3>5, <3>6, <3>9, <3>10, TrueAlone
  <2> QED BY <2>7, <2>8
<1>5. ASSUME NEW w \in Workers, Synchronising(w) PROVE TrueNow'
  <2>1. UNCHANGED <<head, url, ref, upstream, baseline>> /\ worker[w].op = ""
    BY <1>5, SynchronisingIs
  <2>2. ~mixed
    BY <1>5, SynchronisingIs
  <2>3. TrueNow
    BY <2>2 DEF UpstreamTrue
  <2>4. worker'[w].op = "" /\ \A u \in Workers \ {w} : worker'[u] = worker[u]
    <3>1. ASSUME NEW v, Goes(w, v), v.op = ""
          PROVE  worker'[w].op = "" /\ \A u \in Workers \ {w} : worker'[u] = worker[u]
      BY <3>1 DEF Goes
    <3>2. CASE PlanTopology(w)
      BY <3>1, <3>2, PlanTopologyIs
    <3>3. CASE Over(w)
      BY <3>1, <3>3, IdleRequest DEF Over
    <3>4. CASE GoesOn(w, "audit")
      BY <2>1, <3>1, <3>4 DEF GoesOn
    <3>5. CASE PlanItems(w)
      BY <3>3, <3>5, PlanItemsIs
    <3>6. CASE ApplyLoad(w)
      BY <3>1, <3>3, <3>6, ApplyLoadIs
    <3>7. CASE \E q \in Paths : ApplyWrite(w, q)
      BY <3>1, <3>7, ApplyWriteIs
    <3> QED BY <1>5, <3>2, <3>3, <3>4, <3>5, <3>6, <3>7, SynchronisingIs
  <2> QED BY <1>0, <2>1, <2>3, <2>4, TrueElsewhere
<1>6. ASSUME NEW w \in Workers, Piping(w) PROVE TrueNow'
  <2> DEFINE v == worker[w]
  <2>0. mixed' = mixed /\ head' = head
    BY <1>6, PipingIs
  <2>1. TrueNow
    BY <2>0 DEF UpstreamTrue
  <2>2. v.step \in Moving /\ v.repo \in Repos /\ v.op # ""
    <3>1. v.step \in Moving
      BY <1>6, PipingIs DEF Moving
    <3> QED BY <1>1, <3>1 DEF Placed
  <2>3. Told(v) /\ \A u \in Workers \ {w} : worker[u].op = ""
    BY <1>3, <2>1, <2>2
  <2>4. \A S \in SUBSET Moving : v.step \notin S => Nobody(S)
    BY <1>1, <2>3 DEF Placed, Nobody
  <2>5. /\ v.step \notin {"config", "clean", "base", "again"} =>
             upstream = NoConfig \/ url = upstream.repo
        /\ v.step \notin {"clean", "base", "again"} /\ upstream.fetched =>
             Own(ref, upstream.repo)
        /\ v.step \notin {"clean", "base"} /\ baseline # << >> => Ancestor(baseline, head)
    BY <2>1, <2>4 DEF TrueNow, Moving
  <2>6. ASSUME Over(w) \/ \E s : GoesOn(w, s)
        PROVE  \A u \in Workers \ {w} : worker'[u] = worker[u] /\ worker[u].op = ""
    BY <1>0, <2>3, <2>6, OverIs, GoesOnIs
  <2>7. \A u \in Workers \ {w} : worker'[u] = worker[u] /\ worker[u].op = ""
    BY <1>6, <2>6, PipingIs
  <2>8. Over(w) => worker'[w].step = "idle" /\ worker'[w].op = ""
    BY <1>0, OverIs
  <2>9. \A s : GoesOn(w, s) => /\ worker'[w].step = s /\ worker'[w].op = v.op
                               /\ worker'[w].repo = v.repo /\ worker'[w].head = v.head
    BY <1>0, GoesOnIs
  <2>10. ASSUME worker'[w].step = "idle" /\ worker'[w].op = ""
         PROVE  Told(worker[w])'
    BY <2>10 DEF Told, Moving, Fetching, Fetched
  <2> HIDE DEF v
  <2>11. CASE /\ v.step = "url" /\ GoesOn(w, "config") /\ url' = v.repo
              /\ UNCHANGED <<ref, upstream, baseline, loose, rewound>>
    <3>1. worker'[w].step = "config" /\ worker'[w].op = v.op /\ worker'[w].repo = v.repo
          /\ worker'[w].head = v.head
      BY <2>9, <2>11
    <3>2. Told(worker[w])'
      BY <2>0, <2>3, <2>11, <3>1 DEF Told, Moving, Fetching, Fetched
    <3> QED BY <1>0, <2>0, <2>5, <2>7, <2>11, <3>1, <3>2, TrueAlone
  <2>12. CASE /\ v.step = "config" /\ (Over(w) \/ (v.op # "connect" /\ GoesOn(w, "fetch")))
              /\ upstream' = [repo |-> v.repo, fetched |-> FALSE]
              /\ UNCHANGED <<url, ref, baseline, rewound>>
    <3>1. url = v.repo
      BY <2>3, <2>12 DEF Told, Fetching, Moving
    <3>2. Told(worker[w])'
      <4>1. CASE Over(w)
        BY <2>8, <2>10, <4>1
      <4>2. CASE GoesOn(w, "fetch")
        BY <2>0, <2>3, <2>9, <2>12, <3>1, <4>2 DEF Told, Moving, Fetching, Fetched
      <4> QED BY <2>12, <4>1, <4>2
    <3> QED BY <1>0, <2>0, <2>5, <2>7, <2>12, <3>1, <3>2, TrueAlone
  <2>13. CASE /\ v.step \in {"fetch", "rebaseline"} /\ Over(w)
              /\ baseline' = IF v.step = "rebaseline" THEN v.head ELSE baseline
              /\ UNCHANGED <<url, ref, upstream, rewound>>
    <3>1. v.step = "rebaseline" => Ancestor(v.head, head)
      <4>1. v.step = "rebaseline" => v.op = "rebaseline"
        BY <1>1 DEF Placed, v
      <4> QED BY <2>3, <4>1 DEF Told
    <3>2. Told(worker[w])'
      BY <2>8, <2>10, <2>13
    <3> QED BY <1>0, <2>0, <2>5, <2>7, <2>13, <3>1, <3>2, TrueAlone
  <2>14. CASE /\ v.step = "fetch" /\ GoesOn(w, "fetched") /\ ref' = remote[url]
              /\ UNCHANGED <<url, upstream, baseline, loose>>
    <3>1. url = v.repo /\ upstream.repo = v.repo
      BY <2>3, <2>14 DEF Told, Fetching, Moving
    <3>2. Own(ref', v.repo)
      BY <2>2, <2>14, <3>1 DEF Origins
    <3>3. Told(worker[w])'
      BY <2>0, <2>3, <2>9, <2>14, <3>1, <3>2 DEF Told, Moving, Fetching, Fetched
    <3> QED BY <1>0, <2>0, <2>5, <2>7, <2>14, <3>1, <3>2, <3>3, TrueAlone
  <2>15. CASE /\ v.step = "fetched"
              /\ upstream' = [repo |-> v.repo, fetched |-> TRUE]
              /\ Over(w) \/ \E s \in {"rebaseline", "reset"} : GoesOn(w, s)
              /\ UNCHANGED <<url, ref, baseline, rewound>>
    <3>1. url = v.repo /\ Own(ref, v.repo)
      BY <2>3, <2>15 DEF Told, Fetching, Fetched, Moving
    <3>2. Told(worker[w])'
      <4>1. CASE Over(w)
        BY <2>8, <2>10, <4>1
      <4>2. ASSUME NEW s \in {"rebaseline", "reset"}, GoesOn(w, s) PROVE Told(worker[w])'
        BY <2>0, <2>3, <2>9, <2>15, <3>1, <4>2 DEF Told, Moving, Fetching, Fetched
      <4> QED BY <2>15, <4>1, <4>2
    <3> QED BY <1>0, <2>0, <2>5, <2>7, <2>15, <3>1, <3>2, TrueAlone
  <2>16. CASE /\ v.step = "base" /\ GoesOn(w, "again") /\ baseline' = head
              /\ UNCHANGED <<url, ref, upstream, rewound>>
    <3>1. Ancestor(head, head)
      BY <1>0, AncestorOrder
    <3>2. worker'[w].step = "again" /\ worker'[w].op = v.op /\ worker'[w].repo = v.repo
          /\ worker'[w].head = v.head
      BY <2>9, <2>16
    <3>3. v.step \in Fetched
      BY <2>16 DEF Moving, Fetching, Fetched
    <3>4. url = v.repo /\ Own(ref, v.repo)
      BY <2>3, <3>3 DEF Told, Fetched
    <3>5. Told(worker[w])'
      BY <2>0, <2>3, <2>16, <3>2, <3>4 DEF Told
    <3>6. Ancestor(baseline', head')
      BY <2>0, <2>16, <3>1
    <3> QED BY <1>0, <2>7, <3>2, <3>5, <3>6, TrueAlone
  <2>17. CASE /\ v.step = "again" /\ Over(w)
              /\ upstream' = [repo |-> v.repo, fetched |-> TRUE]
              /\ UNCHANGED <<url, ref, baseline, rewound>>
    <3>1. url = v.repo /\ Own(ref, v.repo)
      BY <2>3, <2>17 DEF Told, Fetching, Fetched, Moving
    <3>2. Told(worker[w])'
      BY <2>8, <2>10, <2>17
    <3> QED BY <1>0, <2>0, <2>5, <2>7, <2>17, <3>1, <3>2, TrueAlone
  <2> QED BY <1>6, <2>11, <2>12, <2>13, <2>14, <2>15, <2>16, <2>17, PipingIs DEF v
<1>7. ASSUME NEW w \in Workers, Resetting(w) PROVE TrueNow'
  <2>1. /\ worker[w].step \in {"reset", "clean"} /\ UNCHANGED <<url, ref, mixed>>
        /\ \/ Over(w) /\ UNCHANGED <<head, upstream, baseline>>
           \/ \E s \in {"clean", "base"} : GoesOn(w, s)
    BY <1>7, ResettingIs
  <2>2. TrueNow
    BY <2>1 DEF UpstreamTrue
  <2>3. worker[w].op = "reset" /\ worker[w].step \in Fetched
    BY <1>1, <2>1 DEF Placed, Moving, Fetched, Fetching
  <2>4. Told(worker[w]) /\ \A u \in Workers \ {w} : worker[u].op = ""
    BY <1>3, <2>2, <2>3
  <2>5. url = worker[w].repo /\ Own(ref, worker[w].repo)
    BY <2>3, <2>4 DEF Told, Fetched
  <2>6. CASE Over(w) /\ UNCHANGED <<head, upstream, baseline>> /\ worker[w].step = "reset"
    <3>1. /\ worker'[w].step = "idle" /\ worker'[w].op = ""
          /\ \A u \in Workers \ {w} : worker'[u] = worker[u]
      BY <1>0, <2>6, OverIs
    <3>2. Told(worker[w])'
      BY <3>1 DEF Told, Moving, Fetching, Fetched
    <3>3. \A S \in SUBSET Moving : "reset" \notin S => Nobody(S)
      BY <1>1, <2>4, <2>6 DEF Placed, Nobody
    <3>4. /\ upstream = NoConfig \/ url = upstream.repo
          /\ upstream.fetched => Own(ref, upstream.repo)
          /\ baseline # << >> => Ancestor(baseline, head)
      BY <2>2, <3>3 DEF TrueNow, Moving
    <3> QED BY <1>0, <2>1, <2>4, <2>6, <3>1, <3>2, <3>4, TrueAlone
  <2>7. ASSUME NEW s \in {"clean", "base"}, GoesOn(w, s) PROVE TrueNow'
    <3>1. /\ worker'[w].step = s /\ worker'[w].op = "reset" /\ worker'[w].repo = worker[w].repo
          /\ \A u \in Workers \ {w} : worker'[u] = worker[u]
      BY <1>0, <2>3, <2>7, GoesOnIs
    <3>2. Told(worker[w])'
      BY <2>1, <2>5, <3>1 DEF Told, Moving, Fetching, Fetched
    <3> QED BY <1>0, <2>4, <3>1, <3>2, TrueAlone
  <2>8. worker[w].step = "clean" => \E s \in {"clean", "base"} : GoesOn(w, s)
    <3>1. ASSUME Clean(w) PROVE GoTo(w, "base")
      BY <3>1 DEF Clean
    <3>2. ASSUME Clean(w) PROVE GoesOn(w, "base")
      BY <1>0, <3>1, <3>2, GoToGoes DEF Steps
    <3>3. Reset(w) \/ ResetFails(w) => worker[w].step = "reset"
      BY DEF Reset, ResetThen, ResetFails, At
    <3> QED BY <1>7, <3>2, <3>3 DEF Resetting
  <2> QED BY <2>1, <2>6, <2>7, <2>8
<1>8. ASSUME Environment PROVE TrueNow'
  <2>1. UNCHANGED <<url, ref, upstream, baseline, worker, mixed>>
    BY <1>8, EnvironmentIs DEF EnvironmentFrame
  <2>2. TrueNow
    BY <2>1 DEF UpstreamTrue
  <2>3. head' = head \/ \E c \in Commits : head' = Append(head, c)
    BY <1>8, EnvironmentIs DEF Committed, Reached
  <2> QED BY <1>0, <2>1, <2>2, <2>3, TrueElsewhere
<1>9. ASSUME Crash PROVE TrueNow'
  <2>1. /\ UNCHANGED <<repoVars, controlVars, requests, applied, rewound>>
        /\ worker' = [w \in Workers |-> Idle]
        /\ mixed' = (mixed \/ \E w \in Workers : worker[w].op # "")
    BY <1>9, CrashIs
  <2>2. UNCHANGED <<head, url, ref, upstream, baseline>>
    BY <2>1 DEF repoVars, controlVars
  <2>3. TrueNow /\ \A u \in Workers : worker'[u].op = "" /\ worker[u].op = ""
    BY <2>1, IdleRequest DEF UpstreamTrue
  <2> QED BY <1>0, <2>2, <2>3, TrueElsewhere
<1>10. ASSUME UNCHANGED vars PROVE TrueNow'
  <2>1. UNCHANGED <<head, url, ref, upstream, baseline, mixed, worker>>
    BY <1>10 DEF vars, repoVars, controlVars, historyVars
  <2>2. TrueNow
    BY <2>1 DEF UpstreamTrue
  <2> QED BY <1>0, <2>1, <2>2, TrueElsewhere
<1> QED BY <1>4, <1>5, <1>6, <1>7, <1>8, <1>9, <1>10, NextIs

-----------------------------------------------------------------------------
(* What the plans say. *)

\* Heads that go on do not come back to a plan they have left.
LEMMA StillBehind ==
  ASSUME Typed, Typed', Ancestor(head, head'), Ancestor(ref, ref'),
         NEW p, p.ws \in Histories, p.up \in Histories, Behind(p)
  PROVE  /\ Behind(p)'
         /\ Fresh(p)' => Fresh(p) /\ head' = head /\ ref' = ref
<1>1. head \in Histories /\ ref \in Histories /\ head' \in Histories /\ ref' \in Histories
  BY DEF Typed, Data, Commit
<1>2. Ancestor(p.ws, head') /\ Ancestor(p.up, ref')
  BY <1>1, AncestorOrder DEF Behind
<1>3. p.ws = head' => head' = head
  BY <1>1, AncestorOrder DEF Behind
<1>4. p.up = ref' => ref' = ref
  BY <1>1, AncestorOrder DEF Behind
<1> QED BY <1>2, <1>3, <1>4 DEF Behind, Fresh

LEMMA StillTrue ==
  ASSUME Typed, Typed', Ancestor(head, head'), Ancestor(ref, ref'),
         NEW p, p.ws \in Histories, p.up \in Histories, Behind(p)
  PROVE  /\ Behind(p)'
         /\ KindTrue(p) => KindTrue(p)'
         /\ ModeTrue(p) => ModeTrue(p)'
<1>1. Behind(p)' /\ (Fresh(p)' => Fresh(p) /\ head' = head /\ ref' = ref)
  BY StillBehind
<1>2. KindTrue(p) => KindTrue(p)'
  BY <1>1 DEF KindTrue
<1>3. ModeTrue(p) => ModeTrue(p)'
  BY <1>1 DEF ModeTrue
<1> QED BY <1>1, <1>2, <1>3

LEMMA RecordedType == ASSUME Typed PROVE \A p \in Recorded : p \in Plans
BY DEF Typed, Data, Recorded, Snapshot

LEMMA PlansTrueNext ==
  ASSUME Typed, PlansTrue, [Next]_vars
  PROVE  PlansTrue'
<1> SUFFICES ASSUME ~rewound'
             PROVE  /\ \A p \in Recorded' : Behind(p)' /\ KindTrue(p)' /\ ModeTrue(p)'
                    /\ \A u \in Workers :
                         /\ worker'[u].step \in Making => Behind(worker[u].plan)'
                         /\ worker'[u].step = "items" => KindTrue(worker[u].plan)'
  BY DEF PlansTrue
<1>0. /\ Typed' /\ ~rewound /\ Ancestor(head, head') /\ Ancestor(ref, ref')
      /\ head \in Histories /\ ref \in Histories
  BY HeadsGo, TypedNext DEF Typed, Data, Commit
<1>1. \A p \in Plans : p.ws \in Histories /\ p.up \in Histories
  BY DEF Plans, Commit
<1>2. \A u \in Workers : worker[u].step \in Making =>
        /\ Behind(worker[u].plan) /\ worker[u].plan \in Plans
        /\ worker[u].plan.ws \in Histories /\ worker[u].plan.up \in Histories
        /\ worker[u].step = "items" => KindTrue(worker[u].plan)
  <2>1. \A u \in Workers : worker[u].step \in Making => worker[u].plan \in Plans
    BY DEF Typed, Placed
  <2>2. \A u \in Workers : worker[u].step \in Making =>
          /\ Behind(worker[u].plan)
          /\ worker[u].step = "items" => KindTrue(worker[u].plan)
    BY <1>0 DEF PlansTrue
  <2> QED BY <1>1, <2>1, <2>2
<1>3. ASSUME NEW p \in Recorded' PROVE Behind(p)' /\ KindTrue(p)' /\ ModeTrue(p)'
  <2>1. CASE p \in Recorded
    <3>1. Behind(p) /\ KindTrue(p) /\ ModeTrue(p)
      BY <1>0, <2>1 DEF PlansTrue
    <3>2. p.ws \in Histories /\ p.up \in Histories
      BY <1>1, <2>1, RecordedType
    <3> QED BY <1>0, <3>1, <3>2, StillTrue
  <2>2. CASE p \notin Recorded
    <3>1. PICK w \in Workers : LET x == worker[w].plan IN
            /\ PlanItems(w) /\ worker[w].step = "items" /\ UNCHANGED <<head, ref>>
            /\ p.id = x.id /\ p.ws = x.ws /\ p.up = x.up /\ p.kind = x.kind
            /\ p.base = x.base /\ p.scope = x.scope
            /\ p.mode = Modes(x.kind, x.base, head, ref, x.scope)
      BY <2>2, RecordedIs
    <3>2. PICK x : x = worker[w].plan
      OBVIOUS
    <3>3. /\ p.ws = x.ws /\ p.up = x.up /\ p.kind = x.kind
          /\ p.base = x.base /\ p.scope = x.scope
          /\ p.mode = Modes(x.kind, x.base, head, ref, x.scope)
      BY <3>1, <3>2
    <3>4. Behind(x) /\ KindTrue(x)
      BY <1>2, <3>1, <3>2 DEF Making
    <3>5. Behind(p)'
      BY <3>1, <3>3, <3>4 DEF Behind
    <3>6. KindTrue(p)'
      BY <3>1, <3>3, <3>4 DEF KindTrue, Fresh
    <3>7. ModeTrue(p)'
      BY <3>1, <3>3 DEF ModeTrue
    <3> QED BY <3>5, <3>6, <3>7
  <2> QED BY <2>1, <2>2
<1>4. ASSUME NEW u \in Workers, worker'[u].step \in Making
      PROVE  /\ Behind(worker[u].plan)'
             /\ worker'[u].step = "items" => KindTrue(worker[u].plan)'
  <2>0. PICK x : x = worker'[u].plan
    OBVIOUS
  <2> SUFFICES Behind(x)' /\ (worker'[u].step = "items" => KindTrue(x)')
    BY <2>0 DEF Behind, KindTrue, Fresh
  <2>1. CASE worker'[u] = worker[u]
    <3>1. worker[u].step = worker'[u].step /\ worker[u].plan = x
      BY <2>0, <2>1
    <3>2. /\ Behind(x) /\ x.ws \in Histories /\ x.up \in Histories
          /\ worker[u].step = "items" => KindTrue(x)
      BY <1>2, <1>4, <3>1
    <3> QED BY <1>0, <3>1, <3>2, StillTrue
  <2>2. CASE /\ worker'[u].step = "topology" /\ x.ws = head /\ x.up = ref
             /\ UNCHANGED <<head, ref>>
    <3>1. Behind(x)'
      BY <1>0, <2>2, AncestorOrder DEF Behind
    <3> QED BY <2>2, <3>1
  <2>3. CASE /\ PlanTopology(u) /\ worker[u].step = "topology"
             /\ x.ws = worker[u].plan.ws /\ x.up = worker[u].plan.up
             /\ x.kind = Topology(head, ref) /\ UNCHANGED <<head, ref>>
    <3>1. Behind(x)'
      <4>1. Behind(worker[u].plan)
        BY <1>2, <2>3 DEF Making
      <4> QED BY <2>3, <4>1 DEF Behind
    <3>2. KindTrue(x)'
      BY <2>3 DEF KindTrue
    <3> QED BY <3>1, <3>2
  <2> QED BY <1>4, <2>0, <2>1, <2>2, <2>3, MakingIs
<1>5. \A p \in Recorded' : Behind(p)' /\ KindTrue(p)' /\ ModeTrue(p)'
  BY <1>3
<1>6. ASSUME NEW u \in Workers
      PROVE  /\ worker'[u].step \in Making => Behind(worker[u].plan)'
             /\ worker'[u].step = "items" => KindTrue(worker[u].plan)'
  BY <1>4 DEF Making
<1> QED BY <1>5, <1>6

-----------------------------------------------------------------------------
(* How old commits and plans are. *)

LEMMA Dates == ASSUME NEW h \in Histories PROVE \A i \in 1..Len(h) : h[i].at \in Nat
<1>1. \A i \in 1..Len(h) : h[i] \in Commits
  BY DEF Histories
<1>2. \A c \in Commits : c.at \in Nat
  BY SyncAssumption DEF Commits, SyncAssumption
<1> QED BY <1>1, <1>2

LEMMA Ages ==
  ASSUME Typed, [Next]_vars
  PROVE  /\ events \in Nat /\ events' \in Nat /\ events <= events'
         /\ requests \in Nat /\ requests' \in Nat /\ requests <= requests'
         /\ ignored' = ignored
         /\ \A h \in Histories : Old(h) => Old(h)'
<1>1. events \in Nat /\ requests \in Nat
  BY SyncAssumption DEF Typed, Data, SyncAssumption
<1>2. /\ events' \in {events, events + 1} /\ requests' \in {requests, requests + 1}
      /\ ignored' = ignored
  <2>1. ASSUME NEW w \in Workers, Accepting(w)
        PROVE  events' = events /\ requests' = requests + 1 /\ ignored' = ignored
    BY <2>1, AcceptingIs DEF controlVars
  <2>2. ASSUME NEW w \in Workers, Synchronising(w)
        PROVE  UNCHANGED <<events, requests, ignored>>
    BY <2>2, SynchronisingIs
  <2>3. ASSUME NEW w \in Workers, Piping(w) PROVE UNCHANGED <<events, requests, ignored>>
    BY <2>3, PipingIs
  <2>4. ASSUME NEW w \in Workers, Resetting(w) PROVE UNCHANGED <<events, requests, ignored>>
    BY <2>4, ResettingIs
  <2>5. ASSUME Environment \/ Crash
        PROVE  events' = events + 1 /\ UNCHANGED <<requests, ignored>>
    BY <2>5, EnvironmentIs, CrashIs DEF EnvironmentFrame, controlVars
  <2>6. ASSUME UNCHANGED vars PROVE UNCHANGED <<events, requests, ignored>>
    BY <2>6 DEF vars, boundVars, controlVars
  <2> QED BY <2>1, <2>2, <2>3, <2>4, <2>5, <2>6, NextIs
<1>3. ASSUME NEW h \in Histories, Old(h) PROVE Old(h)'
  <2>1. \A i \in 1..Len(h) : h[i].at \in Nat
    BY Dates
  <2> QED BY <1>1, <1>2, <1>3, <2>1 DEF Old
<1> QED BY <1>1, <1>2, <1>3

LEMMA OldAppend ==
  ASSUME NEW h \in Histories, NEW c \in Commits, events \in Nat, events' = events + 1,
         Old(h), c.at = events + 1
  PROVE  \A i \in 1..Len(Append(h, c)) : Append(h, c)[i].at <= events'
<1> DEFINE z == Append(h, c)
<1>1. Len(h) \in Nat /\ Len(z) = Len(h) + 1
      /\ \A i \in 1..Len(z) : z[i] = IF i = Len(h) + 1 THEN c ELSE h[i]
  BY DEF Histories
<1>2. \A i \in 1..Len(h) : h[i].at \in Nat
  BY Dates
<1> HIDE DEF z
<1>3. \A i \in 1..Len(z) : z[i].at <= events'
  BY <1>1, <1>2 DEF Old
<1> QED BY <1>3 DEF z

\* The plan of a request in the next state.
LEMMA WorkerPlan ==
  ASSUME Typed, [Next]_vars, NEW u \in Workers
  PROVE  LET x == worker'[u].plan IN
         \/ x = NoPlan \/ x \in plans
         \/ x.ws = worker[u].plan.ws /\ x.id = worker[u].plan.id
         \/ x.ws = head /\ x.id = requests + 1 /\ requests' = requests + 1
<1>0. worker \in [Workers -> Request]
  BY Here
<1>1. CASE Accepting(u)
  <2>1. /\ requests' = requests + 1
        /\ \E v \in Request : worker' = [worker EXCEPT ![u] = v] /\ Accepted(u, v)
    BY <1>1, AcceptingIs
  <2>2. PICK v \in Request : worker' = [worker EXCEPT ![u] = v] /\ Accepted(u, v)
    BY <2>1
  <2>3. worker'[u] = v
    BY <1>0, <2>2
  <2> QED BY <2>1, <2>2, <2>3 DEF Accepted
<1>2. CASE Over(u) \/ worker'[u] = Idle
  BY <1>0, <1>2, OverIs, IdleRequest
<1>3. ASSUME NEW s, GoesOn(u, s) PROVE worker'[u].plan = worker[u].plan
  BY <1>0, <1>3, GoesOnIs
<1>4. ASSUME NEW v, Goes(u, v), v.plan.ws = worker[u].plan.ws, v.plan.id = worker[u].plan.id
      PROVE  worker'[u].plan.ws = worker[u].plan.ws /\ worker'[u].plan.id = worker[u].plan.id
  BY <1>4 DEF Goes
<1>5. CASE Synchronising(u)
  <2>1. CASE PlanTopology(u)
    BY <1>4, <2>1, PlanTopologyIs
  <2>2. CASE PlanItems(u)
    BY <1>2, <2>2, PlanItemsIs
  <2>3. CASE ApplyLoad(u)
    BY <1>2, <1>4, <2>3, ApplyLoadIs
  <2>4. CASE \E q \in Paths : ApplyWrite(u, q)
    BY <1>4, <2>4, ApplyWriteIs
  <2> QED BY <1>2, <1>3, <1>5, <2>1, <2>2, <2>3, <2>4, SynchronisingIs
<1>6. CASE Piping(u)
  <2>1. Over(u) \/ \E s \in Steps : GoesOn(u, s)
    BY <1>6, PipingIs DEF Steps
  <2> QED BY <1>2, <1>3, <2>1
<1>7. CASE Resetting(u)
  BY <1>2, <1>3, <1>7, ResettingIs
<1>8. CASE worker'[u] = worker[u]
  BY <1>8
<1> QED BY <1>1, <1>2, <1>5, <1>6, <1>7, <1>8, WorkerStep

LEMMA DatedNext ==
  ASSUME Typed, Dated, [Next]_vars
  PROVE  Dated'
<1>0. /\ remote \in [Repos -> Commit] /\ head \in Histories /\ ref \in Histories
      /\ \A r \in Repos : remote[r] \in Histories
      /\ \A p \in Recorded : p \in Plans /\ p.ws \in Histories /\ p.id \in Nat
      /\ \A u \in Workers : worker[u].plan.ws \in Histories /\ worker[u].plan.id \in Nat
  <2>1. /\ remote \in [Repos -> Commit] /\ head \in Histories /\ ref \in Histories
        /\ \A r \in Repos : remote[r] \in Histories
    BY DEF Typed, Data, Commit
  <2>2. \A p \in AnyPlan : p.ws \in Histories /\ p.id \in Nat
    BY SyncAssumption DEF AnyPlan, SyncAssumption
  <2>3. \A p \in Recorded : p \in AnyPlan /\ p \in Plans
    BY RecordedType, NoPlanIsAny
  <2>4. \A u \in Workers : worker[u].plan \in AnyPlan
    BY Here
  <2> QED BY <2>1, <2>2, <2>3, <2>4
<1>1. /\ events \in Nat /\ events' \in Nat /\ events <= events'
      /\ requests \in Nat /\ requests' \in Nat /\ requests <= requests'
      /\ \A h \in Histories : Old(h) => Old(h)'
  BY Ages
<1>2. /\ Old(head)' /\ Old(ref)'
      /\ \A r \in Repos : Old(remote[r])'
  <2>0. /\ Old(head) /\ Old(ref)
        /\ \A r \in Repos : Old(remote[r])
    BY DEF Dated
  <2>1. CASE remote' = remote /\ head' \in {head, ref}
             /\ ref' \in {ref} \cup {remote[r] : r \in Repos}
    <3>1. \A h \in {head, ref} \cup {remote[r] : r \in Repos} :
            \A i \in 1..Len(h) : h[i].at <= events'
      BY <1>0, <1>1, <2>0 DEF Old
    <3> QED BY <2>1, <3>1 DEF Old
  <2>2. ASSUME NEW w \in Workers, Accepting(w) PROVE UNCHANGED <<remote, head, ref>>
    BY <2>2, AcceptingIs DEF repoVars
  <2>3. ASSUME NEW w \in Workers, Synchronising(w) PROVE UNCHANGED <<remote, head, ref>>
    BY <2>3, SynchronisingIs
  <2>4. ASSUME NEW w \in Workers, Piping(w)
        PROVE  /\ UNCHANGED <<remote, head>>
               /\ ref' \in {ref} \cup {remote[r] : r \in Repos}
    <3>1. Placed(worker[w], url, ref)
      BY DEF Typed
    <3>2. worker[w].step = "fetch" => url \in Repos
      BY <3>1 DEF Placed, Fetching, Moving
    <3> QED BY <2>4, <3>2, PipingIs
  <2>5. ASSUME NEW w \in Workers, Resetting(w)
        PROVE  UNCHANGED <<remote, ref>> /\ head' \in {head, ref}
    BY <2>5, ResettingIs DEF HeadMoved
  <2>6. ASSUME Crash \/ UNCHANGED vars PROVE UNCHANGED <<remote, head, ref>>
    BY <2>6 DEF Crash, vars, repoVars
  <2>7. CASE Environment
    <3>1. ref' = ref /\ events' = events + 1
      BY <2>7, EnvironmentIs DEF EnvironmentFrame
    <3>2. Old(ref)'
      BY <1>0, <1>1, <2>0, <3>1 DEF Old
    <3>3. CASE UNCHANGED <<remote, head>>
      BY <2>1, <3>1, <3>3
    <3>4. CASE Committed
      <4>1. PICK c \in Commits : c.at = events + 1 /\ head' = Append(head, c)
        BY <3>4 DEF Committed
      <4>2. \A i \in 1..Len(head') : head'[i].at <= events'
        BY <1>0, <1>1, <2>0, <3>1, <4>1, OldAppend
      <4>3. \A r \in Repos : Old(remote[r])'
        BY <1>0, <1>1, <2>0, <3>4 DEF Old, Committed
      <4> QED BY <3>2, <4>2, <4>3 DEF Old
    <3>5. ASSUME head' = head, NEW r \in Repos, NEW h, \A i \in 1..Len(h) : h[i].at <= events',
                 remote' = [remote EXCEPT ![r] = h]
          PROVE  /\ Old(head)' /\ Old(ref)'
                 /\ \A q \in Repos : Old(remote[q])'
      <4>1. \A q \in Repos : remote'[q] = IF q = r THEN h ELSE remote[q]
        BY <1>0, <3>5
      <4>2. \A q \in Repos : \A i \in 1..Len(remote[q]) : remote[q][i].at <= events'
        BY <1>0, <1>1, <2>0 DEF Old
      <4>3. \A q \in Repos : Old(remote[q])'
        BY <3>5, <4>1, <4>2 DEF Old
      <4>4. Old(head)'
        BY <1>0, <1>1, <2>0, <3>5 DEF Old
      <4> QED BY <3>2, <4>3, <4>4
    <3>6. CASE Reached
      <4>1. ASSUME NEW r \in Repos, NEW c \in Commits, c.at = events + 1
            PROVE  \A i \in 1..Len(Append(remote[r], c)) :
                     Append(remote[r], c)[i].at <= events'
        <5>1. remote[r] \in Histories /\ Old(remote[r])
          BY <1>0, <2>0
        <5> QED BY <1>1, <3>1, <4>1, <5>1, OldAppend
      <4>2. ASSUME NEW r \in Repos, Len(remote[r]) > 1
            PROVE  \A i \in 1..Len(SubSeq(remote[r], 1, Len(remote[r]) - 1)) :
                     SubSeq(remote[r], 1, Len(remote[r]) - 1)[i].at <= events'
        <5> DEFINE s == remote[r]
                   h == SubSeq(s, 1, Len(s) - 1)
        <5>1. s \in Seq(Commits) /\ Len(s) \in Nat /\ Len(s) > 1
              /\ \A i \in 1..Len(s) : s[i].at <= events'
          BY <1>0, <1>1, <2>0, <4>2 DEF Old, Histories
        <5> HIDE DEF s
        <5>2. Len(h) = Len(s) - 1 /\ \A i \in 1..Len(h) : h[i] = s[i]
          BY <5>1
        <5> HIDE DEF h
        <5>3. \A i \in 1..Len(h) : h[i].at <= events'
          BY <5>1, <5>2
        <5> QED BY <5>3 DEF h, s
      <4>3. \A i \in 1..Len(head) : head[i].at <= events'
        BY <1>0, <1>1, <2>0 DEF Old
      <4>4. PICK r \in Repos :
              \/ \E c \in Commits :
                   c.at = events + 1 /\ remote' = [remote EXCEPT ![r] = Append(@, c)]
              \/ /\ Len(remote[r]) > 1
                 /\ remote' = [remote EXCEPT ![r] = SubSeq(@, 1, Len(@) - 1)]
              \/ remote' = [remote EXCEPT ![r] = head]
        BY <3>6 DEF Reached
      <4>5. \E h : /\ \A i \in 1..Len(h) : h[i].at <= events'
                   /\ remote' = [remote EXCEPT ![r] = h]
        <5>1. ASSUME NEW c \in Commits, c.at = events + 1,
                     remote' = [remote EXCEPT ![r] = Append(@, c)]
              PROVE  remote' = [remote EXCEPT ![r] = Append(remote[r], c)]
          BY <1>0, <5>1
        <5>2. ASSUME remote' = [remote EXCEPT ![r] = SubSeq(@, 1, Len(@) - 1)]
              PROVE  remote' = [remote EXCEPT ![r] = SubSeq(remote[r], 1, Len(remote[r]) - 1)]
          BY <1>0, <5>2
        <5> QED BY <4>1, <4>2, <4>3, <4>4, <5>1, <5>2
      <4> QED BY <3>5, <3>6, <4>5 DEF Reached
    <3> QED BY <2>7, <3>3, <3>4, <3>6, EnvironmentIs
  <2>8. ASSUME UNCHANGED <<remote, head, ref>>
        PROVE  /\ Old(head)' /\ Old(ref)'
               /\ \A r \in Repos : Old(remote[r])'
    BY <2>1, <2>8
  <2> QED BY <2>1, <2>2, <2>3, <2>4, <2>5, <2>6, <2>7, <2>8, NextIs
<1>3. ASSUME NEW p \in Recorded' PROVE Old(p.ws)' /\ p.id <= requests'
  <2>1. CASE p \in Recorded
    <3>1. Old(p.ws) /\ p.id <= requests
      BY <2>1 DEF Dated
    <3> QED BY <1>0, <1>1, <2>1, <3>1
  <2>2. CASE p \notin Recorded
    <3>1. PICK w \in Workers : p.ws = worker[w].plan.ws /\ p.id = worker[w].plan.id
      BY <2>2, RecordedIs
    <3>2. p.ws \in Histories /\ Old(p.ws) /\ p.id <= requests /\ p.id \in Nat
      BY <1>0, <3>1 DEF Dated
    <3> QED BY <1>1, <3>2
  <2> QED BY <2>1, <2>2
<1>4. ASSUME NEW u \in Workers
      PROVE  Old(worker[u].plan.ws)' /\ worker'[u].plan.id <= requests'
  <2>1. PICK x : x = worker'[u].plan
    OBVIOUS
  <2> SUFFICES Old(x.ws)' /\ x.id <= requests'
    BY <2>1 DEF Old
  <2>2. CASE x = NoPlan
    <3>1. x.ws = << >> /\ x.id = 0
      BY <2>2 DEF NoPlan
    <3> QED BY <1>1, <3>1 DEF Old
  <2>3. CASE x \in plans
    <3>1. x.ws \in Histories /\ Old(x.ws) /\ x.id <= requests /\ x.id \in Nat
      BY <1>0, <2>3 DEF Dated, Recorded
    <3> QED BY <1>1, <3>1
  <2>4. CASE x.ws = worker[u].plan.ws /\ x.id = worker[u].plan.id
    <3>1. x.ws \in Histories /\ Old(x.ws) /\ x.id <= requests /\ x.id \in Nat
      BY <1>0, <2>4 DEF Dated
    <3> QED BY <1>1, <3>1
  <2>5. CASE x.ws = head /\ x.id = requests + 1 /\ requests' = requests + 1
    <3>1. x.ws \in Histories /\ Old(x.ws)
      BY <1>0, <2>5 DEF Dated
    <3> QED BY <1>1, <2>5, <3>1
  <2> QED BY <2>1, <2>2, <2>3, <2>4, <2>5, WorkerPlan
<1>5. \A e \in 0..MaxEvents : \A p \in kept'[e].plans : p.ws[Len(p.ws)].at < e
  <2>1. CASE kept' = kept
    BY <2>1 DEF Dated
  <2>2. ASSUME NEW s, kept' = [kept EXCEPT ![events + 1] = s],
               \A p \in s.plans : p.ws[Len(p.ws)].at < events + 1
        PROVE  \A e \in 0..MaxEvents : \A p \in kept'[e].plans : p.ws[Len(p.ws)].at < e
    <3>1. \A e \in 0..MaxEvents : kept'[e] = IF e = events + 1 THEN s ELSE kept[e]
      BY <2>2 DEF Typed, Data
    <3> QED BY <2>2, <3>1 DEF Dated
  <2>3. ASSUME NEW p \in Recorded PROVE p.ws[Len(p.ws)].at < events + 1
    <3>1. p.ws \in Commit /\ Old(p.ws)
      BY <1>0, <2>3 DEF Dated, Plans
    <3>2. Len(p.ws) \in 1..Len(p.ws) /\ p.ws[Len(p.ws)].at \in 0..MaxEvents
      BY <3>1, KeptType
    <3>3. p.ws[Len(p.ws)].at <= events
      BY <3>1, <3>2 DEF Old
    <3> QED BY <1>1, <3>2, <3>3
  <2>4. kept' = kept \/ \E s : /\ kept' = [kept EXCEPT ![events + 1] = s]
                               /\ s.plans \subseteq Recorded
    BY KeptNext
  <2> QED BY <2>1, <2>2, <2>3, <2>4
<1> QED BY <1>2, <1>3, <1>4, <1>5 DEF Dated, Old

-----------------------------------------------------------------------------
(* A workspace in which git sees .copilot/. *)

\* Who loads a plan did so before, or has just found the workspace clean.
LEMMA LoadIs ==
  ASSUME Typed, [Next]_vars, NEW u \in Workers, worker'[u].step = "load"
  PROVE  \/ worker'[u] = worker[u]
         \/ Accepting(u) /\ worker'[u].plan \in plans /\ ~Dirty
<1>0. worker \in [Workers -> Request]
  BY Here
<1>1. CASE Accepting(u)
  <2>1. PICK v \in Request : worker' = [worker EXCEPT ![u] = v] /\ Accepted(u, v)
    BY <1>1, AcceptingIs
  <2>2. worker'[u] = v
    BY <1>0, <2>1
  <2> QED BY <1>1, <2>1, <2>2 DEF Accepted
<1>2. CASE Over(u) \/ worker'[u] = Idle
  BY <1>0, <1>2, OverIs, IdleRequest
<1>3. ASSUME NEW s, GoesOn(u, s), s # "load" PROVE FALSE
  BY <1>0, <1>3, GoesOnIs
<1>4. ASSUME NEW v, Goes(u, v), v.step # "load" PROVE FALSE
  BY <1>4 DEF Goes
<1>5. CASE Synchronising(u)
  <2>1. CASE PlanTopology(u)
    <3>1. \E v : Goes(u, v) /\ v.step = "items"
      BY <2>1, PlanTopologyIs
    <3> QED BY <1>4, <3>1
  <2>2. CASE PlanItems(u)
    BY <1>2, <2>2, PlanItemsIs
  <2>3. CASE ApplyLoad(u)
    <3>1. Over(u) \/ \E v : Goes(u, v) /\ v.step = "write"
      BY <2>3, ApplyLoadIs
    <3> QED BY <1>2, <1>4, <3>1
  <2>4. CASE \E q \in Paths : ApplyWrite(u, q)
    <3>1. \E v : Goes(u, v) /\ v.step = "write"
      BY <2>4, ApplyWriteIs
    <3> QED BY <1>4, <3>1
  <2>5. CASE GoesOn(u, "audit")
    BY <1>3, <2>5
  <2> QED BY <1>2, <1>5, <2>1, <2>2, <2>3, <2>4, <2>5, SynchronisingIs
<1>6. CASE Piping(u)
  <2>1. Over(u) \/ \E s \in Steps \ {"load"} : GoesOn(u, s)
    BY <1>6, PipingIs DEF Steps
  <2> QED BY <1>2, <1>3, <2>1
<1>7. CASE Resetting(u)
  <2>1. Over(u) \/ \E s \in {"clean", "base"} : GoesOn(u, s)
    BY <1>7, ResettingIs
  <2> QED BY <1>2, <1>3, <2>1
<1> QED BY <1>1, <1>2, <1>5, <1>6, <1>7, WorkerStep

\* A plan that is being made has the number it was given.
LEMMA MakingId ==
  ASSUME Typed, [Next]_vars, NEW u \in Workers, worker'[u].step \in Making
  PROVE  \/ worker[u].step \in Making /\ worker'[u].plan.id = worker[u].plan.id
         \/ /\ worker'[u].plan.id = requests + 1 /\ Recorded' = Recorded /\ Accepting(u)
<1>1. CASE worker'[u] = worker[u]
  BY <1>1
<1>2. CASE worker'[u] # worker[u]
  BY <1>2, MakingIs DEF Making, Recorded
<1> QED BY <1>1, <1>2

\* Only one request is accepted at a time.
LEMMA OneAccepted ==
  ASSUME Typed, NEW u \in Workers, Accepting(u), NEW v \in Workers \ {u}
  PROVE  worker'[v] = worker[v]
<1>1. worker \in [Workers -> Request]
  BY Here
<1> QED BY <1>1, AcceptingIs

LEMMA UnmadeNext ==
  ASSUME Typed, Dated, Unmade, [Next]_vars
  PROVE  Unmade'
<1>0. /\ requests \in Nat
      /\ \A p \in Recorded : p.id <= requests /\ p.id \in Nat
      /\ \A u \in Workers : worker[u].plan.id <= requests /\ worker[u].plan.id \in Nat
  <2>1. requests \in Nat
    BY Ages
  <2>2. \A p \in AnyPlan : p.id \in Nat
    BY SyncAssumption DEF AnyPlan, SyncAssumption
  <2>3. \A p \in Recorded : p \in AnyPlan
    BY RecordedType, NoPlanIsAny
  <2>4. \A u \in Workers : worker[u].plan \in AnyPlan
    BY Here
  <2> QED BY <2>1, <2>2, <2>3, <2>4 DEF Dated
<1>1. ASSUME NEW w \in Workers, worker'[w].step \in Making
      PROVE  /\ \A p \in Recorded' : p.id # worker'[w].plan.id
             /\ \A v \in Workers \ {w} :
                  worker'[v].step \in Making \cup {"load"} =>
                    worker'[v].plan.id # worker'[w].plan.id
  <2>1. CASE worker'[w].plan.id = requests + 1 /\ Recorded' = Recorded /\ Accepting(w)
    <3>1. \A p \in Recorded' : p.id # worker'[w].plan.id
      BY <1>0, <2>1
    <3>2. ASSUME NEW v \in Workers \ {w} PROVE worker'[v].plan.id # worker'[w].plan.id
      <4>1. worker'[v] = worker[v]
        BY <2>1, OneAccepted
      <4> QED BY <1>0, <2>1, <4>1
    <3> QED BY <3>1, <3>2
  <2>2. CASE worker[w].step \in Making /\ worker'[w].plan.id = worker[w].plan.id
    <3>1. /\ \A p \in Recorded : p.id # worker[w].plan.id
          /\ \A v \in Workers \ {w} :
               worker[v].step \in Making \cup {"load"} =>
                 worker[v].plan.id # worker[w].plan.id
      BY <2>2 DEF Unmade
    <3>2. ASSUME NEW p \in Recorded' PROVE p.id # worker'[w].plan.id
      <4>1. CASE p \in Recorded
        BY <2>2, <3>1, <4>1
      <4>2. CASE p \notin Recorded
        <5>1. PICK v \in Workers : /\ worker[v].step = "items" /\ worker'[v].step = "idle"
                                   /\ p.id = worker[v].plan.id
          BY <4>2, RecordedIs
        <5>2. v # w
          BY <1>1, <5>1 DEF Making
        <5> QED BY <2>2, <3>1, <5>1, <5>2 DEF Making
      <4> QED BY <4>1, <4>2
    <3>3. ASSUME NEW v \in Workers \ {w}, worker'[v].step \in Making
          PROVE  worker'[v].plan.id # worker'[w].plan.id
      <4>1. CASE worker[v].step \in Making /\ worker'[v].plan.id = worker[v].plan.id
        BY <2>2, <3>1, <4>1
      <4>2. CASE worker'[v].plan.id = requests + 1
        BY <1>0, <2>2, <4>2
      <4> QED BY <3>3, <4>1, <4>2, MakingId
    <3>4. ASSUME NEW v \in Workers \ {w}, worker'[v].step = "load"
          PROVE  worker'[v].plan.id # worker'[w].plan.id
      <4>1. CASE worker'[v] = worker[v]
        <5>1. worker[v].step = "load" /\ worker'[v].plan = worker[v].plan
          BY <3>4, <4>1
        <5> QED BY <2>2, <3>1, <5>1
      <4>2. CASE worker'[v].plan \in plans
        BY <2>2, <3>1, <4>2 DEF Recorded
      <4> QED BY <3>4, <4>1, <4>2, LoadIs
    <3> QED BY <3>2, <3>3, <3>4
  <2> QED BY <1>1, <2>1, <2>2, MakingId
<1> QED BY <1>1 DEF Unmade

\* The plans HEAD holds were made before it.
LEMMA HeldEarlier ==
  ASSUME Typed, Dated, NEW p \in KeptIn(head).plans
  PROVE  p.ws # head
<1>1. head[Len(head)].at \in 0..MaxEvents
  BY KeptType DEF Typed, Data
<1>2. p.ws[Len(p.ws)].at < head[Len(head)].at
  BY <1>1 DEF Dated, KeptIn
<1> QED BY <1>1, <1>2

\* A commit holds the plans there are, and nothing else changes what HEAD holds.
LEMMA HeldEnvironment ==
  ASSUME Typed, Dated, Environment, ~ignored
  PROVE  \/ KeptIn(head)' = KeptIn(head) /\ loose' = loose
         \/ KeptIn(head)'.plans = plans
<1>1. /\ head \in Commit /\ head[Len(head)].at \in 0..MaxEvents /\ Len(head) \in 1..Len(head)
      /\ DOMAIN kept = 0..MaxEvents
  BY KeptType DEF Typed, Data
<1>2. head[Len(head)].at <= events /\ events \in Nat
  BY <1>1, SyncAssumption DEF Dated, Old, Typed, Data, SyncAssumption
<1>3. events + 1 \in 0..MaxEvents
  BY EnvironmentIs
<1>4. ASSUME head' = head, NEW s, kept' = [kept EXCEPT ![events + 1] = s]
      PROVE  KeptIn(head)' = KeptIn(head)
  BY <1>1, <1>2, <1>4 DEF KeptIn
<1>5. ASSUME head' = head, kept' = kept
      PROVE  KeptIn(head)' = KeptIn(head)
  BY <1>5 DEF KeptIn
<1>6. CASE Committed
  <2>1. PICK c \in Commits : c.at = events + 1 /\ head' = Append(head, c)
    BY <1>6 DEF Committed
  <2>2. PICK s : kept' = [kept EXCEPT ![events + 1] = s] /\ s.plans = plans
    BY <1>6 DEF Committed
  <2>3. head'[Len(head')] = c
    BY <1>1, <2>1 DEF Commit, Histories
  <2>4. kept'[events + 1] = s
    BY <1>1, <1>3, <2>2
  <2>5. KeptIn(head)' = s
    BY <2>1, <2>3, <2>4 DEF KeptIn
  <2> QED BY <2>2, <2>5
<1>7. CASE Reached
  BY <1>4, <1>5, <1>7 DEF Reached
<1> QED BY <1>5, <1>6, <1>7, EnvironmentIs

\* The plans a request under way will load are in HEAD.
Loads == \A w \in Workers :
  /\ worker[w].step # "write"
  /\ worker[w].step = "load" /\ worker[w].plan \in plans =>
       worker[w].plan \in KeptIn(head).plans
PlansShut == \A p \in plans : p \in KeptIn(head).plans \/ loose

LEMMA ShutNext ==
  ASSUME Typed, Dated, Unmade, Shut, [Next]_vars
  PROVE  Shut'
<1>0. ignored' = ignored
  BY Ages
<1> SUFFICES ASSUME ~ignored PROVE ~applied' /\ PlansShut' /\ Loads'
  BY <1>0 DEF Shut, PlansShut, Loads
<1>1. ~applied /\ PlansShut /\ Loads
  BY DEF Shut, PlansShut, Loads
<1>2. worker \in [Workers -> Request] /\ loose \in BOOLEAN
  BY DEF Typed, Data
<1> DEFINE held == KeptIn(head).plans
<1>3. ASSUME UNCHANGED <<head, kept>> PROVE held' = held
  BY <1>3 DEF KeptIn
<1> HIDE DEF held
<1>4. PlansShut = (\A p \in plans : p \in held \/ loose)
      /\ PlansShut' = (\A p \in plans' : p \in held' \/ loose')
  BY DEF PlansShut, held
<1>5. /\ Loads = \A w \in Workers :
           /\ worker[w].step # "write"
           /\ worker[w].step = "load" /\ worker[w].plan \in plans => worker[w].plan \in held
      /\ Loads' = \A w \in Workers :
           /\ worker'[w].step # "write"
           /\ worker'[w].step = "load" /\ worker'[w].plan \in plans' => worker'[w].plan \in held'
  BY DEF Loads, held
<1>6. ASSUME NEW w \in Workers, UNCHANGED <<plans, held>>,
             \A u \in Workers \ {w} : worker'[u] = worker[u],
             worker'[w].step # "write",
             worker'[w].step = "load" => worker'[w].plan \in held
      PROVE  Loads'
  BY <1>1, <1>5, <1>6
<1>7. ASSUME NEW w \in Workers, Over(w) \/ \E s \in Steps \ {"load", "write"} : GoesOn(w, s)
      PROVE  /\ worker'[w].step \notin {"load", "write"}
             /\ \A u \in Workers \ {w} : worker'[u] = worker[u]
  <2>1. CASE Over(w)
    BY <1>2, <2>1, OverIs
  <2>2. ASSUME NEW s \in Steps \ {"load", "write"}, GoesOn(w, s)
        PROVE  /\ worker'[w].step \notin {"load", "write"}
               /\ \A u \in Workers \ {w} : worker'[u] = worker[u]
    BY <1>2, <2>2, GoesOnIs
  <2> QED BY <1>7, <2>1, <2>2
<1>8. ASSUME UNCHANGED <<plans, held>>, loose' \in {loose, ~ignored}
      PROVE  PlansShut'
  BY <1>1, <1>4, <1>8
<1>9. ASSUME NEW w \in Workers, Accepting(w) PROVE ~applied' /\ PlansShut' /\ Loads'
  <2>1. /\ UNCHANGED <<repoVars, controlVars, events, applied, rewound>>
        /\ \E v \in Request : worker' = [worker EXCEPT ![w] = v] /\ Accepted(w, v)
    BY <1>9, AcceptingIs
  <2>2. PICK v \in Request : worker' = [worker EXCEPT ![w] = v] /\ Accepted(w, v)
    BY <2>1
  <2>3. worker'[w] = v /\ \A u \in Workers \ {w} : worker'[u] = worker[u]
    BY <1>2, <2>2
  <2>4. UNCHANGED <<held, plans, loose, applied>>
    BY <1>3, <2>1 DEF repoVars, controlVars
  <2>5. v.step # "write"
    BY <2>2 DEF Accepted
  <2>6. v.step = "load" => v.plan \in held
    <3>1. v.step = "load" => v.plan \in plans /\ ~loose
      BY <2>2 DEF Accepted, Dirty
    <3> QED BY <1>1, <1>4, <3>1
  <2> QED BY <1>1, <1>6, <1>8, <2>3, <2>4, <2>5, <2>6
<1>10. ASSUME NEW w \in Workers, Synchronising(w) PROVE ~applied' /\ PlansShut' /\ Loads'
  <2>0. held' = held
    BY <1>3, <1>10, SynchronisingIs
  <2>1. ASSUME NEW q \in Paths, ApplyWrite(w, q) PROVE FALSE
    BY <1>1, <2>1, ApplyWriteIs DEF Loads
  <2>2. CASE PlanTopology(w) /\ UNCHANGED <<plans, loose, applied, work>>
    <3>1. \E v \in Request : worker' = [worker EXCEPT ![w] = v] /\ v.step = "items"
      BY <2>2, PlanTopologyIs
    <3>2. worker'[w].step = "items" /\ \A u \in Workers \ {w} : worker'[u] = worker[u]
      BY <1>2, <3>1
    <3> QED BY <1>1, <1>6, <1>8, <2>0, <2>2, <3>2
  <2>3. CASE PlanItems(w) /\ UNCHANGED <<applied, work>>
    <3>1. /\ worker[w].step = "items" /\ Over(w) /\ Touched
          /\ \E q \in Plans : plans' = plans \cup {q} /\ q.id = worker[w].plan.id
      BY <2>3, PlanItemsIs
    <3>2. PICK q \in Plans : plans' = plans \cup {q} /\ q.id = worker[w].plan.id
      BY <3>1
    <3>3. loose' = TRUE
      BY <3>1 DEF Touched
    <3>4. worker[w].step \in Making
      BY <3>1 DEF Making
    <3>5. PlansShut'
      BY <1>4, <3>3
    <3>6. /\ worker'[w].step \notin {"load", "write"}
          /\ \A u \in Workers \ {w} : worker'[u] = worker[u]
      BY <1>7, <3>1
    <3>7. ASSUME NEW u \in Workers \ {w}, worker[u].step = "load" PROVE worker[u].plan # q
      BY <3>2, <3>4, <3>7 DEF Unmade
    <3>8. Loads'
      <4>1. ASSUME NEW u \in Workers \ {w}
            PROVE  /\ worker'[u].step # "write"
                   /\ worker'[u].step = "load" /\ worker'[u].plan \in plans' =>
                        worker'[u].plan \in held'
        <5>1. worker'[u] = worker[u]
          BY <3>6
        <5>2. worker[u].step = "load" /\ worker[u].plan \in plans' => worker[u].plan \in plans
          BY <3>2, <3>7
        <5> QED BY <1>1, <1>5, <2>0, <5>1, <5>2
      <4> QED BY <1>5, <3>6, <4>1
    <3> QED BY <1>1, <2>3, <3>5, <3>8
  <2>4. CASE ApplyLoad(w) /\ UNCHANGED <<plans, loose, applied, work>>
    <3>1. /\ worker[w].step = "load"
          /\ \/ Over(w)
             \/ worker[w].plan \in plans /\ Fresh(worker[w].plan)
      BY <2>4, ApplyLoadIs
    <3>2. ~(worker[w].plan \in plans /\ Fresh(worker[w].plan))
      BY <1>1, <3>1, HeldEarlier DEF Loads, Fresh
    <3>3. Over(w)
      BY <3>1, <3>2
    <3> QED BY <1>1, <1>6, <1>7, <1>8, <2>0, <2>4, <3>3
  <2>5. CASE /\ Over(w) \/ GoesOn(w, "audit")
             /\ loose' \in {loose, ~ignored} /\ UNCHANGED <<plans, applied, work>>
    <3>1. Over(w) \/ \E s \in Steps \ {"load", "write"} : GoesOn(w, s)
      BY <2>5 DEF Steps
    <3> QED BY <1>1, <1>6, <1>7, <1>8, <2>0, <2>5, <3>1
  <2> QED BY <1>10, <2>1, <2>2, <2>3, <2>4, <2>5, SynchronisingIs
<1>11. ASSUME NEW w \in Workers, Piping(w) PROVE ~applied' /\ PlansShut' /\ Loads'
  <2>1. UNCHANGED <<held, plans, applied>> /\ loose' \in {loose, ~ignored}
    BY <1>3, <1>11, PipingIs
  <2>2. Over(w) \/ \E s \in Steps \ {"load", "write"} : GoesOn(w, s)
    BY <1>11, PipingIs DEF Steps
  <2> QED BY <1>1, <1>6, <1>7, <1>8, <2>1, <2>2
<1>12. ASSUME NEW w \in Workers, Resetting(w) PROVE ~applied' /\ PlansShut' /\ Loads'
  <2>1. /\ kept' = kept /\ applied' = applied
        /\ UNCHANGED <<head, plans, loose>> \/ HeadMoved
    BY <1>12, ResettingIs
  <2>2. Over(w) \/ \E s \in Steps \ {"load", "write"} : GoesOn(w, s)
    BY <1>12, ResettingIs DEF Steps
  <2>3. /\ worker'[w].step \notin {"load", "write"}
        /\ \A u \in Workers \ {w} : worker'[u] = worker[u]
    BY <1>7, <2>2
  <2>4. CASE UNCHANGED <<head, plans, loose>>
    BY <1>1, <1>3, <1>6, <1>8, <2>1, <2>3, <2>4
  <2>5. CASE HeadMoved
    <3>1. /\ held' = KeptIn(ref).plans /\ plans' = (plans \ held) \cup held'
          /\ loose' = loose \/ (loose' = FALSE /\ plans' = held')
      BY <2>1, <2>5 DEF HeadMoved, KeptIn, held
    <3>2. PlansShut'
      <4>1. ASSUME NEW p \in plans', p \notin held' PROVE loose' = TRUE
        <5>1. p \in plans /\ p \notin held /\ loose' = loose
          BY <3>1, <4>1
        <5>2. loose
          BY <1>1, <1>4, <5>1
        <5> QED BY <1>2, <5>1, <5>2
      <4> QED BY <1>4, <4>1
    <3>3. Loads'
      <4>1. ASSUME NEW u \in Workers \ {w}
            PROVE  /\ worker'[u].step # "write"
                   /\ worker'[u].step = "load" /\ worker'[u].plan \in plans' =>
                        worker'[u].plan \in held'
        <5>1. worker'[u] = worker[u]
          BY <2>3
        <5> QED BY <1>1, <1>5, <3>1, <5>1
      <4> QED BY <1>5, <2>3, <4>1
    <3> QED BY <1>1, <2>1, <3>2, <3>3
  <2> QED BY <2>1, <2>4, <2>5
<1>13. ASSUME Environment PROVE ~applied' /\ PlansShut' /\ Loads'
  <2>1. UNCHANGED <<plans, applied, worker>>
    BY <1>13, EnvironmentIs DEF EnvironmentFrame
  <2>2. (held' = held /\ loose' = loose) \/ held' = plans
    BY <1>13, HeldEnvironment DEF held
  <2>3. PlansShut'
    <3>1. CASE held' = held /\ loose' = loose
      BY <1>1, <1>4, <2>1, <3>1
    <3>2. CASE held' = plans
      BY <1>4, <2>1, <3>2
    <3> QED BY <2>2, <3>1, <3>2
  <2>4. Loads'
    BY <1>1, <1>5, <2>1, <2>2
  <2> QED BY <1>1, <2>1, <2>3, <2>4
<1>14. ASSUME Crash PROVE ~applied' /\ PlansShut' /\ Loads'
  <2>1. UNCHANGED <<held, plans, loose, applied>> /\ \A w \in Workers : worker'[w] = Idle
    BY <1>3, <1>14, CrashIs DEF repoVars, controlVars
  <2> QED BY <1>1, <1>4, <1>5, <2>1, IdleRequest
<1>15. ASSUME UNCHANGED vars PROVE ~applied' /\ PlansShut' /\ Loads'
  <2>1. UNCHANGED <<held, plans, loose, applied, worker>>
    BY <1>3, <1>15 DEF vars, repoVars, controlVars, historyVars
  <2> QED BY <1>1, <1>4, <1>5, <2>1
<1> QED BY <1>9, <1>10, <1>11, <1>12, <1>13, <1>14, <1>15, NextIs

-----------------------------------------------------------------------------
(* The inductive invariant. *)

IInv ==
  /\ Typed /\ Origins /\ Dated
  /\ UpstreamTrue /\ PlansTrue /\ Unmade /\ Shut

LEMMA Initially ==
  ASSUME Init
  PROVE  IInv
<1>1. PICK one \in Contents, two \in Contents, x \in Paths :
        LET tree == [p \in Paths |-> one]
            root(r) == <<[by |-> r, tree |-> tree, at |-> 0]>>
            tip(r) == Append(root(r), [by |-> r, tree |-> [tree EXCEPT ![x] = two], at |-> 0])
        IN /\ remote = [r \in Repos |-> tip(r)]
           /\ \/ head = root(None) /\ url = None /\ ref = << >>
                 /\ upstream = NoConfig /\ baseline = << >>
              \/ \E r \in Repos :
                   head \in {root(r), tip(r)} /\ url = r /\ ref = tip(r)
                   /\ upstream = [repo |-> r, fetched |-> TRUE] /\ baseline = head
  BY DEF Init
<1>2. /\ work = Tree(head) /\ plans = {} /\ ignored \in BOOLEAN
      /\ loose = ~ignored /\ kept = [e \in 0..MaxEvents |-> NoSnapshot]
      /\ worker = [w \in Workers |-> Idle]
      /\ requests = 0 /\ events = 0
      /\ applied = FALSE /\ rewound = FALSE /\ mixed = FALSE
  BY DEF Init
<1> DEFINE tree == [p \in Paths |-> one]
           tree2 == [tree EXCEPT ![x] = two]
           first(r) == [by |-> r, tree |-> tree, at |-> 0]
           second(r) == [by |-> r, tree |-> tree2, at |-> 0]
           root(r) == <<first(r)>>
           tip(r) == Append(root(r), second(r))
<1>3. tree \in Trees /\ tree2 \in Trees
  BY DEF Trees
<1>4. 0 \in 0..MaxEvents /\ 0 \in 0..MaxRequests
  BY SyncAssumption DEF SyncAssumption
<1>5. /\ remote = [r \in Repos |-> tip(r)]
      /\ \/ head = root(None) /\ url = None /\ ref = << >>
            /\ upstream = NoConfig /\ baseline = << >>
         \/ \E r \in Repos :
              head \in {root(r), tip(r)} /\ url = r /\ ref = tip(r)
              /\ upstream = [repo |-> r, fetched |-> TRUE] /\ baseline = head
  BY <1>1
<1> HIDE DEF tree, tree2
<1>6. ASSUME NEW r \in Repos \cup {None}
      PROVE  /\ first(r) \in Commits /\ first(r).by = r /\ first(r).at = 0
             /\ second(r) \in Commits /\ second(r).by = r /\ second(r).at = 0
  BY <1>3, <1>4 DEF Commits
<1> HIDE DEF first, second
<1>7. ASSUME NEW r \in Repos \cup {None}
      PROVE  /\ root(r) \in Seq(Commits) /\ Len(root(r)) = 1 /\ root(r)[1] = first(r)
             /\ tip(r) \in Seq(Commits) /\ Len(tip(r)) = 2
             /\ tip(r)[1] = first(r) /\ tip(r)[2] = second(r)
  BY <1>6
<1> HIDE DEF root, tip
<1>8. ASSUME NEW r \in Repos \cup {None}, NEW h \in {root(r), tip(r)}
      PROVE  /\ h \in Commit /\ h[1].by = r /\ Own(h, r) /\ Uniform(h) /\ Old(h)
  <2>1. h \in Seq(Commits) /\ Len(h) \in {1, 2}
        /\ \A i \in 1..Len(h) : h[i] \in {first(r), second(r)} /\ h[i] \in Commits
    BY <1>6, <1>7
  <2>2. h[1].by = r /\ Own(h, r)
    BY <1>6, <2>1 DEF Own
  <2>3. Old(h)
    BY <1>2, <1>6, <2>1 DEF Old
  <2>4. h # << >>
    BY <2>1
  <2> QED BY <2>1, <2>2, <2>3, <2>4 DEF Commit, Histories, Uniform
<1>9. None \notin Repos
  BY SyncAssumption DEF SyncAssumption
<1>10. << >> \in Histories /\ Own(<< >>, None) /\ Old(<< >>) /\ Uniform(<< >>)
  BY DEF Histories, Own, Old, Uniform
<1>11. \A h \in Commit : h \in Histories
  BY DEF Commit
<1>12. NoConfig \in Configs /\ NoConfig.fetched = FALSE
       /\ \A r \in Repos : LET c == [repo |-> r, fetched |-> TRUE] IN c \in Configs /\ c.repo = r
  BY DEF NoConfig, Configs
<1>13. /\ head \in Commit /\ Uniform(head) /\ Old(head)
       /\ ref \in Histories /\ Uniform(ref) /\ Old(ref)
       /\ baseline = << >> \/ baseline = head
       /\ \/ upstream = NoConfig /\ url = None
          \/ /\ upstream \in Configs /\ upstream.repo \in Repos /\ url = upstream.repo
             /\ Own(ref, upstream.repo)
  <2>1. CASE head = root(None) /\ url = None /\ ref = << >>
             /\ upstream = NoConfig /\ baseline = << >>
    BY <1>8, <1>10, <2>1
  <2>2. ASSUME NEW r \in Repos,
               head \in {root(r), tip(r)} /\ url = r /\ ref = tip(r)
               /\ upstream = [repo |-> r, fetched |-> TRUE] /\ baseline = head
        PROVE  /\ head \in Commit /\ Uniform(head) /\ Old(head)
               /\ ref \in Histories /\ Uniform(ref) /\ Old(ref)
               /\ upstream \in Configs /\ upstream.repo \in Repos /\ url = upstream.repo
               /\ Own(ref, upstream.repo)
    BY <1>8, <1>11, <1>12, <2>2
  <2> QED BY <1>5, <2>1, <2>2
<1>14. \A r \in Repos : remote[r] = tip(r) /\ remote[r] \in Commit /\ remote[r][1].by = r
                        /\ Own(remote[r], r) /\ Old(remote[r])
  BY <1>5, <1>8
<1>15. remote \in [Repos -> Commit]
  BY <1>5, <1>14
<1>16. \A w \in Workers : worker[w] = Idle
  BY <1>2
<1>17. Typed
  <2>1. work \in Trees
    BY <1>2, <1>11, <1>13, TreeType DEF Commit
  <2>2. baseline \in Histories
    BY <1>10, <1>11, <1>13
  <2>3. upstream \in Configs /\ url \in Repos \cup {None}
        /\ (upstream = NoConfig \/ (upstream.repo \in Repos /\ url \in Repos))
    BY <1>12, <1>13
  <2>4. DOMAIN kept = 0..MaxEvents /\ \A e \in 0..MaxEvents : Snapshot(kept[e])
    BY <1>2, <1>10, <1>12 DEF Snapshot, NoSnapshot
  <2>5. Data
    BY <1>2, <1>4, <1>13, <1>15, <2>1, <2>2, <2>3, <2>4 DEF Data
  <2> QED BY <1>2, <1>16, <2>3, <2>5, IdleRequest, IdlePlaced DEF Typed
<1>18. Recorded = {} /\ \A e \in 0..MaxEvents : kept[e].plans = {}
  BY <1>2 DEF Recorded, NoSnapshot
<1>19. Origins
  BY <1>13, <1>14 DEF Origins
<1>20. Dated
  <2>1. NoPlan.ws = << >> /\ NoPlan.id = 0
    BY DEF NoPlan
  <2>2. \A w \in Workers : worker[w].plan = NoPlan
    BY <1>16, IdleRequest
  <2>3. \A w \in Workers : Old(worker[w].plan.ws) /\ worker[w].plan.id <= requests
    BY <1>2, <1>10, <2>1, <2>2
  <2>4. Old(head) /\ Old(ref) /\ \A r \in Repos : Old(remote[r])
    BY <1>13, <1>14
  <2> QED BY <1>18, <2>3, <2>4 DEF Dated
<1>21. UpstreamTrue
  <2>1. \A w \in Workers : Told(worker[w])
    BY <1>16, IdleRequest DEF Told, Moving, Fetching, Fetched
  <2>2. Alone
    BY <1>16, IdleRequest DEF Alone
  <2>3. baseline # << >> => Ancestor(baseline, head)
    BY <1>11, <1>13, AncestorOrder
  <2>4. upstream.fetched => Own(ref, upstream.repo)
    BY <1>12, <1>13
  <2>5. upstream = NoConfig \/ url = upstream.repo
    BY <1>13
  <2> QED BY <2>1, <2>2, <2>3, <2>4, <2>5 DEF UpstreamTrue, TrueNow
<1>22. PlansTrue /\ Unmade
  BY <1>16, <1>18, IdleRequest DEF PlansTrue, Unmade, Making
<1>23. Shut
  BY <1>2, <1>16, IdleRequest DEF Shut
<1> QED BY <1>17, <1>19, <1>20, <1>21, <1>22, <1>23 DEF IInv

LEMMA Invariance == Spec => []IInv
<1>1. Init => IInv
  BY Initially
<1>2. IInv /\ [Next]_vars => IInv'
  BY TypedNext, OriginsNext, DatedNext, UpstreamNext, PlansTrueNext, UnmadeNext,
     ShutNext DEF IInv
<1> QED BY <1>1, <1>2, PTL DEF Spec

-----------------------------------------------------------------------------
(* The theorems. *)

\* Whatever requests, edits, pushes and restarts come between two git commands,
\* every control file and every request under way has its type (sync_engine.py,
\* repo.py, repo_manager.py).
THEOREM TypeCorrect == Spec => []TypeOK
<1>1. IInv => TypeOK
  <2> SUFFICES ASSUME IInv PROVE TypeOK
    OBVIOUS
  <2>1. Typed
    BY DEF IInv
  <2>2. DOMAIN worker = Workers
    BY <2>1 DEF Typed
  <2>3. \A w \in Workers : /\ worker[w].step \in Steps
                           /\ worker[w].plan \in Plans \cup {NoPlan}
                           /\ worker[w].repo \in Repos \cup {None}
                           /\ worker[w].todo \subseteq Paths
    BY <2>1, Here
  <2> QED BY <2>1, <2>2, <2>3 DEF TypeOK, Typed, Data, Snapshot, Steps
<1> QED BY <1>1, Invariance, PTL

\* A plan reads the heads by name three times and holds no lock meanwhile; as
\* long as HEAD and the remote-tracking branch only go forward, one that
\* POST /sync/apply finds to be about the present heads has their topology and
\* their items (sync_engine.py:363, 421, 578).
THEOREM FreshPlansAreTrue == Spec => []FreshPlanTrue
<1>1. IInv => FreshPlanTrue
  BY DEF IInv, PlansTrue, KindTrue, ModeTrue, Recorded, FreshPlanTrue
<1> QED BY <1>1, Invariance, PTL

\* What upstream.json says of a fetch is so: the file is written after it, and
\* by whoever set the URL it was made from (repo.py:318-328); a reset that brings
\* a committed one back writes it anew (repo.py:339-341).
THEOREM UpstreamIsFetchedFrom == Spec => []FetchedFromUpstream
<1>1. IInv => FetchedFromUpstream
  <2> SUFFICES ASSUME IInv, ~mixed, upstream.fetched, Nobody({"clean", "base", "again"})
               PROVE  \A i \in DOMAIN ref : ref[i].by \in {upstream.repo, None}
    BY DEF FetchedFromUpstream, Nobody
  <2>1. Own(ref, upstream.repo) /\ ref \in Seq(Commits)
    BY DEF IInv, UpstreamTrue, TrueNow, Typed, Data, Histories
  <2> QED BY <2>1 DEF Own
<1> QED BY <1>1, Invariance, PTL

\* The baseline is HEAD or an ancestor of it, whatever control files the commits
\* hold: a rebaseline writes a HEAD that has only gone on since, and a reset
\* writes the HEAD it made (repo.py:329-337, sync_engine.py:402).
THEOREM BaselineIsInHead == Spec => []BaselineInHead
<1>1. IInv => BaselineInHead
  BY DEF IInv, UpstreamTrue, TrueNow, Nobody, BaselineInHead
<1> QED BY <1>1, Invariance, PTL

\* Where git sees .copilot/, saving a plan makes the workspace dirty, and the
\* commit that makes it clean again moves HEAD past the plan: no apply writes
\* anything (sync_engine.py compute_sync_plan, guardrails.py:29).
THEOREM UnignoredIsNeverApplied == Spec => []UnignoredNeverApplied
<1>1. IInv => UnignoredNeverApplied
  BY DEF IInv, Shut, UnignoredNeverApplied, Typed, Data
<1> QED BY <1>1, Invariance, PTL

=============================================================================
