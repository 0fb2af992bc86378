----------------------------- MODULE BudgetProofs -----------------------------
(***************************************************************************)
(* Proofs about Budget, for any number of tenants, builds and restarts.    *)
(* Lost updates and torn files take entries away; what the ledger never    *)
(* holds, two entries of one id and an estimate nobody granted, is proved  *)
(* for any number of threads.  What it must hold, and the budget, is       *)
(* proved for one request at a time.                                       *)
(***************************************************************************)
EXTENDS Budget, FiniteSetTheorems, WellFoundedInduction, TLAPS

\* Every estimate of the ledger is among the granted ones.
Backed(s, g) ==
  \A i \in 1..Len(s) : s[i].est = 0 \/ <<s[i].id, s[i].month, s[i].est>> \in g

Sound(s, g) == s \in Seq(Entry) /\ UniqueIds(s) /\ Backed(s, g)

-----------------------------------------------------------------------------
(* What the two upserts do to a ledger. *)

\* In a ledger without double ids the loop stops at the entry of that id.
LEMMA FirstOfId ==
  ASSUME NEW s \in Seq(Entry), UniqueIds(s), NEW id \in Ids, Has(s, id)
  PROVE  First(s, id) \in 1..Len(s) /\ s[First(s, id)].id = id
<1>1. PICK i \in 1..Len(s) : s[i].id = id
  BY DEF Has
<1>2. \A j \in 1..(i - 1) : s[j].id # id
  BY <1>1 DEF UniqueIds
<1> QED BY <1>1, <1>2 DEF First

\* Writing an entry of the id at hand over the one found keeps a ledger sound.
LEMMA ReplaceSound ==
  ASSUME NEW s, NEW g, Sound(s, g), NEW id \in Ids, Has(s, id),
         NEW e \in Entry, e.id = id, e.est = 0 \/ <<id, e.month, e.est>> \in g
  PROVE  Sound([s EXCEPT ![First(s, id)] = e], g)
<1> DEFINE k == First(s, id)
           t == [s EXCEPT ![k] = e]
<1>1. k \in 1..Len(s) /\ s[k].id = id /\ s \in Seq(Entry)
  BY FirstOfId DEF Sound
<1> HIDE DEF k
<1>2. t \in Seq(Entry) /\ Len(t) = Len(s)
  BY <1>1
<1>3. \A i \in 1..Len(s) : t[i] = IF i = k THEN e ELSE s[i]
  BY <1>1
<1> HIDE DEF t
<1>4. UniqueIds(t)
  BY <1>1, <1>2, <1>3 DEF Sound, UniqueIds
<1>5. Backed(t, g)
  BY <1>2, <1>3 DEF Sound, Backed
<1> QED BY <1>2, <1>4, <1>5 DEF Sound, t, k

LEMMA AppendSound ==
  ASSUME NEW s, NEW g, Sound(s, g), NEW id \in Ids, ~Has(s, id),
         NEW e \in Entry, e.id = id, e.est = 0 \/ <<id, e.month, e.est>> \in g
  PROVE  Sound(Append(s, e), g)
<1> DEFINE t == Append(s, e)
<1>1. t \in Seq(Entry) /\ Len(t) = Len(s) + 1
  BY DEF Sound
<1>2. \A i \in 1..Len(t) : t[i] = IF i = Len(s) + 1 THEN e ELSE s[i]
  BY DEF Sound
<1>3. \A i \in 1..Len(s) : s[i].id # id
  BY DEF Has
<1>4. Len(s) \in Nat
  BY DEF Sound
<1> HIDE DEF t
<1>5. UniqueIds(t)
  BY <1>1, <1>2, <1>3, <1>4 DEF Sound, UniqueIds
<1>6. ASSUME NEW i \in 1..Len(t)
      PROVE  t[i].est = 0 \/ <<t[i].id, t[i].month, t[i].est>> \in g
  <2>1. CASE i = Len(s) + 1
    BY <1>2, <2>1
  <2>2. CASE i # Len(s) + 1
    <3>1. i \in 1..Len(s) /\ t[i] = s[i]
      BY <1>1, <1>2, <1>4, <2>2
    <3> QED BY <3>1 DEF Sound, Backed
  <2> QED BY <2>1, <2>2
<1>7. Backed(t, g)
  BY <1>6 DEF Backed
<1> QED BY <1>1, <1>5, <1>7 DEF Sound, t

LEMMA UpsertEstimateSound ==
  ASSUME NEW s, NEW g, Sound(s, g), NEW id \in Ids, NEW m \in Nat,
         NEW c \in Nat, <<id, m, c>> \in g
  PROVE  Sound(UpsertEstimate(s, id, m, c), g)
<1> DEFINE e == [id |-> id, month |-> m, est |-> c, act |-> 0, closed |-> FALSE]
<1>1. e \in Entry /\ e.id = id /\ <<id, e.month, e.est>> \in g
  BY DEF Entry
<1> HIDE DEF e
<1> QED BY <1>1, ReplaceSound, AppendSound DEF UpsertEstimate, e

LEMMA UpsertActualSound ==
  ASSUME NEW s, NEW g, Sound(s, g), NEW id \in Ids, NEW m \in Nat, NEW c \in Nat
  PROVE  Sound(UpsertActual(s, id, m, c), g)
<1>1. CASE Has(s, id)
  <2> DEFINE k == First(s, id)
             e == [s[k] EXCEPT !.act = IF c = 0 THEN @ ELSE c, !.closed = TRUE]
  <2>1. k \in 1..Len(s) /\ s[k].id = id /\ s \in Seq(Entry)
    BY <1>1, FirstOfId DEF Sound
  <2>2. s[k] \in Entry
    BY <2>1
  <2>3. s[k].est = 0 \/ <<id, s[k].month, s[k].est>> \in g
    BY <2>1 DEF Sound, Backed
  <2>4. e \in Entry /\ e.id = id /\ e.est = s[k].est /\ e.month = s[k].month
    BY <2>1, <2>2 DEF Entry
  <2>5. UpsertActual(s, id, m, c) = [s EXCEPT ![k] = e]
    BY <1>1, <2>1, <2>2 DEF UpsertActual, Entry
  <2> HIDE DEF e
  <2>6. Sound([s EXCEPT ![k] = e], g)
    BY <1>1, <2>3, <2>4, ReplaceSound
  <2> QED BY <2>5, <2>6
<1>2. CASE ~Has(s, id)
  <2> DEFINE e == [id |-> id, month |-> m, est |-> 0, act |-> c, closed |-> TRUE]
  <2>1. e \in Entry /\ e.id = id /\ e.est = 0
    BY DEF Entry
  <2> HIDE DEF e
  <2> QED BY <1>2, <2>1, AppendSound DEF UpsertActual, e
<1> QED BY <1>1, <1>2

LEMMA SoundMonotone ==
  ASSUME NEW s, NEW g, NEW h, Sound(s, g), g \subseteq h
  PROVE  Sound(s, h)
BY DEF Sound, Backed

-----------------------------------------------------------------------------
(* The inductive invariant.  A request that is about to record an estimate *)
(* has been granted it, which is what the upsert lemma needs.              *)

Granted ==
  \A w \in Workers : worker[w].step = "load" /\ worker[w].kind = "estimate" =>
    <<worker[w].id, worker[w].month, worker[w].cost>> \in granted

IInv ==
  /\ TypeOK
  /\ Granted
  /\ Sound(Parsed, granted)
  /\ \A w \in Workers : Sound(worker[w].image, granted)

LEMMA EmptySound == \A g : Sound(<<>>, g)
BY DEF Sound, UniqueIds, Backed

LEMMA IdleWorker == Idle \in Worker /\ Idle.step = "idle" /\ Idle.image = <<>>
<1>1. PICK t \in Tenants, b \in Builds : TRUE
  BY BudgetAssumption DEF BudgetAssumption
<1>2. <<t, b>> \in Ids
  BY DEF Ids
<1>3. (CHOOSE id \in Ids : TRUE) \in Ids
  BY <1>2
<1> QED BY <1>3 DEF Idle, Worker

LEMMA Initially == Init => IInv
<1> SUFFICES ASSUME Init PROVE IInv
  OBVIOUS
<1>1. TypeOK /\ Granted
  BY IdleWorker DEF Init, TypeOK, Granted
<1>2. Sound(Parsed, granted) /\ \A w \in Workers : Sound(worker[w].image, granted)
  BY IdleWorker, EmptySound DEF Init, Parsed
<1> QED BY <1>1, <1>2 DEF IInv

LEMMA ReceiveKeeps ==
  ASSUME IInv, NEW w \in Workers, ReceiveApply(w) \/ ReceiveEnd(w)
  PROVE  IInv'
<1>1. PICK step \in {"check", "load"}, kind \in {"estimate", "actual"},
           id \in Ids, cost \in Costs \cup {0} :
        /\ Receive(w, step, kind, id, cost)
        /\ step = "load" => kind = "actual"
  BY DEF ReceiveApply, ReceiveEnd
<1> DEFINE v == [step |-> step, kind |-> kind, id |-> id, month |-> month,
                 cost |-> cost, image |-> <<>>]
<1>2. v \in Worker /\ v.step = step /\ v.kind = kind /\ v.image = <<>>
  <2>1. cost \in Nat /\ month \in Nat /\ <<>> \in Seq(Entry)
    BY BudgetAssumption DEF IInv, TypeOK, BudgetAssumption
  <2> QED BY <2>1 DEF Worker
<1>3. worker' = [worker EXCEPT ![w] = v]
  BY <1>1 DEF Receive
<1> HIDE DEF v
<1>4. UNCHANGED <<file, month, granted, reported, crashes>> /\ requests' = requests + 1
  BY <1>1 DEF Receive
<1>5. TypeOK'
  BY <1>2, <1>3, <1>4 DEF IInv, TypeOK
<1>6. Granted'
  BY <1>1, <1>2, <1>3, <1>4 DEF IInv, TypeOK, Granted
<1>7. Sound(Parsed, granted)'
  BY <1>4 DEF IInv, Parsed
<1>8. \A u \in Workers : Sound(worker[u].image, granted)'
  BY <1>2, <1>3, <1>4, EmptySound DEF IInv, TypeOK
<1> QED BY <1>5, <1>6, <1>7, <1>8 DEF IInv

LEMMA DecideKeeps ==
  ASSUME IInv, NEW w \in Workers, Refuse(w) \/ Grant(w)
  PROVE  IInv'
<1>1. CASE Refuse(w)
  <2>1. worker' = [worker EXCEPT ![w] = Idle]
        /\ UNCHANGED <<file, month, granted, reported, requests, crashes>>
    BY <1>1 DEF Refuse
  <2>2. TypeOK' /\ Granted'
    BY <2>1, IdleWorker DEF IInv, TypeOK, Granted
  <2>3. Sound(Parsed, granted)'
    BY <2>1 DEF IInv, Parsed
  <2>4. \A u \in Workers : Sound(worker[u].image, granted)'
    BY <2>1, IdleWorker, EmptySound DEF IInv, TypeOK
  <2> QED BY <2>2, <2>3, <2>4 DEF IInv
<1>2. CASE Grant(w)
  <2> DEFINE t == <<worker[w].id, worker[w].month, worker[w].cost>>
  <2>1. /\ worker' = [worker EXCEPT ![w].step = "load"]
        /\ granted' = granted \cup {t}
        /\ reported' \subseteq reported
        /\ UNCHANGED <<file, month, requests, crashes>>
    BY <1>2 DEF Grant
  <2>2. \A u \in Workers : /\ worker'[u].image = worker[u].image
                           /\ worker'[u].id = worker[u].id
                           /\ worker'[u].month = worker[u].month
                           /\ worker'[u].cost = worker[u].cost
                           /\ worker'[u].kind = worker[u].kind
                           /\ u # w => worker'[u] = worker[u]
    BY <2>1 DEF IInv, TypeOK, Worker
  <2>3. worker' \in [Workers -> Worker] /\ t \in Ids \X Nat \X Nat
    BY <2>1 DEF IInv, TypeOK, Worker
  <2>4. TypeOK'
    BY <2>1, <2>3 DEF IInv, TypeOK
  <2>5. Granted'
    BY <2>1, <2>2 DEF IInv, Granted
  <2>6. Sound(Parsed, granted)'
    BY <2>1, SoundMonotone DEF IInv, Parsed
  <2>7. \A u \in Workers : Sound(worker[u].image, granted)'
    BY <2>1, <2>2, SoundMonotone DEF IInv
  <2> QED BY <2>4, <2>5, <2>6, <2>7 DEF IInv
<1> QED BY <1>1, <1>2

LEMMA LoadKeeps ==
  ASSUME IInv, NEW w \in Workers, Load(w)
  PROVE  IInv'
<1> DEFINE v == worker[w]
           s == IF v.kind = "estimate"
                THEN UpsertEstimate(Parsed, v.id, v.month, v.cost)
                ELSE UpsertActual(Parsed, v.id, v.month, v.cost)
<1>1. v \in Worker /\ v.step = "load" /\ Sound(Parsed, granted)
  BY DEF IInv, TypeOK, Load
<1>2. v.id \in Ids /\ v.month \in Nat /\ v.cost \in Nat
      /\ v.kind \in {"estimate", "actual"}
  BY <1>1 DEF Worker
<1>3. Sound(s, granted)
  <2>1. CASE v.kind = "estimate"
    BY <1>1, <1>2, <2>1, UpsertEstimateSound DEF IInv, Granted
  <2>2. CASE v.kind # "estimate"
    BY <1>1, <1>2, <2>2, UpsertActualSound
  <2> QED BY <2>1, <2>2
<1>4. /\ worker' = [worker EXCEPT ![w].image = s, ![w].step = "open"]
      /\ UNCHANGED <<file, month, granted, requests, crashes>>
      /\ reported' \subseteq reported \cup {<<v.id, v.cost>>}
  BY DEF Load, Reported
<1> HIDE DEF s
<1>5. s \in Seq(Entry)
  BY <1>3 DEF Sound
<1>6. worker' \in [Workers -> Worker]
  <2> DEFINE z == [worker[w] EXCEPT !.image = s, !.step = "open"]
  <2>1. z \in Worker
    BY <1>1, <1>5 DEF Worker
  <2>2. worker \in [Workers -> Worker] /\ worker' = [worker EXCEPT ![w] = z]
    BY <1>4 DEF IInv, TypeOK
  <2> HIDE DEF z
  <2> QED BY <2>1, <2>2
<1>7. \A u \in Workers :
        worker'[u] = IF u = w THEN [worker[w] EXCEPT !.image = s, !.step = "open"]
                     ELSE worker[u]
  BY <1>4 DEF IInv, TypeOK, Worker
<1>8. worker'[w].step = "open" /\ worker'[w].image = s
  BY <1>1, <1>7 DEF Worker
<1>9. TypeOK'
  BY <1>2, <1>4, <1>6 DEF IInv, TypeOK
<1>10. Granted'
  <2>1. ASSUME NEW u \in Workers, worker'[u].step = "load",
               worker'[u].kind = "estimate"
        PROVE  <<worker'[u].id, worker'[u].month, worker'[u].cost>> \in granted'
    <3>1. u # w /\ worker'[u] = worker[u] /\ granted' = granted
      BY <1>4, <1>7, <1>8, <2>1
    <3> QED BY <2>1, <3>1 DEF IInv, Granted
  <2> QED BY <2>1 DEF Granted
<1>11. Sound(Parsed, granted)'
  BY <1>4 DEF IInv, Parsed
<1>12. \A u \in Workers : Sound(worker[u].image, granted)'
  BY <1>3, <1>4, <1>7, <1>8 DEF IInv
<1> QED BY <1>9, <1>10, <1>11, <1>12 DEF IInv

LEMMA WriteKeeps ==
  ASSUME IInv, NEW w \in Workers, Truncate(w) \/ Flush(w)
  PROVE  IInv'
<1>1. CASE Truncate(w)
  <2>1. /\ file' = Empty
        /\ worker' = [worker EXCEPT ![w].step = "flush"]
        /\ UNCHANGED <<month, granted, reported, requests, crashes>>
    BY <1>1 DEF Truncate
  <2>2. \A u \in Workers : /\ worker'[u].image = worker[u].image
                           /\ worker'[u].step = "load" => worker'[u] = worker[u]
    BY <2>1 DEF IInv, TypeOK, Worker
  <2>3. TypeOK'
    <3> DEFINE z == [worker[w] EXCEPT !.step = "flush"]
    <3>1. worker \in [Workers -> Worker] /\ worker[w] \in Worker
      BY DEF IInv, TypeOK
    <3>2. z \in Worker
      BY <3>1 DEF Worker
    <3>3. worker' = [worker EXCEPT ![w] = z]
      BY <2>1
    <3> HIDE DEF z
    <3>4. worker' \in [Workers -> Worker]
      BY <3>1, <3>2, <3>3
    <3> QED BY <2>1, <3>4 DEF IInv, TypeOK
  <2>4. Granted'
    BY <2>1, <2>2 DEF IInv, Granted
  <2>5. Sound(Parsed, granted)'
    BY <2>1, EmptySound DEF Parsed
  <2>6. \A u \in Workers : Sound(worker[u].image, granted)'
    BY <2>1, <2>2 DEF IInv
  <2> QED BY <2>3, <2>4, <2>5, <2>6 DEF IInv
<1>2. CASE Flush(w)
  <2>1. /\ file' \in {worker[w].image, Garbled}
        /\ worker' = [worker EXCEPT ![w] = Idle]
        /\ UNCHANGED <<month, granted, reported, requests, crashes>>
    BY <1>2 DEF Flush
  <2>2. worker[w].image \in Seq(Entry)
    BY DEF IInv, TypeOK, Worker
  <2>3. TypeOK'
    BY <2>1, <2>2, IdleWorker DEF IInv, TypeOK
  <2>4. Granted'
    BY <2>1, IdleWorker DEF IInv, TypeOK, Granted
  <2>5. Sound(Parsed, granted)'
    BY <2>1, EmptySound DEF IInv, Parsed
  <2>6. \A u \in Workers : Sound(worker[u].image, granted)'
    BY <2>1, IdleWorker, EmptySound DEF IInv, TypeOK
  <2> QED BY <2>3, <2>4, <2>5, <2>6 DEF IInv
<1> QED BY <1>1, <1>2

LEMMA EnvironmentKeeps ==
  ASSUME IInv, NextMonth \/ Crash \/ UNCHANGED vars
  PROVE  IInv'
<1>1. CASE NextMonth
  BY <1>1 DEF IInv, TypeOK, Granted, Parsed, NextMonth
<1>2. CASE Crash
  <2>1. worker' = [w \in Workers |-> Idle] /\ crashes' = crashes + 1
        /\ UNCHANGED <<file, month, granted, reported, requests>>
    BY <1>2 DEF Crash
  <2>2. TypeOK' /\ Granted'
    BY <2>1, IdleWorker DEF IInv, TypeOK, Granted
  <2>3. Sound(Parsed, granted)' /\ \A u \in Workers : Sound(worker[u].image, granted)'
    BY <2>1, IdleWorker, EmptySound DEF IInv, Parsed
  <2> QED BY <2>2, <2>3 DEF IInv
<1>3. CASE UNCHANGED vars
  BY <1>3 DEF vars, IInv, TypeOK, Granted, Parsed
<1> QED BY <1>1, <1>2, <1>3

-----------------------------------------------------------------------------
(* What holds for any number of threads. *)

LEMMA Invariance == Spec => []IInv
<1>1. IInv /\ [Next]_vars => IInv'
  BY ReceiveKeeps, DecideKeeps, LoadKeeps, WriteKeeps, EnvironmentKeeps
     DEF Next, Quiet
<1> QED BY Initially, <1>1, PTL DEF Spec

\* Every variable keeps its type: what a request writes to the ledger file is
\* a list of whole entries (ledger.py).
THEOREM TypeCorrect == Spec => []TypeOK
<1>1. IInv => TypeOK
  BY DEF IInv
<1> QED BY <1>1, Invariance, PTL

\* No interleaving of upserts, with any number of threads, leaves two entries
\* for one tenant and build (upsert_estimate, upsert_actual).
THEOREM EntriesUnique == Spec => []OneEntryPerId
<1>1. IInv => OneEntryPerId
  BY DEF IInv, OneEntryPerId, Ledgers, Sound
<1> QED BY <1>1, Invariance, PTL

\* No estimate appears in the ledger that the policy did not let through,
\* whatever torn files and lost updates do to it (guards.py, ledger.py).
THEOREM EstimatesGranted == Spec => []EstimatesWereGranted
<1>1. IInv => EstimatesWereGranted
  BY DEF IInv, EstimatesWereGranted, Ledgers, Sound, Backed
<1> QED BY <1>1, Invariance, PTL

-----------------------------------------------------------------------------
(* Sums.  SumFunctionOnSet is a recursive function over the subsets of its *)
(* domain; a set of good subsets in place of a predicate states the        *)
(* induction over finite sets without an operator parameter.               *)

\* A set that holds the empty set, and each set whose parts it holds, holds
\* every finite set.
LEMMA SubsetInduction ==
  ASSUME NEW S, IsFiniteSet(S), NEW G,
         \A s \in SUBSET S : (\A x \in s : s \ {x} \in G) => s \in G
  PROVE  S \in G
<1> DEFINE Bad == {n \in Nat : \E s \in SUBSET S : Cardinality(s) = n /\ s \notin G}
<1> SUFFICES ASSUME S \notin G PROVE FALSE
  OBVIOUS
<1>1. Cardinality(S) \in Bad /\ Bad \subseteq Nat
  BY FS_CardinalityType
<1>2. Bad # {}
  BY <1>1
<1> HIDE DEF Bad
<1>3. PICK n \in Bad : \A m \in Bad : ~ (<<m, n>> \in OpToRel(<, Nat))
  BY <1>1, <1>2, NatLessThanWellFounded, WFMin
<1>4. n \in Nat /\ \A m \in Bad : ~ (m < n)
  BY <1>1, <1>3 DEF OpToRel
<1>5. PICK s \in SUBSET S : Cardinality(s) = n /\ s \notin G
  BY <1>3 DEF Bad
<1>6. IsFiniteSet(s)
  BY FS_Subset
<1>7. ASSUME NEW x \in s
      PROVE  s \ {x} \in G
  <2>1. Cardinality(s \ {x}) = n - 1 /\ IsFiniteSet(s \ {x})
    BY <1>5, <1>6, FS_RemoveElement
  <2>2. n - 1 \in Nat
    BY <2>1, FS_CardinalityType
  <2>3. n - 1 \notin Bad
    BY <1>4, <2>2
  <2>4. s \ {x} \in SUBSET S
    OBVIOUS
  <2> QED BY <2>1, <2>2, <2>3, <2>4 DEF Bad
<1> QED BY <1>5, <1>7

\* The diagram of f over s has f[x] cells in the column of x.
Cells(f, s) == {c \in s \X Nat : c[2] \in 1..f[c[1]]}

LEMMA Column ==
  ASSUME NEW x, NEW n \in Nat
  PROVE  IsFiniteSet({x} \X (1..n)) /\ Cardinality({x} \X (1..n)) = n
<1>1. IsFiniteSet({x}) /\ Cardinality({x}) = 1
  BY FS_Singleton
<1>2. IsFiniteSet(1..n) /\ Cardinality(1..n) = n
  BY FS_Interval
<1>3. /\ IsFiniteSet({x} \X (1..n))
      /\ Cardinality({x} \X (1..n)) = Cardinality({x}) * Cardinality(1..n)
  BY <1>1, <1>2, FS_Product
<1> QED BY <1>1, <1>2, <1>3

LEMMA CellsWithout ==
  ASSUME NEW f, NEW s, NEW x \in s, f[x] \in Nat, IsFiniteSet(Cells(f, s \ {x}))
  PROVE  /\ IsFiniteSet(Cells(f, s))
         /\ Cardinality(Cells(f, s)) = f[x] + Cardinality(Cells(f, s \ {x}))
<1> DEFINE rest == Cells(f, s \ {x})
           column == {x} \X (1..f[x])
<1>1. IsFiniteSet(column) /\ Cardinality(column) = f[x]
  BY Column
<1>2. Cells(f, s) = rest \cup column
  <2>1. ASSUME NEW c \in Cells(f, s)
        PROVE  c \in rest \cup column
    BY <2>1 DEF Cells
  <2>2. ASSUME NEW c \in rest
        PROVE  c \in Cells(f, s)
    BY <2>2 DEF Cells
  <2>3. ASSUME NEW c \in column
        PROVE  c \in Cells(f, s)
    <3>1. PICK k \in 1..f[x] : c = <<x, k>>
      OBVIOUS
    <3>2. k \in Nat
      OBVIOUS
    <3> QED BY <3>1, <3>2 DEF Cells
  <2> QED BY <2>1, <2>2, <2>3
<1>3. rest \cap column = {}
  BY DEF Cells
<1>4. Cardinality(rest) \in Nat
  BY FS_CardinalityType
<1> HIDE DEF rest, column
<1>5. IsFiniteSet(rest)
  BY DEF rest
<1>6. /\ IsFiniteSet(rest \cup column)
      /\ Cardinality(rest \cup column) = Cardinality(rest) + Cardinality(column) - 0
  BY <1>1, <1>3, <1>5, FS_Union, FS_EmptySet
<1> QED BY <1>1, <1>2, <1>4, <1>6 DEF rest

LEMMA CellsFinite ==
  ASSUME NEW S, IsFiniteSet(S), NEW f, \A x \in S : f[x] \in Nat
  PROVE  \A s \in SUBSET S : IsFiniteSet(Cells(f, s))
<1> SUFFICES ASSUME NEW s \in SUBSET S PROVE IsFiniteSet(Cells(f, s))
  OBVIOUS
<1> DEFINE G == {r \in SUBSET S : IsFiniteSet(Cells(f, r))}
<1>1. IsFiniteSet(s)
  BY FS_Subset
<1>2. ASSUME NEW r \in SUBSET s, \A x \in r : r \ {x} \in G
      PROVE  r \in G
  <2>1. CASE r = {}
    <3>1. Cells(f, r) = {}
      BY <2>1 DEF Cells
    <3> QED BY <3>1, FS_EmptySet
  <2>2. CASE r # {}
    <3>1. PICK x \in r : TRUE
      BY <2>2
    <3>2. IsFiniteSet(Cells(f, r \ {x})) /\ f[x] \in Nat
      BY <1>2
    <3> QED BY <3>2, CellsWithout
  <2> QED BY <2>1, <2>2
<1> HIDE DEF G
<1>3. s \in G
  BY <1>1, <1>2, SubsetInduction
<1> QED BY <1>3 DEF G

\* The function the library's sum evaluates.
Summed(f, S) == CHOOSE iter : iter =
  [s \in SUBSET S |-> IF s = {} THEN 0
                      ELSE f[CHOOSE x \in s : TRUE]
                           + iter[s \ {CHOOSE x \in s : TRUE}]]

\* A sum is the number of cells of the diagram.
LEMMA SumIsCells ==
  ASSUME NEW S, IsFiniteSet(S), NEW f, \A x \in S : f[x] \in Nat
  PROVE  SumFunctionOnSet(f, S) = Cardinality(Cells(f, S))
<1> DEFINE some(s) == CHOOSE x \in s : TRUE
           body(i) == [s \in SUBSET S |->
                        IF s = {} THEN 0 ELSE f[some(s)] + i[s \ {some(s)}]]
           count == [s \in SUBSET S |-> Cardinality(Cells(f, s))]
           sum == Summed(f, S)
<1>1. SumFunctionOnSet(f, S) = sum[S]
  BY DEF SumFunctionOnSet, FoldFunctionOnSet, MapThenFoldSet, Summed
<1>2. \A s \in SUBSET S : s # {} => some(s) \in s
  OBVIOUS
<1>3. \A s \in SUBSET S : s # {} =>
        Cardinality(Cells(f, s)) = f[some(s)] + Cardinality(Cells(f, s \ {some(s)}))
  <2> SUFFICES ASSUME NEW s \in SUBSET S, s # {}
               PROVE  Cardinality(Cells(f, s))
                        = f[some(s)] + Cardinality(Cells(f, s \ {some(s)}))
    OBVIOUS
  <2>1. some(s) \in s
    BY <1>2
  <2> HIDE DEF some
  <2>2. s \ {some(s)} \in SUBSET S /\ f[some(s)] \in Nat
    BY <2>1
  <2>3. IsFiniteSet(Cells(f, s \ {some(s)}))
    BY <2>2, CellsFinite
  <2> QED BY <2>1, <2>2, <2>3, CellsWithout
<1>4. Cells(f, {}) = {}
  BY DEF Cells
<1>5. Cardinality(Cells(f, {})) = 0
  BY <1>4, FS_EmptySet
<1>6. count = body(count)
  BY <1>3, <1>5, Zenon
<1>7. sum = body(sum)
  <2>1. \E i : i = body(i)
    BY <1>6
  <2> QED BY <2>1 DEF Summed
<1> HIDE DEF sum
<1> DEFINE G == {s \in SUBSET S : sum[s] = count[s]}
<1>8. ASSUME NEW s \in SUBSET S, \A x \in s : s \ {x} \in G
      PROVE  s \in G
  <2>1. sum[s] = IF s = {} THEN 0 ELSE f[some(s)] + sum[s \ {some(s)}]
    BY <1>7
  <2>2. CASE s = {}
    BY <1>5, <2>1, <2>2
  <2>3. CASE s # {}
    <3>1. some(s) \in s
      BY <1>2, <2>3
    <3> HIDE DEF some
    <3>2. sum[s \ {some(s)}] = count[s \ {some(s)}] /\ s \ {some(s)} \in SUBSET S
      BY <1>8, <3>1
    <3> QED BY <1>3, <2>1, <2>3, <3>2
  <2> QED BY <2>2, <2>3
<1> HIDE DEF G
<1>9. S \in G
  BY <1>8, SubsetInduction
<1> QED BY <1>1, <1>9 DEF G

-----------------------------------------------------------------------------
(* What the upserts do to the entries, and to what a tenant has spent.     *)

\* z is s with the entry e put at place k, over another or at the end.
Puts(z, s, k, e) ==
  /\ z \in Seq(Entry) /\ e \in Entry
  /\ 1..Len(s) \subseteq 1..Len(z) /\ k \in 1..Len(z)
  /\ z[k] = e
  /\ \A i \in (1..Len(z)) \ {k} : i \in 1..Len(s) /\ z[i] = s[i]

LEMMA ReplacePuts ==
  ASSUME NEW s \in Seq(Entry), NEW k \in 1..Len(s), NEW e \in Entry
  PROVE  Puts([s EXCEPT ![k] = e], s, k, e)
BY DEF Puts

LEMMA AppendPuts ==
  ASSUME NEW s \in Seq(Entry), NEW e \in Entry
  PROVE  Puts(Append(s, e), s, Len(s) + 1, e) /\ Len(s) + 1 \notin 1..Len(s)
<1> DEFINE z == Append(s, e)
<1>1. z \in Seq(Entry) /\ Len(z) = Len(s) + 1 /\ Len(s) \in Nat
  OBVIOUS
<1>2. \A i \in 1..Len(z) : z[i] = IF i = Len(s) + 1 THEN e ELSE s[i]
  OBVIOUS
<1> HIDE DEF z
<1>3. Puts(z, s, Len(s) + 1, e)
  BY <1>1, <1>2 DEF Puts
<1> QED BY <1>1, <1>3 DEF z

\* The new estimate takes the place of the entry of its id.
LEMMA EstimatePuts ==
  ASSUME NEW s \in Seq(Entry), UniqueIds(s), NEW id \in Ids, NEW m \in Nat, NEW c \in Nat
  PROVE  \E k, e : /\ Puts(UpsertEstimate(s, id, m, c), s, k, e)
                   /\ e.id = id /\ e.month = m /\ e.est = c
                   /\ k \in 1..Len(s) => s[k].id = id
<1> DEFINE e == [id |-> id, month |-> m, est |-> c, act |-> 0, closed |-> FALSE]
<1>1. e \in Entry /\ e.id = id /\ e.month = m /\ e.est = c
  BY DEF Entry
<1> HIDE DEF e
<1>2. CASE Has(s, id)
  <2>1. First(s, id) \in 1..Len(s) /\ s[First(s, id)].id = id
    BY <1>2, FirstOfId
  <2>2. UpsertEstimate(s, id, m, c) = [s EXCEPT ![First(s, id)] = e]
    BY <1>2 DEF UpsertEstimate, e
  <2> QED BY <1>1, <2>1, <2>2, ReplacePuts
<1>3. CASE ~Has(s, id)
  <2>1. UpsertEstimate(s, id, m, c) = Append(s, e)
    BY <1>3 DEF UpsertEstimate, e
  <2> QED BY <1>1, <2>1, AppendPuts
<1> QED BY <1>2, <1>3

\* Actuals close the entry of their id and leave its estimate, or make an entry
\* without one.
LEMMA ActualPuts ==
  ASSUME NEW s \in Seq(Entry), UniqueIds(s), NEW id \in Ids, NEW m \in Nat, NEW c \in Nat
  PROVE  \E k, e : /\ Puts(UpsertActual(s, id, m, c), s, k, e)
                   /\ e.id = id /\ e.closed
                   /\ k \in 1..Len(s) =>
                        /\ s[k].id = id
                        /\ e.month = s[k].month /\ e.est = s[k].est
                        /\ e.act = IF c = 0 THEN s[k].act ELSE c
                   /\ k \notin 1..Len(s) => e.est = 0 /\ e.act = c /\ ~Has(s, id)
<1>1. CASE Has(s, id)
  <2> DEFINE k == First(s, id)
             e == [s[k] EXCEPT !.act = IF c = 0 THEN @ ELSE c, !.closed = TRUE]
  <2>1. k \in 1..Len(s) /\ s[k].id = id
    BY <1>1, FirstOfId
  <2>2. s[k] \in Entry
    BY <2>1
  <2>3. e \in Entry /\ e.id = id /\ e.est = s[k].est /\ e.month = s[k].month
    BY <2>1, <2>2 DEF Entry
  <2>4. e.closed /\ e.act = IF c = 0 THEN s[k].act ELSE c
    BY <2>2 DEF Entry
  <2>5. UpsertActual(s, id, m, c) = [s EXCEPT ![k] = e]
    BY <1>1, <2>1, <2>2 DEF UpsertActual, Entry
  <2> HIDE DEF e, k
  <2>6. Puts(UpsertActual(s, id, m, c), s, k, e)
    BY <2>1, <2>3, <2>5, ReplacePuts
  <2> QED BY <2>1, <2>3, <2>4, <2>6
<1>2. CASE ~Has(s, id)
  <2> DEFINE e == [id |-> id, month |-> m, est |-> 0, act |-> c, closed |-> TRUE]
  <2>1. e \in Entry /\ e.id = id /\ e.est = 0 /\ e.closed /\ e.act = c
    BY DEF Entry
  <2>2. UpsertActual(s, id, m, c) = Append(s, e)
    BY <1>2 DEF UpsertActual
  <2> HIDE DEF e
  <2> QED BY <1>2, <2>1, <2>2, AppendPuts
<1> QED BY <1>1, <1>2

\* The diagram of what a tenant is estimated to spend in a month.
Estimated(s, t, m) ==
  {c \in (1..Len(s)) \X Nat : /\ s[c[1]].id[1] = t /\ s[c[1]].month = m
                              /\ c[2] \in 1..s[c[1]].est}

LEMMA SpentIsCells ==
  ASSUME NEW s \in Seq(Entry), NEW t, NEW m
  PROVE  /\ IsFiniteSet(Estimated(s, t, m))
         /\ Spent(s, t, m, "est") = Cardinality(Estimated(s, t, m))
         /\ Spent(s, t, m, "est") \in Nat
<1> DEFINE Counted == {i \in 1..Len(s) : s[i].id[1] = t /\ s[i].month = m}
           f == [i \in 1..Len(s) |-> s[i]["est"]]
<1>1. IsFiniteSet(1..Len(s))
  BY FS_Interval
<1>2. IsFiniteSet(Counted)
  BY <1>1, FS_Subset
<1>3. \A i \in Counted : f[i] \in Nat /\ f[i] = s[i].est
  <2>1. \A i \in Counted : f[i] = s[i]["est"] /\ s[i] \in Entry
    OBVIOUS
  <2>2. \A e \in Entry : e["est"] \in Nat /\ e.est = e["est"]
    BY DEF Entry
  <2> HIDE DEF Counted, f
  <2> QED BY <2>1, <2>2
<1>4. Cells(f, Counted) = Estimated(s, t, m)
  BY <1>3 DEF Cells, Estimated
<1>5. Spent(s, t, m, "est") = SumFunctionOnSet(f, Counted)
  BY DEF Spent
<1> HIDE DEF Counted, f
<1>6. IsFiniteSet(Cells(f, Counted))
  BY <1>2, <1>3, CellsFinite
<1>7. SumFunctionOnSet(f, Counted) = Cardinality(Cells(f, Counted))
  BY <1>2, <1>3, SumIsCells
<1> QED BY <1>4, <1>5, <1>6, <1>7, FS_CardinalityType

\* An entry adds its estimate to its own tenant and month, and to no other.
LEMMA PutSpends ==
  ASSUME NEW s \in Seq(Entry), NEW z, NEW k, NEW e, Puts(z, s, k, e), NEW t, NEW m
  PROVE  LET more == IF e.id[1] = t /\ e.month = m THEN e.est ELSE 0
         IN  Spent(z, t, m, "est") <= Spent(s, t, m, "est") + more
<1> DEFINE column == {k} \X (1..e.est)
<1>1. z \in Seq(Entry) /\ e.est \in Nat
  BY DEF Puts, Entry
<1>2. /\ IsFiniteSet(Estimated(s, t, m))
      /\ Spent(s, t, m, "est") = Cardinality(Estimated(s, t, m))
      /\ Spent(s, t, m, "est") \in Nat
  BY SpentIsCells
<1>3. /\ Spent(z, t, m, "est") = Cardinality(Estimated(z, t, m))
      /\ Spent(z, t, m, "est") \in Nat
  BY <1>1, SpentIsCells
<1>4. CASE e.id[1] = t /\ e.month = m
  <2>1. IsFiniteSet(column) /\ Cardinality(column) = e.est
    BY <1>1, Column
  <2>2. Estimated(z, t, m) \subseteq Estimated(s, t, m) \cup column
    <3> SUFFICES ASSUME NEW c \in Estimated(z, t, m)
                 PROVE  c \in Estimated(s, t, m) \cup column
      OBVIOUS
    <3>1. CASE c[1] = k
      BY <3>1 DEF Estimated, Puts
    <3>2. CASE c[1] # k
      BY <3>2 DEF Estimated, Puts
    <3> QED BY <3>1, <3>2
  <2> HIDE DEF column
  <2>3. /\ IsFiniteSet(Estimated(s, t, m) \cup column)
        /\ Cardinality(Estimated(s, t, m) \cup column) =
             Cardinality(Estimated(s, t, m)) + e.est
               - Cardinality(Estimated(s, t, m) \cap column)
    BY <1>2, <2>1, FS_Union
  <2>4. Cardinality(Estimated(s, t, m) \cap column) \in Nat
    BY <1>2, FS_Intersection, FS_CardinalityType
  <2>5. Cardinality(Estimated(z, t, m)) <= Cardinality(Estimated(s, t, m) \cup column)
    BY <2>2, <2>3, FS_Subset
  <2> QED BY <1>1, <1>2, <1>3, <1>4, <2>3, <2>4, <2>5
<1>5. CASE ~(e.id[1] = t /\ e.month = m)
  <2>1. Estimated(z, t, m) \subseteq Estimated(s, t, m)
    BY <1>5 DEF Estimated, Puts
  <2>2. Cardinality(Estimated(z, t, m)) <= Cardinality(Estimated(s, t, m))
    BY <1>2, <2>1, FS_Subset
  <2> QED BY <1>2, <1>3, <1>5, <2>2
<1> QED BY <1>4, <1>5

\* Actuals spend nothing of the budget.
LEMMA ActualSpends ==
  ASSUME NEW s \in Seq(Entry), UniqueIds(s), NEW id \in Ids, NEW a \in Nat, NEW c \in Nat,
         NEW t, NEW m
  PROVE  Spent(UpsertActual(s, id, a, c), t, m, "est") <= Spent(s, t, m, "est")
<1> DEFINE z == UpsertActual(s, id, a, c)
<1>1. PICK k, e : /\ Puts(z, s, k, e) /\ e.id = id
                  /\ k \in 1..Len(s) => /\ s[k].id = id
                                        /\ e.month = s[k].month /\ e.est = s[k].est
                  /\ k \notin 1..Len(s) => e.est = 0
  <2>1. \E k, e : /\ Puts(z, s, k, e)
                  /\ e.id = id /\ e.closed
                  /\ k \in 1..Len(s) =>
                       /\ s[k].id = id
                       /\ e.month = s[k].month /\ e.est = s[k].est
                       /\ e.act = IF c = 0 THEN s[k].act ELSE c
                  /\ k \notin 1..Len(s) => e.est = 0 /\ e.act = c /\ ~Has(s, id)
    BY ActualPuts
  <2> QED BY <2>1, Zenon
<1> HIDE DEF z
<1>2. z \in Seq(Entry)
  BY <1>1 DEF Puts
<1>3. Estimated(z, t, m) \subseteq Estimated(s, t, m)
  <2> SUFFICES ASSUME NEW c0 \in Estimated(z, t, m)
               PROVE  c0 \in Estimated(s, t, m)
    OBVIOUS
  <2>1. CASE c0[1] = k
    BY <1>1, <2>1 DEF Estimated, Puts
  <2>2. CASE c0[1] # k
    BY <1>1, <2>2 DEF Estimated, Puts
  <2> QED BY <2>1, <2>2
<1>4. /\ IsFiniteSet(Estimated(s, t, m))
      /\ Spent(s, t, m, "est") = Cardinality(Estimated(s, t, m))
      /\ Spent(z, t, m, "est") = Cardinality(Estimated(z, t, m))
  BY <1>2, SpentIsCells
<1> QED BY <1>3, <1>4, FS_Subset DEF z

\* The ledger has an entry for a build, finished and at the cost reported if
\* one was,
Closed(s, r) ==
  \E i \in 1..Len(s) : /\ s[i].id = r[1] /\ s[i].closed
                       /\ r[2] = 0 \/ s[i].act = r[2]

\* (what is reported once an end of cost c is)
After(R, id, c) ==
  IF c = 0 /\ \E r \in R : r[1] = id THEN R
  ELSE {r \in R : r[1] # id} \cup {<<id, c>>}

\* and for every grant and every report.
Keeps(s, grants, reports) ==
  /\ \A g \in grants : Has(s, g[1])
  /\ \A r \in reports : Closed(s, r)

LEMMA EstimateKeeps ==
  ASSUME NEW s \in Seq(Entry), UniqueIds(s), NEW id \in Ids, NEW m \in Nat, NEW c \in Nat,
         NEW G, NEW R, Keeps(s, {g \in G : g[1] # id}, R), \A r \in R : r[1] # id
  PROVE  Keeps(UpsertEstimate(s, id, m, c), G, R)
<1> DEFINE z == UpsertEstimate(s, id, m, c)
<1>1. PICK k, e : Puts(z, s, k, e) /\ e.id = id /\ (k \in 1..Len(s) => s[k].id = id)
  <2>1. \E k, e : /\ Puts(z, s, k, e)
                  /\ e.id = id /\ e.month = m /\ e.est = c
                  /\ k \in 1..Len(s) => s[k].id = id
    BY EstimatePuts
  <2> QED BY <2>1, Zenon
<1> HIDE DEF z
<1>2. \A i \in 1..Len(s) : s[i].id # id => i \in 1..Len(z) /\ z[i] = s[i]
  BY <1>1 DEF Puts
<1>3. \A g \in G : Has(z, g[1])
  BY <1>1, <1>2 DEF Puts, Keeps, Has
<1>4. \A r \in R : Closed(z, r)
  BY <1>1, <1>2 DEF Keeps, Closed
<1> QED BY <1>3, <1>4 DEF Keeps, z

LEMMA ActualKeeps ==
  ASSUME NEW s \in Seq(Entry), UniqueIds(s), NEW id \in Ids, NEW m \in Nat, NEW c \in Nat,
         NEW G, NEW R, Keeps(s, G, R)
  PROVE  Keeps(UpsertActual(s, id, m, c), G, After(R, id, c))
<1> DEFINE z == UpsertActual(s, id, m, c)
<1>1. PICK k, e : /\ Puts(z, s, k, e) /\ e.id = id /\ e.closed
                  /\ k \in 1..Len(s) => /\ s[k].id = id
                                        /\ e.act = IF c = 0 THEN s[k].act ELSE c
                  /\ k \notin 1..Len(s) => e.act = c /\ ~Has(s, id)
  <2>1. \E k, e : /\ Puts(z, s, k, e)
                  /\ e.id = id /\ e.closed
                  /\ k \in 1..Len(s) =>
                       /\ s[k].id = id
                       /\ e.month = s[k].month /\ e.est = s[k].est
                       /\ e.act = IF c = 0 THEN s[k].act ELSE c
                  /\ k \notin 1..Len(s) => e.est = 0 /\ e.act = c /\ ~Has(s, id)
    BY ActualPuts
  <2> QED BY <2>1, Zenon
<1> HIDE DEF z
<1>2. k \in 1..Len(z) /\ z[k] = e /\ \A i \in 1..Len(s) : i # k => z[i] = s[i]
      /\ 1..Len(s) \subseteq 1..Len(z)
  BY <1>1 DEF Puts
<1>3. \A g \in G : Has(z, g[1])
  <2> SUFFICES ASSUME NEW g \in G PROVE Has(z, g[1])
    OBVIOUS
  <2>1. PICK i \in 1..Len(s) : s[i].id = g[1]
    BY DEF Keeps, Has
  <2>2. CASE i = k
    BY <1>1, <1>2, <2>1, <2>2 DEF Has
  <2>3. CASE i # k
    BY <1>2, <2>1, <2>3 DEF Has
  <2> QED BY <2>2, <2>3
<1>4. \A r \in R : r[1] # id => Closed(z, r)
  <2> SUFFICES ASSUME NEW r \in R, r[1] # id PROVE Closed(z, r)
    OBVIOUS
  <2>1. PICK i \in 1..Len(s) : s[i].id = r[1] /\ s[i].closed
                              /\ (r[2] = 0 \/ s[i].act = r[2])
    BY DEF Keeps, Closed
  <2>2. i # k
    BY <1>1, <2>1
  <2> QED BY <1>2, <2>1, <2>2 DEF Closed
<1>5. CASE c = 0 /\ \E r \in R : r[1] = id
  <2>1. After(R, id, c) = R
    BY <1>5 DEF After
  <2>2. ASSUME NEW r \in R, r[1] = id PROVE Closed(z, r)
    <3>1. PICK i \in 1..Len(s) : s[i].id = id /\ s[i].closed
                                /\ (r[2] = 0 \/ s[i].act = r[2])
      BY <2>2 DEF Keeps, Closed
    <3>2. k \in 1..Len(s) /\ s[k].id = id
      BY <1>1, <3>1 DEF Has
    <3>3. i = k
      BY <3>1, <3>2 DEF UniqueIds
    <3>4. e.act = s[k].act
      BY <1>1, <1>5, <3>2
    <3> QED BY <1>1, <1>2, <2>2, <3>1, <3>3, <3>4 DEF Closed
  <2> QED BY <1>3, <1>4, <2>1, <2>2 DEF Keeps, z
<1>6. CASE ~(c = 0 /\ \E r \in R : r[1] = id)
  <2>1. After(R, id, c) = {r \in R : r[1] # id} \cup {<<id, c>>}
    BY <1>6 DEF After
  <2>2. c = 0 \/ e.act = c
    BY <1>1
  <2>3. Closed(z, <<id, c>>)
    BY <1>1, <1>2, <2>2 DEF Closed
  <2> QED BY <1>3, <1>4, <2>1, <2>3 DEF Keeps, z
<1> QED BY <1>5, <1>6

-----------------------------------------------------------------------------
(* One request at a time.  What a request has in memory when it opens the  *)
(* file is the ledger and its own entry, since nobody wrote in between; a  *)
(* second thread, or a restart inside the write, takes that away.          *)

OneThread == \E w : Workers = {w}

\* The ids a request is going to write an estimate for.
Owed(v) == IF v.kind = "estimate" THEN {v.id} ELSE {}

\* Grants and reports are on file, or in the image that is about to be.
Recorded(v) ==
  /\ v.step = "flush" => file = Empty
  /\ v.step = "check" => v.kind = "estimate"
  /\ v.step \in {"idle", "check"} => Keeps(Parsed, granted, reported)
  /\ v.step = "load" =>
       /\ \A r \in reported : r[1] \notin Owed(v)
       /\ Keeps(Parsed, {g \in granted : g[1] \notin Owed(v)}, reported)
  /\ v.step \in {"open", "flush"} => Keeps(v.image, granted, reported)

Within(s) == \A t \in Tenants, m \in 0..MaxMonth : Spent(s, t, m, "est") <= Limit[t]

\* What has been granted can still be afforded when the ledger is loaded again.
Affordable(v) ==
  /\ v.step = "load" /\ v.kind = "estimate" =>
       Spent(Parsed, v.id[1], v.month, "est") + v.cost <= Limit[v.id[1]]
  /\ v.step \in {"open", "flush"} => Within(v.image)

AloneInv ==
  /\ IInv
  /\ Within(Parsed)
  /\ \A w \in Workers : Affordable(worker[w]) /\ (crashes = 0 => Recorded(worker[w]))

LEMMA EmptyWithin == Within(<<>>)
<1> SUFFICES ASSUME NEW t \in Tenants, NEW m \in 0..MaxMonth
             PROVE  Spent(<<>>, t, m, "est") <= Limit[t]
  BY DEF Within
<1>1. <<>> \in Seq(Entry)
  OBVIOUS
<1>2. Estimated(<<>>, t, m) = {}
  BY DEF Estimated
<1>3. Spent(<<>>, t, m, "est") = 0
  BY <1>1, <1>2, SpentIsCells, FS_EmptySet
<1>4. Limit[t] \in Nat
  BY BudgetAssumption DEF BudgetAssumption
<1> QED BY <1>3, <1>4

LEMMA AloneInitially == ASSUME Init PROVE AloneInv
<1>1. IInv
  BY Initially
<1>2. Parsed = <<>>
  BY DEF Init, Parsed
<1>3. Keeps(Parsed, granted, reported)
  BY DEF Init, Keeps
<1>4. \A w \in Workers : worker[w] = Idle
  BY DEF Init
<1> QED BY <1>1, <1>2, <1>3, <1>4, IdleWorker, EmptyWithin
        DEF AloneInv, Affordable, Recorded

LEMMA AloneReceive ==
  ASSUME AloneInv, NEW w, Workers = {w}, ReceiveApply(w) \/ ReceiveEnd(w)
  PROVE  AloneInv'
<1>1. PICK step \in {"check", "load"}, kind \in {"estimate", "actual"},
           id \in Ids, cost \in Costs \cup {0} :
        /\ Receive(w, step, kind, id, cost)
        /\ step = "load" <=> kind = "actual"
  BY DEF ReceiveApply, ReceiveEnd
<1> DEFINE v == [step |-> step, kind |-> kind, id |-> id, month |-> month,
                 cost |-> cost, image |-> <<>>]
<1>2. v.step = step /\ v.kind = kind
  OBVIOUS
<1>3. /\ worker[w].step = "idle"
      /\ worker' = [worker EXCEPT ![w] = v]
      /\ UNCHANGED <<file, month, granted, reported, crashes>>
  BY <1>1 DEF Receive
<1> HIDE DEF v
<1>4. IInv' /\ w \in Workers
  BY ReceiveKeeps DEF AloneInv
<1>5. worker'[w] = v
  BY <1>3, <1>4 DEF AloneInv, IInv, TypeOK
<1>6. Parsed' = Parsed /\ Within(Parsed)'
  BY <1>3 DEF AloneInv, Parsed, Within
<1>7. Affordable(worker[w])'
  BY <1>1, <1>2, <1>5 DEF Affordable
<1>8. ASSUME crashes' = 0 PROVE Recorded(worker[w])'
  <2>1. Keeps(Parsed, granted, reported)
    BY <1>3, <1>4, <1>8 DEF AloneInv, Recorded
  <2>2. CASE step = "check"
    BY <1>1, <1>2, <1>3, <1>5, <1>6, <2>1, <2>2 DEF Recorded
  <2>3. CASE step = "load"
    <3>1. Owed(v) = {}
      BY <1>1, <1>2, <2>3 DEF Owed
    <3>2. Keeps(Parsed, {g \in granted : g[1] \notin {}}, reported)
      BY <2>1 DEF Keeps
    <3> QED BY <1>2, <1>3, <1>5, <1>6, <2>3, <3>1, <3>2 DEF Recorded
  <2> QED BY <2>2, <2>3
<1> QED BY <1>4, <1>6, <1>7, <1>8 DEF AloneInv

LEMMA AloneDecide ==
  ASSUME AloneInv, NEW w, Workers = {w}, Refuse(w) \/ Grant(w)
  PROVE  AloneInv'
<1>1. IInv' /\ w \in Workers /\ worker \in [Workers -> Worker]
  BY DecideKeeps DEF AloneInv, IInv, TypeOK
<1>2. /\ worker[w].step = "check" /\ UNCHANGED <<file, crashes>>
  BY DEF Refuse, Grant
<1>3. Parsed' = Parsed /\ Within(Parsed)'
  BY <1>2 DEF AloneInv, Parsed, Within
<1>4. crashes = 0 => /\ worker[w].kind = "estimate"
                     /\ Keeps(Parsed, granted, reported)
  BY <1>1, <1>2 DEF AloneInv, Recorded
<1>5. CASE Refuse(w)
  <2>1. worker'[w] = Idle /\ UNCHANGED <<granted, reported>>
    BY <1>1, <1>5 DEF Refuse
  <2>2. Affordable(worker[w])' /\ (crashes' = 0 => Recorded(worker[w])')
    BY <1>2, <1>3, <1>4, <2>1, IdleWorker DEF Affordable, Recorded
  <2> QED BY <1>1, <1>3, <2>2 DEF AloneInv
<1>6. CASE Grant(w)
  <2> DEFINE v == [worker[w] EXCEPT !.step = "load"]
             id == worker[w].id
  <2>1. /\ worker'[w] = v
        /\ granted' = granted \cup {<<id, worker[w].month, worker[w].cost>>}
        /\ reported' = {r \in reported : r[1] # id}
    BY <1>1, <1>6 DEF Grant
  <2>2. /\ v.step = "load" /\ v.kind = worker[w].kind /\ v.id = id
        /\ v.month = worker[w].month /\ v.cost = worker[w].cost
        /\ id \in Ids /\ v.month \in Nat /\ v.cost \in Nat
    BY <1>1 DEF Worker
  <2> HIDE DEF v, id
  <2>3. ASSUME v.kind = "estimate"
        PROVE  Spent(Parsed, id[1], v.month, "est") + v.cost <= Limit[id[1]]
    <3>1. ~OverBudget(id[1], v.month, v.cost)
      BY <1>6, <2>2 DEF Grant, id
    <3>2. Spent(Parsed, id[1], v.month, "est") \in Nat
      BY SpentIsCells DEF AloneInv, IInv, Sound
    <3>3. Limit[id[1]] \in Nat
      BY <2>2, BudgetAssumption DEF BudgetAssumption, Ids
    <3> QED BY <2>2, <3>1, <3>2, <3>3 DEF OverBudget
  <2>4. Affordable(worker[w])'
    BY <1>3, <2>1, <2>2, <2>3 DEF Affordable
  <2>5. ASSUME crashes' = 0 PROVE Recorded(worker[w])'
    <3>1. Keeps(Parsed, granted, reported) /\ Owed(v) = {id}
      BY <1>2, <1>4, <2>2, <2>5 DEF Owed
    <3>2. \A r \in reported' : r[1] \notin Owed(v)
      BY <2>1, <3>1
    <3>3. Keeps(Parsed, {g \in granted' : g[1] \notin Owed(v)}, reported')
      BY <2>1, <3>1 DEF Keeps
    <3> QED BY <1>3, <2>1, <2>2, <3>2, <3>3 DEF Recorded
  <2> QED BY <1>1, <1>3, <2>4, <2>5 DEF AloneInv
<1> QED BY <1>5, <1>6

LEMMA AloneLoad ==
  ASSUME AloneInv, NEW w, Workers = {w}, Load(w)
  PROVE  AloneInv'
<1> DEFINE v == worker[w]
           s == IF v.kind = "estimate"
                THEN UpsertEstimate(Parsed, v.id, v.month, v.cost)
                ELSE UpsertActual(Parsed, v.id, v.month, v.cost)
           z == [v EXCEPT !.image = s, !.step = "open"]
<1>1. IInv' /\ w \in Workers /\ worker \in [Workers -> Worker] /\ v.step = "load"
  BY LoadKeeps DEF AloneInv, IInv, TypeOK, Load
<1>2. v.id \in Ids /\ v.month \in Nat /\ v.cost \in Nat /\ v.kind \in {"estimate", "actual"}
  BY <1>1 DEF Worker
<1>3. Parsed \in Seq(Entry) /\ UniqueIds(Parsed) /\ Within(Parsed)
  BY DEF AloneInv, IInv, Sound
<1>4. /\ worker' = [worker EXCEPT ![w].image = s, ![w].step = "open"]
      /\ UNCHANGED <<file, month, granted, crashes>>
      /\ reported' = IF v.kind = "actual" THEN After(reported, v.id, v.cost)
                     ELSE reported
  BY DEF Load, Reported, After
<1>5. worker'[w] = z
  BY <1>1, <1>4
<1>6. z.step = "open" /\ z.image = s
  <2> HIDE DEF s
  <2> QED BY <1>1 DEF Worker
<1> HIDE DEF z
<1>7. Parsed' = Parsed /\ Within(Parsed)'
  BY <1>3, <1>4 DEF Parsed, Within
<1>8. Within(s)
  <2> SUFFICES ASSUME NEW t \in Tenants, NEW m \in 0..MaxMonth
               PROVE  Spent(s, t, m, "est") <= Limit[t]
    BY DEF Within
  <2>1. Spent(Parsed, t, m, "est") <= Limit[t] /\ Limit[t] \in Nat
    BY <1>3, BudgetAssumption DEF Within, BudgetAssumption
  <2>2. s \in Seq(Entry)
    BY <1>1, <1>5, <1>6 DEF IInv, TypeOK, Worker
  <2>3. Spent(s, t, m, "est") \in Nat /\ Spent(Parsed, t, m, "est") \in Nat
    BY <1>3, <2>2, SpentIsCells
  <2>4. CASE v.kind = "actual"
    <3>1. Spent(s, t, m, "est") <= Spent(Parsed, t, m, "est")
      BY <1>2, <1>3, <2>4, ActualSpends
    <3> QED BY <2>1, <2>3, <3>1
  <2>5. CASE v.kind = "estimate"
    <3> DEFINE more == IF v.id[1] = t /\ v.month = m THEN v.cost ELSE 0
    <3>1. s = UpsertEstimate(Parsed, v.id, v.month, v.cost)
      BY <2>5
    <3> HIDE DEF s
    <3>2. \E k, e : /\ Puts(s, Parsed, k, e)
                    /\ e.id = v.id /\ e.month = v.month /\ e.est = v.cost
                    /\ k \in 1..Len(Parsed) => Parsed[k].id = v.id
      BY <1>2, <1>3, <3>1, EstimatePuts
    <3>3. PICK k, e : /\ Puts(s, Parsed, k, e)
                      /\ e.id = v.id /\ e.month = v.month /\ e.est = v.cost
      BY <3>2, Zenon
    <3>4. Spent(s, t, m, "est") <= Spent(Parsed, t, m, "est") + more
      BY <1>3, <3>3, PutSpends
    <3>5. Spent(Parsed, v.id[1], v.month, "est") + v.cost <= Limit[v.id[1]]
      BY <1>1, <2>5 DEF AloneInv, Affordable
    <3> QED BY <1>2, <2>1, <2>3, <3>4, <3>5
  <2> QED BY <1>2, <2>4, <2>5
<1>9. ASSUME crashes' = 0 PROVE Keeps(s, granted, reported')
  <2>1. Recorded(v) /\ crashes = 0
    BY <1>1, <1>4, <1>9 DEF AloneInv
  <2>2. /\ \A r \in reported : r[1] \notin Owed(v)
        /\ Keeps(Parsed, {g \in granted : g[1] \notin Owed(v)}, reported)
    BY <1>1, <2>1 DEF Recorded
  <2>3. CASE v.kind = "estimate"
    <3>1. Keeps(Parsed, {g \in granted : g[1] # v.id}, reported)
          /\ \A r \in reported : r[1] # v.id
      BY <2>2, <2>3 DEF Owed, Keeps
    <3>2. Keeps(UpsertEstimate(Parsed, v.id, v.month, v.cost), granted, reported)
      BY <1>2, <1>3, <3>1, EstimateKeeps
    <3> QED BY <1>4, <2>3, <3>2
  <2>4. CASE v.kind = "actual"
    <3>1. Keeps(Parsed, granted, reported)
      BY <2>2, <2>4 DEF Owed, Keeps
    <3>2. Keeps(UpsertActual(Parsed, v.id, v.month, v.cost), granted,
                After(reported, v.id, v.cost))
      BY <1>2, <1>3, <3>1, ActualKeeps
    <3> QED BY <1>4, <2>4, <3>2
  <2> QED BY <1>2, <2>3, <2>4
<1> HIDE DEF s
<1>10. Affordable(worker[w])'
  BY <1>5, <1>6, <1>8 DEF Affordable, Within
<1>11. crashes' = 0 => Recorded(worker[w])'
  BY <1>4, <1>5, <1>6, <1>9 DEF Recorded
<1> QED BY <1>1, <1>7, <1>10, <1>11 DEF AloneInv

LEMMA AloneWrite ==
  ASSUME AloneInv, NEW w, Workers = {w}, Truncate(w) \/ Flush(w)
  PROVE  AloneInv'
<1>1. IInv' /\ w \in Workers /\ worker \in [Workers -> Worker]
  BY WriteKeeps DEF AloneInv, IInv, TypeOK
<1>2. UNCHANGED <<granted, reported, crashes>> /\ worker[w].step \in {"open", "flush"}
  BY DEF Truncate, Flush
<1>3. /\ Within(worker[w].image)
      /\ crashes = 0 => /\ worker[w].step = "flush" => file = Empty
                        /\ Keeps(worker[w].image, granted, reported)
  BY <1>1, <1>2 DEF AloneInv, Affordable, Recorded
<1>4. CASE Truncate(w)
  <2>1. /\ worker'[w] = [worker[w] EXCEPT !.step = "flush"] /\ file' = Empty
    BY <1>1, <1>4 DEF Truncate
  <2>2. worker'[w].step = "flush" /\ worker'[w].image = worker[w].image
    BY <1>1, <2>1 DEF Worker
  <2>3. Parsed' = <<>> /\ Within(Parsed)'
    BY <2>1, EmptyWithin DEF Parsed, Within
  <2>4. Affordable(worker[w])' /\ (crashes' = 0 => Recorded(worker[w])')
    BY <1>2, <1>3, <2>1, <2>2 DEF Affordable, Recorded, Within
  <2> QED BY <1>1, <2>3, <2>4 DEF AloneInv
<1>5. CASE Flush(w)
  <2>1. /\ worker'[w] = Idle
        /\ file' \in {worker[w].image} \cup (IF file = Empty THEN {} ELSE {Garbled})
        /\ worker[w].step = "flush"
    BY <1>1, <1>5 DEF Flush
  <2>2. worker[w].image \in Seq(Entry)
    BY <1>1 DEF Worker
  <2>3. worker[w].image \notin {Absent, Empty, Garbled}
    BY <2>2, BudgetAssumption DEF BudgetAssumption
  <2>4. /\ file' = worker[w].image => Parsed' = worker[w].image
        /\ file' = Garbled => Parsed' = <<>>
    BY <2>3 DEF Parsed
  <2>5. Within(Parsed)'
    <3>1. CASE file' = worker[w].image
      BY <1>3, <2>4, <3>1 DEF Within
    <3>2. CASE file' = Garbled
      BY <2>4, <3>2, EmptyWithin DEF Within
    <3> QED BY <2>1, <3>1, <3>2
  <2>6. ASSUME crashes' = 0 PROVE Keeps(Parsed', granted', reported')
    <3>1. file' = worker[w].image
      BY <1>2, <1>3, <2>1, <2>6
    <3> QED BY <1>2, <1>3, <2>4, <2>6, <3>1
  <2>7. Affordable(worker[w])' /\ (crashes' = 0 => Recorded(worker[w])')
    BY <2>1, <2>6, IdleWorker DEF Affordable, Recorded
  <2> QED BY <1>1, <2>5, <2>7 DEF AloneInv
<1> QED BY <1>4, <1>5

LEMMA AloneEnvironment ==
  ASSUME AloneInv, NextMonth \/ Crash \/ UNCHANGED vars
  PROVE  AloneInv'
<1>1. IInv'
  BY EnvironmentKeeps DEF AloneInv
<1>2. Parsed' = Parsed /\ Within(Parsed)'
  BY DEF AloneInv, NextMonth, Crash, vars, Parsed, Within
<1>3. CASE NextMonth \/ UNCHANGED vars
  <2>1. UNCHANGED <<file, worker, granted, reported, crashes>>
    BY <1>3 DEF NextMonth, vars
  <2>2. \A w \in Workers : Affordable(worker[w])'
    BY <1>2, <2>1 DEF AloneInv, Affordable, Within
  <2>3. \A w \in Workers : crashes' = 0 => Recorded(worker[w])'
    BY <1>2, <2>1 DEF AloneInv, Recorded
  <2> QED BY <1>1, <1>2, <2>2, <2>3 DEF AloneInv
<1>4. CASE Crash
  <2>1. crashes' # 0 /\ \A w \in Workers : worker'[w] = Idle
    BY <1>4 DEF Crash, AloneInv, IInv, TypeOK
  <2>2. \A w \in Workers : Affordable(worker[w])'
    BY <2>1, IdleWorker DEF Affordable
  <2> QED BY <1>1, <1>2, <2>1, <2>2 DEF AloneInv
<1> QED BY <1>3, <1>4

LEMMA AloneInvariance ==
  ASSUME OneThread PROVE Spec => []AloneInv
<1>1. PICK w : Workers = {w}
  BY DEF OneThread
<1>2. AloneInv /\ [Next]_vars => AloneInv'
  BY <1>1, AloneReceive, AloneDecide, AloneLoad, AloneWrite, AloneEnvironment
     DEF Next, Quiet
<1> QED BY <1>2, AloneInitially, PTL DEF Spec

\* With one request at a time the ledger never shows a tenant to have spent more
\* than its monthly budget, whatever restarts lose (evaluate_execution_policy,
\* spent_usd).
THEOREM BudgetIsKept ==
  ASSUME OneThread PROVE Spec => []WithinBudget
<1>1. AloneInv => WithinBudget
  BY DEF AloneInv, Within, WithinBudget
<1> QED BY <1>1, AloneInvariance, PTL

\* With one request at a time and no restart, each estimate that was granted is
\* in the ledger once the request is over (upsert_estimate).
THEOREM GrantsAreKept ==
  ASSUME OneThread PROVE Spec => []GrantsKept
<1>1. AloneInv => GrantsKept
  <2> SUFFICES ASSUME AloneInv, AtRest, crashes = 0, NEW g \in granted
               PROVE  Has(Parsed, g[1])
    BY DEF GrantsKept
  <2>1. PICK w : Workers = {w}
    BY DEF OneThread
  <2>2. Keeps(Parsed, granted, reported)
    BY <2>1 DEF AloneInv, Recorded, AtRest
  <2> QED BY <2>2 DEF Keeps
<1> QED BY <1>1, AloneInvariance, PTL

\* Under the same conditions the cost last reported of a job stays in the
\* ledger until it is applied again (upsert_actual).
THEOREM ActualsAreKept ==
  ASSUME OneThread PROVE Spec => []ActualsKept
<1>1. AloneInv => ActualsKept
  <2> SUFFICES ASSUME AloneInv, AtRest, crashes = 0, NEW r \in reported
               PROVE  Closed(Parsed, r)
    BY DEF ActualsKept, Closed
  <2>1. PICK w : Workers = {w}
    BY DEF OneThread
  <2>2. Keeps(Parsed, granted, reported)
    BY <2>1 DEF AloneInv, Recorded, AtRest
  <2> QED BY <2>2 DEF Keeps
<1> QED BY <1>1, AloneInvariance, PTL

=============================================================================
