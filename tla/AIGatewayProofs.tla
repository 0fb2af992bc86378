--------------------------- MODULE AIGatewayProofs ---------------------------
(***************************************************************************)
(* Proofs about AIGateway, for any threads, limit, ceiling and costs: the  *)
(* types, how far the ledger can exceed the limit, that no triage that was *)
(* answered is forgotten, and that every call is billed or failed.         *)
(*                                                                         *)
(* The bound on the ledger is not inductive: a call that has passed the    *)
(* gate will be booked later.  The invariant counts two calls for each     *)
(* request under way, which is what the request costs at most, and leaves  *)
(* the rest of the bound to the threads that have yet to pass (Headroom).  *)
(* It is about what was billed; what the file shows is the same while one  *)
(* thread at most rewrites it (Shown), and never more (Honest).            *)
(***************************************************************************)
EXTENDS AIGateway, FiniteSetTheorems, TLAPS

\* The highest cost of a request: a call and its repetition.
Twice == 2 * MaxCost

\* A job asks the model nothing, and triages nothing.
Bookkeeping(x) == x.job => ~x.triage /\ x.step \in {"record", "truncate", "flush"}

\* Before the repetition one call has been paid; a request under way is numbered.
Modest ==
  \A w \in Workers :
    /\ worker[w].step = "retry" => worker[w].cost <= MaxCost
    /\ worker[w].step # "idle" => worker[w].id # 0
    /\ Bookkeeping(worker[w])

\* A request of the model that has passed the gate.
Counts(x) == ~x.job /\ x.step \in {"call", "retry", "record", "truncate", "flush"}

\* What is billed and what is under way, against the limit.
Headroom ==
  \/ billed = booked /\ Calling = {}
  \/ billed + Ceiling + Twice * Cardinality(Calling)
       <= Limit + Twice * Cardinality(Workers) + booked

\* One thread at most rewrites the file, which has all that was billed unless that
\* thread has emptied it.
Writes(w) == worker[w].step \in {"truncate", "flush"}
Shown ==
  /\ \A v, w \in Workers : Writes(v) /\ Writes(w) => v = w
  /\ \A w \in Workers : Writes(w) => worker[w].image = billed + worker[w].cost
  /\ ledger = IF \E w \in Workers : At(w, "flush") THEN Empty ELSE billed

Bound == TypeOK /\ Modest /\ (spoiled \/ (Headroom /\ Shown))

\* The thread of w goes on with x.
Goes(w, x) ==
  /\ x \in Requests
  /\ x.step = "retry" => x.cost <= MaxCost
  /\ x.step # "idle" => x.id # 0
  /\ Bookkeeping(x)
  /\ worker' = [worker EXCEPT ![w] = x]

-----------------------------------------------------------------------------
(* Arithmetic and the set of requests under way. *)

\* Multiplication is monotone.
LEMMA TimesMonotone ==
  ASSUME NEW m \in Nat, NEW i \in Nat, NEW j \in Nat, i <= j
  PROVE  m * i \in Nat /\ m * j \in Nat /\ m * i <= m * j
<1>1. PICK d \in Nat : j = i + d
  BY j - i \in Nat
<1>2. m * j = m * i + m * d /\ m * i \in Nat /\ m * d \in Nat
  BY <1>1
<1> QED BY <1>2

\* No more requests are under way than there are threads.
LEMMA CallingBounded ==
  ASSUME AIGatewayAssumption
  PROVE  /\ IsFiniteSet(Calling)
         /\ Cardinality(Calling) \in Nat /\ Cardinality(Workers) \in Nat
         /\ Cardinality(Calling) <= Cardinality(Workers)
<1>1. Calling \subseteq Workers /\ IsFiniteSet(Workers)
  BY DEF Calling, AIGatewayAssumption
<1> QED BY <1>1, FS_Subset, FS_CardinalityType

\* One thread's step adds that thread to the requests under way or takes it out.
LEMMA CallingStep ==
  ASSUME TypeOK, NEW w \in Workers, NEW x, Goes(w, x)
  PROVE  Calling' = IF Counts(x) THEN Calling \cup {w} ELSE Calling \ {w}
BY DEF TypeOK, Goes, Calling, Counts

\* An idle thread's record, and how a record's changes read.
LEMMA IdleTyped ==
  ASSUME AIGatewayAssumption
  PROVE  /\ Idle \in Requests /\ Idle.step = "idle" /\ Idle.id = 0 /\ Idle.cost = 0
         /\ Idle.job = FALSE /\ Idle.triage = FALSE
<1>1. 0 \in 0..MaxRequests /\ 0 \in 0..(2 * MaxCost)
  BY DEF AIGatewayAssumption
<1> QED BY <1>1 DEF Idle, Requests

Steps == {"idle", "gate", "call", "retry", "record", "truncate", "flush", "remember"}

LEMMA Moved ==
  ASSUME NEW y \in Requests, NEW s \in Steps
  PROVE  LET x == [y EXCEPT !.step = s] IN
         /\ x \in Requests /\ x.step = s /\ x.id = y.id /\ x.cost = y.cost
         /\ x.job = y.job /\ x.triage = y.triage /\ x.image = y.image
BY DEF Requests, Steps

Charge(y, s, c) == [y EXCEPT !.step = s, !.cost = c]

LEMMA Charged ==
  ASSUME NEW y \in Requests, NEW s \in Steps, NEW c \in 0..(2 * MaxCost)
  PROVE  LET x == Charge(y, s, c) IN
         /\ x \in Requests /\ x.step = s /\ x.id = y.id /\ x.cost = c
         /\ x.job = y.job /\ x.triage = y.triage
BY DEF Charge, Requests, Steps

Carry(y, s, i) == [y EXCEPT !.step = s, !.image = i]

LEMMA Carried ==
  ASSUME NEW y \in Requests, NEW s \in Steps, NEW i \in Nat
  PROVE  LET x == Carry(y, s, i) IN
         /\ x \in Requests /\ x.step = s /\ x.id = y.id /\ x.cost = y.cost
         /\ x.job = y.job /\ x.triage = y.triage /\ x.image = i
BY DEF Carry, Requests, Steps

Asking(y, t, j, n) == [y EXCEPT !.step = "gate", !.triage = t, !.json = j, !.id = n]

LEMMA Asked ==
  ASSUME NEW y \in Requests, NEW t \in BOOLEAN, NEW j \in BOOLEAN, NEW n \in 0..MaxRequests
  PROVE  LET x == Asking(y, t, j, n) IN
         /\ x \in Requests /\ x.step = "gate" /\ x.id = n /\ x.cost = y.cost
         /\ x.job = y.job /\ x.triage = t
BY DEF Asking, Requests

Booking(y, n, c) == [y EXCEPT !.step = "record", !.job = TRUE, !.id = n, !.cost = c]

LEMMA Booked ==
  ASSUME NEW y \in Requests, NEW n \in 0..MaxRequests, NEW c \in 0..(2 * MaxCost)
  PROVE  LET x == Booking(y, n, c) IN
         /\ x \in Requests /\ x.step = "record" /\ x.id = n /\ x.cost = c
         /\ x.job /\ x.triage = y.triage
BY DEF Booking, Requests

\* A request comes.
LEMMA AskEnters ==
  ASSUME AIGatewayAssumption, TypeOK, NEW w \in Workers, NEW triage \in BOOLEAN,
         NEW json \in BOOLEAN, Ask(w, triage, json)
  PROVE  \E x \in Requests :
           /\ Enter(w, x) /\ x.step = "gate" /\ x.id = requests + 1 /\ x.id \in 1..MaxRequests
           /\ x.triage = triage /\ x.job = FALSE /\ x.cost = 0
<1> DEFINE x == Asking(Idle, triage, json, requests + 1)
<1>1. Enter(w, x) /\ requests < MaxRequests
  BY DEF Ask, Asking, Enter
<1>2. requests + 1 \in 1..MaxRequests /\ requests + 1 \in 0..MaxRequests
  BY <1>1 DEF TypeOK, AIGatewayAssumption
<1>3. Idle \in Requests /\ Idle.cost = 0 /\ Idle.job = FALSE
  BY IdleTyped
<1>4. /\ x \in Requests /\ x.step = "gate" /\ x.id = requests + 1 /\ x.cost = 0
      /\ x.job = FALSE /\ x.triage = triage
  BY <1>2, <1>3, Asked
<1> HIDE DEF x
<1> QED BY <1>1, <1>2, <1>4

LEMMA BookEnters ==
  ASSUME AIGatewayAssumption, TypeOK, NEW w \in Workers, NEW cost \in Costs, Book(w, cost)
  PROVE  \E x \in Requests :
           /\ Enter(w, x) /\ x.step = "record" /\ x.id = requests + 1
           /\ x.id \in 1..MaxRequests /\ x.triage = FALSE /\ x.job
<1> DEFINE x == Booking(Idle, requests + 1, cost)
<1>1. Enter(w, x) /\ requests < MaxRequests
  BY DEF Book, Booking, Enter
<1>2. requests + 1 \in 1..MaxRequests /\ requests + 1 \in 0..MaxRequests
  BY <1>1 DEF TypeOK, AIGatewayAssumption
<1>3. Idle \in Requests /\ Idle.triage = FALSE
  BY IdleTyped
<1>4. cost \in 0..(2 * MaxCost)
  BY DEF AIGatewayAssumption
<1>5. /\ x \in Requests /\ x.step = "record" /\ x.id = requests + 1 /\ x.job
      /\ x.triage = FALSE
  BY <1>2, <1>3, <1>4, Booked
<1> HIDE DEF x
<1> QED BY <1>1, <1>2, <1>5

\* x is the same request as y.
Same(x, y) == x.id = y.id /\ x.job = y.job /\ x.triage = y.triage

\* The model is called.
LEMMA CallPays ==
  ASSUME AIGatewayAssumption, TypeOK, NEW w \in Workers, NEW cost \in Costs, Call(w, cost)
  PROVE  \E x \in Requests :
           /\ worker' = [worker EXCEPT ![w] = x] /\ x.step \in {"record", "retry"}
           /\ Same(x, worker[w]) /\ x.cost = cost /\ cost \in 0..MaxCost
<1>1. PICK next \in {"record", "retry"} :
        worker' = [worker EXCEPT ![w] = Charge(worker[w], next, cost)]
  BY DEF Call, Charge
<1> DEFINE x == Charge(worker[w], next, cost)
<1>2. worker[w] \in Requests /\ next \in Steps
  BY DEF TypeOK, Steps
<1>3. cost \in 0..MaxCost /\ cost \in 0..(2 * MaxCost)
  BY DEF AIGatewayAssumption
<1>4. x \in Requests /\ x.step = next /\ x.cost = cost /\ Same(x, worker[w])
  BY <1>2, <1>3, Charged DEF Same
<1> HIDE DEF x
<1>5. worker' = [worker EXCEPT ![w] = x]
  BY <1>1 DEF x
<1> QED BY <1>3, <1>4, <1>5

\* It is called again.
LEMMA RetryPays ==
  ASSUME AIGatewayAssumption, TypeOK, Modest, NEW w \in Workers, NEW cost \in Costs,
         Retry(w, cost)
  PROVE  /\ cost \in 0..MaxCost /\ worker[w].cost \in 0..MaxCost
         /\ \/ Done(w) /\ unbilled' = unbilled + worker[w].cost + cost
            \/ /\ UNCHANGED unbilled
               /\ \E x \in Requests :
                    /\ worker' = [worker EXCEPT ![w] = x] /\ x.step = "record"
                    /\ Same(x, worker[w]) /\ x.cost = worker[w].cost + cost
<1> DEFINE x == Charge(worker[w], "record", worker[w].cost + cost)
<1>1. worker[w] \in Requests /\ "record" \in Steps
  BY DEF TypeOK, Steps
<1>2. worker[w].cost \in 0..(2 * MaxCost) /\ worker[w].cost <= MaxCost
  BY <1>1 DEF Requests, Modest, Retry, At
<1>3. /\ cost \in 0..MaxCost /\ worker[w].cost \in 0..MaxCost
      /\ worker[w].cost + cost \in 0..(2 * MaxCost)
  <2>1. MaxCost \in Nat /\ cost \in 0..MaxCost
    BY DEF AIGatewayAssumption
  <2> HIDE DEF x
  <2> DEFINE c == worker[w].cost
  <2>2. c \in 0..(2 * MaxCost) /\ c <= MaxCost
    BY <1>2
  <2> HIDE DEF c
  <2>3. c \in 0..MaxCost /\ c + cost \in 0..(2 * MaxCost)
    BY <2>1, <2>2
  <2> QED BY <2>1, <2>3 DEF c
<1>4. x \in Requests /\ x.step = "record" /\ x.cost = worker[w].cost + cost /\ Same(x, worker[w])
  BY <1>1, <1>3, Charged DEF Same
<1>5. \/ Done(w) /\ unbilled' = unbilled + worker[w].cost + cost
      \/ UNCHANGED unbilled /\ worker' = [worker EXCEPT ![w] = x]
  BY DEF Retry, Charge
<1> HIDE DEF x
<1> QED BY <1>3, <1>4, <1>5

\* The ledger is loaded, or truncated.
LEMMA LoadCarries ==
  ASSUME TypeOK, NEW w \in Workers, Load(w)
  PROVE  \E x \in Requests :
           /\ worker' = [worker EXCEPT ![w] = x] /\ x.step = "truncate"
           /\ Same(x, worker[w]) /\ x.cost = worker[w].cost /\ x.cost \in Nat
           /\ x.image = Parsed + worker[w].cost
<1> DEFINE x == Carry(worker[w], "truncate", Parsed + worker[w].cost)
<1>1. worker' = [worker EXCEPT ![w] = x]
  BY DEF Load, Carry
<1>2. worker[w] \in Requests /\ "truncate" \in Steps
  BY DEF TypeOK, Steps
<1>3. Parsed \in Nat
  BY DEF Parsed, TypeOK
<1>4. worker[w].cost \in Nat
  BY <1>2 DEF Requests
<1>5. Parsed + worker[w].cost \in Nat
  BY <1>3, <1>4
<1>6. /\ x \in Requests /\ x.step = "truncate" /\ x.cost = worker[w].cost
      /\ x.image = Parsed + worker[w].cost /\ Same(x, worker[w])
  BY <1>2, <1>5, Carried DEF Same
<1> HIDE DEF x
<1> QED BY <1>1, <1>4, <1>6

LEMMA TruncateCarries ==
  ASSUME TypeOK, NEW w \in Workers, Truncate(w)
  PROVE  \E x \in Requests :
           /\ worker' = [worker EXCEPT ![w] = x] /\ x.step = "flush"
           /\ Same(x, worker[w]) /\ x.cost = worker[w].cost /\ x.image = worker[w].image
<1> DEFINE x == [worker[w] EXCEPT !.step = "flush"]
<1>1. worker' = [worker EXCEPT ![w] = x]
  BY DEF Truncate, GoTo
<1>2. worker[w] \in Requests /\ "flush" \in Steps
  BY DEF TypeOK, Steps
<1>3. /\ x \in Requests /\ x.step = "flush" /\ x.cost = worker[w].cost
      /\ x.image = worker[w].image /\ Same(x, worker[w])
  BY <1>2, Moved DEF Same
<1> HIDE DEF x
<1> QED BY <1>1, <1>3

\* The gateway's end leaves a thread with a triage to remember, or with nothing.
LEMMA DoneGoes ==
  ASSUME TypeOK, Modest, AIGatewayAssumption, NEW w \in Workers, ~At(w, "idle"), Done(w)
  PROVE  \E x \in Requests : Goes(w, x) /\ x.step \in {"idle", "remember"} /\ ~Counts(x)
<1>1. /\ worker[w] \in Requests /\ worker[w].id # 0
      /\ worker[w].triage => ~worker[w].job
  BY DEF TypeOK, Modest, Bookkeeping, At
<1>2. CASE worker[w].triage
  <2> DEFINE x == [worker[w] EXCEPT !.step = "remember"]
  <2>1. x \in Requests /\ x.step = "remember" /\ x.id # 0 /\ ~x.job
    BY <1>1, <1>2, Moved DEF Steps
  <2>2. worker' = [worker EXCEPT ![w] = x]
    BY <1>2 DEF Done, GoTo, TypeOK
  <2> HIDE DEF x
  <2> QED BY <2>1, <2>2 DEF Goes, Counts, Bookkeeping
<1>3. CASE ~worker[w].triage
  <2>1. worker' = [worker EXCEPT ![w] = Idle]
    BY <1>3 DEF Done
  <2>2. Idle \in Requests /\ Idle.step = "idle" /\ Idle.job = FALSE
    BY IdleTyped
  <2> HIDE DEF Idle
  <2> QED BY <2>1, <2>2 DEF Goes, Counts, Bookkeeping
<1> QED BY <1>2, <1>3

-----------------------------------------------------------------------------
(* What each kind of step does to the headroom. *)

\* A request that leaves without being booked gives its room back.
LEMMA HeadroomLeaves ==
  ASSUME AIGatewayAssumption, TypeOK, Headroom, NEW w \in Workers, NEW x, Goes(w, x),
         ~Counts(x), UNCHANGED <<billed, booked>>
  PROVE  Headroom'
<1>1. Calling' = Calling \ {w}
  BY CallingStep
<1>2. IsFiniteSet(Calling) /\ Cardinality(Calling) \in Nat /\ Cardinality(Workers) \in Nat
  BY CallingBounded
<1>3. IsFiniteSet(Calling') /\ Cardinality(Calling') \in Nat
      /\ Cardinality(Calling') <= Cardinality(Calling)
  BY <1>1, <1>2, FS_Subset, FS_CardinalityType
<1>4. Twice \in Nat /\ billed \in Nat /\ booked \in Nat /\ Ceiling \in Nat /\ Limit \in Nat
  BY DEF Twice, TypeOK, AIGatewayAssumption
<1>5. /\ Twice * Cardinality(Calling') \in Nat /\ Twice * Cardinality(Calling) \in Nat
      /\ Twice * Cardinality(Calling') <= Twice * Cardinality(Calling)
      /\ Twice * Cardinality(Workers) \in Nat
  BY <1>2, <1>3, <1>4, TimesMonotone
<1>6. billed' = billed /\ booked' = booked /\ Twice' = Twice
  BY DEF Twice
<1>7. CASE billed = booked /\ Calling = {}
  BY <1>1, <1>6, <1>7 DEF Headroom
<1>8. CASE billed + Ceiling + Twice * Cardinality(Calling)
             <= Limit + Twice * Cardinality(Workers) + booked
  <2>1. billed + Ceiling + Twice * Cardinality(Calling')
          <= Limit + Twice * Cardinality(Workers) + booked
    BY <1>4, <1>5, <1>8
  <2> QED BY <2>1, <1>6 DEF Headroom
<1> QED BY <1>7, <1>8 DEF Headroom

\* A request that goes on from one call to the next keeps its room.
LEMMA HeadroomGoesOn ==
  ASSUME AIGatewayAssumption, TypeOK, Headroom, NEW w \in Calling, NEW x, Goes(w, x),
         Counts(x), UNCHANGED <<billed, booked>>
  PROVE  Headroom'
<1>1. w \in Workers
  BY DEF Calling
<1>2. Calling' = Calling
  BY <1>1, CallingStep
<1> QED BY <1>2 DEF Headroom, Twice

\* A request that passes the gate takes room that was there.
LEMMA HeadroomPasses ==
  ASSUME AIGatewayAssumption, TypeOK, NEW w \in Workers, NEW x, Goes(w, x),
         billed + Ceiling <= Limit, UNCHANGED <<billed, booked>>
  PROVE  Headroom'
<1>1. Calling' \subseteq Workers /\ IsFiniteSet(Workers)
  BY DEF Calling, AIGatewayAssumption
<1>2. /\ Cardinality(Calling') \in Nat /\ Cardinality(Workers) \in Nat
      /\ Cardinality(Calling') <= Cardinality(Workers)
  BY <1>1, FS_Subset, FS_CardinalityType
<1>3. Twice \in Nat /\ billed \in Nat /\ booked \in Nat /\ Ceiling \in Nat /\ Limit \in Nat
  BY DEF Twice, TypeOK, AIGatewayAssumption
<1>4. /\ Twice * Cardinality(Calling') \in Nat /\ Twice * Cardinality(Workers) \in Nat
      /\ Twice * Cardinality(Calling') <= Twice * Cardinality(Workers)
  BY <1>2, <1>3, TimesMonotone
<1>5. billed + Ceiling + Twice * Cardinality(Calling')
        <= Limit + Twice * Cardinality(Workers) + booked
  BY <1>3, <1>4
<1> QED BY <1>5 DEF Headroom, Twice

\* A request that is booked used the room it held.
LEMMA HeadroomBooks ==
  ASSUME AIGatewayAssumption, TypeOK, Headroom, NEW w \in Calling, NEW x, Goes(w, x),
         ~Counts(x),
         billed' = billed + worker[w].cost, UNCHANGED booked
  PROVE  Headroom'
<1>1. w \in Workers /\ Calling' = Calling \ {w}
  BY CallingStep DEF Calling
<1>2. IsFiniteSet(Calling) /\ Cardinality(Calling) \in Nat /\ Cardinality(Workers) \in Nat
  BY CallingBounded
<1>3. Cardinality(Calling') = Cardinality(Calling) - 1
  BY <1>1, <1>2, FS_RemoveElement
<1>4. /\ Twice \in Nat /\ billed \in Nat /\ booked \in Nat /\ Ceiling \in Nat /\ Limit \in Nat
      /\ worker[w].cost \in 0..Twice
  BY <1>1 DEF Twice, TypeOK, AIGatewayAssumption, Requests
<1>5. Cardinality(Calling') \in Nat
  BY <1>1, <1>2, FS_Subset, FS_CardinalityType
<1>6. Twice * Cardinality(Calling') = Twice * Cardinality(Calling) - Twice
  BY <1>2, <1>3, <1>4
<1>7. Twice * Cardinality(Calling) \in Nat /\ Twice * Cardinality(Workers) \in Nat
  BY <1>2, <1>4, TimesMonotone
<1>8. billed + Ceiling + Twice * Cardinality(Calling)
        <= Limit + Twice * Cardinality(Workers) + booked
  BY DEF Headroom
<1>9. billed + worker[w].cost + Ceiling + Twice * Cardinality(Calling')
        <= Limit + Twice * Cardinality(Workers) + booked
  BY <1>4, <1>6, <1>7, <1>8
<1> QED BY <1>9 DEF Headroom, Twice

\* A job that is booked moves the ledger and what jobs have cost alike.
LEMMA HeadroomJob ==
  ASSUME AIGatewayAssumption, TypeOK, Headroom, NEW w \in Workers \ Calling, NEW x,
         Goes(w, x), ~Counts(x), NEW cost \in Nat,
         billed' = billed + cost, booked' = booked + cost
  PROVE  Headroom'
<1>1. Calling' = Calling /\ Twice' = Twice
  BY CallingStep DEF Twice
<1>2. /\ Twice \in Nat /\ billed \in Nat /\ booked \in Nat /\ Ceiling \in Nat /\ Limit \in Nat
  BY DEF Twice, TypeOK, AIGatewayAssumption
<1>3. Twice * Cardinality(Calling) \in Nat /\ Twice * Cardinality(Workers) \in Nat
  BY <1>2, CallingBounded, TimesMonotone
<1>4. CASE billed = booked /\ Calling = {}
  BY <1>1, <1>2, <1>4 DEF Headroom
<1>5. CASE billed + Ceiling + Twice * Cardinality(Calling)
             <= Limit + Twice * Cardinality(Workers) + booked
  <2>1. billed + cost + Ceiling + Twice * Cardinality(Calling)
          <= Limit + Twice * Cardinality(Workers) + (booked + cost)
    BY <1>2, <1>3, <1>5
  <2> QED BY <1>1, <2>1 DEF Headroom
<1> QED BY <1>4, <1>5 DEF Headroom

-----------------------------------------------------------------------------
(* What the file shows. *)

\* A step that leaves the file alone, by a thread that is not about to fill it.
LEMMA ShownSame ==
  ASSUME TypeOK, Shown, NEW w \in Workers, NEW x, Goes(w, x), UNCHANGED <<ledger, billed>>,
         worker[w].step # "flush", x.step \notin {"truncate", "flush"}
  PROVE  Shown'
<1>1. \A v \in Workers : worker'[v] = IF v = w THEN x ELSE worker[v]
  BY DEF TypeOK, Goes
<1> QED BY <1>1 DEF Shown, Writes, At

\* Nobody else rewrites the file when it is loaded, so the sum is right.
LEMMA ShownLoad ==
  ASSUME TypeOK, Shown, NEW w \in Workers, Load(w), ~spoiled'
  PROVE  Shown'
<1>1. /\ \A v \in Workers \ {w} : worker[v].step \notin {"truncate", "flush"}
      /\ worker[w].step = "record" /\ UNCHANGED <<ledger, billed>>
  BY DEF Load, HalfWritten, At, TypeOK
<1>2. ledger = billed /\ billed \in Nat
  BY <1>1 DEF Shown, At, TypeOK
<1>3. Parsed = billed
  BY <1>2 DEF Parsed, Empty, Garbled
<1>4. PICK x \in Requests :
        /\ worker' = [worker EXCEPT ![w] = x] /\ x.step = "truncate"
        /\ x.cost = worker[w].cost /\ x.image = Parsed + worker[w].cost
  BY LoadCarries
<1>5. \A v \in Workers : worker'[v] = IF v = w THEN x ELSE worker[v]
  BY <1>4 DEF TypeOK
<1> QED BY <1>1, <1>2, <1>3, <1>4, <1>5 DEF Shown, Writes, At

LEMMA ShownTruncate ==
  ASSUME TypeOK, Shown, NEW w \in Workers, Truncate(w)
  PROVE  Shown'
<1>1. \A v \in Workers :
        worker'[v] = IF v = w THEN [worker[w] EXCEPT !.step = "flush"] ELSE worker[v]
  BY DEF Truncate, GoTo, TypeOK
<1>2. [worker[w] EXCEPT !.step = "flush"].step = "flush"
      /\ [worker[w] EXCEPT !.step = "flush"].image = worker[w].image
      /\ [worker[w] EXCEPT !.step = "flush"].cost = worker[w].cost
  BY DEF TypeOK, Requests
<1>3. ledger' = Empty /\ billed' = billed /\ Writes(w)
  BY DEF Truncate, At, Writes
<1>4. \A v \in Workers : Writes(v)' <=> Writes(v)
  BY <1>1, <1>2, <1>3 DEF Writes
<1>5. At(w, "flush")'
  BY <1>1, <1>2 DEF At
<1> HIDE DEF Writes
<1>6. \A v \in Workers : Writes(v)' => worker'[v].image = billed' + worker'[v].cost
  BY <1>1, <1>2, <1>3, <1>4 DEF Shown
<1>7. \A u, v \in Workers : Writes(u)' /\ Writes(v)' => u = v
  BY <1>4 DEF Shown
<1> QED BY <1>3, <1>5, <1>6, <1>7 DEF Shown

\* The file is empty when its only writer fills it.
LEMMA ShownFlush ==
  ASSUME TypeOK, Shown, NEW w \in Workers, Flush(w), NEW x, Goes(w, x),
         x.step \notin {"truncate", "flush"}
  PROVE  Shown'
<1>1. \A v \in Workers : worker'[v] = IF v = w THEN x ELSE worker[v]
  BY DEF TypeOK, Goes
<1>2. Writes(w) /\ ledger = Empty /\ worker[w].image = billed + worker[w].cost
  BY DEF Flush, At, Writes, Shown
<1>3. ledger' = billed' /\ \A v \in Workers \ {w} : ~Writes(v)
  BY <1>2 DEF Flush, Shown
<1>4. \A v \in Workers : worker'[v].step \notin {"truncate", "flush"}
  BY <1>1, <1>3 DEF Writes
<1> QED BY <1>3, <1>4 DEF Shown, Writes, At

-----------------------------------------------------------------------------
(* The bound, action by action. *)

\* A thread that goes on keeps the types of all threads and their modesty.
LEMMA GoesKeeps ==
  ASSUME TypeOK, Modest, NEW w \in Workers, NEW x, Goes(w, x)
  PROVE  worker' \in [Workers -> Requests] /\ Modest'
BY DEF TypeOK, Modest, Goes

\* The bound holds at the start.
LEMMA BoundInit ==
  ASSUME AIGatewayAssumption, Init
  PROVE  Bound
<1>1. TypeOK
  <2>1. Idle \in Requests
    BY IdleTyped
  <2>2. worker \in [Workers -> Requests]
    BY <2>1 DEF Init
  <2>3. /\ ledger \in Nat /\ memory = {} /\ asked = {} /\ spoiled \in BOOLEAN
        /\ billed \in Nat /\ booked \in Nat /\ paid \in Nat /\ unbilled \in Nat
    BY DEF Init
  <2>4. requests \in 0..MaxRequests /\ crashes \in 0..MaxCrashes
    BY DEF Init, AIGatewayAssumption
  <2> QED BY <2>2, <2>3, <2>4 DEF TypeOK
<1>2. Modest
  BY DEF Init, Modest, Bookkeeping, Idle
<1>3. billed = booked /\ Calling = {}
  BY DEF Init, Calling, Idle
<1>4. Shown
  BY DEF Init, Shown, Writes, At, Idle
<1> QED BY <1>1, <1>2, <1>3, <1>4 DEF Bound, Headroom

\* A step that leaves the ledger alone, and takes room only where there is some.
LEMMA BoundSame ==
  ASSUME AIGatewayAssumption, Bound, NEW w \in Workers, NEW x, Goes(w, x), TypeOK',
         UNCHANGED <<ledger, billed, booked>>, spoiled => spoiled',
         worker[w].step = "flush" => spoiled', x.step \notin {"truncate", "flush"},
         spoiled' \/ ~Counts(x) \/ w \in Calling \/ billed + Ceiling <= Limit
  PROVE  Bound'
<1>1. Modest'
  BY GoesKeeps DEF Bound
<1>2. ASSUME ~spoiled'
      PROVE  Shown' /\ Headroom'
  <2>1. TypeOK /\ Shown /\ Headroom /\ ~spoiled
    BY <1>2 DEF Bound
  <2>2. Shown'
    BY <1>2, <2>1, ShownSame
  <2>3. Headroom'
    BY <1>2, <2>1, HeadroomLeaves, HeadroomGoesOn, HeadroomPasses
  <2> QED BY <2>2, <2>3
<1> QED BY <1>1, <1>2 DEF Bound

\* What a thread's step does to everything but its own record.
LEMMA BoundStep ==
  ASSUME AIGatewayAssumption, Bound, NEW w \in Workers, Step(w)
  PROVE  Bound'
<1> USE DEF Bound
<1>1. /\ worker[w] \in Requests /\ Idle \in Requests /\ Idle.step = "idle" /\ ~Idle.job
      /\ MaxCost \in Nat /\ MaxRequests \in Nat /\ Costs \subseteq 0..MaxCost
      /\ MaxCrashes \in Nat /\ requests \in 0..MaxRequests /\ crashes \in 0..MaxCrashes
      /\ billed \in Nat /\ booked \in Nat /\ paid \in Nat /\ unbilled \in Nat
      /\ ledger \in Nat \cup {Empty, Garbled} /\ spoiled \in BOOLEAN
      /\ memory \subseteq 1..MaxRequests /\ asked \subseteq 1..MaxRequests
      /\ worker[w].id \in 0..MaxRequests /\ worker[w].cost \in 0..(2 * MaxCost)
      /\ worker[w].step # "idle" => worker[w].id \in 1..MaxRequests
      /\ worker[w].image \in Nat /\ Bookkeeping(worker[w])
  <2>1. /\ worker[w] \in Requests /\ Bookkeeping(worker[w])
        /\ worker[w].step # "idle" => worker[w].id # 0
    BY DEF TypeOK, Modest
  <2>2. /\ worker[w].id \in 0..MaxRequests /\ worker[w].cost \in 0..(2 * MaxCost)
        /\ worker[w].image \in Nat
    BY <2>1 DEF Requests
  <2>3. /\ MaxCost \in Nat /\ MaxRequests \in Nat /\ Costs \subseteq 0..MaxCost
        /\ MaxCrashes \in Nat
    BY DEF AIGatewayAssumption
  <2>4. /\ requests \in 0..MaxRequests /\ crashes \in 0..MaxCrashes
        /\ billed \in Nat /\ booked \in Nat /\ paid \in Nat /\ unbilled \in Nat
        /\ ledger \in Nat \cup {Empty, Garbled} /\ spoiled \in BOOLEAN
        /\ memory \subseteq 1..MaxRequests /\ asked \subseteq 1..MaxRequests
    BY DEF TypeOK
  <2>5. worker[w].step # "idle" => worker[w].id \in 1..MaxRequests
    BY <2>1, <2>2, <2>3
  <2> QED BY <2>1, <2>2, <2>3, <2>4, <2>5, IdleTyped
<1>2. ASSUME NEW x \in Requests, Enter(w, x), x.step \in {"gate", "record"}, x.id # 0,
             Bookkeeping(x), ~Counts(x), asked' \subseteq 1..MaxRequests
      PROVE  Bound'
  <2>1. Goes(w, x) /\ worker[w].step = "idle"
    BY <1>2 DEF Enter, Goes, At
  <2>2. requests' \in 0..MaxRequests
    BY <1>1, <1>2 DEF Enter
  <2>3. TypeOK'
    BY <1>1, <1>2, <2>1, <2>2, GoesKeeps DEF Enter, TypeOK
  <2> QED BY <1>2, <2>1, <2>3, BoundSame DEF Enter
<1>3. ASSUME NEW triage \in BOOLEAN, NEW json \in BOOLEAN, Ask(w, triage, json)
      PROVE  Bound'
  <2>1. PICK x \in Requests :
          /\ Enter(w, x) /\ x.step = "gate" /\ x.id = requests + 1
          /\ x.id \in 1..MaxRequests /\ x.job = FALSE
    BY <1>3, AskEnters
  <2>2. asked' \subseteq 1..MaxRequests
    BY <1>1, <1>3, <2>1 DEF Ask
  <2>3. Bookkeeping(x) /\ ~Counts(x) /\ x.id # 0
    BY <2>1 DEF Bookkeeping, Counts
  <2> QED BY <1>2, <2>1, <2>2, <2>3
<1>4. ASSUME NEW cost \in Costs, Book(w, cost)
      PROVE  Bound'
  <2>1. PICK x \in Requests :
          /\ Enter(w, x) /\ x.step = "record" /\ x.id \in 1..MaxRequests
          /\ x.triage = FALSE /\ x.job
    BY <1>4, BookEnters
  <2>2. asked' \subseteq 1..MaxRequests
    BY <1>1, <1>4 DEF Book
  <2>3. Bookkeeping(x) /\ ~Counts(x) /\ x.id # 0
    BY <2>1 DEF Bookkeeping, Counts
  <2> QED BY <1>2, <2>1, <2>2, <2>3
<1>5. CASE Gate(w)
  <2>0. /\ UNCHANGED <<ledger, memory, requests, crashes, billed, booked, paid, unbilled, asked>>
        /\ spoiled' = (spoiled \/ HalfWritten(w)) /\ worker[w].step = "gate"
    BY <1>5 DEF Gate, At
  <2>00. spoiled' \in BOOLEAN
    BY <1>1, <2>0 DEF HalfWritten, At
  <2>1. CASE Passes
    <3> DEFINE x == [worker[w] EXCEPT !.step = "call"]
    <3>1. x \in Requests /\ x.step = "call" /\ x.id # 0 /\ ~x.job
      <4>1. worker[w] \in Requests /\ worker[w].id # 0 /\ ~worker[w].job /\ "call" \in Steps
        BY <1>1, <2>0 DEF Steps, Bookkeeping
      <4> QED BY <4>1, Moved
    <3>2. Goes(w, x)
      BY <1>5, <2>1, <3>1 DEF Gate, GoTo, Goes, TypeOK, Bookkeeping
    <3>3. TypeOK'
      BY <1>1, <2>0, <2>00, <3>2, GoesKeeps DEF TypeOK
    <3>4. ASSUME ~spoiled'
          PROVE  billed + Ceiling <= Limit
      <4>1. \A v \in Workers : ~At(v, "flush")
        BY <2>0, <3>4 DEF HalfWritten, At
      <4>2. ledger = billed
        BY <2>0, <3>4, <4>1 DEF Shown
      <4> QED BY <1>1, <2>1, <4>2 DEF Passes, Parsed, Empty, Garbled
    <3> QED BY <2>0, <3>1, <3>2, <3>3, <3>4, BoundSame
  <2>2. CASE ~Passes
    <3>1. PICK x \in Requests : Goes(w, x) /\ x.step \in {"idle", "remember"} /\ ~Counts(x)
      BY <1>5, <2>2, DoneGoes DEF Gate, At
    <3>3. TypeOK'
      BY <1>1, <2>0, <2>00, <3>1, GoesKeeps DEF TypeOK
    <3> QED BY <2>0, <3>1, <3>3, BoundSame
  <2> QED BY <2>1, <2>2
<1>6. ASSUME NEW cost \in Costs, Call(w, cost)
      PROVE  Bound'
  <2>1. PICK x \in Requests :
          /\ worker' = [worker EXCEPT ![w] = x] /\ x.step \in {"record", "retry"}
          /\ Same(x, worker[w]) /\ x.cost = cost /\ cost \in 0..MaxCost
    BY <1>6, CallPays
  <2>2. worker[w].step = "call" /\ worker[w].id # 0 /\ ~worker[w].job
    BY <1>1, <1>6 DEF Call, At, Bookkeeping
  <2>3. Goes(w, x) /\ w \in Calling
    BY <2>1, <2>2 DEF Goes, Same, Calling, Bookkeeping
  <2>4. paid' \in Nat
        /\ UNCHANGED <<ledger, memory, requests, crashes, billed, booked, unbilled, asked, spoiled>>
    BY <1>1, <1>6, <2>1 DEF Call
  <2>5. TypeOK'
    BY <1>1, <2>3, <2>4, GoesKeeps DEF TypeOK
  <2> QED BY <2>1, <2>2, <2>3, <2>4, <2>5, BoundSame
<1>7. ASSUME NEW cost \in Costs, Retry(w, cost)
      PROVE  Bound'
  <2>1. cost \in 0..MaxCost /\ worker[w].cost \in 0..MaxCost
    BY <1>7, RetryPays
  <2>2. worker[w].step = "retry" /\ worker[w].id # 0 /\ ~worker[w].job /\ w \in Calling
    BY <1>1, <1>7 DEF Retry, At, Bookkeeping, Calling
  <2>3. paid' \in Nat
        /\ UNCHANGED <<ledger, memory, requests, crashes, billed, booked, asked, spoiled>>
    BY <1>1, <1>7, <2>1 DEF Retry
  <2>4. CASE Done(w) /\ unbilled' = unbilled + worker[w].cost + cost
    <3>1. PICK x \in Requests : Goes(w, x) /\ x.step \in {"idle", "remember"} /\ ~Counts(x)
      BY <1>7, <2>4, DoneGoes DEF Retry, At
    <3>2. unbilled' \in Nat
      BY <1>1, <2>1, <2>4
    <3>3. TypeOK'
      BY <1>1, <2>3, <3>1, <3>2, GoesKeeps DEF TypeOK
    <3> QED BY <2>2, <2>3, <3>1, <3>3, BoundSame
  <2>5. ASSUME NEW x \in Requests, UNCHANGED unbilled, worker' = [worker EXCEPT ![w] = x],
               x.step = "record", Same(x, worker[w])
        PROVE  Bound'
    <3>1. Goes(w, x)
      BY <2>2, <2>5 DEF Goes, Same, Bookkeeping
    <3>2. TypeOK'
      BY <1>1, <2>3, <2>5, <3>1, GoesKeeps DEF TypeOK
    <3> QED BY <2>2, <2>3, <2>5, <3>1, <3>2, BoundSame
  <2> QED BY <1>7, <2>4, <2>5, RetryPays
<1>8. CASE Raise(w)
  <2>1. PICK x \in Requests : Goes(w, x) /\ x.step \in {"idle", "remember"} /\ ~Counts(x)
    BY <1>8, DoneGoes DEF Raise, At
  <2>2. /\ unbilled' \in Nat /\ worker[w].step # "flush"
        /\ UNCHANGED <<ledger, memory, requests, crashes, billed, booked, paid, asked, spoiled>>
    BY <1>1, <1>8 DEF Raise
  <2>3. TypeOK'
    BY <1>1, <2>1, <2>2, GoesKeeps DEF TypeOK
  <2> QED BY <2>1, <2>2, <2>3, BoundSame
<1>9. CASE Load(w)
  <2>1. PICK x \in Requests :
          /\ worker' = [worker EXCEPT ![w] = x] /\ x.step = "truncate" /\ Same(x, worker[w])
    BY <1>9, LoadCarries
  <2>2. /\ worker[w].step = "record"
        /\ UNCHANGED <<ledger, memory, requests, crashes, billed, booked, paid, unbilled, asked>>
        /\ spoiled => spoiled'
        /\ spoiled' \in BOOLEAN
    BY <1>1, <1>9 DEF Load, At, HalfWritten
  <2>4. Goes(w, x) /\ Counts(x) = (w \in Calling)
    BY <1>1, <2>1, <2>2 DEF Goes, Same, Bookkeeping, Counts, Calling
  <2>5. TypeOK' /\ Modest'
    BY <1>1, <2>2, <2>4, GoesKeeps DEF TypeOK
  <2>6. ASSUME ~spoiled'
        PROVE  Headroom' /\ Shown'
    <3>1. Headroom /\ Shown
      BY <2>2, <2>6
    <3>2. Shown'
      BY <1>9, <2>6, <3>1, ShownLoad
    <3>3. Headroom'
      BY <2>2, <2>4, <3>1, HeadroomLeaves, HeadroomGoesOn
    <3> QED BY <3>2, <3>3
  <2> QED BY <2>5, <2>6
<1>10. CASE Truncate(w)
  <2>1. PICK x \in Requests :
          /\ worker' = [worker EXCEPT ![w] = x] /\ x.step = "flush" /\ Same(x, worker[w])
    BY <1>10, TruncateCarries
  <2>2. /\ worker[w].step = "truncate"
        /\ UNCHANGED <<memory, requests, crashes, billed, booked, paid, unbilled, asked, spoiled>>
        /\ ledger' = Empty
    BY <1>10 DEF Truncate, At
  <2>4. Goes(w, x) /\ Counts(x) = (w \in Calling)
    BY <1>1, <2>1, <2>2 DEF Goes, Same, Bookkeeping, Counts, Calling
  <2>5. TypeOK' /\ Modest'
    BY <1>1, <2>2, <2>4, GoesKeeps DEF TypeOK
  <2>6. ASSUME ~spoiled'
        PROVE  Headroom' /\ Shown'
    <3>1. Headroom /\ Shown
      BY <2>2, <2>6
    <3>2. Shown'
      BY <1>10, <2>6, <3>1, ShownTruncate
    <3>3. Headroom'
      BY <2>2, <2>4, <3>1, HeadroomLeaves, HeadroomGoesOn
    <3> QED BY <3>2, <3>3
  <2> QED BY <2>5, <2>6
<1>11. CASE Flush(w)
  <2>1. PICK x \in Requests : Goes(w, x) /\ x.step \in {"idle", "remember"} /\ ~Counts(x)
    BY <1>11, DoneGoes DEF Flush, At
  <2>2. /\ ledger' \in Nat \cup {Empty, Garbled}
        /\ billed' \in Nat /\ booked' \in Nat
        /\ UNCHANGED <<memory, requests, crashes, paid, unbilled, asked, spoiled>>
    BY <1>1, <1>11 DEF Flush
  <2>3. TypeOK' /\ Modest'
    BY <1>1, <2>1, <2>2, GoesKeeps DEF TypeOK
  <2>4. ASSUME ~spoiled'
        PROVE  Headroom' /\ Shown'
    <3>1. Headroom /\ Shown
      BY <2>2, <2>4
    <3>2. Shown'
      BY <1>11, <2>1, <3>1, ShownFlush
    <3>3. CASE worker[w].job
      <4>1. /\ w \notin Calling /\ worker[w].cost \in Nat
            /\ billed' = billed + worker[w].cost /\ booked' = booked + worker[w].cost
        BY <1>1, <1>11, <3>3 DEF Flush, Calling
      <4> QED BY <2>1, <3>1, <3>2, <4>1, HeadroomJob
    <3>4. CASE ~worker[w].job
      <4>1. w \in Calling /\ billed' = billed + worker[w].cost /\ UNCHANGED booked
        BY <1>11, <3>4 DEF Flush, Calling, At
      <4> QED BY <2>1, <3>1, <3>2, <4>1, HeadroomBooks
    <3> QED BY <3>3, <3>4
  <2> QED BY <2>3, <2>4
<1>12. CASE Crash(w)
  <2>1. Goes(w, Idle) /\ ~Counts(Idle)
    BY <1>1, <1>12 DEF Crash, Goes, Bookkeeping, Counts
  <2>2. /\ asked' \subseteq 1..MaxRequests /\ spoiled' \in BOOLEAN
        /\ spoiled => spoiled'
        /\ worker[w].step = "flush" => spoiled'
        /\ UNCHANGED <<ledger, memory, requests, billed, booked, paid>>
    BY <1>1, <1>12 DEF Crash, At
  <2>3. unbilled' \in Nat
    BY <1>1, <1>12 DEF Crash, Unrecorded
  <2>4. crashes' \in 0..MaxCrashes
    <3>1. crashes < MaxCrashes /\ crashes' = crashes + 1
      BY <1>12 DEF Crash
    <3> QED BY <1>1, <3>1
  <2>5. TypeOK'
    BY <1>1, <2>1, <2>2, <2>3, <2>4, GoesKeeps DEF TypeOK
  <2> QED BY <1>1, <2>1, <2>2, <2>5, BoundSame
<1>13. CASE Remember(w)
  <2>1. Goes(w, Idle) /\ ~Counts(Idle) /\ worker[w].step # "flush"
    BY <1>1, <1>13 DEF Remember, Goes, Bookkeeping, Counts, At
  <2>2. /\ memory' \subseteq 1..MaxRequests
        /\ UNCHANGED <<ledger, requests, crashes, billed, booked, paid, unbilled, asked, spoiled>>
    BY <1>1, <1>13 DEF Remember, AddDocument, At
  <2>3. TypeOK'
    BY <1>1, <2>1, <2>2, GoesKeeps DEF TypeOK
  <2> QED BY <1>1, <2>1, <2>2, <2>3, BoundSame
<1>14. CASE Complete(w) \/ Triage(w) \/ ParseIntent(w) \/ Explain(w)
  BY <1>3, <1>14 DEF Complete, Triage, ParseIntent, Explain
<1> QED BY <1>4, <1>5, <1>6, <1>7, <1>8, <1>9, <1>10, <1>11, <1>12, <1>13, <1>14 DEF Step

\* The bound is an invariant of every step.
LEMMA BoundNext ==
  ASSUME AIGatewayAssumption, Bound, [Next]_vars
  PROVE  Bound'
<1>1. ASSUME NEW w \in Workers, Step(w)
      PROVE  Bound'
  BY <1>1, BoundStep
<1>2. CASE UNCHANGED vars
  <2>1. TypeOK' /\ Modest'
    BY <1>2 DEF vars, Bound, TypeOK, Modest
  <2>2. Calling' = Calling /\ Twice' = Twice
    BY <1>2 DEF vars, Calling, Twice
  <2>3. Headroom <=> Headroom'
    BY <1>2, <2>2 DEF vars, Headroom
  <2>4. Shown <=> Shown'
    BY <1>2 DEF vars, Shown, Writes, At
  <2> QED BY <1>2, <2>1, <2>3, <2>4 DEF Bound, vars
<1> QED BY <1>1, <1>2 DEF Next

\* With nothing under way or something, the bound gives the property.
LEMMA BoundGives ==
  ASSUME AIGatewayAssumption, Bound
  PROVE  OverspendBounded
<1>1. SUFFICES ASSUME ~spoiled, ledger # Empty
               PROVE  OverspendBounded
  BY DEF OverspendBounded
<1>2. Headroom /\ ledger = billed
  BY <1>1 DEF Bound, Shown
<1>3. CASE billed = booked
  BY <1>2, <1>3 DEF OverspendBounded
<1>4. CASE billed + Ceiling + Twice * Cardinality(Calling)
             <= Limit + Twice * Cardinality(Workers) + booked
  <2>1. /\ Twice * Cardinality(Calling) \in Nat /\ Twice * Cardinality(Workers) \in Nat
        /\ billed \in Nat /\ booked \in Nat /\ Ceiling \in Nat /\ Limit \in Nat
    BY CallingBounded, TimesMonotone DEF Bound, TypeOK, Twice, AIGatewayAssumption
  <2>2. billed + Ceiling <= Limit + Twice * Cardinality(Workers) + booked
    BY <1>4, <2>1
  <2> QED BY <1>2, <2>2 DEF OverspendBounded, Twice
<1> QED BY <1>2, <1>3, <1>4 DEF Headroom

-----------------------------------------------------------------------------
(* The triages. *)

\* The requests under way that will end in the memory.
Pending == {w \in Workers : ~At(w, "idle") /\ worker[w].triage}

\* A request's number is its own and not in the memory yet; what was asked is in
\* the memory or under way.
Numbered ==
  /\ \A w \in Workers : ~At(w, "idle") =>
       /\ worker[w].id \in 1..requests /\ worker[w].id \notin memory
       /\ worker[w].triage <=> worker[w].id \in asked
  /\ \A v, w \in Workers :
       ~At(v, "idle") /\ ~At(w, "idle") /\ worker[v].id = worker[w].id => v = w
  /\ \A w \in Workers : At(w, "remember") => worker[w].triage
  /\ memory \subseteq asked /\ asked \subseteq 1..requests
  /\ asked \subseteq memory \cup {worker[w].id : w \in Pending}

\* A thread that goes on with its request, whatever its step and cost.
SameRequest(w) ==
  \E x \in Requests :
    /\ worker' = [worker EXCEPT ![w] = x]
    /\ x.step # "idle" /\ x.id = worker[w].id /\ x.triage = worker[w].triage
    /\ x.step = "remember" => x.triage

\* A step within a request keeps the numbers.
LEMMA NumberedSame ==
  ASSUME TypeOK, Numbered, NEW w \in Workers, ~At(w, "idle"), SameRequest(w),
         UNCHANGED <<memory, requests, asked>>
  PROVE  Numbered'
<1>1. PICK x \in Requests :
        /\ worker' = [worker EXCEPT ![w] = x]
        /\ x.step # "idle" /\ x.id = worker[w].id /\ x.triage = worker[w].triage
        /\ x.step = "remember" => x.triage
  BY DEF SameRequest
<1>2. \A v \in Workers :
        /\ worker'[v].id = worker[v].id /\ worker'[v].triage = worker[v].triage
        /\ worker'[v].step = "idle" <=> worker[v].step = "idle"
        /\ worker'[v].step = "remember" => worker[v].step = "remember" \/ worker[v].triage
  BY <1>1 DEF TypeOK, At
<1>3. Pending' = Pending
  BY <1>2 DEF Pending, At
<1>4. {worker[v].id : v \in Pending}' = {worker[v].id : v \in Pending}
  BY <1>2, <1>3 DEF Pending
<1> QED BY <1>2, <1>4 DEF Numbered, At

\* A request that ends without a triage to remember takes no number with it.
LEMMA NumberedEnds ==
  ASSUME TypeOK, Numbered, NEW w \in Workers, ~At(w, "idle"),
         worker' = [worker EXCEPT ![w] = Idle],
         UNCHANGED requests,
         \/ ~worker[w].triage /\ UNCHANGED <<memory, asked>>
         \/ asked' = asked \ {worker[w].id} /\ UNCHANGED memory
         \/ worker[w].triage /\ memory' = memory \cup {worker[w].id} /\ UNCHANGED asked
  PROVE  Numbered'
<1>1. /\ worker'[w].step = "idle"
      /\ \A v \in Workers \ {w} : worker'[v] = worker[v]
  BY DEF TypeOK, Idle
<1>2. Pending' = Pending \ {w}
  BY <1>1 DEF Pending, At
<1>3. \A v \in Pending' : worker'[v].id = worker[v].id
  BY <1>1, <1>2
<1>4. asked \ {worker[w].id} \subseteq memory \cup {worker'[v].id : v \in Pending'}
  <2>1. SUFFICES ASSUME NEW i \in asked, i # worker[w].id, i \notin memory
                 PROVE  \E v \in Pending' : worker'[v].id = i
    OBVIOUS
  <2>2. PICK v \in Pending : worker[v].id = i
    BY <2>1 DEF Numbered
  <2>3. v \in Pending'
    BY <1>2, <2>1, <2>2
  <2> QED BY <1>3, <2>2, <2>3
<1>5. ~worker[w].triage => worker[w].id \notin asked
  BY DEF Numbered
<1>6. asked' \subseteq memory' \cup {worker[v].id : v \in Pending}'
  BY <1>4, <1>5
<1>7. memory' \subseteq asked' /\ asked' \subseteq 1..requests
  BY DEF Numbered
<1>8. \A v \in Workers : ~At(v, "idle")' =>
        /\ v # w /\ worker'[v] = worker[v] /\ ~At(v, "idle")
        /\ worker[v].id # worker[w].id
  BY <1>1 DEF At, Numbered
<1>9. \A v \in Workers : ~At(v, "idle")' =>
        /\ worker'[v].id \in 1..requests /\ worker'[v].id \notin memory'
        /\ worker'[v].triage <=> worker'[v].id \in asked'
  BY <1>8 DEF Numbered
<1>10. \A u, v \in Workers :
         ~At(u, "idle")' /\ ~At(v, "idle")' /\ worker'[u].id = worker'[v].id => u = v
  BY <1>8 DEF Numbered
<1>11. \A v \in Workers : At(v, "remember")' => worker'[v].triage
  BY <1>1 DEF At, Numbered
<1> QED BY <1>6, <1>7, <1>9, <1>10, <1>11 DEF Numbered

\* No number has been given out at the start.
LEMMA NumberedInit == Init => Numbered
BY DEF Init, Numbered, Pending, At, Idle

\* The gateway's end of a request: it goes on to remember, or ends unasked.
LEMMA NumberedDone ==
  ASSUME AIGatewayAssumption, TypeOK, Modest, Numbered, NEW w \in Workers,
         ~At(w, "idle"), Done(w), UNCHANGED <<memory, requests, asked>>
  PROVE  Numbered'
<1>1. CASE worker[w].triage
  <2> DEFINE x == [worker[w] EXCEPT !.step = "remember"]
  <2>1. x \in Requests /\ x.step = "remember" /\ x.id = worker[w].id /\ x.triage
    <3>1. worker[w] \in Requests /\ "remember" \in Steps
      BY DEF TypeOK, Steps
    <3> QED BY <1>1, <3>1, Moved
  <2>2. worker' = [worker EXCEPT ![w] = x]
    BY <1>1 DEF Done, GoTo, TypeOK
  <2>3. SameRequest(w)
    BY <1>1, <2>1, <2>2 DEF SameRequest
  <2> QED BY <2>3, NumberedSame
<1>2. CASE ~worker[w].triage
  <2>1. worker' = [worker EXCEPT ![w] = Idle]
    BY <1>2 DEF Done
  <2> QED BY <1>2, <2>1, NumberedEnds
<1> QED BY <1>1, <1>2

\* A request gets the next number.
LEMMA NumberedEnter ==
  ASSUME AIGatewayAssumption, TypeOK, Numbered, NEW w \in Workers, NEW triage \in BOOLEAN,
         NEW x, Enter(w, x), x.step \notin {"idle", "remember"}, x.triage = triage,
         x.id = requests + 1,
         asked' = IF triage THEN asked \cup {requests + 1} ELSE asked
  PROVE  Numbered'
<1> DEFINE n == requests + 1
<1>1. requests \in Nat /\ n \in 1..n /\ n \notin 1..requests /\ 1..requests \subseteq 1..n
  BY DEF TypeOK, AIGatewayAssumption
<1>2. /\ worker'[w].step \notin {"idle", "remember"} /\ worker'[w].triage = triage /\ worker'[w].id = n
      /\ \A v \in Workers \ {w} : worker'[v] = worker[v]
      /\ requests' = n /\ memory' = memory /\ At(w, "idle")
      /\ asked' = IF triage THEN asked \cup {n} ELSE asked
  BY DEF Enter, TypeOK
<1> HIDE DEF n
<1>3. n \notin asked /\ n \notin memory
  BY <1>1 DEF Numbered
<1>4. \A v \in Workers : ~At(v, "idle")' /\ v # w =>
        worker'[v] = worker[v] /\ ~At(v, "idle") /\ worker[v].id \in 1..requests
  BY <1>2 DEF Numbered, At
<1>5. \A v \in Workers : ~At(v, "idle")' =>
        /\ worker'[v].id \in 1..requests' /\ worker'[v].id \notin memory'
        /\ worker'[v].triage <=> worker'[v].id \in asked'
  <2>1. SUFFICES ASSUME NEW v \in Workers, ~At(v, "idle")'
                 PROVE  /\ worker'[v].id \in 1..requests' /\ worker'[v].id \notin memory'
                        /\ worker'[v].triage <=> worker'[v].id \in asked'
    OBVIOUS
  <2>2. CASE v = w
    BY <1>1, <1>2, <1>3, <2>2
  <2>3. CASE v # w
    BY <1>1, <1>2, <1>4, <2>1, <2>3 DEF Numbered
  <2> QED BY <2>2, <2>3
<1>6. \A u, v \in Workers :
        ~At(u, "idle")' /\ ~At(v, "idle")' /\ worker'[u].id = worker'[v].id => u = v
  BY <1>1, <1>2, <1>4 DEF Numbered
<1>7. \A v \in Workers : At(v, "remember")' => worker'[v].triage
  BY <1>2 DEF Numbered, At
<1>8. memory' \subseteq asked' /\ asked' \subseteq 1..requests'
  BY <1>1, <1>2 DEF Numbered
<1>9. asked' \subseteq memory' \cup {worker[v].id : v \in Pending}'
  <2>1. SUFFICES ASSUME NEW i \in asked', i \notin memory
                 PROVE  \E v \in Pending' : worker'[v].id = i
    BY <1>2
  <2>2. CASE i = n
    <3>1. triage
      BY <1>2, <1>3, <2>1, <2>2
    <3> QED BY <1>2, <2>2, <3>1 DEF Pending, At
  <2>3. CASE i # n
    <3>1. i \in asked
      BY <1>2, <2>3
    <3>2. PICK v \in Pending : worker[v].id = i
      BY <2>1, <3>1 DEF Numbered
    <3>3. v \in Pending' /\ worker'[v] = worker[v]
      BY <1>2, <3>2 DEF Pending, At
    <3> QED BY <3>2, <3>3
  <2> QED BY <2>2, <2>3
<1> QED BY <1>5, <1>6, <1>7, <1>8, <1>9 DEF Numbered

\* No step gives a number twice or forgets one.
LEMMA NumberedStep ==
  ASSUME AIGatewayAssumption, TypeOK, Modest, Numbered, NEW w \in Workers, Step(w)
  PROVE  Numbered'
<1>2. CASE Complete(w) \/ Triage(w) \/ ParseIntent(w) \/ Explain(w)
  <2>1. ASSUME NEW triage \in BOOLEAN, NEW json \in BOOLEAN, Ask(w, triage, json)
        PROVE  Numbered'
    <3>1. PICK x \in Requests :
            Enter(w, x) /\ x.step = "gate" /\ x.triage = triage /\ x.id = requests + 1
      BY <2>1, AskEnters
    <3>2. asked' = IF triage THEN asked \cup {requests + 1} ELSE asked
      BY <2>1 DEF Ask
    <3> QED BY <3>1, <3>2, NumberedEnter
  <2> QED BY <1>2, <2>1 DEF Complete, Triage, ParseIntent, Explain
<1>10. ASSUME NEW cost \in Costs, Book(w, cost)
       PROVE  Numbered'
  <2>1. PICK x \in Requests :
          Enter(w, x) /\ x.step = "record" /\ x.triage = FALSE /\ x.id = requests + 1
    BY <1>10, BookEnters
  <2>2. asked' = asked
    BY <1>10 DEF Book
  <2> QED BY <2>1, <2>2, NumberedEnter
<1>11. CASE Load(w) \/ Truncate(w)
  <2>1. SameRequest(w)
    BY <1>11, LoadCarries, TruncateCarries DEF SameRequest, Same
  <2>2. UNCHANGED <<memory, requests, asked>> /\ ~At(w, "idle")
    BY <1>11 DEF Load, Truncate, At
  <2> QED BY <2>1, <2>2, NumberedSame
<1>3. CASE Gate(w)
  <2>1. CASE Passes
    <3> DEFINE x == [worker[w] EXCEPT !.step = "call"]
    <3>1. /\ x \in Requests /\ x.step = "call"
          /\ x.id = worker[w].id /\ x.triage = worker[w].triage
      <4>1. worker[w] \in Requests /\ "call" \in Steps
        BY DEF TypeOK, Steps
      <4> QED BY <4>1, Moved
    <3>2. worker' = [worker EXCEPT ![w] = x]
      BY <1>3, <2>1 DEF Gate, GoTo, TypeOK
    <3>3. SameRequest(w)
      BY <3>1, <3>2 DEF SameRequest
    <3> QED BY <1>3, <3>3, NumberedSame DEF Gate, At
  <2>2. CASE ~Passes
    BY <1>3, <2>2, NumberedDone DEF Gate, At
  <2> QED BY <2>1, <2>2
<1>4. ASSUME NEW cost \in Costs, Call(w, cost)
      PROVE  Numbered'
  <2>1. SameRequest(w)
    BY <1>4, CallPays DEF SameRequest, Same
  <2> QED BY <1>4, <2>1, NumberedSame DEF Call, At
<1>5. ASSUME NEW cost \in Costs, Retry(w, cost)
      PROVE  Numbered'
  <2>1. UNCHANGED <<memory, requests, asked>> /\ ~At(w, "idle")
    BY <1>5 DEF Retry, At
  <2>2. CASE Done(w)
    BY <2>1, <2>2, NumberedDone
  <2>3. ASSUME NEW x \in Requests, worker' = [worker EXCEPT ![w] = x], x.step = "record",
               Same(x, worker[w])
        PROVE  Numbered'
    <3>1. SameRequest(w)
      BY <2>3 DEF SameRequest, Same
    <3> QED BY <2>1, <3>1, NumberedSame
  <2> QED BY <1>5, <2>2, <2>3, RetryPays
<1>6. CASE Raise(w)
  BY <1>6, NumberedDone DEF Raise, At
<1>7. CASE Flush(w)
  BY <1>7, NumberedDone DEF Flush, At
<1>8. CASE Remember(w)
  BY <1>8, NumberedEnds DEF Remember, AddDocument, At, Numbered
<1>9. CASE Crash(w)
  BY <1>9, NumberedEnds DEF Crash
<1> QED BY <1>2, <1>3, <1>4, <1>5, <1>6, <1>7, <1>8, <1>9, <1>10, <1>11 DEF Step

\* Nor does a step that changes nothing.
LEMMA NumberedNext ==
  ASSUME AIGatewayAssumption, TypeOK, Modest, Numbered, [Next]_vars
  PROVE  Numbered'
<1>1. ASSUME NEW w \in Workers, Step(w)
      PROVE  Numbered'
  BY <1>1, NumberedStep
<1>2. CASE UNCHANGED vars
  BY <1>2 DEF vars, Numbered, Pending, At
<1> QED BY <1>1, <1>2 DEF Next

-----------------------------------------------------------------------------
(* What requests under way have cost: a sum over the threads, as the       *)
(* number of the cells below the columns of a diagram, since no prover     *)
(* does the induction that defines a sum.                                  *)

\* A thread's column has as many cells as its request has cost.
Cells(f) == {c \in Workers \X (1..Twice) : c[2] <= f[c[1]]}

\* A diagram is finite.
LEMMA CellsFinite ==
  ASSUME AIGatewayAssumption, NEW f
  PROVE  IsFiniteSet(Cells(f)) /\ Cardinality(Cells(f)) \in Nat
<1>1. IsFiniteSet(Workers) /\ IsFiniteSet(1..Twice)
  BY FS_Interval DEF AIGatewayAssumption, Twice
<1>2. IsFiniteSet(Workers \X (1..Twice))
  BY <1>1, FS_Product
<1>3. Cells(f) \in SUBSET (Workers \X (1..Twice))
  BY DEF Cells
<1>4. IsFiniteSet(Cells(f))
  BY <1>2, <1>3, FS_Subset
<1> QED BY <1>4, FS_CardinalityType

\* A column has as many cells as it is high.
LEMMA Column ==
  ASSUME NEW w, NEW n \in Nat
  PROVE  IsFiniteSet({w} \X (1..n)) /\ Cardinality({w} \X (1..n)) = n
<1>1. IsFiniteSet({w}) /\ Cardinality({w}) = 1
  BY FS_Singleton
<1>2. IsFiniteSet(1..n) /\ Cardinality(1..n) = n
  BY FS_Interval
<1>3. /\ IsFiniteSet({w} \X (1..n))
      /\ Cardinality({w} \X (1..n)) = Cardinality({w}) * Cardinality(1..n)
  BY <1>1, <1>2, FS_Product
<1> QED BY <1>1, <1>2, <1>3

\* Without a thread's column, what is left does not depend on it.
LEMMA CellsBut ==
  ASSUME AIGatewayAssumption, NEW w \in Workers, NEW f, f[w] \in 0..Twice
  PROVE  LET rest == {c \in Cells(f) : c[1] # w} IN
         Cardinality(Cells(f)) = Cardinality(rest) + f[w] /\ Cardinality(rest) \in Nat
<1> DEFINE rest == {c \in Cells(f) : c[1] # w}
           column == {w} \X (1..f[w])
<1>1. IsFiniteSet(Cells(f)) /\ rest \in SUBSET Cells(f)
  BY CellsFinite
<1>2. IsFiniteSet(rest) /\ Cardinality(rest) \in Nat
  BY <1>1, FS_Subset, FS_CardinalityType
<1>3. f[w] \in Nat /\ Twice \in Nat
  BY DEF Twice, AIGatewayAssumption
<1>4. IsFiniteSet(column) /\ Cardinality(column) = f[w]
  BY <1>3, Column
<1>5. Cells(f) = rest \cup column
  <2>1. \A c : c \in column <=> \E k \in 1..f[w] : c = <<w, k>>
    OBVIOUS
  <2>2. ASSUME NEW c \in Cells(f), c[1] = w
        PROVE  c \in column
    BY <2>1, <2>2, <1>3 DEF Cells
  <2>3. ASSUME NEW c \in column
        PROVE  c \in Cells(f)
    <3>1. PICK k \in 1..f[w] : c = <<w, k>>
      BY <2>3
    <3>2. k \in 1..Twice
      BY <1>3
    <3> QED BY <3>1, <3>2 DEF Cells
  <2> QED BY <2>2, <2>3
<1>6. rest \cap column = {}
  OBVIOUS
<1>7. Cardinality(rest \cup column) = Cardinality(rest) + Cardinality(column) - 0
  BY <1>2, <1>4, <1>6, FS_Union, FS_EmptySet
<1> HIDE DEF rest, column
<1>8. Cardinality(Cells(f)) = Cardinality(rest) + f[w]
  BY <1>2, <1>3, <1>4, <1>5, <1>7
<1> QED BY <1>2, <1>8 DEF rest

\* When one column changes, the cells do as much.
LEMMA CellsChange ==
  ASSUME AIGatewayAssumption, NEW w \in Workers, NEW f, NEW g,
         f[w] \in 0..Twice, g[w] \in 0..Twice, \A v \in Workers \ {w} : g[v] = f[v]
  PROVE  Cardinality(Cells(g)) = Cardinality(Cells(f)) - f[w] + g[w]
<1>1. {c \in Cells(f) : c[1] # w} = {c \in Cells(g) : c[1] # w}
  BY DEF Cells
<1>2. PICK n \in Nat : Cardinality(Cells(f)) = n + f[w] /\ Cardinality(Cells(g)) = n + g[w]
  BY <1>1, CellsBut
<1>3. f[w] \in Nat /\ g[w] \in Nat
  BY DEF Twice, AIGatewayAssumption
<1> QED BY <1>2, <1>3

-----------------------------------------------------------------------------
(* Every call is billed. *)

\* What the calls of all requests have cost that may still be recorded.
UnderWay == Cardinality(Cells([w \in Workers |-> Unrecorded(worker[w])]))

\* Each call has been billed, or failed, or is under way; nothing has been paid for
\* a request that was not asked yet.
Balanced ==
  /\ paid + booked = unbilled + billed + UnderWay
  /\ \A w \in Workers : worker[w].step \in {"gate", "call"} => worker[w].cost = 0

\* A thread goes on, and with it what is under way.
LEMMA UnderWayGoes ==
  ASSUME AIGatewayAssumption, TypeOK, NEW w \in Workers, NEW x \in Requests,
         worker' = [worker EXCEPT ![w] = x]
  PROVE  /\ UnderWay \in Nat /\ Unrecorded(worker[w]) \in Nat /\ Unrecorded(x) \in Nat
         /\ UnderWay' = UnderWay - Unrecorded(worker[w]) + Unrecorded(x)
<1> DEFINE f == [v \in Workers |-> Unrecorded(worker[v])]
           g == [v \in Workers |-> Unrecorded(worker'[v])]
<1>1. /\ worker[w] \in Requests /\ Twice \in Nat /\ worker'[w] = x
      /\ \A v \in Workers \ {w} : worker'[v] = worker[v]
  BY DEF TypeOK, Twice, AIGatewayAssumption
<1>2. \A y \in Requests : Unrecorded(y) \in 0..Twice
  BY <1>1 DEF Requests, Unrecorded, Twice
<1>3. f[w] \in 0..Twice /\ g[w] \in 0..Twice /\ \A v \in Workers \ {w} : g[v] = f[v]
  BY <1>1, <1>2
<1>4. f[w] = Unrecorded(worker[w]) /\ g[w] = Unrecorded(x)
  BY <1>1
<1>5. UnderWay = Cardinality(Cells(f))
  BY DEF UnderWay
<1>6. UnderWay' = Cardinality(Cells(g))
  <2>1. UnderWay' = Cardinality(Cells([v \in Workers |-> Unrecorded(worker[v])]))'
    BY DEF UnderWay
  <2>2. Cardinality(Cells([v \in Workers |-> Unrecorded(worker[v])]))' = Cardinality(Cells(g))
    BY DEF Cells, Unrecorded, Twice
  <2> QED BY <2>1, <2>2
<1>7. Cardinality(Cells(f)) \in Nat
  BY CellsFinite
<1> HIDE DEF f, g
<1>8. Cardinality(Cells(g)) = Cardinality(Cells(f)) - f[w] + g[w]
  BY <1>3, CellsChange
<1> QED BY <1>1, <1>2, <1>4, <1>5, <1>6, <1>7, <1>8

LEMMA Sum == ASSUME NEW i \in Nat, NEW j \in Nat PROVE i + j \in Nat
OBVIOUS

\* What is under way changes as the accounts do.
LEMMA Accounts ==
  ASSUME NEW p \in Nat, NEW f \in Nat, NEW f2 \in Nat, NEW u \in Nat, NEW y \in Nat,
         NEW x \in Nat, p + f + y = (f + u) + f2 + x
  PROVE  p = f2 + (u - y + x)
OBVIOUS

\* The costs balance when a request goes on.
LEMMA BalancedGoes ==
  ASSUME AIGatewayAssumption, TypeOK, Balanced, NEW w \in Workers, NEW x \in Requests,
         worker' = [worker EXCEPT ![w] = x], x.step \in {"gate", "call"} => x.cost = 0,
         paid' + booked' + (unbilled + billed) + Unrecorded(worker[w])
           = paid + booked + (unbilled' + billed') + Unrecorded(x),
         paid' \in Nat, booked' \in Nat, unbilled' \in Nat, billed' \in Nat
  PROVE  Balanced'
<1>1. /\ UnderWay \in Nat /\ Unrecorded(worker[w]) \in Nat /\ Unrecorded(x) \in Nat
      /\ UnderWay' = UnderWay - Unrecorded(worker[w]) + Unrecorded(x)
  BY UnderWayGoes
<1>2. paid \in Nat /\ booked \in Nat /\ unbilled \in Nat /\ billed \in Nat
  BY DEF TypeOK
<1>3. paid + booked = unbilled + billed + UnderWay
  BY DEF Balanced
<1>4. paid' + booked' = unbilled' + billed' + UnderWay'
  <2> DEFINE p == paid' + booked'
             f == unbilled + billed
             f2 == unbilled' + billed'
             y == Unrecorded(worker[w])
             z == Unrecorded(x)
  <2> HIDE DEF UnderWay, Unrecorded
  <2>1. p \in Nat /\ f \in Nat /\ f2 \in Nat
    <3>1. paid' \in Nat /\ booked' \in Nat /\ unbilled' \in Nat /\ billed' \in Nat
      OBVIOUS
    <3>2. p \in Nat
      BY <3>1, Sum
    <3>3. f2 \in Nat
      BY <3>1, Sum
    <3>4. f \in Nat
      BY <1>2
    <3> QED BY <3>2, <3>3, <3>4
  <2>2. UnderWay \in Nat /\ y \in Nat /\ z \in Nat /\ UnderWay' = UnderWay - y + z
    BY <1>1
  <2>3. p + f + y = (f + UnderWay) + f2 + z
    BY <1>3
  <2> HIDE DEF p, f, f2, y, z
  <2>4. p = f2 + (UnderWay - y + z)
    BY <2>1, <2>2, <2>3, Accounts
  <2> QED BY <2>2, <2>4 DEF p, f2
<1>5. \A v \in Workers : worker'[v].step \in {"gate", "call"} => worker'[v].cost = 0
  BY DEF Balanced, TypeOK
<1> QED BY <1>4, <1>5 DEF Balanced

\* At the start nothing was paid.
LEMMA BalancedInit == ASSUME AIGatewayAssumption, Init PROVE Balanced
<1> DEFINE f == [w \in Workers |-> Unrecorded(worker[w])]
<1>1. \A w \in Workers : f[w] = 0 /\ worker[w].cost = 0
  BY DEF Init, Idle, Unrecorded
<1>2. Cells(f) = {}
  BY <1>1 DEF Cells
<1>3. UnderWay = 0
  BY <1>2, FS_EmptySet DEF UnderWay
<1> QED BY <1>1, <1>3 DEF Balanced, Init

\* A thread's step keeps the balance.
LEMMA BalancedStep ==
  ASSUME AIGatewayAssumption, Bound, Balanced, NEW w \in Workers, Step(w), Bound'
  PROVE  Balanced'
<1>1. /\ worker[w] \in Requests /\ Idle \in Requests /\ TypeOK /\ MaxCost \in Nat
      /\ billed \in Nat /\ booked \in Nat /\ paid \in Nat /\ unbilled \in Nat
      /\ billed' \in Nat /\ booked' \in Nat /\ paid' \in Nat /\ unbilled' \in Nat
      /\ worker[w].cost \in Nat /\ Costs \subseteq Nat
      /\ worker[w].step \in {"gate", "call"} => worker[w].cost = 0
  <2>1. TypeOK /\ TypeOK' /\ worker[w] \in Requests
    BY DEF Bound, TypeOK
  <2>2. worker[w].cost \in 0..(2 * MaxCost) /\ MaxCost \in Nat /\ Costs \subseteq 0..MaxCost
    BY <2>1 DEF Requests, AIGatewayAssumption
  <2>3. /\ billed \in Nat /\ booked \in Nat /\ paid \in Nat /\ unbilled \in Nat
        /\ billed' \in Nat /\ booked' \in Nat /\ paid' \in Nat /\ unbilled' \in Nat
    BY <2>1 DEF TypeOK
  <2> QED BY <2>1, <2>2, <2>3, IdleTyped DEF Balanced
<1>16. Bookkeeping(worker[w])
  BY DEF Bound, Modest
<1>2. ASSUME NEW x \in Requests, Goes(w, x), x.step \in {"idle", "remember"}
      PROVE  Unrecorded(x) = 0
  BY <1>2 DEF Unrecorded
<1>3. ASSUME NEW x \in Requests, Goes(w, x), x.step \in {"idle", "gate", "remember"},
             x.step = "gate" => x.cost = 0,
             Unrecorded(worker[w]) = 0, UNCHANGED <<billed, booked, paid, unbilled>>
      PROVE  Balanced'
  <2>1. Unrecorded(x) = 0
    BY <1>3 DEF Unrecorded
  <2> QED BY <1>1, <1>3, <2>1, BalancedGoes DEF Goes
<1>4. ASSUME NEW x \in Requests, Enter(w, x), Unrecorded(x) = 0,
             x.step \in {"gate", "call"} => x.cost = 0
      PROVE  Balanced'
  <2>1. Unrecorded(worker[w]) = 0 /\ UNCHANGED <<billed, booked, paid, unbilled>>
    BY <1>4 DEF Enter, At, Unrecorded
  <2>2. worker' = [worker EXCEPT ![w] = x]
    BY <1>4 DEF Enter
  <2> QED BY <1>1, <1>4, <2>1, <2>2, BalancedGoes DEF Goes
<1>13. ASSUME NEW triage \in BOOLEAN, NEW json \in BOOLEAN, Ask(w, triage, json)
       PROVE  Balanced'
  <2>1. PICK x \in Requests : Enter(w, x) /\ x.step = "gate" /\ x.cost = 0
    BY <1>1, <1>13, AskEnters
  <2> QED BY <1>4, <2>1 DEF Unrecorded
<1>14. ASSUME NEW cost \in Costs, Book(w, cost)
       PROVE  Balanced'
  <2>1. PICK x \in Requests : Enter(w, x) /\ x.step = "record" /\ x.job
    BY <1>1, <1>14, BookEnters
  <2> QED BY <1>4, <2>1 DEF Unrecorded
<1>15. CASE Load(w) \/ Truncate(w)
  <2>1. PICK x \in Requests :
          /\ worker' = [worker EXCEPT ![w] = x] /\ x.step \in {"truncate", "flush"}
          /\ Same(x, worker[w]) /\ x.cost = worker[w].cost
    BY <1>1, <1>15, LoadCarries, TruncateCarries
  <2>2. /\ UNCHANGED <<billed, booked, paid, unbilled>>
        /\ worker[w].step \in {"record", "truncate"}
    BY <1>15 DEF Load, Truncate, At
  <2>3. Unrecorded(x) = Unrecorded(worker[w])
    BY <2>1, <2>2 DEF Same, Unrecorded
  <2> QED BY <1>1, <2>1, <2>2, <2>3, BalancedGoes
<1>5. CASE Gate(w)
  <2>1. Unrecorded(worker[w]) = 0 /\ UNCHANGED <<billed, booked, paid, unbilled>>
    BY <1>5 DEF Gate, At, Unrecorded
  <2>2. CASE Passes
    <3> DEFINE x == [worker[w] EXCEPT !.step = "call"]
    <3>1. /\ x \in Requests /\ x.step = "call" /\ x.cost = 0 /\ Unrecorded(x) = 0
      <4>1. worker[w] \in Requests /\ "call" \in Steps /\ worker[w].cost = 0
        BY <1>1, <1>5 DEF Steps, Gate, At
      <4>2. x \in Requests /\ x.step = "call" /\ x.cost = 0
        BY <4>1, Moved
      <4> HIDE DEF x
      <4> QED BY <4>2 DEF Unrecorded
    <3>2. worker' = [worker EXCEPT ![w] = x]
      BY <1>5, <2>2, <3>1 DEF Gate, GoTo, Bound, TypeOK, At
    <3> HIDE DEF x
    <3> QED BY <1>1, <2>1, <3>1, <3>2, BalancedGoes DEF Goes
  <2>3. CASE ~Passes
    <3>1. PICK x \in Requests : Goes(w, x) /\ x.step \in {"idle", "remember"}
      BY <1>5, <2>3, DoneGoes DEF Bound, Gate, At
    <3> QED BY <1>3, <2>1, <3>1
  <2> QED BY <2>2, <2>3
<1>6. ASSUME NEW cost \in Costs, Call(w, cost)
      PROVE  Balanced'
  <2>1. PICK x \in Requests :
          /\ worker' = [worker EXCEPT ![w] = x] /\ x.step \in {"record", "retry"}
          /\ Same(x, worker[w]) /\ x.cost = cost /\ cost \in 0..MaxCost
    BY <1>1, <1>6, CallPays
  <2>2. /\ ~worker[w].job /\ worker[w].step = "call"
        /\ paid' = paid + cost /\ UNCHANGED <<billed, booked, unbilled>>
    BY <1>6, <1>16 DEF Call, At, Bookkeeping
  <2>3. Unrecorded(worker[w]) = 0 /\ Unrecorded(x) = cost
    BY <2>1, <2>2 DEF Unrecorded, Same
  <2>4. paid' + booked' + (unbilled + billed) + Unrecorded(worker[w])
          = paid + booked + (unbilled' + billed') + Unrecorded(x)
    BY <1>1, <2>1, <2>2, <2>3
  <2> QED BY <1>1, <2>1, <2>4, BalancedGoes
<1>7. ASSUME NEW cost \in Costs, Retry(w, cost)
      PROVE  Balanced'
  <2>1. cost \in 0..MaxCost /\ worker[w].cost \in 0..MaxCost
    BY <1>1, <1>7, RetryPays DEF Bound
  <2>2. /\ ~worker[w].job /\ worker[w].step = "retry"
        /\ paid' = paid + cost /\ UNCHANGED <<billed, booked>>
    BY <1>7, <1>16 DEF Retry, At, Bookkeeping
  <2>3. Unrecorded(worker[w]) = worker[w].cost
    BY <2>2 DEF Unrecorded
  <2>4. CASE Done(w) /\ unbilled' = unbilled + worker[w].cost + cost
    <3>1. PICK x \in Requests : Goes(w, x) /\ x.step \in {"idle", "remember"}
      BY <1>7, <2>4, DoneGoes DEF Bound, Retry, At
    <3>2. Unrecorded(x) = 0
      BY <1>2, <3>1
    <3>3. paid' + booked' + (unbilled + billed) + Unrecorded(worker[w])
            = paid + booked + (unbilled' + billed') + Unrecorded(x)
      BY <1>1, <2>1, <2>2, <2>3, <2>4, <3>2
    <3> QED BY <1>1, <3>1, <3>3, BalancedGoes DEF Goes
  <2>5. ASSUME NEW x \in Requests, UNCHANGED unbilled, worker' = [worker EXCEPT ![w] = x],
               x.step = "record", Same(x, worker[w]), x.cost = worker[w].cost + cost
        PROVE  Balanced'
    <3>1. Unrecorded(x) = worker[w].cost + cost
      BY <2>2, <2>5 DEF Unrecorded, Same
    <3>2. paid' + booked' + (unbilled + billed) + Unrecorded(worker[w])
            = paid + booked + (unbilled' + billed') + Unrecorded(x)
      BY <1>1, <2>1, <2>2, <2>3, <2>5, <3>1
    <3> QED BY <1>1, <2>5, <3>2, BalancedGoes
  <2> QED BY <1>1, <1>7, <2>4, <2>5, RetryPays DEF Bound
<1>8. CASE Raise(w)
  <2>1. PICK x \in Requests : Goes(w, x) /\ x.step \in {"idle", "remember"}
    BY <1>8, DoneGoes DEF Raise, At, Bound
  <2>2. /\ Unrecorded(worker[w]) = worker[w].cost /\ unbilled' = unbilled + worker[w].cost
        /\ UNCHANGED <<billed, booked, paid>>
    BY <1>1, <1>8, <1>16 DEF Raise, Unrecorded, Bookkeeping, Bound, TypeOK, Requests
  <2>3. Unrecorded(x) = 0
    BY <1>2, <2>1
  <2>4. paid' + booked' + (unbilled + billed) + Unrecorded(worker[w])
          = paid + booked + (unbilled' + billed') + Unrecorded(x)
    BY <1>1, <2>2, <2>3
  <2> QED BY <1>1, <2>1, <2>4, BalancedGoes DEF Goes
<1>9. CASE Flush(w)
  <2>1. PICK x \in Requests : Goes(w, x) /\ x.step \in {"idle", "remember"}
    BY <1>9, DoneGoes DEF Flush, At, Bound
  <2>2. /\ Unrecorded(worker[w]) = IF worker[w].job THEN 0 ELSE worker[w].cost
        /\ billed' = billed + worker[w].cost
        /\ booked' = IF worker[w].job THEN booked + worker[w].cost ELSE booked
        /\ UNCHANGED <<unbilled, paid>>
    BY <1>1, <1>9 DEF Flush, Unrecorded, At
  <2>3. paid' + booked' + (unbilled + billed) + Unrecorded(worker[w])
          = paid + booked + (unbilled' + billed') + Unrecorded(x)
    BY <1>1, <1>2, <2>1, <2>2
  <2> QED BY <1>1, <2>1, <2>3, BalancedGoes DEF Goes
<1>10. CASE Crash(w)
  <2>1. Goes(w, Idle) /\ Idle.step = "idle"
    BY <1>1, <1>10, IdleTyped DEF Crash, Goes, Bookkeeping
  <2>2. /\ unbilled' = unbilled + Unrecorded(worker[w])
        /\ Unrecorded(worker[w]) \in Nat
        /\ UNCHANGED <<billed, booked, paid>>
    BY <1>1, <1>10 DEF Crash, Unrecorded
  <2>3. Unrecorded(Idle) = 0
    BY <1>1, <1>2, <2>1
  <2>4. paid' + booked' + (unbilled + billed) + Unrecorded(worker[w])
          = paid + booked + (unbilled' + billed') + Unrecorded(Idle)
    BY <1>1, <2>2, <2>3
  <2> QED BY <1>1, <2>1, <2>4, BalancedGoes DEF Goes
<1>11. CASE Remember(w)
  <2>1. Goes(w, Idle) /\ Idle.step = "idle"
    BY <1>1, <1>11, IdleTyped DEF Remember, Goes, Bookkeeping
  <2>2. Unrecorded(worker[w]) = 0 /\ UNCHANGED <<billed, booked, paid, unbilled>>
    BY <1>11 DEF Remember, At, Unrecorded
  <2> QED BY <1>1, <1>3, <2>1, <2>2
<1>12. CASE Complete(w) \/ Triage(w) \/ ParseIntent(w) \/ Explain(w)
  BY <1>12, <1>13 DEF Complete, Triage, ParseIntent, Explain
<1> QED BY <1>5, <1>6, <1>7, <1>8, <1>9, <1>10, <1>11, <1>12, <1>14, <1>15 DEF Step

\* So does a step that changes nothing.
LEMMA BalancedNext ==
  ASSUME AIGatewayAssumption, Bound, Balanced, [Next]_vars
  PROVE  Balanced'
<1>1. ASSUME NEW w \in Workers, Step(w)
      PROVE  Balanced'
  BY <1>1, BoundStep, BalancedStep
<1>3. ASSUME worker' = worker
      PROVE  UnderWay' = UnderWay
  BY <1>3 DEF UnderWay, Cells, Unrecorded, Twice
<1>5. CASE UNCHANGED vars
  BY <1>3, <1>5 DEF vars, Balanced
<1> QED BY <1>1, <1>5 DEF Next

-----------------------------------------------------------------------------
(* The file has no more than was billed. *)

Honest ==
  /\ Parsed <= billed
  /\ \A w \in Workers : Writes(w) => worker[w].image <= billed + worker[w].cost

LEMMA HonestInit == Init => Honest
BY DEF Init, Honest, Parsed, Writes, Idle, Empty, Garbled

\* A step that leaves the file alone, or empties it.
LEMMA HonestSame ==
  ASSUME TypeOK, Honest, UNCHANGED billed, ledger' \in {ledger, Empty},
         \A w \in Workers :
           worker'[w].step \in {"truncate", "flush"} =>
             \/ /\ Writes(w) /\ worker'[w].image = worker[w].image
                /\ worker'[w].cost = worker[w].cost
             \/ /\ worker'[w].image = Parsed + worker'[w].cost
                /\ worker'[w].cost \in Nat
  PROVE  Honest'
<1>1. billed \in Nat /\ Parsed \in Nat /\ Parsed <= billed
  BY DEF TypeOK, Honest, Parsed
<1>2. Parsed' \in {Parsed, 0}
  BY DEF Parsed
<1>3. Parsed' <= billed'
  BY <1>1, <1>2
<1>4. ASSUME NEW w \in Workers, worker'[w].step \in {"truncate", "flush"}
      PROVE  worker'[w].image <= billed' + worker'[w].cost
  BY <1>1, <1>4 DEF Honest
<1> QED BY <1>3, <1>4 DEF Honest, Writes

LEMMA HonestNext ==
  ASSUME AIGatewayAssumption, Bound, Honest, [Next]_vars
  PROVE  Honest'
<1>1. TypeOK
  BY DEF Bound
<1>2. ASSUME NEW w \in Workers, NEW x, worker' = [worker EXCEPT ![w] = x],
             x.step \notin {"truncate", "flush"}, UNCHANGED <<ledger, billed>>
      PROVE  Honest'
  <2>1. \A v \in Workers : worker'[v] = IF v = w THEN x ELSE worker[v]
    BY <1>1, <1>2 DEF TypeOK
  <2> QED BY <1>1, <1>2, <2>1, HonestSame DEF Writes
<1>3. ASSUME NEW w \in Workers, ~At(w, "idle"), Done(w), UNCHANGED <<ledger, billed>>
      PROVE  Honest'
  <2>1. PICK x \in Requests : Goes(w, x) /\ x.step \in {"idle", "remember"}
    BY <1>3, DoneGoes DEF Bound
  <2> QED BY <1>2, <1>3, <2>1 DEF Goes
<1>4. ASSUME NEW w \in Workers, NEW x, Enter(w, x), x.step \in {"gate", "record"}
      PROVE  Honest'
  BY <1>2, <1>4 DEF Enter
<1>5. ASSUME NEW w \in Workers,
             Complete(w) \/ Triage(w) \/ ParseIntent(w) \/ Explain(w)
      PROVE  Honest'
  <2>1. ASSUME NEW triage, NEW json, Ask(w, triage, json)
        PROVE  Honest'
    BY <1>4, <2>1 DEF Ask, Idle
  <2> QED BY <1>5, <2>1 DEF Complete, Triage, ParseIntent, Explain
<1>6. ASSUME NEW w \in Workers, NEW cost \in Costs, Book(w, cost)
      PROVE  Honest'
  BY <1>4, <1>6 DEF Book, Idle
<1>7. ASSUME NEW w \in Workers, Gate(w)
      PROVE  Honest'
  <2>1. CASE Passes
    <3> DEFINE x == [worker[w] EXCEPT !.step = "call"]
    <3>1. worker' = [worker EXCEPT ![w] = x] /\ UNCHANGED <<ledger, billed>>
      BY <1>1, <1>7, <2>1 DEF Gate, GoTo, TypeOK
    <3>2. x.step = "call"
      BY <1>1 DEF TypeOK, Requests
    <3> HIDE DEF x
    <3> QED BY <1>2, <3>1, <3>2
  <2>2. CASE ~Passes
    BY <1>3, <1>7, <2>2 DEF Gate, At
  <2> QED BY <2>1, <2>2
<1>8. ASSUME NEW w \in Workers, NEW cost \in Costs, Call(w, cost)
      PROVE  Honest'
  <2>1. PICK next \in {"record", "retry"} :
          worker' = [worker EXCEPT ![w] = [worker[w] EXCEPT !.step = next, !.cost = cost]]
    BY <1>1, <1>8 DEF Call, TypeOK
  <2>2. [worker[w] EXCEPT !.step = next, !.cost = cost].step = next
    BY <1>1 DEF TypeOK, Requests
  <2> QED BY <1>2, <1>8, <2>1, <2>2 DEF Call
<1>9. ASSUME NEW w \in Workers, NEW cost \in Costs, Retry(w, cost)
      PROVE  Honest'
  <2>1. CASE Done(w)
    BY <1>3, <1>9, <2>1 DEF Retry, At
  <2>2. CASE worker' = [worker EXCEPT ![w] =
               [worker[w] EXCEPT !.step = "record", !.cost = worker[w].cost + cost]]
    <3>1. [worker[w] EXCEPT !.step = "record", !.cost = worker[w].cost + cost].step = "record"
      BY <1>1 DEF TypeOK, Requests
    <3> QED BY <1>2, <1>9, <2>2, <3>1 DEF Retry
  <2> QED BY <1>1, <1>9, <2>1, <2>2 DEF Retry, TypeOK
<1>10. ASSUME NEW w \in Workers, Raise(w)
       PROVE  Honest'
  BY <1>3, <1>10 DEF Raise, At
<1>11. ASSUME NEW w \in Workers, Load(w)
       PROVE  Honest'
  <2>1. PICK x \in Requests :
          /\ worker' = [worker EXCEPT ![w] = x] /\ x.cost = worker[w].cost /\ x.cost \in Nat
          /\ x.image = Parsed + worker[w].cost
    BY <1>1, <1>11, LoadCarries
  <2>2. /\ UNCHANGED <<ledger, billed>>
        /\ \A v \in Workers : worker'[v] = IF v = w THEN x ELSE worker[v]
    BY <1>1, <1>11, <2>1 DEF Load, TypeOK
  <2> QED BY <1>1, <2>1, <2>2, HonestSame DEF Writes
<1>12. ASSUME NEW w \in Workers, Truncate(w)
       PROVE  Honest'
  <2> DEFINE x == [worker[w] EXCEPT !.step = "flush"]
  <2>1. /\ ledger' = Empty /\ billed' = billed /\ Writes(w)
        /\ \A v \in Workers : worker'[v] = IF v = w THEN x ELSE worker[v]
    BY <1>1, <1>12 DEF Truncate, GoTo, TypeOK, At, Writes
  <2>2. x.cost = worker[w].cost /\ x.image = worker[w].image
    BY <1>1 DEF TypeOK, Requests
  <2> HIDE DEF x
  <2> QED BY <1>1, <2>1, <2>2, HonestSame DEF Writes
<1>13. ASSUME NEW w \in Workers, Flush(w)
       PROVE  Honest'
  <2>1. PICK x \in Requests : Goes(w, x) /\ x.step \in {"idle", "remember"}
    BY <1>13, DoneGoes DEF Bound, Flush, At
  <2>2. \A v \in Workers : worker'[v] = IF v = w THEN x ELSE worker[v]
    BY <1>1, <2>1 DEF Goes, TypeOK
  <2>3. /\ billed \in Nat /\ worker[w].image \in Nat /\ worker[w].cost \in Nat
        /\ billed' = billed + worker[w].cost /\ worker[w].image <= billed'
        /\ ledger' \in {worker[w].image, Garbled}
    BY <1>1, <1>13 DEF TypeOK, Requests, Flush, Honest, Writes, At
  <2>4. Parsed' <= billed'
    BY <2>3 DEF Parsed
  <2>5. \A v \in Workers : worker[v].image \in Nat /\ worker[v].cost \in Nat
    BY <1>1 DEF TypeOK, Requests
  <2>6. \A v \in Workers : Writes(v)' => worker'[v].image <= billed' + worker'[v].cost
    BY <2>1, <2>2, <2>3, <2>5 DEF Writes, Honest
  <2> QED BY <2>4, <2>6 DEF Honest
<1>14. ASSUME NEW w \in Workers, Remember(w) \/ Crash(w)
       PROVE  Honest'
  BY <1>2, <1>14 DEF Remember, Crash, Idle
<1>15. CASE UNCHANGED vars
  BY <1>15 DEF vars, Honest, Parsed, Writes
<1> QED BY <1>5, <1>6, <1>7, <1>8, <1>9, <1>10, <1>11, <1>12, <1>13, <1>14, <1>15
     DEF Next, Step

\* With no request under way, no cell is left.
LEMMA BalancedGives ==
  ASSUME Bound, Balanced, Honest
  PROVE  CallsBilled
<1>1. SUFFICES ASSUME \A w \in Workers : At(w, "idle")
               PROVE  /\ Parsed <= paid - unbilled + booked
                      /\ ~spoiled => ledger = paid - unbilled + booked
  BY DEF CallsBilled
<1>2. Cells([w \in Workers |-> Unrecorded(worker[w])]) = {}
  BY <1>1 DEF Cells, At, Unrecorded
<1>3. UnderWay = 0
  BY <1>2, FS_EmptySet DEF UnderWay
<1>4. billed = paid - unbilled + booked
  BY <1>3 DEF Balanced, Bound, TypeOK
<1>5. ~spoiled => ledger = billed
  BY <1>1 DEF Bound, Shown, At
<1> QED BY <1>4, <1>5 DEF Honest

-----------------------------------------------------------------------------
(* The theorems. *)

\* The bound is an invariant of the gateway.
LEMMA BoundHolds == ASSUME AIGatewayAssumption PROVE Spec => []Bound
<1>1. Init => Bound
  BY BoundInit
<1>2. Bound /\ [Next]_vars => Bound'
  BY BoundNext
<1> QED BY <1>1, <1>2, PTL DEF Spec

\* Ledger, memory and requests keep their types: no request pays for more than
\* two calls.
THEOREM TypeCorrect == ASSUME AIGatewayAssumption PROVE Spec => []TypeOK
<1>1. Bound => TypeOK
  BY DEF Bound
<1> QED BY <1>1, BoundHolds, PTL

\* The gate bounds the ledger (gateway.py:149) for any number of threads, any
\* limit, ceiling and costs, as long as no two rewrites of it overlap, none is read
\* half done and none is cut short.
THEOREM OverspendIsBounded == ASSUME AIGatewayAssumption PROVE Spec => []OverspendBounded
<1>1. Bound => OverspendBounded
  BY BoundGives
<1> QED BY <1>1, BoundHolds, PTL

\* A triage that was answered is in the memory (triage_engine.py:130), for any
\* number of threads that triage, fail and die at once.
THEOREM TriagesAreRemembered == ASSUME AIGatewayAssumption PROVE Spec => []TriagesRemembered
<1>1. Init => Numbered
  BY NumberedInit
<1>2. Bound /\ Numbered /\ [Next]_vars => Numbered'
  BY NumberedNext DEF Bound
<1>3. Numbered => TriagesRemembered
  BY DEF Numbered, TriagesRemembered, Pending
<1> QED BY <1>1, <1>2, <1>3, BoundHolds, PTL DEF Spec

\* Between requests the ledger has every call of the model but those whose request
\* failed after it (gateway.py:184), and every job, as long as no two rewrites of it
\* overlap, none is read half done and none is cut short; and never more than that:
\* for any number of threads and any costs.
THEOREM CallsAreBilled == ASSUME AIGatewayAssumption PROVE Spec => []CallsBilled
<1>1. Init => Balanced
  BY BalancedInit
<1>2. Bound /\ Balanced /\ [Next]_vars => Balanced'
  BY BalancedNext
<1>3. Init => Honest
  BY HonestInit
<1>4. Bound /\ Honest /\ [Next]_vars => Honest'
  BY HonestNext
<1>5. Bound /\ Balanced /\ Honest => CallsBilled
  BY BalancedGives
<1> QED BY <1>1, <1>2, <1>3, <1>4, <1>5, BoundHolds, PTL DEF Spec

=============================================================================
