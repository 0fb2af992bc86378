-------------------------------- MODULE Budget --------------------------------
(***************************************************************************)
(* The billing ledger file shared by every job of the workspace, and the   *)
(* two requests that change it: the guardrails of POST /apply (guards.py), *)
(* which read what the tenant has spent, decide, and then record the new   *)
(* estimate, and the actuals written when a job ends (executor.py).        *)
(*                                                                         *)
(* A rewrite of the file is a load, a truncation by open(path, "w") and a  *)
(* flush, as for the execution record; what cannot be parsed loads as an   *)
(* empty ledger.  Reasons to refuse other than the monthly budget end the  *)
(* request before it touches the ledger, and WARN goes on as ALLOW does;   *)
(* neither is modelled here.                                               *)
(***************************************************************************)
EXTENDS LedgerEntries

CONSTANTS
  Workers,      \* threads of the server's pool
  Costs,        \* costs a request may carry
  Limit,        \* [Tenants -> Nat], budgets.json
  MaxMonth, MaxRequests, MaxCrashes,   \* bounds
  Absent, Empty, Garbled               \* contents that are no ledger

VARIABLES
  file,       \* content of .copilot/billing/ledger.json
  worker,     \* what each thread is doing
  month,      \* utc_month_key()
  granted,    \* estimates the policy let through (history)
  reported,   \* the last cost reported of each id since its last grant, 0 as
              \* long as none was known (history)
  requests, crashes

vars == <<file, worker, month, granted, reported, requests, crashes>>

BudgetAssumption ==
  /\ Costs \subseteq Nat \ {0}
  /\ Limit \in [Tenants -> Nat]
  /\ MaxMonth \in Nat /\ MaxRequests \in Nat /\ MaxCrashes \in Nat
  /\ \A c \in {Absent, Empty, Garbled} : c \notin Seq(Entry)
  /\ Tenants # {} /\ Builds # {}
ASSUME BudgetAssumption

Worker == [step : {"idle", "check", "load", "open", "flush"},
           kind : {"estimate", "actual"},
           id : Ids, month : Nat, cost : Nat, image : Seq(Entry)]

TypeOK ==
  /\ file \in Seq(Entry) \cup {Absent, Empty, Garbled}
  /\ worker \in [Workers -> Worker]
  /\ month \in Nat
  /\ granted \subseteq Ids \X Nat \X Nat
  /\ reported \subseteq Ids \X Nat
  /\ requests \in Nat /\ crashes \in Nat

Idle == [step |-> "idle", kind |-> "estimate", id |-> CHOOSE id \in Ids : TRUE,
         month |-> 0, cost |-> 0, image |-> <<>>]

\* LedgerStore._load: any error reads as an empty ledger.
Parsed == IF file \in {Absent, Empty, Garbled} THEN <<>> ELSE file

-----------------------------------------------------------------------------
Receive(w, step, kind, id, cost) ==
  /\ worker[w].step = "idle"
  /\ requests < MaxRequests
  /\ requests' = requests + 1
  /\ worker' = [worker EXCEPT ![w] =
       [step |-> step, kind |-> kind, id |-> id, month |-> month, cost |-> cost,
        image |-> <<>>]]
  /\ UNCHANGED <<file, month, granted, reported, crashes>>

ReceiveApply(w) ==
  \E id \in Ids, cost \in Costs : Receive(w, "check", "estimate", id, cost)

\* A job ends whose last apply carried this cost; 0 if it was run unapplied.
ReceiveEnd(w) ==
  \E id \in Ids, cost \in Costs \cup {0} : Receive(w, "load", "actual", id, cost)

\* Mutant of OverBudget: the new estimate itself is not counted.
OverBudgetBefore(t, m, cost) == Spent(Parsed, t, m, "est") >= Limit[t]

\* The budget rule of evaluate_execution_policy, on what the tenant has spent.
OverBudget(t, m, cost) ==
  LET spent == Spent(Parsed, t, m, "est")
  IN spent >= Limit[t] \/ spent + cost > Limit[t]

Refuse(w) ==
  /\ worker[w].step = "check"
  /\ OverBudget(worker[w].id[1], worker[w].month, worker[w].cost)
  /\ worker' = [worker EXCEPT ![w] = Idle]
  /\ UNCHANGED <<file, month, granted, reported, requests, crashes>>

Grant(w) ==
  /\ worker[w].step = "check"
  /\ ~OverBudget(worker[w].id[1], worker[w].month, worker[w].cost)
  /\ worker' = [worker EXCEPT ![w].step = "load"]
  /\ granted' = granted \cup {<<worker[w].id, worker[w].month, worker[w].cost>>}
  /\ reported' = {r \in reported : r[1] # worker[w].id}
  /\ UNCHANGED <<file, month, requests, crashes>>

\* What has been reported once an end of this cost is: a null cost says
\* nothing about one that was reported before.
Reported(id, cost) ==
  IF cost = 0 /\ \E r \in reported : r[1] = id THEN reported
  ELSE {r \in reported : r[1] # id} \cup {<<id, cost>>}

\* The ledger is read again, and changed in memory.
Load(w) ==
  LET v == worker[w] IN
  /\ v.step = "load"
  /\ worker' = [worker EXCEPT
       ![w].image = IF v.kind = "estimate"
                    THEN UpsertEstimate(Parsed, v.id, v.month, v.cost)
                    ELSE UpsertActual(Parsed, v.id, v.month, v.cost),
       ![w].step = "open"]
  /\ reported' = IF v.kind = "actual" THEN Reported(v.id, v.cost) ELSE reported
  /\ UNCHANGED <<file, month, granted, requests, crashes>>

Truncate(w) ==
  /\ worker[w].step = "open"
  /\ file' = Empty
  /\ worker' = [worker EXCEPT ![w].step = "flush"]
  /\ UNCHANGED <<month, granted, reported, requests, crashes>>

\* A shorter text over a longer one leaves a tail that does not parse.
Flush(w) ==
  /\ worker[w].step = "flush"
  /\ file' \in {worker[w].image} \cup (IF file = Empty THEN {} ELSE {Garbled})
  /\ worker' = [worker EXCEPT ![w] = Idle]
  /\ UNCHANGED <<month, granted, reported, requests, crashes>>

-----------------------------------------------------------------------------
NextMonth ==
  /\ month < MaxMonth
  /\ month' = month + 1
  /\ UNCHANGED <<file, worker, granted, reported, requests, crashes>>

\* The server process dies and restarts.
Crash ==
  /\ crashes < MaxCrashes
  /\ crashes' = crashes + 1
  /\ worker' = [w \in Workers |-> Idle]
  /\ UNCHANGED <<file, month, granted, reported, requests>>

AtRest == \A w \in Workers : worker[w].step = "idle"

\* All requests served: the only state in which the server has nothing to do.
Quiet == AtRest /\ requests = MaxRequests /\ UNCHANGED vars

Init ==
  /\ file = Absent
  /\ worker = [w \in Workers |-> Idle]
  /\ month = 0
  /\ granted = {} /\ reported = {}
  /\ requests = 0 /\ crashes = 0

Next ==
  \/ \E w \in Workers :
       \/ ReceiveApply(w) \/ ReceiveEnd(w) \/ Refuse(w) \/ Grant(w)
       \/ Load(w) \/ Truncate(w) \/ Flush(w)
  \/ NextMonth \/ Crash \/ Quiet

Spec == Init /\ [][Next]_vars

-----------------------------------------------------------------------------
(* Properties that hold whatever the threads do. *)

\* The ledger on disk and the ledgers requests are about to write.
Ledgers == {Parsed} \cup {worker[w].image : w \in Workers}

\* No interleaving makes a second entry with the id of another: a tenant is
\* not charged twice for one build (upsert_estimate, upsert_actual).
OneEntryPerId == \A s \in Ledgers : UniqueIds(s)

\* Lost and torn writes can drop entries but invent none: an estimate was
\* granted to that tenant, build and month.
EstimatesWereGranted ==
  \A s \in Ledgers : \A i \in 1..Len(s) :
    s[i].est = 0 \/ <<s[i].id, s[i].month, s[i].est>> \in granted

-----------------------------------------------------------------------------
(* Properties of a server that handles one request at a time. *)

\* What the ledger shows a tenant to have spent in a month stays within the
\* limit, also when a build is applied again at another cost or a restart
\* has emptied the ledger ("Monthly budgets block executions").
WithinBudget ==
  \A t \in Tenants, m \in 0..MaxMonth : Spent(Parsed, t, m, "est") <= Limit[t]

\* Every estimate the policy let through is in the ledger once the requests
\* are over ("fcntl ensures all writes are serialised").
GrantsKept ==
  AtRest /\ crashes = 0 => \A g \in granted : Has(Parsed, g[1])

\* The cost last reported of a job stays in the ledger until it is applied
\* again, also when it ends once more with no cost known (upsert_actual).
ActualsKept ==
  AtRest /\ crashes = 0 =>
    \A r \in reported : \E i \in 1..Len(Parsed) :
      /\ Parsed[i].id = r[1] /\ Parsed[i].closed
      /\ r[2] = 0 \/ Parsed[i].act = r[2]

\* "Idempotent key handled by LedgerStore.upsert_estimate()": an apply whose
\* estimate is already in the ledger is not refused.
ReapplyAccepted ==
  [][\A w \in Workers : Refuse(w) =>
       ~\E i \in 1..Len(Parsed) :
          /\ Parsed[i].id = worker[w].id /\ Parsed[i].month = worker[w].month
          /\ Parsed[i].est = worker[w].cost]_vars

=============================================================================
