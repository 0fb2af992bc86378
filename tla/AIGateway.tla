------------------------------ MODULE AIGateway ------------------------------
(***************************************************************************)
(* The language-model gateway of one tenant in one month (ai/gateway.py)   *)
(* and the requests that reach it: completions, failure triages with the   *)
(* memory they are kept in (triage_engine.py, memory_store.py), the gaps   *)
(* of an intent (intent_hybrid.py) and explanations (llm_advisor.py).      *)
(*                                                                         *)
(* The gate compares what the ledger has recorded, plus a ceiling, with    *)
(* the tenant's limit; then the model is called, a second time if its      *)
(* answer is no JSON; the cost is recorded at the end.  The ledger is the  *)
(* one jobs are booked in, and both rewrite it as Budget has it: loaded,   *)
(* truncated, written, with no lock over the three.  Here its contents are *)
(* what its entries of the tenant and the month cost together.             *)
(***************************************************************************)
EXTENDS Integers, FiniteSets

CONSTANTS
  Workers,
  Limit,        \* get_tenant_monthly_budget
  Ceiling,      \* the cost of 2000 + 2000 tokens
  Costs,        \* of one call of the model, or of a job
  MaxCost,      \* the highest of them
  MaxRequests, MaxCrashes

\* MCServices assumes this of the instance it checks.
AIGatewayAssumption ==
  /\ Limit \in Nat /\ Ceiling \in Nat /\ MaxCost \in Nat
  /\ MaxRequests \in Nat /\ MaxCrashes \in Nat
  /\ Costs \subseteq 0..MaxCost
  /\ IsFiniteSet(Workers)

VARIABLES
  ledger,       \* spent_actual_usd of the file, or a content that is no ledger
  memory,       \* the triages in the tenant's memory, by request
  worker, requests, crashes,
  billed,       \* history: what was written to the ledger, by calls and by jobs,
  booked,       \*   and by jobs alone
  paid,         \* history: what all calls of the model have cost
  unbilled,     \* history: what those cost whose request failed
  asked,        \* history: the triages that were not cut short
  spoiled       \* history: an update was lost, or an empty file read as no costs

vars == <<ledger, memory, worker, requests, crashes, billed, booked, paid, unbilled,
          asked, spoiled>>

Empty == -1     \* truncated
Garbled == -2   \* a short text over a long one

\* "image" is the ledger about to be written.
Requests == [step : {"idle", "gate", "call", "retry", "record", "truncate", "flush",
                     "remember"},
             job : BOOLEAN, triage : BOOLEAN, json : BOOLEAN, id : 0..MaxRequests,
             cost : 0..(2 * MaxCost), image : Nat]

TypeOK ==
  /\ ledger \in Nat \cup {Empty, Garbled} /\ memory \subseteq 1..MaxRequests
  /\ worker \in [Workers -> Requests]
  /\ requests \in 0..MaxRequests /\ crashes \in 0..MaxCrashes
  /\ billed \in Nat /\ booked \in Nat /\ paid \in Nat /\ unbilled \in Nat
  /\ asked \subseteq 1..MaxRequests /\ spoiled \in BOOLEAN

Idle == [step |-> "idle", job |-> FALSE, triage |-> FALSE, json |-> FALSE, id |-> 0,
         cost |-> 0, image |-> 0]

Init ==
  /\ ledger = 0 /\ memory = {} /\ worker = [w \in Workers |-> Idle]
  /\ requests = 0 /\ crashes = 0
  /\ billed = 0 /\ booked = 0 /\ paid = 0 /\ unbilled = 0 /\ asked = {}
  /\ spoiled = FALSE

-----------------------------------------------------------------------------
At(w, step) == worker[w].step = step
GoTo(w, step) == worker' = [worker EXCEPT ![w].step = step]

\* Mutant of Done: a triage gives up when the gateway does.
DoneTogether(w) == worker' = [worker EXCEPT ![w] = Idle]

\* The gateway answers or raises.  A triage goes on in both cases: with the
\* model's report or with the heuristic one.
Done(w) ==
  IF worker[w].triage THEN GoTo(w, "remember") ELSE worker' = [worker EXCEPT ![w] = Idle]

\* A request comes, to go on with x.
Enter(w, x) ==
  /\ At(w, "idle") /\ requests < MaxRequests /\ requests' = requests + 1
  /\ worker' = [worker EXCEPT ![w] = x]
  /\ UNCHANGED <<ledger, memory, crashes, billed, booked, paid, unbilled, spoiled>>

\* A request reaches the gateway.
Ask(w, triage, json) ==
  /\ Enter(w, [Idle EXCEPT !.step = "gate", !.triage = triage, !.json = json,
                           !.id = requests + 1])
  /\ asked' = IF triage THEN asked \cup {requests + 1} ELSE asked

\* POST /ai/gateway/complete; a failure of the gateway is the client's.
Complete(w) == \E json \in BOOLEAN : Ask(w, FALSE, json)

\* POST /triage/failure of a job that failed, or with the text of an error.
Triage(w) == Ask(w, TRUE, TRUE)

\* POST /intent/parse with a requirement the parser is not sure of: what the
\* gateway cannot fill in stays as the parser has it.
ParseIntent(w) == Ask(w, FALSE, TRUE)

\* POST /ai/explain
Explain(w) == Ask(w, FALSE, TRUE)

\* The executor books the actuals of a job (local.py, _record_actuals): of a
\* build that has none yet.
Book(w, cost) ==
  /\ Enter(w, [Idle EXCEPT !.step = "record", !.job = TRUE, !.id = requests + 1,
                           !.cost = cost])
  /\ UNCHANGED asked

\* _load: a file that cannot be parsed has no entries.
Parsed == IF ledger \in {Empty, Garbled} THEN 0 ELSE ledger

\* Another thread has truncated the file and not written it.
HalfWritten(w) == \E v \in Workers \ {w} : At(v, "flush")

\* Mutant of Passes: the ceiling is left out.
PassesWithoutCeiling == Parsed <= Limit

\* The budget gate.
Passes == Parsed + Ceiling <= Limit

Gate(w) ==
  /\ At(w, "gate")
  /\ IF Passes THEN GoTo(w, "call") ELSE Done(w)
  /\ spoiled' = (spoiled \/ HalfWritten(w))
  /\ UNCHANGED <<ledger, memory, requests, crashes, billed, booked, paid, unbilled, asked>>

\* client.complete; an answer that is no JSON is asked for again.
Call(w, cost) ==
  /\ At(w, "call")
  /\ paid' = paid + cost
  /\ \E next \in {"record", "retry"} :
       /\ next = "retry" => worker[w].json
       /\ worker' = [worker EXCEPT ![w] = [@ EXCEPT !.step = next, !.cost = cost]]
  /\ UNCHANGED <<ledger, memory, requests, crashes, billed, booked, unbilled, asked, spoiled>>

\* Mutant of Retry: the first call is forgotten.
RetryOnly(w, cost) ==
  /\ At(w, "retry")
  /\ paid' = paid + cost
  /\ \/ /\ worker' = [worker EXCEPT ![w] = [@ EXCEPT !.step = "record", !.cost = cost]]
        /\ UNCHANGED unbilled
     \/ Done(w) /\ unbilled' = unbilled + worker[w].cost + cost
  /\ UNCHANGED <<ledger, memory, requests, crashes, billed, booked, asked, spoiled>>

\* Mutant of Retry: the model is asked until its answer is JSON.
RetryUntilJson(w, cost) ==
  /\ At(w, "retry")
  /\ paid' = paid + cost
  /\ \E next \in {"retry", "record"} :
       worker' = [worker EXCEPT ![w] =
         [@ EXCEPT !.step = next, !.cost = worker[w].cost + cost]]
  /\ UNCHANGED <<ledger, memory, requests, crashes, billed, booked, unbilled, asked, spoiled>>

\* The second answer; if it is no JSON either the exception leaves before the
\* cost of both is recorded.
Retry(w, cost) ==
  /\ At(w, "retry")
  /\ paid' = paid + cost
  /\ \/ /\ worker' = [worker EXCEPT ![w] =
             [@ EXCEPT !.step = "record", !.cost = worker[w].cost + cost]]
        /\ UNCHANGED unbilled
     \/ Done(w) /\ unbilled' = unbilled + worker[w].cost + cost
  /\ UNCHANGED <<ledger, memory, requests, crashes, billed, booked, asked, spoiled>>

\* The client raises, before or after the first answer.
Raise(w) ==
  /\ worker[w].step \in {"call", "retry"}
  /\ unbilled' = unbilled + worker[w].cost
  /\ Done(w)
  /\ UNCHANGED <<ledger, memory, requests, crashes, billed, booked, paid, asked, spoiled>>

\* upsert_actual, by _record_actual_cost under a build id of its own, or by the
\* executor: an entry more in what is loaded.  What another thread is about to
\* write will be gone, or what this one writes.
Load(w) ==
  /\ At(w, "record")
  /\ worker' = [worker EXCEPT ![w] =
       [@ EXCEPT !.step = "truncate", !.image = Parsed + worker[w].cost]]
  /\ spoiled' = (spoiled \/ HalfWritten(w) \/ \E v \in Workers \ {w} : At(v, "truncate"))
  /\ UNCHANGED <<ledger, memory, requests, crashes, billed, booked, paid, unbilled, asked>>

\* _save: open truncates, before the lock is taken,
Truncate(w) ==
  /\ At(w, "truncate")
  /\ ledger' = Empty /\ GoTo(w, "flush")
  /\ UNCHANGED <<memory, requests, crashes, billed, booked, paid, unbilled, asked, spoiled>>

\* and the text is there when the file is closed.
Flush(w) ==
  /\ At(w, "flush")
  /\ ledger' \in {worker[w].image} \cup (IF ledger = Empty THEN {} ELSE {Garbled})
  /\ billed' = billed + worker[w].cost
  /\ booked' = IF worker[w].job THEN booked + worker[w].cost ELSE booked
  /\ Done(w)
  /\ UNCHANGED <<memory, requests, crashes, paid, unbilled, asked, spoiled>>

\* A line more in the tenant's file, in one write.
AddDocument(id) == memory' = memory \cup {id}

\* The report is kept with the error's text; then the triage is answered.
Remember(w) ==
  /\ At(w, "remember")
  /\ AddDocument(worker[w].id)
  /\ worker' = [worker EXCEPT ![w] = Idle]
  /\ UNCHANGED <<ledger, requests, crashes, billed, booked, paid, unbilled, asked, spoiled>>

\* What the calls of a request have cost, and may still be recorded.
Unrecorded(x) ==
  IF x.step \in {"retry", "record", "truncate", "flush"} /\ ~x.job THEN x.cost ELSE 0

\* The thread of a request dies with its process; the calls were paid for, and a
\* file it truncated stays empty.
Crash(w) ==
  /\ ~At(w, "idle") /\ crashes < MaxCrashes /\ crashes' = crashes + 1
  /\ unbilled' = unbilled + Unrecorded(worker[w])
  /\ asked' = asked \ {worker[w].id}
  /\ spoiled' = (spoiled \/ At(w, "flush"))
  /\ worker' = [worker EXCEPT ![w] = Idle]
  /\ UNCHANGED <<ledger, memory, requests, billed, booked, paid>>

Step(w) ==
  \/ Complete(w) \/ Triage(w) \/ ParseIntent(w) \/ Explain(w)
  \/ Gate(w) \/ (\E c \in Costs : Call(w, c) \/ Retry(w, c) \/ Book(w, c))
  \/ Raise(w) \/ Load(w) \/ Truncate(w) \/ Flush(w) \/ Remember(w) \/ Crash(w)

Next == \E w \in Workers : Step(w)

Spec == Init /\ [][Next]_vars

-----------------------------------------------------------------------------
(* Properties. *)

Calling ==
  {w \in Workers : ~worker[w].job /\
     worker[w].step \in {"call", "retry", "record", "truncate", "flush"}}

\* However many calls pass the gate at once, the ledger exceeds the limit by no
\* more than each thread can have under way, twice a call's cost, less the
\* ceiling, and by what jobs cost, which nothing here can stop (gateway.py:149,
\* the race KNOWN_LIMITATIONS.md admits): until a rewrite of the ledger overlaps
\* another, is read half done or is cut short.
OverspendBounded ==
  \/ spoiled \/ ledger = Empty
  \/ ledger = booked
  \/ ledger + Ceiling <= Limit + 2 * MaxCost * Cardinality(Workers) + booked

\* When no request is under way, the ledger has every call of the model but those
\* whose request failed after it (gateway.py:184), and every job that was booked;
\* it has no more than that even after rewrites that overlapped or were cut short.
CallsBilled ==
  (\A w \in Workers : At(w, "idle")) =>
    LET due == paid - unbilled + booked IN
    Parsed <= due /\ (~spoiled => ledger = due)

\* A triage that was answered is in the memory, whatever the gateway did
\* (triage_engine.py:130).
TriagesRemembered ==
  (\A w \in Workers : At(w, "idle")) => memory = asked

=============================================================================
