---------------------------- MODULE LedgerEntries ----------------------------
(***************************************************************************)
(* The billing ledger as a list of entries, and what LedgerStore           *)
(* (app/core/billing/ledger.py) does to the list it has parsed.  Costs are *)
(* whole units.  An entry id stands for "tenant:build:job".                *)
(***************************************************************************)
EXTENDS Naturals, Sequences, Functions

CONSTANTS Tenants, Builds

Ids == Tenants \X Builds

\* act and closed: actual_cost_usd (0 when null) and whether finished_ts is set.
Entry == [id : Ids, month : Nat, est : Nat, act : Nat, closed : BOOLEAN]

Has(s, id) == \E i \in 1..Len(s) : s[i].id = id

\* The entry the loops of upsert_estimate and upsert_actual stop at.
First(s, id) ==
  CHOOSE i \in 1..Len(s) : s[i].id = id /\ \A j \in 1..(i - 1) : s[j].id # id

\* Mutants of UpsertEstimate: no actuals in the new entry, the wrong entry
\* replaced, none replaced.
UpsertBareEstimate(s, id, month, cost) ==
  Append(s, [id |-> id, month |-> month, est |-> cost])

UpsertAtHead(s, id, month, cost) ==
  LET e == [id |-> id, month |-> month, est |-> cost, act |-> 0, closed |-> FALSE]
  IN IF s = <<>> THEN <<e>> ELSE [s EXCEPT ![1] = e]

AppendEstimate(s, id, month, cost) ==
  Append(s, [id |-> id, month |-> month, est |-> cost, act |-> 0, closed |-> FALSE])

\* The whole entry is replaced, its month and its actuals included.
UpsertEstimate(s, id, month, cost) ==
  LET e == [id |-> id, month |-> month, est |-> cost, act |-> 0, closed |-> FALSE]
  IN IF Has(s, id) THEN [s EXCEPT ![First(s, id)] = e] ELSE Append(s, e)

\* Mutants of UpsertActual: a null cost wipes the one on file, a cost without
\* an estimate is taken for one.
UpsertNullActual(s, id, month, cost) ==
  IF Has(s, id)
  THEN [s EXCEPT ![First(s, id)].act = cost, ![First(s, id)].closed = TRUE]
  ELSE Append(s, [id |-> id, month |-> month, est |-> 0, act |-> cost,
                  closed |-> TRUE])

UpsertActualAsEstimate(s, id, month, cost) ==
  IF Has(s, id)
  THEN [s EXCEPT ![First(s, id)].act = cost, ![First(s, id)].closed = TRUE]
  ELSE Append(s, [id |-> id, month |-> month, est |-> cost, act |-> cost,
                  closed |-> TRUE])

\* Actuals go to the entry whatever its month; without one, a new entry with
\* no estimate takes them.  Cost 0 is a null cost: it leaves what is there.
UpsertActual(s, id, month, cost) ==
  IF Has(s, id)
  THEN [s EXCEPT ![First(s, id)].act = IF cost = 0 THEN @ ELSE cost,
                 ![First(s, id)].closed = TRUE]
  ELSE Append(s, [id |-> id, month |-> month, est |-> 0, act |-> cost,
                  closed |-> TRUE])

\* spent_usd and spent_actual_usd of a tenant in a month.
Spent(s, t, month, f) ==
  LET Counted == {i \in 1..Len(s) : s[i].id[1] = t /\ s[i].month = month}
  IN SumFunctionOnSet([i \in 1..Len(s) |-> s[i][f]], Counted)

UniqueIds(s) == \A i, j \in 1..Len(s) : s[i].id = s[j].id => i = j

=============================================================================
