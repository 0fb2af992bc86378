---------------------------- MODULE LifecycleStore ----------------------------
(***************************************************************************)
(* The shared run store of app/core/execution/lifecycle.py: a dictionary   *)
(* of mutable objects, saved to one JSON file under a lock, served by the  *)
(* endpoints of executions_lifecycle.py and by the periodic reconcile of   *)
(* main.py.                                                                *)
(*                                                                         *)
(* get() and list() hand out the objects themselves.  The handlers test    *)
(* and change them with no lock, field by field, and then put() them: put  *)
(* stores the object under its run and saves every run, under the lock.    *)
(* An object is named by its run and a copy number, so that a request can  *)
(* still hold the object a create has replaced.  A stale object is one     *)
(* whose updated_ts is older than the cutoff of a reconcile.               *)
(***************************************************************************)
EXTENDS Naturals

CONSTANTS
  Runs,
  Workers,      \* threads of the server's pool
  Loop,         \* the periodic reconcile, on the event loop's thread
  MaxCopies,    \* bound: objects of one run alive at a time
  MaxRequests, MaxCrashes,
  Torn          \* a file cut short by a crash, or not there yet

VARIABLES
  heap,      \* the objects
  current,   \* the copy the dictionary holds for a run, 0 if none
  disk,      \* lifecycle_store.json
  holder,    \* the thread that holds the store's lock, or "none"
  worker, requests, crashes

vars == <<heap, current, disk, holder, worker, requests, crashes>>

Status == {"PENDING", "RUNNING", "CANCELING", "SUCCEEDED", "FAILED", "CANCELED"}
TerminalStatuses == {"SUCCEEDED", "FAILED", "CANCELED"}
ActiveStatuses == {"PENDING", "RUNNING", "CANCELING"}
RetryableStatuses == {"FAILED", "CANCELED"}

Threads == Workers \cup {Loop}
Copies == 1..MaxCopies

Object == [status : Status, cancel : BOOLEAN, retries : Nat, stale : BOOLEAN]
Saved == [status : Status, cancel : BOOLEAN, retries : Nat]
Missing == [status |-> "none"]

Worker == [op : {"none", "create", "cancel", "retry", "reconcile"},
           step : {"idle", "get", "list", "next", "check", "flag", "settle",
                   "put", "truncate", "write"},
           run : Runs, copy : 0..MaxCopies, verdict : Status,
           left : SUBSET (Runs \X Copies),
           image : [Runs -> Saved \cup {Missing}]]

LifecycleAssumption ==
  /\ Runs # {} /\ Loop \notin Workers /\ "none" \notin Threads
  /\ MaxCopies \in Nat \ {0} /\ MaxRequests \in Nat /\ MaxCrashes \in Nat
  /\ Torn \notin [Runs -> Saved \cup {Missing}]
ASSUME LifecycleAssumption

TypeOK ==
  /\ heap \in [Runs \X Copies -> Object]
  /\ current \in [Runs -> 0..MaxCopies]
  /\ disk \in [Runs -> Saved \cup {Missing}] \cup {Torn}
  /\ holder \in Threads \cup {"none"}
  /\ worker \in [Threads -> Worker]
  /\ requests \in Nat /\ crashes \in Nat

Nothing == [r \in Runs |-> Missing]

Idle == [op |-> "none", step |-> "idle", run |-> CHOOSE r \in Runs : TRUE,
         copy |-> 0, verdict |-> "PENDING", left |-> {}, image |-> Nothing]

\* Mutant of Persisted: retry_count is not saved.
PersistedWithoutRetries(o) == [status |-> o.status, cancel |-> o.cancel]

\* What _save writes of an object, and of the whole dictionary.  asdict reads
\* field after field; a change it meets halfway is followed by a put, so the
\* whole is taken here as one reading.
Persisted(o) == [status |-> o.status, cancel |-> o.cancel, retries |-> o.retries]
Snapshot(cur) ==
  [r \in Runs |-> IF cur[r] = 0 THEN Missing ELSE Persisted(heap[<<r, cur[r]>>])]

-----------------------------------------------------------------------------
(* Requests. *)

Receive(w, start) ==
  /\ w \in Workers /\ worker[w].step = "idle"
  /\ requests < MaxRequests
  /\ requests' = requests + 1
  /\ worker' = [worker EXCEPT ![w] = start]

\* create_run makes a new object, RUNNING, whatever the run was before.
ReceiveCreate(w, r) ==
  \E k \in Copies :
    /\ k # current[r]
    /\ \A v \in Threads : /\ ~(worker[v].run = r /\ worker[v].copy = k)
                          /\ <<r, k>> \notin worker[v].left
    /\ heap' = [heap EXCEPT ![<<r, k>>] =
         [status |-> "RUNNING", cancel |-> FALSE, retries |-> 0, stale |-> FALSE]]
    /\ Receive(w, [Idle EXCEPT !.op = "create", !.step = "put", !.run = r, !.copy = k])
    /\ UNCHANGED <<current, disk, holder, crashes>>

ReceiveCancelOrRetry(w, r) ==
  /\ \E op \in {"cancel", "retry"} :
       Receive(w, [Idle EXCEPT !.op = op, !.step = "get", !.run = r])
  /\ UNCHANGED <<heap, current, disk, holder, crashes>>

ReceiveReconcile(w) ==
  /\ Receive(w, [Idle EXCEPT !.op = "reconcile", !.step = "list"])
  /\ UNCHANGED <<heap, current, disk, holder, crashes>>

\* _periodic_reconcile wakes up.
Tick ==
  /\ worker[Loop].step = "idle"
  /\ worker' = [worker EXCEPT ![Loop] =
       [Idle EXCEPT !.op = "reconcile", !.step = "list"]]
  /\ UNCHANGED <<heap, current, disk, holder, requests, crashes>>

-----------------------------------------------------------------------------
(* Handlers. *)

At(w, step) == worker[w].step = step

\* A request is over; a reconcile goes on with the next run.
Done(w) ==
  worker' = [worker EXCEPT ![w] =
    IF @.op = "reconcile"
    THEN [@ EXCEPT !.step = "next", !.copy = 0, !.image = Nothing]
    ELSE Idle]

Get(w) ==
  LET r == worker[w].run IN
  /\ At(w, "get") /\ holder = "none"
  /\ IF current[r] = 0
     THEN Done(w)
     ELSE worker' = [worker EXCEPT ![w].copy = current[r], ![w].step = "check"]
  /\ UNCHANGED <<heap, current, disk, holder, requests, crashes>>

\* Mutant of List: the reconcile looks at running runs only.
ListRunning(w) ==
  /\ At(w, "list") /\ holder = "none"
  /\ worker' = [worker EXCEPT ![w].step = "next",
       ![w].left = {<<r, current[r]>> : r \in {q \in Runs :
         current[q] # 0 /\ heap[<<q, current[q]>>].status = "RUNNING"}}]
  /\ UNCHANGED <<heap, current, disk, holder, requests, crashes>>

List(w) ==
  /\ At(w, "list") /\ holder = "none"
  /\ worker' = [worker EXCEPT ![w].step = "next",
       ![w].left = {<<r, current[r]>> : r \in {q \in Runs : current[q] # 0}}]
  /\ UNCHANGED <<heap, current, disk, holder, requests, crashes>>

NextRun(w) ==
  /\ At(w, "next")
  /\ \/ /\ worker[w].left = {}
        /\ worker' = [worker EXCEPT ![w] = Idle]
     \/ \E o \in worker[w].left :
          worker' = [worker EXCEPT ![w].left = @ \ {o}, ![w].run = o[1],
                                   ![w].copy = o[2], ![w].step = "check"]
  /\ UNCHANGED <<heap, current, disk, holder, requests, crashes>>

Held(w) == heap[<<worker[w].run, worker[w].copy>>]

\* The tests of request_cancel, request_retry and reconcile_stale_runs.
Check(w) ==
  LET o == Held(w) IN
  /\ At(w, "check")
  /\ CASE worker[w].op = "cancel" ->
            IF o.status \in TerminalStatuses THEN Done(w)
            ELSE worker' = [worker EXCEPT ![w].step = "flag", ![w].verdict = "CANCELING"]
       [] worker[w].op = "retry" ->
            IF o.status \notin RetryableStatuses THEN Done(w)
            ELSE worker' = [worker EXCEPT ![w].step = "flag", ![w].verdict = "PENDING"]
       [] OTHER ->
            IF o.status \in TerminalStatuses \/ ~o.stale THEN Done(w)
            ELSE worker' = [worker EXCEPT ![w].step = "settle",
                   ![w].verdict = IF o.cancel THEN "CANCELED" ELSE "FAILED"]
  /\ UNCHANGED <<heap, current, disk, holder, requests, crashes>>

\* The fields set before the status.
Flag(w) ==
  LET o == Held(w) IN
  /\ At(w, "flag")
  /\ heap' = [heap EXCEPT ![<<worker[w].run, worker[w].copy>>] =
       IF worker[w].op = "cancel" THEN [o EXCEPT !.cancel = TRUE]
       ELSE [o EXCEPT !.cancel = FALSE, !.retries = o.retries + 1]]
  /\ worker' = [worker EXCEPT ![w].step = "settle"]
  /\ UNCHANGED <<current, disk, holder, requests, crashes>>

\* The status and updated_ts.
Settle(w) ==
  /\ At(w, "settle")
  /\ heap' = [heap EXCEPT ![<<worker[w].run, worker[w].copy>>].status =
                worker[w].verdict,
              ![<<worker[w].run, worker[w].copy>>].stale = FALSE]
  /\ worker' = [worker EXCEPT ![w].step = "put"]
  /\ UNCHANGED <<current, disk, holder, requests, crashes>>

-----------------------------------------------------------------------------
(* ExecutionStore.put: under the lock, the dictionary is serialised, the   *)
(* file truncated and written.                                             *)

\* Mutant of Put: the file is saved after the lock is released.
PutUnlocked(w) ==
  LET cur == [current EXCEPT ![worker[w].run] = worker[w].copy] IN
  /\ At(w, "put") /\ holder = "none"
  /\ current' = cur
  /\ worker' = [worker EXCEPT ![w].step = "truncate", ![w].image = Snapshot(cur)]
  /\ UNCHANGED <<heap, disk, holder, requests, crashes>>

Put(w) ==
  LET cur == [current EXCEPT ![worker[w].run] = worker[w].copy] IN
  /\ At(w, "put") /\ holder = "none"
  /\ holder' = w
  /\ current' = cur
  /\ worker' = [worker EXCEPT ![w].step = "truncate", ![w].image = Snapshot(cur)]
  /\ UNCHANGED <<heap, disk, requests, crashes>>

Truncate(w) ==
  /\ At(w, "truncate")
  /\ disk' = Torn
  /\ worker' = [worker EXCEPT ![w].step = "write"]
  /\ UNCHANGED <<heap, current, holder, requests, crashes>>

Write(w) ==
  /\ At(w, "write")
  /\ disk' = worker[w].image
  /\ holder' = "none"
  /\ Done(w)
  /\ UNCHANGED <<heap, current, requests, crashes>>

-----------------------------------------------------------------------------
(* The environment. *)

Age(r) ==
  /\ current[r] # 0 /\ ~heap[<<r, current[r]>>].stale
  /\ heap' = [heap EXCEPT ![<<r, current[r]>>].stale = TRUE]
  /\ UNCHANGED <<current, disk, holder, worker, requests, crashes>>

\* The server restarts and loads the file; a torn file loads as no runs.
Crash ==
  /\ crashes < MaxCrashes
  /\ crashes' = crashes + 1
  /\ worker' = [w \in Threads |-> Idle]
  /\ holder' = "none"
  /\ current' = [r \in Runs |->
       IF disk = Torn THEN 0 ELSE IF disk[r] = Missing THEN 0 ELSE 1]
  /\ heap' = [o \in Runs \X Copies |->
       IF disk # Torn /\ o[2] = 1 /\ disk[o[1]] # Missing
       THEN [status |-> disk[o[1]].status, cancel |-> disk[o[1]].cancel,
             retries |-> disk[o[1]].retries, stale |-> FALSE]
       ELSE [status |-> "PENDING", cancel |-> FALSE, retries |-> 0, stale |-> FALSE]]
  /\ UNCHANGED <<disk, requests>>

Init ==
  /\ heap = [o \in Runs \X Copies |->
       [status |-> "PENDING", cancel |-> FALSE, retries |-> 0, stale |-> FALSE]]
  /\ current = [r \in Runs |-> 0]
  /\ disk = Torn
  /\ holder = "none"
  /\ worker = [w \in Threads |-> Idle]
  /\ requests = 0 /\ crashes = 0

Serve(w) ==
  \/ Get(w) \/ List(w) \/ NextRun(w) \/ Check(w) \/ Flag(w) \/ Settle(w)
  \/ Put(w) \/ Truncate(w) \/ Write(w)

Next ==
  \/ \E w \in Workers :
       \/ \E r \in Runs : ReceiveCreate(w, r) \/ ReceiveCancelOrRetry(w, r)
       \/ ReceiveReconcile(w)
  \/ Tick
  \/ \E w \in Threads : Serve(w)
  \/ \E r \in Runs : Age(r)
  \/ Crash

Spec == Init /\ [][Next]_vars

\* Threads run on, the periodic task never ends, and time passes.
Fairness ==
  /\ \A w \in Threads : WF_vars(Serve(w))
  /\ WF_vars(Tick)
  /\ \A r \in Runs : WF_vars(Age(r))

FairSpec == Spec /\ Fairness

-----------------------------------------------------------------------------
(* Properties. *)

AtRest == \A w \in Threads : worker[w].step \in {"idle", "list", "next", "get"}

OnDisk == IF disk = Torn THEN Nothing ELSE disk

\* Although objects are changed without the lock and a put saves what other
\* requests have half changed, the file agrees with memory whenever no
\* request is between a change and the end of its put.
DiskMatchesMemory == AtRest => OnDisk = Snapshot(current)

\* Every run ends, or is lost with the file: the periodic reconcile catches
\* the runs no one else moves, across restarts.
RunsSettle ==
  \A r \in Runs :
    (current[r] # 0) ~>
      (current[r] = 0 \/ heap[<<r, current[r]>>].status \in TerminalStatuses)

=============================================================================
