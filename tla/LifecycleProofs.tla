---------------------------- MODULE LifecycleProofs ----------------------------
(***************************************************************************)
(* Proofs about LifecycleStore, for any number of runs, threads, requests  *)
(* and restarts: the types, and that the file agrees with memory whenever  *)
(* no request is between a change and the end of its put.                  *)
(*                                                                         *)
(* The objects are changed with no lock held, so the file may lag behind   *)
(* memory in many ways.  The argument is that whoever changed an object    *)
(* still has a put to make, and that a put saves every run.                *)
(***************************************************************************)
EXTENDS LifecycleStore, TLAPS

Saving == {"truncate", "write"}

\* The thread that saves is the one that holds the lock.
LockHeld ==
  \A w \in Threads : worker[w].step \in Saving <=> holder = w

SomeoneWillPut == \E w \in Threads : worker[w].step \in {"settle", "put"}

SaveIsCurrent ==
  \E w \in Threads : /\ worker[w].step \in Saving
                     /\ worker[w].image = Snapshot(current)

DiskIsCurrent ==
  /\ \A w \in Threads : worker[w].step \notin Saving
  /\ OnDisk = Snapshot(current)

\* The file has caught up with memory, or a thread is about to see to it.
CaughtUp == SomeoneWillPut \/ SaveIsCurrent \/ DiskIsCurrent

IInv == TypeOK /\ LockHeld /\ CaughtUp

-----------------------------------------------------------------------------
(* Types. *)

Files == [Runs -> Saved \cup {Missing}]

LEMMA IdleWorker ==
  /\ Idle \in Worker /\ Idle.step = "idle" /\ Nothing \in Files
  /\ \A r \in Runs : Nothing[r] = Missing
<1>1. (CHOOSE r \in Runs : TRUE) \in Runs
  BY LifecycleAssumption DEF LifecycleAssumption
<1>2. Nothing \in Files
  BY DEF Nothing, Files
<1>3. 0 \in 0..MaxCopies
  BY LifecycleAssumption DEF LifecycleAssumption
<1>4. Idle \in Worker
  BY <1>1, <1>2, <1>3 DEF Idle, Worker, Status, Files
<1> QED BY <1>2, <1>4 DEF Idle, Nothing

LEMMA SnapshotType ==
  ASSUME heap \in [Runs \X Copies -> Object], NEW cur \in [Runs -> 0..MaxCopies]
  PROVE  Snapshot(cur) \in Files
<1>1. ASSUME NEW r \in Runs, cur[r] # 0
      PROVE  Persisted(heap[<<r, cur[r]>>]) \in Saved
  <2>1. <<r, cur[r]>> \in Runs \X Copies
    BY <1>1, LifecycleAssumption DEF Copies, LifecycleAssumption
  <2>2. heap[<<r, cur[r]>>] \in Object
    BY <2>1
  <2> QED BY <2>2 DEF Persisted, Object, Saved
<1> QED BY <1>1 DEF Snapshot, Files

\* Changing one thread's state.
LEMMA WorkerSet ==
  ASSUME worker \in [Threads -> Worker], NEW w \in Threads, NEW v \in Worker,
         worker' = [worker EXCEPT ![w] = v]
  PROVE  /\ worker' \in [Threads -> Worker]
         /\ worker'[w] = v
         /\ \A u \in Threads : u # w => worker'[u] = worker[u]
OBVIOUS

-----------------------------------------------------------------------------
(* Steps that touch neither the objects nor the file. *)

LEMMA QuietStepKeeps ==
  ASSUME IInv, NEW w \in Threads, NEW v \in Worker,
         worker' = [worker EXCEPT ![w] = v],
         worker[w].step \notin {"settle", "put"} \cup Saving,
         v.step \notin Saving,
         UNCHANGED <<heap, current, disk, holder>>,
         requests' \in Nat, crashes' \in Nat
  PROVE  IInv'
<1>1. /\ worker' \in [Threads -> Worker] /\ worker'[w] = v
      /\ \A u \in Threads : u # w => worker'[u] = worker[u]
  BY WorkerSet DEF IInv, TypeOK
<1>2. TypeOK'
  BY <1>1 DEF IInv, TypeOK
<1>3. LockHeld'
  BY <1>1 DEF IInv, LockHeld
<1>4. Snapshot(current)' = Snapshot(current) /\ OnDisk' = OnDisk
  BY DEF Snapshot, OnDisk
<1>5. CASE SomeoneWillPut
  <2>1. SomeoneWillPut'
    BY <1>1, <1>5 DEF SomeoneWillPut
  <2> QED BY <1>2, <1>3, <2>1 DEF IInv, CaughtUp
<1>6. CASE SaveIsCurrent
  <2>1. SaveIsCurrent'
    BY <1>1, <1>4, <1>6 DEF SaveIsCurrent
  <2> QED BY <1>2, <1>3, <2>1 DEF IInv, CaughtUp
<1>7. CASE DiskIsCurrent
  <2>1. DiskIsCurrent'
    BY <1>1, <1>4, <1>7 DEF DiskIsCurrent
  <2> QED BY <1>2, <1>3, <2>1 DEF IInv, CaughtUp
<1> QED BY <1>5, <1>6, <1>7 DEF IInv, CaughtUp

\* The thread that has changed an object, or is about to, still has its put.
LEMMA ChangeKeeps ==
  ASSUME IInv, NEW w \in Threads, NEW v \in Worker,
         worker' = [worker EXCEPT ![w] = v],
         worker[w].step \notin Saving, v.step \in {"settle", "put"},
         heap' \in [Runs \X Copies -> Object],
         UNCHANGED <<current, disk, holder, crashes>>, requests' \in Nat
  PROVE  IInv'
<1>1. /\ worker' \in [Threads -> Worker] /\ worker'[w] = v
      /\ \A u \in Threads : u # w => worker'[u] = worker[u]
  BY WorkerSet DEF IInv, TypeOK
<1>2. TypeOK'
  BY <1>1 DEF IInv, TypeOK
<1>3. LockHeld'
  BY <1>1 DEF IInv, LockHeld, Saving
<1>4. SomeoneWillPut'
  BY <1>1 DEF SomeoneWillPut
<1> QED BY <1>2, <1>3, <1>4 DEF IInv, CaughtUp

LEMMA DoneState ==
  ASSUME IInv, NEW w \in Threads, Done(w)
  PROVE  \E v \in Worker : /\ worker' = [worker EXCEPT ![w] = v]
                          /\ v.step \in {"idle", "next"}
<1> DEFINE v == IF worker[w].op = "reconcile"
                THEN [worker[w] EXCEPT !.step = "next", !.copy = 0, !.image = Nothing]
                ELSE Idle
<1>1. 0 \in 0..MaxCopies
  BY LifecycleAssumption DEF LifecycleAssumption
<1>2. v \in Worker /\ v.step \in {"idle", "next"}
  BY <1>1, IdleWorker DEF IInv, TypeOK, Worker, Files
<1>3. worker' = [worker EXCEPT ![w] = v]
  BY DEF Done
<1> QED BY <1>2, <1>3

-----------------------------------------------------------------------------
(* Requests. *)

LEMMA ReceiveKeeps ==
  ASSUME IInv, NEW w \in Workers, NEW r \in Runs,
         ReceiveCreate(w, r) \/ ReceiveCancelOrRetry(w, r) \/ ReceiveReconcile(w)
  PROVE  IInv'
<1>1. w \in Threads /\ requests \in Nat /\ crashes \in Nat
  BY DEF Threads, IInv, TypeOK
<1>2. CASE ReceiveCreate(w, r)
  <2>1. PICK k \in Copies :
          /\ heap' = [heap EXCEPT ![<<r, k>>] =
               [status |-> "RUNNING", cancel |-> FALSE, retries |-> 0, stale |-> FALSE]]
          /\ Receive(w, [Idle EXCEPT !.op = "create", !.step = "put", !.run = r,
                                     !.copy = k])
          /\ UNCHANGED <<current, disk, holder, crashes>>
    BY <1>2 DEF ReceiveCreate
  <2> DEFINE v == [Idle EXCEPT !.op = "create", !.step = "put", !.run = r, !.copy = k]
  <2>2. k \in 0..MaxCopies
    BY LifecycleAssumption DEF Copies, LifecycleAssumption
  <2>3. v \in Worker /\ v.step = "put"
    BY <2>2, IdleWorker DEF Worker
  <2> HIDE DEF v
  <2>4. /\ worker[w].step = "idle" /\ requests' = requests + 1
        /\ worker' = [worker EXCEPT ![w] = v]
    BY <2>1 DEF Receive, v
  <2>5. heap' \in [Runs \X Copies -> Object]
    BY <2>1 DEF IInv, TypeOK, Object, Status
  <2>6. worker[w].step \notin Saving /\ v.step \in {"settle", "put"}
    BY <2>3, <2>4 DEF Saving
  <2>7. requests' \in Nat /\ UNCHANGED <<current, disk, holder, crashes>>
    BY <1>1, <2>1, <2>4
  <2> QED BY <1>1, <2>3, <2>4, <2>5, <2>6, <2>7, ChangeKeeps
<1>3. CASE ReceiveCancelOrRetry(w, r)
  <2>1. PICK op \in {"cancel", "retry"} :
          Receive(w, [Idle EXCEPT !.op = op, !.step = "get", !.run = r])
    BY <1>3 DEF ReceiveCancelOrRetry
  <2> DEFINE v == [Idle EXCEPT !.op = op, !.step = "get", !.run = r]
  <2>2. v \in Worker /\ v.step = "get"
    BY IdleWorker DEF Worker
  <2> HIDE DEF v
  <2>3. /\ worker[w].step = "idle" /\ requests' = requests + 1
        /\ worker' = [worker EXCEPT ![w] = v]
    BY <2>1 DEF Receive, v
  <2>4. /\ worker[w].step \notin {"settle", "put"} \cup Saving
        /\ v.step \notin Saving
    BY <2>2, <2>3 DEF Saving
  <2>5. /\ requests' \in Nat /\ crashes' \in Nat
        /\ UNCHANGED <<heap, current, disk, holder>>
    BY <1>1, <1>3, <2>3 DEF ReceiveCancelOrRetry
  <2> QED BY <1>1, <2>2, <2>3, <2>4, <2>5, QuietStepKeeps
<1>4. CASE ReceiveReconcile(w)
  <2> DEFINE v == [Idle EXCEPT !.op = "reconcile", !.step = "list"]
  <2>1. v \in Worker /\ v.step = "list"
    BY IdleWorker DEF Worker
  <2> HIDE DEF v
  <2>2. /\ worker[w].step = "idle" /\ requests' = requests + 1
        /\ worker' = [worker EXCEPT ![w] = v]
    BY <1>4 DEF ReceiveReconcile, Receive, v
  <2>3. /\ worker[w].step \notin {"settle", "put"} \cup Saving
        /\ v.step \notin Saving
    BY <2>1, <2>2 DEF Saving
  <2>4. /\ requests' \in Nat /\ crashes' \in Nat
        /\ UNCHANGED <<heap, current, disk, holder>>
    BY <1>1, <1>4, <2>2 DEF ReceiveReconcile
  <2> QED BY <1>1, <2>1, <2>2, <2>3, <2>4, QuietStepKeeps
<1> QED BY <1>2, <1>3, <1>4

LEMMA TickKeeps ==
  ASSUME IInv, Tick
  PROVE  IInv'
<1> DEFINE v == [Idle EXCEPT !.op = "reconcile", !.step = "list"]
<1>1. v \in Worker /\ v.step = "list" /\ Loop \in Threads
  BY IdleWorker DEF Worker, Threads
<1> HIDE DEF v
<1>2. worker[Loop].step = "idle" /\ worker' = [worker EXCEPT ![Loop] = v]
      /\ UNCHANGED <<heap, current, disk, holder, requests, crashes>>
  BY DEF Tick, v
<1> QED BY <1>1, <1>2, QuietStepKeeps DEF Saving, IInv, TypeOK

-----------------------------------------------------------------------------
(* Handlers. *)

LEMMA ReadKeeps ==
  ASSUME IInv, NEW w \in Threads, Get(w) \/ List(w) \/ NextRun(w) \/ Check(w)
  PROVE  IInv'
<1>1. /\ UNCHANGED <<heap, current, disk, holder, requests, crashes>>
      /\ worker[w].step \in {"get", "list", "next", "check"}
  BY DEF Get, List, NextRun, Check, At
<1>2. worker[w] \in Worker /\ current \in [Runs -> 0..MaxCopies]
      /\ requests' \in Nat /\ crashes' \in Nat
  BY <1>1 DEF IInv, TypeOK
<1>3. ASSUME NEW v \in Worker, worker' = [worker EXCEPT ![w] = v],
             v.step \notin Saving
      PROVE  IInv'
  <2>1. worker[w].step \notin {"settle", "put"} \cup Saving
    BY <1>1 DEF Saving
  <2> QED BY <1>1, <1>2, <1>3, <2>1, QuietStepKeeps
<1>4. CASE Done(w)
  BY <1>3, <1>4, DoneState DEF Saving
<1>5. CASE Get(w) /\ ~Done(w)
  <2> DEFINE v == [worker[w] EXCEPT !.copy = current[worker[w].run], !.step = "check"]
  <2>1. worker' = [worker EXCEPT ![w] = v]
    BY <1>2, <1>5 DEF Get, IInv, TypeOK, Worker
  <2>2. v \in Worker /\ v.step \notin Saving
    BY <1>2 DEF Worker, Saving
  <2> QED BY <1>3, <2>1, <2>2
<1>6. CASE List(w)
  <2> DEFINE left == {<<r, current[r]>> : r \in {q \in Runs : current[q] # 0}}
             v == [worker[w] EXCEPT !.step = "next", !.left = left]
  <2>1. left \subseteq Runs \X Copies
    BY <1>2, LifecycleAssumption DEF Copies, LifecycleAssumption
  <2>2. worker' = [worker EXCEPT ![w] = v]
    BY <1>6 DEF List, IInv, TypeOK
  <2> HIDE DEF left
  <2>3. v \in Worker /\ v.step \notin Saving
    BY <1>2, <2>1 DEF Worker, Saving
  <2> QED BY <1>3, <2>2, <2>3
<1>7. CASE NextRun(w)
  <2>1. CASE worker' = [worker EXCEPT ![w] = Idle]
    BY <1>3, <2>1, IdleWorker DEF Saving
  <2>2. ASSUME NEW o \in worker[w].left,
               worker' = [worker EXCEPT ![w].left = @ \ {o}, ![w].run = o[1],
                                        ![w].copy = o[2], ![w].step = "check"]
        PROVE  IInv'
    <3> DEFINE v == [worker[w] EXCEPT !.left = @ \ {o}, !.run = o[1],
                                      !.copy = o[2], !.step = "check"]
    <3>1. worker' = [worker EXCEPT ![w] = v]
      BY <2>2 DEF IInv, TypeOK
    <3>2. o \in Runs \X Copies /\ o[1] \in Runs /\ o[2] \in 0..MaxCopies
      BY <1>2, LifecycleAssumption DEF Worker, Copies, LifecycleAssumption
    <3>3. v \in Worker /\ v.step \notin Saving
      BY <1>2, <3>2 DEF Worker, Saving
    <3> QED BY <1>3, <3>1, <3>3
  <2> QED BY <1>7, <2>1, <2>2 DEF NextRun
<1>8. CASE Check(w) /\ ~Done(w)
  <2>1. PICK step \in {"flag", "settle"}, verdict \in Status :
          worker' = [worker EXCEPT ![w].step = step, ![w].verdict = verdict]
    BY <1>8 DEF Check, Status
  <2> DEFINE v == [worker[w] EXCEPT !.step = step, !.verdict = verdict]
  <2>2. worker' = [worker EXCEPT ![w] = v]
    BY <2>1 DEF IInv, TypeOK
  <2>3. v \in Worker /\ v.step \notin Saving
    BY <1>2 DEF Worker, Saving
  <2> QED BY <1>3, <2>2, <2>3
<1> QED BY <1>4, <1>5, <1>6, <1>7, <1>8

LEMMA FlagKeeps ==
  ASSUME IInv, NEW w \in Threads, Flag(w)
  PROVE  IInv'
<1> DEFINE v == [worker[w] EXCEPT !.step = "settle"]
           o == <<worker[w].run, worker[w].copy>>
           x == IF worker[w].op = "cancel" THEN [heap[o] EXCEPT !.cancel = TRUE]
                ELSE [heap[o] EXCEPT !.cancel = FALSE, !.retries = heap[o].retries + 1]
<1>1. worker[w] \in Worker /\ worker[w].step = "flag"
  BY DEF IInv, TypeOK, Flag, At
<1>2. v \in Worker /\ v.step = "settle"
  BY <1>1 DEF Worker
<1>3. worker' = [worker EXCEPT ![w] = v]
      /\ UNCHANGED <<current, disk, holder, requests, crashes>>
  BY DEF Flag
<1>4. heap' = [heap EXCEPT ![o] = x]
  BY DEF Flag, Held
<1>5. ASSUME o \in Runs \X Copies
      PROVE  x \in Object
  <2>1. heap[o] \in Object
    BY <1>5 DEF IInv, TypeOK
  <2>2. [heap[o] EXCEPT !.cancel = TRUE] \in Object
    BY <2>1 DEF Object
  <2>3. [heap[o] EXCEPT !.cancel = FALSE, !.retries = heap[o].retries + 1]
         \in Object
    <3> HIDE DEF o
    <3>1. heap[o].retries + 1 \in Nat
      BY <2>1 DEF Object
    <3> QED BY <2>1, <3>1 DEF Object
  <2> QED BY <2>2, <2>3
<1> HIDE DEF v, x, o
<1>6. heap' \in [Runs \X Copies -> Object]
  BY <1>4, <1>5 DEF IInv, TypeOK
<1>7. worker[w].step \notin Saving /\ requests' \in Nat
  BY <1>1, <1>3 DEF Saving, IInv, TypeOK
<1> QED BY <1>2, <1>3, <1>6, <1>7, ChangeKeeps

LEMMA SettleKeeps ==
  ASSUME IInv, NEW w \in Threads, Settle(w)
  PROVE  IInv'
<1> DEFINE v == [worker[w] EXCEPT !.step = "put"]
           o == <<worker[w].run, worker[w].copy>>
           x == [heap[o] EXCEPT !.status = worker[w].verdict, !.stale = FALSE]
<1>1. worker[w] \in Worker /\ worker[w].step = "settle"
  BY DEF IInv, TypeOK, Settle, At
<1>2. v \in Worker /\ v.step = "put"
  BY <1>1 DEF Worker
<1>3. worker' = [worker EXCEPT ![w] = v]
      /\ UNCHANGED <<current, disk, holder, requests, crashes>>
  BY DEF Settle
<1>4. heap' = [heap EXCEPT ![o] = x]
  BY DEF Settle, IInv, TypeOK, Object
<1>5. o \in Runs \X Copies => x \in Object
  <2>1. o \in Runs \X Copies => heap[o] \in Object
    BY DEF IInv, TypeOK
  <2>2. worker[w].verdict \in Status
    BY <1>1 DEF Worker
  <2> HIDE DEF o
  <2> QED BY <2>1, <2>2 DEF Object
<1> HIDE DEF v, x, o
<1>6. heap' \in [Runs \X Copies -> Object]
  BY <1>4, <1>5 DEF IInv, TypeOK
<1>7. worker[w].step \notin Saving /\ requests' \in Nat
  BY <1>1, <1>3 DEF Saving, IInv, TypeOK
<1> QED BY <1>2, <1>3, <1>6, <1>7, ChangeKeeps

-----------------------------------------------------------------------------
(* Saving. *)

\* A step that leaves the objects and the dictionary alone.
LEMMA SameSnapshot ==
  ASSUME UNCHANGED <<heap, current>>
  PROVE  Snapshot(current)' = Snapshot(current)
BY DEF Snapshot

LEMMA PutKeeps ==
  ASSUME IInv, NEW w \in Threads, Put(w)
  PROVE  IInv'
<1> DEFINE cur == [current EXCEPT ![worker[w].run] = worker[w].copy]
           v == [worker[w] EXCEPT !.step = "truncate", !.image = Snapshot(cur)]
<1>1. worker[w] \in Worker /\ worker[w].step = "put" /\ holder = "none"
  BY DEF IInv, TypeOK, Put, At
<1>2. cur \in [Runs -> 0..MaxCopies]
  BY <1>1 DEF IInv, TypeOK, Worker
<1>3. /\ worker' = [worker EXCEPT ![w] = v] /\ current' = cur /\ holder' = w
      /\ UNCHANGED <<heap, disk, requests, crashes>>
  BY DEF Put, IInv, TypeOK
<1>4. v \in Worker /\ v.step = "truncate" /\ v.image = Snapshot(cur)
  <2>1. Snapshot(cur) \in Files
    BY <1>2, SnapshotType DEF IInv, TypeOK
  <2> HIDE DEF cur
  <2> QED BY <1>1, <2>1 DEF Worker, Files
<1>5. Snapshot(current)' = Snapshot(cur)
  BY <1>3 DEF Snapshot
<1> HIDE DEF v, cur
<1>6. /\ worker' \in [Threads -> Worker] /\ worker'[w] = v
      /\ \A u \in Threads : u # w => worker'[u] = worker[u]
  BY <1>3, <1>4, WorkerSet DEF IInv, TypeOK
<1>7. TypeOK'
  BY <1>2, <1>3, <1>6 DEF IInv, TypeOK
<1>8. LockHeld'
  BY <1>1, <1>3, <1>4, <1>6, LifecycleAssumption
    DEF IInv, LockHeld, Saving, LifecycleAssumption
<1>9. SaveIsCurrent'
  BY <1>4, <1>5, <1>6 DEF SaveIsCurrent, Saving
<1> QED BY <1>7, <1>8, <1>9 DEF IInv, CaughtUp

LEMMA TruncateKeeps ==
  ASSUME IInv, NEW w \in Threads, Truncate(w)
  PROVE  IInv'
<1> DEFINE v == [worker[w] EXCEPT !.step = "write"]
<1>1. worker[w] \in Worker /\ worker[w].step = "truncate"
  BY DEF IInv, TypeOK, Truncate, At
<1>2. /\ worker' = [worker EXCEPT ![w] = v] /\ disk' = Torn
      /\ UNCHANGED <<heap, current, holder, requests, crashes>>
  BY DEF Truncate
<1>3. v \in Worker /\ v.step = "write" /\ v.image = worker[w].image
  BY <1>1 DEF Worker
<1> HIDE DEF v
<1>4. /\ worker' \in [Threads -> Worker] /\ worker'[w] = v
      /\ \A u \in Threads : u # w => worker'[u] = worker[u]
  BY <1>2, <1>3, WorkerSet DEF IInv, TypeOK
<1>5. TypeOK'
  BY <1>2, <1>4 DEF IInv, TypeOK
<1>6. LockHeld'
  BY <1>1, <1>2, <1>3, <1>4 DEF IInv, LockHeld, Saving
<1>7. SomeoneWillPut => SomeoneWillPut'
  BY <1>1, <1>4 DEF SomeoneWillPut
<1>8. SaveIsCurrent => SaveIsCurrent'
  <2>1. Snapshot(current)' = Snapshot(current)
    BY <1>2, SameSnapshot
  <2> QED BY <1>1, <1>3, <1>4, <2>1 DEF SaveIsCurrent, Saving
<1>9. ~DiskIsCurrent
  BY <1>1 DEF DiskIsCurrent, Saving
<1> QED BY <1>5, <1>6, <1>7, <1>8, <1>9 DEF IInv, CaughtUp

LEMMA WriteKeeps ==
  ASSUME IInv, NEW w \in Threads, Write(w)
  PROVE  IInv'
<1>1. worker[w] \in Worker /\ worker[w].step = "write"
  BY DEF IInv, TypeOK, Write, At
<1>2. /\ disk' = worker[w].image /\ holder' = "none" /\ Done(w)
      /\ UNCHANGED <<heap, current, requests, crashes>>
  BY DEF Write
<1>3. PICK v \in Worker : /\ worker' = [worker EXCEPT ![w] = v]
                          /\ v.step \in {"idle", "next"}
  BY <1>2, DoneState
<1>4. /\ worker' \in [Threads -> Worker] /\ worker'[w] = v
      /\ \A u \in Threads : u # w => worker'[u] = worker[u]
  BY <1>3, WorkerSet DEF IInv, TypeOK
<1>5. worker[w].image \in Files
  BY <1>1 DEF Worker, Files
<1>6. TypeOK'
  BY <1>2, <1>4, <1>5 DEF IInv, TypeOK, Files
<1>7. holder = w /\ \A u \in Threads : u # w => worker[u].step \notin Saving
  BY <1>1 DEF IInv, LockHeld, Saving
<1>8. \A u \in Threads : worker'[u].step \notin Saving
  BY <1>3, <1>4, <1>7 DEF Saving
<1>9. LockHeld'
  BY <1>2, <1>8, LifecycleAssumption DEF LockHeld, LifecycleAssumption
<1>10. SomeoneWillPut => SomeoneWillPut'
  BY <1>1, <1>4 DEF SomeoneWillPut
<1>11. ASSUME SaveIsCurrent
       PROVE  DiskIsCurrent'
  <2>1. worker[w].image = Snapshot(current)
    BY <1>7, <1>11 DEF SaveIsCurrent
  <2>2. OnDisk' = worker[w].image
    BY <1>2, <1>5, LifecycleAssumption DEF OnDisk, Files, LifecycleAssumption
  <2>3. Snapshot(current)' = Snapshot(current)
    BY <1>2, SameSnapshot
  <2> QED BY <1>8, <2>1, <2>2, <2>3 DEF DiskIsCurrent
<1>12. ~DiskIsCurrent
  BY <1>1 DEF DiskIsCurrent, Saving
<1> QED BY <1>6, <1>9, <1>10, <1>11, <1>12 DEF IInv, CaughtUp

-----------------------------------------------------------------------------
(* The environment. *)

LEMMA AgeKeeps ==
  ASSUME IInv, NEW r \in Runs, Age(r)
  PROVE  IInv'
<1> DEFINE o == <<r, current[r]>>
<1>1. /\ heap' = [heap EXCEPT ![o].stale = TRUE]
      /\ UNCHANGED <<current, disk, holder, worker, requests, crashes>>
  BY DEF Age
<1>2. heap \in [Runs \X Copies -> Object] /\ current \in [Runs -> 0..MaxCopies]
  BY DEF IInv, TypeOK
<1> HIDE DEF o
<1>3. heap' \in [Runs \X Copies -> Object]
  BY <1>1, <1>2 DEF Object
<1>4. TypeOK' /\ LockHeld'
  BY <1>1, <1>3 DEF IInv, TypeOK, LockHeld
<1>5. ASSUME NEW q \in Runs, current[q] # 0
      PROVE  Persisted(heap'[<<q, current[q]>>]) = Persisted(heap[<<q, current[q]>>])
  <2>1. <<q, current[q]>> \in Runs \X Copies
    BY <1>2, <1>5, LifecycleAssumption DEF Copies, LifecycleAssumption
  <2> QED BY <1>1, <1>2, <2>1 DEF Persisted, Object
<1>6. Snapshot(current)' = Snapshot(current)
  BY <1>1, <1>5 DEF Snapshot, Persisted
<1>7. OnDisk' = OnDisk
  BY <1>1 DEF OnDisk
<1> QED BY <1>1, <1>4, <1>6, <1>7
    DEF IInv, CaughtUp, SomeoneWillPut, SaveIsCurrent, DiskIsCurrent

\* A restart reads back what the file holds.
LEMMA CrashKeeps ==
  ASSUME IInv, Crash
  PROVE  IInv'
<1>1. /\ worker' = [w \in Threads |-> Idle] /\ holder' = "none" /\ disk' = disk
      /\ requests' \in Nat /\ crashes' \in Nat
  BY DEF Crash, IInv, TypeOK
<1>2. disk \in Files \cup {Torn} /\ Torn \notin Files
  BY LifecycleAssumption DEF IInv, TypeOK, Files, LifecycleAssumption
<1>3. ASSUME NEW r \in Runs, disk # Torn, disk[r] # Missing
      PROVE  disk[r] \in Saved
  BY <1>2, <1>3 DEF Files
<1>4. 1 \in Copies /\ 1 \in 0..MaxCopies /\ 0 \in 0..MaxCopies
  BY LifecycleAssumption DEF LifecycleAssumption, Copies
<1>5. current' \in [Runs -> 0..MaxCopies]
  BY <1>4 DEF Crash
<1>6. heap' \in [Runs \X Copies -> Object]
  <2>1. ASSUME NEW s \in Saved
        PROVE  [status |-> s.status, cancel |-> s.cancel, retries |-> s.retries,
                stale |-> FALSE] \in Object
    BY DEF Saved, Object
  <2>2. [status |-> "PENDING", cancel |-> FALSE, retries |-> 0, stale |-> FALSE]
          \in Object
    BY DEF Object, Status
  <2> QED BY <1>3, <2>1, <2>2 DEF Crash
<1>7. worker' \in [Threads -> Worker]
  BY <1>1, IdleWorker
<1>8. TypeOK'
  BY <1>1, <1>2, <1>5, <1>6, <1>7 DEF TypeOK, Files
<1>9. \A w \in Threads : worker'[w].step \notin Saving
  BY <1>1, IdleWorker DEF Saving
<1>10. LockHeld'
  BY <1>1, <1>9, LifecycleAssumption DEF LockHeld, LifecycleAssumption
<1>11. ASSUME NEW r \in Runs
       PROVE  OnDisk'[r] = Snapshot(current)'[r]
  <2>1. CASE disk = Torn
    BY <1>1, <2>1, IdleWorker DEF Crash, OnDisk, Snapshot
  <2>2. CASE disk # Torn /\ disk[r] = Missing
    BY <1>1, <2>2 DEF Crash, OnDisk, Snapshot
  <2>3. CASE disk # Torn /\ disk[r] # Missing
    <3>1. disk[r] \in Saved
      BY <1>3, <2>3
    <3>2. <<r, 1>> \in Runs \X Copies /\ current'[r] = 1
      BY <1>4, <2>3 DEF Crash
    <3>3. heap'[<<r, 1>>] = [status |-> disk[r].status, cancel |-> disk[r].cancel,
                             retries |-> disk[r].retries, stale |-> FALSE]
      BY <2>3, <3>2 DEF Crash
    <3>4. Snapshot(current)'[r] = [status |-> disk[r].status,
                                   cancel |-> disk[r].cancel,
                                   retries |-> disk[r].retries]
      BY <3>2, <3>3 DEF Snapshot, Persisted
    <3>5. disk[r] = [status |-> disk[r].status, cancel |-> disk[r].cancel,
                     retries |-> disk[r].retries]
      BY <3>1 DEF Saved
    <3>6. OnDisk'[r] = disk[r]
      BY <1>1, <2>3 DEF OnDisk
    <3> QED BY <3>4, <3>5, <3>6
  <2> QED BY <2>1, <2>2, <2>3
<1>12. OnDisk' = Snapshot(current)'
  <2>1. OnDisk' \in Files
    BY <1>1, <1>2, IdleWorker DEF OnDisk
  <2>2. Snapshot(current)' = [r \in Runs |-> Snapshot(current)'[r]]
    BY DEF Snapshot
  <2> QED BY <1>11, <2>1, <2>2 DEF Files
<1> QED BY <1>8, <1>9, <1>10, <1>12 DEF IInv, CaughtUp, DiskIsCurrent

-----------------------------------------------------------------------------
(* The invariant and the theorems. *)

LEMMA InitIInv == Init => IInv
<1> SUFFICES ASSUME Init PROVE IInv
  OBVIOUS
<1>1. TypeOK
  <2>1. heap \in [Runs \X Copies -> Object]
    BY DEF Init, Object, Status
  <2>2. current \in [Runs -> 0..MaxCopies]
    BY LifecycleAssumption DEF Init, LifecycleAssumption
  <2> QED BY <2>1, <2>2, IdleWorker DEF Init, TypeOK
<1>2. \A w \in Threads : worker[w].step \notin Saving
  BY IdleWorker DEF Init, Saving
<1>3. LockHeld
  BY <1>2, LifecycleAssumption DEF Init, LockHeld, LifecycleAssumption
<1>4. OnDisk = Snapshot(current)
  BY DEF Init, OnDisk, Snapshot, Nothing
<1> QED BY <1>1, <1>2, <1>3, <1>4 DEF IInv, CaughtUp, DiskIsCurrent

LEMMA Inductive == IInv /\ [Next]_vars => IInv'
<1> SUFFICES ASSUME IInv, [Next]_vars
             PROVE  IInv'
  OBVIOUS
<1>1. ASSUME NEW w \in Workers, NEW r \in Runs,
             ReceiveCreate(w, r) \/ ReceiveCancelOrRetry(w, r)
      PROVE  IInv'
  BY <1>1, ReceiveKeeps
<1>2. ASSUME NEW w \in Workers, ReceiveReconcile(w)
      PROVE  IInv'
  <2>1. PICK r \in Runs : TRUE
    BY LifecycleAssumption DEF LifecycleAssumption
  <2> QED BY <1>2, ReceiveKeeps
<1>3. CASE Tick
  BY <1>3, TickKeeps
<1>4. ASSUME NEW w \in Threads, Serve(w)
      PROVE  IInv'
  BY <1>4, ReadKeeps, FlagKeeps, SettleKeeps, PutKeeps, TruncateKeeps, WriteKeeps
    DEF Serve
<1>5. ASSUME NEW r \in Runs, Age(r)
      PROVE  IInv'
  BY <1>5, AgeKeeps
<1>6. CASE Crash
  BY <1>6, CrashKeeps
<1>7. CASE UNCHANGED vars
  <2>1. UNCHANGED <<heap, current, disk, holder, worker, requests, crashes>>
    BY <1>7 DEF vars
  <2>2. Snapshot(current)' = Snapshot(current) /\ OnDisk' = OnDisk
    BY <2>1, SameSnapshot DEF OnDisk
  <2> QED BY <2>1, <2>2 DEF IInv, TypeOK, LockHeld, CaughtUp, SomeoneWillPut,
                            SaveIsCurrent, DiskIsCurrent
<1> QED BY <1>1, <1>2, <1>3, <1>4, <1>5, <1>6, <1>7 DEF Next

\* Every object, the dictionary, the file and every thread keep their types,
\* whatever the number of runs, threads, requests and restarts
\* (lifecycle.py:17-25, the ExecutionRecord).
THEOREM TypeCorrect == Spec => []TypeOK
<1>1. IInv => TypeOK
  BY DEF IInv
<1> QED BY <1>1, InitIInv, Inductive, PTL DEF Spec

\* lifecycle_store.json holds what the dictionary holds whenever no request
\* is between a change and the end of its put, although request_cancel,
\* request_retry and reconcile_stale_runs change the shared objects with no
\* lock held (lifecycle.py:120-185) and a restart may find the file torn.
THEOREM DiskAgrees == Spec => []DiskMatchesMemory
<1>1. IInv => DiskMatchesMemory
  BY DEF IInv, CaughtUp, SomeoneWillPut, SaveIsCurrent, DiskIsCurrent, Saving,
         DiskMatchesMemory, AtRest
<1> QED BY <1>1, InitIInv, Inductive, PTL DEF Spec

=============================================================================
