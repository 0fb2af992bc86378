------------------------------- MODULE Executor -------------------------------
(***************************************************************************)
(* The execution registry and the executor of one job, at the grain at     *)
(* which request threads really interleave: every read of the record file, *)
(* every truncation of it, every write of its new content and every call   *)
(* of a backend is a step of its own.                                      *)
(*                                                                         *)
(* A request is a list of calls still to make (worker[w].todo).  A call    *)
(* that rewrites the record takes three steps, as registry.py does:        *)
(*   load   registry.get() parses the file and the fields are set in memory*)
(*   open   open(path, "w") truncates the file, before any flock           *)
(*   flush  the text reaches the file when the handle is closed, after the *)
(*          flock is released (a record is smaller than the write buffer)  *)
(* The flock is held across neither the truncation nor the flush, so it    *)
(* orders nothing and is left out.  A thread may wait for it, or for      *)
(* docker (which is given no timeout), as long as it likes: no step is    *)
(* fair.                                                                   *)
(*                                                                         *)
(* Fields that no guard reads (timestamps, hashes, cost, tenant, request   *)
(* id, backend metadata) are abstracted: rewriting only them is a "touch". *)
(***************************************************************************)
EXTENDS ExecutionStates

CONSTANTS
  Workers,                 \* threads of the server's pool
  Backends,                \* subset of {"local", "docker", "stub"}
  MaxRequests,             \* bound: requests the clients send
  MaxCrashes,              \* bound: restarts of the server process
  MaxFaults,               \* bound: docker commands that fail
  Absent, Empty, Garbled   \* contents of the record file that are no record

VARIABLES
  file,      \* content of <workspace>/.copilot/execution/<job>.json
  worker,    \* what each thread is doing
  live,      \* docker containers of the job that are running
  charged,   \* the billing ledger holds actuals for the job
  submits,   \* submissions so far; a container's id is its number
  requests, crashes, faults

vars == <<file, worker, live, charged, submits, requests, crashes, faults>>

Record == [state : State, events : Seq(State), backend : Backends \cup {"none"},
           ref : Nat, finished : BOOLEAN]

Rewrites == {"create", "move", "submitted", "finish", "touch"}
Decisions == {"apply", "run", "cancel", "refresh"}
Effects == {"submit", "poll", "kill", "charge"}

\* "soft": an exception of this call is swallowed and the request goes on.
Call ==
  [do : {"create"}, to : {"PRECHECK_PASSED", "APPLIED"}, soft : {FALSE}] \cup
  [do : {"move"}, to : State, soft : BOOLEAN] \cup
  [do : (Rewrites \ {"create", "move"}) \cup Decisions \cup Effects,
   to : {"none"}, soft : BOOLEAN]

Worker == [todo : Seq(Call), at : {"load", "open", "flush"},
           rec : Record \cup {Absent},
           backend : Backends \cup {"none"}, ref : Nat]

ExecutorAssumption ==
  /\ Backends \subseteq {"local", "docker", "stub"}
  /\ MaxRequests \in Nat /\ MaxCrashes \in Nat /\ MaxFaults \in Nat
  /\ \A c \in {Absent, Empty, Garbled} : c \notin Record
  /\ Absent # Empty /\ Absent # Garbled /\ Empty # Garbled
ASSUME ExecutorAssumption

\* The last part of worker's type: a rewrite under way has a record in hand.
TypeOK ==
  /\ file \in Record \cup {Absent, Empty, Garbled}
  /\ worker \in [Workers -> Worker]
  /\ \A w \in Workers : worker[w].at # "load" =>
       worker[w].todo # <<>> /\ worker[w].rec \in Record
  /\ live \subseteq Nat
  /\ charged \in BOOLEAN
  /\ submits \in Nat /\ requests \in Nat /\ crashes \in Nat /\ faults \in Nat

-----------------------------------------------------------------------------
(* Calls and what they do to a record in memory. *)

Do(step) == [do |-> step, to |-> "none", soft |-> FALSE]
Create(s) == [do |-> "create", to |-> s, soft |-> FALSE]
Move(s) == [do |-> "move", to |-> s, soft |-> FALSE]
Try(call) == [call EXCEPT !.soft = TRUE]

Fresh(s) == [state |-> s, events |-> <<s>>, backend |-> "none", ref |-> 0,
             finished |-> FALSE]

\* Mutant of Accepts: transition() without ensure_transition.
AcceptsAny(c, r) == TRUE

\* ensure_transition: only a move can be refused.
Accepts(c, r) == c.do = "move" => CanTransition(r.state, c.to)

\* Mutant of Edit: transition() sets the state and adds no event.
EditWithoutEvent(c, r, b, n) ==
  CASE c.do = "move" -> [r EXCEPT !.state = c.to]
    [] c.do = "submitted" ->
         [r EXCEPT !.backend = b, !.ref = n, !.finished = FALSE]
    [] c.do = "finish" -> [r EXCEPT !.finished = TRUE]
    [] OTHER -> r

\* setattr / append on the record that was read, with the job handle (b, n).
Edit(c, r, b, n) ==
  CASE c.do = "move" -> [r EXCEPT !.state = c.to, !.events = Append(@, c.to)]
    [] c.do = "submitted" ->
         [r EXCEPT !.backend = b, !.ref = n, !.finished = FALSE]
    [] c.do = "finish" -> [r EXCEPT !.finished = TRUE]
    [] OTHER -> r

-----------------------------------------------------------------------------
(* Requests. *)

Idle == [todo |-> <<>>, at |-> "load", rec |-> Absent,
         backend |-> "none", ref |-> 0]

\* apply_build up to Executor.apply; the decision comes from the policy.
ApplyRequest(decision) ==
  <<Create("PRECHECK_PASSED"), Do("touch")>> \o
  (CASE decision = "BLOCK" -> <<Try(Move("BLOCKED"))>>
     [] decision = "WARN" -> <<Try(Move("PRECHECK_PASSED")), Do("apply")>>
     [] OTHER -> <<Do("apply")>>)

Receive(w, todo, b) ==
  /\ worker[w].todo = <<>>
  /\ requests < MaxRequests
  /\ requests' = requests + 1
  /\ worker' = [worker EXCEPT ![w] = [Idle EXCEPT !.todo = todo, !.backend = b]]
  /\ UNCHANGED <<file, live, charged, submits, crashes, faults>>

ReceiveApply(w) ==
  \E decision \in {"ALLOW", "WARN", "BLOCK"} :
    Receive(w, ApplyRequest(decision), "none")

ReceiveRun(w) ==
  \E b \in Backends : Receive(w, <<Create("APPLIED"), Do("run")>>, b)

ReceiveCancel(w) == Receive(w, <<Do("cancel")>>, "none")

ReceiveStatus(w) == Receive(w, <<Do("refresh")>>, "none")

-----------------------------------------------------------------------------
(* Steps of a request. *)

Readable == file \notin {Absent, Empty, Garbled}

Due(w, steps) ==
  /\ worker[w].todo # <<>>
  /\ Head(worker[w].todo).do \in steps

\* The call at the head is over; the request goes on with rest, or ends.
Proceed(w, rest) ==
  worker' = [worker EXCEPT ![w] =
    IF rest = <<>> THEN Idle ELSE [@ EXCEPT !.todo = rest, !.at = "load", !.rec = Absent]]

\* registry.get + the edit in memory of update_fields, transition or upsert.
Load(w) ==
  LET c == Head(worker[w].todo) IN
  /\ Due(w, Rewrites \ {"create"}) /\ worker[w].at = "load"
  /\ Readable /\ Accepts(c, file)
  /\ worker' = [worker EXCEPT
       ![w].rec = Edit(c, file, worker[w].backend, worker[w].ref),
       ![w].at = "open"]
  /\ UNCHANGED <<file, live, charged, submits, requests, crashes, faults>>

\* FileNotFoundError, a JSON error or an illegal transition.
LoadRaises(w) ==
  LET c == Head(worker[w].todo) IN
  /\ Due(w, Rewrites \ {"create"}) /\ worker[w].at = "load"
  /\ ~(Readable /\ Accepts(c, file))
  /\ Proceed(w, IF c.soft THEN Tail(worker[w].todo) ELSE <<>>)
  /\ UNCHANGED <<file, live, charged, submits, requests, crashes, faults>>

\* init_if_missing: an existing record is left as it is.
LoadOrCreate(w) ==
  /\ Due(w, {"create"}) /\ worker[w].at = "load"
  /\ \/ /\ file = Absent
        /\ worker' = [worker EXCEPT
             ![w].rec = Fresh(Head(worker[w].todo).to), ![w].at = "open"]
     \/ Readable /\ Proceed(w, Tail(worker[w].todo))
     \/ file \in {Empty, Garbled} /\ Proceed(w, <<>>)
  /\ UNCHANGED <<file, live, charged, submits, requests, crashes, faults>>

\* Mutant of Truncate: the record is serialised after the open, and fails.
TruncateThenRaise(w) ==
  /\ worker[w].at = "open"
  /\ file' = Empty
  /\ Proceed(w, <<>>)
  /\ UNCHANGED <<live, charged, submits, requests, crashes, faults>>

Truncate(w) ==
  /\ worker[w].at = "open"
  /\ file' = Empty
  /\ worker' = [worker EXCEPT ![w].at = "flush"]
  /\ UNCHANGED <<live, charged, submits, requests, crashes, faults>>

\* Written at offset 0: over another thread's text, a shorter record leaves
\* the tail of the longer one behind it.
Flush(w) ==
  /\ worker[w].at = "flush"
  /\ file' \in {worker[w].rec} \cup (IF file = Empty THEN {} ELSE {Garbled})
  /\ Proceed(w, Tail(worker[w].todo))
  /\ UNCHANGED <<live, charged, submits, requests, crashes, faults>>

-----------------------------------------------------------------------------
(* Decisions taken on a record that was read once. *)

\* As Proceed, keeping the job handle (b, n) at hand.
Continue(w, rest, b, n) ==
  worker' = [worker EXCEPT ![w] =
    IF rest = <<>> THEN Idle ELSE [@ EXCEPT !.todo = rest, !.backend = b, !.ref = n]]

\* What is left to do after the guards of Executor.cancel, given what it read.
CancelCalls(r, attach) ==
  IF r.state \notin {"APPLIED", "RUNNING"} THEN <<>>
  ELSE (IF attach THEN <<Try(Do("touch"))>> ELSE <<>>) \o
       (IF r.state = "RUNNING" THEN <<Do("kill")>> ELSE <<>>) \o
       <<Try(Do("finish")), Move("CANCELED"), Do("charge")>>

DecideApply(w) ==
  /\ Due(w, {"apply"})
  /\ Proceed(w, IF Readable /\ file.state # "APPLIED" THEN <<Move("APPLIED")>>
                ELSE <<>>)
  /\ UNCHANGED <<file, live, charged, submits, requests, crashes, faults>>

DecideRun(w) ==
  /\ Due(w, {"run"})
  /\ Proceed(w, IF Readable /\ file.state = "APPLIED" THEN <<Do("submit")>>
                ELSE <<>>)
  /\ UNCHANGED <<file, live, charged, submits, requests, crashes, faults>>

DecideCancel(w) ==
  /\ Due(w, {"cancel"})
  /\ IF Readable
     THEN \E attach \in BOOLEAN :
            Continue(w, CancelCalls(file, attach), file.backend, file.ref)
     ELSE Proceed(w, <<>>)
  /\ UNCHANGED <<file, live, charged, submits, requests, crashes, faults>>

DecideRefresh(w) ==
  /\ Due(w, {"refresh"})
  /\ IF Readable /\ file.state = "RUNNING"
     THEN Continue(w, <<Do("poll")>>, file.backend, file.ref)
     ELSE Proceed(w, <<>>)
  /\ UNCHANGED <<file, live, charged, submits, requests, crashes, faults>>

-----------------------------------------------------------------------------
(* Backends. *)

\* docker removes any container of the job's name and starts a new one; the
\* others start nothing that outlives the call.
Submit(w) ==
  /\ Due(w, {"submit"})
  /\ submits' = submits + 1
  /\ live' = IF worker[w].backend = "docker" THEN {submits + 1} ELSE live
  /\ Continue(w, <<Do("submitted"), Move("RUNNING")>>, worker[w].backend, submits + 1)
  /\ UNCHANGED <<file, charged, requests, crashes, faults>>

\* No image, a failed pull or a failed run; the last one comes after docker
\* has removed the old container.
SubmitRaises(w) ==
  /\ Due(w, {"submit"})
  /\ worker[w].backend = "docker"
  /\ live' \in {live, {}}
  /\ Proceed(w, <<>>)
  /\ UNCHANGED <<file, charged, submits, requests, crashes, faults>>

\* Mutant of Answers: docker's own word for a container that has stopped.
AnswersUntranslated(b, n) == IF n \in live THEN {"RUNNING"} ELSE {"EXITED"}

\* What backend.status() answers for a job handle; "none" means local.
Answers(b, n) ==
  CASE b = "stub" -> {"RUNNING"}
    [] b = "docker" -> IF n \in live THEN {"RUNNING"} ELSE {"SUCCEEDED", "FAILED"}
    [] OTHER -> {"SUCCEEDED"}

\* Mutant of Poll: the finish time is set after the actuals are written.
PollChargesFirst(w) ==
  /\ Due(w, {"poll"})
  /\ \E answer \in Answers(worker[w].backend, worker[w].ref) :
       Proceed(w, IF answer = "RUNNING" THEN <<Do("touch")>>
                  ELSE <<Move(answer), Do("charge"), Do("finish")>>)
  /\ UNCHANGED <<file, live, charged, submits, requests, crashes, faults>>

Poll(w) ==
  /\ Due(w, {"poll"})
  /\ \E answer \in Answers(worker[w].backend, worker[w].ref) :
       Proceed(w, IF answer = "RUNNING" THEN <<Do("touch")>>
                  ELSE <<Do("finish"), Move(answer), Do("charge")>>)
  /\ UNCHANGED <<file, live, charged, submits, requests, crashes, faults>>

\* Mutant of Kill: docker's backend without a cancel of its own.
KillNothing(w) ==
  /\ Due(w, {"kill"})
  /\ Proceed(w, Tail(worker[w].todo))
  /\ UNCHANGED <<file, live, charged, submits, requests, crashes, faults>>

Kill(w) ==
  /\ Due(w, {"kill"})
  /\ live' = IF worker[w].backend = "docker" THEN live \ {worker[w].ref} ELSE live
  /\ Proceed(w, Tail(worker[w].todo))
  /\ UNCHANGED <<file, charged, submits, requests, crashes, faults>>

\* A docker command fails: its exception ends a poll, an error of inspect reads
\* as FAILED, and cancel asks no one whether rm did its work.
DockerFails(w) ==
  /\ faults < MaxFaults /\ worker[w].backend = "docker"
  /\ faults' = faults + 1
  /\ \/ /\ Due(w, {"poll"})
        /\ \E rest \in {<<>>, <<Do("finish"), Move("FAILED"), Do("charge")>>} :
             Proceed(w, rest)
     \/ /\ Due(w, {"kill"})
        /\ Proceed(w, Tail(worker[w].todo))
  /\ UNCHANGED <<file, live, charged, submits, requests, crashes>>

\* _maybe_write_actuals: nothing is charged for a record without finished_ts;
\* the record is rewritten when there is a cost or a runtime to keep.
Charge(w) ==
  /\ Due(w, {"charge"})
  /\ \/ /\ Readable /\ file.finished
        /\ charged' = TRUE
        /\ \E rest \in {<<>>, <<Try(Do("touch"))>>} : Proceed(w, rest)
     \/ /\ ~(Readable /\ file.finished)
        /\ Proceed(w, <<>>) /\ UNCHANGED charged
  /\ UNCHANGED <<file, live, submits, requests, crashes, faults>>

-----------------------------------------------------------------------------
(* The environment. *)

ContainerExits ==
  /\ \E n \in live : live' = live \ {n}
  /\ UNCHANGED <<file, worker, charged, submits, requests, crashes, faults>>

\* The server process dies and restarts: threads are gone, files and
\* containers are not.
Crash ==
  /\ crashes < MaxCrashes
  /\ crashes' = crashes + 1
  /\ worker' = [w \in Workers |-> Idle]
  /\ UNCHANGED <<file, live, charged, submits, requests, faults>>

\* All requests served: the only state in which the server has nothing to do.
Quiet ==
  /\ requests = MaxRequests
  /\ \A w \in Workers : worker[w].todo = <<>>
  /\ UNCHANGED vars

-----------------------------------------------------------------------------
Init ==
  /\ file = Absent
  /\ worker = [w \in Workers |-> Idle]
  /\ live = {}
  /\ charged = FALSE
  /\ submits = 0 /\ requests = 0 /\ crashes = 0 /\ faults = 0

Serve(w) ==
  \/ Load(w) \/ LoadRaises(w) \/ LoadOrCreate(w) \/ Truncate(w) \/ Flush(w)
  \/ DecideApply(w) \/ DecideRun(w) \/ DecideCancel(w) \/ DecideRefresh(w)
  \/ Submit(w) \/ SubmitRaises(w) \/ Poll(w) \/ Kill(w)
  \/ DockerFails(w) \/ Charge(w)

Next ==
  \/ \E w \in Workers :
       \/ ReceiveApply(w) \/ ReceiveRun(w) \/ ReceiveCancel(w) \/ ReceiveStatus(w)
       \/ Serve(w)
  \/ ContainerExits \/ Crash \/ Quiet

Spec == Init /\ [][Next]_vars

-----------------------------------------------------------------------------
(* Properties that hold whatever the threads do. *)

\* The record on disk and the records requests hold in memory.
Images == ({file} \cup {worker[w].rec : w \in Workers}) \ {Absent, Empty, Garbled}

\* Requests overwrite each other's records, but no record, on disk or in
\* memory, ever tells a history the transition table does not allow or a
\* state its last event does not show (registry.transition, update_fields).
HistoryLegal ==
  \A r \in Images : /\ r.events # <<>>
                    /\ r.state = r.events[Len(r.events)]
                    /\ LegalPath(r.events)

\* Within one record a terminal event is followed by no other state.
TerminalAbsorbing == \A r \in Images : TerminalLast(r.events)

\* A job is reported as succeeded or failed only with RUNNING in its history,
\* even by a request that races with the run (refresh_status).
OutcomeWasRun ==
  \A r \in Images : r.state \in {"SUCCEEDED", "FAILED"} =>
    \E i \in 1..Len(r.events) : r.events[i] = "RUNNING"

-----------------------------------------------------------------------------
(* Properties of a server that handles the job's requests one at a time. *)

AtRest == \A w \in Workers : worker[w].todo = <<>>

\* Between requests the record file can be read (registry._locked_write
\* promises to write under an exclusive lock).
ReadableAtRest == AtRest /\ crashes = 0 => file \notin {Empty, Garbled}

\* A job that has ended after it was applied has its finish time and its
\* actuals in the ledger (executor.cancel, refresh_status).
EndIsBooked ==
  AtRest /\ crashes = 0 /\ Readable =>
    (file.state \in {"SUCCEEDED", "FAILED", "CANCELED"} => charged /\ file.finished)

\* No container outlives the job while docker does what it is told: none is
\* left when the record is terminal, and the one of a running job is the one
\* the record names.
ContainersTracked ==
  AtRest /\ crashes = 0 /\ faults = 0 /\ Readable =>
    CASE file.state \in Terminal -> live = {}
      [] file.state = "RUNNING" -> live \subseteq {file.ref}
      [] OTHER -> live = {}

\* "Terminal states -> idempotent return": a request that rewrites the record
\* of an ended job (registry.update_fields, transition) leaves it in that state.
TerminalIsFinal ==
  [][\A w \in Workers :
       Truncate(w) /\ Readable /\ file.state \in Terminal =>
         worker[w].rec.state = file.state]_vars

=============================================================================
