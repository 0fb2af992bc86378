---------------------------- MODULE ExecutorProofs ----------------------------
(***************************************************************************)
(* Proofs about Executor, first for any number of threads, requests and    *)
(* restarts: the types, and what every record tells about its history.     *)
(*                                                                         *)
(* The histories are not preserved because requests exclude each other,    *)
(* they do not.  They are preserved because every record that reaches the  *)
(* file was built by one edit of a record that was in the file before: the *)
(* invariant therefore speaks of the images in memory as well as of the    *)
(* file.                                                                   *)
(*                                                                         *)
(* Then what one thread adds, that is, a server that handles a job's       *)
(* requests one at a time, with any number of requests and restarts: the   *)
(* file implements the abstract life of a job, and what it says of the     *)
(* ledger and of the container is true.  The invariant relates the calls   *)
(* a request has still to make to the record it decided them from.         *)
(***************************************************************************)
EXTENDS MCExecutor, SequenceTheorems, TLAPS

-----------------------------------------------------------------------------
(* Histories. *)

\* A history extended by a move the table allows is still a path of the table.
LEMMA LegalPathAppend ==
  ASSUME NEW h \in Seq(State), NEW s \in State, h # <<>>,
         LegalPath(h), CanTransition(h[Len(h)], s)
  PROVE  LegalPath(Append(h, s))
<1>1. SUFFICES ASSUME NEW i \in 1..Len(h)
               PROVE  CanTransition(Append(h, s)[i], Append(h, s)[i + 1])
  BY DEF LegalPath
<1>2. CASE i = Len(h)
  BY <1>2
<1>3. CASE i < Len(h)
  BY <1>3 DEF LegalPath
<1> QED BY <1>2, <1>3

\* After a terminal state the table allows only that state again.
LEMMA TerminalLastAppend ==
  ASSUME NEW h \in Seq(State), NEW s \in State, h # <<>>,
         TerminalLast(h), CanTransition(h[Len(h)], s)
  PROVE  TerminalLast(Append(h, s))
<1>1. SUFFICES ASSUME NEW i \in 1..(Len(h) + 1), NEW j \in 1..(Len(h) + 1),
                      i < j, Append(h, s)[i] \in Terminal
               PROVE  Append(h, s)[j] = Append(h, s)[i]
  BY DEF TerminalLast
<1>2. Append(h, s)[i] = h[i] /\ i \in 1..Len(h)
  BY <1>1
<1>3. CASE j \in 1..Len(h)
  BY <1>1, <1>2, <1>3 DEF TerminalLast
<1>4. CASE j = Len(h) + 1
  <2>1. h[Len(h)] = h[i]
    BY <1>1, <1>2 DEF TerminalLast
  <2>2. s = h[i]
    BY <2>1, <1>1, <1>2 DEF CanTransition
  <2> QED BY <2>2, <1>2, <1>4
<1> QED BY <1>3, <1>4

\* What the three properties say of one record.
WasRun(r) ==
  r.state \in {"SUCCEEDED", "FAILED"} =>
    \E i \in 1..Len(r.events) : r.events[i] = "RUNNING"

Truthful(r) ==
  /\ r.events # <<>> /\ r.state = r.events[Len(r.events)]
  /\ LegalPath(r.events) /\ TerminalLast(r.events)
  /\ WasRun(r)

\* A record is created with a truthful history.
LEMMA FreshTruthful ==
  ASSUME NEW s \in {"PRECHECK_PASSED", "APPLIED"}
  PROVE  Fresh(s) \in Record /\ Truthful(Fresh(s))
BY DEF Fresh, Record, State, Truthful, LegalPath, TerminalLast, WasRun

\* Every edit the registry accepts keeps it truthful.
LEMMA EditTruthful ==
  ASSUME NEW c \in Call, NEW r \in Record, Truthful(r), Accepts(c, r),
         NEW b \in Backends \cup {"none"}, NEW n \in Nat
  PROVE  Edit(c, r, b, n) \in Record /\ Truthful(Edit(c, r, b, n))
<1>1. CASE c.do = "move"
  <2> DEFINE e == Append(r.events, c.to)
  <2>1. c.to \in State /\ r.events \in Seq(State) /\ r.state \in State
    BY <1>1 DEF Call, Record, Rewrites, Decisions, Effects
  <2>2. Edit(c, r, b, n) = [r EXCEPT !.state = c.to, !.events = e]
    BY <1>1 DEF Edit
  <2>3. CanTransition(r.state, c.to) /\ r.state = r.events[Len(r.events)]
    BY <1>1 DEF Accepts, Truthful
  <2>4. LegalPath(e) /\ TerminalLast(e)
    BY <2>1, <2>3, LegalPathAppend, TerminalLastAppend DEF Truthful
  <2>5. e \in Seq(State) /\ e # <<>> /\ e[Len(e)] = c.to
    BY <2>1
  <2>6. ASSUME c.to \in {"SUCCEEDED", "FAILED"}
        PROVE  \E i \in 1..Len(e) : e[i] = "RUNNING"
    <3>1. r.state = "RUNNING" \/ r.state = c.to
      BY <2>3, <2>6 DEF CanTransition, Allowed, Terminal
    <3>2. \E i \in 1..Len(r.events) : r.events[i] = "RUNNING"
      BY <2>1, <2>3, <2>6, <3>1 DEF Truthful, WasRun
    <3> QED BY <2>1, <3>2
  <2> HIDE DEF e
  <2> DEFINE x == [r EXCEPT !.state = c.to, !.events = e]
  <2>7. x \in Record /\ x.state = c.to /\ x.events = e
    BY <2>1, <2>5 DEF Record
  <2> HIDE DEF x
  <2>8. Truthful(x)
    BY <2>4, <2>5, <2>6, <2>7 DEF Truthful, WasRun
  <2> QED BY <2>2, <2>7, <2>8 DEF x
<1>2. CASE c.do = "submitted"
  BY <1>2 DEF Edit, Record, Truthful, WasRun
<1>3. CASE c.do = "finish"
  BY <1>3 DEF Edit, Record, Truthful, WasRun
<1>4. CASE c.do \notin {"move", "submitted", "finish"}
  BY <1>4 DEF Edit
<1> QED BY <1>1, <1>2, <1>3, <1>4

-----------------------------------------------------------------------------
(* The inductive invariant, and what a thread's step does to it. *)

Threads ==
  /\ worker \in [Workers -> Worker]
  /\ \A w \in Workers : worker[w].at # "load" =>
       worker[w].todo # <<>> /\ worker[w].rec \in Record

Contents ==
  /\ file \in Record \cup {Absent, Empty, Garbled}
  /\ Readable => Truthful(file)
  /\ \A w \in Workers : worker[w].rec # Absent => Truthful(worker[w].rec)

Counters ==
  /\ live \subseteq Nat /\ charged \in BOOLEAN
  /\ submits \in Nat /\ requests \in Nat /\ crashes \in Nat /\ faults \in Nat

IInv == Threads /\ Contents /\ Counters

LEMMA IdleWorker == Idle \in Worker /\ Idle.at = "load" /\ Idle.rec = Absent
BY DEF Idle, Worker

\* Going on to the next call brings no new record.
LEMMA ProceedThreads ==
  ASSUME Threads, NEW w \in Workers, NEW rest \in Seq(Call), Proceed(w, rest)
  PROVE  /\ Threads'
         /\ \A u \in Workers : worker'[u].rec \in {worker[u].rec, Absent}
<1> DEFINE v == IF rest = <<>> THEN Idle
                ELSE [worker[w] EXCEPT !.todo = rest, !.at = "load", !.rec = Absent]
<1>1. worker' = [worker EXCEPT ![w] = v]
  BY DEF Proceed
<1>2. v \in Worker /\ v.at = "load" /\ v.rec = Absent
  BY IdleWorker DEF Threads, Worker
<1> HIDE DEF v
<1> QED BY <1>1, <1>2 DEF Threads

LEMMA ProceedKeeps ==
  ASSUME Threads, Contents, file' = file, NEW w \in Workers,
         NEW rest \in Seq(Call), Proceed(w, rest)
  PROVE  Threads' /\ Contents'
BY ProceedThreads DEF Contents, Readable

LEMMA ContinueKeeps ==
  ASSUME Threads, Contents, file' = file, NEW w \in Workers,
         NEW rest \in Seq(Call), NEW b \in Backends \cup {"none"}, NEW n \in Nat,
         Continue(w, rest, b, n)
  PROVE  Threads' /\ Contents'
<1> DEFINE v == IF rest = <<>> THEN Idle
                ELSE [worker[w] EXCEPT !.todo = rest, !.backend = b, !.ref = n]
<1>1. worker' = [worker EXCEPT ![w] = v]
  BY DEF Continue
<1>2. CASE rest = <<>>
  <2>1. v \in Worker /\ v.at = "load" /\ v.rec = Absent
    BY <1>2, IdleWorker
  <2> HIDE DEF v
  <2> QED BY <1>1, <2>1 DEF Threads, Contents, Readable
<1>3. CASE rest # <<>>
  <2>1. v \in Worker /\ v.at = worker[w].at /\ v.rec = worker[w].rec /\ v.todo # <<>>
    BY <1>3 DEF Threads, Worker
  <2> HIDE DEF v
  <2> QED BY <1>1, <2>1 DEF Threads, Contents, Readable
<1> QED BY <1>2, <1>3

\* A record in hand may change, if the new one is truthful.
LEMMA HoldKeeps ==
  ASSUME Threads, Contents, file' = file, NEW w \in Workers,
         worker[w].todo # <<>>, NEW r \in Record, Truthful(r),
         worker' = [worker EXCEPT ![w].rec = r, ![w].at = "open"]
  PROVE  Threads' /\ Contents'
<1> DEFINE v == [worker[w] EXCEPT !.rec = r, !.at = "open"]
<1>1. worker' = [worker EXCEPT ![w] = v]
  BY DEF Threads, Worker
<1>2. v \in Worker /\ v.todo # <<>> /\ v.rec = r
  BY DEF Threads, Worker
<1> HIDE DEF v
<1> QED BY <1>1, <1>2 DEF Threads, Contents, Readable

-----------------------------------------------------------------------------
(* Calls. *)

LEMMA CallTypes ==
  /\ \A d \in (Rewrites \ {"create", "move"}) \cup Decisions \cup Effects :
       Do(d) \in Call /\ Try(Do(d)) \in Call
  /\ \A s \in {"PRECHECK_PASSED", "APPLIED"} : Create(s) \in Call
  /\ \A s \in State : Move(s) \in Call /\ Try(Move(s)) \in Call
<1>1. ASSUME NEW d \in (Rewrites \ {"create", "move"}) \cup Decisions \cup Effects
      PROVE  Do(d) \in Call /\ Try(Do(d)) \in Call
  BY DEF Call, Do, Try
<1>2. ASSUME NEW s \in {"PRECHECK_PASSED", "APPLIED"}
      PROVE  Create(s) \in Call
  BY DEF Call, Create
<1>3. ASSUME NEW s \in State
      PROVE  Move(s) \in Call /\ Try(Move(s)) \in Call
  BY DEF Call, Move, Try
<1> QED BY <1>1, <1>2, <1>3

LEMMA ApplyRequestType ==
  ASSUME NEW d \in {"ALLOW", "WARN", "BLOCK"}
  PROVE  ApplyRequest(d) \in Seq(Call)
<1>1. /\ Create("PRECHECK_PASSED") \in Call /\ Do("touch") \in Call
      /\ Do("apply") \in Call
      /\ Try(Move("BLOCKED")) \in Call /\ Try(Move("PRECHECK_PASSED")) \in Call
  BY CallTypes DEF Rewrites, Decisions, Effects, State
<1> DEFINE rest == CASE d = "BLOCK" -> <<Try(Move("BLOCKED"))>>
                     [] d = "WARN" -> <<Try(Move("PRECHECK_PASSED")), Do("apply")>>
                     [] OTHER -> <<Do("apply")>>
<1>2. rest \in Seq(Call)
  <2>1. CASE d = "BLOCK"
    BY <1>1, <2>1
  <2>2. CASE d = "WARN"
    BY <1>1, <2>2
  <2>3. CASE d = "ALLOW"
    BY <1>1, <2>3
  <2> QED BY <2>1, <2>2, <2>3
<1>3. <<Create("PRECHECK_PASSED"), Do("touch")>> \in Seq(Call)
  BY <1>1
<1> HIDE DEF rest
<1>4. <<Create("PRECHECK_PASSED"), Do("touch")>> \o rest \in Seq(Call)
  BY <1>2, <1>3
<1> QED BY <1>4 DEF ApplyRequest, rest

LEMMA CancelCallsType ==
  ASSUME NEW r \in Record, NEW attach \in BOOLEAN
  PROVE  CancelCalls(r, attach) \in Seq(Call)
<1>1. /\ Try(Do("touch")) \in Call /\ Do("kill") \in Call
      /\ Try(Do("finish")) \in Call /\ Do("charge") \in Call
      /\ Move("CANCELED") \in Call
  BY CallTypes DEF Rewrites, Decisions, Effects, State
<1> DEFINE one == IF attach THEN <<Try(Do("touch"))>> ELSE <<>>
           two == IF r.state = "RUNNING" THEN <<Do("kill")>> ELSE <<>>
           three == <<Try(Do("finish")), Move("CANCELED"), Do("charge")>>
<1>2. one \in Seq(Call) /\ two \in Seq(Call) /\ three \in Seq(Call)
  BY <1>1
<1> HIDE DEF one, two, three
<1>3. one \o two \o three \in Seq(Call)
  BY <1>2
<1>4. <<>> \in Seq(Call)
  OBVIOUS
<1> QED BY <1>3, <1>4 DEF CancelCalls, one, two, three

-----------------------------------------------------------------------------
(* Every action preserves the invariant. *)

LEMMA ReceiveKeeps ==
  ASSUME IInv, NEW w \in Workers, NEW todo \in Seq(Call),
         NEW b \in Backends \cup {"none"}, Receive(w, todo, b)
  PROVE  IInv'
<1> DEFINE v == [Idle EXCEPT !.todo = todo, !.backend = b]
<1>1. v \in Worker /\ v.at = "load" /\ v.rec = Absent
  BY DEF Idle, Worker
<1>2. worker' = [worker EXCEPT ![w] = v] /\ file' = file
  BY DEF Receive
<1> HIDE DEF v
<1>3. Threads' /\ Contents'
  BY <1>1, <1>2 DEF IInv, Threads, Contents, Readable
<1>4. Counters'
  BY DEF IInv, Counters, Receive
<1> QED BY <1>3, <1>4 DEF IInv

LEMMA RequestsKeep ==
  ASSUME IInv, NEW w \in Workers,
         ReceiveApply(w) \/ ReceiveRun(w) \/ ReceiveCancel(w) \/ ReceiveStatus(w)
  PROVE  IInv'
<1>1. CASE ReceiveApply(w)
  BY <1>1, ApplyRequestType, ReceiveKeeps DEF ReceiveApply
<1>2. CASE ReceiveRun(w)
  <2>1. PICK b \in Backends : Receive(w, <<Create("APPLIED"), Do("run")>>, b)
    BY <1>2 DEF ReceiveRun
  <2>2. <<Create("APPLIED"), Do("run")>> \in Seq(Call)
    BY CallTypes DEF Decisions
  <2> QED BY <2>1, <2>2, ReceiveKeeps
<1>3. CASE ReceiveCancel(w)
  <2>1. <<Do("cancel")>> \in Seq(Call)
    BY CallTypes DEF Decisions
  <2> QED BY <1>3, <2>1, ReceiveKeeps DEF ReceiveCancel
<1>4. CASE ReceiveStatus(w)
  <2>1. <<Do("refresh")>> \in Seq(Call)
    BY CallTypes DEF Decisions
  <2> QED BY <1>4, <2>1, ReceiveKeeps DEF ReceiveStatus
<1> QED BY <1>1, <1>2, <1>3, <1>4

LEMMA TodoType ==
  ASSUME Threads, NEW w \in Workers, worker[w].todo # <<>>
  PROVE  Head(worker[w].todo) \in Call /\ Tail(worker[w].todo) \in Seq(Call)
<1>1. worker[w].todo \in Seq(Call)
  BY DEF Threads, Worker
<1> QED BY <1>1

LEMMA LoadKeeps ==
  ASSUME IInv, NEW w \in Workers, Load(w)
  PROVE  IInv'
<1> DEFINE c == Head(worker[w].todo)
           r == Edit(c, file, worker[w].backend, worker[w].ref)
<1>1. c \in Call /\ worker[w].todo # <<>>
  BY TodoType DEF IInv, Load, Due
<1>2. file \in Record /\ Truthful(file) /\ Accepts(c, file)
  BY DEF IInv, Contents, Load, Readable
<1>3. worker[w].backend \in Backends \cup {"none"} /\ worker[w].ref \in Nat
  BY DEF IInv, Threads, Worker
<1>4. r \in Record /\ Truthful(r)
  BY <1>1, <1>2, <1>3, EditTruthful
<1>5. worker' = [worker EXCEPT ![w].rec = r, ![w].at = "open"] /\ file' = file
  BY DEF Load
<1> HIDE DEF r, c
<1>6. Threads' /\ Contents'
  BY <1>1, <1>4, <1>5, HoldKeeps DEF IInv
<1>7. Counters'
  BY DEF IInv, Counters, Load
<1> QED BY <1>6, <1>7 DEF IInv

LEMMA LoadOrCreateKeeps ==
  ASSUME IInv, NEW w \in Workers, LoadOrCreate(w)
  PROVE  IInv'
<1>1. Head(worker[w].todo) \in Call /\ Tail(worker[w].todo) \in Seq(Call)
      /\ worker[w].todo # <<>> /\ <<>> \in Seq(Call)
  BY TodoType DEF IInv, LoadOrCreate, Due
<1>2. Counters' /\ file' = file
  BY DEF IInv, Counters, LoadOrCreate
<1>3. CASE worker' = [worker EXCEPT ![w].rec = Fresh(Head(worker[w].todo).to),
                                    ![w].at = "open"]
  <2>1. Head(worker[w].todo).do = "create"
    BY DEF LoadOrCreate, Due
  <2>2. Head(worker[w].todo).to \in {"PRECHECK_PASSED", "APPLIED"}
    BY <1>1, <2>1 DEF Call, Rewrites, Decisions, Effects
  <2> QED BY <1>1, <1>2, <1>3, <2>2, FreshTruthful, HoldKeeps DEF IInv
<1>4. CASE Proceed(w, Tail(worker[w].todo)) \/ Proceed(w, <<>>)
  BY <1>1, <1>2, <1>4, ProceedKeeps DEF IInv
<1> QED BY <1>3, <1>4 DEF LoadOrCreate

LEMMA TruncateKeeps ==
  ASSUME IInv, NEW w \in Workers, Truncate(w)
  PROVE  IInv'
<1>1. file' = Empty /\ worker[w].at # "load"
      /\ worker' = [worker EXCEPT ![w].at = "flush"]
  BY DEF Truncate
<1> DEFINE z == [worker[w] EXCEPT !.at = "flush"]
<1>2. worker \in [Workers -> Worker] /\ worker[w] \in Worker
      /\ worker[w].todo # <<>> /\ worker[w].rec \in Record
  BY <1>1 DEF IInv, Threads
<1>3. z \in Worker /\ z.todo = worker[w].todo /\ z.rec = worker[w].rec
  BY <1>2 DEF Worker
<1>4. worker' = [worker EXCEPT ![w] = z]
  BY <1>1
<1> HIDE DEF z
<1>5. Threads'
  BY <1>2, <1>3, <1>4 DEF IInv, Threads
<1>6. \A u \in Workers : worker'[u].rec = worker[u].rec
  BY <1>2, <1>3, <1>4
<1>7. Contents'
  BY <1>1, <1>6 DEF IInv, Contents, Readable
<1>8. Counters'
  BY DEF IInv, Counters, Truncate
<1> QED BY <1>5, <1>7, <1>8 DEF IInv

\* The only step that puts a record into the file.
LEMMA FlushKeeps ==
  ASSUME IInv, NEW w \in Workers, Flush(w)
  PROVE  IInv'
<1> DEFINE r == worker[w].rec
<1>1. r \in Record /\ worker[w].todo # <<>>
  BY DEF IInv, Threads, Flush
<1>2. Truthful(r)
  BY <1>1, ExecutorAssumption DEF IInv, Contents, ExecutorAssumption
<1>3. file' \in {r, Garbled} /\ Proceed(w, Tail(worker[w].todo))
  BY DEF Flush
<1>4. Tail(worker[w].todo) \in Seq(Call)
  BY <1>1, TodoType DEF IInv
<1>5. Threads' /\ \A u \in Workers : worker'[u].rec \in {worker[u].rec, Absent}
  BY <1>3, <1>4, ProceedThreads DEF IInv
<1>6. Contents'
  BY <1>1, <1>2, <1>3, <1>5 DEF IInv, Contents, Readable
<1>7. Counters'
  BY DEF IInv, Counters, Flush
<1> QED BY <1>5, <1>6, <1>7 DEF IInv

\* The decisions, and the calls that do not rewrite the record.
LEMMA OthersKeep ==
  ASSUME IInv, NEW w \in Workers,
         \/ LoadRaises(w) \/ DecideApply(w) \/ DecideRun(w) \/ DecideCancel(w)
         \/ DecideRefresh(w) \/ Submit(w) \/ SubmitRaises(w) \/ Poll(w)
         \/ Kill(w) \/ DockerFails(w) \/ Charge(w)
  PROVE  IInv'
<1> USE DEF IInv
<1>1. /\ worker[w].todo # <<>> /\ file' = file
      /\ Tail(worker[w].todo) \in Seq(Call) /\ <<>> \in Seq(Call)
  BY TodoType DEF LoadRaises, DecideApply, DecideRun, DecideCancel, DecideRefresh,
                  Submit, SubmitRaises, Poll, Kill, DockerFails, Charge, Due
<1>2. Counters'
  <2>1. CASE Submit(w)
    <3>1. live' = {submits + 1} \/ live' = live
      BY <2>1 DEF Submit
    <3>2. submits' = submits + 1 /\ submits' \in Nat /\ live' \subseteq Nat
      BY <2>1, <3>1 DEF Counters, Submit
    <3> QED BY <2>1, <3>2 DEF Counters, Submit
  <2>2. CASE SubmitRaises(w) \/ Kill(w)
    BY <2>2 DEF Counters, SubmitRaises, Kill
  <2>3. CASE Charge(w)
    BY <2>3 DEF Counters, Charge
  <2>4. CASE DockerFails(w)
    BY <2>4 DEF Counters, DockerFails
  <2>5. CASE \/ LoadRaises(w) \/ DecideApply(w) \/ DecideRun(w)
             \/ DecideCancel(w) \/ DecideRefresh(w) \/ Poll(w)
    BY <2>5 DEF Counters, LoadRaises, DecideApply, DecideRun, DecideCancel,
                DecideRefresh, Poll
  <2> QED BY <2>1, <2>2, <2>3, <2>4, <2>5
<1>3. worker[w].backend \in Backends \cup {"none"} /\ worker[w].ref \in Nat
  BY DEF Threads, Worker
<1>4. Readable => file \in Record
  BY DEF Contents, Readable
<1>5. CASE LoadRaises(w)
  BY <1>1, <1>2, <1>5, ProceedKeeps DEF LoadRaises
<1>6. CASE DecideApply(w)
  <2>1. <<Move("APPLIED")>> \in Seq(Call)
    BY CallTypes DEF State
  <2> QED BY <1>1, <1>2, <1>6, <2>1, ProceedKeeps DEF DecideApply
<1>7. CASE DecideRun(w)
  <2>1. <<Do("submit")>> \in Seq(Call)
    BY CallTypes DEF Effects
  <2> QED BY <1>1, <1>2, <1>7, <2>1, ProceedKeeps DEF DecideRun
<1>8. CASE DecideCancel(w)
  <2>1. CASE Readable
    <3>1. PICK attach \in BOOLEAN :
            Continue(w, CancelCalls(file, attach), file.backend, file.ref)
      BY <1>8, <2>1 DEF DecideCancel
    <3>2. file.backend \in Backends \cup {"none"} /\ file.ref \in Nat
      BY <1>4, <2>1 DEF Record
    <3> QED BY <1>1, <1>2, <1>4, <2>1, <3>1, <3>2, CancelCallsType, ContinueKeeps
  <2>2. CASE ~Readable
    BY <1>1, <1>2, <1>8, <2>2, ProceedKeeps DEF DecideCancel
  <2> QED BY <2>1, <2>2
<1>9. CASE DecideRefresh(w)
  <2>1. <<Do("poll")>> \in Seq(Call)
    BY CallTypes DEF Effects
  <2>2. CASE Readable /\ file.state = "RUNNING"
    <3>1. file.backend \in Backends \cup {"none"} /\ file.ref \in Nat
      BY <1>4, <2>2 DEF Record
    <3> QED BY <1>1, <1>2, <1>9, <2>1, <2>2, <3>1, ContinueKeeps DEF DecideRefresh
  <2>3. CASE ~(Readable /\ file.state = "RUNNING")
    BY <1>1, <1>2, <1>9, <2>3, ProceedKeeps DEF DecideRefresh
  <2> QED BY <2>2, <2>3
<1>10. CASE Submit(w)
  <2>1. <<Do("submitted"), Move("RUNNING")>> \in Seq(Call)
    BY CallTypes DEF Rewrites, State
  <2>2. submits + 1 \in Nat
    BY DEF Counters
  <2> QED BY <1>1, <1>2, <1>3, <1>10, <2>1, <2>2, ContinueKeeps DEF Submit
<1>11. CASE SubmitRaises(w)
  BY <1>1, <1>2, <1>11, ProceedKeeps DEF SubmitRaises
<1>12. CASE Poll(w)
  <2>1. PICK answer \in Answers(worker[w].backend, worker[w].ref) :
          Proceed(w, IF answer = "RUNNING" THEN <<Do("touch")>>
                     ELSE <<Do("finish"), Move(answer), Do("charge")>>)
    BY <1>12 DEF Poll
  <2>2. answer \in State
    BY <2>1 DEF Answers, State
  <2>3. <<Do("touch")>> \in Seq(Call)
    BY CallTypes DEF Rewrites
  <2>4. <<Do("finish"), Move(answer), Do("charge")>> \in Seq(Call)
    BY <2>2, CallTypes DEF Rewrites, Effects
  <2> QED BY <1>1, <1>2, <2>1, <2>3, <2>4, ProceedKeeps
<1>13. CASE Kill(w)
  BY <1>1, <1>2, <1>13, ProceedKeeps DEF Kill
<1>14. CASE Charge(w)
  <2>1. <<Try(Do("touch"))>> \in Seq(Call)
    BY CallTypes DEF Rewrites
  <2> QED BY <1>1, <1>2, <1>14, <2>1, ProceedKeeps DEF Charge
<1>15. CASE DockerFails(w)
  <2>1. <<Do("finish"), Move("FAILED"), Do("charge")>> \in Seq(Call)
    BY CallTypes DEF Rewrites, Effects, State
  <2> QED BY <1>1, <1>2, <1>15, <2>1, ProceedKeeps DEF DockerFails
<1> QED BY <1>5, <1>6, <1>7, <1>8, <1>9, <1>10, <1>11, <1>12, <1>13, <1>14, <1>15

LEMMA EnvironmentKeeps ==
  ASSUME IInv, ContainerExits \/ Crash \/ UNCHANGED vars
  PROVE  IInv'
<1>1. CASE ContainerExits
  BY <1>1 DEF IInv, Threads, Contents, Counters, Readable, ContainerExits
<1>2. CASE Crash
  <2>1. worker' = [w \in Workers |-> Idle] /\ file' = file
    BY <1>2 DEF Crash
  <2>2. Threads' /\ Contents'
    BY <2>1, IdleWorker DEF IInv, Threads, Contents, Readable
  <2>3. Counters'
    BY <1>2 DEF IInv, Counters, Crash
  <2> QED BY <2>2, <2>3 DEF IInv
<1>3. CASE UNCHANGED vars
  BY <1>3 DEF vars, IInv, Threads, Contents, Counters, Readable
<1> QED BY <1>1, <1>2, <1>3

-----------------------------------------------------------------------------
(* The theorems. *)

LEMMA Initially == Init => IInv
<1> SUFFICES ASSUME Init PROVE IInv
  OBVIOUS
<1>1. Threads /\ Contents
  BY IdleWorker, ExecutorAssumption
     DEF Init, Threads, Contents, Readable, ExecutorAssumption
<1>2. Counters
  BY DEF Init, Counters
<1> QED BY <1>1, <1>2 DEF IInv

LEMMA Inductive == IInv /\ [Next]_vars => IInv'
<1> SUFFICES ASSUME IInv, [Next]_vars PROVE IInv'
  OBVIOUS
<1>1. ASSUME NEW w \in Workers, Serve(w)
      PROVE  IInv'
  BY <1>1, LoadKeeps, LoadOrCreateKeeps, TruncateKeeps, FlushKeeps, OthersKeep
     DEF Serve
<1>2. ASSUME NEW w \in Workers,
             \/ ReceiveApply(w) \/ ReceiveRun(w)
             \/ ReceiveCancel(w) \/ ReceiveStatus(w)
      PROVE  IInv'
  BY <1>2, RequestsKeep
<1>3. CASE ContainerExits \/ Crash \/ Quiet \/ UNCHANGED vars
  BY <1>3, EnvironmentKeeps DEF Quiet
<1> QED BY <1>1, <1>2, <1>3 DEF Next

LEMMA Invariance == Spec => []IInv
BY Initially, Inductive, PTL DEF Spec

\* Every variable keeps its type, and a rewrite under way has a record in
\* hand and a request to go on with (registry.py, executor.py).
THEOREM TypeCorrect == Spec => []TypeOK
<1>1. IInv => TypeOK
  BY DEF IInv, Threads, Contents, Counters, TypeOK
<1> QED BY <1>1, Invariance, PTL

LEMMA ImagesTruthful ==
  ASSUME IInv, NEW r \in Images
  PROVE  r \in Record /\ Truthful(r)
BY DEF IInv, Threads, Contents, Readable, Images, Worker

\* However many threads rewrite the record at once, every record on disk or
\* in memory shows a history the transition table allows, and the state its
\* last event shows (registry.transition, state_machine.ensure_transition).
THEOREM HistoriesLegal == Spec => []HistoryLegal
<1>1. IInv => HistoryLegal
  BY ImagesTruthful DEF HistoryLegal, Truthful
<1> QED BY <1>1, Invariance, PTL

\* In no record is a terminal event followed by another state, whatever
\* requests raced for it (state_machine.can_transition, is_terminal).
THEOREM TerminalsAbsorb == Spec => []TerminalAbsorbing
<1>1. IInv => TerminalAbsorbing
  BY ImagesTruthful DEF TerminalAbsorbing, Truthful
<1> QED BY <1>1, Invariance, PTL

\* No record reports an outcome of a job that was not RUNNING before, also
\* when refresh_status acts on a state that has changed since it was read.
THEOREM OutcomesWereRun == Spec => []OutcomeWasRun
<1>1. IInv => OutcomeWasRun
  BY ImagesTruthful DEF OutcomeWasRun, Truthful, WasRun
<1> QED BY <1>1, Invariance, PTL

-----------------------------------------------------------------------------
(* A server that handles the job's requests one at a time: how the file is *)
(* rewritten.                                                              *)

OneThread == \E t : Workers = {t}

\* A rewrite empties the file and fills it again, with the next state of the
\* record it read or with a new one; no two rewrites mix.
Exclusive ==
  /\ file # Garbled
  /\ \A w \in Workers :
       /\ worker[w].at # "load" => Head(worker[w].todo).do \in Rewrites
       /\ worker[w].at = "flush" => file = Empty
       /\ worker[w].at = "open" =>
            IF file = Absent THEN worker[w].rec.state \in {"PRECHECK_PASSED", "APPLIED"}
            ELSE Readable /\ CanTransition(file.state, worker[w].rec.state)

\* Before the first restart, an empty file is about to be filled.
Whole == crashes = 0 => file # Empty \/ \E w \in Workers : worker[w].at = "flush"

\* A thread that is neither rewriting nor about to goes on without a record.
LEMMA LoadedKeeps ==
  ASSUME OneThread, Exclusive, Whole, NEW w \in Workers, NEW v,
         worker' = [worker EXCEPT ![w] = v], v.at = "load", worker \in [Workers -> Worker],
         worker[w].at = "load", file' = file, crashes' = crashes
  PROVE  Exclusive' /\ Whole'
<1>1. \A u \in Workers : u = w
  BY DEF OneThread
<1>2. \A u \in Workers : worker[u].at = "load" /\ worker'[u].at = "load"
  BY <1>1
<1> QED BY <1>2 DEF Exclusive, Whole

\* What a thread does that rewrites nothing.
LEMMA ServedLoaded ==
  ASSUME Threads, Exclusive, NEW w \in Workers, Serve(w),
         ~Load(w), ~LoadOrCreate(w), ~Truncate(w), ~Flush(w)
  PROVE  /\ worker[w].at = "load" /\ file' = file /\ crashes' = crashes
         /\ worker[w].todo # <<>>
         /\ \E v : worker' = [worker EXCEPT ![w] = v] /\ v.at = "load"
<1>1. /\ worker[w].todo # <<>> /\ file' = file /\ crashes' = crashes
      /\ \/ LoadRaises(w) /\ worker[w].at = "load"
         \/ Head(worker[w].todo).do \notin Rewrites
  BY DEF Serve, LoadRaises, DecideApply, DecideRun, DecideCancel, DecideRefresh,
     Submit, SubmitRaises, Poll, Kill, DockerFails, Charge, Due, Rewrites
<1>2. worker[w].at = "load"
  BY <1>1 DEF Exclusive
<1>3. \/ \E rest : Proceed(w, rest)
      \/ \E rest, b, n : Continue(w, rest, b, n)
  BY DEF Serve, LoadRaises, DecideApply, DecideRun, DecideCancel, DecideRefresh,
     Submit, SubmitRaises, Poll, Kill, DockerFails, Charge
<1>4. Idle.at = "load" /\ worker[w] \in Worker
  BY IdleWorker DEF Threads
<1>5. ASSUME NEW rest, Proceed(w, rest)
      PROVE  \E v : worker' = [worker EXCEPT ![w] = v] /\ v.at = "load"
  <2> DEFINE v == IF rest = <<>> THEN Idle
                  ELSE [worker[w] EXCEPT !.todo = rest, !.at = "load", !.rec = Absent]
  <2>1. worker' = [worker EXCEPT ![w] = v] /\ v.at = "load"
    BY <1>4, <1>5 DEF Proceed, Worker
  <2> QED BY <2>1
<1>6. ASSUME NEW rest, NEW b, NEW n, Continue(w, rest, b, n)
      PROVE  \E v : worker' = [worker EXCEPT ![w] = v] /\ v.at = "load"
  <2> DEFINE v == IF rest = <<>> THEN Idle
                  ELSE [worker[w] EXCEPT !.todo = rest, !.backend = b, !.ref = n]
  <2>1. worker' = [worker EXCEPT ![w] = v] /\ v.at = "load"
    BY <1>2, <1>4, <1>6 DEF Continue, Worker
  <2> QED BY <2>1
<1> QED BY <1>1, <1>2, <1>3, <1>5, <1>6

\* The steps of a rewrite exclude each other.
LEMMA ExclusiveServe ==
  ASSUME OneThread, IInv, Exclusive, Whole, NEW w \in Workers, Serve(w)
  PROVE  Exclusive' /\ Whole'
<1> DEFINE c == Head(worker[w].todo)
<1>1. /\ worker \in [Workers -> Worker] /\ worker[w] \in Worker
      /\ worker[w].at # "load" => worker[w].rec \in Record /\ worker[w].todo # <<>>
      /\ \A u \in Workers : u = w
      /\ worker[w].todo # <<>> => c \in Call
  BY TodoType DEF IInv, Threads, OneThread
<1>2. CASE Load(w)
  <2> DEFINE r == Edit(c, file, worker[w].backend, worker[w].ref)
             v == [worker[w] EXCEPT !.rec = r, !.at = "open"]
  <2>1. /\ c \in Call /\ c.do \in Rewrites /\ file \in Record /\ Readable
        /\ Accepts(c, file) /\ file' = file /\ crashes' = crashes
        /\ worker[w].at = "load"
    BY <1>1, <1>2 DEF Load, Due, IInv, Contents, Readable
  <2>2. CanTransition(file.state, r.state)
    BY <2>1 DEF Edit, Accepts, CanTransition, Record
  <2>3. worker' = [worker EXCEPT ![w] = v]
    BY <1>1, <1>2 DEF Load
  <2> HIDE DEF r
  <2>4. v.rec = r /\ v.at = "open" /\ v.todo = worker[w].todo
    BY <1>1 DEF Worker
  <2> HIDE DEF v
  <2> QED BY <1>1, <2>1, <2>2, <2>3, <2>4 DEF Exclusive, Whole, Readable
<1>3. CASE LoadOrCreate(w)
  <2>1. /\ worker[w].at = "load" /\ file' = file /\ crashes' = crashes
        /\ worker[w].todo # <<>> /\ c.do = "create" /\ c.do \in Rewrites
    BY <1>3 DEF LoadOrCreate, Due, Rewrites
  <2>2. CASE file = Absent /\ worker' = [worker EXCEPT ![w].rec = Fresh(c.to),
                                                       ![w].at = "open"]
    <3> DEFINE v == [worker[w] EXCEPT !.rec = Fresh(c.to), !.at = "open"]
    <3>1. c.to \in {"PRECHECK_PASSED", "APPLIED"} /\ Fresh(c.to).state = c.to
      BY <1>1, <2>1 DEF Call, Rewrites, Decisions, Effects, Fresh
    <3>2. worker' = [worker EXCEPT ![w] = v]
      BY <1>1, <2>2
    <3>3. v.rec = Fresh(c.to) /\ v.at = "open" /\ v.todo = worker[w].todo
      BY <1>1 DEF Worker
    <3> HIDE DEF v
    <3> QED BY <1>1, <2>1, <2>2, <3>1, <3>2, <3>3 DEF Exclusive, Whole
  <2>3. ASSUME NEW rest, Proceed(w, rest)
        PROVE  Exclusive' /\ Whole'
    <3> DEFINE v == IF rest = <<>> THEN Idle
                    ELSE [worker[w] EXCEPT !.todo = rest, !.at = "load", !.rec = Absent]
    <3>1. worker' = [worker EXCEPT ![w] = v] /\ v.at = "load"
      BY <1>1, <2>3, IdleWorker DEF Proceed, Worker
    <3> HIDE DEF v
    <3> QED BY <1>1, <2>1, <3>1, LoadedKeeps
  <2> QED BY <1>3, <2>2, <2>3 DEF LoadOrCreate
<1>4. CASE Truncate(w)
  <2> DEFINE v == [worker[w] EXCEPT !.at = "flush"]
  <2>1. /\ file' = Empty /\ worker' = [worker EXCEPT ![w] = v]
        /\ worker[w].at = "open" /\ crashes' = crashes
    BY <1>1, <1>4 DEF Truncate
  <2>2. v.at = "flush" /\ v.todo = worker[w].todo
    BY <1>1 DEF Worker
  <2> HIDE DEF v
  <2> QED BY <1>1, <2>1, <2>2, ExecutorAssumption DEF Exclusive, Whole, ExecutorAssumption
<1>5. CASE Flush(w)
  <2> DEFINE rest == Tail(worker[w].todo)
             v == IF rest = <<>> THEN Idle
                  ELSE [worker[w] EXCEPT !.todo = rest, !.at = "load", !.rec = Absent]
  <2>1. worker' = [worker EXCEPT ![w] = v] /\ v.at = "load"
    BY <1>1, <1>5, IdleWorker DEF Flush, Proceed, Worker
  <2>2. /\ worker[w].at = "flush" /\ file' = worker[w].rec /\ crashes' = crashes
        /\ worker[w].rec \in Record
    BY <1>1, <1>5 DEF Flush, Exclusive
  <2>3. file' # Empty /\ file' # Garbled
    BY <2>2, ExecutorAssumption DEF ExecutorAssumption
  <2> HIDE DEF v
  <2> QED BY <1>1, <2>1, <2>2, <2>3 DEF Exclusive, Whole
<1>6. CASE ~Load(w) /\ ~LoadOrCreate(w) /\ ~Truncate(w) /\ ~Flush(w)
  BY <1>1, <1>6, ServedLoaded, LoadedKeeps DEF IInv
<1> QED BY <1>2, <1>3, <1>4, <1>5, <1>6

LEMMA ExclusiveInit == Init => Exclusive /\ Whole
BY ExecutorAssumption, IdleWorker DEF Init, Exclusive, Whole, ExecutorAssumption

LEMMA ExclusiveNext ==
  ASSUME OneThread, IInv, Exclusive, Whole, [Next]_vars
  PROVE  Exclusive' /\ Whole'
<1>1. ASSUME NEW w \in Workers, NEW todo, NEW b, Receive(w, todo, b)
      PROVE  Exclusive' /\ Whole'
  <2> DEFINE v == [Idle EXCEPT !.todo = todo, !.backend = b]
  <2>1. v.at = "load"
    BY DEF Idle
  <2>2. /\ worker' = [worker EXCEPT ![w] = v] /\ worker[w].at = "load"
        /\ file' = file /\ crashes' = crashes
    BY <1>1 DEF Receive, IInv, Threads
  <2> HIDE DEF v
  <2> QED BY <2>1, <2>2, LoadedKeeps DEF IInv, Threads
<1>2. ASSUME NEW w \in Workers,
             \/ ReceiveApply(w) \/ ReceiveRun(w)
             \/ ReceiveCancel(w) \/ ReceiveStatus(w)
      PROVE  \E todo, b : Receive(w, todo, b)
  BY <1>2 DEF ReceiveApply, ReceiveRun, ReceiveCancel, ReceiveStatus
<1>3. CASE Crash
  <2>1. crashes' # 0 /\ file' = file /\ worker' = [w \in Workers |-> Idle]
    BY <1>3 DEF Crash, IInv, Counters
  <2>2. \A w \in Workers : worker'[w].at = "load"
    BY <2>1, IdleWorker
  <2> QED BY <2>1, <2>2 DEF Exclusive, Whole
<1>4. CASE ContainerExits \/ UNCHANGED vars
  BY <1>4 DEF ContainerExits, vars, Exclusive, Whole, Readable
<1> QED BY <1>1, <1>2, <1>3, <1>4, ExclusiveServe DEF Next, Quiet

LEMMA Exclusion == ASSUME OneThread PROVE Spec => [](Exclusive /\ Whole)
<1>1. OneThread
  OBVIOUS
<1>2. IInv /\ Exclusive /\ Whole /\ [Next]_vars => (Exclusive /\ Whole)'
  BY <1>1, ExclusiveNext
<1> QED BY <1>2, ExclusiveInit, Invariance, PTL DEF Spec

-----------------------------------------------------------------------------
(* The files implement the abstract lifecycle.                             *)

RefinementAssumption == Unborn \notin State

\* What the mapping says of the state the file and the thread are in:
StateIs(s) ==
  /\ file = Absent => s = Unborn
  /\ file \in Record => s = file.state
  /\ \A w \in Workers : worker[w].at = "flush" => s = worker[w].rec.state
  /\ file = Empty /\ (\A w \in Workers : worker[w].at # "flush") => s = Lost

LEMMA Mapped ==
  ASSUME OneThread
  PROVE  /\ Exclusive => StateIs(RecordedState)
         /\ Exclusive' => StateIs(RecordedState)'
<1> USE ExecutorAssumption DEF ExecutorAssumption
<1>1. ASSUME Exclusive PROVE StateIs(RecordedState)
  <2>1. ASSUME NEW w \in Workers, worker[w].at = "flush"
        PROVE  /\ file = Empty
               /\ (CHOOSE v \in Workers : worker[v].at = "flush") = w
    BY <1>1, <2>1 DEF Exclusive, OneThread
  <2> QED BY <2>1 DEF StateIs, RecordedState, Readable
<1>2. ASSUME Exclusive' PROVE StateIs(RecordedState)'
  <2>1. ASSUME NEW w \in Workers, worker'[w].at = "flush"
        PROVE  /\ file' = Empty
               /\ (CHOOSE v \in Workers : worker'[v].at = "flush") = w
    BY <1>2, <2>1 DEF Exclusive, OneThread
  <2> QED BY <2>1 DEF StateIs, RecordedState, Readable
<1> QED BY <1>1, <1>2

\* No step but those that empty the file and those of a restart changes what is
\* recorded,
LEMMA ServeMoves ==
  ASSUME OneThread, RefinementAssumption, IInv, Exclusive, Exclusive',
         NEW w \in Workers, Serve(w)
  PROVE  [Job!Next]_RecordedState
<1> DEFINE s == RecordedState
<1>1. /\ \A u \in Workers : u = w
      /\ file \in Record \cup {Absent, Empty}
      /\ worker \in [Workers -> Worker] /\ worker[w] \in Worker
      /\ worker[w].at # "load" => worker[w].rec \in Record
      /\ StateIs(s) /\ StateIs(s)'
  BY Mapped DEF OneThread, IInv, Threads, Contents, Exclusive
<1> HIDE DEF s
<1> USE ExecutorAssumption DEF ExecutorAssumption
<1>2. CASE Truncate(w)
  <2>1. /\ worker[w].at = "open" /\ worker'[w].at = "flush"
        /\ worker'[w].rec = worker[w].rec /\ worker[w].rec.state \in State
    BY <1>1, <1>2 DEF Truncate, Worker, Record
  <2>2. s' = worker[w].rec.state
    BY <1>1, <2>1 DEF StateIs
  <2>3. CASE file = Absent
    <3>1. s = Unborn /\ s' \in {"PRECHECK_PASSED", "APPLIED"}
      BY <1>1, <2>1, <2>2, <2>3 DEF StateIs, Exclusive
    <3> QED BY <3>1 DEF s, Job!Next, Job!Create
  <2>4. CASE file # Absent
    <3>1. s \in State /\ s' \in State /\ CanTransition(s, s')
      BY <1>1, <2>1, <2>2, <2>4 DEF StateIs, Exclusive, Readable, Record
    <3>2. s' \in {x \in Job!State : Job!CanTransition(s, x)} /\ s \in Job!State
      BY <3>1 DEF Job!State, State, Job!CanTransition, CanTransition, Job!Allowed,
         Allowed, Job!Terminal, Terminal
    <3> QED BY <3>2 DEF s, Job!Next, Job!Advance
  <2> QED BY <2>3, <2>4
<1>3. CASE Flush(w)
  <2>1. worker[w].at = "flush" /\ worker[w].rec \in Record /\ file' = worker[w].rec
    BY <1>1, <1>3 DEF Flush, Exclusive
  <2>2. s' = s
    BY <1>1, <2>1 DEF StateIs
  <2> QED BY <2>2 DEF s
<1>4. CASE ~Truncate(w) /\ ~Flush(w)
  <2>1. file' = file /\ worker[w].at # "flush" /\ worker'[w].at # "flush"
    <3>1. CASE Load(w)
      BY <1>1, <3>1 DEF Load
    <3>2. CASE LoadOrCreate(w)
      <4>1. worker[w].at = "load" /\ file' = file
        BY <3>2 DEF LoadOrCreate
      <4>2. CASE worker' = [worker EXCEPT ![w].rec = Fresh(Head(worker[w].todo).to),
                                          ![w].at = "open"]
        BY <1>1, <4>1, <4>2
      <4>3. ASSUME NEW rest, Proceed(w, rest)
            PROVE  worker'[w].at # "flush"
        BY <1>1, <4>3, IdleWorker DEF Proceed, Worker
      <4> QED BY <3>2, <4>1, <4>2, <4>3 DEF LoadOrCreate
    <3>3. CASE ~Load(w) /\ ~LoadOrCreate(w)
      BY <1>1, <1>4, <3>3, ServedLoaded DEF IInv
    <3> QED BY <3>1, <3>2, <3>3
  <2>2. s' = s
    BY <1>1, <2>1 DEF StateIs
  <2> QED BY <2>2 DEF s
<1> QED BY <1>2, <1>3, <1>4

\* and a restart loses it, in the middle of a rewrite.
LEMMA CrashMoves ==
  ASSUME OneThread, RefinementAssumption, IInv, Exclusive, Exclusive', Crash
  PROVE  [Job!Next]_RecordedState
<1> DEFINE s == RecordedState
<1>1. /\ file \in Record \cup {Absent, Empty} /\ file' = file
      /\ StateIs(s) /\ StateIs(s)'
      /\ \A w \in Workers : worker'[w].at = "load"
  BY Mapped, IdleWorker DEF IInv, Contents, Exclusive, Crash
<1> HIDE DEF s
<1> USE ExecutorAssumption DEF ExecutorAssumption
<1>2. CASE \E w \in Workers : worker[w].at = "flush"
  <2>1. PICK w \in Workers : worker[w].at = "flush"
    BY <1>2
  <2>2. worker[w].rec \in Record /\ file' = Empty
    BY <1>1, <2>1 DEF IInv, Threads, Exclusive
  <2>3. s \in State /\ s' = Lost
    BY <1>1, <2>1, <2>2 DEF StateIs, Record
  <2> QED BY <2>3 DEF s, Job!Next, Job!Lose, RefinementAssumption
<1>3. CASE \A w \in Workers : worker[w].at # "flush"
  <2>1. s' = s
    BY <1>1, <1>3 DEF StateIs
  <2> QED BY <2>1 DEF s
<1> QED BY <1>2, <1>3

LEMMA EveryStepMoves ==
  ASSUME OneThread, RefinementAssumption, IInv, Exclusive, Exclusive', [Next]_vars
  PROVE  [Job!Next]_RecordedState
<1>1. ASSUME NEW w \in Workers,
             \/ ReceiveApply(w) \/ ReceiveRun(w)
             \/ ReceiveCancel(w) \/ ReceiveStatus(w)
      PROVE  RecordedState' = RecordedState
  <2>1. PICK todo, b : Receive(w, todo, b)
    BY <1>1 DEF ReceiveApply, ReceiveRun, ReceiveCancel, ReceiveStatus
  <2>2. /\ file' = file /\ worker[w].at = "load" /\ worker'[w].at = "load"
        /\ \A u \in Workers : u = w
        /\ file \in Record \cup {Absent, Empty}
    BY <2>1 DEF Receive, IInv, Threads, Contents, Idle, Exclusive, OneThread
  <2> QED BY <2>2, Mapped, ExecutorAssumption DEF StateIs, ExecutorAssumption
<1>2. CASE ContainerExits \/ UNCHANGED vars
  BY <1>2 DEF ContainerExits, vars, RecordedState, Readable
<1> QED BY <1>1, <1>2, ServeMoves, CrashMoves DEF Next, Quiet

LEMMA StartsUnborn == ASSUME OneThread PROVE Init => Job!Init
BY ExclusiveInit, Mapped DEF Init, StateIs, Job!Init

\* With one thread the record file implements the lifecycle of a job: it is created
\* once, moves along the table, and a restart in the middle of a rewrite may lose it
\* for good (registry._locked_write), but nothing takes a recorded state back.
THEOREM FilesImplementLifecycle ==
  ASSUME OneThread, RefinementAssumption PROVE Spec => ImplementsLifecycle
<1>1. OneThread /\ RefinementAssumption
  OBVIOUS
<1>2. IInv /\ Exclusive /\ Exclusive' /\ [Next]_vars => [Job!Next]_RecordedState
  BY <1>1, EveryStepMoves
<1>3. Init => Job!Init
  BY StartsUnborn
<1>4. Spec => []IInv /\ [](Exclusive /\ Whole)
  BY Invariance, Exclusion, PTL
<1> QED BY <1>2, <1>3, <1>4, PTL DEF Spec, ImplementsLifecycle, Job!Spec

\* With one thread and no restart the record can be read between requests
\* (registry._locked_write).
THEOREM ReadableBetweenRequests == ASSUME OneThread PROVE Spec => []ReadableAtRest
<1>1. IInv /\ Exclusive /\ Whole => ReadableAtRest
  BY DEF IInv, Threads, Exclusive, Whole, ReadableAtRest, AtRest
<1> QED BY <1>1, Invariance, Exclusion, PTL

-----------------------------------------------------------------------------
(* One thread and no restart: what a request still has to do, and what the *)
(* record, the ledger and docker hold until it has.                        *)

Ended == {"SUCCEEDED", "FAILED", "CANCELED"}

\* Calls that start and end nothing.
Plain == {c \in Call : \/ c.do \in {"create", "touch"} \cup Decisions
                       \/ c.do = "move" /\ c.to \in {"PRECHECK_PASSED", "APPLIED", "BLOCKED"}}

\* No container runs, or only the one of that backend's job handle.
Gone == faults = 0 => live = {}
Contained(b, n) == faults = 0 => live \subseteq {n} /\ (b # "docker" => live = {})

\* A record between requests.
Settled(r) ==
  /\ IF r \in Record /\ r.state = "RUNNING" THEN Contained(r.backend, r.ref) ELSE Gone
  /\ r \in Record /\ r.state \in Ended => charged /\ r.finished

Is(r, states) == r \in Record /\ r.state \in states
Handled(r, b, n) ==
  Is(r, {"RUNNING"}) /\ b = r.backend /\ n = r.ref /\ Contained(b, n)

Finishers == {Do("finish"), Try(Do("finish"))}
FinishAnd(c, a) == <<c, Move(a), Do("charge")>>
CancelRest == FinishAnd(Try(Do("finish")), "CANCELED")
KillAnd == <<Do("kill")>> \o CancelRest
Attached(t) == <<Try(Do("touch"))>> \o t

\* The stages of a request, by the calls it has yet to make.
Idles(t, r) == t \in Seq(Plain) /\ Settled(r)
Submits(t, r) == t = <<Do("submit")>> /\ Is(r, {"APPLIED"}) /\ Gone
Notes(t, r, b, n) ==
  t = <<Do("submitted"), Move("RUNNING")>> /\ Is(r, {"APPLIED"}) /\ Contained(b, n)
Starts(t, r) ==
  t = <<Move("RUNNING")>> /\ Is(r, {"APPLIED"}) /\ Contained(r.backend, r.ref)
Polls(t, r, b, n) == t = <<Do("poll")>> /\ Handled(r, b, n)
Kills(t, r, b, n) == t \in {KillAnd, Attached(KillAnd)} /\ Handled(r, b, n)
Finishes(t, r) ==
  /\ t = Attached(CancelRest) \/ \E c \in Finishers, a \in Ended : t = FinishAnd(c, a)
  /\ Is(r, {"APPLIED", "RUNNING"}) /\ Gone
Ends(t, r) ==
  /\ \E a \in Ended : t = <<Move(a), Do("charge")>>
  /\ Is(r, {"APPLIED", "RUNNING"}) /\ r.finished /\ Gone
Charges(t, r) == t = <<Do("charge")>> /\ Is(r, Ended) /\ r.finished /\ Gone

InPlan(t, r, b, n) ==
  \/ Idles(t, r) \/ Submits(t, r) \/ Notes(t, r, b, n) \/ Starts(t, r)
  \/ Polls(t, r, b, n) \/ Kills(t, r, b, n) \/ Finishes(t, r) \/ Ends(t, r)
  \/ Charges(t, r)

\* A rewrite counts as made when it has begun.
Current(w) == IF worker[w].at = "load" THEN file ELSE worker[w].rec
Rest(w) == IF worker[w].at = "load" THEN worker[w].todo ELSE Tail(worker[w].todo)

Followed ==
  crashes = 0 => \A w \in Workers : InPlan(Rest(w), Current(w), worker[w].backend, worker[w].ref)

\* A call and what comes after it.
LEMMA FirstOf ==
  ASSUME NEW c \in Call, NEW t \in Seq(Call)
  PROVE  /\ <<c>> \o t \in Seq(Call) /\ <<c>> \o t # <<>>
         /\ Head(<<c>> \o t) = c /\ Tail(<<c>> \o t) = t
<1>1. /\ <<c>> \o t \in Seq(Call) /\ Len(<<c>> \o t) = Len(t) + 1
      /\ (<<c>> \o t)[1] = c /\ \A i \in 1..Len(t) : (<<c>> \o t)[i + 1] = t[i]
  OBVIOUS
<1>2. /\ Len(Tail(<<c>> \o t)) = Len(t)
      /\ \A i \in 1..Len(t) : Tail(<<c>> \o t)[i] = t[i]
  BY <1>1
<1> QED BY <1>1, <1>2

\* The stages that have calls to make, with the first call and the rest.
LEMMA Heads ==
  /\ \A c \in Finishers, a \in Ended :
       /\ FinishAnd(c, a) \in Seq(Call) /\ FinishAnd(c, a) # <<>>
       /\ Head(FinishAnd(c, a)) = c /\ c.do = "finish"
       /\ Tail(FinishAnd(c, a)) = <<Move(a), Do("charge")>>
  /\ CancelRest \in Seq(Call)
  /\ KillAnd # <<>> /\ Head(KillAnd) = Do("kill") /\ Tail(KillAnd) = CancelRest
  /\ \A t \in {KillAnd, CancelRest} :
       /\ Attached(t) # <<>> /\ Tail(Attached(t)) = t
       /\ Head(Attached(t)) = Try(Do("touch"))
<1>1. ASSUME NEW c \in Finishers, NEW a \in Ended
      PROVE  /\ FinishAnd(c, a) \in Seq(Call) /\ FinishAnd(c, a) # <<>>
             /\ Head(FinishAnd(c, a)) = c /\ c.do = "finish"
             /\ Tail(FinishAnd(c, a)) = <<Move(a), Do("charge")>>
  <2>1. c \in Call /\ Move(a) \in Call /\ Do("charge") \in Call
    BY CallTypes DEF Finishers, Rewrites, Effects, Ended, State
  <2>2. /\ <<c, Move(a), Do("charge")>> \in Seq(Call)
        /\ <<c, Move(a), Do("charge")>> # <<>>
        /\ Head(<<c, Move(a), Do("charge")>>) = c
        /\ Tail(<<c, Move(a), Do("charge")>>) = <<Move(a), Do("charge")>>
    BY <2>1
  <2>3. c.do = "finish"
    BY DEF Finishers, Do, Try
  <2> QED BY <2>2, <2>3 DEF FinishAnd
<1>2. CancelRest \in Seq(Call)
  BY <1>1 DEF CancelRest, Finishers, Ended
<1>3. Do("kill") \in Call /\ Try(Do("touch")) \in Call
  BY CallTypes DEF Rewrites, Effects
<1>4. /\ KillAnd # <<>> /\ Head(KillAnd) = Do("kill") /\ Tail(KillAnd) = CancelRest
      /\ KillAnd \in Seq(Call)
  BY <1>2, <1>3, FirstOf DEF KillAnd
<1>5. \A t \in {KillAnd, CancelRest} :
        /\ Attached(t) # <<>> /\ Tail(Attached(t)) = t
        /\ Head(Attached(t)) = Try(Do("touch"))
  BY <1>2, <1>3, <1>4, FirstOf DEF Attached
<1> QED BY <1>1, <1>2, <1>4, <1>5

\* What each stage does next.
LEMMA StageHeads ==
  ASSUME NEW t, NEW r, NEW b, NEW n
  PROVE  /\ Submits(t, r) => t # <<>> /\ Head(t).do = "submit"
         /\ Notes(t, r, b, n) =>
              t # <<>> /\ Head(t) = Do("submitted") /\ Tail(t) = <<Move("RUNNING")>>
         /\ Starts(t, r) => t # <<>> /\ Head(t) = Move("RUNNING") /\ Tail(t) = <<>>
         /\ Polls(t, r, b, n) => t # <<>> /\ Head(t).do = "poll"
         /\ Kills(t, r, b, n) =>
              /\ t # <<>>
              /\ \/ Head(t) = Do("kill") /\ Tail(t) = CancelRest
                 \/ Head(t) = Try(Do("touch")) /\ Tail(t) = KillAnd
         /\ Finishes(t, r) =>
              /\ t # <<>>
              /\ \/ /\ Head(t).do = "finish"
                    /\ \E a \in Ended : Tail(t) = <<Move(a), Do("charge")>>
                 \/ Head(t) = Try(Do("touch")) /\ Tail(t) = CancelRest
         /\ Ends(t, r) =>
              /\ t # <<>> /\ Tail(t) = <<Do("charge")>>
              /\ \E a \in Ended : Head(t) = Move(a)
         /\ Charges(t, r) => t # <<>> /\ Head(t).do = "charge"
<1>1. /\ Do("submit") \in Call /\ Do("submitted") \in Call /\ Do("poll") \in Call
      /\ Do("charge") \in Call /\ \A s \in State : Move(s) \in Call
      /\ "RUNNING" \in State /\ Ended \subseteq State
  BY CallTypes DEF Rewrites, Effects, Ended, State
<1>2. \A d : Do(d).do = d
  BY DEF Do
<1>3. ASSUME NEW c \in Call, NEW d \in Call
      PROVE  /\ <<c>> # <<>> /\ Head(<<c>>) = c /\ Tail(<<c>>) = <<>>
             /\ <<c, d>> # <<>> /\ Head(<<c, d>>) = c /\ Tail(<<c, d>>) = <<d>>
  OBVIOUS
<1>4. \A c \in {Do("submit"), Do("poll"), Do("charge"), Move("RUNNING")} :
        t = <<c>> => t # <<>> /\ Head(t) = c /\ Tail(t) = <<>>
  BY <1>1, <1>3
<1>5. /\ Submits(t, r) => t # <<>> /\ Head(t).do = "submit"
      /\ Polls(t, r, b, n) => t # <<>> /\ Head(t).do = "poll"
      /\ Charges(t, r) => t # <<>> /\ Head(t).do = "charge"
      /\ Starts(t, r) => t # <<>> /\ Head(t) = Move("RUNNING") /\ Tail(t) = <<>>
  BY <1>2, <1>4 DEF Submits, Polls, Charges, Starts
<1>6. Notes(t, r, b, n) =>
        t # <<>> /\ Head(t) = Do("submitted") /\ Tail(t) = <<Move("RUNNING")>>
  <2>1. Do("submitted") \in Call /\ Move("RUNNING") \in Call
    BY <1>1
  <2> QED BY <2>1, <1>3 DEF Notes
<1>7. ASSUME Ends(t, r)
      PROVE  /\ t # <<>> /\ Tail(t) = <<Do("charge")>>
             /\ \E a \in Ended : Head(t) = Move(a)
  <2>1. PICK a \in Ended : t = <<Move(a), Do("charge")>>
    BY <1>7 DEF Ends
  <2>2. Move(a) \in Call /\ Do("charge") \in Call
    BY <1>1
  <2> QED BY <2>1, <2>2, <1>3
<1>8. Kills(t, r, b, n) =>
        /\ t # <<>>
        /\ \/ Head(t) = Do("kill") /\ Tail(t) = CancelRest
           \/ Head(t) = Try(Do("touch")) /\ Tail(t) = KillAnd
  BY Heads DEF Kills
<1>9. Finishes(t, r) =>
        /\ t # <<>>
        /\ \/ /\ Head(t).do = "finish"
              /\ \E a \in Ended : Tail(t) = <<Move(a), Do("charge")>>
           \/ Head(t) = Try(Do("touch")) /\ Tail(t) = CancelRest
  BY Heads DEF Finishes
<1> QED BY <1>5, <1>8, <1>9, <1>6, <1>7

\* The first call tells the stage of a request.
LEMMA WhichStage ==
  ASSUME NEW t, t # <<>>, NEW r, NEW b, NEW n, InPlan(t, r, b, n)
  PROVE  /\ Head(t).do \in {"create"} \cup Decisions => Idles(t, r)
         /\ Head(t).do = "submit" => Submits(t, r)
         /\ Head(t).do = "poll" => Polls(t, r, b, n)
         /\ Head(t).do = "kill" => Handled(r, b, n) /\ Tail(t) = CancelRest
         /\ Head(t).do = "charge" => Charges(t, r)
<1>1. Idles(t, r) => Head(t).do \notin Effects
  <2> SUFFICES ASSUME Idles(t, r) PROVE Head(t).do \notin Effects
    OBVIOUS
  <2>1. Head(t) \in Plain
    BY DEF Idles
  <2> QED BY <2>1 DEF Plain, Decisions, Effects
<1>2. /\ \A d : Do(d).do = d /\ Try(Do("touch")).do = "touch"
      /\ \A s : Move(s).do = "move"
  BY DEF Do, Move, Try
<1> QED BY <1>1, <1>2, StageHeads DEF InPlan, Decisions, Effects, Kills

\* What an edit leaves of the record's fields.
LEMMA EditFields ==
  ASSUME NEW c \in Call, c.do \in Rewrites \ {"create"}, NEW r \in Record, Truthful(r),
         Accepts(c, r), NEW b \in Backends \cup {"none"}, NEW n \in Nat,
         NEW e, e = Edit(c, r, b, n)
  PROVE  /\ e \in Record
         /\ c.do = "touch" => e = r
         /\ c.do = "move" => /\ e.state = c.to /\ e.finished = r.finished
                             /\ e.backend = r.backend /\ e.ref = r.ref
         /\ c.do = "finish" => e.state = r.state /\ e.finished
         /\ c.do = "submitted" => e.state = r.state /\ e.backend = b /\ e.ref = n
<1>1. e \in Record
  BY EditTruthful
<1> QED BY <1>1 DEF Edit, Record

\* A rewrite leads to the next stage.
LEMMA EditPlan ==
  ASSUME NEW t \in Seq(Call), t # <<>>, NEW r \in Record, Truthful(r),
         NEW b \in Backends \cup {"none"}, NEW n \in Nat, InPlan(t, r, b, n),
         Head(t).do \in Rewrites \ {"create"}, Accepts(Head(t), r)
  PROVE  InPlan(Tail(t), Edit(Head(t), r, b, n), b, n)
<1> DEFINE c == Head(t)
           e == Edit(c, r, b, n)
<1>1. /\ c \in Call /\ e \in Record
      /\ c.do = "touch" => e = r
      /\ c.do = "move" => /\ e.state = c.to /\ e.finished = r.finished
                          /\ e.backend = r.backend /\ e.ref = r.ref
                          /\ CanTransition(r.state, c.to)
      /\ c.do = "finish" => e.state = r.state /\ e.finished
      /\ c.do = "submitted" => e.state = r.state /\ e.backend = b /\ e.ref = n
  BY EditFields DEF Accepts
<1>2. /\ \A d : Do(d).do = d
      /\ Try(Do("touch")).do = "touch"
      /\ \A s : Move(s).do = "move" /\ Move(s).to = s
  BY DEF Do, Move, Try
<1>3. /\ c = Head(t) /\ c.do \in {"move", "submitted", "finish", "touch"}
  BY DEF Rewrites
<1> HIDE DEF c, e
<1> SUFFICES InPlan(Tail(t), e, b, n)
  BY DEF c, e
<1>4. CASE Idles(t, r)
  <2>1. /\ Tail(t) \in Seq(Plain) /\ c \in Plain
    BY <1>3, <1>4 DEF Idles
  <2>2. CASE c.do = "touch"
    BY <1>1, <1>4, <2>1, <2>2 DEF Idles, InPlan
  <2>3. CASE c.do = "move"
    <3>1. e.state \in {"PRECHECK_PASSED", "APPLIED", "BLOCKED"} /\ r.state # "RUNNING"
      BY <1>1, <2>1, <2>3 DEF Plain, Decisions, CanTransition, Allowed
    <3>2. Settled(e)
      BY <1>1, <1>4, <3>1 DEF Idles, Settled, Ended
    <3> QED BY <2>1, <3>2 DEF Idles, InPlan
  <2> QED BY <1>3, <2>1, <2>2, <2>3 DEF Plain, Decisions
<1>5. CASE Notes(t, r, b, n)
  <2>1. c.do = "submitted" /\ Tail(t) = <<Move("RUNNING")>>
    BY <1>2, <1>3, <1>5, StageHeads
  <2> QED BY <1>1, <1>5, <2>1 DEF Notes, Starts, Is, InPlan
<1>6. CASE Starts(t, r)
  <2>1. c.do = "move" /\ c.to = "RUNNING" /\ Tail(t) = <<>>
    BY <1>2, <1>3, <1>6, StageHeads
  <2>2. Settled(e)
    BY <1>1, <1>6, <2>1 DEF Starts, Settled, Ended, Contained
  <2>3. <<>> \in Seq(Plain)
    OBVIOUS
  <2> QED BY <2>1, <2>2, <2>3 DEF Idles, InPlan
<1>7. CASE Kills(t, r, b, n)
  <2>1. c.do = "touch" /\ Tail(t) = KillAnd
    BY <1>2, <1>3, <1>7, StageHeads
  <2> QED BY <1>1, <1>7, <2>1 DEF Kills, InPlan
<1>8. CASE Finishes(t, r)
  <2>1. CASE c.do = "finish" /\ \E a \in Ended : Tail(t) = <<Move(a), Do("charge")>>
    BY <1>1, <1>8, <2>1 DEF Finishes, Ends, Is, InPlan
  <2>2. CASE c.do = "touch" /\ Tail(t) = CancelRest
    <3>1. \E d \in Finishers, a \in Ended : Tail(t) = FinishAnd(d, a)
      BY <2>2 DEF CancelRest, Finishers, Ended
    <3>2. e = r /\ Is(r, {"APPLIED", "RUNNING"}) /\ Gone
      BY <1>1, <1>8, <2>2 DEF Finishes
    <3> QED BY <3>1, <3>2 DEF Finishes, InPlan
  <2> QED BY <1>2, <1>3, <1>8, <2>1, <2>2, StageHeads
<1>9. CASE Ends(t, r)
  <2>1. PICK a \in Ended : c = Move(a) /\ Tail(t) = <<Do("charge")>>
    BY <1>3, <1>9, StageHeads
  <2> QED BY <1>1, <1>2, <1>9, <2>1 DEF Ends, Charges, Is, InPlan
<1>10. CASE Submits(t, r) \/ Polls(t, r, b, n) \/ Charges(t, r)
  BY <1>3, <1>10, StageHeads
<1> QED BY <1>4, <1>5, <1>6, <1>7, <1>8, <1>9, <1>10 DEF InPlan

\* So does one that is refused, and one that was never possible.
LEMMA StuckPlan ==
  ASSUME NEW t \in Seq(Call), t # <<>>, NEW r \in Record \cup {Absent},
         NEW b, NEW n, InPlan(t, r, b, n),
         Head(t).do \in Rewrites \ {"create"}, ~(r \in Record /\ Accepts(Head(t), r)),
         NEW b2, NEW n2
  PROVE  InPlan(IF Head(t).soft THEN Tail(t) ELSE <<>>, r, b2, n2)
<1> DEFINE c == Head(t)
<1>1. /\ \A d : Do(d).do = d
      /\ Try(Do("touch")).do = "touch"
      /\ \A s : Move(s).do = "move" /\ Move(s).to = s /\ Move(s).soft = FALSE
  BY DEF Do, Move, Try
<1>2. /\ c = Head(t) /\ c.do \in {"move", "submitted", "finish", "touch"}
      /\ r \in Record => c.do = "move" /\ ~CanTransition(r.state, c.to)
  BY DEF Rewrites, Accepts
<1> HIDE DEF c
<1>3. CASE Idles(t, r)
  BY <1>3 DEF Idles, InPlan
<1>4. CASE Ends(t, r)
  <2>1. c.soft = FALSE /\ Settled(r)
    BY <1>1, <1>2, <1>4, StageHeads DEF Ends, Is, Settled, Gone, Contained, Ended
  <2> QED BY <1>2, <2>1 DEF Idles, InPlan
<1>5. CASE Starts(t, r)
  <2>1. r \in Record /\ r.state = "APPLIED" /\ c.to = "RUNNING"
    BY <1>1, <1>2, <1>5, StageHeads DEF Starts, Is
  <2> QED BY <1>2, <2>1 DEF CanTransition, Allowed, Terminal
<1>6. CASE \/ Submits(t, r) \/ Notes(t, r, b, n) \/ Polls(t, r, b, n)
           \/ Kills(t, r, b, n) \/ Finishes(t, r) \/ Charges(t, r)
  <2>1. r \in Record
    BY <1>6 DEF Submits, Notes, Polls, Kills, Finishes, Charges, Is, Handled
  <2>2. c.do # "move"
    BY <1>1, <1>2, <1>6, StageHeads
  <2> QED BY <1>2, <2>1, <2>2
<1> QED BY <1>3, <1>4, <1>5, <1>6 DEF InPlan

\* A record that is there, or is made, starts no stage.
LEMMA CreatePlan ==
  ASSUME NEW t \in Seq(Call), t # <<>>, NEW r \in Record \cup {Absent}, NEW b, NEW n,
         InPlan(t, r, b, n), Head(t).do = "create", NEW b2, NEW n2
  PROVE  /\ InPlan(Tail(t), r, b2, n2)
         /\ r = Absent => InPlan(Tail(t), Fresh(Head(t).to), b2, n2)
<1>1. Idles(t, r) /\ Tail(t) \in Seq(Plain) /\ Head(t) \in Call
  BY WhichStage DEF Idles
<1>2. Head(t).to \in {"PRECHECK_PASSED", "APPLIED"}
  BY <1>1 DEF Call, Rewrites, Decisions, Effects
<1>3. Fresh(Head(t).to) \in Record /\ Fresh(Head(t).to).state = Head(t).to
  BY <1>2, FreshTruthful DEF Fresh
<1>4. r = Absent => Settled(Fresh(Head(t).to))
  BY <1>1, <1>2, <1>3, ExecutorAssumption DEF Idles, Settled, Ended, ExecutorAssumption
<1> QED BY <1>1, <1>4 DEF Idles, InPlan

\* The decisions, each on a record that was settled.
LEMMA DecidePlan ==
  ASSUME NEW r, Settled(r), NEW b, NEW n
  PROVE  /\ InPlan(<<>>, r, b, n)
         /\ InPlan(<<Move("APPLIED")>>, r, b, n)
         /\ Is(r, {"APPLIED"}) => InPlan(<<Do("submit")>>, r, b, n)
         /\ Is(r, {"RUNNING"}) => InPlan(<<Do("poll")>>, r, r.backend, r.ref)
         /\ \A attach \in BOOLEAN :
              r \in Record => InPlan(CancelCalls(r, attach), r, r.backend, r.ref)
<1>1. InPlan(<<>>, r, b, n) /\ InPlan(<<>>, r, r.backend, r.ref)
  BY DEF Idles, InPlan
<1>2. InPlan(<<Move("APPLIED")>>, r, b, n)
  <2>1. Move("APPLIED") \in Plain
    BY DEF Move, Plain, Call, State
  <2> QED BY <2>1 DEF Idles, InPlan
<1>3. Is(r, {"APPLIED"}) => InPlan(<<Do("submit")>>, r, b, n)
  BY DEF Is, Settled, Submits, InPlan
<1>4. Is(r, {"RUNNING"}) => InPlan(<<Do("poll")>>, r, r.backend, r.ref)
  BY DEF Is, Settled, Polls, Handled, InPlan
<1>5. ASSUME NEW attach \in BOOLEAN, r \in Record
      PROVE  InPlan(CancelCalls(r, attach), r, r.backend, r.ref)
  <2>1. /\ CancelRest \in Seq(Call) /\ <<Do("kill")>> \in Seq(Call)
        /\ <<Try(Do("touch"))>> \in Seq(Call) /\ KillAnd \in Seq(Call)
        /\ \A q \in Seq(Call) : <<>> \o q = q /\ q \o <<>> = q
    <3>1. Do("kill") \in Call /\ Try(Do("touch")) \in Call
      BY CallTypes DEF Rewrites, Effects
    <3> QED BY <3>1, Heads, FirstOf DEF KillAnd
  <2>2. CancelRest = <<Try(Do("finish")), Move("CANCELED"), Do("charge")>>
    BY DEF CancelRest, FinishAnd
  <2>3. \A p, q, u \in Seq(Call) : (p \o q) \o u = p \o (q \o u)
    BY ConcatAssociative
  <2>4. CASE r.state \notin {"APPLIED", "RUNNING"}
    BY <1>1, <2>4 DEF CancelCalls
  <2>5. CASE r.state = "APPLIED"
    <3>1. CancelCalls(r, attach) = IF attach THEN Attached(CancelRest) ELSE CancelRest
      <4>1. CancelCalls(r, attach) =
              (IF attach THEN <<Try(Do("touch"))>> ELSE <<>>) \o <<>> \o CancelRest
        BY <2>2, <2>5 DEF CancelCalls
      <4>2. CASE attach
        BY <2>1, <4>1, <4>2 DEF Attached
      <4>3. CASE ~attach
        BY <2>1, <4>1, <4>3
      <4> QED BY <4>2, <4>3
    <3>2. Finishes(CancelCalls(r, attach), r)
      BY <1>5, <2>5, <3>1 DEF Finishes, CancelRest, Finishers, Ended, Is, Settled
    <3> QED BY <3>2 DEF InPlan
  <2>6. CASE r.state = "RUNNING"
    <3>1. CancelCalls(r, attach) = IF attach THEN Attached(KillAnd) ELSE KillAnd
      BY <2>1, <2>2, <2>3, <2>6 DEF CancelCalls, Attached, KillAnd
    <3>2. Kills(CancelCalls(r, attach), r, r.backend, r.ref)
      BY <1>5, <2>6, <3>1 DEF Kills, Handled, Is, Settled
    <3> QED BY <3>2 DEF InPlan
  <2> QED BY <2>4, <2>5, <2>6
<1> QED BY <1>1, <1>2, <1>3, <1>4, <1>5

\* A stage lasts while no container starts and no ledger entry goes.
LEMMA StaysInPlan ==
  ASSUME NEW t, NEW r, NEW b, NEW n, InPlan(t, r, b, n),
         live' \subseteq live, charged => charged', faults' = 0 => faults = 0
  PROVE  InPlan(t, r, b, n)'
<1>1. /\ Gone => Gone'
      /\ Settled(r) => Settled(r)'
      /\ \A c, m : Contained(c, m) => Contained(c, m)'
  BY DEF Gone, Settled, Contained, Ended
<1>2. /\ Idles(t, r) => Idles(t, r)'
      /\ Submits(t, r) => Submits(t, r)'
      /\ Notes(t, r, b, n) => Notes(t, r, b, n)'
      /\ Starts(t, r) => Starts(t, r)'
      /\ Handled(r, b, n) => Handled(r, b, n)'
      /\ Finishes(t, r) => Finishes(t, r)'
      /\ Ends(t, r) => Ends(t, r)'
      /\ Charges(t, r) => Charges(t, r)'
  BY <1>1 DEF Idles, Submits, Notes, Starts, Handled, Finishes, Ends, Charges
<1>3. Polls(t, r, b, n) => Polls(t, r, b, n)'
  BY <1>2 DEF Polls
<1>4. Kills(t, r, b, n) => Kills(t, r, b, n)'
  BY <1>2 DEF Kills
<1> QED BY <1>2, <1>3, <1>4 DEF InPlan

\* A thread that goes on, in the stage (rest, r, b, n).
LEMMA Carries ==
  ASSUME OneThread, Threads, NEW w \in Workers, NEW rest, NEW r, NEW b, NEW n,
         \/ Proceed(w, rest) /\ b = worker[w].backend /\ n = worker[w].ref
         \/ Continue(w, rest, b, n) /\ worker[w].at = "load",
         file' = r, InPlan(rest, r, b, n)'
  PROVE  Followed'
<1>1. worker[w] \in Worker /\ worker \in [Workers -> Worker] /\ \A u \in Workers : u = w
  BY DEF Threads, OneThread
<1>2. CASE rest = <<>>
  <2>1. worker'[w] = Idle
    BY <1>1, <1>2 DEF Proceed, Continue
  <2>2. Idles(<<>>, r)'
    <3>1. /\ Move("RUNNING") \in Call /\ Do("submit") \in Call /\ Do("submitted") \in Call
          /\ Do("poll") \in Call /\ Do("charge") \in Call
          /\ \A a \in Ended : Move(a) \in Call
      BY CallTypes DEF Rewrites, Effects, State, Ended
    <3>2. /\ ~Submits(<<>>, r)' /\ ~Starts(<<>>, r)' /\ ~Polls(<<>>, r, b, n)'
          /\ ~Charges(<<>>, r)'
      BY <3>1 DEF Submits, Starts, Polls, Charges
    <3>3. ~Notes(<<>>, r, b, n)' /\ ~Ends(<<>>, r)'
      BY <3>1 DEF Notes, Ends
    <3>4. ~Kills(<<>>, r, b, n)' /\ ~Finishes(<<>>, r)'
      BY Heads DEF Kills, Finishes
    <3> QED BY <1>2, <3>2, <3>3, <3>4 DEF InPlan
  <2>3. Current(w)' = r /\ Rest(w)' = <<>>
    BY <2>1 DEF Current, Rest, Idle
  <2> QED BY <1>1, <2>2, <2>3 DEF Followed, InPlan
<1>3. CASE rest # <<>>
  <2>1. /\ worker'[w].at = "load" /\ worker'[w].todo = rest
        /\ worker'[w].backend = b /\ worker'[w].ref = n
    <3>1. CASE Proceed(w, rest)
      BY <1>1, <1>3, <3>1 DEF Proceed, Worker, Continue
    <3>2. CASE Continue(w, rest, b, n) /\ worker[w].at = "load"
      BY <1>1, <1>3, <3>2 DEF Continue, Worker
    <3> QED BY <3>1, <3>2
  <2>2. Current(w)' = r /\ Rest(w)' = rest
    BY <2>1 DEF Current, Rest
  <2> QED BY <1>1, <2>1, <2>2 DEF Followed
<1> QED BY <1>2, <1>3

\* What is at hand when a thread is about to make a call.
LEMMA AtHand ==
  ASSUME OneThread, IInv, Exclusive, Whole, Followed, crashes = 0, NEW w \in Workers,
         worker[w].at = "load"
  PROVE  /\ file \in Record \cup {Absent} /\ (Readable <=> file \in Record)
         /\ InPlan(worker[w].todo, file, worker[w].backend, worker[w].ref)
         /\ worker[w].backend \in Backends \cup {"none"} /\ worker[w].ref \in Nat
         /\ worker[w].todo \in Seq(Call)
         /\ file \in Record => Truthful(file)
<1>1. \A u \in Workers : u = w
  BY DEF OneThread
<1>2. file # Empty /\ file # Garbled
  BY <1>1 DEF Whole, Exclusive
<1>3. /\ file \in Record \cup {Absent} /\ (Readable <=> file \in Record)
      /\ file \in Record => Truthful(file)
  BY <1>2, ExecutorAssumption DEF IInv, Contents, Readable, ExecutorAssumption
<1>4. /\ worker[w].backend \in Backends \cup {"none"} /\ worker[w].ref \in Nat
      /\ worker[w].todo \in Seq(Call)
  BY DEF IInv, Threads, Worker
<1> QED BY <1>3, <1>4 DEF Followed, Current, Rest

\* A rewrite begins with the record e in hand.
LEMMA Holds ==
  ASSUME OneThread, Threads, NEW w \in Workers, NEW t, NEW e, NEW b, NEW n,
         t = worker[w].todo, b = worker[w].backend, n = worker[w].ref,
         worker' = [worker EXCEPT ![w].rec = e, ![w].at = "open"],
         InPlan(Tail(t), e, b, n)'
  PROVE  Followed'
<1> DEFINE v == [worker[w] EXCEPT !.rec = e, !.at = "open"]
<1>1. worker[w] \in Worker /\ worker \in [Workers -> Worker] /\ \A u \in Workers : u = w
  BY DEF Threads, OneThread
<1>2. worker' = [worker EXCEPT ![w] = v]
  BY <1>1
<1>3. v.rec = e /\ v.at = "open" /\ v.todo = t /\ v.backend = b /\ v.ref = n
  BY <1>1 DEF Worker
<1> HIDE DEF v
<1>4. /\ Current(w)' = e /\ Rest(w)' = Tail(t)
      /\ worker'[w].backend = b /\ worker'[w].ref = n
  BY <1>1, <1>2, <1>3 DEF Current, Rest
<1> QED BY <1>1, <1>4 DEF Followed

\* The rewrites follow the plan.
LEMMA RewritesFollow ==
  ASSUME OneThread, IInv, Exclusive, Whole, Followed, crashes = 0, NEW w \in Workers,
         NEW t, NEW r, NEW b, NEW n, t = worker[w].todo, r = Current(w),
         b = worker[w].backend, n = worker[w].ref,
         Load(w) \/ LoadRaises(w) \/ LoadOrCreate(w) \/ Truncate(w) \/ Flush(w)
  PROVE  Followed'
<1>1. /\ worker \in [Workers -> Worker] /\ worker[w] \in Worker
      /\ \A u \in Workers : u = w
      /\ UNCHANGED <<live, charged, faults, crashes>>
      /\ worker[w].at = "load" => r = file
      /\ worker[w].at # "load" => r = worker[w].rec /\ InPlan(Tail(t), r, b, n)
  BY DEF IInv, Threads, OneThread, Load, LoadRaises, LoadOrCreate, Truncate, Flush,
     Current, Followed, Rest
<1>2. CASE Load(w)
  <2> DEFINE e == Edit(Head(t), r, b, n)
  <2>1. /\ worker[w].at = "load" /\ Readable /\ Accepts(Head(t), r)
        /\ t # <<>> /\ Head(t).do \in Rewrites \ {"create"}
        /\ worker' = [worker EXCEPT ![w].rec = e, ![w].at = "open"]
    BY <1>1, <1>2 DEF Load, Due
  <2>2. InPlan(Tail(t), e, b, n)
    BY <1>1, <2>1, AtHand, EditPlan
  <2> HIDE DEF e
  <2>3. InPlan(Tail(t), e, b, n)'
    BY <1>1, <2>2, StaysInPlan
  <2> QED BY <2>1, <2>3, Holds DEF IInv
<1>3. CASE LoadRaises(w)
  <2> DEFINE rest == IF Head(t).soft THEN Tail(t) ELSE <<>>
  <2>1. /\ worker[w].at = "load" /\ ~(Readable /\ Accepts(Head(t), r))
        /\ t # <<>> /\ Head(t).do \in Rewrites \ {"create"}
        /\ Proceed(w, rest) /\ file' = r
    BY <1>1, <1>3 DEF LoadRaises, Due
  <2>2. /\ r \in Record \cup {Absent} /\ t \in Seq(Call) /\ InPlan(t, r, b, n)
        /\ ~(r \in Record /\ Accepts(Head(t), r))
    BY <1>1, <2>1, AtHand
  <2>3. InPlan(rest, r, b, n)
    BY <2>1, <2>2, StuckPlan
  <2> HIDE DEF rest
  <2>4. InPlan(rest, r, b, n)'
    BY <1>1, <2>3, StaysInPlan
  <2> QED BY <2>1, <2>4, Carries DEF IInv
<1>4. CASE LoadOrCreate(w)
  <2>1. /\ worker[w].at = "load" /\ t # <<>> /\ Head(t).do = "create" /\ file' = r
    BY <1>1, <1>4 DEF LoadOrCreate, Due
  <2>2. /\ InPlan(Tail(t), r, b, n)
        /\ r = Absent => InPlan(Tail(t), Fresh(Head(t).to), b, n)
    <3>1. r \in Record \cup {Absent} /\ t \in Seq(Call) /\ InPlan(t, r, b, n)
      BY <1>1, <2>1, AtHand
    <3> QED BY <2>1, <3>1, CreatePlan
  <2>3. CASE Proceed(w, Tail(t))
    <3>1. InPlan(Tail(t), r, b, n)'
      BY <1>1, <2>2, StaysInPlan
    <3> QED BY <2>1, <2>3, <3>1, Carries DEF IInv
  <2>4. CASE r = Absent /\ worker' = [worker EXCEPT ![w].rec = Fresh(Head(t).to),
                                                    ![w].at = "open"]
    <3>1. InPlan(Tail(t), Fresh(Head(t).to), b, n)'
      BY <1>1, <2>2, <2>4, StaysInPlan
    <3> QED BY <2>4, <3>1, Holds DEF IInv
  <2>5. r \notin {Empty, Garbled}
    BY <1>1, <2>1 DEF Whole, Exclusive
  <2> QED BY <1>1, <1>4, <2>1, <2>3, <2>4, <2>5 DEF LoadOrCreate
<1>5. CASE Truncate(w)
  <2>1. /\ worker[w].at = "open" /\ worker' = [worker EXCEPT ![w].at = "flush"]
    BY <1>5 DEF Truncate
  <2>2. InPlan(Tail(t), r, b, n)'
    BY <1>1, <2>1, StaysInPlan
  <2>3. /\ Current(w)' = r /\ Rest(w)' = Tail(t)
        /\ worker'[w].backend = b /\ worker'[w].ref = n
    BY <1>1, <2>1 DEF Current, Rest, Worker
  <2> QED BY <1>1, <2>2, <2>3 DEF Followed
<1>6. CASE Flush(w)
  <2>1. /\ worker[w].at = "flush" /\ Proceed(w, Tail(t)) /\ file' = r
    BY <1>1, <1>6 DEF Flush, Exclusive
  <2>2. InPlan(Tail(t), r, b, n)'
    BY <1>1, <2>1, StaysInPlan
  <2> QED BY <2>1, <2>2, Carries DEF IInv
<1> QED BY <1>2, <1>3, <1>4, <1>5, <1>6

\* The decisions do.
LEMMA DecisionsFollow ==
  ASSUME OneThread, IInv, Exclusive, Whole, Followed, crashes = 0, NEW w \in Workers,
         worker[w].at = "load", NEW r, r = file,
         DecideApply(w) \/ DecideRun(w) \/ DecideCancel(w) \/ DecideRefresh(w)
  PROVE  Followed'
<1>1. /\ UNCHANGED <<live, charged, faults, crashes>> /\ file' = r
      /\ worker[w].todo # <<>> /\ Head(worker[w].todo).do \in Decisions
  BY DEF DecideApply, DecideRun, DecideCancel, DecideRefresh, Due, Decisions
<1>2. /\ Settled(r) /\ r \in Record \cup {Absent} /\ (Readable <=> r \in Record)
  BY <1>1, AtHand, WhichStage DEF Idles
<1>3. /\ \A b, n : InPlan(<<>>, r, b, n)'
      /\ \A b, n : InPlan(<<Move("APPLIED")>>, r, b, n)'
      /\ Is(r, {"APPLIED"}) => \A b, n : InPlan(<<Do("submit")>>, r, b, n)'
      /\ Is(r, {"RUNNING"}) => InPlan(<<Do("poll")>>, r, r.backend, r.ref)'
      /\ \A attach \in BOOLEAN :
           r \in Record => InPlan(CancelCalls(r, attach), r, r.backend, r.ref)'
  BY <1>1, <1>2, DecidePlan, StaysInPlan
<1>4. CASE DecideApply(w)
  <2>1. Proceed(w, <<Move("APPLIED")>>) \/ Proceed(w, <<>>)
    BY <1>4 DEF DecideApply
  <2> QED BY <1>1, <1>3, <2>1, Carries DEF IInv
<1>5. CASE DecideRun(w)
  <2>1. (Is(r, {"APPLIED"}) /\ Proceed(w, <<Do("submit")>>)) \/ Proceed(w, <<>>)
    BY <1>2, <1>5 DEF DecideRun, Is
  <2> QED BY <1>1, <1>3, <2>1, Carries DEF IInv
<1>6. CASE DecideCancel(w)
  <2>1. \/ r \in Record /\ \E attach \in BOOLEAN :
             Continue(w, CancelCalls(r, attach), r.backend, r.ref)
        \/ Proceed(w, <<>>)
    BY <1>2, <1>6 DEF DecideCancel
  <2> QED BY <1>1, <1>3, <2>1, Carries DEF IInv
<1>7. CASE DecideRefresh(w)
  <2>1. \/ Is(r, {"RUNNING"}) /\ Continue(w, <<Do("poll")>>, r.backend, r.ref)
        \/ Proceed(w, <<>>)
    BY <1>2, <1>7 DEF DecideRefresh, Is
  <2> QED BY <1>1, <1>3, <2>1, Carries DEF IInv
<1> QED BY <1>4, <1>5, <1>6, <1>7

\* A job that is to end, and one whose record is settled.
LEMMA NextStages ==
  ASSUME NEW r, NEW b, NEW n
  PROVE  /\ Settled(r)' => InPlan(<<>>, r, b, n)'
         /\ Settled(r)' => InPlan(<<Do("touch")>>, r, b, n)'
         /\ Settled(r)' => InPlan(<<Try(Do("touch"))>>, r, b, n)'
         /\ Is(r, {"APPLIED", "RUNNING"}) /\ Gone' => InPlan(CancelRest, r, b, n)'
         /\ \A a \in Ended : Is(r, {"APPLIED", "RUNNING"}) /\ Gone' =>
              InPlan(<<Do("finish"), Move(a), Do("charge")>>, r, b, n)'
<1>1. Do("touch") \in Plain /\ Try(Do("touch")) \in Plain
  BY CallTypes DEF Plain, Rewrites, Do, Try
<1>2. /\ <<>> \in Seq(Plain) /\ <<Do("touch")>> \in Seq(Plain)
      /\ <<Try(Do("touch"))>> \in Seq(Plain)
  BY <1>1
<1>3. \A c \in Finishers, a \in Ended : Is(r, {"APPLIED", "RUNNING"}) /\ Gone' =>
        InPlan(FinishAnd(c, a), r, b, n)'
  BY DEF Finishes, InPlan, Is
<1> QED BY <1>2, <1>3 DEF Idles, InPlan, CancelRest, Finishers, Ended, FinishAnd

\* So do the calls of the backend and of the ledger.
LEMMA EffectsFollow ==
  ASSUME OneThread, IInv, Exclusive, Whole, Followed, crashes = 0, NEW w \in Workers,
         worker[w].at = "load", NEW t, NEW r, NEW b, NEW n, t = worker[w].todo, r = file,
         b = worker[w].backend, n = worker[w].ref,
         \/ Submit(w) \/ SubmitRaises(w) \/ Poll(w) \/ Kill(w) \/ DockerFails(w)
         \/ Charge(w)
  PROVE  Followed'
<1>1. /\ file' = r /\ t # <<>> /\ faults \in Nat
      /\ Head(t).do \in Effects
  BY DEF Submit, SubmitRaises, Poll, Kill, DockerFails, Charge, Due, Effects, IInv,
     Counters
<1>2. /\ r \in Record \cup {Absent} /\ (Readable <=> r \in Record)
      /\ InPlan(t, r, b, n)
  BY AtHand
<1>3. CASE Submit(w)
  <2>1. /\ live' = IF b = "docker" THEN {submits + 1} ELSE live
        /\ Continue(w, <<Do("submitted"), Move("RUNNING")>>, b, submits + 1)
        /\ UNCHANGED <<charged, faults>> /\ Head(t).do = "submit"
    BY <1>3 DEF Submit, Due
  <2>2. Is(r, {"APPLIED"}) /\ Gone
    BY <1>1, <1>2, <2>1, WhichStage DEF Submits
  <2>3. PICK m : m = submits + 1
    OBVIOUS
  <2>4. Contained(b, m)'
    BY <2>1, <2>2, <2>3 DEF Contained, Gone
  <2>5. InPlan(<<Do("submitted"), Move("RUNNING")>>, r, b, m)'
    BY <2>2, <2>4 DEF Notes, Is, InPlan
  <2> QED BY <1>1, <2>1, <2>3, <2>5, Carries DEF IInv
<1>4. CASE SubmitRaises(w)
  <2>1. /\ live' \subseteq live /\ Proceed(w, <<>>)
        /\ UNCHANGED <<charged, faults>> /\ Head(t).do = "submit"
    BY <1>4 DEF SubmitRaises, Due
  <2>2. Settled(r)'
    BY <1>1, <1>2, <2>1, WhichStage DEF Submits, Is, Settled, Gone, Ended
  <2>3. InPlan(<<>>, r, b, n)'
    BY <2>2, NextStages
  <2> QED BY <1>1, <2>1, <2>3, Carries DEF IInv
<1>5. CASE Poll(w)
  <2>1. PICK answer \in Answers(b, n) :
          Proceed(w, IF answer = "RUNNING" THEN <<Do("touch")>>
                     ELSE <<Do("finish"), Move(answer), Do("charge")>>)
    BY <1>5 DEF Poll
  <2>2. UNCHANGED <<live, charged, faults>> /\ Head(t).do = "poll"
    BY <1>5 DEF Poll, Due
  <2>3. Handled(r, b, n)
    BY <1>1, <1>2, <2>2, WhichStage DEF Polls
  <2>4. CASE answer = "RUNNING"
    <3>1. Settled(r)'
      BY <2>2, <2>3 DEF Handled, Is, Settled, Contained, Ended
    <3>2. InPlan(<<Do("touch")>>, r, b, n)'
      BY <3>1, NextStages
    <3> QED BY <1>1, <2>1, <2>4, <3>2, Carries DEF IInv
  <2>5. CASE answer # "RUNNING"
    <3>1. answer \in Ended /\ Gone'
      BY <2>1, <2>2, <2>3, <2>5 DEF Answers, Ended, Handled, Contained, Gone
    <3>2. InPlan(<<Do("finish"), Move(answer), Do("charge")>>, r, b, n)'
      BY <2>3, <3>1, NextStages DEF Handled, Is
    <3> QED BY <1>1, <2>1, <2>5, <3>2, Carries DEF IInv
  <2> QED BY <2>4, <2>5
<1>6. CASE Kill(w)
  <2>1. /\ live' = IF b = "docker" THEN live \ {n} ELSE live
        /\ Proceed(w, Tail(t))
        /\ UNCHANGED <<charged, faults>> /\ Head(t).do = "kill"
    BY <1>6 DEF Kill, Due
  <2>2. Handled(r, b, n) /\ Tail(t) = CancelRest
    BY <1>1, <1>2, <2>1, WhichStage
  <2>3. Gone' /\ Is(r, {"APPLIED", "RUNNING"})
    BY <2>1, <2>2 DEF Handled, Contained, Gone, Is
  <2>4. InPlan(CancelRest, r, b, n)'
    BY <2>3, NextStages
  <2> QED BY <1>1, <2>1, <2>2, <2>4, Carries DEF IInv
<1>7. CASE DockerFails(w)
  <2>1. /\ faults' = faults + 1 /\ UNCHANGED <<live, charged>>
        /\ \/ /\ Head(t).do = "poll"
              /\ \/ Proceed(w, <<>>)
                 \/ Proceed(w, <<Do("finish"), Move("FAILED"), Do("charge")>>)
           \/ Head(t).do = "kill" /\ Proceed(w, Tail(t))
    BY <1>7 DEF DockerFails, Due
  <2>2. Handled(r, b, n) /\ (Head(t).do = "kill" => Tail(t) = CancelRest)
    BY <1>1, <1>2, <2>1, WhichStage DEF Polls
  <2>3. Gone' /\ Settled(r)' /\ Is(r, {"APPLIED", "RUNNING"})
    BY <1>1, <2>1, <2>2 DEF Handled, Is, Settled, Contained, Gone, Ended
  <2>4. /\ InPlan(<<>>, r, b, n)' /\ InPlan(CancelRest, r, b, n)'
        /\ InPlan(<<Do("finish"), Move("FAILED"), Do("charge")>>, r, b, n)'
    BY <2>3, NextStages DEF Ended
  <2> QED BY <1>1, <2>1, <2>2, <2>4, Carries DEF IInv
<1>8. CASE Charge(w)
  <2>1. Head(t).do = "charge" /\ UNCHANGED <<live, faults>>
    BY <1>8 DEF Charge, Due
  <2>2. Charges(t, r)
    BY <1>1, <1>2, <2>1, WhichStage
  <2>3. charged' /\ (Proceed(w, <<>>) \/ Proceed(w, <<Try(Do("touch"))>>))
    BY <1>2, <1>8, <2>2 DEF Charge, Charges, Is
  <2>4. Settled(r)'
    BY <2>1, <2>2, <2>3 DEF Charges, Is, Settled, Gone, Ended
  <2>5. InPlan(<<>>, r, b, n)' /\ InPlan(<<Try(Do("touch"))>>, r, b, n)'
    BY <2>4, NextStages
  <2> QED BY <1>1, <2>3, <2>5, Carries DEF IInv
<1> QED BY <1>3, <1>4, <1>5, <1>6, <1>7, <1>8

\* Every step follows the plan.
LEMMA FollowedInit == Init => Followed
<1>1. <<>> \in Seq(Plain)
  OBVIOUS
<1>2. Init => Settled(file)
  BY ExecutorAssumption DEF Init, Settled, Gone, ExecutorAssumption
<1>3. ASSUME Init, NEW w \in Workers
      PROVE  Rest(w) = <<>> /\ Current(w) = file
  BY <1>3, IdleWorker DEF Init, Current, Rest, Idle
<1> QED BY <1>1, <1>2, <1>3 DEF Followed, Idles, InPlan

LEMMA FollowedNext ==
  ASSUME OneThread, IInv, Exclusive, Whole, Followed, [Next]_vars
  PROVE  Followed'
<1> SUFFICES ASSUME crashes' = 0 PROVE Followed'
  BY DEF Followed
<1>1. ASSUME NEW w \in Workers, Serve(w)
      PROVE  Followed'
  <2>1. crashes = 0
    BY <1>1 DEF Serve, Load, LoadRaises, LoadOrCreate, Truncate, Flush, DecideApply,
       DecideRun, DecideCancel, DecideRefresh, Submit, SubmitRaises, Poll, Kill,
       DockerFails, Charge
  <2>2. PICK t, r, b, n : /\ t = worker[w].todo /\ r = Current(w)
                          /\ b = worker[w].backend /\ n = worker[w].ref
    OBVIOUS
  <2>3. CASE Load(w) \/ LoadRaises(w) \/ LoadOrCreate(w) \/ Truncate(w) \/ Flush(w)
    BY <2>1, <2>2, <2>3, RewritesFollow
  <2>4. CASE ~(Load(w) \/ LoadRaises(w) \/ LoadOrCreate(w) \/ Truncate(w) \/ Flush(w))
    <3>1. worker[w].at = "load" /\ r = file
      BY <1>1, <2>2, <2>4, ServedLoaded DEF IInv, Current
    <3> QED BY <1>1, <2>1, <2>2, <2>4, <3>1, DecisionsFollow, EffectsFollow DEF Serve
  <2> QED BY <2>3, <2>4
<1>2. ASSUME NEW w \in Workers,
             \/ ReceiveApply(w) \/ ReceiveRun(w)
             \/ ReceiveCancel(w) \/ ReceiveStatus(w)
      PROVE  Followed'
  <2>1. PICK todo, b : todo \in Seq(Plain) /\ Receive(w, todo, b)
    <3>1. /\ Create("PRECHECK_PASSED") \in Plain /\ Create("APPLIED") \in Plain
          /\ Do("touch") \in Plain /\ Try(Move("BLOCKED")) \in Plain
          /\ Try(Move("PRECHECK_PASSED")) \in Plain
          /\ \A d \in Decisions : Do(d) \in Plain
      <4>1. /\ Create("PRECHECK_PASSED") \in Call /\ Create("APPLIED") \in Call
            /\ Do("touch") \in Call /\ Try(Move("BLOCKED")) \in Call
            /\ Try(Move("PRECHECK_PASSED")) \in Call
            /\ \A d \in Decisions : Do(d) \in Call
        BY CallTypes DEF Rewrites, State
      <4> QED BY <4>1 DEF Plain, Create, Do, Try, Move
    <3>2. CASE ReceiveApply(w)
      <4>1. ASSUME NEW d \in {"ALLOW", "WARN", "BLOCK"}
            PROVE  ApplyRequest(d) \in Seq(Plain)
        <5>1. /\ <<Try(Move("BLOCKED"))>> \in Seq(Plain) /\ <<Do("apply")>> \in Seq(Plain)
              /\ <<Try(Move("PRECHECK_PASSED")), Do("apply")>> \in Seq(Plain)
              /\ <<Create("PRECHECK_PASSED"), Do("touch")>> \in Seq(Plain)
          BY <3>1 DEF Decisions
        <5>2. \A p, q \in Seq(Plain) : p \o q \in Seq(Plain)
          OBVIOUS
        <5> QED BY <5>1, <5>2 DEF ApplyRequest
      <4> QED BY <3>2, <4>1 DEF ReceiveApply
    <3>3. CASE ReceiveRun(w)
      <4>1. <<Create("APPLIED"), Do("run")>> \in Seq(Plain)
        BY <3>1 DEF Decisions
      <4> QED BY <3>3, <4>1 DEF ReceiveRun
    <3>4. CASE ReceiveCancel(w) \/ ReceiveStatus(w)
      <4>1. <<Do("cancel")>> \in Seq(Plain) /\ <<Do("refresh")>> \in Seq(Plain)
        BY <3>1 DEF Decisions
      <4> QED BY <3>4, <4>1 DEF ReceiveCancel, ReceiveStatus
    <3> QED BY <1>2, <3>2, <3>3, <3>4
  <2>2. /\ worker[w].todo = <<>> /\ worker[w].at = "load" /\ crashes = 0
        /\ UNCHANGED <<file, live, charged, faults>>
        /\ \A u \in Workers : u = w
        /\ worker'[w].todo = todo /\ worker'[w].at = "load"
    BY <2>1 DEF Receive, IInv, Threads, OneThread, Idle
  <2>3. PICK r : r = file
    OBVIOUS
  <2>4. Settled(r)
    <3>1. InPlan(<<>>, r, worker[w].backend, worker[w].ref)
      BY <2>2, <2>3 DEF Followed, Current, Rest
    <3>2. PICK b1, n1 : InPlan(<<>>, r, b1, n1)
      BY <3>1
    <3>3. \/ Idles(<<>>, r) \/ Submits(<<>>, r) \/ Notes(<<>>, r, b1, n1)
          \/ Starts(<<>>, r) \/ Polls(<<>>, r, b1, n1) \/ Kills(<<>>, r, b1, n1)
          \/ Finishes(<<>>, r) \/ Ends(<<>>, r) \/ Charges(<<>>, r)
      BY <3>2 DEF InPlan
    <3> QED BY <3>3, StageHeads DEF Idles
  <2>5. Settled(r)'
    BY <2>2, <2>4 DEF Settled, Gone, Contained, Ended
  <2>6. Idles(todo, r)' /\ Current(w)' = r /\ Rest(w)' = todo
    BY <2>1, <2>2, <2>3, <2>5 DEF Idles, Current, Rest
  <2> QED BY <2>2, <2>6 DEF Followed, InPlan
<1>3. CASE ContainerExits \/ UNCHANGED vars
  <2>1. /\ live' \subseteq live /\ UNCHANGED <<file, worker, charged, crashes, faults>>
    BY <1>3 DEF ContainerExits, vars
  <2>2. ASSUME NEW w \in Workers
        PROVE  InPlan(Rest(w), Current(w), worker[w].backend, worker[w].ref)'
    <3>1. PICK t, r, b, n : /\ t = Rest(w) /\ r = Current(w)
                            /\ b = worker[w].backend /\ n = worker[w].ref
      OBVIOUS
    <3>2. InPlan(t, r, b, n)
      BY <2>1, <3>1 DEF Followed
    <3>3. InPlan(t, r, b, n)'
      BY <2>1, <3>2, StaysInPlan
    <3>4. /\ t = Rest(w)' /\ r = Current(w)'
          /\ b = worker'[w].backend /\ n = worker'[w].ref
      BY <2>1, <3>1 DEF Rest, Current
    <3> QED BY <3>3, <3>4
  <2> QED BY <2>2 DEF Followed
<1>4. CASE Crash
  BY <1>4 DEF Crash, IInv, Counters
<1> QED BY <1>1, <1>2, <1>3, <1>4 DEF Next, Quiet

LEMMA Following == ASSUME OneThread PROVE Spec => []Followed
<1>1. OneThread
  OBVIOUS
<1>2. IInv /\ Exclusive /\ Whole /\ Followed /\ [Next]_vars => Followed'
  BY <1>1, FollowedNext
<1> QED BY <1>2, FollowedInit, Invariance, Exclusion, PTL DEF Spec

\* Between requests, of a server that has one thread and was not restarted, the
\* record is settled.
LEMMA RestIsSettled ==
  ASSUME OneThread, IInv, Exclusive, Whole, Followed, AtRest, crashes = 0, Readable,
         NEW r, r = file
  PROVE  r \in Record /\ Settled(r)
<1>1. r \in Record
  BY DEF IInv, Contents, Readable
<1>2. ASSUME NEW w \in Workers PROVE Settled(r)
  <2>1. worker[w].todo = <<>> /\ worker[w].at = "load"
    BY DEF AtRest, IInv, Threads
  <2>2. PICK b, n : InPlan(<<>>, r, b, n)
    BY <2>1 DEF Followed, Current, Rest
  <2>3. \/ Idles(<<>>, r) \/ Submits(<<>>, r) \/ Notes(<<>>, r, b, n)
        \/ Starts(<<>>, r) \/ Polls(<<>>, r, b, n) \/ Kills(<<>>, r, b, n)
        \/ Finishes(<<>>, r) \/ Ends(<<>>, r) \/ Charges(<<>>, r)
    BY <2>2 DEF InPlan
  <2> QED BY <2>3, StageHeads DEF Idles
<1> QED BY <1>1, <1>2 DEF OneThread

\* With one thread and no restart a job that has ended has its finish time and its
\* actuals in the ledger when nothing is under way (executor.cancel, refresh_status).
THEOREM EndsAreBooked == ASSUME OneThread PROVE Spec => []EndIsBooked
<1>1. OneThread
  OBVIOUS
<1>2. IInv /\ Exclusive /\ Whole /\ Followed => EndIsBooked
  BY <1>1, RestIsSettled DEF EndIsBooked, Settled, Ended
<1> QED BY <1>2, Invariance, Exclusion, Following, PTL

\* Nor does a container outlive the job while docker does what it is told: the only
\* one there can be is the one that the record of a running job names.
THEOREM ContainersAreTracked == ASSUME OneThread PROVE Spec => []ContainersTracked
<1>1. OneThread
  OBVIOUS
<1>2. IInv /\ Exclusive /\ Whole /\ Followed => ContainersTracked
  BY <1>1, RestIsSettled DEF ContainersTracked, Settled, Gone, Contained, Terminal
<1> QED BY <1>2, Invariance, Exclusion, Following, PTL

=============================================================================
