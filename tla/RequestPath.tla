----------------------------- MODULE RequestPath -----------------------------
(***************************************************************************)
(* What a request meets on its way through request_context.py: the rate    *)
(* limiter, and the request id in the log.                                 *)
(*                                                                         *)
(* The limiter counts mutating requests per client and tenant header in    *)
(* windows that begin with a request, and never awaits while it counts: it *)
(* is one step.  A request id is a filter on the root logger while the     *)
(* request is handled; requests overlap, and the last filter wins.         *)
(***************************************************************************)
EXTENDS Naturals, Sequences, FiniteSets, SequencesExt

CONSTANTS
  Keys,         \* clients with their X-Tenant header, "default" without one
  Rpm,          \* COPILOT_RATE_LIMIT_RPM
  Window,       \* 60 seconds
  MaxTime, MaxRequests

\* MCServices assumes this of the instance it checks.
RequestPathAssumption ==
  /\ Rpm \in Nat \ {0} /\ Window \in Nat \ {0}
  /\ MaxTime \in Nat /\ MaxRequests \in Nat

VARIABLES
  now,
  bucket,       \* [start, count] of each key
  flight,       \* the requests that are handled, by number
  filters,      \* of the root logger
  arrived,
  admitted,     \* history: [key, start, nth, at] of every mutating request let in
  stamps        \* history: [by, as, alone] of the last log record

vars == <<now, bucket, flight, filters, arrived, admitted, stamps>>

NoBucket == [start |-> 0, count |-> 0]
Admissions == [key : Keys, start : Nat, nth : Nat, at : Nat]

TypeOK ==
  /\ now \in Nat
  /\ bucket \in [Keys -> [start : Nat, count : Nat]]
  /\ flight \subseteq 1..MaxRequests
  /\ filters \in Seq(1..MaxRequests)
  /\ arrived \in 0..MaxRequests
  /\ admitted \subseteq Admissions
  /\ stamps \subseteq [by : 1..MaxRequests, as : 1..MaxRequests, alone : BOOLEAN]

Init ==
  /\ now = 0 /\ bucket = [k \in Keys |-> NoBucket]
  /\ flight = {} /\ filters = << >> /\ arrived = 0
  /\ admitted = {} /\ stamps = {}

-----------------------------------------------------------------------------
\* Mutant of Counted: the window is over at the next tick.
CountedByTick(k) ==
  IF bucket[k].count = 0 \/ now > bucket[k].start
  THEN [start |-> now, count |-> 1]
  ELSE [bucket[k] EXCEPT !.count = @ + 1]

\* The bucket of a key when one more request is counted.
Counted(k) ==
  IF bucket[k].count = 0 \/ now - bucket[k].start >= Window
  THEN [start |-> now, count |-> 1]
  ELSE [bucket[k] EXCEPT !.count = @ + 1]

\* RequestContextMiddleware begins to handle the request.
Enter ==
  LET r == arrived + 1 IN
  /\ arrived < MaxRequests /\ arrived' = r
  /\ flight' = flight \cup {r} /\ filters' = Append(filters, r)

\* A GET, or the limiter is off.
ArriveFree ==
  Enter /\ UNCHANGED <<now, bucket, admitted, stamps>>

\* POST, PUT, PATCH or DELETE; a request over the limit is not handled.
Arrive(k) ==
  LET b == Counted(k) IN
  /\ arrived < MaxRequests
  /\ bucket' = [bucket EXCEPT ![k] = b]
  /\ IF b.count > Rpm
     THEN arrived' = arrived + 1 /\ UNCHANGED <<flight, filters, admitted>>
     ELSE /\ Enter
          /\ admitted' = admitted \cup
               {[key |-> k, start |-> b.start, nth |-> b.count, at |-> now]}
  /\ UNCHANGED <<now, stamps>>

\* Something is logged to the root logger on the way: every filter writes its id
\* into the record, the one that was added last comes last.  A record of any
\* other logger passes no filter of the root's.
Log(r) ==
  /\ r \in flight
  /\ stamps' = {[by |-> r, as |-> filters[Len(filters)], alone |-> flight = {r}]}
  /\ UNCHANGED <<now, bucket, flight, filters, arrived, admitted>>

\* Mutant of Leave: the filter of a request that failed stays.
LeaveFiltered(r) ==
  /\ r \in flight
  /\ flight' = flight \ {r}
  /\ filters' \in {filters, RemoveFirst(filters, r)}
  /\ UNCHANGED <<now, bucket, arrived, admitted, stamps>>

\* The answer, a refusal by an inner middleware, or an exception: finally.
Leave(r) ==
  /\ r \in flight
  /\ flight' = flight \ {r}
  /\ filters' = RemoveFirst(filters, r)
  /\ UNCHANGED <<now, bucket, arrived, admitted, stamps>>

Tick ==
  /\ now < MaxTime /\ now' = now + 1
  /\ UNCHANGED <<bucket, flight, filters, arrived, admitted, stamps>>

Next ==
  \/ ArriveFree
  \/ \E k \in Keys : Arrive(k)
  \/ \E r \in flight : Log(r) \/ Leave(r)
  \/ Tick

Spec == Init /\ [][Next]_vars

-----------------------------------------------------------------------------
(* Properties. *)

\* In any stretch as long as the window a key gets less than twice the limit
\* (RateLimitMiddleware): the windows are fixed, so more than the limit it can
\* be, but the first request of a window is at its beginning.
BelowTwiceTheLimit ==
  \A k \in Keys : \A t \in 0..now :
    Cardinality({a \in admitted : a.key = k /\ a.at \in t..(t + Window - 1)}) < 2 * Rpm

\* A record carries the id of the request that logged it if no other was being
\* handled (RequestContextMiddleware); otherwise it may carry another's.
OwnIdWhenAlone ==
  \A s \in stamps : s.alone => s.as = s.by

=============================================================================
