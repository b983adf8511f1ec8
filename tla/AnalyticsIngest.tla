--------------------------- MODULE AnalyticsIngest ---------------------------
(***************************************************************************)
(* POST /analytics/ingest (packages/core/src/routes/analytics.rs) and the  *)
(* bounded EventStore it fills (packages/core/src/analytics/store.rs).     *)
(*                                                                         *)
(* Requests run concurrently.  Each one validates its batch, passes one    *)
(* rate limiter shared by all clients, under a mutex of its own, and then  *)
(* inserts its events one by one while it holds the mutex of the store.    *)
(* Between the two mutexes it holds neither, so a later request may reach  *)
(* the store first.                                                        *)
(***************************************************************************)
EXTENDS Integers, Sequences, FiniteSets, Selections

CONSTANTS
  Requests,         \* the ingest requests that may arrive
  Events,           \* event payloads
  Incomplete,       \* the events whose id or name is empty
  Batches,          \* the event lists a request may carry
  MaxBatch,         \* AnalyticsState.max_batch_size
  Capacity,         \* EventStore.max_capacity
  Window,           \* AnalyticsState.rate_limit_window
  MaxTime,          \* bound on the clock
  None

ASSUME IngestAssumption ==
  /\ Incomplete \subseteq Events
  /\ Batches \subseteq Seq(Events)
  /\ MaxBatch \in Nat
  /\ Capacity \in Nat \ {0}
  /\ Window \in Nat
  /\ MaxTime \in Nat
  /\ None \notin Nat \cup Requests

VARIABLES
  now,              \* Instant::now()
  last_request,     \* the limiter's stamp of the latest admission, or None
  events,           \* EventStore.events; an entry remembers its request
  lock,             \* the request that holds the mutex of the store, or None
  pc,               \* where each request is in the handler
  batch,            \* the events each request carries
  next,             \* next[r] is the index of the event r looks at next
  accepted,         \* the counters of the handler's loop
  dropped,
  admittedAt,       \* history: when the limiter let each request pass, or None
  log               \* history: every event ever inserted, in order

vars == <<now, last_request, events, lock, pc, batch, next, accepted, dropped,
          admittedAt, log>>

counters == <<next, accepted, dropped>>

Entry == [req : Requests, event : Events]

-----------------------------------------------------------------------------

Init ==
  /\ now = 0
  /\ last_request = None
  /\ events = <<>>
  /\ lock = None
  /\ pc = [r \in Requests |-> "absent"]
  /\ batch = [r \in Requests |-> <<>>]
  /\ next = [r \in Requests |-> 1]
  /\ accepted = [r \in Requests |-> 0]
  /\ dropped = [r \in Requests |-> 0]
  /\ admittedAt = [r \in Requests |-> None]
  /\ log = <<>>

Tick ==
  /\ now < MaxTime
  /\ now' = now + 1
  /\ UNCHANGED <<last_request, events, lock, pc, batch, counters, admittedAt, log>>

\* Mutant: the size of a batch is not looked at.
AcceptableAnySize(b) == b # <<>>

Acceptable(b) == b # <<>> /\ Len(b) <= MaxBatch

\* A request arrives; an empty or oversized batch is answered 400 at once.
Arrive(r, b) ==
  /\ pc[r] = "absent"
  /\ batch' = [batch EXCEPT ![r] = b]
  /\ pc' = [pc EXCEPT ![r] = IF Acceptable(b) THEN "limiter" ELSE "refused"]
  /\ UNCHANGED <<now, last_request, events, lock, counters, admittedAt, log>>

\* Fewer than Window units have passed since the latest admission.
TooSoon == last_request # None /\ now - last_request < Window

\* Under the limiter's mutex: answered 400 ...
Throttle(r) ==
  /\ pc[r] = "limiter"
  /\ TooSoon
  /\ pc' = [pc EXCEPT ![r] = "refused"]
  /\ UNCHANGED <<now, last_request, events, lock, batch, counters, admittedAt, log>>

\* Mutant: the limiter forgets to stamp an admission other than the first.
AdmitStampsOnce(r) ==
  /\ pc[r] = "limiter"
  /\ ~TooSoon
  /\ UNCHANGED now
  /\ last_request' = IF last_request = None THEN now ELSE last_request
  /\ admittedAt' = [admittedAt EXCEPT ![r] = now]
  /\ pc' = [pc EXCEPT ![r] = "admitted"]
  /\ UNCHANGED <<events, lock, batch, counters, log>>

\* ... or admitted, and stamped with a second reading of the clock.
Admit(r) ==
  /\ pc[r] = "limiter"
  /\ ~TooSoon
  /\ now' \in {now, now + 1}
  /\ now' <= MaxTime
  /\ last_request' = now'
  /\ admittedAt' = [admittedAt EXCEPT ![r] = now']
  /\ pc' = [pc EXCEPT ![r] = "admitted"]
  /\ UNCHANGED <<events, lock, batch, counters, log>>

\* Mutant: the store is used without waiting for its mutex.
LockStoreAnyway(r) ==
  /\ pc[r] = "admitted"
  /\ lock' = r
  /\ pc' = [pc EXCEPT ![r] = "storing"]
  /\ UNCHANGED <<now, last_request, events, batch, counters, admittedAt, log>>

LockStore(r) ==
  /\ pc[r] = "admitted"
  /\ lock = None
  /\ lock' = r
  /\ pc' = [pc EXCEPT ![r] = "storing"]
  /\ UNCHANGED <<now, last_request, events, batch, counters, admittedAt, log>>

\* Mutant: the oldest event is evicted one insertion too late.
InsertOneTooMany(s, e) ==
  Append(IF Len(s) > Capacity THEN Tail(s) ELSE s, e)

\* EventStore::insert: a full store drops its oldest event first.
Insert(s, e) == Append(IF Len(s) >= Capacity THEN Tail(s) ELSE s, e)

\* Mutant: an incomplete event ends the loop.
StoreEventStops(r) ==
  /\ pc[r] = "storing"
  /\ next[r] <= Len(batch[r])
  /\ LET e == batch[r][next[r]]
         entry == [req |-> r, event |-> e] IN
       IF e \in Incomplete
         THEN /\ dropped' = [dropped EXCEPT ![r] = @ + 1]
              /\ next' = [next EXCEPT ![r] = Len(batch[r]) + 1]
              /\ UNCHANGED <<events, accepted, log>>
         ELSE /\ events' = Insert(events, entry)
              /\ accepted' = [accepted EXCEPT ![r] = @ + 1]
              /\ log' = Append(log, entry)
              /\ next' = [next EXCEPT ![r] = @ + 1]
              /\ UNCHANGED dropped
  /\ UNCHANGED <<now, last_request, lock, pc, batch, admittedAt>>

\* One round of the loop over payload.events.
StoreEvent(r) ==
  /\ pc[r] = "storing"
  /\ next[r] <= Len(batch[r])
  /\ next' = [next EXCEPT ![r] = @ + 1]
  /\ LET e == batch[r][next[r]]
         entry == [req |-> r, event |-> e] IN
       IF e \in Incomplete
         THEN /\ dropped' = [dropped EXCEPT ![r] = @ + 1]
              /\ UNCHANGED <<events, accepted, log>>
         ELSE /\ events' = Insert(events, entry)
              /\ accepted' = [accepted EXCEPT ![r] = @ + 1]
              /\ log' = Append(log, entry)
              /\ UNCHANGED dropped
  /\ UNCHANGED <<now, last_request, lock, pc, batch, admittedAt>>

\* Mutant: an error path returns without giving the mutex back.
AnswerKeepsLock(r) ==
  /\ pc[r] = "storing"
  /\ next[r] > Len(batch[r])
  /\ pc' = [pc EXCEPT ![r] = "stored"]
  /\ UNCHANGED <<now, last_request, events, lock, batch, counters, admittedAt, log>>

\* The loop is over: 200 with both counters, and the guard of the mutex drops.
Answer(r) ==
  /\ pc[r] = "storing"
  /\ next[r] > Len(batch[r])
  /\ pc' = [pc EXCEPT ![r] = "stored"]
  /\ lock' = None
  /\ UNCHANGED <<now, last_request, events, batch, counters, admittedAt, log>>

Step(r) ==
  \/ Throttle(r)
  \/ Admit(r)
  \/ LockStore(r)
  \/ StoreEvent(r)
  \/ Answer(r)

\* Every request that came has been answered and no more can come.
Quiet ==
  /\ \A r \in Requests : pc[r] \in {"refused", "stored"}
  /\ now = MaxTime
  /\ UNCHANGED vars

Next ==
  \/ Tick
  \/ \E r \in Requests :
       \/ \E b \in Batches : Arrive(r, b)
       \/ Step(r)
  \/ Quiet

\* The runtime keeps polling a handler that can run, and a mutex whose holder
\* drops it goes to one of those that wait.
Fairness == \A r \in Requests : WF_vars(Step(r))

Spec == Init /\ [][Next]_vars

FairSpec == Spec /\ Fairness

-----------------------------------------------------------------------------
(* Properties *)

\* Type invariant.
TypeOK ==
  /\ now \in 0 .. MaxTime
  /\ last_request \in 0 .. MaxTime \cup {None}
  /\ events \in Seq(Entry)
  /\ lock \in Requests \cup {None}
  /\ pc \in [Requests -> {"absent", "limiter", "refused", "admitted", "storing", "stored"}]
  /\ batch \in [Requests -> Batches \cup {<<>>}]
  /\ next \in [Requests -> 1 .. MaxBatch + 1]
  /\ accepted \in [Requests -> 0 .. MaxBatch]
  /\ dropped \in [Requests -> 0 .. MaxBatch]
  /\ admittedAt \in [Requests -> 0 .. MaxTime \cup {None}]
  /\ log \in Seq(Entry)

Admitted(r) == admittedAt[r] # None

\* The limiter holds for all clients together: whichever requests race for it,
\* any two that pass are stamped at least Window apart.
AdmissionsAreSpaced ==
  \A r, s \in Requests :
    r # s /\ Admitted(r) /\ Admitted(s)
      => \/ admittedAt[r] - admittedAt[s] >= Window
         \/ admittedAt[s] - admittedAt[r] >= Window

\* The store is the end of the history: it never holds more than Capacity
\* events, and what it holds are the newest ones, in the order of insertion,
\* with none missing in between.
StoreHoldsTheNewest ==
  /\ Len(events) = IF Len(log) < Capacity THEN Len(log) ELSE Capacity
  /\ \A i \in 1 .. Len(events) : events[i] = log[Len(log) - Len(events) + i]

\* Where the events of b are that the store is given.
Complete(b) == {i \in 1 .. Len(b) : b[i] \notin Incomplete}

Logged(r) == {i \in 1 .. Len(log) : log[i].req = r}

\* The events of one request enter the store as one block, in their order in
\* the payload, with no event of another request between them.
BatchesStayWhole ==
  \A r \in Requests :
    pc[r] = "stored"
      => \E first \in 0 .. Len(log) :
           /\ Logged(r) = first + 1 .. first + Cardinality(Complete(batch[r]))
           /\ \A i \in Complete(batch[r]) :
                log[first + Place(Complete(batch[r]), i)].event = batch[r][i]

\* What a client is told is what happened: every event of a batch answered 200
\* is counted exactly once, as accepted when it entered the store and as dropped
\* otherwise; a request that was refused left no event behind.
AnswersAreTruthful ==
  \A r \in Requests :
    /\ pc[r] = "stored" =>
         /\ accepted[r] = Cardinality(Logged(r))
         /\ accepted[r] + dropped[r] = Len(batch[r])
    /\ pc[r] = "refused" => Logged(r) = {}

\* The store as it was, or will be, when no request is in its loop: what the
\* holder of the mutex has inserted so far does not count yet.
StoreBetweenBatches ==
  IF lock = None THEN events
  ELSE Newest(SubSeq(log, 1, Len(log) - accepted[lock]), Capacity)

\* How far a request is, and what it has been told.
AnswerTo(r) ==
  CASE pc[r] = "absent" -> [status |-> "absent"]
    [] pc[r] \in {"limiter", "admitted", "storing"} -> [status |-> "waiting"]
    [] pc[r] = "refused" -> [status |-> "refused"]
    [] pc[r] = "stored" -> [status |-> "stored", accepted |-> accepted[r], dropped |-> dropped[r]]

AnswerOf == [r \in Requests |-> AnswerTo(r)]

\* The two mutexes and the loop behave, for clients and for whoever reads the
\* store, like a store that takes a batch in one step: requests take effect one
\* at a time, none half, though they overlap and pass each other between the
\* mutexes, and though a batch may evict others' events and its own.
Ideal == INSTANCE BatchStore WITH store <- StoreBetweenBatches, answer <- AnswerOf

ImplementsBatchStore == Ideal!Spec

\* Every request that arrives is answered.
EveryRequestIsAnswered ==
  \A r \in Requests : pc[r] = "limiter" ~> pc[r] \in {"refused", "stored"}
=============================================================================
