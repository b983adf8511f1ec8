------------------------- MODULE AnalyticsIngestProofs -------------------------
(***************************************************************************)
(* Machine-checked proofs about AnalyticsIngest, for any set of requests,  *)
(* any batches, any capacity and window, and any bound on the clock.       *)
(***************************************************************************)
EXTENDS AnalyticsIngest, FiniteSetTheorems, FunctionTheorems, SequenceTheorems, TLAPS

(***************************************************************************)
(* Type correctness.                                                       *)
(*                                                                         *)
(* TypeOK is not inductive: that the counters stay within MaxBatch follows *)
(* from how they add up with the index of the loop.                        *)
(***************************************************************************)

\* Every event that the loop has passed is counted once, and the loop runs only
\* over a batch that was let in.
CountersAddUp ==
  \A r \in Requests :
    /\ accepted[r] + dropped[r] = next[r] - 1
    /\ next[r] <= Len(batch[r]) + 1
    /\ pc[r] \notin {"absent", "refused"} => Acceptable(batch[r])
    /\ pc[r] \notin {"storing", "stored"} => next[r] = 1
    /\ pc[r] = "stored" => next[r] = Len(batch[r]) + 1

TypeInv == TypeOK /\ CountersAddUp

\* TypeInv holds when the server starts.
LEMMA InitTypeInv == Init => TypeInv
  BY IngestAssumption
  DEF Init, TypeInv, TypeOK, CountersAddUp, Acceptable

\* A batch is a sequence of events.
LEMMA BatchType ==
  ASSUME TypeOK, NEW r \in Requests
  PROVE  batch[r] \in Seq(Events) /\ Len(batch[r]) \in Nat
<1>1. batch[r] \in Batches \cup {<<>>}
  BY DEF TypeOK
<1>2. Batches \subseteq Seq(Events) /\ <<>> \in Seq(Events)
  BY IngestAssumption
<1>3. batch[r] \in Seq(Events)
  BY <1>1, <1>2, Zenon
<1> QED
  BY <1>3

\* One round of the loop counts the event, and inserts it or does not.
LEMMA StoreEventEffect ==
  ASSUME TypeInv, NEW r \in Requests, StoreEvent(r)
  PROVE  LET entry == [req |-> r, event |-> batch[r][next[r]]] IN
         /\ entry \in Entry
         /\ next[r] <= Len(batch[r]) /\ Len(batch[r]) <= MaxBatch
         /\ \/ /\ dropped' = [dropped EXCEPT ![r] = @ + 1]
               /\ UNCHANGED <<events, accepted, log>>
            \/ /\ events' = Insert(events, entry)
               /\ log' = Append(log, entry)
               /\ accepted' = [accepted EXCEPT ![r] = @ + 1]
               /\ UNCHANGED dropped
<1>1. next[r] \in 1 .. Len(batch[r]) /\ Len(batch[r]) <= MaxBatch
  <2>1. next[r] \in 1 .. MaxBatch + 1 /\ next[r] <= Len(batch[r])
    BY DEF StoreEvent, TypeInv, TypeOK
  <2>2. Acceptable(batch[r])
    BY DEF StoreEvent, TypeInv, CountersAddUp
  <2>3. TypeOK
    BY DEF TypeInv
  <2> QED
    BY <2>1, <2>2, <2>3, BatchType, IngestAssumption DEF Acceptable
<1>2. batch[r][next[r]] \in Events
  <2>1. TypeOK
    BY DEF TypeInv
  <2>2. batch[r] \in Seq(Events)
    BY <2>1, BatchType
  <2> QED
    BY <1>1, <2>2
<1> QED
  BY <1>1, <1>2 DEF StoreEvent, Entry

\* Inserting into the store keeps it a sequence of entries.
LEMMA InsertType ==
  ASSUME NEW s \in Seq(Entry), NEW e \in Entry
  PROVE  Insert(s, e) \in Seq(Entry)
  BY IngestAssumption DEF Insert

\* Every step keeps TypeInv.
LEMMA NextTypeInv == TypeInv /\ [Next]_vars => TypeInv'
<1> SUFFICES ASSUME TypeInv, [Next]_vars
             PROVE  TypeInv'
  OBVIOUS
<1> USE IngestAssumption DEF TypeInv
<1>1. CASE Tick
  BY <1>1 DEF Tick, TypeOK, CountersAddUp, Acceptable, counters
<1>2. ASSUME NEW r \in Requests, NEW b \in Batches, Arrive(r, b)
      PROVE  TypeInv'
  <2>1. TypeOK'
    BY <1>2 DEF Arrive, TypeOK, counters
  <2>2. Len(b) \in Nat
    OBVIOUS
  <2>3. CountersAddUp'
    BY <1>2, <2>2 DEF Arrive, TypeOK, CountersAddUp, Acceptable, counters
  <2> QED
    BY <2>1, <2>3
<1>3. ASSUME NEW r \in Requests,
             Throttle(r) \/ Admit(r) \/ LockStore(r) \/ Answer(r)
      PROVE  TypeInv'
  <2>1. TypeOK'
    <3>1. CASE Throttle(r)
      BY <3>1 DEF Throttle, TypeOK, counters
    <3>2. CASE Admit(r)
      BY <3>2 DEF Admit, TypeOK, counters
    <3>3. CASE LockStore(r)
      BY <3>3 DEF LockStore, TypeOK, counters
    <3>4. CASE Answer(r)
      BY <3>4 DEF Answer, TypeOK, counters
    <3> QED
      BY <1>3, <3>1, <3>2, <3>3, <3>4
  <2>2. UNCHANGED <<batch, next, accepted, dropped>>
    BY <1>3 DEF Throttle, Admit, LockStore, Answer, counters
  <2>3. /\ pc[r] \in {"limiter", "admitted", "storing"}
        /\ \/ pc' = [pc EXCEPT ![r] = "refused"] /\ pc[r] = "limiter"
           \/ pc' = [pc EXCEPT ![r] = "admitted"] /\ pc[r] = "limiter"
           \/ pc' = [pc EXCEPT ![r] = "storing"]
           \/ pc' = [pc EXCEPT ![r] = "stored"] /\ next[r] > Len(batch[r])
    BY <1>3 DEF Throttle, Admit, LockStore, Answer
  <2>4. CountersAddUp'
    <3> SUFFICES ASSUME NEW s \in Requests
                 PROVE  /\ pc'[s] \notin {"absent", "refused"} => Acceptable(batch[s])
                        /\ pc'[s] \notin {"storing", "stored"} => next[s] = 1
                        /\ pc'[s] = "stored" => next[s] = Len(batch[s]) + 1
      BY <2>2 DEF CountersAddUp, Acceptable
    <3>1. CASE s = r
      <4>1. next[r] > Len(batch[r]) => next[r] = Len(batch[r]) + 1
        <5>1. next[r] <= Len(batch[r]) + 1
          BY DEF CountersAddUp
        <5>2. next[r] \in Nat /\ Len(batch[r]) \in Nat
          BY BatchType DEF TypeOK
        <5> QED
          BY <5>1, <5>2
      <4> QED
        BY <2>3, <3>1, <4>1 DEF CountersAddUp, TypeOK
    <3>2. CASE s # r
      <4>1. pc'[s] = pc[s]
        BY <2>3, <3>2 DEF TypeOK
      <4> QED
        BY <4>1 DEF CountersAddUp
    <3> QED
      BY <3>1, <3>2
  <2> QED
    BY <2>1, <2>4
<1>4. ASSUME NEW r \in Requests, StoreEvent(r)
      PROVE  TypeInv'
  <2> DEFINE entry == [req |-> r, event |-> batch[r][next[r]]]
  <2>1. /\ entry \in Entry
        /\ next[r] <= Len(batch[r]) /\ Len(batch[r]) <= MaxBatch
        /\ \/ /\ dropped' = [dropped EXCEPT ![r] = @ + 1]
              /\ UNCHANGED <<events, accepted, log>>
           \/ /\ events' = Insert(events, entry)
              /\ log' = Append(log, entry)
              /\ accepted' = [accepted EXCEPT ![r] = @ + 1]
              /\ UNCHANGED dropped
    BY <1>4, StoreEventEffect
  <2> HIDE DEF entry
  <2>2. /\ pc[r] = "storing"
        /\ next' = [next EXCEPT ![r] = @ + 1]
        /\ UNCHANGED <<now, last_request, lock, pc, batch, admittedAt>>
    BY <1>4 DEF StoreEvent
  <2>3. events' \in Seq(Entry) /\ log' \in Seq(Entry)
    <3>1. events \in Seq(Entry) /\ log \in Seq(Entry)
      BY DEF TypeOK
    <3>2. Insert(events, entry) \in Seq(Entry) /\ Append(log, entry) \in Seq(Entry)
      BY <2>1, <3>1, InsertType, AppendProperties
    <3> QED
      BY <2>1, <3>1, <3>2
  <2>4. /\ next[r] \in Nat /\ accepted[r] \in Nat /\ dropped[r] \in Nat
        /\ accepted[r] + dropped[r] = next[r] - 1 /\ Len(batch[r]) \in Nat
    BY BatchType DEF TypeOK, CountersAddUp
  <2>5. /\ next' \in [Requests -> 1 .. MaxBatch + 1]
        /\ accepted' \in [Requests -> 0 .. MaxBatch]
        /\ dropped' \in [Requests -> 0 .. MaxBatch]
    <3>1. /\ next[r] + 1 \in 1 .. MaxBatch + 1
          /\ accepted[r] + 1 \in 0 .. MaxBatch
          /\ dropped[r] + 1 \in 0 .. MaxBatch
      BY <2>1, <2>4
    <3>2. /\ next \in [Requests -> 1 .. MaxBatch + 1]
          /\ accepted \in [Requests -> 0 .. MaxBatch]
          /\ dropped \in [Requests -> 0 .. MaxBatch]
      BY DEF TypeOK
    <3> QED
      BY <2>1, <2>2, <3>1, <3>2
  <2>6. TypeOK'
    BY <2>2, <2>3, <2>5 DEF TypeOK
  <2>7. CountersAddUp'
    <3>1. ASSUME NEW s \in Requests, s # r
          PROVE  next'[s] = next[s] /\ accepted'[s] = accepted[s] /\ dropped'[s] = dropped[s]
      BY <2>1, <2>2, <3>1 DEF TypeOK
    <3>2. /\ next'[r] = next[r] + 1 /\ next'[r] <= Len(batch[r]) + 1
          /\ accepted'[r] + dropped'[r] = next'[r] - 1
      BY <2>1, <2>2, <2>4 DEF TypeOK
    <3> QED
      BY <2>2, <3>1, <3>2 DEF CountersAddUp, Acceptable
  <2> QED
    BY <2>6, <2>7
<1>5. CASE UNCHANGED vars
  BY <1>5 DEF vars, counters, TypeOK, CountersAddUp, Acceptable
<1> QED
  BY <1>1, <1>2, <1>3, <1>4, <1>5 DEF Next, Step, Quiet

\* The loop never runs past its batch, nor a counter past the largest batch.
THEOREM IngestTypeCorrect == Spec => []TypeOK
<1>1. TypeInv => TypeOK
  BY DEF TypeInv
<1> QED
  BY <1>1, InitTypeInv, NextTypeInv, PTL DEF Spec

\* What the other proofs build on.
LEMMA TypeInvAlways == Spec => []TypeInv
<1> QED
  BY InitTypeInv, NextTypeInv, PTL DEF Spec

(***************************************************************************)
(* The limiter.                                                            *)
(***************************************************************************)

\* The limiter's stamp is that of the latest admission, and not in the future.
StampIsLatest ==
  /\ last_request # None => last_request <= now
  /\ \A r \in Requests :
       /\ pc[r] \in {"absent", "limiter"} => ~Admitted(r)
       /\ Admitted(r) => last_request # None /\ admittedAt[r] <= last_request

LimiterInv == StampIsLatest /\ AdmissionsAreSpaced

\* LimiterInv holds from the start.
LEMMA InitLimiter == Init => LimiterInv
  BY DEF Init, LimiterInv, StampIsLatest, AdmissionsAreSpaced, Admitted

\* An admission is at least Window later than every earlier one.
LEMMA NextLimiter == TypeOK /\ LimiterInv /\ [Next]_vars => LimiterInv'
<1> SUFFICES ASSUME TypeOK, LimiterInv, [Next]_vars
             PROVE  LimiterInv'
  OBVIOUS
<1> USE IngestAssumption DEF TypeOK, LimiterInv, StampIsLatest, AdmissionsAreSpaced, Admitted
<1>1. CASE Tick
  BY <1>1 DEF Tick
<1>2. ASSUME NEW r \in Requests, Admit(r)
      PROVE  LimiterInv'
  <2>1. /\ admittedAt' = [admittedAt EXCEPT ![r] = now'] /\ last_request' = now'
        /\ pc' = [pc EXCEPT ![r] = "admitted"] /\ now' \in Nat /\ now <= now'
    BY <1>2 DEF Admit
  <2>2. ASSUME NEW s \in Requests, s # r, Admitted(s)
        PROVE  admittedAt[s] \in Nat /\ admittedAt[s] <= now' /\ now' - admittedAt[s] >= Window
    BY <1>2, <2>1, <2>2 DEF Admit, TooSoon
  <2>3. StampIsLatest'
    BY <2>1, <2>2
  <2>4. AdmissionsAreSpaced'
    BY <2>1, <2>2
  <2> QED
    BY <2>3, <2>4
<1>3. ASSUME NEW r \in Requests,
             \/ \E b \in Batches : Arrive(r, b)
             \/ Throttle(r) \/ LockStore(r) \/ StoreEvent(r) \/ Answer(r)
      PROVE  LimiterInv'
  <2>1. UNCHANGED <<now, last_request, admittedAt>>
    BY <1>3 DEF Arrive, Throttle, LockStore, StoreEvent, Answer
  <2>2. ASSUME NEW s \in Requests, pc'[s] \in {"absent", "limiter"}
        PROVE  pc[s] \in {"absent", "limiter"}
    BY <1>3, <2>2 DEF Arrive, Throttle, LockStore, StoreEvent, Answer
  <2> QED
    BY <2>1, <2>2
<1>4. CASE UNCHANGED vars
  BY <1>4 DEF vars
<1> QED
  BY <1>1, <1>2, <1>3, <1>4 DEF Next, Step, Quiet

\* However many clients race for the limiter, any two requests that pass are
\* stamped at least Window apart.
THEOREM LimiterSpacesAdmissions == Spec => []AdmissionsAreSpaced
<1>1. LimiterInv => AdmissionsAreSpaced
  BY DEF LimiterInv
<1> QED
  BY <1>1, InitLimiter, NextLimiter, IngestTypeCorrect, PTL DEF Spec

(***************************************************************************)
(* The bounded store.                                                      *)
(***************************************************************************)

\* s is the end of h that fits into the store.
IsEndOf(s, h) ==
  /\ Len(s) = IF Len(h) < Capacity THEN Len(h) ELSE Capacity
  /\ \A i \in 1 .. Len(s) : s[i] = h[Len(h) - Len(s) + i]

\* Inserting into a store that is the end of a history gives the end of the
\* longer history.
LEMMA InsertKeepsNewest ==
  ASSUME NEW s \in Seq(Entry), NEW h \in Seq(Entry), NEW e \in Entry, IsEndOf(s, h)
  PROVE  IsEndOf(Insert(s, e), Append(h, e))
<1>1. /\ Len(s) \in Nat /\ Len(h) \in Nat /\ Capacity \in Nat /\ Capacity >= 1
      /\ Len(s) = IF Len(h) < Capacity THEN Len(h) ELSE Capacity
  BY IngestAssumption DEF IsEndOf
<1>2. /\ Len(Append(h, e)) = Len(h) + 1
      /\ Append(h, e)[Len(h) + 1] = e
      /\ \A i \in 1 .. Len(h) : Append(h, e)[i] = h[i]
  BY AppendProperties
<1>3. CASE Len(s) >= Capacity
  <2> DEFINE t == Tail(s)
  <2>1. Len(s) = Capacity /\ Len(h) >= Capacity /\ s # <<>>
    BY <1>1, <1>3
  <2>2. /\ t \in Seq(Entry) /\ Len(t) = Capacity - 1
        /\ \A i \in 1 .. Len(t) : t[i] = s[i + 1]
    BY <2>1, HeadTailProperties
  <2>3. Insert(s, e) = Append(t, e)
    BY <1>3 DEF Insert
  <2> HIDE DEF t
  <2>4. /\ Len(Append(t, e)) = Capacity
        /\ Append(t, e)[Capacity] = e
        /\ \A i \in 1 .. Capacity - 1 : Append(t, e)[i] = s[i + 1]
    <3>1. /\ Len(Append(t, e)) = Len(t) + 1
          /\ Append(t, e)[Len(t) + 1] = e
          /\ \A i \in 1 .. Len(t) : Append(t, e)[i] = t[i]
      BY <2>2, AppendProperties
    <3>2. Len(t) + 1 = Capacity
      BY <1>1, <2>2
    <3> QED
      BY <2>2, <3>1, <3>2
  <2>5. ASSUME NEW i \in 1 .. Capacity
        PROVE  Append(t, e)[i] = Append(h, e)[(Len(h) + 1) - Capacity + i]
    <3>1. CASE i = Capacity
      BY <1>1, <1>2, <2>4, <3>1
    <3>2. CASE i # Capacity
      <4>1. i \in Nat /\ i >= 1 /\ i <= Capacity - 1
        BY <1>1, <3>2
      <4>2. i \in 1 .. Capacity - 1 /\ i + 1 \in 1 .. Len(s)
        BY <1>1, <2>1, <4>1
      <4>3. /\ (Len(h) + 1) - Capacity + i \in 1 .. Len(h)
            /\ (Len(h) + 1) - Capacity + i = Len(h) - Len(s) + (i + 1)
        <5> DEFINE n == Len(h)
                   l == Len(s)
                   c == Capacity
        <5>1. /\ n \in Nat /\ c \in Nat /\ l = c /\ n >= c
              /\ i \in Nat /\ i >= 1 /\ i <= c - 1
          BY <1>1, <2>1, <4>1
        <5> HIDE DEF n, l, c
        <5>2. (n + 1) - c + i >= 1 /\ (n + 1) - c + i <= n /\ (n + 1) - c + i \in Int
          BY <5>1
        <5>3. (n + 1) - c + i \in 1 .. n
          BY <5>1, <5>2
        <5>4. (n + 1) - c + i = n - l + (i + 1)
          BY <5>1
        <5> QED
          BY <5>3, <5>4 DEF n, l, c
      <4>4. s[i + 1] = h[Len(h) - Len(s) + (i + 1)]
        BY <4>2 DEF IsEndOf
      <4> QED
        BY <1>2, <2>4, <4>2, <4>3, <4>4
    <3> QED
      BY <3>1, <3>2
  <2>6. ~(Len(h) + 1 < Capacity)
    BY <1>1, <2>1
  <2> QED
    BY <1>2, <2>3, <2>4, <2>5, <2>6 DEF IsEndOf
<1>4. CASE Len(s) < Capacity
  <2>1. Len(s) = Len(h) /\ Len(h) + 1 <= Capacity
    BY <1>1, <1>4
  <2>2. ASSUME NEW i \in 1 .. Len(h)
        PROVE  s[i] = h[i]
    <3>1. Len(h) - Len(s) + i = i
      BY <1>1, <2>1
    <3> QED
      BY <2>1, <3>1 DEF IsEndOf
  <2>3. Insert(s, e) = Append(s, e)
    BY <1>1, <1>4 DEF Insert
  <2>4. /\ Len(Append(s, e)) = Len(h) + 1
        /\ Append(s, e)[Len(h) + 1] = e
        /\ \A i \in 1 .. Len(h) : Append(s, e)[i] = s[i]
    BY <2>1, AppendProperties
  <2>5. ASSUME NEW i \in 1 .. Len(h) + 1
        PROVE  /\ Append(s, e)[i] = Append(h, e)[i]
               /\ (Len(h) + 1) - (Len(h) + 1) + i = i
    <3>1. i = Len(h) + 1 \/ i \in 1 .. Len(h)
      BY <1>1
    <3> QED
      BY <1>1, <1>2, <2>2, <2>4, <3>1
  <2>6. Len(h) + 1 = IF Len(h) + 1 < Capacity THEN Len(h) + 1 ELSE Capacity
    BY <1>1, <2>1
  <2> QED
    BY <1>2, <2>3, <2>4, <2>5, <2>6 DEF IsEndOf
<1> QED
  BY <1>1, <1>3, <1>4

\* StoreHoldsTheNewest is inductive once the types are known.
LEMMA NextStore == TypeInv /\ StoreHoldsTheNewest /\ [Next]_vars => StoreHoldsTheNewest'
<1> SUFFICES ASSUME TypeInv, StoreHoldsTheNewest, [Next]_vars
             PROVE  StoreHoldsTheNewest'
  OBVIOUS
<1>1. ASSUME NEW r \in Requests, StoreEvent(r)
      PROVE  StoreHoldsTheNewest'
  <2> DEFINE entry == [req |-> r, event |-> batch[r][next[r]]]
  <2>1. CASE UNCHANGED <<events, log>>
    BY <2>1 DEF StoreHoldsTheNewest
  <2>2. CASE events' = Insert(events, entry) /\ log' = Append(log, entry)
    <3>1. entry \in Entry /\ events \in Seq(Entry) /\ log \in Seq(Entry)
      BY <1>1, StoreEventEffect DEF TypeInv, TypeOK
    <3> HIDE DEF entry
    <3> QED
      BY <2>2, <3>1, InsertKeepsNewest DEF StoreHoldsTheNewest, IsEndOf
  <2> QED
    BY <1>1, <2>1, <2>2, StoreEventEffect
<1>2. CASE UNCHANGED <<events, log>>
  BY <1>2 DEF StoreHoldsTheNewest
<1> QED
  BY <1>1, <1>2
  DEF Next, Step, Quiet, Tick, Arrive, Throttle, Admit, LockStore, Answer, vars

\* For any capacity and any history of inserts the store is the end of that
\* history: never too long, in order, and with no event missing in between.
THEOREM StoreKeepsTheNewest == Spec => []StoreHoldsTheNewest
<1>1. Init => StoreHoldsTheNewest
  BY IngestAssumption DEF Init, StoreHoldsTheNewest
<1> QED
  BY <1>1, NextStore, TypeInvAlways, PTL DEF Spec

(***************************************************************************)
(* The answers.                                                            *)
(***************************************************************************)

\* What a request has counted as accepted is what it has inserted.
AcceptedIsLogged ==
  \A r \in Requests : IsFiniteSet(Logged(r)) /\ accepted[r] = Cardinality(Logged(r))

\* Nothing but the loop touches the history.
LEMMA NextLogged == TypeInv /\ AcceptedIsLogged /\ [Next]_vars => AcceptedIsLogged'
<1> SUFFICES ASSUME TypeInv, AcceptedIsLogged, [Next]_vars
             PROVE  AcceptedIsLogged'
  OBVIOUS
<1>1. ASSUME NEW r \in Requests, StoreEvent(r)
      PROVE  AcceptedIsLogged'
  <2> DEFINE entry == [req |-> r, event |-> batch[r][next[r]]]
  <2>1. CASE UNCHANGED <<accepted, log>>
    BY <2>1 DEF AcceptedIsLogged, Logged
  <2>2. CASE log' = Append(log, entry) /\ accepted' = [accepted EXCEPT ![r] = @ + 1]
    <3>1. entry \in Entry /\ log \in Seq(Entry) /\ accepted \in [Requests -> 0 .. MaxBatch]
      BY <1>1, StoreEventEffect DEF TypeInv, TypeOK
    <3>2. entry.req = r
      OBVIOUS
    <3> HIDE DEF entry
    <3>3. /\ Len(log') = Len(log) + 1 /\ Len(log) \in Nat
          /\ \A i \in 1 .. Len(log) : log'[i] = log[i]
          /\ log'[Len(log) + 1] = entry
      BY <2>2, <3>1
    <3>4. Logged(r)' = Logged(r) \cup {Len(log) + 1}
      BY <3>2, <3>3 DEF Logged
    <3>5. Len(log) + 1 \notin Logged(r)
      BY <3>3 DEF Logged
    <3>6. ASSUME NEW s \in Requests, s # r
          PROVE  Logged(s)' = Logged(s)
      BY <3>2, <3>3, <3>6 DEF Logged
    <3>7. IsFiniteSet(Logged(r)') /\ Cardinality(Logged(r)') = Cardinality(Logged(r)) + 1
      BY <3>4, <3>5, FS_AddElement DEF AcceptedIsLogged
    <3> QED
      BY <2>2, <3>1, <3>6, <3>7 DEF AcceptedIsLogged
  <2> QED
    BY <1>1, <2>1, <2>2, StoreEventEffect
<1>2. CASE UNCHANGED <<accepted, log>>
  BY <1>2 DEF AcceptedIsLogged, Logged
<1> QED
  BY <1>1, <1>2
  DEF Next, Step, Quiet, Tick, Arrive, Throttle, Admit, LockStore, Answer, vars, counters

\* What the counters say is what the store was given.
LEMMA CountedIsTruthful == TypeInv /\ AcceptedIsLogged => AnswersAreTruthful
<1> SUFFICES ASSUME TypeInv, AcceptedIsLogged, NEW r \in Requests
             PROVE  /\ pc[r] = "stored" =>
                         /\ accepted[r] = Cardinality(Logged(r))
                         /\ accepted[r] + dropped[r] = Len(batch[r])
                    /\ pc[r] = "refused" => Logged(r) = {}
  BY DEF AnswersAreTruthful
<1>1. CASE pc[r] = "stored"
  BY <1>1, BatchType DEF TypeInv, CountersAddUp, AcceptedIsLogged
<1>2. ASSUME pc[r] = "refused"
      PROVE  Logged(r) = {}
  <2>1. accepted[r] = 0
    <3>1. accepted[r] + dropped[r] = 0
      BY <1>2 DEF TypeInv, CountersAddUp
    <3>2. accepted[r] \in Nat /\ dropped[r] \in Nat
      BY DEF TypeInv, TypeOK
    <3> QED
      BY <3>1, <3>2
  <2> QED
    BY <2>1, FS_EmptySet DEF AcceptedIsLogged
<1> QED
  BY <1>1, <1>2

LEMMA LoggedAlways == Spec => []AcceptedIsLogged
<1>1. Init => AcceptedIsLogged
  <2>1. ASSUME Init, NEW r \in Requests
        PROVE  Logged(r) = {} /\ accepted[r] = 0
    BY <2>1 DEF Init, Logged
  <2> QED
    BY <2>1, FS_EmptySet DEF AcceptedIsLogged
<1> QED
  BY <1>1, NextLogged, TypeInvAlways, PTL DEF Spec

\* Whatever the batches and however requests interleave, the counters of an
\* answer say what the store was given, and a refused request gave it nothing.
THEOREM AnswersTellTheTruth == Spec => []AnswersAreTruthful
  BY LoggedAlways, CountedIsTruthful, TypeInvAlways, PTL

(***************************************************************************)
(* The blocks that batches leave in the history.                           *)
(***************************************************************************)

\* The complete events among those that the loop of r has passed.
Passed(r) == {i \in Complete(batch[r]) : i < next[r]}

\* They stand in the history as one block after position k.
BlockAfter(r, k) ==
  /\ Logged(r) = k + 1 .. k + Cardinality(Passed(r))
  /\ \A i \in Passed(r) : log[k + Place(Passed(r), i)].event = batch[r][i]

\* Only the holder of the mutex is in the loop, and its block is the last.
BlocksInv ==
  \A r \in Requests :
    /\ pc[r] = "storing" => lock = r /\ BlockAfter(r, Len(log) - Cardinality(Passed(r)))
    /\ pc[r] \notin {"storing", "stored"} => Logged(r) = {}
    /\ pc[r] = "stored" => \E first \in 0 .. Len(log) : BlockAfter(r, first)

\* Places count the members of a set of positions, in their order.
LEMMA PlaceIsMonotone ==
  ASSUME NEW I, IsFiniteSet(I), I \subseteq Nat
  PROVE  /\ Cardinality(I) \in Nat
         /\ \A i \in I : Place(I, i) \in 1 .. Cardinality(I)
         /\ \A i, k \in I : i < k => Place(I, i) < Place(I, k)
<1> DEFINE upTo(i) == {j \in I : j <= i}
<1>1. Cardinality(I) \in Nat
  BY FS_CardinalityType
<1>2. ASSUME NEW i \in I
      PROVE  /\ IsFiniteSet(upTo(i)) /\ i \in upTo(i)
             /\ Cardinality(upTo(i)) \in Nat \ {0} /\ Cardinality(upTo(i)) <= Cardinality(I)
  <2>1. upTo(i) \subseteq I /\ i \in upTo(i)
    OBVIOUS
  <2>2. IsFiniteSet(upTo(i)) /\ Cardinality(upTo(i)) <= Cardinality(I)
    BY <2>1, FS_Subset
  <2>3. Cardinality(upTo(i)) \in Nat /\ Cardinality(upTo(i)) # 0
    BY <2>1, <2>2, FS_CardinalityType, FS_EmptySet
  <2> QED
    BY <2>1, <2>2, <2>3
<1>3. ASSUME NEW i \in I, NEW k \in I, i < k
      PROVE  Cardinality(upTo(i)) < Cardinality(upTo(k))
  <2>1. upTo(i) \subseteq upTo(k) /\ k \in upTo(k) /\ k \notin upTo(i)
    <3>1. \A j \in I : j <= i => j <= k
      BY <1>3
    <3>2. ~(k <= i) /\ k <= k
      BY <1>3
    <3> QED
      BY <3>1, <3>2
  <2>2. Cardinality(upTo(i)) <= Cardinality(upTo(k)) /\ Cardinality(upTo(i)) # Cardinality(upTo(k))
    BY <1>2, <2>1, FS_Subset
  <2> QED
    BY <1>2, <2>2
<1>4. \A i : Place(I, i) = Cardinality(upTo(i))
  BY DEF Place
<1> HIDE DEF upTo
<1> QED
  BY <1>1, <1>2, <1>3, <1>4

\* Nth is the inverse of Place: every place up to the number of members is taken,
\* because no two members share one.
LEMMA NthProperties ==
  ASSUME NEW I, IsFiniteSet(I), I \subseteq Nat
  PROVE  /\ \A n \in 1 .. Cardinality(I) : Nth(I, n) \in I /\ Place(I, Nth(I, n)) = n
         /\ \A i \in I : Nth(I, Place(I, i)) = i
         /\ \A m, n \in 1 .. Cardinality(I) : m < n => Nth(I, m) < Nth(I, n)
<1> DEFINE f == [i \in I |-> Place(I, i)]
           T == 1 .. Cardinality(I)
<1>1. /\ Cardinality(I) \in Nat
      /\ \A i \in I : Place(I, i) \in T
      /\ \A i, k \in I : i < k => Place(I, i) < Place(I, k)
  BY PlaceIsMonotone
<1>2. \A i, k \in I : Place(I, i) = Place(I, k) => i = k
  BY <1>1
<1>3. IsFiniteSet(T) /\ Cardinality(T) = Cardinality(I)
  BY <1>1, FS_Interval
<1>4. f \in [I -> T] /\ \A i, k \in I : f[i] = f[k] => i = k
  BY <1>1, <1>2
<1> HIDE DEF T
<1>5. f \in Surjection(I, T)
  <2>1. f \in Injection(I, T)
    BY <1>4, Fun_IsInj
  <2> HIDE DEF f
  <2> QED
    BY <1>3, <2>1, FS_Injection
<1>6. \A n \in T : \E i \in I : Place(I, i) = n
  BY <1>5 DEF Surjection
<1>7. \A n \in T : Nth(I, n) \in I /\ Place(I, Nth(I, n)) = n
  BY <1>6 DEF Nth
<1>8. \A i \in I : Nth(I, Place(I, i)) = i
  BY <1>1, <1>2, <1>7
<1>9. ASSUME NEW m \in T, NEW n \in T, m < n PROVE Nth(I, m) < Nth(I, n)
  <2> DEFINE a == Nth(I, m)
             b == Nth(I, n)
  <2>1. a \in I /\ b \in I /\ a \in Nat /\ b \in Nat /\ Place(I, a) = m /\ Place(I, b) = n
    BY <1>7
  <2>2. m \in Nat /\ n \in Nat
    BY <1>1 DEF T
  <2> HIDE DEF a, b
  <2>3. ~(b < a) /\ b # a
    BY <1>1, <1>9, <2>1, <2>2
  <2>4. a < b
    BY <2>1, <2>3
  <2> QED
    BY <2>4 DEF a, b
<1> QED
  BY <1>7, <1>8, <1>9 DEF T

\* A member beyond all others takes the last place, and moves none.
LEMMA PlaceOfLatest ==
  ASSUME NEW I, IsFiniteSet(I), I \subseteq Nat, NEW m \in Nat, \A i \in I : i < m
  PROVE  /\ Cardinality(I \cup {m}) = Cardinality(I) + 1
         /\ Place(I \cup {m}, m) = Cardinality(I) + 1
         /\ \A i \in I : Place(I \cup {m}, i) = Place(I, i)
<1>1. m \notin I
  OBVIOUS
<1>2. Cardinality(I \cup {m}) = Cardinality(I) + 1
  BY <1>1, FS_AddElement
<1>3. {j \in I \cup {m} : j <= m} = I \cup {m}
  <2>1. \A j \in I \cup {m} : j <= m
    OBVIOUS
  <2> QED
    BY <2>1
<1>4. ASSUME NEW i \in I PROVE {j \in I \cup {m} : j <= i} = {j \in I : j <= i}
  OBVIOUS
<1> QED
  BY <1>2, <1>3, <1>4 DEF Place

\* What a request has passed is a finite set of positions.
LEMMA PassedIsFinite ==
  ASSUME TypeOK, NEW r \in Requests
  PROVE  IsFiniteSet(Passed(r)) /\ Passed(r) \subseteq Nat /\ Cardinality(Passed(r)) \in Nat
<1>1. Len(batch[r]) \in Nat
  BY BatchType
<1>2. IsFiniteSet(1 .. Len(batch[r])) /\ Passed(r) \subseteq 1 .. Len(batch[r])
  BY <1>1, FS_Interval DEF Passed, Complete
<1> QED
  BY <1>2, FS_Subset, FS_CardinalityType

\* A block stays where it is when the history grows by an entry of another request.
LEMMA BlockStays ==
  ASSUME TypeOK, NEW r \in Requests, NEW k \in Nat, BlockAfter(r, k),
         UNCHANGED <<batch[r], next[r]>>,
         \/ UNCHANGED log
         \/ \E entry \in Entry : log' = Append(log, entry) /\ entry.req # r
  PROVE  BlockAfter(r, k)'
<1>1. Passed(r)' = Passed(r)
  BY DEF Passed, Complete
<1>2. /\ Logged(r)' = Logged(r)
      /\ \A i \in Logged(r) : log'[i] = log[i]
  <2>1. CASE UNCHANGED log
    BY <2>1 DEF Logged
  <2>2. CASE ~UNCHANGED log
    <3>1. PICK entry \in Entry : log' = Append(log, entry) /\ entry.req # r
      BY <2>2
    <3>2. /\ Len(log') = Len(log) + 1 /\ Len(log) \in Nat
          /\ \A i \in 1 .. Len(log) : log'[i] = log[i]
          /\ log'[Len(log) + 1] = entry
      BY <3>1, AppendProperties, LenProperties DEF TypeOK
    <3> QED
      BY <3>1, <3>2 DEF Logged
  <2> QED
    BY <2>1, <2>2
<1>3. ASSUME NEW i \in Passed(r)
      PROVE  k + Place(Passed(r), i) \in Logged(r)
  <2>1. Place(Passed(r), i) \in 1 .. Cardinality(Passed(r)) /\ Cardinality(Passed(r)) \in Nat
    BY PassedIsFinite, PlaceIsMonotone
  <2>2. k + Place(Passed(r), i) \in k + 1 .. k + Cardinality(Passed(r))
    BY <2>1
  <2> QED
    BY <2>2 DEF BlockAfter
<1>4. Logged(r)' = k + 1 .. k + Cardinality(Passed(r)')
  BY <1>1, <1>2 DEF BlockAfter
<1>5. ASSUME NEW i \in Passed(r)'
      PROVE  log'[k + Place(Passed(r)', i)].event = batch'[r][i]
  BY <1>1, <1>2, <1>3, <1>5 DEF BlockAfter
<1> QED
  BY <1>4, <1>5 DEF BlockAfter

\* The loop extends its own block, which is the last, or leaves an event out.
LEMMA BlockGrows ==
  ASSUME TypeInv, NEW r \in Requests, StoreEvent(r),
         BlockAfter(r, Len(log) - Cardinality(Passed(r)))
  PROVE  BlockAfter(r, Len(log) - Cardinality(Passed(r)))'
<1> DEFINE m == next[r]
           entry == [req |-> r, event |-> batch[r][m]]
           k == Len(log) - Cardinality(Passed(r))
<1>1. /\ next' = [next EXCEPT ![r] = @ + 1] /\ UNCHANGED batch
      /\ IF batch[r][m] \in Incomplete THEN UNCHANGED log ELSE log' = Append(log, entry)
  BY DEF StoreEvent
<1>2. /\ entry \in Entry /\ entry.req = r /\ entry.event = batch[r][m]
      /\ m \in 1 .. Len(batch[r]) /\ m \in Nat /\ Len(batch[r]) \in Nat
      /\ next'[r] = m + 1
  BY <1>1, StoreEventEffect, BatchType DEF TypeInv, TypeOK
<1> DEFINE c == Cardinality(Passed(r))
<1>3. /\ IsFiniteSet(Passed(r)) /\ Passed(r) \subseteq Nat /\ c \in Nat
      /\ \A i \in Passed(r) : i < m
  BY PassedIsFinite DEF TypeInv, Passed
<1>4. Len(log) \in Nat /\ log \in Seq(Entry)
  BY LenProperties DEF TypeInv, TypeOK
<1> HIDE DEF entry, m
<1>5. CASE batch[r][m] \in Incomplete
  <2>1. Passed(r)' = Passed(r)
    <3>1. m \notin Complete(batch[r])
      BY <1>5 DEF Complete
    <3>2. \A i \in Complete(batch[r]) : i < m + 1 <=> i < m
      BY <1>2, <3>1 DEF Complete
    <3> QED
      BY <1>1, <1>2, <3>2 DEF Passed, m
  <2> QED
    BY <1>1, <1>5, <2>1 DEF BlockAfter, Logged
<1>6. CASE batch[r][m] \notin Incomplete
  <2>1. Passed(r)' = Passed(r) \cup {m}
    <3>1. m \in Complete(batch[r])
      BY <1>2, <1>6 DEF Complete
    <3>2. \A i \in Complete(batch[r]) : i < m + 1 <=> i < m \/ i = m
      BY <1>2 DEF Complete
    <3> QED
      BY <1>1, <1>2, <3>1, <3>2 DEF Passed, m
  <2>2. /\ Cardinality(Passed(r)') = c + 1
        /\ Place(Passed(r)', m) = c + 1
        /\ \A i \in Passed(r) : Place(Passed(r)', i) = Place(Passed(r), i)
    <3>1. /\ Cardinality(Passed(r) \cup {m}) = c + 1
          /\ Place(Passed(r) \cup {m}, m) = c + 1
          /\ \A i \in Passed(r) : Place(Passed(r) \cup {m}, i) = Place(Passed(r), i)
      BY <1>2, <1>3, PlaceOfLatest
    <3> QED
      BY <2>1, <3>1 DEF Place
  <2>3. /\ Len(log') = Len(log) + 1
        /\ \A i \in 1 .. Len(log) : log'[i] = log[i]
        /\ log'[Len(log) + 1] = entry
    BY <1>1, <1>2, <1>4, <1>6, AppendProperties
  <2>4. Logged(r)' = Logged(r) \cup {Len(log) + 1}
    BY <1>2, <1>4, <2>3 DEF Logged
  <2>5. k + c = Len(log) /\ k + (c + 1) = Len(log) + 1 /\ k \in Int
        /\ Len(log') - Cardinality(Passed(r)') = k
    BY <1>3, <1>4, <2>2, <2>3
  <2>6. Logged(r) = k + 1 .. k + c
    BY DEF BlockAfter
  <2>7. ASSUME NEW i \in Passed(r)
        PROVE  log'[k + Place(Passed(r), i)] = log[k + Place(Passed(r), i)]
    <3>1. Place(Passed(r), i) \in 1 .. c
      BY <1>3, PlaceIsMonotone
    <3>2. k + Place(Passed(r), i) \in Logged(r)
      <4> HIDE DEF k, c
      <4> QED
        BY <1>3, <2>5, <2>6, <3>1
    <3> QED
      BY <2>3, <3>2 DEF Logged
  <2>8. \A i \in Passed(r) : log[k + Place(Passed(r), i)].event = batch[r][i]
    BY DEF BlockAfter
  <2> HIDE DEF k, c
  <2>9. Logged(r)' = k + 1 .. k + (c + 1)
    BY <1>3, <1>4, <2>4, <2>5, <2>6
  <2>10. ASSUME NEW i \in Passed(r)'
         PROVE  log'[k + Place(Passed(r)', i)].event = batch'[r][i]
    <3>1. CASE i \in Passed(r)
      BY <1>1, <2>2, <2>7, <2>8, <3>1
    <3>2. CASE i = m
      BY <1>1, <1>2, <2>2, <2>3, <2>5, <3>2
    <3> QED
      BY <2>1, <3>1, <3>2
  <2>11. BlockAfter(r, k)' <=>
           /\ Logged(r)' = k' + 1 .. k' + Cardinality(Passed(r)')
           /\ \A i \in Passed(r)' : log'[k' + Place(Passed(r)', i)].event = batch'[r][i]
    BY DEF BlockAfter
  <2>12. k' = k
    BY <2>5 DEF k
  <2> QED
    BY <2>2, <2>9, <2>10, <2>11, <2>12 DEF k
<1> QED
  BY <1>5, <1>6

\* Every step keeps the blocks.
LEMMA NextBlocks == TypeInv /\ BlocksInv /\ [Next]_vars => BlocksInv'
<1> SUFFICES ASSUME TypeInv, BlocksInv, [Next]_vars
             PROVE  BlocksInv'
  OBVIOUS
<1>0. TypeOK /\ Len(log) \in Nat
  BY LenProperties DEF TypeInv, TypeOK
<1>1. ASSUME NEW r \in Requests, StoreEvent(r)
      PROVE  BlocksInv'
  <2>1. pc[r] = "storing" /\ UNCHANGED <<pc, lock, batch>> /\ next' = [next EXCEPT ![r] = @ + 1]
    BY <1>1 DEF StoreEvent
  <2>2. lock = r /\ BlockAfter(r, Len(log) - Cardinality(Passed(r)))'
    BY <1>1, <2>1, BlockGrows DEF BlocksInv
  <2>3. ASSUME NEW s \in Requests, s # r
        PROVE  /\ pc'[s] # "storing"
               /\ pc'[s] # "stored" => Logged(s)' = {}
               /\ pc'[s] = "stored" => \E first \in 0 .. Len(log') : BlockAfter(s, first)'
    <3> DEFINE entry == [req |-> r, event |-> batch[r][next[r]]]
    <3>1. entry \in Entry /\ entry.req # s /\ (log' = log \/ log' = Append(log, entry))
      BY <1>1, <2>3, StoreEventEffect
    <3> HIDE DEF entry
    <3>2. pc[s] # "storing"
      BY <2>2, <2>3 DEF BlocksInv
    <3>3. UNCHANGED <<batch[s], next[s]>>
      BY <2>1, <2>3 DEF TypeInv, TypeOK
    <3>4. Len(log') >= Len(log) /\ Len(log') \in Nat
      BY <1>0, <3>1, AppendProperties DEF TypeOK
    <3>5. ASSUME pc[s] = "stored"
          PROVE  \E first \in 0 .. Len(log') : BlockAfter(s, first)'
      <4>1. PICK first \in 0 .. Len(log) : BlockAfter(s, first)
        BY <3>5 DEF BlocksInv
      <4>2. BlockAfter(s, first)'
        BY <1>0, <3>1, <3>3, <4>1, BlockStays
      <4> QED
        BY <1>0, <3>4, <4>2
    <3>6. Logged(s)' = Logged(s)
      <4>1. CASE UNCHANGED log
        BY <4>1 DEF Logged
      <4>2. CASE log' = Append(log, entry)
        <5>1. /\ Len(log') = Len(log) + 1
              /\ \A i \in 1 .. Len(log) : log'[i] = log[i]
              /\ log'[Len(log) + 1] = entry
          BY <1>0, <3>1, <4>2, AppendProperties DEF TypeOK
        <5> QED
          BY <1>0, <3>1, <5>1 DEF Logged
      <4> QED
        BY <3>1, <4>1, <4>2
    <3> QED
      BY <2>1, <3>2, <3>5, <3>6 DEF BlocksInv
  <2> QED
    BY <2>1, <2>2, <2>3 DEF BlocksInv
<1>2. ASSUME UNCHANGED <<log, next>>,
             \A s \in Requests :
               \/ UNCHANGED <<pc[s], batch[s]>> /\ (pc[s] = "storing" => lock' = lock)
               \/ {pc[s], pc'[s]} \cap {"storing", "stored"} = {}
               \/ pc[s] = "admitted" /\ pc'[s] = "storing" /\ lock' = s /\ UNCHANGED batch[s]
               \/ pc[s] = "storing" /\ pc'[s] = "stored" /\ UNCHANGED batch[s]
      PROVE  BlocksInv'
  <2> SUFFICES ASSUME NEW s \in Requests
               PROVE  /\ pc'[s] = "storing" =>
                           lock' = s /\ BlockAfter(s, Len(log) - Cardinality(Passed(s)))'
                      /\ pc'[s] \notin {"storing", "stored"} => Logged(s)' = {}
                      /\ pc'[s] = "stored" => \E first \in 0 .. Len(log) : BlockAfter(s, first)'
    BY <1>2 DEF BlocksInv
  <2>1. Logged(s)' = Logged(s)
    BY <1>2 DEF Logged
  <2>2. ASSUME UNCHANGED batch[s]
        PROVE  /\ Passed(s)' = Passed(s)
               /\ \A k : BlockAfter(s, k)' <=> BlockAfter(s, k)
               /\ BlockAfter(s, Len(log) - Cardinality(Passed(s)))' <=>
                    BlockAfter(s, Len(log) - Cardinality(Passed(s)))
    <3>1. Passed(s)' = Passed(s)
      BY <1>2, <2>2 DEF Passed, Complete
    <3> QED
      BY <1>2, <2>1, <2>2, <3>1 DEF BlockAfter
  <2>3. Cardinality(Passed(s)) \in Nat /\ IsFiniteSet(Passed(s))
    BY <1>0, PassedIsFinite
  <2>4. CASE UNCHANGED <<pc[s], batch[s]>> /\ (pc[s] = "storing" => lock' = lock)
    BY <2>1, <2>2, <2>4 DEF BlocksInv
  <2>5. CASE {pc[s], pc'[s]} \cap {"storing", "stored"} = {}
    BY <2>1, <2>5 DEF BlocksInv
  <2>6. CASE pc[s] = "admitted" /\ pc'[s] = "storing" /\ lock' = s /\ UNCHANGED batch[s]
    <3>1. Logged(s) = {} /\ next[s] = 1
      BY <2>6 DEF BlocksInv, TypeInv, CountersAddUp
    <3>2. Passed(s) = {}
      BY <1>0, <3>1, BatchType DEF Passed, Complete
    <3>3. Cardinality(Passed(s)) = 0
      BY <3>2, FS_EmptySet
    <3>4. BlockAfter(s, Len(log) - Cardinality(Passed(s)))
      BY <1>0, <3>1, <3>2, <3>3 DEF BlockAfter
    <3> QED
      BY <2>2, <2>6, <3>4
  <2>7. CASE pc[s] = "storing" /\ pc'[s] = "stored" /\ UNCHANGED batch[s]
    <3> DEFINE c == Cardinality(Passed(s))
    <3>1. BlockAfter(s, Len(log) - c)
      BY <2>7 DEF BlocksInv
    <3>2. Logged(s) = Len(log) - c + 1 .. Len(log) - c + c /\ Logged(s) \subseteq 1 .. Len(log)
      BY <3>1 DEF BlockAfter, Logged
    <3> HIDE DEF c
    <3>3. Len(log) - c \in 0 .. Len(log)
      <4>1. CASE c = 0
        BY <1>0, <4>1
      <4>2. CASE c # 0
        <5>1. c \in Nat
          BY <2>3 DEF c
        <5>2. Len(log) - c + 1 \in Logged(s)
          BY <1>0, <3>2, <4>2, <5>1
        <5>3. Len(log) - c + 1 >= 1
          BY <3>2, <5>2
        <5> QED
          BY <1>0, <5>1, <5>3
      <4> QED
        BY <4>1, <4>2
    <3> QED
      BY <2>2, <2>7, <3>1, <3>3
  <2> QED
    BY <1>2, <2>4, <2>5, <2>6, <2>7
<1>3. CASE Tick \/ UNCHANGED vars
  BY <1>2, <1>3 DEF Tick, vars, counters
<1>4. ASSUME NEW r \in Requests,
             (\E b \in Batches : Arrive(r, b)) \/ Throttle(r) \/ Admit(r)
      PROVE  BlocksInv'
  <2>1. /\ UNCHANGED <<log, next, lock>>
        /\ \E state : state \notin {"storing", "stored"} /\ pc' = [pc EXCEPT ![r] = state]
        /\ pc[r] \notin {"storing", "stored"}
        /\ \A s \in Requests \ {r} : batch'[s] = batch[s]
    BY <1>0, <1>4 DEF Arrive, Throttle, Admit, counters, TypeOK
  <2>2. ASSUME NEW s \in Requests
        PROVE  \/ UNCHANGED <<pc[s], batch[s], lock>>
               \/ {pc[s], pc'[s]} \cap {"storing", "stored"} = {}
    BY <1>0, <2>1 DEF TypeOK
  <2> QED
    BY <1>2, <2>1, <2>2
<1>5. ASSUME NEW r \in Requests, LockStore(r) PROVE BlocksInv'
  <2>1. /\ pc[r] = "admitted" /\ lock = None /\ lock' = r /\ pc' = [pc EXCEPT ![r] = "storing"]
        /\ UNCHANGED <<log, next, batch>>
    BY <1>5 DEF LockStore, counters
  <2>2. \A s \in Requests : pc[s] # "storing"
    BY <2>1, IngestAssumption DEF BlocksInv
  <2> QED
    BY <1>0, <1>2, <2>1, <2>2 DEF TypeOK
<1>6. ASSUME NEW r \in Requests, Answer(r) PROVE BlocksInv'
  <2>1. /\ pc[r] = "storing" /\ pc' = [pc EXCEPT ![r] = "stored"] /\ UNCHANGED <<log, next, batch>>
    BY <1>6 DEF Answer, counters
  <2>2. \A s \in Requests : s # r => pc[s] # "storing"
    BY <2>1 DEF BlocksInv
  <2> QED
    BY <1>0, <1>2, <2>1, <2>2 DEF TypeOK
<1> QED
  BY <1>1, <1>3, <1>4, <1>5, <1>6 DEF Next, Step, Quiet

\* Once a request is through its loop, what it has passed is its batch.
LEMMA StoredIsWhole == TypeInv /\ BlocksInv => BatchesStayWhole
<1> SUFFICES ASSUME TypeInv, BlocksInv, NEW r \in Requests, pc[r] = "stored"
             PROVE  \E first \in 0 .. Len(log) :
                      /\ Logged(r) = first + 1 .. first + Cardinality(Complete(batch[r]))
                      /\ \A i \in Complete(batch[r]) :
                           log[first + Place(Complete(batch[r]), i)].event = batch[r][i]
  BY DEF BatchesStayWhole
<1>1. PICK first \in 0 .. Len(log) : BlockAfter(r, first)
  BY DEF BlocksInv
<1>2. Passed(r) = Complete(batch[r])
  BY BatchType DEF TypeInv, CountersAddUp, Passed, Complete
<1> QED
  BY <1>1, <1>2 DEF BlockAfter

LEMMA BlocksAlways == Spec => []BlocksInv
<1>1. Init => BlocksInv
  BY DEF Init, BlocksInv, Logged
<1> QED
  BY <1>1, NextBlocks, TypeInvAlways, PTL DEF Spec

\* However requests interleave, between the two mutexes and in the loop, the
\* complete events of a batch enter the history as one block and in their order.
THEOREM BatchesEnterWhole == Spec => []BatchesStayWhole
  BY BlocksAlways, StoredIsWhole, TypeInvAlways, PTL

(***************************************************************************)
(* The refinement of BatchStore.                                           *)
(*                                                                         *)
(* A request takes effect when it answers: until then StoreBetweenBatches  *)
(* leaves out what it has inserted.  By BlocksInv that is the end of the   *)
(* history, so leaving it out gives back the history as the request found  *)
(* it.                                                                     *)
(***************************************************************************)

\* The newest n elements are the end of a sequence.
LEMMA NewestElements ==
  ASSUME NEW S, NEW s \in Seq(S), NEW n \in Nat
  PROVE  /\ Newest(s, n) \in Seq(S) /\ Len(s) \in Nat
         /\ Len(Newest(s, n)) = IF Len(s) < n THEN Len(s) ELSE n
         /\ \A i \in 1 .. Len(Newest(s, n)) : Newest(s, n)[i] = s[Len(s) - Len(Newest(s, n)) + i]
<1>1. Len(s) \in Nat /\ \A i \in 1 .. Len(s) : s[i] \in S
  BY LenProperties, ElementOfSeq
<1>2. CASE Len(s) <= n
  BY <1>1, <1>2 DEF Newest
<1>3. CASE n < Len(s)
  <2> DEFINE m == Len(s) - n + 1
  <2>1. Newest(s, n) = SubSeq(s, m, Len(s))
    BY <1>1, <1>3 DEF Newest
  <2>2. m \in Int /\ m >= 1 /\ m <= Len(s) + 1 /\ Len(s) - m + 1 = n
    BY <1>1, <1>3
  <2> HIDE DEF m
  <2>3. \A i \in m .. Len(s) : s[i] \in S
    BY <1>1, <2>2
  <2>4. /\ SubSeq(s, m, Len(s)) \in Seq(S)
        /\ Len(SubSeq(s, m, Len(s))) = IF m <= Len(s) THEN Len(s) - m + 1 ELSE 0
        /\ \A i \in 1 .. Len(s) - m + 1 : SubSeq(s, m, Len(s))[i] = s[m + i - 1]
    BY <1>1, <2>2, <2>3, SubSeqProperties
  <2>5. Len(Newest(s, n)) = n
    BY <1>1, <2>1, <2>2, <2>4
  <2>6. ASSUME NEW i \in 1 .. n PROVE Newest(s, n)[i] = s[Len(s) - n + i]
    <3>1. m + i - 1 = Len(s) - n + i
      BY <1>1 DEF m
    <3> QED
      BY <2>1, <2>2, <2>4, <3>1
  <2> QED
    BY <1>1, <1>3, <2>1, <2>4, <2>5, <2>6
<1> QED
  BY <1>1, <1>2, <1>3

\* A store that is the end of a history holds its newest entries.
LEMMA EndIsNewest ==
  ASSUME NEW s \in Seq(Entry), NEW h \in Seq(Entry), IsEndOf(s, h)
  PROVE  s = Newest(h, Capacity)
<1>1. Capacity \in Nat
  BY IngestAssumption
<1>2. /\ Newest(h, Capacity) \in Seq(Entry)
      /\ Len(Newest(h, Capacity)) = IF Len(h) < Capacity THEN Len(h) ELSE Capacity
      /\ \A i \in 1 .. Len(Newest(h, Capacity)) :
            Newest(h, Capacity)[i] = h[Len(h) - Len(Newest(h, Capacity)) + i]
  BY <1>1, NewestElements
<1>3. Len(s) = Len(Newest(h, Capacity))
  BY <1>2 DEF IsEndOf
<1>4. \A i \in 1 .. Len(s) : s[i] = Newest(h, Capacity)[i]
  BY <1>2, <1>3 DEF IsEndOf
<1> QED
  BY <1>2, <1>3, <1>4, SeqEqual

\* Forgetting old entries earlier makes no difference to what is newest later.
LEMMA NewestOfConcat ==
  ASSUME NEW S, NEW s \in Seq(S), NEW t \in Seq(S), NEW n \in Nat
  PROVE  Newest(Newest(s, n) \o t, n) = Newest(s \o t, n)
<1> DEFINE a == Newest(s, n)
           u == a \o t
           v == s \o t
<1>1. /\ a \in Seq(S) /\ Len(s) \in Nat /\ Len(a) = (IF Len(s) < n THEN Len(s) ELSE n)
      /\ \A i \in 1 .. Len(a) : a[i] = s[Len(s) - Len(a) + i]
  BY NewestElements
<1>2. Len(t) \in Nat
  BY LenProperties
<1> HIDE DEF a
<1>3. /\ u \in Seq(S) /\ Len(u) = Len(a) + Len(t)
      /\ \A i \in 1 .. Len(a) + Len(t) : u[i] = IF i <= Len(a) THEN a[i] ELSE t[i - Len(a)]
  BY <1>1, ConcatProperties
<1>4. /\ v \in Seq(S) /\ Len(v) = Len(s) + Len(t)
      /\ \A i \in 1 .. Len(s) + Len(t) : v[i] = IF i <= Len(s) THEN s[i] ELSE t[i - Len(s)]
  BY ConcatProperties
<1> HIDE DEF u, v
<1> DEFINE x == Newest(u, n)
           y == Newest(v, n)
<1>5. /\ x \in Seq(S) /\ Len(x) = (IF Len(u) < n THEN Len(u) ELSE n)
      /\ \A i \in 1 .. Len(x) : x[i] = u[Len(u) - Len(x) + i]
  <2>1. u \in Seq(S) /\ n \in Nat
    BY <1>3
  <2> QED
    BY <2>1, NewestElements
<1>6. /\ y \in Seq(S) /\ Len(y) = (IF Len(v) < n THEN Len(v) ELSE n)
      /\ \A i \in 1 .. Len(y) : y[i] = v[Len(v) - Len(y) + i]
  <2>1. v \in Seq(S) /\ n \in Nat
    BY <1>4
  <2> QED
    BY <2>1, NewestElements
<1> HIDE DEF x, y
<1>7. Len(x) = Len(y) /\ Len(x) \in Nat /\ Len(x) <= Len(a) + Len(t) /\ Len(a) <= Len(s) /\ Len(a) \in Nat
  BY <1>1, <1>2, <1>3, <1>4, <1>5, <1>6
<1>8. \A i \in 1 .. Len(a) + Len(t) : u[i] = v[Len(s) - Len(a) + i]
  <2> SUFFICES ASSUME NEW i \in 1 .. Len(a) + Len(t)
               PROVE  u[i] = v[Len(s) - Len(a) + i]
    OBVIOUS
  <2> DEFINE j == Len(s) - Len(a) + i
  <2>1. j \in 1 .. Len(s) + Len(t) /\ (i <= Len(a) <=> j <= Len(s)) /\ j - Len(s) = i - Len(a)
    <3>1. /\ Len(s) \in Nat /\ Len(t) \in Nat /\ Len(a) \in Nat /\ Len(a) <= Len(s)
          /\ i \in Nat /\ 1 <= i /\ i <= Len(a) + Len(t)
      BY <1>1, <1>2, <1>7
    <3> QED
      BY <3>1
  <2>2. v[j] = IF j <= Len(s) THEN s[j] ELSE t[j - Len(s)]
    BY <1>4, <2>1
  <2>3. i <= Len(a) => a[i] = s[j]
    <3>1. i <= Len(a) => i \in 1 .. Len(a)
      BY <1>2, <1>7
    <3>2. i \in 1 .. Len(a) => a[i] = s[Len(s) - Len(a) + i]
      BY <1>1
    <3> QED
      BY <3>1, <3>2
  <2> HIDE DEF j
  <2>4. u[i] = v[j]
    BY <1>3, <2>1, <2>2, <2>3
  <2> QED
    BY <2>4 DEF j
<1>9. ASSUME NEW i \in 1 .. Len(x) PROVE x[i] = y[i]
  <2>1. x[i] = u[Len(u) - Len(x) + i] /\ y[i] = v[Len(v) - Len(x) + i]
    BY <1>5, <1>6, <1>7
  <2>2. /\ Len(u) - Len(x) + i \in 1 .. Len(a) + Len(t)
        /\ Len(v) - Len(x) + i = Len(s) - Len(a) + (Len(u) - Len(x) + i)
    BY <1>1, <1>2, <1>3, <1>4, <1>7
  <2> QED
    BY <1>8, <2>1, <2>2
<1>10. x = y
  BY <1>5, <1>6, <1>7, <1>9, SeqEqual
<1> QED
  BY <1>10 DEF x, y, u, v, a

\* The operators of the abstract module are those of this one.
LEMMA SameCardinality == \A S : Ideal!Cardinality(S) = Cardinality(S)
  BY DEF Ideal!Cardinality, Cardinality

LEMMA SameSelection == \A s, I : Ideal!Selection(s, I) = Selection(s, I)
<1>1. \A I, i : Ideal!Place(I, i) = Place(I, i)
  BY SameCardinality DEF Ideal!Place, Place
<1>2. \A I, n : Ideal!Nth(I, n) = Nth(I, n)
  BY <1>1 DEF Ideal!Nth, Nth
<1> QED
  BY <1>2, SameCardinality DEF Ideal!Selection, Selection

LEMMA SameNewest == \A s, n : Ideal!Newest(s, n) = Newest(s, n)
  BY DEF Ideal!Newest, Newest

\* The block of a request has its complete events, each in its place.
LEMMA BlockElements ==
  ASSUME TypeInv, NEW r \in Requests
  PROVE  /\ IsFiniteSet(Complete(batch[r])) /\ Complete(batch[r]) \subseteq Nat
         /\ Cardinality(Complete(batch[r])) \in Nat
         /\ Ideal!Block(r) \in Seq(Entry)
         /\ Len(Ideal!Block(r)) = Cardinality(Complete(batch[r]))
         /\ \A n \in 1 .. Cardinality(Complete(batch[r])) :
               Ideal!Block(r)[n] = [req |-> r, event |-> batch[r][Nth(Complete(batch[r]), n)]]
<1> DEFINE C == Complete(batch[r])
           c == Cardinality(C)
           given == [i \in 1 .. Len(batch[r]) |-> [req |-> r, event |-> batch[r][i]]]
<1>1. Len(batch[r]) \in Nat /\ \A i \in 1 .. Len(batch[r]) : batch[r][i] \in Events
  BY BatchType, ElementOfSeq DEF TypeInv
<1>2. C \subseteq 1 .. Len(batch[r]) /\ IsFiniteSet(1 .. Len(batch[r]))
  BY <1>1, FS_Interval DEF Complete
<1>3. IsFiniteSet(C) /\ c \in Nat /\ C \subseteq Nat
  BY <1>1, <1>2, FS_Subset, FS_CardinalityType
<1>4. Ideal!Kept(r) = C
  BY DEF Ideal!Kept, Complete
<1>5. Ideal!Block(r) = Selection(given, C)
  <2>1. Ideal!Selection(given, C) = Selection(given, C)
    BY SameSelection
  <2>2. Ideal!Block(r) = Ideal!Selection(given, C)
    BY <1>4 DEF Ideal!Block
  <2> QED
    BY <2>1, <2>2
<1> HIDE DEF C
<1>6. Ideal!Block(r) = [n \in 1 .. c |-> given[Nth(C, n)]]
  BY <1>5 DEF Selection
<1>7. \A n \in 1 .. c : Nth(C, n) \in C
  BY <1>3, NthProperties
<1>8. ASSUME NEW n \in 1 .. c
      PROVE  /\ given[Nth(C, n)] = [req |-> r, event |-> batch[r][Nth(C, n)]]
             /\ given[Nth(C, n)] \in Entry
  <2>1. Nth(C, n) \in 1 .. Len(batch[r])
    BY <1>2, <1>7
  <2> QED
    BY <1>1, <2>1 DEF Entry
<1> HIDE DEF c, given
<1>9. Ideal!Block(r) \in Seq(Entry) /\ Len(Ideal!Block(r)) = c
  <2>1. Ideal!Block(r) \in [1 .. c -> Entry]
    BY <1>6, <1>8
  <2> QED
    BY <1>3, <2>1
<1>10. \A n \in 1 .. c : Ideal!Block(r)[n] = [req |-> r, event |-> batch[r][Nth(C, n)]]
  BY <1>6, <1>8
<1> QED
  BY <1>3, <1>9, <1>10 DEF C, c

\* What a request has inserted lies within the history.
LEMMA HeldBack ==
  ASSUME TypeInv, AcceptedIsLogged, NEW r \in Requests
  PROVE  Len(log) \in Nat /\ accepted[r] \in Nat /\ accepted[r] <= Len(log)
<1>1. Len(log) \in Nat
  BY LenProperties DEF TypeInv, TypeOK
<1>2. Logged(r) \subseteq 1 .. Len(log) /\ IsFiniteSet(1 .. Len(log)) /\ Cardinality(1 .. Len(log)) = Len(log)
  BY <1>1, FS_Interval DEF Logged
<1>3. Cardinality(Logged(r)) <= Len(log) /\ Cardinality(Logged(r)) \in Nat
  BY <1>2, FS_Subset, FS_CardinalityType
<1> QED
  BY <1>1, <1>3 DEF AcceptedIsLogged

\* The history before k, when k is not beyond its end.
LEMMA BeforeElements ==
  ASSUME NEW S, NEW s \in Seq(S), NEW k \in 0 .. Len(s)
  PROVE  /\ SubSeq(s, 1, k) \in Seq(S) /\ Len(SubSeq(s, 1, k)) = k
         /\ \A i \in 1 .. k : SubSeq(s, 1, k)[i] = s[i]
<1>1. Len(s) \in Nat /\ k \in Int /\ k >= 0 /\ k <= Len(s) /\ \A i \in 1 .. Len(s) : s[i] \in S
  BY LenProperties, ElementOfSeq
<1>2. \A i \in 1 .. k : s[i] \in S
  BY <1>1
<1>3. /\ SubSeq(s, 1, k) \in Seq(S)
      /\ Len(SubSeq(s, 1, k)) = IF 1 <= k THEN k - 1 + 1 ELSE 0
      /\ \A i \in 1 .. k - 1 + 1 : SubSeq(s, 1, k)[i] = s[1 + i - 1]
  BY <1>1, <1>2, SubSeqProperties
<1> QED
  BY <1>1, <1>3

\* When its loop is over, the history ends with the block of the request, and
\* what stands before is what the request found.
LEMMA BlockIsLast ==
  ASSUME TypeInv, AcceptedIsLogged, BlocksInv, NEW r \in Requests,
         pc[r] = "storing", next[r] > Len(batch[r])
  PROVE  /\ accepted[r] = Cardinality(Complete(batch[r]))
         /\ dropped[r] = Len(batch[r]) - Cardinality(Complete(batch[r]))
         /\ log = SubSeq(log, 1, Len(log) - accepted[r]) \o Ideal!Block(r)
<1> DEFINE C == Complete(batch[r])
           c == Cardinality(C)
           k == Len(log) - c
           B == Ideal!Block(r)
           s == SubSeq(log, 1, k)
<1>1. Len(batch[r]) \in Nat /\ next[r] = Len(batch[r]) + 1
  BY BatchType DEF TypeInv, TypeOK, CountersAddUp
<1>2. Passed(r) = C
  BY <1>1 DEF Passed, Complete
<1>3. /\ IsFiniteSet(C) /\ C \subseteq Nat /\ c \in Nat
      /\ B \in Seq(Entry) /\ Len(B) = c
      /\ \A n \in 1 .. c : B[n] = [req |-> r, event |-> batch[r][Nth(C, n)]]
  BY BlockElements
<1>4. /\ Logged(r) = k + 1 .. k + c
      /\ \A i \in C : log[k + Place(C, i)].event = batch[r][i]
  BY <1>2 DEF BlocksInv, BlockAfter
<1> HIDE DEF C, c, B
<1>5. Len(log) \in Nat /\ log \in Seq(Entry) /\ accepted[r] = Cardinality(Logged(r))
      /\ accepted[r] <= Len(log) /\ accepted[r] \in Nat
  BY HeldBack DEF TypeInv, TypeOK, AcceptedIsLogged
<1>6. accepted[r] = c
  <2>1. k + 1 \in Int /\ k + c \in Int /\ (k + 1 <= k + c <=> c # 0) /\ (k + c) - (k + 1) + 1 = c
    BY <1>3, <1>5
  <2>2. Cardinality(k + 1 .. k + c) = IF k + 1 > k + c THEN 0 ELSE (k + c) - (k + 1) + 1
    BY <2>1, FS_Interval
  <2> HIDE DEF k
  <2> QED
    BY <1>3, <1>4, <1>5, <2>1, <2>2
<1>7. k \in 0 .. Len(log) /\ k + c = Len(log)
  BY <1>3, <1>5, <1>6
<1>8. dropped[r] = Len(batch[r]) - c
  <2>1. accepted[r] + dropped[r] = next[r] - 1 /\ dropped[r] \in 0 .. MaxBatch
    BY DEF TypeInv, TypeOK, CountersAddUp
  <2>2. dropped[r] \in Int /\ c + dropped[r] = Len(batch[r])
    BY <1>1, <1>3, <1>6, <2>1, IngestAssumption
  <2>3. c \in Nat /\ Len(batch[r]) \in Nat
    BY <1>1, <1>3
  <2> QED
    BY <2>2, <2>3
<1> HIDE DEF k
<1>9. s \in Seq(Entry) /\ Len(s) = k /\ \A i \in 1 .. k : s[i] = log[i]
  BY <1>5, <1>7, BeforeElements
<1>10. ASSUME NEW n \in 1 .. c PROVE log[k + n] = B[n]
  <2>1. Nth(C, n) \in C /\ Place(C, Nth(C, n)) = n
    BY <1>3, NthProperties DEF c
  <2>2. log[k + n].event = batch[r][Nth(C, n)]
    BY <1>4, <2>1
  <2>3. k + n \in Logged(r)
    BY <1>3, <1>4, <1>7
  <2>4. log[k + n] \in Entry /\ log[k + n].req = r
    BY <1>5, <2>3, ElementOfSeq DEF Logged
  <2>5. log[k + n] = [req |-> r, event |-> batch[r][Nth(C, n)]]
    BY <2>2, <2>4 DEF Entry
  <2> QED
    BY <1>3, <2>5
<1> HIDE DEF s
<1>11. /\ s \o B \in Seq(Entry) /\ Len(s \o B) = Len(s) + Len(B)
       /\ \A i \in 1 .. Len(s) + Len(B) : (s \o B)[i] = IF i <= Len(s) THEN s[i] ELSE B[i - Len(s)]
  BY <1>3, <1>9, ConcatProperties
<1>12. Len(s \o B) = Len(log)
  BY <1>3, <1>7, <1>9, <1>11
<1>13. ASSUME NEW i \in 1 .. Len(log) PROVE (s \o B)[i] = log[i]
  <2>1. i \in 1 .. k \/ (i - k \in 1 .. c /\ k + (i - k) = i /\ ~(i <= k))
    BY <1>3, <1>5, <1>7
  <2>2. CASE i \in 1 .. k
    BY <1>3, <1>7, <1>9, <1>11, <2>2
  <2>3. CASE i - k \in 1 .. c /\ k + (i - k) = i /\ ~(i <= k)
    <3>1. (s \o B)[i] = B[i - k]
      BY <1>3, <1>7, <1>9, <1>11, <2>3
    <3> QED
      BY <1>10, <2>3, <3>1
  <2> QED
    BY <2>1, <2>2, <2>3
<1>14. log = s \o B
  BY <1>5, <1>11, <1>12, <1>13, SeqEqual
<1> QED
  BY <1>6, <1>8, <1>14 DEF s, k, c, C, B

\* Outside the loop the store is the newest part of the history.
LEMMA StoreIsNewest == ASSUME TypeInv, StoreHoldsTheNewest PROVE events = Newest(log, Capacity)
  BY EndIsNewest DEF TypeInv, TypeOK, StoreHoldsTheNewest, IsEndOf

\* A request's place in the handler, as its client sees it.
LEMMA AnswerCases ==
  ASSUME NEW r \in Requests
  PROVE  /\ pc[r] = "absent" => AnswerOf[r] = Ideal!Absent
         /\ pc[r] \in {"limiter", "admitted", "storing"} => AnswerOf[r] = Ideal!Waiting
         /\ pc[r] = "refused" => AnswerOf[r] = Ideal!Refused
         /\ pc[r] = "stored" => AnswerOf[r] = Ideal!Stored(accepted[r], dropped[r])
  BY DEF AnswerOf, AnswerTo, Ideal!Absent, Ideal!Waiting, Ideal!Refused, Ideal!Stored

\* The answers of the requests that a step does not touch stay what they are.
LEMMA AnswerChanges ==
  ASSUME NEW r \in Requests,
         \A s \in Requests : s # r => UNCHANGED <<pc[s], accepted[s], dropped[s]>>
  PROVE  AnswerOf' = [AnswerOf EXCEPT ![r] = AnswerOf'[r]]
<1>1. \A s \in Requests : s # r => AnswerTo(s)' = AnswerTo(s)
  BY DEF AnswerTo
<1> QED
  BY <1>1 DEF AnswerOf

LEMMA InitRefines == Init => Ideal!Init
<1> SUFFICES ASSUME Init PROVE Ideal!Init
  OBVIOUS
<1>1. StoreBetweenBatches = <<>>
  BY DEF Init, StoreBetweenBatches
<1>2. AnswerOf = [r \in Requests |-> Ideal!Absent]
  BY DEF Init, AnswerOf, AnswerTo, Ideal!Absent
<1> QED
  BY <1>1, <1>2 DEF Init, Ideal!Init

\* Taking the mutex of the store, with nothing inserted yet, changes nothing.
LEMMA LockIsSilent ==
  ASSUME TypeInv, StoreHoldsTheNewest, NEW r \in Requests, LockStore(r)
  PROVE  StoreBetweenBatches' = StoreBetweenBatches
<1>1. accepted[r] = 0
  <2>1. next[r] = 1 /\ accepted[r] + dropped[r] = next[r] - 1
    BY DEF LockStore, TypeInv, CountersAddUp
  <2>2. accepted[r] \in Nat /\ dropped[r] \in Nat
    BY IngestAssumption DEF TypeInv, TypeOK
  <2> QED
    BY <2>1, <2>2
<1>2. lock = None /\ lock' = r /\ r # None /\ UNCHANGED <<events, log, accepted>>
  BY IngestAssumption DEF LockStore, counters
<1>3. StoreBetweenBatches' = Newest(SubSeq(log, 1, Len(log) - accepted[r]), Capacity)
  BY <1>2 DEF StoreBetweenBatches
<1>4. log \in Seq(Entry) /\ Len(log) - accepted[r] = Len(log)
  BY <1>1, LenProperties DEF TypeInv, TypeOK
<1>5. SubSeq(log, 1, Len(log)) = log
  BY <1>4, SubSeqFull
<1> QED
  BY <1>2, <1>3, <1>4, <1>5, StoreIsNewest DEF StoreBetweenBatches

\* A round of the loop adds to the history and to the count what is left out.
LEMMA LoopIsSilent ==
  ASSUME TypeInv, AcceptedIsLogged, BlocksInv, NEW r \in Requests, StoreEvent(r)
  PROVE  StoreBetweenBatches' = StoreBetweenBatches
<1> DEFINE k == Len(log) - accepted[r]
<1>1. lock = r /\ lock' = r /\ r # None
  BY IngestAssumption DEF StoreEvent, BlocksInv
<1>2. /\ log \in Seq(Entry) /\ Len(log) \in Nat
      /\ accepted[r] \in Nat /\ accepted[r] <= Len(log)
  BY HeldBack DEF TypeInv, TypeOK
<1>3. /\ StoreBetweenBatches = Newest(SubSeq(log, 1, k), Capacity)
      /\ StoreBetweenBatches' = Newest(SubSeq(log', 1, Len(log') - accepted'[r]), Capacity)
  BY <1>1 DEF StoreBetweenBatches
<1>4. CASE UNCHANGED <<log, accepted>>
  BY <1>3, <1>4
<1>5. CASE ~UNCHANGED <<log, accepted>>
  <2>1. PICK entry \in Entry : log' = Append(log, entry) /\ accepted' = [accepted EXCEPT ![r] = @ + 1]
    BY <1>5, StoreEventEffect DEF StoreEvent
  <2>2. accepted'[r] = accepted[r] + 1
    BY <2>1 DEF TypeInv, TypeOK
  <2>3. /\ Len(log') = Len(log) + 1 /\ log' \in Seq(Entry)
        /\ \A i \in 1 .. Len(log) : log'[i] = log[i]
    BY <1>2, <2>1, AppendProperties
  <2>4. Len(log') - accepted'[r] = k /\ k \in 0 .. Len(log) /\ k \in 0 .. Len(log')
    BY <1>2, <2>2, <2>3
  <2> HIDE DEF k
  <2>5. /\ SubSeq(log, 1, k) \in Seq(Entry) /\ Len(SubSeq(log, 1, k)) = k
        /\ \A i \in 1 .. k : SubSeq(log, 1, k)[i] = log[i]
    BY <1>2, <2>4, BeforeElements
  <2>6. /\ SubSeq(log', 1, k) \in Seq(Entry) /\ Len(SubSeq(log', 1, k)) = k
        /\ \A i \in 1 .. k : SubSeq(log', 1, k)[i] = log'[i]
    BY <2>3, <2>4, BeforeElements
  <2>7. \A i \in 1 .. k : SubSeq(log', 1, k)[i] = SubSeq(log, 1, k)[i]
    BY <1>2, <2>3, <2>4, <2>5, <2>6
  <2>8. SubSeq(log', 1, k) = SubSeq(log, 1, k)
    BY <2>5, <2>6, <2>7, SeqEqual
  <2> QED
    BY <1>3, <2>4, <2>8
<1> QED
  BY <1>4, <1>5

\* The answer is the step in which the batch takes effect.
LEMMA AnswerIngests ==
  ASSUME TypeInv, AcceptedIsLogged, BlocksInv, StoreHoldsTheNewest,
         NEW r \in Requests, Answer(r)
  PROVE  Ideal!Ingest(r)
<1> DEFINE before == SubSeq(log, 1, Len(log) - accepted[r])
<1>1. /\ pc[r] = "storing" /\ next[r] > Len(batch[r]) /\ lock = r /\ r # None
      /\ lock' = None /\ UNCHANGED <<events, log, batch, accepted, dropped>>
      /\ pc' = [pc EXCEPT ![r] = "stored"]
  BY IngestAssumption DEF Answer, BlocksInv, counters
<1>2. /\ accepted[r] = Cardinality(Complete(batch[r]))
      /\ dropped[r] = Len(batch[r]) - Cardinality(Complete(batch[r]))
      /\ log = before \o Ideal!Block(r)
  BY <1>1, BlockIsLast
<1>3. Ideal!Block(r) \in Seq(Entry) /\ before \in Seq(Entry)
  <2>1. log \in Seq(Entry) /\ Len(log) - accepted[r] \in 0 .. Len(log)
    BY HeldBack DEF TypeInv, TypeOK
  <2> QED
    BY <2>1, BlockElements, BeforeElements
<1>4. Ideal!Kept(r) = Complete(batch[r])
  BY DEF Ideal!Kept, Complete
<1>5. StoreBetweenBatches = Newest(before, Capacity)
  BY <1>1 DEF StoreBetweenBatches
<1> HIDE DEF before
<1>6. StoreBetweenBatches' = Newest(log, Capacity)
  BY <1>1, StoreIsNewest DEF StoreBetweenBatches
<1>7. StoreBetweenBatches' = Ideal!Newest(StoreBetweenBatches \o Ideal!Block(r), Capacity)
  <2>1. Newest(Newest(before, Capacity) \o Ideal!Block(r), Capacity) = Newest(before \o Ideal!Block(r), Capacity)
    BY <1>3, NewestOfConcat, IngestAssumption
  <2> QED
    BY <1>2, <1>5, <1>6, <2>1, SameNewest
<1>8. pc'[r] = "stored" /\ \A s \in Requests : s # r => UNCHANGED <<pc[s], accepted[s], dropped[s]>>
  BY <1>1 DEF TypeInv, TypeOK
<1>9. AnswerOf[r] = Ideal!Waiting /\ AnswerOf'[r] = Ideal!Stored(accepted[r], dropped[r])
  BY <1>1, <1>8, AnswerCases DEF AnswerOf, AnswerTo, Ideal!Stored
<1>10. AnswerOf' = [AnswerOf EXCEPT ![r] = AnswerOf'[r]]
  BY <1>8, AnswerChanges
<1> QED
  BY <1>1, <1>2, <1>4, <1>7, <1>9, <1>10, SameCardinality DEF Ideal!Ingest

\* A step that leaves the store, the batches and all answers alone is a stutter.
LEMMA StutterSteps ==
  ASSUME UNCHANGED <<StoreBetweenBatches, batch>>,
         \A r \in Requests : AnswerTo(r)' = AnswerTo(r)
  PROVE  UNCHANGED Ideal!vars
  BY DEF Ideal!vars, AnswerOf

\* Every step of the handlers is a step of the abstract store or none.
LEMMA NextRefines ==
  ASSUME TypeInv, AcceptedIsLogged, BlocksInv, StoreHoldsTheNewest, [Next]_vars
  PROVE  [Ideal!Next]_(Ideal!vars)
<1>1. ASSUME UNCHANGED <<events, lock, pc, batch, accepted, dropped, log>>
      PROVE  UNCHANGED Ideal!vars
  <2>1. UNCHANGED StoreBetweenBatches
    BY <1>1 DEF StoreBetweenBatches
  <2>2. \A r \in Requests : AnswerTo(r)' = AnswerTo(r)
    BY <1>1 DEF AnswerTo
  <2> QED
    BY <1>1, <2>1, <2>2, StutterSteps
<1>2. CASE Tick \/ Quiet \/ UNCHANGED vars
  BY <1>1, <1>2 DEF Tick, Quiet, vars, counters
<1>3. ASSUME NEW r \in Requests, NEW b \in Batches, Arrive(r, b)
      PROVE  Ideal!Arrive(r, b)
  <2>1. /\ UNCHANGED <<events, lock, accepted, dropped, log>>
        /\ pc' = [pc EXCEPT ![r] = IF Acceptable(b) THEN "limiter" ELSE "refused"]
        /\ pc[r] = "absent" /\ batch' = [batch EXCEPT ![r] = b]
    BY <1>3 DEF Arrive, counters
  <2>2. UNCHANGED StoreBetweenBatches
    BY <2>1 DEF StoreBetweenBatches
  <2>3. pc'[r] = (IF Acceptable(b) THEN "limiter" ELSE "refused") /\ \A s \in Requests : s # r => pc'[s] = pc[s]
    BY <2>1 DEF TypeInv, TypeOK
  <2>4. Acceptable(b) <=> Len(b) \in 1 .. MaxBatch
    <3>1. b \in Seq(Events) /\ MaxBatch \in Nat
      BY IngestAssumption
    <3>2. Len(b) \in Nat /\ (b = <<>> <=> Len(b) = 0)
      BY <3>1, EmptySeq
    <3> QED
      BY <3>1, <3>2 DEF Acceptable
  <2>5. AnswerOf'[r] = IF Len(b) \in 1 .. MaxBatch THEN Ideal!Waiting ELSE Ideal!Refused
    BY <2>3, <2>4 DEF AnswerOf, AnswerTo, Ideal!Waiting, Ideal!Refused
  <2>6. AnswerOf' = [AnswerOf EXCEPT ![r] = AnswerOf'[r]]
    BY <2>1, <2>3, AnswerChanges
  <2>7. AnswerOf[r] = Ideal!Absent
    BY <2>1, AnswerCases
  <2> QED
    BY <2>1, <2>2, <2>5, <2>6, <2>7 DEF Ideal!Arrive
<1>4. ASSUME NEW r \in Requests, Throttle(r)
      PROVE  Ideal!Refuse(r)
  <2>1. /\ UNCHANGED <<events, lock, batch, accepted, dropped, log>>
        /\ pc' = [pc EXCEPT ![r] = "refused"] /\ pc[r] = "limiter"
    BY <1>4 DEF Throttle, counters
  <2>2. UNCHANGED StoreBetweenBatches
    BY <2>1 DEF StoreBetweenBatches
  <2>3. pc'[r] = "refused" /\ \A s \in Requests : s # r => pc'[s] = pc[s]
    BY <2>1 DEF TypeInv, TypeOK
  <2>4. AnswerOf[r] = Ideal!Waiting /\ AnswerOf'[r] = Ideal!Refused
    BY <2>1, <2>3, AnswerCases DEF AnswerOf, AnswerTo, Ideal!Refused
  <2>5. AnswerOf' = [AnswerOf EXCEPT ![r] = AnswerOf'[r]]
    BY <2>1, <2>3, AnswerChanges
  <2> QED
    BY <2>1, <2>2, <2>4, <2>5 DEF Ideal!Refuse
<1>5. ASSUME NEW r \in Requests, UNCHANGED <<batch, StoreBetweenBatches>>,
             {pc[r], pc'[r]} \subseteq {"limiter", "admitted", "storing"},
             \A s \in Requests : s # r => UNCHANGED <<pc[s], accepted[s], dropped[s]>>
      PROVE  UNCHANGED Ideal!vars
  <2>1. \A s \in Requests : AnswerTo(s)' = AnswerTo(s)
    BY <1>5 DEF AnswerTo
  <2> QED
    BY <1>5, <2>1, StutterSteps
<1>6. ASSUME NEW r \in Requests, Admit(r)
      PROVE  UNCHANGED Ideal!vars
  <2>1. UNCHANGED <<events, lock, batch, accepted, dropped, log>> /\ pc[r] = "limiter" /\ pc' = [pc EXCEPT ![r] = "admitted"]
    BY <1>6 DEF Admit, counters
  <2>2. UNCHANGED StoreBetweenBatches
    BY <2>1 DEF StoreBetweenBatches
  <2> QED
    BY <1>5, <2>1, <2>2 DEF TypeInv, TypeOK
<1>7. ASSUME NEW r \in Requests, LockStore(r)
      PROVE  UNCHANGED Ideal!vars
  <2>1. UNCHANGED <<batch, accepted, dropped>> /\ pc[r] = "admitted" /\ pc' = [pc EXCEPT ![r] = "storing"]
    BY <1>7 DEF LockStore, counters
  <2>2. UNCHANGED StoreBetweenBatches
    BY <1>7, LockIsSilent
  <2> QED
    BY <1>5, <2>1, <2>2 DEF TypeInv, TypeOK
<1>8. ASSUME NEW r \in Requests, StoreEvent(r)
      PROVE  UNCHANGED Ideal!vars
  <2>1. pc[r] = "storing" /\ UNCHANGED <<pc, batch>>
    BY <1>8 DEF StoreEvent
  <2>2. \A s \in Requests : s # r => UNCHANGED <<pc[s], accepted[s], dropped[s]>>
    BY <1>8 DEF StoreEvent, TypeInv, TypeOK
  <2>3. UNCHANGED StoreBetweenBatches
    BY <1>8, LoopIsSilent
  <2> QED
    BY <1>5, <2>1, <2>2, <2>3
<1>9. ASSUME NEW r \in Requests, Answer(r)
      PROVE  Ideal!Ingest(r)
  BY <1>9, AnswerIngests
<1> QED
  BY <1>2, <1>3, <1>4, <1>6, <1>7, <1>8, <1>9 DEF Next, Step, Ideal!Next

\* For any requests, batches, capacity and window, and whatever the runtime's
\* order of polling, the endpoint behaves like a store that takes a batch in one
\* step and answers truthfully.
THEOREM RefinesBatchStore == Spec => ImplementsBatchStore
<1>1. TypeInv /\ AcceptedIsLogged /\ BlocksInv /\ StoreHoldsTheNewest /\ [Next]_vars
        => [Ideal!Next]_(Ideal!vars)
  BY NextRefines
<1> QED
  BY InitRefines, <1>1, TypeInvAlways, LoggedAlways, BlocksAlways, StoreKeepsTheNewest, PTL
  DEF Spec, ImplementsBatchStore, Ideal!Spec
=============================================================================
