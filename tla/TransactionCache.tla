--------------------------- MODULE TransactionCache ---------------------------
(***************************************************************************)
(* The backend's in-memory cache of transaction explanations               *)
(* (packages/core/src/services/transaction_cache.rs): a HashMap behind an  *)
(* RwLock, shared by clones of the handle.  Expired entries stay in the    *)
(* map until somebody deletes them.                                        *)
(*                                                                         *)
(* Every critical section is one step, except that `get' has two of them:  *)
(* it looks under the read lock, releases it, and looks again under the    *)
(* write lock when the first look found nothing usable.  Any other thread  *)
(* may act in the gap.  evict_expired and stats read the clock once per    *)
(* entry, so the clock may move while they hold the lock.                  *)
(***************************************************************************)
EXTENDS Naturals, FiniteSets

CONSTANTS
  Threads,   \* callers that share the cache
  Keys,      \* CacheKey: transaction hash and network
  Values,    \* cached explanations
  Ttls,      \* times to live passed to insert_with_ttl; default_ttl is one
  Absent,    \* None
  MaxTime    \* bound on the clock

CacheEntry == [value : Values, created_at : Nat, ttl : Ttls]

ASSUME CacheAssumption ==
  /\ IsFiniteSet(Keys)
  /\ Absent \notin Values \cup CacheEntry \cup [value : Values, deadline : Nat]
  /\ Ttls \subseteq Nat
  /\ MaxTime \in Nat

VARIABLES
  cache,     \* the HashMap: cache[k] is a CacheEntry or Absent
  now,       \* Instant::now()
  gap,       \* gap[t] is the key t's `get' missed under the read lock, or Absent
  reply      \* the result returned by the latest completed call

vars == <<cache, now, gap, reply>>

\* Mutant: an entry expires as soon as its age reaches its ttl.
IsExpiredEarly(e, t) == t - e.created_at >= e.ttl

\* CacheEntry::is_expired at instant t: strictly older than its ttl.
IsExpired(e, t) == t - e.created_at > e.ttl

Stored == {k \in Keys : cache[k] # Absent}

Live(k) == cache[k] # Absent /\ ~IsExpired(cache[k], now)

\* A thread that is not between the two locks of a `get'.
Idle(t) == gap[t] = Absent

-----------------------------------------------------------------------------

Init ==
  /\ cache = [k \in Keys |-> Absent]
  /\ now = 0
  /\ gap = [t \in Threads |-> Absent]
  /\ reply = [op |-> "none"]

Tick ==
  /\ now < MaxTime
  /\ now' = now + 1
  /\ UNCHANGED <<cache, gap, reply>>

\* Mutant: the creation stamp is taken before waiting for the lock, and wrongly
\* rounded up.
InsertStampedLate(t, k, v, ttl) ==
  /\ Idle(t)
  /\ cache' = [cache EXCEPT ![k] = [value |-> v, created_at |-> now + 1, ttl |-> ttl]]
  /\ reply' = [op |-> "insert", new |-> cache[k] = Absent]
  /\ UNCHANGED <<now, gap>>

\* insert and insert_with_ttl
Insert(t, k, v, ttl) ==
  /\ Idle(t)
  /\ cache' = [cache EXCEPT ![k] = [value |-> v, created_at |-> now, ttl |-> ttl]]
  /\ reply' = [op |-> "insert", new |-> cache[k] = Absent]
  /\ UNCHANGED <<now, gap>>

\* get, under the read lock: a live entry is returned at once.
GetHit(t, k) ==
  /\ Idle(t)
  /\ Live(k)
  /\ reply' = [op |-> "get", key |-> k, value |-> cache[k].value]
  /\ UNCHANGED <<cache, now, gap>>

\* get, under the read lock: nothing usable, so the lock is dropped ...
GetMiss(t, k) ==
  /\ Idle(t)
  /\ ~Live(k)
  /\ gap' = [gap EXCEPT ![t] = k]
  /\ UNCHANGED <<cache, now, reply>>

\* Mutant: the second look trusts the first and deletes whatever it finds.
GetRecheckBlind(t) ==
  /\ ~Idle(t)
  /\ cache' = [cache EXCEPT ![gap[t]] = Absent]
  /\ reply' = [op |-> "get", key |-> gap[t], value |-> Absent]
  /\ gap' = [gap EXCEPT ![t] = Absent]
  /\ UNCHANGED now

\* ... and get looks again under the write lock: it deletes an entry that is
\* expired now, and returns one that was inserted meanwhile.
GetRecheck(t) ==
  /\ ~Idle(t)
  /\ LET k == gap[t] IN
       /\ cache' = [cache EXCEPT ![k] = IF Live(k) THEN @ ELSE Absent]
       /\ reply' = [op |-> "get", key |-> k,
                    value |-> IF Live(k) THEN cache[k].value ELSE Absent]
  /\ gap' = [gap EXCEPT ![t] = Absent]
  /\ UNCHANGED now

ContainsKey(t, k) ==
  /\ Idle(t)
  /\ reply' = [op |-> "contains_key", key |-> k, found |-> Live(k)]
  /\ UNCHANGED <<cache, now, gap>>

\* remove hands back the stored value without looking at its age.
Remove(t, k) ==
  /\ Idle(t)
  /\ cache' = [cache EXCEPT ![k] = Absent]
  /\ reply' = [op |-> "remove", key |-> k,
               value |-> IF cache[k] = Absent THEN Absent ELSE cache[k].value]
  /\ UNCHANGED <<now, gap>>

Clear(t) ==
  /\ Idle(t)
  /\ cache' = [k \in Keys |-> Absent]
  /\ reply' = [op |-> "clear"]
  /\ UNCHANGED <<now, gap>>

\* The clock while one critical section lasts, and the instants at which that
\* section asks each entry whether it has expired.
ClockReadings(at) ==
  /\ now' \in {now, now + 1}
  /\ now' <= MaxTime
  /\ at \in [Keys -> {now, now'}]

ExpiredAt(at) == {k \in Stored : IsExpired(cache[k], at[k])}

EvictExpired(t) ==
  /\ Idle(t)
  /\ \E at \in [Keys -> {now, now + 1}] :
       /\ ClockReadings(at)
       /\ cache' = [k \in Keys |-> IF k \in ExpiredAt(at) THEN Absent ELSE cache[k]]
       /\ reply' = [op |-> "evict_expired", removed |-> Cardinality(ExpiredAt(at))]
  /\ UNCHANGED gap

\* len; is_empty is len = 0
Length(t) ==
  /\ Idle(t)
  /\ reply' = [op |-> "len", total |-> Cardinality(Stored)]
  /\ UNCHANGED <<cache, now, gap>>

Stats(t) ==
  /\ Idle(t)
  /\ \E at \in [Keys -> {now, now + 1}] :
       /\ ClockReadings(at)
       /\ LET expired == Cardinality(ExpiredAt(at)) IN
            reply' = [op |-> "stats", total |-> Cardinality(Stored),
                      expired |-> expired, valid |-> Cardinality(Stored) - expired]
  /\ UNCHANGED <<cache, gap>>

Next ==
  \/ Tick
  \/ \E t \in Threads :
       \/ \E k \in Keys :
            \/ \E v \in Values, ttl \in Ttls : Insert(t, k, v, ttl)
            \/ GetHit(t, k)
            \/ GetMiss(t, k)
            \/ ContainsKey(t, k)
            \/ Remove(t, k)
       \/ GetRecheck(t)
       \/ Clear(t)
       \/ EvictExpired(t)
       \/ Length(t)
       \/ Stats(t)

Spec == Init /\ [][Next]_vars

-----------------------------------------------------------------------------
(* Properties *)

\* Type invariant of the cache, its clock and its callers.
TypeOK ==
  /\ cache \in [Keys -> CacheEntry \cup {Absent}]
  /\ now \in 0 .. MaxTime
  /\ gap \in [Threads -> Keys \cup {Absent}]
  /\ \A k \in Stored : cache[k].created_at <= now

\* The map callers may rely on: the stored entries that have not expired.
LiveMap ==
  [k \in Keys |->
     IF Live(k) THEN [value |-> cache[k].value,
                      deadline |-> cache[k].created_at + cache[k].ttl]
                ELSE Absent]

\* The lazily cleaned HashMap with its two-phase get behaves, for every caller,
\* like a map whose entries vanish at their deadline: get and contains_key never
\* see an expired entry, an entry refreshed in the gap of a get is neither
\* deleted nor missed, and garbage collection cannot be observed by a lookup.
Ideal == INSTANCE TtlMap WITH map <- LiveMap

ImplementsTtlMap == Ideal!Spec

\* Only a caller who asks for it deletes a live entry: no get, however late its
\* second look, and no garbage collection takes away an entry that is still
\* within its time to live when the step ends.
LiveEntriesAreKept ==
  [][\A k \in Keys :
       /\ cache[k] # Absent
       /\ ~IsExpired(cache[k], now')
       /\ cache'[k] = Absent
       => \/ reply'.op = "remove" /\ reply'.key = k
          \/ reply'.op = "clear"]_vars
=============================================================================
