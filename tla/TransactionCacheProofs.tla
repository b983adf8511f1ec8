------------------------ MODULE TransactionCacheProofs ------------------------
(***************************************************************************)
(* Machine-checked proofs about TransactionCache, for any sets of threads, *)
(* keys, values and times to live and any bound on the clock.              *)
(***************************************************************************)
EXTENDS TransactionCache, FiniteSetTheorems, TLAPS

(***************************************************************************)
(* The type invariant is inductive.                                        *)
(***************************************************************************)

\* TypeOK holds when the cache is created.
LEMMA InitTypeOK == Init => TypeOK
  BY CacheAssumption DEF Init, TypeOK, Stored

\* Every step of the cache keeps TypeOK.
LEMMA NextTypeOK == TypeOK /\ [Next]_vars => TypeOK'
<1> SUFFICES ASSUME TypeOK, [Next]_vars
             PROVE  TypeOK'
  OBVIOUS
<1> USE CacheAssumption DEF TypeOK, Stored, CacheEntry
<1>1. CASE Tick
  BY <1>1 DEF Tick
<1>2. ASSUME NEW t \in Threads, NEW k \in Keys, NEW v \in Values, NEW ttl \in Ttls,
             Insert(t, k, v, ttl)
      PROVE  TypeOK'
  BY <1>2 DEF Insert
<1>3. ASSUME NEW t \in Threads, NEW k \in Keys, GetHit(t, k)
      PROVE  TypeOK'
  BY <1>3 DEF GetHit
<1>4. ASSUME NEW t \in Threads, NEW k \in Keys, GetMiss(t, k)
      PROVE  TypeOK'
  BY <1>4 DEF GetMiss
<1>5. ASSUME NEW t \in Threads, GetRecheck(t)
      PROVE  TypeOK'
  BY <1>5 DEF GetRecheck, Idle
<1>6. ASSUME NEW t \in Threads, NEW k \in Keys, ContainsKey(t, k)
      PROVE  TypeOK'
  BY <1>6 DEF ContainsKey
<1>7. ASSUME NEW t \in Threads, NEW k \in Keys, Remove(t, k)
      PROVE  TypeOK'
  BY <1>7 DEF Remove
<1>8. ASSUME NEW t \in Threads, Clear(t)
      PROVE  TypeOK'
  BY <1>8 DEF Clear
<1>9. ASSUME NEW t \in Threads, EvictExpired(t)
      PROVE  TypeOK'
  BY <1>9 DEF EvictExpired, ClockReadings
<1>10. ASSUME NEW t \in Threads, Length(t)
       PROVE  TypeOK'
  BY <1>10 DEF Length
<1>11. ASSUME NEW t \in Threads, Stats(t)
       PROVE  TypeOK'
  BY <1>11 DEF Stats, ClockReadings
<1>12. CASE UNCHANGED vars
  BY <1>12 DEF vars
<1> QED
  BY <1>1, <1>2, <1>3, <1>4, <1>5, <1>6, <1>7, <1>8, <1>9, <1>10, <1>11, <1>12
  DEF Next

\* The cache never holds an ill-formed entry, nor one created in the future.
THEOREM TypeCorrect == Spec => []TypeOK
<1> QED
  BY InitTypeOK, NextTypeOK, PTL DEF Spec

(***************************************************************************)
(* TransactionCache implements TtlMap under the mapping LiveMap.           *)
(***************************************************************************)

\* The instance counts as this module does.
LEMMA SameCardinality == \A S : Ideal!Cardinality(S) = Cardinality(S)
  BY DEF Ideal!Cardinality, Cardinality, Ideal!IsFiniteSet, IsFiniteSet

\* Letting the clock move on takes from the live map what it crosses.
LEMMA LiveMapExpires ==
  ASSUME TypeOK, TypeOK', UNCHANGED cache, now' \in {now, now + 1}
  PROVE  LiveMap' = Ideal!Expire(LiveMap, now')
<1> USE CacheAssumption
<1>1. ASSUME NEW k \in Keys
      PROVE  LiveMap'[k] = Ideal!Expire(LiveMap, now')[k]
  BY <1>1 DEF LiveMap, Ideal!Expire, Live, IsExpired, TypeOK, CacheEntry, Stored
<1>2. LiveMap' = [k \in Keys |-> LiveMap'[k]]
  BY DEF LiveMap
<1>3. Ideal!Expire(LiveMap, now') = [k \in Keys |-> Ideal!Expire(LiveMap, now')[k]]
  BY DEF Ideal!Expire
<1> QED
  BY <1>1, <1>2, <1>3, Zenon

\* The keys of the live map are the keys whose entries are live.
LEMMA PresentIsLive ==
  TypeOK => Ideal!Present(LiveMap) = {k \in Keys : Live(k)}
<1> SUFFICES ASSUME TypeOK
             PROVE  Ideal!Present(LiveMap) = {k \in Keys : Live(k)}
  OBVIOUS
<1>1. ASSUME NEW k \in Keys, Live(k)
      PROVE  LiveMap[k] # Absent
  BY <1>1, CacheAssumption DEF LiveMap, Live, TypeOK, CacheEntry
<1>2. ASSUME NEW k \in Keys, ~Live(k)
      PROVE  LiveMap[k] = Absent
  BY <1>2 DEF LiveMap
<1> QED
  BY <1>1, <1>2 DEF Ideal!Present

\* An entry that is asked for its age while the clock stands between now and
\* now' counts as expired only if it is so at the end, and surely if it was so
\* at the beginning.
LEMMA ReadingsBracket ==
  ASSUME TypeOK, NEW at \in [Keys -> {now, now + 1}], ClockReadings(at)
  PROVE  /\ ExpiredAt(at) \subseteq {k \in Stored : IsExpired(cache[k], now')}
         /\ {k \in Stored : IsExpired(cache[k], now)} \subseteq ExpiredAt(at)
  BY CacheAssumption
  DEF TypeOK, ClockReadings, ExpiredAt, IsExpired, CacheEntry, Stored

\* The first state of the cache is that of an empty map.
LEMMA InitRefines == Init => Ideal!Init
  BY DEF Init, Ideal!Init, LiveMap, Live

\* Every step of the cache is a step of the ideal map, or leaves it alone.
LEMMA NextRefines ==
  ASSUME TypeOK, TypeOK', [Next]_vars
  PROVE  [Ideal!Next]_(Ideal!vars)
<1> USE CacheAssumption
<1>1. CASE Tick
  <2>1. LiveMap' = Ideal!Expire(LiveMap, now')
    BY <1>1, LiveMapExpires DEF Tick
  <2> QED
    BY <1>1, <2>1 DEF Tick, Ideal!Next, Ideal!Tick
<1>2. ASSUME NEW t \in Threads, NEW k \in Keys, NEW v \in Values, NEW ttl \in Ttls,
             Insert(t, k, v, ttl)
      PROVE  Ideal!Next
  <2>1. ~IsExpired([value |-> v, created_at |-> now, ttl |-> ttl], now)
    BY DEF IsExpired, TypeOK
  <2>2. cache'[k] = [value |-> v, created_at |-> now, ttl |-> ttl] /\ Live(k)'
    <3>1. [value |-> v, created_at |-> now, ttl |-> ttl] \in CacheEntry
      BY DEF TypeOK, CacheEntry
    <3> QED
      BY <1>2, <2>1, <3>1 DEF Insert, Live, TypeOK
  <2>3. ASSUME NEW j \in Keys, j # k
        PROVE  cache'[j] = cache[j] /\ (Live(j)' <=> Live(j))
    BY <1>2, <2>3 DEF Insert, Live, TypeOK
  <2>4. LiveMap' = [LiveMap EXCEPT ![k] = [value |-> v, deadline |-> now + ttl]]
    <3>1. LiveMap'[k] = [value |-> v, deadline |-> now + ttl]
      BY <2>2 DEF LiveMap
    <3>2. ASSUME NEW j \in Keys, j # k
          PROVE  LiveMap'[j] = LiveMap[j]
      BY <2>3, <3>2 DEF LiveMap
    <3> QED
      BY <3>1, <3>2 DEF LiveMap
  <2>5. LiveMap[k] # Absent => cache[k] # Absent
    BY DEF LiveMap, Live
  <2> QED
    BY <1>2, <2>4, <2>5 DEF Insert, Ideal!Next, Ideal!Insert
<1>3. ASSUME NEW t \in Threads, NEW k \in Keys, GetHit(t, k)
      PROVE  Ideal!Next
  <2>1. LiveMap[k] # Absent /\ LiveMap[k].value = cache[k].value
    BY <1>3, PresentIsLive DEF GetHit, LiveMap, Ideal!Present
  <2>2. LiveMap' = LiveMap
    BY <1>3 DEF GetHit, LiveMap, Live
  <2> QED
    BY <1>3, <2>1, <2>2 DEF GetHit, Ideal!Next, Ideal!Get
<1>4. ASSUME NEW t \in Threads, NEW k \in Keys, GetMiss(t, k)
      PROVE  UNCHANGED Ideal!vars
  BY <1>4 DEF GetMiss, LiveMap, Live, Ideal!vars
<1>5. ASSUME NEW t \in Threads, GetRecheck(t)
      PROVE  Ideal!Next
  <2> DEFINE k == gap[t]
  <2>1. k \in Keys
    BY <1>5 DEF GetRecheck, Idle, TypeOK
  <2>2. LiveMap[k] = IF Live(k) THEN [value |-> cache[k].value,
                                      deadline |-> cache[k].created_at + cache[k].ttl]
                                ELSE Absent
    BY <2>1 DEF LiveMap
  <2>3. Live(k) => LiveMap[k] # Absent
    BY <2>1, PresentIsLive DEF Ideal!Present
  <2>4. LiveMap' = LiveMap
    BY <1>5, <2>1 DEF GetRecheck, LiveMap, Live, TypeOK
  <2>5. Ideal!Get(k)
    BY <1>5, <2>2, <2>3, <2>4 DEF GetRecheck, Ideal!Get
  <2> QED
    BY <2>1, <2>5 DEF Ideal!Next
<1>6. ASSUME NEW t \in Threads, NEW k \in Keys, ContainsKey(t, k)
      PROVE  Ideal!Next
  <2>1. Live(k) <=> LiveMap[k] # Absent
    BY PresentIsLive DEF Ideal!Present
  <2>2. LiveMap' = LiveMap
    BY <1>6 DEF ContainsKey, LiveMap, Live
  <2>3. Live(k) = (LiveMap[k] # Absent)
    BY <2>1 DEF Live
  <2> QED
    BY <1>6, <2>2, <2>3, Zenon DEF ContainsKey, Ideal!Next, Ideal!ContainsKey
<1>7. ASSUME NEW t \in Threads, NEW k \in Keys, Remove(t, k)
      PROVE  Ideal!Next
  <2>1. LiveMap' = [LiveMap EXCEPT ![k] = Absent]
    BY <1>7 DEF Remove, LiveMap, Live, TypeOK
  <2>2. LiveMap[k] # Absent => cache[k] # Absent /\ LiveMap[k].value = cache[k].value
    BY DEF LiveMap, Live
  <2>3. PICK v \in Values \cup {Absent} :
          v = IF cache[k] = Absent THEN Absent ELSE cache[k].value
    BY DEF TypeOK, CacheEntry
  <2>4. LiveMap[k] # Absent => v = LiveMap[k].value
    BY <2>2, <2>3
  <2> QED
    BY <1>7, <2>1, <2>3, <2>4 DEF Remove, Ideal!Next, Ideal!Remove
<1>8. ASSUME NEW t \in Threads, Clear(t)
      PROVE  Ideal!Next
  <2>1. LiveMap' = [k \in Keys |-> Absent]
    BY <1>8 DEF Clear, LiveMap, Live
  <2> QED
    BY <1>8, <2>1 DEF Clear, Ideal!Next, Ideal!Clear
<1>9. ASSUME NEW t \in Threads, EvictExpired(t)
      PROVE  Ideal!Next
  <2>1. PICK at \in [Keys -> {now, now + 1}] :
          /\ ClockReadings(at)
          /\ cache' = [k \in Keys |-> IF k \in ExpiredAt(at) THEN Absent ELSE cache[k]]
          /\ reply' = [op |-> "evict_expired", removed |-> Cardinality(ExpiredAt(at))]
    BY <1>9 DEF EvictExpired
  <2>2. now' \in {now, now + 1}
    BY <2>1 DEF ClockReadings
  <2>3. LiveMap' = Ideal!Expire(LiveMap, now')
    <3>1. ASSUME NEW k \in Keys, cache'[k] # cache[k]
          PROVE  cache'[k] = Absent /\ cache[k] # Absent /\ IsExpired(cache[k], now')
      BY <2>1, <3>1, ReadingsBracket
    <3>2. ASSUME NEW k \in Keys
          PROVE  LiveMap'[k] = Ideal!Expire(LiveMap, now')[k]
      BY <2>2, <3>1 DEF LiveMap, Ideal!Expire, Live, IsExpired, TypeOK, CacheEntry, Stored
    <3> QED
      BY <3>2 DEF LiveMap, Ideal!Expire
  <2>4. Cardinality(ExpiredAt(at)) \in 0 .. Cardinality(Keys)
    BY FS_Subset, FS_CardinalityType DEF ExpiredAt, Stored
  <2> QED
    BY <2>1, <2>2, <2>3, <2>4, SameCardinality DEF Ideal!Next, Ideal!EvictExpired
<1>10. ASSUME NEW t \in Threads, Length(t)
       PROVE  Ideal!Next
  <2>1. LiveMap' = LiveMap
    BY <1>10 DEF Length, LiveMap, Live
  <2>2. {k \in Keys : Live(k)} \subseteq Stored /\ Stored \subseteq Keys
    BY DEF Live, Stored
  <2>3. Cardinality(Stored) \in Cardinality(Ideal!Present(LiveMap)) .. Cardinality(Keys)
    BY <2>2, PresentIsLive, FS_Subset, FS_CardinalityType
  <2> QED
    BY <1>10, <2>1, <2>3, SameCardinality DEF Length, Ideal!Next, Ideal!Length
<1>11. ASSUME NEW t \in Threads, Stats(t)
       PROVE  Ideal!Next
  <2>1. PICK at \in [Keys -> {now, now + 1}] :
          /\ ClockReadings(at)
          /\ reply' = [op |-> "stats", total |-> Cardinality(Stored),
                       expired |-> Cardinality(ExpiredAt(at)),
                       valid |-> Cardinality(Stored) - Cardinality(ExpiredAt(at))]
    BY <1>11 DEF Stats
  <2> DEFINE valid == Cardinality(Stored) - Cardinality(ExpiredAt(at))
             counted == Stored \ ExpiredAt(at)
  <2>2. now' \in {now, now + 1} /\ cache' = cache
    BY <1>11, <2>1 DEF ClockReadings, Stats
  <2>3. LiveMap' = Ideal!Expire(LiveMap, now')
    BY <2>2, LiveMapExpires
  <2>4. /\ ExpiredAt(at) \subseteq Stored /\ Stored \subseteq Keys
        /\ IsFiniteSet(Stored) /\ IsFiniteSet(counted)
        /\ Cardinality(ExpiredAt(at)) \in 0 .. Cardinality(Keys)
        /\ valid \in Nat /\ Cardinality(counted) = valid
        /\ Cardinality(Stored) = valid + Cardinality(ExpiredAt(at))
    <3>1. ExpiredAt(at) \subseteq Stored /\ Stored \subseteq Keys
      BY DEF ExpiredAt, Stored
    <3>2. IsFiniteSet(Stored) /\ IsFiniteSet(counted) /\ IsFiniteSet(ExpiredAt(at))
      BY <3>1, FS_Subset
    <3>3. Stored \cap ExpiredAt(at) = ExpiredAt(at)
      BY <3>1
    <3>4. Cardinality(counted) = Cardinality(Stored) - Cardinality(ExpiredAt(at))
      BY <3>2, <3>3, FS_Difference
    <3>5. /\ Cardinality(Stored) \in Nat /\ Cardinality(counted) \in Nat
          /\ Cardinality(ExpiredAt(at)) \in Nat /\ Cardinality(Keys) \in Nat
      BY <3>2, FS_CardinalityType
    <3>6. Cardinality(ExpiredAt(at)) <= Cardinality(Keys)
      BY <3>1, FS_Subset
    <3> QED
      BY <3>1, <3>2, <3>4, <3>5, <3>6
  <2>5. Ideal!Present(LiveMap)' \subseteq counted
    <3>1. (TypeOK => Ideal!Present(LiveMap) = {k \in Keys : Live(k)})'
      BY PresentIsLive, PTL
    <3>2. Ideal!Present(LiveMap)' = {k \in Keys : Live(k)'}
      BY <3>1
    <3> QED
      BY <2>1, <2>2, <3>2, ReadingsBracket DEF Live, Stored
  <2>6. counted \subseteq Ideal!Present(LiveMap)
    BY <2>1, ReadingsBracket, PresentIsLive DEF Live, Stored
  <2>7. valid \in Cardinality(Ideal!Present(LiveMap)') .. Cardinality(Ideal!Present(LiveMap))
    <3>1. IsFiniteSet(Ideal!Present(LiveMap))
      BY FS_Subset DEF Ideal!Present
    <3>2. IsFiniteSet(Ideal!Present(LiveMap)')
      BY <2>4, <2>5, FS_Subset
    <3>3. /\ Cardinality(Ideal!Present(LiveMap)') <= Cardinality(counted)
          /\ Cardinality(counted) <= Cardinality(Ideal!Present(LiveMap))
      BY <2>4, <2>5, <2>6, <3>1, FS_Subset
    <3>4. /\ Cardinality(Ideal!Present(LiveMap)') \in Nat
          /\ Cardinality(Ideal!Present(LiveMap)) \in Nat
      BY <3>1, <3>2, FS_CardinalityType
    <3> QED
      BY <2>4, <3>3, <3>4
  <2> QED
    BY <2>1, <2>2, <2>3, <2>4, <2>7, SameCardinality DEF Ideal!Next, Ideal!Stats
<1>12. CASE UNCHANGED vars
  BY <1>12 DEF vars, Ideal!vars, LiveMap, Live
<1> QED
  BY <1>1, <1>2, <1>3, <1>4, <1>5, <1>6, <1>7, <1>8, <1>9, <1>10, <1>11, <1>12
  DEF Next

\* Whatever the threads do, and wherever they are between the two locks of a
\* get, their callers see a map whose entries vanish at their deadline.
THEOREM RefinesTtlMap == Spec => ImplementsTtlMap
<1>1. TypeOK /\ TypeOK' /\ [Next]_vars => [Ideal!Next]_(Ideal!vars)
  BY NextRefines
<1> QED
  BY InitRefines, <1>1, TypeCorrect, PTL DEF Spec, ImplementsTtlMap, Ideal!Spec

(***************************************************************************)
(* Live entries are kept.                                                  *)
(***************************************************************************)

\* Whatever step empties a slot other than a remove or a clear has read the age
\* of the entry, and found it expired by the time the step ends.
LEMMA NextKeepsLiveEntries ==
  ASSUME TypeOK, [Next]_vars,
         NEW k \in Keys, cache[k] # Absent, cache'[k] = Absent,
         ~IsExpired(cache[k], now')
  PROVE  \/ reply'.op = "remove" /\ reply'.key = k
         \/ reply'.op = "clear"
<1> USE CacheAssumption
<1>1. CASE Tick
  BY <1>1 DEF Tick
<1>2. ASSUME NEW t \in Threads, NEW j \in Keys, NEW v \in Values, NEW ttl \in Ttls,
             Insert(t, j, v, ttl)
      PROVE  FALSE
  <2>1. [value |-> v, created_at |-> now, ttl |-> ttl] \in CacheEntry
    BY DEF TypeOK, CacheEntry
  <2> QED
    BY <1>2, <2>1 DEF Insert, TypeOK
<1>3. ASSUME NEW t \in Threads, NEW j \in Keys,
             GetHit(t, j) \/ GetMiss(t, j) \/ ContainsKey(t, j)
      PROVE  FALSE
  BY <1>3 DEF GetHit, GetMiss, ContainsKey
<1>4. ASSUME NEW t \in Threads, GetRecheck(t)
      PROVE  FALSE
  BY <1>4 DEF GetRecheck, TypeOK, Live, IsExpired
<1>5. ASSUME NEW t \in Threads, NEW j \in Keys, Remove(t, j)
      PROVE  reply'.op = "remove" /\ reply'.key = k
  BY <1>5 DEF Remove, TypeOK
<1>6. ASSUME NEW t \in Threads, Clear(t)
      PROVE  reply'.op = "clear"
  BY <1>6 DEF Clear
<1>7. ASSUME NEW t \in Threads, EvictExpired(t)
      PROVE  FALSE
  <2>1. PICK at \in [Keys -> {now, now + 1}] :
          /\ ClockReadings(at)
          /\ cache' = [j \in Keys |-> IF j \in ExpiredAt(at) THEN Absent ELSE cache[j]]
    BY <1>7 DEF EvictExpired
  <2> QED
    BY <2>1, ReadingsBracket
<1>8. ASSUME NEW t \in Threads, Length(t) \/ Stats(t)
      PROVE  FALSE
  BY <1>8 DEF Length, Stats
<1>9. CASE UNCHANGED vars
  BY <1>9 DEF vars
<1> QED
  BY <1>1, <1>2, <1>3, <1>4, <1>5, <1>6, <1>7, <1>8, <1>9 DEF Next

\* No get and no garbage collection, whenever it runs, takes away a live entry.
THEOREM KeepsLiveEntries == Spec => LiveEntriesAreKept
<1> DEFINE Kept == \A k \in Keys :
                     /\ cache[k] # Absent
                     /\ ~IsExpired(cache[k], now')
                     /\ cache'[k] = Absent
                     => \/ reply'.op = "remove" /\ reply'.key = k
                        \/ reply'.op = "clear"
<1>1. TypeOK /\ [Next]_vars => [Kept]_vars
  BY NextKeepsLiveEntries
<1> QED
  BY <1>1, TypeCorrect, PTL DEF Spec, LiveEntriesAreKept
=============================================================================
