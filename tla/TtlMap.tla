-------------------------------- MODULE TtlMap --------------------------------
(***************************************************************************)
(* What a time-to-live cache promises its callers: a map from keys to      *)
(* values in which an entry simply ceases to exist once its time to live   *)
(* has passed.  There are no locks, no threads and no lazily deleted       *)
(* entries here; TransactionCache is shown to implement this module.       *)
(*                                                                         *)
(* Every operation is one step, which leaves its result in `reply'.        *)
(***************************************************************************)
EXTENDS Naturals, FiniteSets

CONSTANTS
  Keys,      \* cache keys: a transaction hash together with its network
  Values,    \* cached values
  Ttls,      \* times to live that callers ask for
  Absent     \* stands for "no entry" and for Rust's None

VARIABLES
  now,       \* the clock
  map,       \* map[k] is a live entry, or Absent
  reply      \* the result of the latest operation

vars == <<now, map, reply>>

LiveEntry == [value : Values, deadline : Nat]

\* The map as it is left when the clock reads t.
Expire(m, t) ==
  [k \in Keys |-> IF m[k] # Absent /\ m[k].deadline < t THEN Absent ELSE m[k]]

Present(m) == {k \in Keys : m[k] # Absent}

-----------------------------------------------------------------------------

Init ==
  /\ now = 0
  /\ map = [k \in Keys |-> Absent]
  /\ reply = [op |-> "none"]

\* Time passes, and takes the entries whose deadline it crosses.
Tick ==
  /\ now' = now + 1
  /\ map' = Expire(map, now + 1)
  /\ UNCHANGED reply

\* The caller is told "not new" whenever it replaces a live entry; after an
\* entry has expired it may be told either.
Insert(k, v, ttl) ==
  /\ map' = [map EXCEPT ![k] = [value |-> v, deadline |-> now + ttl]]
  /\ \E new \in BOOLEAN :
       /\ map[k] # Absent => ~new
       /\ reply' = [op |-> "insert", new |-> new]
  /\ UNCHANGED now

\* Exactly the live value, or nothing.
Get(k) ==
  /\ reply' = [op |-> "get", key |-> k,
               value |-> IF map[k] = Absent THEN Absent ELSE map[k].value]
  /\ UNCHANGED <<now, map>>

ContainsKey(k) ==
  /\ reply' = [op |-> "contains_key", key |-> k, found |-> map[k] # Absent]
  /\ UNCHANGED <<now, map>>

\* A live value that is removed is handed back; an expired one may be.
Remove(k) ==
  /\ map' = [map EXCEPT ![k] = Absent]
  /\ \E v \in Values \cup {Absent} :
       /\ map[k] # Absent => v = map[k].value
       /\ reply' = [op |-> "remove", key |-> k, value |-> v]
  /\ UNCHANGED now

Clear ==
  /\ map' = [k \in Keys |-> Absent]
  /\ reply' = [op |-> "clear"]
  /\ UNCHANGED now

\* Garbage collection frees memory and changes nothing a caller can look up.
\* It takes time: entries may reach their deadline while it runs.
EvictExpired ==
  /\ now' \in {now, now + 1}
  /\ map' = Expire(map, now')
  /\ \E n \in 0 .. Cardinality(Keys) : reply' = [op |-> "evict_expired", removed |-> n]

\* A length includes at least the live entries.
Length ==
  /\ \E n \in Cardinality(Present(map)) .. Cardinality(Keys) :
       reply' = [op |-> "len", total |-> n]
  /\ UNCHANGED <<now, map>>

\* The statistics too take time.  The number of valid entries they report lies
\* between the entries alive when they end and those alive when they begin.
Stats ==
  /\ now' \in {now, now + 1}
  /\ map' = Expire(map, now')
  /\ \E valid \in Cardinality(Present(map')) .. Cardinality(Present(map)),
        expired \in 0 .. Cardinality(Keys) :
       reply' = [op |-> "stats", total |-> valid + expired,
                 expired |-> expired, valid |-> valid]

Next ==
  \/ Tick
  \/ \E k \in Keys :
       \/ \E v \in Values, ttl \in Ttls : Insert(k, v, ttl)
       \/ Get(k)
       \/ ContainsKey(k)
       \/ Remove(k)
  \/ Clear
  \/ EvictExpired
  \/ Length
  \/ Stats

Spec == Init /\ [][Next]_vars
=============================================================================
