CONSTANTS
  Threads = {t1, t2}
  Keys = {k1, k2}
  Values = {v1, v2}
  Absent = Absent
  Ttls <- MCTtls
  MaxTime = 3
SPECIFICATION Spec
INVARIANT TypeOK
PROPERTY ImplementsTtlMap
PROPERTY LiveEntriesAreKept
