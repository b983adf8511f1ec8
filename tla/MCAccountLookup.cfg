CONSTANTS
  Requests = {r1, r2, r3}
  Domains = {d1}
  OrgNames = {o1}
  Ttl = 3
  Timeout = 2
  None = None
  NotYet = NotYet
  Absent = Absent
SPECIFICATION FairSpec
INVARIANT TypeOK
INVARIANT CacheIsHonest
INVARIANT LookupNeverFailsRequest
PROPERTY AnswersAreRecent
PROPERTY LookupEnds
