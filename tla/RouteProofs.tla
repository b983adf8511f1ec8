------------------------------ MODULE RouteProofs ------------------------------
(***************************************************************************)
(* Machine-checked proofs about the handlers of routes/account.rs, tx.rs   *)
(* and analytics.rs: about AccountLookup, for any sets of requests,        *)
(* domains and names, any life of a cache entry and any time limit; and    *)
(* about Queries, which shares no state with it, for any history, limits   *)
(* and orders, any transactions and any instant.                           *)
(***************************************************************************)
EXTENDS AccountLookup, Queries, FiniteSetTheorems, FunctionTheorems, SequenceTheorems,
        WellFoundedInduction, TLAPS

(***************************************************************************)
(* The type invariant is inductive.                                        *)
(***************************************************************************)

\* TypeOK holds when the server starts.
LEMMA InitTypeOK == Init => TypeOK
  BY LookupAssumption DEF Init, TypeOK, NoReply, MaxStale, Published

\* Every step of the server, and of what surrounds it, keeps TypeOK.
LEMMA NextTypeOK == TypeOK /\ [Next]_vars => TypeOK'
<1> SUFFICES ASSUME TypeOK, [Next]_vars
             PROVE  TypeOK'
  OBVIOUS
<1> USE LookupAssumption DEF TypeOK
<1>0. None \in Published
  BY DEF Published
<1>1. ASSUME NEW d \in Domains, NEW o \in Published, Publish(d, o)
      PROVE  TypeOK'
  BY <1>1 DEF Publish, MaxStale
<1>2. CASE Tick
  <2>1. toml_cache' \in [Domains -> CacheEntry \cup {Absent}]
    BY <1>2 DEF Tick, Older, Smaller, CacheEntry
  <2>2. lastSeen' \in [Domains -> [Published -> 0 .. MaxStale + 1]]
    BY <1>2 DEF Tick, Smaller, MaxStale
  <2>3. elapsed' \in [Requests -> 0 .. Timeout]
    BY <1>2 DEF Tick
  <2> QED
    BY <1>2, <2>1, <2>2, <2>3 DEF Tick
<1>3. ASSUME NEW r \in Requests, Arrive(r)
      PROVE  TypeOK'
  BY <1>3 DEF Arrive
<1>4. ASSUME NEW r \in Requests, NEW status \in {404, 502}, AccountFails(r, status)
      PROVE  TypeOK'
  BY <1>0, <1>4 DEF AccountFails, Respond
<1>5. ASSUME NEW r \in Requests, NEW d \in Domains \cup {None}, AccountFound(r, d)
      PROVE  TypeOK'
  <2>1. CASE d = None
    <3>1. /\ reply' = [reply EXCEPT ![r] = [status |-> 200, org |-> None, known |-> FALSE]]
          /\ phase' = [phase EXCEPT ![r] = "done"]
      BY <1>5, <2>1 DEF AccountFound, Respond
    <3>2. [status |-> 200, org |-> None, known |-> FALSE]
            \in [status : {0, 200, 404, 502}, org : Published, known : BOOLEAN]
      BY <1>0
    <3> QED
      BY <1>5, <3>1, <3>2 DEF AccountFound
  <2>2. CASE d # None
    BY <1>5, <2>2 DEF AccountFound
  <2> QED
    BY <2>1, <2>2
<1>6. ASSUME NEW r \in Requests, CacheHit(r)
      PROVE  TypeOK'
  BY <1>6 DEF CacheHit, Fresh, Respond, CacheEntry
<1>7. ASSUME NEW r \in Requests, CacheMiss(r)
      PROVE  TypeOK'
  BY <1>7 DEF CacheMiss
<1>8. ASSUME NEW r \in Requests, Serve(r)
      PROVE  TypeOK'
  BY <1>8 DEF Serve
<1>9. ASSUME NEW r \in Requests, FetchFails(r)
      PROVE  TypeOK'
  BY <1>0, <1>9 DEF FetchFails, Respond
<1>10. ASSUME NEW r \in Requests, Deliver(r)
       PROVE  TypeOK'
  BY <1>10 DEF Deliver, Respond, CacheEntry
<1>11. CASE UNCHANGED vars
  BY <1>11 DEF vars
<1> QED
  BY <1>1, <1>2, <1>3, <1>4, <1>5, <1>6, <1>7, <1>8, <1>9, <1>10, <1>11
  DEF Next, Internal, TimesOut

\* No request looks a name up without a domain, waits past its time limit or
\* answers with a status the handler does not know.
THEOREM LookupTypeCorrect == Spec => []TypeOK
<1> QED
  BY InitTypeOK, NextTypeOK, PTL DEF Spec

(***************************************************************************)
(* Answers are recent.                                                     *)
(*                                                                         *)
(* CacheIsHonest is not inductive: what a request is about to store is     *)
(* known to be recent only because it was read after the GET was sent.     *)
(***************************************************************************)

\* What a domain publishes now was published zero ticks ago.
SiteIsCurrent == \A d \in Domains : lastSeen[d][site[d]] = 0

\* An answer that is under way is no older than its GET.
AnswersFollowTheGet ==
  \A r \in Requests :
    served[r] # NotYet
      => /\ phase[r] \in {"fetch", "done"}
         /\ phase[r] = "fetch" => lastSeen[domain[r]][served[r]] <= elapsed[r]

HonestInv == TypeOK /\ SiteIsCurrent /\ AnswersFollowTheGet /\ CacheIsHonest

\* The strengthened invariant holds when the server starts.
LEMMA InitHonest == Init => HonestInv
  BY InitTypeOK
  DEF Init, HonestInv, SiteIsCurrent, AnswersFollowTheGet, CacheIsHonest, Fresh

\* A tick makes a name at most one tick older.
LEMMA TickAges ==
  ASSUME TypeOK, Tick, NEW d \in Domains, NEW o \in Published
  PROVE  /\ lastSeen'[d][o] <= lastSeen[d][o] + 1
         /\ o = site[d] => lastSeen'[d][o] = 0
  BY LookupAssumption DEF TypeOK, Tick, Smaller, MaxStale

\* Every step keeps the strengthened invariant.
LEMMA NextHonest == HonestInv /\ [Next]_vars => HonestInv'
<1> SUFFICES ASSUME HonestInv, [Next]_vars
             PROVE  SiteIsCurrent' /\ AnswersFollowTheGet' /\ CacheIsHonest'
  BY NextTypeOK DEF HonestInv
<1>1. TypeOK /\ SiteIsCurrent /\ AnswersFollowTheGet /\ CacheIsHonest /\ TypeOK'
  BY NextTypeOK DEF HonestInv
<1> USE LookupAssumption
<1>2. ASSUME NEW d \in Domains, NEW o \in Published, Publish(d, o)
      PROVE  SiteIsCurrent' /\ AnswersFollowTheGet' /\ CacheIsHonest'
  <2>1. ASSUME NEW e \in Domains, NEW p \in Published
        PROVE  lastSeen'[e][p] <= lastSeen[e][p]
    BY <1>1, <1>2 DEF Publish, TypeOK, MaxStale
  <2>2. SiteIsCurrent'
    BY <1>1, <1>2 DEF Publish, TypeOK, SiteIsCurrent
  <2>3. AnswersFollowTheGet'
    <3> SUFFICES ASSUME NEW r \in Requests, served[r] # NotYet, phase[r] = "fetch"
                 PROVE  lastSeen'[domain[r]][served[r]] <= elapsed[r]
      BY <1>1, <1>2 DEF Publish, AnswersFollowTheGet
    <3>1. domain[r] \in Domains /\ served[r] \in Published
      BY <1>1 DEF TypeOK
    <3> QED
      BY <1>1, <2>1, <3>1 DEF AnswersFollowTheGet, TypeOK, MaxStale
  <2>4. CacheIsHonest'
    <3> SUFFICES ASSUME NEW e \in Domains, Fresh(e)
                 PROVE  lastSeen'[e][toml_cache[e].org] <= toml_cache[e].age + Timeout
      BY <1>2 DEF Publish, CacheIsHonest, Fresh
    <3>1. toml_cache[e].org \in Published /\ toml_cache[e].age \in Nat
      BY <1>1 DEF TypeOK, Fresh, CacheEntry
    <3> QED
      BY <1>1, <2>1, <3>1 DEF CacheIsHonest, TypeOK, MaxStale
  <2> QED
    BY <2>2, <2>3, <2>4
<1>3. CASE Tick
  <2>1. SiteIsCurrent'
    BY <1>1, <1>3, TickAges DEF Tick, TypeOK, SiteIsCurrent
  <2>2. AnswersFollowTheGet'
    <3> SUFFICES ASSUME NEW r \in Requests, served[r] # NotYet, phase[r] = "fetch"
                 PROVE  lastSeen'[domain[r]][served[r]] <= elapsed[r] + 1
      BY <1>1, <1>3 DEF Tick, AnswersFollowTheGet
    <3>1. domain[r] \in Domains /\ served[r] \in Published
      BY <1>1 DEF TypeOK
    <3>2. lastSeen[domain[r]][served[r]] \in Nat /\ elapsed[r] \in Nat
      BY <1>1, <3>1 DEF TypeOK, MaxStale
    <3>3. lastSeen'[domain[r]][served[r]] \in Nat
      BY <1>1, <1>3, <3>1 DEF TypeOK, MaxStale, Tick
    <3> QED
      BY <1>1, <1>3, <3>1, <3>2, <3>3, TickAges DEF AnswersFollowTheGet
  <2>3. CacheIsHonest'
    <3> SUFFICES ASSUME NEW d \in Domains, Fresh(d)'
                 PROVE  lastSeen'[d][toml_cache'[d].org] <= toml_cache'[d].age + Timeout
      BY DEF CacheIsHonest
    <3>1. /\ Fresh(d)
          /\ toml_cache'[d].org = toml_cache[d].org
          /\ toml_cache'[d].age = toml_cache[d].age + 1
      BY <1>1, <1>3 DEF Tick, Fresh, Older, Smaller, TypeOK, CacheEntry
    <3>2. toml_cache[d].org \in Published /\ toml_cache[d].age \in Nat
      BY <1>1, <3>1 DEF TypeOK, Fresh, CacheEntry
    <3>3. lastSeen[d][toml_cache[d].org] \in Nat /\ lastSeen'[d][toml_cache[d].org] \in Nat
      BY <1>1, <3>2 DEF TypeOK, MaxStale
    <3> QED
      BY <1>1, <1>3, <3>1, <3>2, <3>3, TickAges DEF CacheIsHonest
  <2> QED
    BY <2>1, <2>2, <2>3
<1>4. ASSUME NEW r \in Requests,
             \/ Arrive(r)
             \/ \E status \in {404, 502} : AccountFails(r, status)
             \/ \E d \in Domains \cup {None} : AccountFound(r, d)
             \/ CacheHit(r)
             \/ FetchFails(r)
      PROVE  SiteIsCurrent' /\ AnswersFollowTheGet' /\ CacheIsHonest'
  <2>1. UNCHANGED <<site, lastSeen, toml_cache, elapsed, served>>
    BY <1>4 DEF Arrive, AccountFails, AccountFound, CacheHit, FetchFails
  <2>2. ASSUME NEW s \in Requests, served[s] # NotYet
        PROVE  phase'[s] \in {phase[s], "done"} /\ domain'[s] = domain[s]
    BY <1>1, <1>4, <2>2
    DEF Arrive, AccountFails, AccountFound, CacheHit, FetchFails, Respond,
        TypeOK, AnswersFollowTheGet
  <2> QED
    BY <1>1, <2>1, <2>2 DEF SiteIsCurrent, AnswersFollowTheGet, CacheIsHonest, Fresh
<1>5. ASSUME NEW r \in Requests, CacheMiss(r)
      PROVE  SiteIsCurrent' /\ AnswersFollowTheGet' /\ CacheIsHonest'
  BY <1>1, <1>5
  DEF CacheMiss, TypeOK, SiteIsCurrent, AnswersFollowTheGet, CacheIsHonest, Fresh
<1>6. ASSUME NEW r \in Requests, Serve(r)
      PROVE  SiteIsCurrent' /\ AnswersFollowTheGet' /\ CacheIsHonest'
  BY <1>1, <1>6
  DEF Serve, TypeOK, SiteIsCurrent, AnswersFollowTheGet, CacheIsHonest, Fresh
<1>7. ASSUME NEW r \in Requests, Deliver(r)
      PROVE  SiteIsCurrent' /\ AnswersFollowTheGet' /\ CacheIsHonest'
  <2>1. lastSeen[domain[r]][served[r]] <= elapsed[r] /\ elapsed[r] \in 0 .. Timeout
    BY <1>1, <1>7 DEF Deliver, AnswersFollowTheGet, TypeOK
  <2>2. domain[r] \in Domains /\ served[r] \in Published
    BY <1>1, <1>7 DEF Deliver, TypeOK
  <2>3. lastSeen[domain[r]][served[r]] <= Timeout
    BY <1>1, <2>1, <2>2 DEF TypeOK, MaxStale
  <2>4. CacheIsHonest'
    BY <1>1, <1>7, <2>2, <2>3 DEF Deliver, TypeOK, CacheIsHonest, Fresh
  <2>5. AnswersFollowTheGet'
    BY <1>1, <1>7 DEF Deliver, Respond, TypeOK, AnswersFollowTheGet
  <2> QED
    BY <1>1, <1>7, <2>4, <2>5 DEF Deliver, SiteIsCurrent
<1>8. CASE UNCHANGED vars
  BY <1>1, <1>8 DEF vars, SiteIsCurrent, AnswersFollowTheGet, CacheIsHonest, Fresh
<1> QED
  BY <1>2, <1>3, <1>4, <1>5, <1>6, <1>7, <1>8 DEF Next, Internal, TimesOut

\* The strengthened invariant holds throughout.
LEMMA HonestAlways == Spec => []HonestInv
<1> QED
  BY InitHonest, NextHonest, PTL DEF Spec

\* However many requests fetch the same file and in whatever order they store
\* what they got, the cache never makes an old name look young.
THEOREM CacheStaysHonest == Spec => []CacheIsHonest
<1>1. HonestInv => CacheIsHonest
  BY DEF HonestInv
<1> QED
  BY <1>1, HonestAlways, PTL

\* A step that answers with a name answers with a recent one.
LEMMA NextAnswersRecent ==
  ASSUME HonestInv, [Next]_vars, NEW r \in Requests,
         reply'[r] # reply[r], reply'[r].known
  PROVE  lastSeen[domain[r]][reply'[r].org] <= MaxStale
<1> USE LookupAssumption
<1>1. TypeOK /\ AnswersFollowTheGet /\ CacheIsHonest
  BY DEF HonestInv
<1>2. CASE CacheHit(r)
  <2>1. Fresh(domain[r]) /\ reply'[r].org = toml_cache[domain[r]].org
    BY <1>1, <1>2 DEF CacheHit, Respond, TypeOK
  <2>2. domain[r] \in Domains
    BY <1>1, <1>2 DEF CacheHit, TypeOK
  <2>3. /\ toml_cache[domain[r]].org \in Published
        /\ toml_cache[domain[r]].age \in 0 .. Ttl - 1
    BY <1>1, <2>1, <2>2 DEF Fresh, TypeOK, CacheEntry
  <2>4. lastSeen[domain[r]][toml_cache[domain[r]].org] \in Nat
    BY <1>1, <2>2, <2>3 DEF TypeOK, MaxStale
  <2> QED
    BY <1>1, <2>1, <2>2, <2>3, <2>4 DEF CacheIsHonest, MaxStale
<1>3. CASE Deliver(r)
  <2>1. domain[r] \in Domains /\ served[r] \in Published /\ elapsed[r] \in 0 .. Timeout
    BY <1>1, <1>3 DEF Deliver, TypeOK
  <2>2. lastSeen[domain[r]][served[r]] \in Nat
    BY <1>1, <2>1 DEF TypeOK, MaxStale
  <2>3. reply'[r].org = served[r] /\ lastSeen[domain[r]][served[r]] <= elapsed[r]
    BY <1>1, <1>3 DEF Deliver, Respond, TypeOK, AnswersFollowTheGet
  <2> QED
    BY <2>1, <2>2, <2>3 DEF MaxStale
<1>4. ASSUME NEW s \in Requests,
             \/ CacheHit(s) /\ s # r
             \/ Deliver(s) /\ s # r
             \/ FetchFails(s)
             \/ \E status \in {404, 502} : AccountFails(s, status)
             \/ \E d \in Domains \cup {None} : AccountFound(s, d)
      PROVE  FALSE
  BY <1>1, <1>4
  DEF CacheHit, Deliver, FetchFails, AccountFails, AccountFound, Respond, TypeOK
<1> QED
  BY <1>2, <1>3, <1>4
  DEF Next, Internal, TimesOut, Publish, Tick, Arrive, CacheMiss, Serve, vars

\* No name is handed out, and no absence of one asserted, that the domain did
\* not publish within the life of an entry plus the time limit of a GET.
THEOREM RecentAnswers == Spec => AnswersAreRecent
<1> DEFINE Recent == \A r \in Requests :
                       reply'[r] # reply[r] /\ reply'[r].known
                         => lastSeen[domain[r]][reply'[r].org] <= MaxStale
<1>1. HonestInv /\ [Next]_vars => [Recent]_vars
  BY NextAnswersRecent
<1> QED
  BY <1>1, HonestAlways, PTL DEF Spec, AnswersAreRecent

(***************************************************************************)
(* The lookup is optional.                                                 *)
(***************************************************************************)

\* Only a request whose account was found has a home domain.
OptionalInv ==
  /\ \A r \in Requests : phase[r] \in {"absent", "account"} => domain[r] = None
  /\ LookupNeverFailsRequest

\* OptionalInv holds from the start and is kept by every step.
LEMMA OptionalInductive ==
  /\ Init => OptionalInv
  /\ TypeOK /\ OptionalInv /\ [Next]_vars => OptionalInv'
<1>1. Init => OptionalInv
  BY DEF Init, OptionalInv, LookupNeverFailsRequest
<1>2. ASSUME TypeOK, OptionalInv, [Next]_vars
      PROVE  OptionalInv'
  <2> USE DEF TypeOK, OptionalInv, LookupNeverFailsRequest
  <2>1. ASSUME NEW r \in Requests,
               Arrive(r) \/ \E status \in {404, 502} : AccountFails(r, status)
        PROVE  OptionalInv'
    BY <1>2, <2>1 DEF Arrive, AccountFails, Respond
  <2>2. ASSUME NEW r \in Requests, NEW d \in Domains \cup {None}, AccountFound(r, d)
        PROVE  OptionalInv'
    <3>1. CASE d = None
      BY <1>2, <2>2, <3>1 DEF AccountFound, Respond
    <3>2. CASE d # None
      BY <1>2, <2>2, <3>2 DEF AccountFound
    <3> QED
      BY <3>1, <3>2
  <2>3. ASSUME NEW r \in Requests, CacheMiss(r) \/ Serve(r)
        PROVE  OptionalInv'
    BY <1>2, <2>3 DEF CacheMiss, Serve
  <2>4. ASSUME NEW r \in Requests, CacheHit(r) \/ FetchFails(r) \/ Deliver(r)
        PROVE  OptionalInv'
    <3>1. PICK org, known : Respond(r, 200, org, known)
      BY <2>4 DEF CacheHit, FetchFails, Deliver
    <3>2. UNCHANGED domain
      BY <2>4 DEF CacheHit, FetchFails, Deliver
    <3> QED
      BY <1>2, <3>1, <3>2 DEF Respond
  <2>5. CASE UNCHANGED <<phase, domain, reply>>
    BY <1>2, <2>5
  <2> QED
    BY <1>2, <2>1, <2>2, <2>3, <2>4, <2>5 DEF Next, Internal, TimesOut, Publish, Tick, vars
<1> QED
  BY <1>1, <1>2

\* Once Horizon has given the account, the request succeeds whatever the server
\* of the home domain does.
THEOREM LookupIsOptional == Spec => []LookupNeverFailsRequest
<1>1. OptionalInv => LookupNeverFailsRequest
  BY DEF OptionalInv
<1> QED
  BY <1>1, OptionalInductive, LookupTypeCorrect, PTL DEF Spec

(***************************************************************************)
(* The pages of an account's history.                                      *)
(***************************************************************************)

LEMMA WhatQueriesAssume == QuestionsAssumption /\ ClockAssumption /\ PagesAssumption
  BY QueriesAssumption

Summaries == {SummarizeTransaction(History[i]) : i \in 1 .. Len(History)}

\* The transaction that the i-th place of a list is for, when the list began
\* with top transactions in the ledger.
Due(order, top, i) == IF order = "asc" THEN i ELSE top + 1 - i

\* How far a list can go at present.
Reach(order, top) == IF order = "asc" THEN height ELSE top

\* A list of n transactions goes on at the last of them.
CursorAfter(order, top, n) == IF n = 0 THEN None ELSE Due(order, top, n)

\* So far the list is what it should be, and the cursor is where it ends.
ListIsRight(order, top, listed, cursor) ==
  /\ listed \in Seq(Summaries)
  /\ Len(listed) <= Reach(order, top)
  /\ \A i \in 1 .. Len(listed) :
        listed[i] = SummarizeTransaction(History[Due(order, top, i)])
  /\ cursor = CursorAfter(order, top, Len(listed))

Sensible(limit, order) ==
  /\ Limit(limit) \in Nat \ {0}
  /\ Order(order) \in {"asc", "desc"}

\* PagesPartition says nothing of the cursor, on which the next page depends.
PagesInv ==
  /\ height \in 0 .. Len(History)
  /\ walk # None =>
       /\ Sensible(walk.limit, walk.order)
       /\ walk.top \in 0 .. height
       /\ ListIsRight(Order(walk.order), walk.top, walk.listed, walk.cursor)
       /\ walk.ended # None =>
            Len(walk.listed) = IF Order(walk.order) = "asc" THEN walk.ended ELSE walk.top

\* A link says what it was made with.
LEMMA CursorOfLink ==
  ASSUME NEW c, NEW l, NEW o
  PROVE  ExtractCursor(Link(c, l, o)) = c
<1> DEFINE first == [name |-> "cursor", value |-> c]
           rest == << [name |-> "limit", value |-> l], [name |-> "order", value |-> o] >>
           S == {first, [name |-> "limit", value |-> l], [name |-> "order", value |-> o]}
           link == Link(c, l, o)
           cursors == {i \in 1 .. Len(link) : link[i].name = "cursor"}
<1>1. /\ rest \in Seq(S) /\ Len(rest) = 2
      /\ rest[1].name = "limit" /\ rest[2].name = "order"
  OBVIOUS
<1>2. CASE c = None
  <2>1. link = <<>> \o rest
    BY <1>2 DEF Link
  <2> HIDE DEF rest, S
  <2>2. link = rest
    BY <1>1, <2>1, ConcatEmptySeq
  <2> HIDE DEF link
  <2>3. cursors = {}
    BY <1>1, <2>2
  <2> QED
    BY <1>2, <2>3 DEF ExtractCursor, link
<1>3. CASE c # None
  <2> DEFINE one == <<first>>
  <2>1. link = one \o rest
    BY <1>3 DEF Link
  <2>2. one \in Seq(S) /\ Len(one) = 1 /\ one[1] = first
    OBVIOUS
  <2> HIDE DEF one, rest, S, link
  <2>3. /\ Len(link) = Len(one) + Len(rest)
        /\ \A i \in 1 .. Len(one) + Len(rest) :
              link[i] = IF i <= Len(one) THEN one[i] ELSE rest[i - Len(one)]
    BY <1>1, <2>1, <2>2, ConcatProperties
  <2>4. Len(link) = 3 /\ link[1] = first /\ link[2].name = "limit" /\ link[3].name = "order"
    BY <1>1, <2>2, <2>3
  <2>5. cursors = {1}
    BY <2>4
  <2>6. (CHOOSE i \in cursors : \A j \in cursors : i <= j) = 1
    BY <2>5
  <2> QED
    BY <2>4, <2>5, <2>6 DEF ExtractCursor, link
<1> QED
  BY <1>2, <1>3

\* The m transactions that are due after the first n are on the next page, and there
\* are none only at the end.
NextAreDue(l, o, top, n, m) ==
  /\ n + m <= Reach(o, top) /\ (m = 0 => n = Reach(o, top))
  /\ PageTokens(height, l, o, CursorAfter(o, top, n)) = [i \in 1 .. m |-> Due(o, top, n + i)]
  /\ \A i \in 1 .. m : Due(o, top, n + i) \in 1 .. height

\* Horizon's page begins with the transaction that is due, and is empty only when
\* none is.
LEMMA TokensAreDue ==
  ASSUME PagesAssumption, NEW l \in Nat \ {0}, NEW o \in {"asc", "desc"},
         height \in Nat, NEW top \in 0 .. height, NEW n \in Nat, n <= Reach(o, top),
         o = "desc" /\ n = 0 => top = height
  PROVE  \E m \in Nat : NextAreDue(l, o, top, n, m)
<1> DEFINE m == Lesser(l, Reach(o, top) - n)
           cursor == CursorAfter(o, top, n)
           tokens == PageTokens(height, l, o, cursor)
<1>1. Reach(o, top) \in Nat /\ Reach(o, top) <= height
  BY DEF Reach
<1>2. m \in Nat /\ n + m <= Reach(o, top) /\ (m = 0 => n = Reach(o, top))
  BY <1>1 DEF Lesser
<1>3. n # 0 => cursor = Due(o, top, n) /\ cursor # None
  BY DEF CursorAfter, Due, PagesAssumption
<1>4. n = 0 => cursor = None
  BY DEF CursorAfter
<1> HIDE DEF cursor
<1>5. CASE o = "asc"
  <2>1. (IF cursor = None THEN 0 ELSE cursor) = n
    BY <1>3, <1>4, <1>5 DEF Due
  <2>2. tokens = [i \in 1 .. m |-> n + i]
    BY <1>5, <2>1 DEF PageTokens, Reach
  <2>3. \A i \in 1 .. m : Due(o, top, n + i) = n + i /\ n + i \in 1 .. height
    BY <1>1, <1>2, <1>5 DEF Due
  <2> HIDE DEF m, tokens
  <2> QED
    BY <1>2, <2>2, <2>3 DEF NextAreDue, tokens, cursor
<1>6. CASE o = "desc"
  <2>1. (IF cursor = None THEN height + 1 ELSE cursor) = top + 1 - n
    <3>1. CASE n = 0
      <4>1. top = height /\ cursor = None
        BY <1>4, <1>6, <3>1
      <4> QED
        BY <3>1, <4>1
    <3>2. CASE n # 0
      <4>1. cursor = top + 1 - n /\ cursor # None
        BY <1>3, <1>6, <3>2 DEF Due
      <4> QED
        BY <4>1
    <3> QED
      BY <3>1, <3>2
  <2>2. (top + 1 - n) - 1 = Reach(o, top) - n
    BY <1>6 DEF Reach
  <2>3. tokens = [i \in 1 .. m |-> (top + 1 - n) - i]
    BY <1>6, <2>1, <2>2 DEF PageTokens
  <2>4. Reach(o, top) = top
    BY <1>6 DEF Reach
  <2>5. \A i \in 1 .. m : Due(o, top, n + i) = (top + 1 - n) - i /\ Due(o, top, n + i) \in 1 .. height
    BY <1>1, <1>2, <1>6, <2>4 DEF Due
  <2> HIDE DEF m, tokens
  <2> QED
    BY <1>2, <2>3, <2>5 DEF NextAreDue, tokens, cursor
<1> QED
  BY <1>5, <1>6

\* The response has the transactions of Horizon's page, and the cursor of the last.
LEMMA PageOfTokens ==
  ASSUME PagesAssumption, height \in 0 .. Len(History),
         NEW limit, NEW order, NEW cursor, NEW m \in Nat, NEW t \in [1 .. m -> 1 .. height],
         PageTokens(height, Limit(limit), Order(order), cursor) = t
  PROVE  /\ Page(limit, order, cursor).items
              = [i \in 1 .. m |-> SummarizeTransaction(History[t[i]])]
         /\ Page(limit, order, cursor).next_cursor = IF m = 0 THEN cursor ELSE t[m]
<1> DEFINE S == {History[i] : i \in DOMAIN History}
           ledger == SubSeq(History, 1, height)
           L == Limit(limit)
           O == Order(order)
           given == HorizonPage(ledger, L, O, cursor)
           last == IF t = <<>> THEN cursor ELSE t[Len(t)]
<1>1. History \in Seq(S) /\ Len(History) \in Nat /\ height \in Nat /\ height <= Len(History)
  BY LenProperties DEF PagesAssumption
<1> HIDE DEF S
<1>2. \A i \in 1 .. height : History[i] \in S
  BY <1>1, ElementOfSeq
<1>3. /\ ledger \in Seq(S)
      /\ Len(ledger) = IF 1 <= height THEN height - 1 + 1 ELSE 0
      /\ \A i \in 1 .. height - 1 + 1 : ledger[i] = History[1 + i - 1]
  BY <1>1, <1>2, SubSeqProperties
<1>4. Len(ledger) = height /\ \A i \in 1 .. height : ledger[i] = History[i]
  BY <1>1, <1>3
<1>5. t \in Seq(1 .. height) /\ Len(t) = m /\ (t = <<>> <=> m = 0)
  OBVIOUS
<1> HIDE DEF ledger, L, O
<1>6. /\ given.records = [i \in 1 .. m |-> ledger[t[i]]]
      /\ given.next = Link(last, L, O)
  BY <1>4, <1>5 DEF HorizonPage, L, O
<1>7. given.records = [i \in 1 .. m |-> History[t[i]]] /\ Len(given.records) = m
  BY <1>4, <1>6
<1>8. Page(limit, order, cursor) = PageResponse(given)
  BY DEF Page, ledger, L, O
<1> HIDE DEF given
<1>9. PageResponse(given).items = [i \in 1 .. m |-> SummarizeTransaction(History[t[i]])]
  BY <1>7 DEF PageResponse
<1>10. PageResponse(given).next_cursor = last
  BY <1>6, CursorOfLink DEF PageResponse
<1>11. last = IF m = 0 THEN cursor ELSE t[m]
  BY <1>5
<1> HIDE DEF last
<1> QED
  BY <1>8, <1>9, <1>10, <1>11

\* A page that is asked for where a right list ends makes a longer right list.
LEMMA ListGrows ==
  ASSUME PagesAssumption, height \in 0 .. Len(History), UNCHANGED height,
         NEW limit, NEW order, NEW listed, NEW top, NEW cursor,
         Sensible(limit, order), top \in 0 .. height, listed = <<>> => top = height,
         ListIsRight(Order(order), top, listed, cursor),
         walk' = Turned(limit, order, listed, top, Page(limit, order, cursor))
  PROVE  PagesInv'
<1> DEFINE o == Order(order)
           n == Len(listed)
           page == Page(limit, order, cursor)
           longer == listed \o page.items
<1>1. /\ o \in {"asc", "desc"} /\ Limit(limit) \in Nat \ {0}
      /\ height \in Nat /\ Len(History) \in Nat
  <2>1. Len(History) \in Nat
    BY LenProperties DEF PagesAssumption
  <2> QED
    BY <2>1 DEF Sensible
<1>2. /\ listed \in Seq(Summaries) /\ n \in Nat /\ (listed = <<>> <=> n = 0) /\ n <= Reach(o, top)
      /\ \A i \in 1 .. n : listed[i] = SummarizeTransaction(History[Due(o, top, i)])
      /\ cursor = CursorAfter(o, top, n)
  BY EmptySeq, LenProperties DEF ListIsRight
<1> HIDE DEF o, n
<1>3. PICK m \in Nat :
        /\ n + m <= Reach(o, top) /\ (m = 0 => n = Reach(o, top))
        /\ PageTokens(height, Limit(limit), o, cursor) = [i \in 1 .. m |-> Due(o, top, n + i)]
        /\ \A i \in 1 .. m : Due(o, top, n + i) \in 1 .. height
  <2>1. o = "desc" /\ n = 0 => top = height
    BY <1>2
  <2>2. PICK l \in Nat \ {0} : l = Limit(limit)
    BY <1>1
  <2>3. n \in Nat /\ n <= Reach(o, top) /\ cursor = CursorAfter(o, top, n)
    BY <1>2
  <2>4. l \in Nat \ {0} /\ o \in {"asc", "desc"} /\ height \in Nat /\ top \in 0 .. height
        /\ n \in Nat /\ n <= Reach(o, top) /\ (o = "desc" /\ n = 0 => top = height)
    BY <1>1, <1>2, <2>1, <2>2, <2>3
  <2>5. PICK m \in Nat : NextAreDue(l, o, top, n, m)
    BY <2>4, TokensAreDue
  <2> QED
    BY <2>2, <2>3, <2>5 DEF NextAreDue
<1> DEFINE t == [i \in 1 .. m |-> Due(o, top, n + i)]
<1>4. t \in [1 .. m -> 1 .. height]
  BY <1>3
<1>5. \A i \in 1 .. m : t[i] = Due(o, top, n + i)
  OBVIOUS
<1>6. PageTokens(height, Limit(limit), Order(order), cursor) = t
  BY <1>3 DEF o
<1> HIDE DEF t
<1>7. /\ page.items = [i \in 1 .. m |-> SummarizeTransaction(History[t[i]])]
      /\ page.next_cursor = IF m = 0 THEN cursor ELSE t[m]
  <2> HIDE DEF longer
  <2>1. PageTokens(height, Limit(limit), Order(order), cursor) = t /\ m \in Nat
    BY <1>6
  <2> HIDE DEF page
  <2> QED
    BY <1>4, <2>1, PageOfTokens DEF page
<1>8. /\ walk'.limit = limit /\ walk'.order = order /\ walk'.cursor = page.next_cursor
      /\ walk'.listed = longer /\ walk'.top = (IF listed = <<>> THEN height ELSE top)
      /\ walk'.ended = (IF page.items = <<>> THEN height ELSE None)
  BY DEF Turned
<1> HIDE DEF page
<1>9. page.items \in Seq(Summaries) /\ Len(page.items) = m /\ (page.items = <<>> <=> m = 0)
  <2>1. \A i \in 1 .. m : SummarizeTransaction(History[t[i]]) \in Summaries
    BY <1>1, <1>4 DEF Summaries
  <2>2. page.items \in [1 .. m -> Summaries]
    BY <1>7, <2>1
  <2> QED
    BY <2>2
<1>10. \A i \in 1 .. m : page.items[i] = SummarizeTransaction(History[Due(o, top, n + i)])
  BY <1>5, <1>7
<1>11. /\ longer \in Seq(Summaries) /\ Len(longer) = n + m
       /\ \A i \in 1 .. n + m : longer[i] = IF i <= n THEN listed[i] ELSE page.items[i - n]
  <2>1. PICK items \in Seq(Summaries) : items = page.items
    BY <1>9
  <2>2. /\ listed \o items \in Seq(Summaries) /\ Len(listed \o items) = Len(listed) + Len(items)
        /\ \A i \in 1 .. Len(listed) + Len(items) :
              (listed \o items)[i] = IF i <= Len(listed) THEN listed[i] ELSE items[i - Len(listed)]
    BY <1>2, ConcatProperties
  <2>3. Len(listed) = n /\ Len(items) = m /\ longer = listed \o items
    BY <1>9, <2>1 DEF n
  <2> QED
    BY <2>1, <2>2, <2>3
<1>12. walk'.top = top
  BY <1>8
<1>13. ASSUME NEW i \in 1 .. n + m
       PROVE  longer[i] = SummarizeTransaction(History[Due(o, top, i)])
  <2>1. CASE i <= n
    <3>1. i \in 1 .. n
      BY <1>2, <2>1
    <3> QED
      BY <1>2, <1>11, <2>1, <3>1
  <2>2. CASE ~(i <= n)
    <3>1. i - n \in 1 .. m /\ n + (i - n) = i
      BY <1>2, <2>2
    <3> QED
      BY <1>10, <1>11, <2>2, <3>1
  <2> QED
    BY <2>1, <2>2
<1>14. page.next_cursor = CursorAfter(o, top, n + m)
  <2>1. CASE m = 0
    BY <1>2, <1>7, <2>1
  <2>2. CASE m # 0
    <3>1. page.next_cursor = Due(o, top, n + m) /\ n + m # 0
      BY <1>2, <1>5, <1>7, <2>2
    <3> QED
      BY <3>1 DEF CursorAfter
  <2> QED
    BY <2>1, <2>2
<1> HIDE DEF longer
<1>15. ListIsRight(Order(walk'.order), walk'.top, walk'.listed, walk'.cursor)
  BY <1>3, <1>8, <1>11, <1>12, <1>13, <1>14 DEF ListIsRight, o
<1>16. walk'.ended # None => n + m = IF o = "asc" THEN height ELSE top
  BY <1>2, <1>3, <1>8, <1>9 DEF Reach
<1> QED
  BY <1>8, <1>11, <1>12, <1>15, <1>16 DEF PagesInv, ListIsRight, Reach, Sensible, o

LEMMA PagesInvInit == PagesAssumption /\ PagesInit => PagesInv
<1> SUFFICES ASSUME PagesAssumption, PagesInit
             PROVE  PagesInv
  OBVIOUS
<1>1. Len(History) \in Nat
  BY LenProperties DEF PagesAssumption
<1> QED
  BY <1>1 DEF PagesInit, PagesInv

\* The invariant holds of every page asked for, the first or the next.
LEMMA PagesInvStep ==
  ASSUME PagesAssumption, PagesInv, [PagesNext]_<<height, walk>>
  PROVE  PagesInv'
<1> USE DEF PagesInv
<1>1. ASSUME NEW limit \in Limits, NEW order \in Orders, OpenList(limit, order)
      PROVE  PagesInv'
  <2>1. Sensible(limit, order)
    BY <1>1 DEF OpenList, BadPageRequest, Limit, Order, Sensible,
                PagesAssumption
  <2>2. height \in Nat /\ UNCHANGED height
    BY <1>1 DEF OpenList, PagesAssumption
  <2>3. ListIsRight(Order(order), height, <<>>, None)
    BY <2>1, <2>2 DEF ListIsRight, CursorAfter, Reach, Sensible
  <2>4. walk' = Turned(limit, order, <<>>, height, Page(limit, order, None))
    BY <1>1 DEF OpenList
  <2> QED
    BY <2>1, <2>2, <2>3, <2>4, ListGrows
<1>2. CASE TurnPage
  <2> DEFINE top == IF walk.listed = <<>> THEN height ELSE walk.top
             page == Page(walk.limit, walk.order, walk.cursor)
  <2>1. /\ Sensible(walk.limit, walk.order) /\ height \in Nat /\ UNCHANGED height
        /\ top \in 0 .. height /\ (walk.listed = <<>> => top = height)
    BY <1>2 DEF TurnPage, PagesAssumption
  <2>2. ListIsRight(Order(walk.order), top, walk.listed, walk.cursor)
    <3>1. CASE walk.listed = <<>>
      <4>1. walk.cursor = None
        BY <1>2, <3>1 DEF TurnPage, ListIsRight, CursorAfter
      <4> QED
        BY <2>1, <3>1, <4>1 DEF ListIsRight, CursorAfter, Reach, Sensible
    <3>2. CASE walk.listed # <<>>
      BY <1>2, <3>2 DEF TurnPage
    <3> QED
      BY <3>1, <3>2
  <2>3. walk' = Turned(walk.limit, walk.order, walk.listed, top, page)
    BY <1>2 DEF TurnPage, Turned
  <2> HIDE DEF top
  <2> QED
    BY <2>1, <2>2, <2>3, ListGrows
<1>3. CASE CloseList
  BY <1>3 DEF CloseList
<1>4. CASE Sends
  <2>1. height' \in 0 .. Len(History) /\ height' = height + 1 /\ height \in Nat /\ UNCHANGED walk
    <3>1. Len(History) \in Nat
      BY LenProperties DEF PagesAssumption
    <3> QED
      BY <1>4, <3>1 DEF Sends
  <2>2. ASSUME walk # None
        PROVE  ListIsRight(Order(walk.order), walk.top, walk.listed, walk.cursor)'
    <3>1. Len(walk.listed) \in Nat
      BY <2>2, LenProperties DEF ListIsRight
    <3> QED
      BY <2>1, <2>2, <3>1 DEF ListIsRight, Reach, Due, CursorAfter, Summaries
  <2> QED
    BY <2>1, <2>2 DEF Sensible
<1>5. CASE UNCHANGED <<height, walk>>
  BY <1>5 DEF ListIsRight, Reach, Due, CursorAfter, Summaries, Sensible
<1> QED
  BY <1>1, <1>2, <1>3, <1>4, <1>5 DEF PagesNext

LEMMA PagesInvIsEnough == PagesAssumption /\ PagesInv => PagesPartition
<1> SUFFICES ASSUME PagesAssumption, PagesInv, walk # None
             PROVE  PagesPartition
  BY DEF PagesPartition
<1> DEFINE o == Order(walk.order)
<1>1. /\ Sensible(walk.limit, walk.order) /\ walk.top \in 0 .. height
      /\ ListIsRight(o, walk.top, walk.listed, walk.cursor)
      /\ (walk.ended # None => Len(walk.listed) = IF o = "asc" THEN walk.ended ELSE walk.top)
      /\ height \in Nat
  BY DEF PagesInv
<1>2. Len(walk.listed) \in Nat /\ Len(walk.listed) <= height
  BY <1>1, LenProperties DEF ListIsRight, Reach
<1>3. \A i \in 1 .. Len(walk.listed) :
         walk.listed[i].hash = History[IF o = "asc" THEN i ELSE walk.top + 1 - i].hash
  <2> SUFFICES ASSUME NEW i \in 1 .. Len(walk.listed)
               PROVE  walk.listed[i].hash
                        = History[IF o = "asc" THEN i ELSE walk.top + 1 - i].hash
    OBVIOUS
  <2>1. walk.listed[i] = SummarizeTransaction(History[Due(o, walk.top, i)])
    BY <1>1 DEF ListIsRight
  <2>2. \A tx : SummarizeTransaction(tx).hash = tx.hash
    BY DEF SummarizeTransaction
  <2> HIDE DEF o
  <2> QED
    BY <2>1, <2>2 DEF Due
<1> QED
  BY <1>1, <1>2, <1>3 DEF PagesPartition

\* Whatever the client asks, Queries turns pages as Pages allows, or not at all.
LEMMA QueriesTurnPages == [QueriesNext]_queryVars => [PagesNext]_<<height, walk>>
<1> SUFFICES ASSUME [QueriesNext]_queryVars
             PROVE  [PagesNext]_<<height, walk>>
  OBVIOUS
<1>1. CASE AskTransaction \/ AskAccount \/ AskSummary \/ RefusePage
  <2>1. CloseList
    BY <1>1 DEF AskTransaction, AskAccount, AskSummary, RefusePage
  <2> QED
    BY <2>1 DEF PagesNext
<1>2. CASE FirstPage
  BY <1>2 DEF FirstPage, PagesNext
<1>3. CASE NextPage
  BY <1>3 DEF NextPage, PagesNext
<1>4. CASE PageFails \/ ReadAnswer
  BY <1>4 DEF PageFails, ReadAnswer
<1>5. CASE Grow
  BY <1>5 DEF Grow, PagesNext
<1>6. CASE UNCHANGED queryVars
  BY <1>6 DEF queryVars
<1> QED
  BY <1>1, <1>2, <1>3, <1>4, <1>5, <1>6 DEF QueriesNext

\* However long the history and whatever the sizes of the pages, turning them
\* lists the transactions without a gap or a repetition while new ones come in
\* and Horizon fails, and an empty page comes only when the list is complete.
THEOREM PagesJoinUp == QueriesSpec => []PagesPartition
<1>1. QueriesSpec => PagesSpec
  <2>1. QueriesInit => PagesInit
    BY DEF QueriesInit
  <2> QED
    BY <2>1, QueriesTurnPages, PTL DEF QueriesSpec, PagesSpec
<1>2. PagesInit => PagesInv
  BY PagesInvInit, WhatQueriesAssume
<1>3. PagesInv /\ [PagesNext]_<<height, walk>> => PagesInv'
  BY PagesInvStep, WhatQueriesAssume
<1>4. PagesInv => PagesPartition
  BY PagesInvIsEnough, WhatQueriesAssume
<1> QED
  BY <1>1, <1>2, <1>3, <1>4, PTL DEF PagesSpec

(***************************************************************************)
(* The parts of an explanation.                                            *)
(***************************************************************************)

\* Places count the members of a set of positions, in their order.
LEMMA PlaceIsMonotone ==
  ASSUME NEW I, IsFiniteSet(I), I \subseteq Nat
  PROVE  /\ Cardinality(I) \in Nat
         /\ \A i \in I : Place(I, i) \in 1 .. Cardinality(I)
         /\ \A i, k \in I : i < k => Place(I, i) < Place(I, k)
<1> DEFINE upTo(i) == {j \in I : j <= i}
<1>1. Cardinality(I) \in Nat
  BY FS_CardinalityType
<1>2. ASSUME NEW i \in I
      PROVE  /\ IsFiniteSet(upTo(i)) /\ i \in upTo(i)
             /\ Cardinality(upTo(i)) \in Nat \ {0} /\ Cardinality(upTo(i)) <= Cardinality(I)
  <2>1. upTo(i) \subseteq I /\ i \in upTo(i)
    OBVIOUS
  <2>2. IsFiniteSet(upTo(i)) /\ Cardinality(upTo(i)) <= Cardinality(I)
    BY <2>1, FS_Subset
  <2>3. Cardinality(upTo(i)) \in Nat /\ Cardinality(upTo(i)) # 0
    BY <2>1, <2>2, FS_CardinalityType, FS_EmptySet
  <2> QED
    BY <2>1, <2>2, <2>3
<1>3. ASSUME NEW i \in I, NEW k \in I, i < k
      PROVE  Cardinality(upTo(i)) < Cardinality(upTo(k))
  <2>1. upTo(i) \subseteq upTo(k) /\ k \in upTo(k) /\ k \notin upTo(i)
    <3>1. \A j \in I : j <= i => j <= k
      BY <1>3
    <3>2. ~(k <= i) /\ k <= k
      BY <1>3
    <3> QED
      BY <3>1, <3>2
  <2>2. Cardinality(upTo(i)) <= Cardinality(upTo(k)) /\ Cardinality(upTo(i)) # Cardinality(upTo(k))
    BY <1>2, <2>1, FS_Subset
  <2> QED
    BY <1>2, <2>2
<1>4. \A i : Place(I, i) = Cardinality(upTo(i))
  BY DEF Place
<1> HIDE DEF upTo
<1> QED
  BY <1>1, <1>2, <1>3, <1>4

\* Nth is the inverse of Place: every place up to the number of members is taken,
\* because no two members share one.
LEMMA NthProperties ==
  ASSUME NEW I, IsFiniteSet(I), I \subseteq Nat
  PROVE  /\ \A n \in 1 .. Cardinality(I) : Nth(I, n) \in I /\ Place(I, Nth(I, n)) = n
         /\ \A i \in I : Nth(I, Place(I, i)) = i
         /\ \A m, n \in 1 .. Cardinality(I) : m < n => Nth(I, m) < Nth(I, n)
<1> DEFINE f == [i \in I |-> Place(I, i)]
           T == 1 .. Cardinality(I)
<1>1. /\ Cardinality(I) \in Nat
      /\ \A i \in I : Place(I, i) \in T
      /\ \A i, k \in I : i < k => Place(I, i) < Place(I, k)
  BY PlaceIsMonotone
<1>2. \A i, k \in I : Place(I, i) = Place(I, k) => i = k
  BY <1>1
<1>3. IsFiniteSet(T) /\ Cardinality(T) = Cardinality(I)
  BY <1>1, FS_Interval
<1>4. f \in [I -> T] /\ \A i, k \in I : f[i] = f[k] => i = k
  BY <1>1, <1>2
<1> HIDE DEF T
<1>5. f \in Surjection(I, T)
  <2>1. f \in Injection(I, T)
    BY <1>4, Fun_IsInj
  <2> HIDE DEF f
  <2> QED
    BY <1>3, <2>1, FS_Injection
<1>6. \A n \in T : \E i \in I : Place(I, i) = n
  BY <1>5 DEF Surjection
<1>7. \A n \in T : Nth(I, n) \in I /\ Place(I, Nth(I, n)) = n
  BY <1>6 DEF Nth
<1>8. \A i \in I : Nth(I, Place(I, i)) = i
  BY <1>1, <1>2, <1>7
<1>9. ASSUME NEW m \in T, NEW n \in T, m < n PROVE Nth(I, m) < Nth(I, n)
  <2> DEFINE a == Nth(I, m)
             b == Nth(I, n)
  <2>1. a \in I /\ b \in I /\ a \in Nat /\ b \in Nat /\ Place(I, a) = m /\ Place(I, b) = n
    BY <1>7
  <2>2. m \in Nat /\ n \in Nat
    BY <1>1 DEF T
  <2> HIDE DEF a, b
  <2>3. ~(b < a) /\ b # a
    BY <1>1, <1>9, <2>1, <2>2
  <2>4. a < b
    BY <2>1, <2>3
  <2> QED
    BY <2>4 DEF a, b
<1> QED
  BY <1>7, <1>8, <1>9 DEF T

\* A selection has an element of the sequence at each of its places.
LEMMA SelectionElements ==
  ASSUME NEW s, Len(s) \in Nat, NEW I, I \subseteq 1 .. Len(s)
  PROVE  /\ Cardinality(I) \in Nat
         /\ Len(Selection(s, I)) = Cardinality(I)
         /\ \A n \in 1 .. Cardinality(I) : Nth(I, n) \in I /\ Selection(s, I)[n] = s[Nth(I, n)]
<1>1. IsFiniteSet(I) /\ I \subseteq Nat
  <2>1. IsFiniteSet(1 .. Len(s)) /\ 1 .. Len(s) \subseteq Nat
    BY FS_Interval
  <2> QED
    BY <2>1, FS_Subset
<1>2. Cardinality(I) \in Nat
  BY <1>1, FS_CardinalityType
<1>3. \A n \in 1 .. Cardinality(I) : Nth(I, n) \in I
  BY <1>1, NthProperties
<1> QED
  BY <1>2, <1>3 DEF Selection

\* Each explainer names a type of its own.
LEMMA TypesTold ==
  /\ \A op, fee, base_fee : PaymentDetails(ExplainPayment(op, fee, base_fee)).type = "payment"
  /\ \A op : ExplainSetOptions(op).type = "set_options"
  /\ \A op : ExplainCreateAccount(op).type = "create_account"
  /\ \A op : ExplainChangeTrust(op).type = "change_trust"
  /\ \A op : ExplainManageOffer(op).type =
               IF op.offer_type = "Sell" THEN "manage_sell_offer" ELSE "manage_buy_offer"
  /\ \A op : ExplainPathPayment(op).type =
               IF op.payment_type = "StrictSend" THEN "path_payment_strict_send"
               ELSE "path_payment_strict_receive"
  /\ \A op : ExplainClawback(op).type = "clawback"
  /\ \A op : ExplainClawbackBalance(op).type = "clawback_claimable_balance"
  /\ \A op : ExplainAccountMerge(op).type = "account_merge"
<1>1. \A op, fee, base_fee : PaymentDetails(ExplainPayment(op, fee, base_fee)).type = "payment"
  BY DEF PaymentDetails
<1>2. \A op : ExplainSetOptions(op).type = "set_options"
  BY DEF ExplainSetOptions
<1>3. \A op : ExplainCreateAccount(op).type = "create_account"
  BY DEF ExplainCreateAccount
<1>4. \A op : ExplainChangeTrust(op).type = "change_trust"
  BY DEF ExplainChangeTrust
<1>5. \A op : ExplainManageOffer(op).type =
                IF op.offer_type = "Sell" THEN "manage_sell_offer" ELSE "manage_buy_offer"
  BY DEF ExplainManageOffer
<1>6. \A op : ExplainPathPayment(op).type =
                IF op.payment_type = "StrictSend" THEN "path_payment_strict_send"
                ELSE "path_payment_strict_receive"
  BY DEF ExplainPathPayment
<1>7. \A op : ExplainClawback(op).type = "clawback"
  BY DEF ExplainClawback
<1>8. \A op : ExplainClawbackBalance(op).type = "clawback_claimable_balance"
  BY DEF ExplainClawbackBalance
<1>9. \A op : ExplainAccountMerge(op).type = "account_merge"
  BY DEF ExplainAccountMerge
<1> QED
  BY <1>1, <1>2, <1>3, <1>4, <1>5, <1>6, <1>7, <1>8, <1>9

\* Each kind of operation is made by an arm of its own.
LEMMA KindsOfOperations ==
  ASSUME NEW op
  PROVE  /\ FromPayment(op).kind = "Payment"
         /\ FromSetOptions(op).kind = "SetOptions"
         /\ FromCreateAccount(op).kind = "CreateAccount"
         /\ FromChangeTrust(op).kind = "ChangeTrust"
         /\ FromSellOffer(op).kind = "ManageOffer" /\ FromSellOffer(op).offer_type = "Sell"
         /\ FromBuyOffer(op).kind = "ManageOffer" /\ FromBuyOffer(op).offer_type = "Buy"
         /\ FromStrictSend(op).kind = "PathPayment" /\ FromStrictSend(op).payment_type = "StrictSend"
         /\ FromStrictReceive(op).kind = "PathPayment"
         /\ FromStrictReceive(op).payment_type = "StrictReceive"
         /\ FromClawback(op).kind = "Clawback"
         /\ FromClawbackBalance(op).kind = "ClawbackClaimableBalance"
         /\ FromAccountMerge(op).kind = "AccountMerge"
<1>1. FromPayment(op).kind = "Payment"
  BY DEF FromPayment
<1>2. FromSetOptions(op).kind = "SetOptions"
  BY DEF FromSetOptions
<1>3. FromCreateAccount(op).kind = "CreateAccount"
  BY DEF FromCreateAccount
<1>4. FromChangeTrust(op).kind = "ChangeTrust"
  BY DEF FromChangeTrust
<1>5. FromSellOffer(op).kind = "ManageOffer" /\ FromSellOffer(op).offer_type = "Sell"
  BY DEF FromSellOffer, Offer
<1>6. FromBuyOffer(op).kind = "ManageOffer" /\ FromBuyOffer(op).offer_type = "Buy"
  BY DEF FromBuyOffer, Offer
<1>7. FromStrictSend(op).kind = "PathPayment" /\ FromStrictSend(op).payment_type = "StrictSend"
  BY DEF FromStrictSend, PathPayment
<1>8. /\ FromStrictReceive(op).kind = "PathPayment"
      /\ FromStrictReceive(op).payment_type = "StrictReceive"
  BY DEF FromStrictReceive, PathPayment
<1>9. FromClawback(op).kind = "Clawback"
  BY DEF FromClawback
<1>10. FromClawbackBalance(op).kind = "ClawbackClaimableBalance"
  BY DEF FromClawbackBalance
<1>11. FromAccountMerge(op).kind = "AccountMerge"
  <2> DEFINE source == Field(op, "source_account", Field(op, "account", "Unknown"))
             destination == Field(op, "into", "")
  <2>1. FromAccountMerge(op) =
          [kind |-> "AccountMerge", source |-> source, destination |-> destination]
    BY DEF FromAccountMerge
  <2> HIDE DEF source, destination
  <2> QED
    BY <2>1
<1> QED
  BY <1>1, <1>2, <1>3, <1>4, <1>5, <1>6, <1>7, <1>8, <1>9, <1>10, <1>11

\* An operation is reported with the type that Explanation gives it; those that
\* have no arm are the ones of kind Other, and those that have a payment's arm are
\* the payments.
LEMMA TypeIsReported ==
  ASSUME NEW op, NEW fee, NEW base_fee
  PROVE  /\ ExplainOperation(FromHorizon(op), fee, base_fee).type = ReportedType(op.type)
         /\ FromHorizon(op).kind = "Payment" <=> op.type = "payment"
         /\ FromHorizon(op).kind = "Other" <=> op.type \notin Supported
<1> DEFINE h == FromHorizon(op)
           type == ExplainOperation(h, fee, base_fee).type
<1> SUFFICES /\ type = ReportedType(op.type)
             /\ h.kind = "Payment" <=> op.type = "payment"
             /\ h.kind = "Other" <=> op.type \notin Supported
  OBVIOUS
<1> HIDE DEF h, type
<1>1. CASE op.type = "payment"
  <2>1. h.kind = "Payment"
    BY <1>1, KindsOfOperations DEF h, FromHorizon, SellOffers
  <2>2. type = "payment"
    BY <2>1, TypesTold DEF type, ExplainOperation
  <2> QED
    BY <1>1, <2>1, <2>2 DEF ReportedType, Supported, SellOffers
<1>2. CASE op.type = "set_options"
  <2>1. h.kind = "SetOptions"
    BY <1>2, KindsOfOperations DEF h, FromHorizon, SellOffers
  <2>2. type = "set_options"
    BY <2>1, TypesTold DEF type, ExplainOperation
  <2> QED
    BY <1>2, <2>1, <2>2 DEF ReportedType, Supported, SellOffers
<1>3. CASE op.type = "create_account"
  <2>1. h.kind = "CreateAccount"
    BY <1>3, KindsOfOperations DEF h, FromHorizon, SellOffers
  <2>2. type = "create_account"
    BY <2>1, TypesTold DEF type, ExplainOperation
  <2> QED
    BY <1>3, <2>1, <2>2 DEF ReportedType, Supported, SellOffers
<1>4. CASE op.type = "change_trust"
  <2>1. h.kind = "ChangeTrust"
    BY <1>4, KindsOfOperations DEF h, FromHorizon, SellOffers
  <2>2. type = "change_trust"
    BY <2>1, TypesTold DEF type, ExplainOperation
  <2> QED
    BY <1>4, <2>1, <2>2 DEF ReportedType, Supported, SellOffers
<1>5. CASE op.type \in SellOffers
  <2>1. h.kind = "ManageOffer" /\ h.offer_type = "Sell"
    BY <1>5, KindsOfOperations DEF h, FromHorizon, SellOffers
  <2>2. type = "manage_sell_offer"
    BY <2>1, TypesTold DEF type, ExplainOperation
  <2> QED
    BY <1>5, <2>1, <2>2 DEF ReportedType, Supported, SellOffers
<1>6. CASE op.type = "manage_buy_offer"
  <2>1. h.kind = "ManageOffer" /\ h.offer_type = "Buy"
    BY <1>6, KindsOfOperations DEF h, FromHorizon, SellOffers
  <2>2. type = "manage_buy_offer"
    BY <2>1, TypesTold DEF type, ExplainOperation
  <2> QED
    BY <1>6, <2>1, <2>2 DEF ReportedType, Supported, SellOffers
<1>7. CASE op.type = "path_payment_strict_send"
  <2>1. h.kind = "PathPayment" /\ h.payment_type = "StrictSend"
    BY <1>7, KindsOfOperations DEF h, FromHorizon, SellOffers
  <2>2. type = "path_payment_strict_send"
    BY <2>1, TypesTold DEF type, ExplainOperation
  <2> QED
    BY <1>7, <2>1, <2>2 DEF ReportedType, Supported, SellOffers
<1>8. CASE op.type = "path_payment_strict_receive"
  <2>1. h.kind = "PathPayment" /\ h.payment_type = "StrictReceive"
    BY <1>8, KindsOfOperations DEF h, FromHorizon, SellOffers
  <2>2. type = "path_payment_strict_receive"
    BY <2>1, TypesTold DEF type, ExplainOperation
  <2> QED
    BY <1>8, <2>1, <2>2 DEF ReportedType, Supported, SellOffers
<1>9. CASE op.type = "clawback"
  <2>1. h.kind = "Clawback"
    BY <1>9, KindsOfOperations DEF h, FromHorizon, SellOffers
  <2>2. type = "clawback"
    BY <2>1, TypesTold DEF type, ExplainOperation
  <2> QED
    BY <1>9, <2>1, <2>2 DEF ReportedType, Supported, SellOffers
<1>10. CASE op.type = "clawback_claimable_balance"
  <2>1. h.kind = "ClawbackClaimableBalance"
    BY <1>10, KindsOfOperations DEF h, FromHorizon, SellOffers
  <2>2. type = "clawback_claimable_balance"
    BY <2>1, TypesTold DEF type, ExplainOperation
  <2> QED
    BY <1>10, <2>1, <2>2 DEF ReportedType, Supported, SellOffers
<1>11. CASE op.type = "account_merge"
  <2>1. h.kind = "AccountMerge"
    BY <1>11, KindsOfOperations DEF h, FromHorizon, SellOffers
  <2>2. type = "account_merge"
    BY <2>1, TypesTold DEF type, ExplainOperation
  <2> QED
    BY <1>11, <2>1, <2>2 DEF ReportedType, Supported, SellOffers
<1>12. CASE op.type \notin Supported
  <2>1. h.kind = "Other" /\ h.operation_type = op.type
    BY <1>12 DEF h, FromHorizon, Supported, SellOffers
  <2>2. type = op.type
    BY <2>1 DEF type, ExplainOperation
  <2> QED
    BY <1>12, <2>1, <2>2 DEF ReportedType, Supported, SellOffers
<1>13. \/ op.type \in {"payment", "set_options", "create_account", "change_trust"}
       \/ op.type \in SellOffers \/ op.type = "manage_buy_offer"
       \/ op.type \in {"path_payment_strict_send", "path_payment_strict_receive"}
       \/ op.type \in {"clawback", "clawback_claimable_balance", "account_merge"}
       \/ op.type \notin Supported
  BY DEF Supported
<1> QED
  BY <1>1, <1>2, <1>3, <1>4, <1>5, <1>6, <1>7, <1>8, <1>9, <1>10, <1>11, <1>12, <1>13

\* The note of a payment says of the fee what the transaction's explanation does.
LEMMA NotesOnFees ==
  ASSUME NEW op, NEW fee, NEW base_fee
  PROVE  ExplainPayment(op, fee, base_fee).fee_note =
           IF ExplainFee(fee, base_fee).claim = "none" THEN None ELSE ExplainFee(fee, base_fee)
<1>1. ExplainPayment(op, fee, base_fee).fee_note = FeeNote(fee, base_fee)
  BY DEF ExplainPayment
<1>2. CASE base_fee = None
  BY <1>1, <1>2 DEF FeeNote, ExplainFee
<1>3. CASE base_fee # None
  <2>1. ExplainFee(fee, base_fee) = FeeNote(fee, base_fee)
    BY <1>3 DEF FeeNote, ExplainFee
  <2>2. FeeNote(fee, base_fee).claim # "none"
    BY <1>3 DEF FeeNote
  <2> QED
    BY <1>1, <2>1, <2>2
<1> QED
  BY <1>2, <1>3

\* A payment is told in the list of operations as in that of payments.
LEMMA PaymentsAreToldAlike ==
  ASSUME NEW op, op.kind = "Payment", NEW fee, NEW base_fee
  PROVE  LET told == ExplainOperation(op, fee, base_fee)
             note == ExplainPayment(op, fee, base_fee) IN
           /\ told.summary = note.summary
           /\ \A f \in DOMAIN told.details : note[f] = told.details[f]
<1> DEFINE note == ExplainPayment(op, fee, base_fee)
<1>1. ExplainOperation(op, fee, base_fee) = PaymentDetails(note)
  BY DEF ExplainOperation
<1> HIDE DEF note
<1>2. /\ PaymentDetails(note).summary = note.summary
      /\ PaymentDetails(note).details =
           [from |-> note.from, to |-> note.to, amount |-> note.amount, asset |-> note.asset]
  BY DEF PaymentDetails
<1> QED
  BY <1>1, <1>2 DEF note

\* The failures of an explanation are those of the abstract one, with a sentence each.
LEMMA FailuresAgree ==
  ASSUME NEW tx
  PROVE  {[index |-> f.index, code |-> f.code] : f \in ExplainFailure(tx).operations}
           = FailureOf(tx).operations
<1> DEFINE failed == FailureOf(tx).operations
           told == ExplainFailure(tx).operations
           codes == ResultCodes(tx).operations
           at == Positions(codes, LAMBDA c : c # "op_success")
<1>1. ASSUME NEW f \in failed PROVE f = [index |-> f.index, code |-> f.code]
  <2>1. CASE tx.successful \/ ResultCodes(tx) = None
    <3>1. failed = {}
      BY <2>1 DEF FailureOf
    <3> QED
      BY <3>1
  <2>2. CASE ~(tx.successful \/ ResultCodes(tx) = None)
    <3>1. failed = OperationFailures(codes)
      BY <2>2 DEF FailureOf
    <3>2. OperationFailures(codes) = {[index |-> i - 1, code |-> codes[i]] : i \in at}
      BY DEF OperationFailures
    <3> HIDE DEF at, codes, failed
    <3>3. PICK i \in at : f = [index |-> i - 1, code |-> codes[i]]
      BY <3>1, <3>2
    <3> QED
      BY <3>3
  <2> QED
    BY <2>1, <2>2
<1>2. told = {[index |-> f.index, code |-> f.code, explanation |-> TranslateOpCode(f.code)] : f \in failed}
  BY DEF ExplainFailure
<1> HIDE DEF failed, told, at, codes
<1>3. \A h \in told : [index |-> h.index, code |-> h.code] \in failed
  <2> SUFFICES ASSUME NEW h \in told
               PROVE  [index |-> h.index, code |-> h.code] \in failed
    OBVIOUS
  <2>1. PICK f \in failed :
          h = [index |-> f.index, code |-> f.code, explanation |-> TranslateOpCode(f.code)]
    BY <1>2
  <2> QED
    BY <1>1, <2>1
<1>4. \A f \in failed : \E h \in told : f = [index |-> h.index, code |-> h.code]
  <2> SUFFICES ASSUME NEW f \in failed
               PROVE  \E h \in told : f = [index |-> h.index, code |-> h.code]
    OBVIOUS
  <2> DEFINE h == [index |-> f.index, code |-> f.code, explanation |-> TranslateOpCode(f.code)]
  <2>1. h \in told
    BY <1>2
  <2>2. f = [index |-> h.index, code |-> h.code]
    BY <1>1
  <2> QED
    BY <2>1, <2>2
<1>5. {[index |-> h.index, code |-> h.code] : h \in told} = failed
  <2> DEFINE bare(h) == [index |-> h.index, code |-> h.code]
  <2>1. /\ \A h \in told : bare(h) \in failed
        /\ \A f \in failed : \E h \in told : f = bare(h)
    BY <1>3, <1>4
  <2> HIDE DEF bare
  <2>2. {bare(h) : h \in told} \subseteq failed
    BY <2>1
  <2>3. failed \subseteq {bare(h) : h \in told}
    <3> SUFFICES ASSUME NEW f \in failed PROVE f \in {bare(h) : h \in told}
      OBVIOUS
    <3>1. PICK h \in told : f = bare(h)
      BY <2>1
    <3> QED
      BY <3>1
  <2> QED
    BY <2>2, <2>3 DEF bare
<1> QED
  BY <1>5 DEF failed, told

\* The parts of an explanation agree, whatever Horizon says of a transaction: a
\* payment has the arm of a payment in both lists, no other operation is reported
\* as one, and all counts are of the same positions.
LEMMA PartsOfExplanation ==
  ASSUME NEW tx, NEW S, NEW records \in Seq(S), NEW base_fee
  PROVE  PartsAgree(ExplainTransaction(tx, records, base_fee), tx, records, base_fee)
<1> DEFINE n == Len(records)
           fee == tx.fee_charged
           ops == MapTransactionToDomain(records)
           payments == PaymentOperations(ops)
           I == IsKind(ops, "Payment")
           O == IsKind(ops, "Other")
           told(i) == ExplainOperation(ops[i], fee, base_fee)
           body == ExplainTransaction(tx, records, base_fee)
           notes == body.payment_explanations
           J == {i \in 1 .. Len(body.operations) : body.operations[i].told.type = "payment"}
           paid == Selection(body.operations, J)
           types == TypesOf(records)
           abstract == Explain(tx, types, base_fee)
<1>1. n \in Nat /\ Len(ops) = n /\ \A i \in 1 .. n : ops[i] = FromHorizon(records[i])
  BY DEF MapTransactionToDomain
<1>2. Len(types) = n /\ \A i \in 1 .. n : types[i] = records[i].type
  BY <1>1 DEF TypesOf
<1>3. /\ body.successful = tx.successful
      /\ body.summary = BuildTransactionSummary(tx.successful, Cardinality(I), Cardinality(O))
      /\ body.operations = [i \in 1 .. Len(ops) |-> OperationExplanation(i, told(i))]
      /\ notes = [i \in 1 .. Len(payments) |-> ExplainPayment(payments[i], fee, base_fee)]
      /\ body.skipped_operations = Cardinality(O)
      /\ body.memo_explanation.kind = ExplainMemo(tx.memo_type, tx.memo)
      /\ body.fee_explanation = ExplainFee(fee, base_fee)
      /\ body.failure = ExplainFailure(tx)
  BY DEF ExplainTransaction
<1>4. payments = Selection(ops, I) /\ I \subseteq 1 .. n /\ \A i \in I : ops[i].kind = "Payment"
  BY <1>1 DEF PaymentOperations, IsKind
<1>5. /\ I = Positions(types, IsPayment)
      /\ O = Positions(types, IsOther)
  <2> HIDE DEF ops, types
  <2>1. \A i \in 1 .. n : /\ ops[i].kind = "Payment" <=> types[i] = "payment"
                          /\ ops[i].kind = "Other" <=> types[i] \notin Supported
    <3> SUFFICES ASSUME NEW i \in 1 .. n
                 PROVE  /\ ops[i].kind = "Payment" <=> types[i] = "payment"
                        /\ ops[i].kind = "Other" <=> types[i] \notin Supported
      OBVIOUS
    <3>1. ops[i] = FromHorizon(records[i]) /\ types[i] = records[i].type
      BY <1>1, <1>2
    <3> QED
      BY <3>1, TypeIsReported
  <2>2. I = {i \in 1 .. n : ops[i].kind = "Payment"} /\ O = {i \in 1 .. n : ops[i].kind = "Other"}
    BY <1>1 DEF IsKind
  <2>3. /\ Positions(types, IsPayment) = {i \in 1 .. n : types[i] = "payment"}
        /\ Positions(types, IsOther) = {i \in 1 .. n : types[i] \notin Supported}
    BY <1>2 DEF Positions, IsPayment, IsOther
  <2> QED
    BY <2>1, <2>2, <2>3
<1> HIDE DEF ops, payments, I, O, types
<1> HIDE DEF body
<1>6. /\ Len(body.operations) = n
      /\ \A i \in 1 .. n : /\ body.operations[i].index = i - 1
                           /\ body.operations[i].told = told(i)
                           /\ told(i).type = ReportedType(types[i])
  <2>1. body.operations = [i \in 1 .. n |-> OperationExplanation(i, told(i))]
    BY <1>1, <1>3
  <2>2. ASSUME NEW i \in 1 .. n PROVE told(i).type = ReportedType(types[i])
    <3>1. told(i) = ExplainOperation(FromHorizon(records[i]), fee, base_fee)
      BY <1>1
    <3> QED
      BY <1>2, <3>1, TypeIsReported
  <2> QED
    BY <1>1, <2>1, <2>2 DEF OperationExplanation
<1> HIDE DEF told
<1>7. J = I
  <2>1. \A type : ReportedType(type) = "payment" <=> type = "payment"
    BY DEF ReportedType, SellOffers
  <2> QED
    BY <1>2, <1>5, <1>6, <2>1 DEF Positions, IsPayment
<1>8. /\ Cardinality(I) \in Nat
      /\ Len(notes) = Cardinality(I) /\ Len(paid) = Cardinality(I)
      /\ \A k \in 1 .. Cardinality(I) :
           /\ Nth(I, k) \in I
           /\ paid[k].told = told(Nth(I, k))
           /\ notes[k] = ExplainPayment(ops[Nth(I, k)], fee, base_fee)
  <2>1. /\ Cardinality(I) \in Nat /\ Len(payments) = Cardinality(I)
        /\ \A k \in 1 .. Cardinality(I) : Nth(I, k) \in I /\ payments[k] = ops[Nth(I, k)]
    <3>1. Len(ops) \in Nat /\ I \subseteq 1 .. Len(ops)
      BY <1>1, <1>4
    <3> QED
      BY <1>4, <3>1, SelectionElements
  <2>2. /\ Len(paid) = Cardinality(I)
        /\ \A k \in 1 .. Cardinality(I) : paid[k] = body.operations[Nth(I, k)]
    <3> DEFINE all == body.operations
    <3>1. Len(all) \in Nat /\ I \subseteq 1 .. Len(all)
      BY <1>1, <1>4, <1>6
    <3>2. paid = Selection(all, I)
      BY <1>7
    <3> HIDE DEF all, paid
    <3> QED
      BY <3>1, <3>2, SelectionElements DEF all
  <2>3. notes = [k \in 1 .. Cardinality(I) |-> ExplainPayment(payments[k], fee, base_fee)]
    BY <1>3, <2>1
  <2> HIDE DEF notes, paid, J
  <2>4. Len(notes) = Cardinality(I)
    BY <2>1, <2>3
  <2>5. ASSUME NEW k \in 1 .. Cardinality(I)
        PROVE  /\ Nth(I, k) \in I
               /\ paid[k].told = told(Nth(I, k))
               /\ notes[k] = ExplainPayment(ops[Nth(I, k)], fee, base_fee)
    <3>1. Nth(I, k) \in I /\ Nth(I, k) \in 1 .. n
      BY <1>4, <2>1
    <3>2. paid[k] = body.operations[Nth(I, k)]
      BY <2>2
    <3>3. notes[k] = ExplainPayment(payments[k], fee, base_fee) /\ payments[k] = ops[Nth(I, k)]
      BY <2>1, <2>3
    <3> QED
      BY <1>6, <3>1, <3>2, <3>3
  <2> QED
    BY <2>1, <2>2, <2>4, <2>5
<1> HIDE DEF J, paid, notes
<1>9. ASSUME NEW k \in 1 .. Len(notes)
      PROVE  /\ notes[k].summary = paid[k].told.summary
             /\ \A f \in DOMAIN paid[k].told.details : notes[k][f] = paid[k].told.details[f]
             /\ IF body.fee_explanation.claim = "none" THEN notes[k].fee_note = None
                ELSE notes[k].fee_note = body.fee_explanation
  <2> DEFINE op == ops[Nth(I, k)]
  <2>1. /\ op.kind = "Payment"
        /\ paid[k].told = ExplainOperation(op, fee, base_fee)
        /\ notes[k] = ExplainPayment(op, fee, base_fee)
    BY <1>4, <1>8 DEF told
  <2> HIDE DEF op
  <2>2. /\ notes[k].summary = paid[k].told.summary
        /\ \A f \in DOMAIN paid[k].told.details : notes[k][f] = paid[k].told.details[f]
    BY <2>1, PaymentsAreToldAlike
  <2>3. IF body.fee_explanation.claim = "none" THEN notes[k].fee_note = None
        ELSE notes[k].fee_note = body.fee_explanation
    BY <1>3, <2>1, NotesOnFees
  <2> QED
    BY <2>2, <2>3
<1>10. "payments" \in DOMAIN body.summary =>
         /\ body.summary.payments = Len(notes)
         /\ body.summary.skipped = body.skipped_operations
  BY <1>3, <1>8 DEF BuildTransactionSummary
<1>11. ClaimsOf(body) = Without(abstract, "failure")
  <2> DEFINE entries == [i \in 1 .. n |-> [index |-> i - 1, type |-> ReportedType(types[i])]]
             claims == [ successful |-> tx.successful, operations |-> entries,
                         payments |-> Cardinality(I), skipped |-> Cardinality(O),
                         memo |-> ExplainMemo(tx.memo_type, tx.memo),
                         fee |-> ExplainFee(fee, base_fee) ]
  <2>1. ClaimsOf(body) = claims
    <3>1. [i \in 1 .. Len(body.operations) |->
             [index |-> body.operations[i].index, type |-> body.operations[i].told.type]] = entries
      BY <1>6
    <3>2. Len(body.payment_explanations) = Cardinality(I)
      BY <1>8 DEF notes
    <3> HIDE DEF entries
    <3> QED
      BY <1>3, <3>1, <3>2 DEF ClaimsOf
  <2>2. ExplainOperations(types) = entries
    BY <1>2 DEF ExplainOperations
  <2>3. Without(abstract, "failure") = claims
    <3> HIDE DEF entries
    <3>1. abstract = [ successful |-> tx.successful, operations |-> entries,
                       payments |-> Cardinality(I), skipped |-> Cardinality(O),
                       memo |-> ExplainMemo(tx.memo_type, tx.memo),
                       fee |-> ExplainFee(fee, base_fee), failure |-> FailureOf(tx) ]
      BY <1>5, <2>2 DEF Explain
    <3> QED
      BY <3>1 DEF Without
  <2> QED
    BY <2>1, <2>3
<1>12. {[index |-> f.index, code |-> f.code] : f \in body.failure.operations}
         = abstract.failure.operations
  <2>1. abstract.failure = FailureOf(tx)
    BY DEF Explain
  <2> QED
    BY <1>3, <2>1, FailuresAgree
<1>13. Len(notes) = Len(paid)
  BY <1>8
<1> HIDE DEF abstract
<1> QED
  BY <1>9, <1>10, <1>11, <1>12, <1>13 DEF PartsAgree, body, notes, paid, J, abstract, types

(***************************************************************************)
(* The calendar.  What its two recursive functions compute is shown in two *)
(* steps: each is defined by its equation, since some function satisfies   *)
(* that; and a least number of days for which it goes wrong cannot be.     *)
(***************************************************************************)

\* A set of numbers has a least one; what follows by induction follows from this.
LEMMA LeastNumber ==
  ASSUME NEW T, T \subseteq Nat, T # {}
  PROVE  \E n \in T : \A m \in T : n <= m
<1> DEFINE R == OpToRel(<, Nat)
<1>1. IsWellFoundedOn(R, Nat)
  BY NatLessThanWellFounded
<1>2. \A m, n \in Nat : <<m, n>> \in R <=> m < n
  BY DEF OpToRel
<1> HIDE DEF R
<1>3. PICK n \in T : \A m \in T : ~(<<m, n>> \in R)
  BY <1>1, WFMin
<1>4. \A m \in T : ~(m < n)
  BY <1>2, <1>3
<1> QED
  BY <1>4

\* The days before a year, from the beginning of year 0.
YearStart(y) == 365 * y + (y + 3) \div 4 - (y + 99) \div 100 + (y + 399) \div 400

LEMMA YearStartGrows ==
  ASSUME NEW y \in Nat
  PROVE  /\ YearStart(y) \in Int /\ DaysInYear(y) \in {365, 366}
         /\ YearStart(y + 1) = YearStart(y) + DaysInYear(y)
         /\ \A z \in Nat : y <= z => YearStart(y) <= YearStart(z)
<1>1. DaysInYear(y) \in {365, 366}
  BY SMT DEF DaysInYear
<1>2. YearStart(y) \in Int
  BY SMT DEF YearStart
<1>3. YearStart(y + 1) = YearStart(y) + DaysInYear(y)
  BY SMT DEF YearStart, DaysInYear, IsLeap
<1>4. \A z \in Nat : y <= z => YearStart(y) <= YearStart(z)
  BY SMTT(30) DEF YearStart
<1> QED
  BY SMT, <1>1, <1>2, <1>3, <1>4

\* What is left when the years before the one that has day t are taken off.
YearsFrom(t, y) == {z \in Nat : y <= z /\ YearStart(z) <= t /\ t < YearStart(z + 1)}

YearOf(t, y) == CHOOSE z \in YearsFrom(t, y) : TRUE

LEMMA SplitYearDefined ==
  SplitYear = [when \in Nat \X Nat |->
    LET year == when[1]
        days == when[2] IN
      IF days < DaysInYear(year) THEN when
      ELSE SplitYear[<<year + 1, days - DaysInYear(year)>>]]
<1> DEFINE t(when) == YearStart(when[1]) + when[2]
           z(when) == YearOf(t(when), when[1])
           g == [when \in Nat \X Nat |-> <<z(when), t(when) - YearStart(z(when))>>]
<1>1. ASSUME NEW y \in Nat, NEW d \in Nat
      PROVE  g[<<y, d>>] = IF d < DaysInYear(y) THEN <<y, d>>
                           ELSE g[<<y + 1, d - DaysInYear(y)>>]
  <2> DEFINE s == YearStart(y) + d
  <2>1. g[<<y, d>>] = <<YearOf(s, y), s - YearStart(YearOf(s, y))>>
    OBVIOUS
  <2> HIDE DEF g, z, t
  <2>2. /\ YearStart(y) \in Int /\ YearStart(y + 1) = YearStart(y) + DaysInYear(y)
        /\ DaysInYear(y) \in Nat
        /\ \A x \in Nat : YearStart(x) \in Int
        /\ \A x \in Nat : y + 1 <= x => YearStart(y + 1) <= YearStart(x)
    BY SMT, YearStartGrows
  <2>3. CASE d < DaysInYear(y)
    <3>1. YearsFrom(s, y) = {y}
      <4>1. y \in YearsFrom(s, y)
        BY SMT, <2>2, <2>3 DEF YearsFrom
      <4>2. \A x \in YearsFrom(s, y) : x = y
        BY SMT, <2>2, <2>3 DEF YearsFrom
      <4> QED
        BY <4>1, <4>2
    <3>2. YearOf(s, y) = y
      BY <3>1 DEF YearOf
    <3> QED
      <4>1. s - YearStart(y) = d
        BY SMT, <2>2
      <4> HIDE DEF s
      <4> QED
        BY <2>1, <2>3, <3>2, <4>1
  <2>4. CASE ~(d < DaysInYear(y))
    <3> DEFINE e == d - DaysInYear(y)
    <3>1. e \in Nat /\ YearStart(y + 1) + e = s
      BY SMT, <2>2, <2>4
    <3>2. YearsFrom(s, y) = YearsFrom(s, y + 1)
      BY SMT, <2>2, <2>4 DEF YearsFrom
    <3>3. YearOf(s, y) = YearOf(s, y + 1)
      BY <3>2 DEF YearOf
    <3> HIDE DEF e, s
    <3>4. g[<<y + 1, e>>] = <<YearOf(s, y + 1), s - YearStart(YearOf(s, y + 1))>>
      BY SMT, <3>1 DEF g, z, t
    <3> QED
      BY SMT, <2>1, <2>4, <3>3, <3>4 DEF e
  <2> QED
    BY <2>3, <2>4
<1> HIDE DEF z, t
<1>2. g = [when \in Nat \X Nat |->
             LET year == when[1]
                 days == when[2] IN
               IF days < DaysInYear(year) THEN when
               ELSE g[<<year + 1, days - DaysInYear(year)>>]]
  <2>1. g = [when \in Nat \X Nat |-> g[when]]
    OBVIOUS
  <2> HIDE DEF g
  <2>2. ASSUME NEW when \in Nat \X Nat
        PROVE  g[when] = LET year == when[1]
                             days == when[2] IN
                           IF days < DaysInYear(year) THEN when
                           ELSE g[<<year + 1, days - DaysInYear(year)>>]
    <3>1. when = <<when[1], when[2]>> /\ when[1] \in Nat /\ when[2] \in Nat
      OBVIOUS
    <3> QED
      BY <1>1, <3>1
  <2> QED
    BY <2>1, <2>2
<1> QED
  BY <1>2 DEF SplitYear

\* Taking off years keeps the day and ends within a year.
LEMMA YearsTakenOff ==
  ASSUME NEW y0 \in Nat, NEW d0 \in Nat
  PROVE  LET year == SplitYear[<<y0, d0>>] IN
           /\ year \in Nat \X Nat
           /\ y0 <= year[1]
           /\ year[2] < DaysInYear(year[1])
           /\ YearStart(year[1]) + year[2] = YearStart(y0) + d0
<1> DEFINE Ends(y, d) ==
             LET year == SplitYear[<<y, d>>] IN
               /\ year \in Nat \X Nat
               /\ y <= year[1]
               /\ year[2] < DaysInYear(year[1])
               /\ YearStart(year[1]) + year[2] = YearStart(y) + d
           T == {d \in Nat : \E y \in Nat : ~Ends(y, d)}
<1>1. ASSUME NEW y \in Nat, NEW d \in Nat
      PROVE  SplitYear[<<y, d>>] = IF d < DaysInYear(y) THEN <<y, d>>
                                   ELSE SplitYear[<<y + 1, d - DaysInYear(y)>>]
  <2>1. <<y, d>> \in Nat \X Nat
    OBVIOUS
  <2> QED
    BY <2>1, SplitYearDefined
<1>2. SUFFICES ASSUME T # {} PROVE FALSE
  BY <1>2
<1>3. PICK d \in T : \A e \in T : d <= e
  BY <1>2, LeastNumber
<1>4. PICK y \in Nat : ~Ends(y, d)
  BY <1>3
<1>5. /\ YearStart(y) \in Int /\ YearStart(y + 1) = YearStart(y) + DaysInYear(y)
      /\ DaysInYear(y) \in Nat \ {0}
  BY SMT, YearStartGrows
<1>6. CASE d < DaysInYear(y)
  <2>1. SplitYear[<<y, d>>] = <<y, d>>
    BY <1>1, <1>3, <1>6
  <2>2. Ends(y, d)
    BY SMT, <1>3, <1>6, <2>1
  <2> QED
    BY <1>4, <2>2
<1>7. CASE ~(d < DaysInYear(y))
  <2> DEFINE e == d - DaysInYear(y)
  <2>1. d \in Nat /\ e \in Nat /\ e < d /\ y + 1 \in Nat
    BY SMT, <1>3, <1>5, <1>7
  <2>2. SplitYear[<<y, d>>] = SplitYear[<<y + 1, e>>]
    BY <1>1, <1>7, <2>1
  <2>3. e \notin T
    <3> HIDE DEF e, T
    <3> QED
      BY SMT, <1>3, <2>1
  <2>4. Ends(y + 1, e)
    BY <2>1, <2>3
  <2>5. YearStart(y + 1) + e = YearStart(y) + d
    BY SMT, <1>5, <2>1
  <2> HIDE DEF e, T
  <2>6. Ends(y, d)
    BY SMT, <2>2, <2>4, <2>5
  <2> QED
    BY <1>4, <2>6
<1> QED
  BY <1>6, <1>7

\* The days of a year before each month, and the days of the year.
MonthStarts(y) ==
  LET l == IF IsLeap(y) THEN 1 ELSE 0 IN
    << 0, 31, 59 + l, 90 + l, 120 + l, 151 + l, 181 + l, 212 + l, 243 + l, 273 + l,
       304 + l, 334 + l, 365 + l >>

LEMMA MonthStartsGrow ==
  ASSUME NEW y
  PROVE  /\ \A m \in 1 .. 13 : MonthStarts(y)[m] \in Nat
         /\ \A m \in 1 .. 12 : /\ MonthLengths(y)[m] \in Nat \ {0}
                               /\ MonthStarts(y)[m + 1] = MonthStarts(y)[m] + MonthLengths(y)[m]
         /\ \A m, n \in 1 .. 13 : m <= n => MonthStarts(y)[m] <= MonthStarts(y)[n]
         /\ MonthStarts(y)[1] = 0
         /\ MonthStarts(y)[13] = DaysInYear(y)
<1>1. \A m \in 1 .. 13 : m \in {1, 2, 3, 4, 5, 6, 7, 8, 9, 10, 11, 12, 13}
  BY SMT
<1>2. \A m \in 1 .. 12 : m \in {1, 2, 3, 4, 5, 6, 7, 8, 9, 10, 11, 12}
  BY SMT
<1>3. \A m \in 1 .. 13 : MonthStarts(y)[m] \in Nat
  BY SMT, <1>1 DEF MonthStarts
<1>4. \A m \in 1 .. 12 : /\ MonthLengths(y)[m] \in Nat \ {0}
                         /\ MonthStarts(y)[m + 1] = MonthStarts(y)[m] + MonthLengths(y)[m]
  BY SMT, <1>2 DEF MonthStarts, MonthLengths
<1>5. \A m, n \in 1 .. 13 : m <= n => MonthStarts(y)[m] <= MonthStarts(y)[n]
  BY SMT, <1>1 DEF MonthStarts
<1>6. MonthStarts(y)[1] = 0 /\ MonthStarts(y)[13] = DaysInYear(y)
  BY SMT DEF MonthStarts, DaysInYear
<1> QED
  BY <1>3, <1>4, <1>5, <1>6

\* The months from m on in which day t of year y may be; month 13 is beyond the year.
MonthsFrom(t, y, m) ==
  {n \in 1 .. 13 : /\ m <= n
                   /\ MonthStarts(y)[n] <= t
                   /\ n # 13 => t < MonthStarts(y)[n + 1]}

MonthOf(t, y, m) == CHOOSE n \in MonthsFrom(t, y, m) : TRUE

LEMMA SplitMonthDefined ==
  SplitMonth = [when \in Nat \X (1 .. 13) \X Nat |->
    LET length == MonthLengths(when[1])[when[2]] IN
      IF when[2] = 13 \/ when[3] < length THEN when
      ELSE SplitMonth[<<when[1], when[2] + 1, when[3] - length>>]]
<1> DEFINE t(when) == MonthStarts(when[1])[when[2]] + when[3]
           z(when) == MonthOf(t(when), when[1], when[2])
           g == [when \in Nat \X (1 .. 13) \X Nat |->
                   <<when[1], z(when), t(when) - MonthStarts(when[1])[z(when)]>>]
           length(y, m) == MonthLengths(y)[m]
<1>1. ASSUME NEW y \in Nat, NEW m \in 1 .. 13, NEW d \in Nat
      PROVE  g[<<y, m, d>>] = IF m = 13 \/ d < length(y, m) THEN <<y, m, d>>
                              ELSE g[<<y, m + 1, d - length(y, m)>>]
  <2> DEFINE s == MonthStarts(y)[m] + d
             start(n) == MonthStarts(y)[n]
  <2>1. g[<<y, m, d>>] = <<y, MonthOf(s, y, m), s - start(MonthOf(s, y, m))>>
    OBVIOUS
  <2>2. /\ \A n \in 1 .. 13 : start(n) \in Nat
        /\ \A n, k \in 1 .. 13 : n <= k => start(n) <= start(k)
        /\ m # 13 => length(y, m) \in Nat \ {0} /\ start(m + 1) = start(m) + length(y, m)
    BY MonthStartsGrow
  <2>3. MonthsFrom(s, y, m) =
          {n \in 1 .. 13 : m <= n /\ start(n) <= s /\ (n # 13 => s < start(n + 1))}
    BY DEF MonthsFrom
  <2>4. s = start(m) + d /\ s - start(m) = d
    BY SMT, <2>2
  <2> HIDE DEF g, z, t, start, length, s
  <2>5. CASE m = 13 \/ d < length(y, m)
    <3>1. MonthsFrom(s, y, m) = {m}
      <4>1. m \in MonthsFrom(s, y, m)
        BY SMT, <2>2, <2>3, <2>4, <2>5
      <4>2. \A n \in MonthsFrom(s, y, m) : n = m
        BY SMT, <2>2, <2>3, <2>4, <2>5
      <4> QED
        BY <4>1, <4>2
    <3>2. MonthOf(s, y, m) = m
      BY <3>1 DEF MonthOf
    <3> QED
      BY <2>1, <2>4, <2>5, <3>2
  <2>6. CASE ~(m = 13 \/ d < length(y, m))
    <3> DEFINE e == d - length(y, m)
    <3>1. m + 1 \in 1 .. 13 /\ e \in Nat /\ start(m + 1) + e = s
      BY SMT, <2>2, <2>4, <2>6
    <3>2. MonthsFrom(s, y, m + 1) =
            {n \in 1 .. 13 : m + 1 <= n /\ start(n) <= s /\ (n # 13 => s < start(n + 1))}
      BY DEF MonthsFrom, start
    <3>3. MonthsFrom(s, y, m) = MonthsFrom(s, y, m + 1)
      <4>1. start(m + 1) <= s /\ s \in Nat /\ start(m + 1) \in Nat
        BY SMT, <2>2, <3>1
      <4>2. ASSUME NEW n \in 1 .. 13, m <= n, n # 13 => s < start(n + 1) PROVE m + 1 <= n
        <5>1. n # m
          BY SMT, <2>6, <4>1, <4>2
        <5> QED
          BY SMT, <4>2, <5>1
      <4> QED
        BY SMT, <2>3, <3>2, <4>2
    <3>4. MonthOf(s, y, m) = MonthOf(s, y, m + 1)
      BY <3>3 DEF MonthOf
    <3> HIDE DEF e
    <3>5. g[<<y, m + 1, e>>] = <<y, MonthOf(s, y, m + 1), s - start(MonthOf(s, y, m + 1))>>
      BY <3>1 DEF g, z, t, start
    <3> QED
      BY <2>1, <2>6, <3>4, <3>5 DEF e
  <2> QED
    BY <2>5, <2>6
<1> HIDE DEF z, t
<1>2. g = [when \in Nat \X (1 .. 13) \X Nat |-> g[when]]
  OBVIOUS
<1> HIDE DEF g
<1>3. ASSUME NEW when \in Nat \X (1 .. 13) \X Nat
      PROVE  g[when] = LET len == MonthLengths(when[1])[when[2]] IN
                         IF when[2] = 13 \/ when[3] < len THEN when
                         ELSE g[<<when[1], when[2] + 1, when[3] - len>>]
  <2>1. PICK y \in Nat, m \in 1 .. 13, d \in Nat : when = <<y, m, d>>
    OBVIOUS
  <2>2. when[1] = y /\ when[2] = m /\ when[3] = d
    BY <2>1
  <2>3. g[when] = IF m = 13 \/ d < length(y, m) THEN <<y, m, d>>
                  ELSE g[<<y, m + 1, d - length(y, m)>>]
    <3>1. g[<<y, m, d>>] = IF m = 13 \/ d < length(y, m) THEN <<y, m, d>>
                           ELSE g[<<y, m + 1, d - length(y, m)>>]
      BY <1>1
    <3> HIDE DEF length
    <3> QED
      BY <2>1, <3>1
  <2> QED
    BY <2>1, <2>2, <2>3
<1>4. g = [when \in Nat \X (1 .. 13) \X Nat |->
            LET len == MonthLengths(when[1])[when[2]] IN
              IF when[2] = 13 \/ when[3] < len THEN when
              ELSE g[<<when[1], when[2] + 1, when[3] - len>>]]
  BY <1>2, <1>3
<1> QED
  BY <1>4 DEF SplitMonth

\* Taking off months keeps the day of the year and ends within a month.
LEMMA MonthsTakenOff ==
  ASSUME NEW y \in Nat, NEW d0 \in Nat, d0 < DaysInYear(y)
  PROVE  LET month == SplitMonth[<<y, 1, d0>>] IN
           /\ month \in Nat \X (1 .. 12) \X Nat
           /\ month[1] = y
           /\ month[3] < MonthLengths(y)[month[2]]
           /\ MonthStarts(y)[month[2]] + month[3] = d0
<1> DEFINE Ends(m, d) ==
             LET month == SplitMonth[<<y, m, d>>] IN
               /\ month \in Nat \X (1 .. 12) \X Nat
               /\ month[1] = y
               /\ month[3] < MonthLengths(y)[month[2]]
               /\ MonthStarts(y)[month[2]] + month[3] = MonthStarts(y)[m] + d
           T == {d \in Nat : \E m \in 1 .. 13 :
                   MonthStarts(y)[m] + d < MonthStarts(y)[13] /\ ~Ends(m, d)}
<1>1. ASSUME NEW m \in 1 .. 13, NEW d \in Nat
      PROVE  SplitMonth[<<y, m, d>>] =
               IF m = 13 \/ d < MonthLengths(y)[m] THEN <<y, m, d>>
               ELSE SplitMonth[<<y, m + 1, d - MonthLengths(y)[m]>>]
  <2>1. <<y, m, d>> \in Nat \X (1 .. 13) \X Nat
    OBVIOUS
  <2> QED
    BY <2>1, SplitMonthDefined
<1>2. /\ T \subseteq Nat
      /\ \A d \in T : \E m \in 1 .. 13 :
           MonthStarts(y)[m] + d < MonthStarts(y)[13] /\ ~Ends(m, d)
      /\ \A m \in 1 .. 13, d \in Nat :
           MonthStarts(y)[m] + d < MonthStarts(y)[13] /\ d \notin T => Ends(m, d)
  <2> HIDE DEF Ends
  <2> QED
    OBVIOUS
<1> HIDE DEF T, Ends
<1>3. /\ \A n \in 1 .. 13 : MonthStarts(y)[n] \in Nat
      /\ \A n \in 1 .. 12 : /\ MonthLengths(y)[n] \in Nat \ {0}
                            /\ MonthStarts(y)[n + 1] = MonthStarts(y)[n] + MonthLengths(y)[n]
  BY MonthStartsGrow
<1>4. T = {}
  <2> SUFFICES ASSUME T # {} PROVE FALSE
    OBVIOUS
  <2>1. PICK d \in T : \A e \in T : d <= e
    BY <1>2, LeastNumber
  <2>2. PICK m \in 1 .. 13 : MonthStarts(y)[m] + d < MonthStarts(y)[13] /\ ~Ends(m, d)
    BY <1>2
  <2>3. d \in Nat /\ MonthStarts(y)[m] \in Nat /\ MonthStarts(y)[13] \in Nat
    <3>1. d \in Nat /\ 13 \in 1 .. 13
      BY SMT, <1>2
    <3> QED
      BY <1>3, <3>1
  <2>4. m \in 1 .. 12
    BY SMT, <2>2, <2>3
  <2>5. /\ MonthLengths(y)[m] \in Nat \ {0}
        /\ MonthStarts(y)[m + 1] = MonthStarts(y)[m] + MonthLengths(y)[m]
    BY <1>3, <2>4
  <2>6. CASE d < MonthLengths(y)[m]
    <3>1. SplitMonth[<<y, m, d>>] = <<y, m, d>>
      BY <1>1, <2>3, <2>6
    <3>2. Ends(m, d)
      <4> DEFINE month == SplitMonth[<<y, m, d>>]
      <4>1. month[1] = y /\ month[2] = m /\ month[3] = d
        BY <3>1
      <4>2. month \in Nat \X (1 .. 12) \X Nat
        <5>1. <<y, m, d>> \in Nat \X (1 .. 12) \X Nat
          BY <2>3, <2>4
        <5> QED
          BY <3>1, <5>1
      <4> HIDE DEF month
      <4>3. /\ month[3] < MonthLengths(y)[month[2]]
            /\ MonthStarts(y)[month[2]] + month[3] = MonthStarts(y)[m] + d
        BY <2>6, <4>1
      <4> QED
        BY <4>1, <4>2, <4>3 DEF Ends, month
    <3> QED
      BY <2>2, <3>2
  <2>7. CASE ~(d < MonthLengths(y)[m])
    <3> DEFINE e == d - MonthLengths(y)[m]
    <3>1. e \in Nat /\ e < d /\ m + 1 \in 1 .. 13 /\ m # 13
      BY SMT, <2>3, <2>4, <2>5, <2>7
    <3>2. SplitMonth[<<y, m, d>>] = SplitMonth[<<y, m + 1, e>>]
      BY <1>1, <2>3, <2>7, <3>1
    <3>3. MonthStarts(y)[m + 1] + e = MonthStarts(y)[m] + d
      BY SMT, <2>3, <2>5
    <3>4. e \notin T
      <4> HIDE DEF e
      <4> QED
        BY SMT, <2>1, <2>3, <3>1
    <3> HIDE DEF e
    <3>5. Ends(m + 1, e)
      BY <1>2, <2>2, <3>1, <3>3, <3>4
    <3>6. Ends(m, d)
      BY <3>2, <3>3, <3>5 DEF Ends
    <3> QED
      BY <2>2, <3>6
  <2> QED
    BY <2>6, <2>7
<1>5. MonthStarts(y)[1] = 0 /\ MonthStarts(y)[13] = DaysInYear(y)
  BY MonthStartsGrow
<1>6. Ends(1, d0)
  <2>1. 1 \in 1 .. 13 /\ MonthStarts(y)[1] + d0 < MonthStarts(y)[13] /\ d0 \notin T
    BY SMT, <1>4, <1>5
  <2> QED
    BY <1>2, <2>1
<1>7. MonthStarts(y)[1] + d0 = d0
  BY SMT, <1>5
<1> QED
  BY <1>6, <1>7 DEF Ends

\* The eras of the closed form add up to the years counted by leap days.
LEMMA Eras ==
  ASSUME NEW y \in Nat
  PROVE  /\ (y \div 400) * 146097 + (y % 400) * 365 + (y % 400) \div 4 - (y % 400) \div 100
              = 365 * y + y \div 4 - y \div 100 + y \div 400
         /\ YearStart(y + 1) = 365 * (y + 1) + y \div 4 - y \div 100 + y \div 400 + 1
<1>1. (y \div 400) * 146097 + (y % 400) * 365 + (y % 400) \div 4 - (y % 400) \div 100
        = 365 * y + y \div 4 - y \div 100 + y \div 400
  BY SMTT(60)
<1>2. YearStart(y + 1) = 365 * (y + 1) + y \div 4 - y \div 100 + y \div 400 + 1
  BY SMTT(30) DEF YearStart
<1> QED
  BY <1>1, <1>2

\* The closed form counts the days from the beginning of 1970.
LEMMA DayNumberIs ==
  ASSUME NEW y \in Nat \ {0}, NEW m \in 1 .. 12, NEW d \in Nat
  PROVE  DayNumber(<<y, m, d>>) = YearStart(y) + MonthStarts(y)[m] + d - 1 - 719528
<1> DEFINE count(x) == (x \div 400) * 146097 + (x % 400) * 365 + (x % 400) \div 4 - (x % 400) \div 100
           x == IF m <= 2 THEN y - 1 ELSE y
           of_year == (153 * ((m + 9) % 12) + 2) \div 5
           leap == IF IsLeap(y) THEN 1 ELSE 0
<1>1. DayNumber(<<y, m, d>>) = count(x) + of_year + d - 1 - 719468
  <2>1. DayNumber(<<y, m, d>>) =
          (x \div 400) * 146097 + (x % 400) * 365 + (x % 400) \div 4 - (x % 400) \div 100
            + (of_year + d - 1) - 719468
    BY SMT DEF DayNumber
  <2>2. count(x) \in Int /\ of_year \in Int
    BY SMT
  <2> QED
    BY SMT, <2>1, <2>2
<1>2. m \in {1, 2, 3, 4, 5, 6, 7, 8, 9, 10, 11, 12}
  BY SMT
<1>3. /\ YearStart(y) \in Int /\ DaysInYear(y) = 365 + leap
      /\ YearStart(y + 1) = YearStart(y) + DaysInYear(y)
  <2>1. DaysInYear(y) = 365 + leap
    BY SMT DEF DaysInYear
  <2> QED
    BY <2>1, YearStartGrows
<1> DEFINE start == MonthStarts(y)[m]
<1>4. start \in Int /\ of_year \in Int /\ leap \in Int /\ count(y) \in Int /\ y - 1 \in Nat
  <2>1. m \in 1 .. 13
    BY SMT
  <2>2. start \in Nat
    BY <2>1, MonthStartsGrow
  <2> QED
    BY SMT, <2>2
<1>5. count(y - 1) \in Int
  BY SMT
<1>6. CASE m <= 2
  <2>1. YearStart(y) = count(y - 1) + 366
    <3>1. y - 1 \in Nat /\ (y - 1) + 1 = y
      BY SMT
    <3>2. YearStart(y) = 365 * y + (y - 1) \div 4 - (y - 1) \div 100 + (y - 1) \div 400 + 1
      BY <3>1, Eras
    <3>3. count(y - 1) = 365 * (y - 1) + (y - 1) \div 4 - (y - 1) \div 100 + (y - 1) \div 400
      BY <3>1, Eras
    <3> QED
      BY SMT, <3>1, <3>2, <3>3
  <2>2. of_year = MonthStarts(y)[m] + 306
    BY SMT, <1>2, <1>6 DEF MonthStarts
  <2>3. DayNumber(<<y, m, d>>) = count(y - 1) + of_year + d - 1 - 719468
    BY <1>1, <1>6
  <2> HIDE DEF count, of_year, leap, x
  <2> QED
    BY SMT, <1>4, <1>5, <2>1, <2>2, <2>3
<1>7. CASE ~(m <= 2)
  <2>1. YearStart(y) = count(y) + 1 - leap
    BY SMT, <1>3, Eras
  <2>2. of_year = MonthStarts(y)[m] - 59 - leap
    BY SMT, <1>2, <1>7 DEF MonthStarts
  <2>3. DayNumber(<<y, m, d>>) = count(y) + of_year + d - 1 - 719468
    BY <1>1, <1>7
  <2> HIDE DEF count, of_year, leap, x
  <2> QED
    BY SMT, <1>4, <2>1, <2>2, <2>3
<1> QED
  BY <1>6, <1>7

\* The date that the loops make of a day is one of the calendar, and the closed form
\* makes the day of it again.
LEMMA DatesOfDays ==
  ASSUME NEW days \in Nat
  PROVE  IsDate(DaysToYmd(days)) /\ DayNumber(DaysToYmd(days)) = days
<1> DEFINE year == SplitYear[<<1970, days>>]
           month == SplitMonth[<<year[1], 1, year[2]>>]
           date == DaysToYmd(days)
           y == year[1]
           m == month[2]
           left == month[3]
<1>1. /\ y \in Nat /\ year[2] \in Nat /\ 1970 <= y /\ year[2] < DaysInYear(y)
      /\ YearStart(y) + year[2] = YearStart(1970) + days
  BY SMT, YearsTakenOff
<1>2. YearStart(1970) = 719528
  BY SMT DEF YearStart
<1>3. /\ m \in 1 .. 12 /\ left \in Nat /\ month \in Nat \X (1 .. 12) \X Nat /\ month[1] = y
      /\ left < MonthLengths(y)[m] /\ MonthStarts(y)[m] + left = year[2]
  BY <1>1, MonthsTakenOff
<1>4. date = <<y, m, left + 1>>
  BY <1>3 DEF DaysToYmd
<1> HIDE DEF year, month, date, y, m, left
<1>5. y \in Nat \ {0} /\ left + 1 \in Nat
  BY SMT, <1>1, <1>3
<1>6. DayNumber(date) = days
  <2>1. DayNumber(date) = YearStart(y) + MonthStarts(y)[m] + (left + 1) - 1 - 719528
    BY <1>3, <1>4, <1>5, DayNumberIs
  <2>2. YearStart(y) \in Int /\ MonthStarts(y)[m] \in Nat
    <3>1. YearStart(y) \in Int
      BY <1>1, YearStartGrows
    <3>2. m \in 1 .. 13
      BY SMT, <1>3
    <3>3. \A n \in 1 .. 13 : MonthStarts(y)[n] \in Nat
      BY MonthStartsGrow
    <3> QED
      BY <3>1, <3>2, <3>3
  <2> QED
    BY SMT, <1>1, <1>2, <1>3, <2>1, <2>2
<1>7. IsDate(date)
  <2>1. date[1] = y /\ date[2] = m /\ date[3] = left + 1
    BY <1>4
  <2>2. m = 2 /\ IsLeap(y) => DayNumber(<<y, 3, 1>>) - DayNumber(<<y, 2, 1>>) = 29
    <3>1. /\ DayNumber(<<y, 3, 1>>) = YearStart(y) + MonthStarts(y)[3] + 1 - 1 - 719528
          /\ DayNumber(<<y, 2, 1>>) = YearStart(y) + MonthStarts(y)[2] + 1 - 1 - 719528
      BY SMT, <1>5, DayNumberIs
    <3>2. IsLeap(y) => MonthStarts(y)[3] = 60 /\ MonthStarts(y)[2] = 31
      BY SMT DEF MonthStarts
    <3>3. YearStart(y) \in Int
      BY <1>1, YearStartGrows
    <3> QED
      BY SMT, <3>1, <3>2, <3>3
  <2>3. m \in {1, 2, 3, 4, 5, 6, 7, 8, 9, 10, 11, 12}
    BY SMT, <1>3
  <2>4. left < IF m = 2 THEN IF IsLeap(y) THEN 29 ELSE 28
               ELSE IF m \in {4, 6, 9, 11} THEN 30 ELSE 31
    BY SMT, <1>3, <2>3 DEF MonthLengths
  <2> QED
    BY SMT, <1>3, <2>1, <2>2, <2>4 DEF IsDate
<1> QED
  BY <1>6, <1>7 DEF date

Instants == {t \in [day : Nat, second : Nat] : t.second < 86400}

Epoch == FormatUnixAsIso([day |-> 0, second |-> 0])

\* Hours, minutes and seconds make up the second of the day again.
LEMMA TimestampsAreRight ==
  ASSUME NEW instant \in Instants
  PROVE  /\ IsDate(FormatUnixAsIso(instant).date)
         /\ InstantOf(FormatUnixAsIso(instant)) = instant
<1> DEFINE d == instant.day
           s == instant.second
           hours == s \div 3600
           minutes == (s \div 60) % 60
           seconds == s % 60
           told == FormatUnixAsIso(instant)
<1>1. d \in Nat /\ s \in Nat /\ s < 86400 /\ instant = [day |-> d, second |-> s]
  BY SMT DEF Instants
<1>2. told.date = DaysToYmd(d) /\ told.time = <<hours, minutes, seconds>>
  BY SMT DEF FormatUnixAsIso
<1>3. hours * 3600 + minutes * 60 + seconds = s
  <2> DEFINE q == s \div 60
  <2> HIDE DEF s
  <2>1. q \in Nat /\ s % 60 = s - 60 * q /\ s \div 3600 = q \div 60
    BY SMT, <1>1
  <2> HIDE DEF q
  <2>2. q % 60 = q - 60 * (q \div 60) /\ q \div 60 \in Int
    BY SMT, <2>1
  <2>3. hours = q \div 60 /\ minutes = q - 60 * (q \div 60) /\ seconds = s - 60 * q
    BY <2>1, <2>2 DEF q
  <2> HIDE DEF hours, minutes, seconds
  <2> QED
    BY SMT, <1>1, <2>1, <2>2, <2>3
<1> HIDE DEF d, s, hours, minutes, seconds, told
<1>4. IsDate(told.date) /\ DayNumber(told.date) = d
  BY <1>1, <1>2, DatesOfDays
<1>5. InstantOf(told) = [day |-> d, second |-> s]
  BY SMT, <1>2, <1>3, <1>4 DEF InstantOf
<1> QED
  BY <1>1, <1>4, <1>5 DEF told

LEMMA EpochIsADate == IsDate(Epoch.date)
<1>1. [day |-> 0, second |-> 0] \in Instants
  BY SMT DEF Instants
<1> QED
  BY <1>1, TimestampsAreRight DEF Epoch

\* Twenty-four hours earlier it is the same time of the day before, but not before 1970.
LEMMA ADayBefore ==
  ASSUME NEW instant \in Instants
  PROVE  /\ HoursBefore(instant, 24) \in Instants
         /\ HoursBefore(instant, 24) =
              IF instant.day = 0 THEN [day |-> 0, second |-> 0]
              ELSE [instant EXCEPT !.day = @ - 1]
<1> DEFINE d == instant.day
           s == instant.second
           hour == d * 24 + s \div 3600 - 24
<1>1. d \in Nat /\ s \in Nat /\ s < 86400 /\ instant = [day |-> d, second |-> s]
  BY SMT DEF Instants
<1>2. HoursBefore(instant, 24) =
        IF hour < 0 THEN [day |-> 0, second |-> 0]
        ELSE [day |-> hour \div 24, second |-> (hour % 24) * 3600 + (s % 3600)]
  BY SMT DEF HoursBefore
<1> HIDE DEF d, s
<1>3. CASE d = 0
  <2>1. hour < 0
    BY SMT, <1>1, <1>3
  <2> QED
    BY SMT, <1>2, <1>3, <2>1 DEF Instants, d
<1>4. CASE d # 0
  <2>1. ~(hour < 0) /\ hour \div 24 = d - 1 /\ (hour % 24) * 3600 + (s % 3600) = s
    BY SMT, <1>1, <1>4
  <2>2. HoursBefore(instant, 24) = [day |-> d - 1, second |-> s]
    BY <1>2, <2>1
  <2>3. [instant EXCEPT !.day = @ - 1] = [day |-> d - 1, second |-> s]
    BY <1>1
  <2>4. [day |-> d - 1, second |-> s] \in Instants
    BY SMT, <1>1, <1>4 DEF Instants
  <2> QED
    BY <1>4, <2>2, <2>3, <2>4 DEF d
<1> QED
  BY <1>3, <1>4

LEMMA LaterIsAnInstant ==
  ASSUME NEW instant \in Instants, NEW seconds \in Nat
  PROVE  Later(instant, seconds) \in Instants
<1>1. instant.day \in Nat /\ instant.second \in Nat
  BY SMT DEF Instants
<1>2. /\ instant.day + (instant.second + seconds) \div 86400 \in Nat
      /\ (instant.second + seconds) % 86400 \in Nat
      /\ (instant.second + seconds) % 86400 < 86400
  BY SMT, <1>1
<1> QED
  BY SMT, <1>2 DEF Later, Instants

(***************************************************************************)
(* What the client holds.                                                  *)
(***************************************************************************)

\* An explanation of a transaction was made from what the client asked for, and from
\* nothing that came between.
TransactionInv ==
  Answered("transaction") =>
    /\ asked.records \in Seq(HorizonOps)
    /\ answer.body = ExplainTransaction(asked.tx, asked.records, asked.base_fee)

\* So was the window of a summary.
SummaryInv ==
  Answered("summary") =>
    /\ asked.first \in Instants /\ asked.second \in Instants
    /\ asked.from \in {None, Epoch} /\ asked.to \in {None, Epoch}
    /\ answer.body.from =
         IF asked.from = None THEN DefaultFrom(asked.first, 24) ELSE asked.from
    /\ answer.body.to = IF asked.to = None THEN DefaultTo(asked.second) ELSE asked.to

\* And so was the explanation of an account.
AccountInv ==
  Answered("account") =>
    /\ asked.raw \in HorizonAccounts
    /\ answer.body = ExplainAccount(IntoDomain(asked.raw), asked.name)

AnswerInv == TransactionInv /\ SummaryInv /\ AccountInv

LEMMA InitAnswer == QueriesInit => AnswerInv
  BY DEF QueriesInit, NoQuestion, AnswerInv, TransactionInv, SummaryInv, AccountInv, Answered

\* Pages are neither explanations nor windows.
LEMMA OtherQuestions ==
  ASSUME NEW question, NEW status, NEW body, Told(question, status, body),
         question.kind \notin {"transaction", "summary", "account"}
  PROVE  AnswerInv'
  BY DEF Told, AnswerInv, TransactionInv, SummaryInv, AccountInv, Answered

LEMMA NextAnswer ==
  AnswerInv /\ [QueriesNext]_queryVars => AnswerInv'
<1> SUFFICES ASSUME AnswerInv, [QueriesNext]_queryVars
             PROVE  AnswerInv'
  OBVIOUS
<1>1. CASE AskTransaction
  <2>1. PICK q \in TxQuestions :
          Told([kind |-> "transaction", tx |-> q.tx, records |-> q.records, base_fee |-> q.base_fee],
               IF q.records = <<>> THEN 400 ELSE 200,
               IF q.records = <<>> THEN None ELSE ExplainTransaction(q.tx, q.records, q.base_fee))
    BY <1>1 DEF AskTransaction
  <2>2. q.records \in Seq(HorizonOps)
    BY WhatQueriesAssume DEF QuestionsAssumption
  <2>3. /\ asked' = [kind |-> "transaction", tx |-> q.tx, records |-> q.records, base_fee |-> q.base_fee]
        /\ answer' = [status |-> IF q.records = <<>> THEN 400 ELSE 200,
                      body |-> IF q.records = <<>> THEN None
                               ELSE ExplainTransaction(q.tx, q.records, q.base_fee)]
    BY <2>1 DEF Told
  <2>4. /\ asked'.kind = "transaction"
        /\ asked'.tx = q.tx /\ asked'.records = q.records /\ asked'.base_fee = q.base_fee
    BY <2>3
  <2>5. answer'.status = 200 => answer'.body = ExplainTransaction(q.tx, q.records, q.base_fee)
    BY <2>3
  <2> QED
    BY <2>2, <2>4, <2>5 DEF AnswerInv, TransactionInv, SummaryInv, AccountInv, Answered
<1>2. CASE AskAccount
  <2>1. PICK raw \in HorizonAccounts, name \in Organisations \cup {None} :
          Told([kind |-> "account", raw |-> raw, name |-> name],
               200, ExplainAccount(IntoDomain(raw), name))
    BY <1>2 DEF AskAccount
  <2> DEFINE explained == ExplainAccount(IntoDomain(raw), name)
  <2> HIDE DEF explained
  <2>2. /\ asked' = [kind |-> "account", raw |-> raw, name |-> name]
        /\ answer' = [status |-> 200, body |-> explained]
    BY <2>1 DEF Told, explained
  <2>3. /\ asked'.kind = "account" /\ asked'.raw = raw /\ asked'.name = name
        /\ answer'.body = explained
    BY <2>2
  <2> QED
    BY <2>3 DEF AnswerInv, TransactionInv, SummaryInv, AccountInv, Answered, explained
<1>3. CASE AskSummary
  <2>1. PICK first \in Clock, drift \in 0 .. Drift, from \in {None, Epoch}, to \in {None, Epoch} :
          LET second == Later(first, drift) IN
            Told([kind |-> "summary", from |-> from, to |-> to, first |-> first, second |-> second],
                 200, Summary(from, to, first, second))
    BY <1>3 DEF AskSummary, Epoch
  <2> DEFINE second == Later(first, drift)
             window == Summary(from, to, first, second)
  <2>2. first \in Instants /\ second \in Instants
    <3>1. first \in Instants /\ drift \in Nat
      BY WhatQueriesAssume DEF ClockAssumption, Instants
    <3> QED
      BY <3>1, LaterIsAnInstant
  <2>3. /\ window.from = IF from = None THEN DefaultFrom(first, 24) ELSE from
        /\ window.to = IF to = None THEN DefaultTo(second) ELSE to
    BY DEF Summary
  <2> HIDE DEF second, window
  <2>4. /\ asked' = [kind |-> "summary", from |-> from, to |-> to, first |-> first, second |-> second]
        /\ answer' = [status |-> 200, body |-> window]
    BY <2>1 DEF Told, second, window
  <2>5. /\ asked'.kind = "summary" /\ asked'.from = from /\ asked'.to = to
        /\ asked'.first = first /\ asked'.second = second /\ answer'.body = window
    BY <2>4
  <2> QED
    BY <2>2, <2>3, <2>5 DEF AnswerInv, TransactionInv, SummaryInv, AccountInv, Answered
<1>4. CASE RefusePage \/ FirstPage \/ NextPage \/ PageFails
  <2>1. \E limit, order, status, body :
          Told([kind |-> "page", limit |-> limit, order |-> order], status, body)
    BY <1>4 DEF RefusePage, FirstPage, NextPage, PageFails
  <2>2. PICK limit, order, status, body :
          Told([kind |-> "page", limit |-> limit, order |-> order], status, body)
    BY <2>1
  <2> DEFINE question == [kind |-> "page", limit |-> limit, order |-> order]
  <2>3. question.kind \notin {"transaction", "summary", "account"} /\ Told(question, status, body)
    BY <2>2
  <2> HIDE DEF question
  <2> QED
    BY <2>3, OtherQuestions
<1>5. CASE ReadAnswer
  BY <1>5 DEF ReadAnswer, NoQuestion, AnswerInv, TransactionInv, SummaryInv, AccountInv, Answered
<1>6. CASE Grow
  BY <1>6 DEF Grow, AnswerInv, TransactionInv, SummaryInv, AccountInv, Answered
<1>7. CASE UNCHANGED queryVars
  BY <1>7 DEF queryVars, AnswerInv, TransactionInv, SummaryInv, AccountInv, Answered
<1> QED
  BY <1>1, <1>2, <1>3, <1>4, <1>5, <1>6, <1>7 DEF QueriesNext

LEMMA AnswerAlways == QueriesSpec => []AnswerInv
  BY InitAnswer, NextAnswer, PTL DEF QueriesSpec

\* Whatever Horizon has of a transaction, the parts of its explanation tell the
\* same story, and the one that the types of its operations call for.
THEOREM PartsTellOneStory == QueriesSpec => []ListsAgree
<1>1. AnswerInv => ListsAgree
  <2> SUFFICES ASSUME AnswerInv, Answered("transaction")
               PROVE  PartsAgree(answer.body, asked.tx, asked.records, asked.base_fee)
    BY DEF ListsAgree
  <2> DEFINE records == asked.records
             tx == asked.tx
             base_fee == asked.base_fee
  <2>1. /\ records \in Seq(HorizonOps)
        /\ answer.body = ExplainTransaction(tx, records, base_fee)
    BY DEF AnswerInv, TransactionInv
  <2> HIDE DEF records, tx, base_fee
  <2>2. PartsAgree(ExplainTransaction(tx, records, base_fee), tx, records, base_fee)
    BY <2>1, PartsOfExplanation
  <2> QED
    BY <2>1, <2>2 DEF records, tx, base_fee
<1> QED
  BY <1>1, AnswerAlways, PTL

\* On whatever day, of whatever year, a summary is asked for, the dates of its window
\* are those of the Gregorian calendar, and its default is the day up to the question.
THEOREM WindowsAreGregorian == QueriesSpec => []CalendarIsGregorian
<1>1. AnswerInv => CalendarIsGregorian
  <2> SUFFICES ASSUME SummaryInv, Answered("summary")
               PROVE  /\ IsDate(answer.body.from.date) /\ IsDate(answer.body.to.date)
                      /\ asked.to = None => InstantOf(answer.body.to) = asked.second
                      /\ asked.from = None =>
                           InstantOf(answer.body.from) =
                             IF asked.first.day = 0 THEN [day |-> 0, second |-> 0]
                             ELSE [asked.first EXCEPT !.day = @ - 1]
    BY DEF AnswerInv, CalendarIsGregorian
  <2> DEFINE first == asked.first
             second == asked.second
             from == answer.body.from
             to == answer.body.to
  <2>1. /\ first \in Instants /\ second \in Instants
        /\ asked.from \in {None, Epoch} /\ asked.to \in {None, Epoch}
        /\ from = IF asked.from = None THEN DefaultFrom(first, 24) ELSE asked.from
        /\ to = IF asked.to = None THEN DefaultTo(second) ELSE asked.to
    BY DEF SummaryInv
  <2> HIDE DEF first, second, from, to
  <2>2. IsDate(Epoch.date)
    BY EpochIsADate
  <2>3. IsDate(DefaultTo(second).date) /\ InstantOf(DefaultTo(second)) = second
    BY <2>1, TimestampsAreRight DEF DefaultTo
  <2>4. /\ IsDate(DefaultFrom(first, 24).date)
        /\ InstantOf(DefaultFrom(first, 24)) =
             IF first.day = 0 THEN [day |-> 0, second |-> 0] ELSE [first EXCEPT !.day = @ - 1]
    <3>1. /\ HoursBefore(first, 24) \in Instants
          /\ HoursBefore(first, 24) =
               IF first.day = 0 THEN [day |-> 0, second |-> 0] ELSE [first EXCEPT !.day = @ - 1]
      BY <2>1, ADayBefore
    <3> QED
      BY <3>1, TimestampsAreRight DEF DefaultFrom
  <2>5. IsDate(from.date) /\ IsDate(to.date)
    BY <2>1, <2>2, <2>3, <2>4
  <2> QED
    BY <2>1, <2>3, <2>4, <2>5 DEF first, second, from, to
<1> QED
  BY <1>1, AnswerAlways, PTL

-----------------------------------------------------------------------------
(* What explanations keep apart *)

ExplanationOf(op) == ExplainOperation(FromHorizon(op), 0, None)

\* Two operations that are explained alike.
Alike(a, b) ==
  /\ IsOperation(a) /\ IsOperation(b)
  /\ SameExplanation(ExplanationOf(a), ExplanationOf(b))

AssetTold(op, n, default) ==
  FormatAsset(Field(op, n.type, default), Field(op, n.code, None), Field(op, n.issuer, None))

\* The fee has no place in the list of operations.
LEMMA FeesAreNotTold ==
  ASSUME NEW op, NEW fee, NEW base_fee
  PROVE  ExplainOperation(op, fee, base_fee) = ExplainOperation(op, 0, None)
<1>1. PaymentDetails(ExplainPayment(op, fee, base_fee)) = PaymentDetails(ExplainPayment(op, 0, None))
  BY DEF PaymentDetails, ExplainPayment
<1> QED
  BY <1>1 DEF ExplainOperation

\* Operations are the same to a client when they have the same fields and these
\* are shown alike.
LEMMA CanonIsWhatIsShown ==
  ASSUME NEW a, NEW b, DOMAIN a = DOMAIN b, \A f \in DOMAIN a : Shown(a, f) = Shown(b, f)
  PROVE  Canon(a) = Canon(b)
BY DEF Canon

\* No two assets are written alike.
LEMMA AssetsAreToldApart ==
  ASSUME NEW a, NEW b, IsOperation(a), IsOperation(b), NEW default,
         NEW n \in {PlainAsset, SourceOf, SellingOf, BuyingOf},
         AssetFields(a, n) \subseteq DOMAIN a, AssetFields(b, n) \subseteq DOMAIN b,
         AssetTold(a, n, default) = AssetTold(b, n, default)
  PROVE  /\ AssetFields(a, n) = AssetFields(b, n)
         /\ \A f \in AssetFields(a, n) : Shown(a, f) = Shown(b, f)
<1> DEFINE type == n.type
           code == n.code
           issuer == n.issuer
<1>1. /\ type \in {"asset_type", "source_asset_type", "selling_asset_type", "buying_asset_type"}
      /\ code \in {"asset_code", "source_asset_code", "selling_asset_code", "buying_asset_code"}
      /\ issuer \in {"asset_issuer", "source_asset_issuer", "selling_asset_issuer",
                     "buying_asset_issuer"}
  BY DEF PlainAsset, SourceOf, SellingOf, BuyingOf
<1>2. ASSUME NEW op \in {a, b}
      PROVE  /\ type \in DOMAIN op /\ op[type] # None
             /\ op[type] # "native" =>
                  /\ {code, issuer} \subseteq DOMAIN op
                  /\ op[code] # None /\ op[issuer] # None /\ op[issuer] # "native"
  BY DEF IsOperation, AssetFields
<1>3. ASSUME NEW op \in {a, b}
      PROVE  AssetTold(op, n, default) = IF op[type] = "native" THEN <<"XLM", "native">>
                                         ELSE <<op[code], op[issuer]>>
  <2>1. AssetTold(op, n, default) =
          FormatAsset(op[type], Field(op, code, None), Field(op, issuer, None))
    BY <1>2 DEF AssetTold, Field
  <2>2. CASE op[type] = "native"
    BY <2>1, <2>2 DEF FormatAsset
  <2>3. CASE op[type] # "native"
    <3>1. Field(op, code, None) = op[code] /\ Field(op, issuer, None) = op[issuer]
      BY <1>2, <2>3 DEF Field
    <3> QED
      BY <1>2, <2>1, <2>3, <3>1 DEF FormatAsset
  <2> QED
    BY <2>2, <2>3
<1> HIDE DEF type, code, issuer
<1>4. /\ a[type] = "native" <=> b[type] = "native"
      /\ a[type] # "native" => a[code] = b[code] /\ a[issuer] = b[issuer]
  <2>1. CASE a[type] = "native"
    BY <1>2, <1>3, <2>1
  <2>2. CASE a[type] # "native"
    BY <1>2, <1>3, <2>2
  <2> QED
    BY <2>1, <2>2
<1>5. AssetFields(a, n) = AssetFields(b, n)
  BY <1>4 DEF AssetFields, type, code, issuer
<1>6. ASSUME NEW f \in AssetFields(a, n) PROVE Shown(a, f) = Shown(b, f)
  <2>1. f = type \/ (a[type] # "native" /\ f \in {code, issuer})
    BY DEF AssetFields, type, code, issuer
  <2>2. Shown(a, type) = (a[type] = "native") /\ Shown(b, type) = (b[type] = "native")
    BY <1>1 DEF Shown
  <2>3. ASSUME NEW op PROVE Shown(op, code) = op[code] /\ Shown(op, issuer) = op[issuer]
    BY <1>1 DEF Shown
  <2> QED
    BY <1>4, <2>1, <2>2, <2>3
<1> QED
  BY <1>5, <1>6

\* Payments that are explained alike have the same fields.
LEMMA PaymentsAreToldApart ==
  ASSUME NEW a, NEW b, Alike(a, b), a.type = "payment", b.type = "payment"
  PROVE  Canon(a) = Canon(b)
<1>1. ASSUME NEW op \in {a, b}
      PROVE  /\ DOMAIN op = PaymentFields(op)
             /\ \A f \in DOMAIN op : op[f] # None
  BY DEF Alike, IsOperation, HasItsFields
<1>2. ASSUME NEW op \in {a, b}
      PROVE  ExplanationOf(op).details = [ from |-> op.from, to |-> op.to, amount |-> op.amount,
                                           asset |-> AssetTold(op, PlainAsset, "native") ]
  <2> DEFINE h == FromHorizon(op)
  <2>1. h = FromPayment(op)
    BY DEF FromHorizon
  <2>2. {"from", "to", "amount"} \subseteq DOMAIN op /\ op.from # None
    BY <1>1 DEF PaymentFields
  <2>3. /\ h.kind = "Payment" /\ h.source = op.from /\ h.destination = op.to /\ h.amount = op.amount
        /\ FormatAsset(h.asset_type, h.asset_code, h.asset_issuer) = AssetTold(op, PlainAsset, "native")
    BY <2>1, <2>2 DEF FromPayment, Amount, Field, AssetTold, PlainAsset
  <2> HIDE DEF h
  <2>4. ExplanationOf(op) = PaymentDetails(ExplainPayment(h, 0, None))
    BY <2>3 DEF ExplanationOf, ExplainOperation, h
  <2> QED
    BY <2>2, <2>3, <2>4 DEF ExplainPayment, PaymentDetails, OrUnknown
<1>3. /\ a.from = b.from /\ a.to = b.to /\ a.amount = b.amount
      /\ AssetTold(a, PlainAsset, "native") = AssetTold(b, PlainAsset, "native")
  BY <1>2 DEF Alike, SameExplanation
<1>4. /\ AssetFields(a, PlainAsset) = AssetFields(b, PlainAsset)
      /\ \A f \in AssetFields(a, PlainAsset) : Shown(a, f) = Shown(b, f)
  <2>1. AssetFields(a, PlainAsset) \subseteq DOMAIN a /\ AssetFields(b, PlainAsset) \subseteq DOMAIN b
    BY <1>1 DEF PaymentFields
  <2> QED
    BY <1>3, <2>1, AssetsAreToldApart DEF Alike
<1>5. \A f \in {"type", "from", "to", "amount"} : Shown(a, f) = Shown(b, f)
  BY <1>3 DEF Shown
<1> QED
  BY <1>1, <1>4, <1>5, CanonIsWhatIsShown DEF PaymentFields

\* So do path payments of the same type, with two assets each.
LEMMA PathsAreToldApart ==
  ASSUME NEW a, NEW b, Alike(a, b), a.type = b.type,
         a.type \in {"path_payment_strict_send", "path_payment_strict_receive"}
  PROVE  Canon(a) = Canon(b)
<1>1. ASSUME NEW op \in {a, b}
      PROVE  /\ DOMAIN op = PathFields(op)
             /\ \A f \in DOMAIN op : op[f] # None
  BY DEF Alike, IsOperation, HasItsFields
<1>2. ASSUME NEW op \in {a, b}
      PROVE  ExplanationOf(op).details =
               [ from |-> op.from, to |-> op.to,
                 send_asset |-> AssetTold(op, SourceOf, None), send_amount |-> op.source_amount,
                 dest_asset |-> AssetTold(op, PlainAsset, None), dest_amount |-> op.amount,
                 path_description |-> None ]
  <2> DEFINE h == FromHorizon(op)
  <2>1. \E type : h = PathPayment(op, type)
    BY DEF FromHorizon, SellOffers, FromStrictSend, FromStrictReceive
  <2>2. {"from", "to", "amount", "source_amount"} \subseteq DOMAIN op /\ op.from # None
    BY <1>1 DEF PathFields, PaymentFields
  <2>3. /\ h.kind = "PathPayment" /\ h.source = op.from /\ h.destination = op.to /\ h.path = <<>>
        /\ h.send_amount = op.source_amount /\ h.dest_amount = op.amount
        /\ h.send_asset = AssetTold(op, SourceOf, None)
        /\ h.dest_asset = AssetTold(op, PlainAsset, None)
    BY <2>1, <2>2
       DEF PathPayment, Amount, Field, SourceAsset, Asset, AssetTold, SourceOf, PlainAsset
  <2> HIDE DEF h
  <2>4. ExplanationOf(op) = ExplainPathPayment(h)
    BY <2>3 DEF ExplanationOf, ExplainOperation, h
  <2> QED
    BY <2>2, <2>3, <2>4 DEF ExplainPathPayment, OrUnknown
<1>3. /\ a.from = b.from /\ a.to = b.to /\ a.amount = b.amount /\ a.source_amount = b.source_amount
      /\ AssetTold(a, SourceOf, None) = AssetTold(b, SourceOf, None)
      /\ AssetTold(a, PlainAsset, None) = AssetTold(b, PlainAsset, None)
  BY <1>2 DEF Alike, SameExplanation
<1>4. ASSUME NEW n \in {PlainAsset, SourceOf}
      PROVE  /\ AssetFields(a, n) = AssetFields(b, n)
             /\ \A f \in AssetFields(a, n) : Shown(a, f) = Shown(b, f)
  <2>1. AssetFields(a, n) \subseteq DOMAIN a /\ AssetFields(b, n) \subseteq DOMAIN b
    BY <1>1 DEF PathFields, PaymentFields
  <2> QED
    BY <1>3, <2>1, AssetsAreToldApart DEF Alike
<1>5. \A f \in {"type", "from", "to", "amount", "source_amount"} : Shown(a, f) = Shown(b, f)
  BY <1>3 DEF Shown
<1> QED
  BY <1>1, <1>4, <1>5, CanonIsWhatIsShown DEF PathFields, PaymentFields

\* So do offers to sell, of whatever type, and offers to buy.
LEMMA OffersAreToldApart ==
  ASSUME NEW a, NEW b, Alike(a, b), ReportedType(a.type) = ReportedType(b.type),
         a.type \in SellOffers \cup {"manage_buy_offer"},
         b.type \in SellOffers \cup {"manage_buy_offer"}
  PROVE  Canon(a) = Canon(b)
<1>1. ASSUME NEW op \in {a, b}
      PROVE  /\ DOMAIN op = OfferFields(op)
             /\ \A f \in DOMAIN op : op[f] # None
  BY DEF Alike, IsOperation, HasItsFields, SellOffers
<1>2. ASSUME NEW op \in {a, b}
      PROVE  LET details == ExplanationOf(op).details IN
               /\ details.account = op.source_account /\ details.amount = op.amount
               /\ details.price = op.price /\ details.offer_id = op.offer_id
               /\ details.selling_asset = AssetTold(op, SellingOf, None)
               /\ details.buying_asset = AssetTold(op, BuyingOf, None)
  <2> DEFINE h == FromHorizon(op)
  <2>1. \E type : h = Offer(op, type)
    BY DEF FromHorizon, SellOffers, FromSellOffer, FromBuyOffer
  <2>2. {"source_account", "amount", "price", "offer_id"} \subseteq DOMAIN op
    BY <1>1 DEF OfferFields
  <2>3. /\ h.kind = "ManageOffer" /\ h.seller = op.source_account /\ h.amount = op.amount
        /\ h.price = op.price /\ h.offer_id = op.offer_id
        /\ h.selling_asset = AssetTold(op, SellingOf, None)
        /\ h.buying_asset = AssetTold(op, BuyingOf, None)
    BY <2>1, <2>2
       DEF Offer, SourceOrUnknown, Amount, Field, Selling, Buying, AssetTold, SellingOf, BuyingOf
  <2> HIDE DEF h
  <2>4. ExplanationOf(op) = ExplainManageOffer(h)
    BY <2>3 DEF ExplanationOf, ExplainOperation, h
  <2> QED
    BY <2>3, <2>4 DEF ExplainManageOffer
<1>3. /\ a.source_account = b.source_account /\ a.amount = b.amount
      /\ a.price = b.price /\ a.offer_id = b.offer_id
      /\ AssetTold(a, SellingOf, None) = AssetTold(b, SellingOf, None)
      /\ AssetTold(a, BuyingOf, None) = AssetTold(b, BuyingOf, None)
  BY <1>2 DEF Alike, SameExplanation
<1>4. ASSUME NEW n \in {SellingOf, BuyingOf}
      PROVE  /\ AssetFields(a, n) = AssetFields(b, n)
             /\ \A f \in AssetFields(a, n) : Shown(a, f) = Shown(b, f)
  <2>1. AssetFields(a, n) \subseteq DOMAIN a /\ AssetFields(b, n) \subseteq DOMAIN b
    BY <1>1 DEF OfferFields
  <2> QED
    BY <1>3, <2>1, AssetsAreToldApart DEF Alike
<1>5. \A f \in {"type", "source_account", "amount", "price", "offer_id"} : Shown(a, f) = Shown(b, f)
  BY <1>3 DEF Shown
<1> QED
  BY <1>1, <1>4, <1>5, CanonIsWhatIsShown DEF OfferFields

\* So do the operations without assets, options or a choice of fields.
LEMMA PlainOperationsAreToldApart ==
  ASSUME NEW a, NEW b, Alike(a, b), a.type = b.type,
         a.type \in { "create_account", "change_trust", "clawback",
                      "clawback_claimable_balance", "account_merge" }
  PROVE  Canon(a) = Canon(b)
<1>1. ASSUME NEW op \in {a, b}
      PROVE  HasItsFields(op) /\ \A f \in DOMAIN op : op[f] # None
  BY DEF Alike, IsOperation
<1>2. ExplanationOf(a).details = ExplanationOf(b).details
  BY DEF Alike, SameExplanation
<1>3. CASE a.type = "create_account"
  <2> DEFINE fields == {"type", "funder", "account", "starting_balance"}
  <2>1. ASSUME NEW op \in {a, b} PROVE DOMAIN op = fields
    BY <1>1, <1>3 DEF HasItsFields, SellOffers
  <2>2. ASSUME NEW op \in {a, b}
        PROVE  ExplanationOf(op).details =
                 [ funder |-> op.funder, account |-> op.account,
                   starting_balance |-> op.starting_balance ]
    <3> DEFINE h == FromHorizon(op)
    <3>1. h = FromCreateAccount(op)
      BY <1>3 DEF FromHorizon, SellOffers
    <3>2. {"funder", "account", "starting_balance"} \subseteq DOMAIN op
      BY <2>1
    <3> HIDE DEF fields
    <3>3. /\ h.kind = "CreateAccount" /\ h.funder = op.funder /\ h.new_account = op.account
          /\ h.starting_balance = op.starting_balance
      BY <3>1, <3>2 DEF FromCreateAccount, Field
    <3> HIDE DEF h
    <3> QED
      BY <3>3 DEF ExplanationOf, ExplainOperation, ExplainCreateAccount, h
  <2>3. \A f \in fields : Shown(a, f) = Shown(b, f)
    BY <1>2, <2>2 DEF Shown
  <2> QED
    BY <2>1, <2>3, CanonIsWhatIsShown
<1>4. CASE a.type = "change_trust"
  <2> DEFINE fields == {"type", "source_account", "asset_code", "asset_issuer", "limit"}
  <2>1. ASSUME NEW op \in {a, b} PROVE DOMAIN op = fields
    BY <1>1, <1>4 DEF HasItsFields, SellOffers
  <2>2. ASSUME NEW op \in {a, b}
        PROVE  LET details == ExplanationOf(op).details IN
                 /\ details.account = op.source_account /\ details.asset = op.asset_code
                 /\ details.issuer = op.asset_issuer /\ details.limit = op.limit
    <3> DEFINE h == FromHorizon(op)
    <3>1. h = FromChangeTrust(op)
      BY <1>4 DEF FromHorizon, SellOffers
    <3>2. {"source_account", "asset_code", "asset_issuer", "limit"} \subseteq DOMAIN op
      BY <2>1
    <3> HIDE DEF fields
    <3>3. /\ h.kind = "ChangeTrust" /\ h.trustor = op.source_account /\ h.asset_code = op.asset_code
          /\ h.asset_issuer = op.asset_issuer /\ h.limit = op.limit
      BY <3>1, <3>2 DEF FromChangeTrust, SourceOrUnknown, Field
    <3> HIDE DEF h
    <3> QED
      BY <3>3 DEF ExplanationOf, ExplainOperation, ExplainChangeTrust, h
  <2>3. \A f \in fields : Shown(a, f) = Shown(b, f)
    BY <1>2, <2>2 DEF Shown
  <2> QED
    BY <2>1, <2>3, CanonIsWhatIsShown
<1>5. CASE a.type = "clawback"
  <2> DEFINE fields == {"type", "source_account", "from", "amount", "asset_code", "asset_issuer"}
  <2>1. ASSUME NEW op \in {a, b} PROVE DOMAIN op = fields
    BY <1>1, <1>5 DEF HasItsFields, SellOffers
  <2>2. ASSUME NEW op \in {a, b}
        PROVE  ExplanationOf(op).details =
                 [ issuer |-> op.source_account, from |-> op.from, asset |-> op.asset_code,
                   asset_issuer |-> op.asset_issuer, amount |-> op.amount ]
    <3> DEFINE h == FromHorizon(op)
    <3>1. h = FromClawback(op)
      BY <1>5 DEF FromHorizon, SellOffers
    <3>2. {"source_account", "from", "amount", "asset_code", "asset_issuer"} \subseteq DOMAIN op
      BY <2>1
    <3> HIDE DEF fields
    <3>3. /\ h.kind = "Clawback" /\ h.source = op.source_account /\ h.source # None
          /\ h.from = op.from /\ h.amount = op.amount
          /\ h.asset_code = op.asset_code /\ h.asset_issuer = op.asset_issuer
      BY <1>1, <3>1, <3>2 DEF FromClawback, Source, Amount, Field
    <3> HIDE DEF h
    <3> QED
      BY <3>3 DEF ExplanationOf, ExplainOperation, ExplainClawback, OrUnknown, h
  <2>3. \A f \in fields : Shown(a, f) = Shown(b, f)
    BY <1>2, <2>2 DEF Shown
  <2> QED
    BY <2>1, <2>3, CanonIsWhatIsShown
<1>6. CASE a.type = "clawback_claimable_balance"
  <2> DEFINE fields == {"type", "source_account", "balance_id"}
  <2>1. ASSUME NEW op \in {a, b} PROVE DOMAIN op = fields
    BY <1>1, <1>6 DEF HasItsFields, SellOffers
  <2>2. ASSUME NEW op \in {a, b}
        PROVE  ExplanationOf(op).details =
                 [issuer |-> op.source_account, balance_id |-> op.balance_id]
    <3> DEFINE h == FromHorizon(op)
    <3>1. h = FromClawbackBalance(op)
      BY <1>6 DEF FromHorizon, SellOffers
    <3>2. /\ h.kind = "ClawbackClaimableBalance" /\ h.source = op.source_account /\ h.source # None
          /\ h.balance_id = op.balance_id
      BY <1>1, <2>1, <3>1 DEF FromClawbackBalance, Source, Field
    <3> HIDE DEF h
    <3> QED
      BY <3>2 DEF ExplanationOf, ExplainOperation, ExplainClawbackBalance, OrUnknown, h
  <2>3. \A f \in fields : Shown(a, f) = Shown(b, f)
    BY <1>2, <2>2 DEF Shown
  <2> QED
    BY <2>1, <2>3, CanonIsWhatIsShown
<1>7. CASE a.type = "account_merge"
  <2> DEFINE fields == {"type", "source_account", "account", "into"}
  <2>1. ASSUME NEW op \in {a, b} PROVE DOMAIN op = fields /\ op.account = op.source_account
    BY <1>1, <1>7 DEF HasItsFields, SellOffers
  <2>2. ASSUME NEW op \in {a, b}
        PROVE  ExplanationOf(op).details = [source |-> op.source_account, destination |-> op.into]
    <3> DEFINE h == FromHorizon(op)
    <3>1. h = FromAccountMerge(op)
      BY <1>7 DEF FromHorizon, SellOffers
    <3>2. {"source_account", "into"} \subseteq DOMAIN op
      BY <2>1
    <3> HIDE DEF fields
    <3>3. h.kind = "AccountMerge" /\ h.source = op.source_account /\ h.destination = op.into
      BY <3>1, <3>2 DEF FromAccountMerge, Field
    <3> HIDE DEF h
    <3> QED
      BY <3>3 DEF ExplanationOf, ExplainOperation, ExplainAccountMerge, h
  <2>3. \A f \in fields : Shown(a, f) = Shown(b, f)
    BY <1>2, <2>1, <2>2 DEF Shown
  <2> QED
    BY <2>1, <2>3, CanonIsWhatIsShown
<1> QED
  BY <1>3, <1>4, <1>5, <1>6, <1>7

Said(changes) == {changes[i] : i \in 1 .. Len(changes)}

\* Two lists of changes, one after the other, say what either says.
LEMMA ChangesJoin ==
  ASSUME NEW S, NEW s \in Seq(S), NEW t \in Seq(S)
  PROVE  s \o t \in Seq(S) /\ Said(s \o t) = Said(s) \cup Said(t)
<1>1. /\ s \o t \in Seq(S) /\ Len(s \o t) = Len(s) + Len(t)
      /\ Len(s) \in Nat /\ Len(t) \in Nat
      /\ \A i \in 1 .. Len(s) : (s \o t)[i] = s[i]
      /\ \A i \in 1 .. Len(t) : (s \o t)[Len(s) + i] = t[i]
  BY ConcatProperties, LenProperties
<1> DEFINE st == s \o t
<1> HIDE DEF st
<1>2. ASSUME NEW i \in 1 .. Len(st) PROVE st[i] \in Said(s) \cup Said(t)
  <2>1. CASE i <= Len(s)
    BY <1>1, <2>1 DEF Said, st
  <2>2. CASE ~(i <= Len(s))
    <3>1. i - Len(s) \in 1 .. Len(t) /\ Len(s) + (i - Len(s)) = i
      BY <1>1, <2>2 DEF st
    <3>2. st[i] = t[i - Len(s)]
      BY <1>1, <3>1 DEF st
    <3> QED
      BY <3>1, <3>2 DEF Said
  <2> QED
    BY <2>1, <2>2
<1>3. ASSUME NEW i \in 1 .. Len(s) PROVE s[i] \in Said(st)
  <2>1. i \in 1 .. Len(st) /\ st[i] = s[i]
    BY <1>1 DEF st
  <2> QED
    BY <2>1 DEF Said
<1>4. ASSUME NEW i \in 1 .. Len(t) PROVE t[i] \in Said(st)
  <2>1. Len(s) + i \in 1 .. Len(st) /\ st[Len(s) + i] = t[i]
    BY <1>1 DEF st
  <2> QED
    BY <2>1 DEF Said
<1>5. Said(st) \subseteq Said(s) \cup Said(t)
  BY <1>2 DEF Said
<1>6. Said(s) \subseteq Said(st) /\ Said(t) \subseteq Said(st)
  BY <1>3, <1>4 DEF Said
<1> QED
  BY <1>1, <1>5, <1>6 DEF st

\* Which option a change is about can be seen from its first word.
Topic(word) ==
  IF word = "inflation destination" THEN 1
  ELSE IF word = "disabled the master key" \/ word = "master key weight" THEN 2
  ELSE IF word = "low threshold" THEN 3
  ELSE IF word = "medium threshold" THEN 4
  ELSE IF word = "high threshold" THEN 5
  ELSE IF word = "cleared the home domain" \/ word = "home domain" THEN 6
  ELSE IF word = "enabled" THEN 7
  ELSE IF word = "disabled" THEN 8
  ELSE 9

\* At most one change, and of this topic.
OnTopic(changes, k) == changes = <<>> \/ \E c : changes = <<c>> /\ Topic(c[1]) = k

\* What Changes puts one after the other.
WordOrValue(value, special, word, what) ==
  IF value = special THEN <<<<word>>>> ELSE WhenSet(value, what)

MasterChange(op) ==
  WordOrValue(op.master_weight, 0, "disabled the master key", "master key weight")

DomainChange(op) ==
  WordOrValue(op.home_domain, "", "cleared the home domain", "home domain")

ChangeOf(op, k) ==
  IF k = 1 THEN WhenSet(op.inflation_dest, "inflation destination")
  ELSE IF k = 2 THEN MasterChange(op)
  ELSE IF k = 3 THEN WhenSet(op.low_threshold, "low threshold")
  ELSE IF k = 4 THEN WhenSet(op.med_threshold, "medium threshold")
  ELSE IF k = 5 THEN WhenSet(op.high_threshold, "high threshold")
  ELSE IF k = 6 THEN DomainChange(op)
  ELSE IF k = 7 THEN ChangedFlags(op.set_flags, "enabled")
  ELSE IF k = 8 THEN ChangedFlags(op.clear_flags, "disabled")
  ELSE ChangedSigner(op.signer_key, op.signer_weight)

LEMMA ChangesOneByOne ==
  ASSUME NEW op
  PROVE  /\ ChangeOf(op, 1) = WhenSet(op.inflation_dest, "inflation destination")
         /\ ChangeOf(op, 2) = MasterChange(op)
         /\ ChangeOf(op, 3) = WhenSet(op.low_threshold, "low threshold")
         /\ ChangeOf(op, 4) = WhenSet(op.med_threshold, "medium threshold")
         /\ ChangeOf(op, 5) = WhenSet(op.high_threshold, "high threshold")
         /\ ChangeOf(op, 6) = DomainChange(op)
         /\ ChangeOf(op, 7) = ChangedFlags(op.set_flags, "enabled")
         /\ ChangeOf(op, 8) = ChangedFlags(op.clear_flags, "disabled")
         /\ ChangeOf(op, 9) = ChangedSigner(op.signer_key, op.signer_weight)
<1>1. ChangeOf(op, 1) = WhenSet(op.inflation_dest, "inflation destination")
  BY DEF ChangeOf
<1>2. ChangeOf(op, 2) = MasterChange(op)
  BY DEF ChangeOf
<1>3. ChangeOf(op, 3) = WhenSet(op.low_threshold, "low threshold")
  BY DEF ChangeOf
<1>4. ChangeOf(op, 4) = WhenSet(op.med_threshold, "medium threshold")
  BY DEF ChangeOf
<1>5. ChangeOf(op, 5) = WhenSet(op.high_threshold, "high threshold")
  BY DEF ChangeOf
<1>6. ChangeOf(op, 6) = DomainChange(op)
  BY DEF ChangeOf
<1>7. ChangeOf(op, 7) = ChangedFlags(op.set_flags, "enabled")
  BY DEF ChangeOf
<1>8. ChangeOf(op, 8) = ChangedFlags(op.clear_flags, "disabled")
  BY DEF ChangeOf
<1>9. ChangeOf(op, 9) = ChangedSigner(op.signer_key, op.signer_weight)
  BY DEF ChangeOf
<1> QED
  BY <1>1, <1>2, <1>3, <1>4, <1>5, <1>6, <1>7, <1>8, <1>9

LEMMA WordsHaveTopics ==
  /\ Topic("inflation destination") = 1
  /\ Topic("disabled the master key") = 2 /\ Topic("master key weight") = 2
  /\ Topic("low threshold") = 3 /\ Topic("medium threshold") = 4 /\ Topic("high threshold") = 5
  /\ Topic("cleared the home domain") = 6 /\ Topic("home domain") = 6
  /\ Topic("enabled") = 7 /\ Topic("disabled") = 8
  /\ Topic("modified signer") = 9 /\ Topic("removed signer") = 9 /\ Topic("added signer") = 9
BY DEF Topic

LEMMA ChangesHaveTopics ==
  ASSUME NEW op
  PROVE  \A k \in 1 .. 9 : OnTopic(ChangeOf(op, k), k)
<1>1. ASSUME NEW value, NEW what, NEW k, Topic(what) = k
      PROVE  OnTopic(WhenSet(value, what), k)
  <2> DEFINE c == <<what, value>>
  <2>1. WhenSet(value, what) = When(value # None, c) /\ c[1] = what
    BY DEF WhenSet
  <2> HIDE DEF c
  <2> QED
    BY <1>1, <2>1 DEF OnTopic, When
<1>2. ASSUME NEW mask, NEW what, NEW k, Topic(what) = k
      PROVE  OnTopic(ChangedFlags(mask, what), k)
  <2> DEFINE c == <<what, DescribeFlags(mask)>>
  <2>1. c[1] = what
    OBVIOUS
  <2>2. ChangedFlags(mask, what) = <<>> \/ ChangedFlags(mask, what) = <<c>>
    BY DEF ChangedFlags
  <2> HIDE DEF c
  <2> QED
    BY <1>2, <2>1, <2>2 DEF OnTopic
<1>3. OnTopic(MasterChange(op), 2)
  <2> DEFINE c == <<"disabled the master key">>
  <2>1. OnTopic(WhenSet(op.master_weight, "master key weight"), 2)
    BY <1>1, WordsHaveTopics
  <2>2. c[1] = "disabled the master key"
    OBVIOUS
  <2>3. MasterChange(op) = <<c>> \/ MasterChange(op) = WhenSet(op.master_weight, "master key weight")
    BY DEF MasterChange, WordOrValue
  <2> HIDE DEF c
  <2>4. Topic(c[1]) = 2
    BY <2>2, WordsHaveTopics
  <2>5. OnTopic(<<c>>, 2)
    BY <2>4 DEF OnTopic
  <2> QED
    BY <2>1, <2>3, <2>5
<1>4. OnTopic(DomainChange(op), 6)
  <2> DEFINE c == <<"cleared the home domain">>
  <2>1. OnTopic(WhenSet(op.home_domain, "home domain"), 6)
    BY <1>1, WordsHaveTopics
  <2>2. c[1] = "cleared the home domain"
    OBVIOUS
  <2>3. DomainChange(op) = <<c>> \/ DomainChange(op) = WhenSet(op.home_domain, "home domain")
    BY DEF DomainChange, WordOrValue
  <2> HIDE DEF c
  <2>4. Topic(c[1]) = 6
    BY <2>2, WordsHaveTopics
  <2>5. OnTopic(<<c>>, 6)
    BY <2>4 DEF OnTopic
  <2> QED
    BY <2>1, <2>3, <2>5
<1>5. OnTopic(ChangedSigner(op.signer_key, op.signer_weight), 9)
  <2> DEFINE key == op.signer_key
             weight == op.signer_weight
             changes == ChangedSigner(key, weight)
             modified == <<"modified signer", Shorten(key)>>
             removed == <<"removed signer", Shorten(key)>>
             added == <<"added signer", Shorten(key), weight>>
  <2>1. /\ modified[1] = "modified signer" /\ removed[1] = "removed signer"
        /\ added[1] = "added signer"
    OBVIOUS
  <2>2. \/ changes = <<>>
        \/ changes = <<modified>>
        \/ changes = <<removed>>
        \/ changes = <<added>>
    BY DEF ChangedSigner
  <2> HIDE DEF changes, key, weight, modified, removed, added
  <2>3. Topic(modified[1]) = 9 /\ Topic(removed[1]) = 9 /\ Topic(added[1]) = 9
    BY <2>1, WordsHaveTopics
  <2>4. OnTopic(changes, 9)
    BY <2>2, <2>3 DEF OnTopic
  <2> QED
    BY <2>4 DEF changes, key, weight
<1>6. /\ OnTopic(WhenSet(op.inflation_dest, "inflation destination"), 1)
      /\ OnTopic(WhenSet(op.low_threshold, "low threshold"), 3)
      /\ OnTopic(WhenSet(op.med_threshold, "medium threshold"), 4)
      /\ OnTopic(WhenSet(op.high_threshold, "high threshold"), 5)
  BY <1>1, WordsHaveTopics
<1>7. /\ OnTopic(ChangedFlags(op.set_flags, "enabled"), 7)
      /\ OnTopic(ChangedFlags(op.clear_flags, "disabled"), 8)
  BY <1>2, WordsHaveTopics
<1>8. /\ OnTopic(ChangeOf(op, 1), 1) /\ OnTopic(ChangeOf(op, 2), 2) /\ OnTopic(ChangeOf(op, 3), 3)
      /\ OnTopic(ChangeOf(op, 4), 4) /\ OnTopic(ChangeOf(op, 5), 5) /\ OnTopic(ChangeOf(op, 6), 6)
      /\ OnTopic(ChangeOf(op, 7), 7) /\ OnTopic(ChangeOf(op, 8), 8) /\ OnTopic(ChangeOf(op, 9), 9)
  BY <1>3, <1>4, <1>5, <1>6, <1>7, ChangesOneByOne
<1>9. \A k \in 1 .. 9 : \/ k = 1 \/ k = 2 \/ k = 3 \/ k = 4 \/ k = 5
                        \/ k = 6 \/ k = 7 \/ k = 8 \/ k = 9
  OBVIOUS
<1> QED
  BY <1>8, <1>9

\* What is said in all is what is said of each option.
LEMMA ChangesAreOfOptions ==
  ASSUME NEW op
  PROVE  Said(Changes(op)) = UNION {Said(ChangeOf(op, k)) : k \in 1 .. 9}
<1> DEFINE S == UNION {Said(ChangeOf(op, k)) : k \in 1 .. 9}
<1>1. ASSUME NEW k \in 1 .. 9 PROVE ChangeOf(op, k) \in Seq(S)
  <2> DEFINE piece == ChangeOf(op, k)
  <2>1. piece = <<>> \/ \E c : piece = <<c>>
    BY ChangesHaveTopics DEF OnTopic
  <2>2. Said(piece) \subseteq S
    OBVIOUS
  <2>3. SUFFICES piece \in Seq(S)
    OBVIOUS
  <2> HIDE DEF piece, S
  <2>4. CASE piece = <<>>
    BY <2>4
  <2>5. CASE \E c : piece = <<c>>
    <3>1. PICK c : piece = <<c>>
      BY <2>5
    <3>2. c \in Said(piece)
      BY <3>1 DEF Said
    <3> QED
      BY <2>2, <3>1, <3>2
  <2> QED
    BY <2>1, <2>4, <2>5
<1> DEFINE p1 == ChangeOf(op, 1)
           p2 == ChangeOf(op, 2)
           p3 == ChangeOf(op, 3)
           p4 == ChangeOf(op, 4)
           p5 == ChangeOf(op, 5)
           p6 == ChangeOf(op, 6)
           p7 == ChangeOf(op, 7)
           p8 == ChangeOf(op, 8)
           p9 == ChangeOf(op, 9)
<1> HIDE DEF S
<1>2. 1 \in 1 .. 9 /\ 2 \in 1 .. 9 /\ 3 \in 1 .. 9 /\ 4 \in 1 .. 9 /\ 5 \in 1 .. 9
      /\ 6 \in 1 .. 9 /\ 7 \in 1 .. 9 /\ 8 \in 1 .. 9 /\ 9 \in 1 .. 9
  OBVIOUS
<1>3. /\ p1 \in Seq(S) /\ p2 \in Seq(S) /\ p3 \in Seq(S) /\ p4 \in Seq(S) /\ p5 \in Seq(S)
      /\ p6 \in Seq(S) /\ p7 \in Seq(S) /\ p8 \in Seq(S) /\ p9 \in Seq(S)
  BY <1>1, <1>2
<1>4. Changes(op) = p1 \o p2 \o p3 \o p4 \o p5 \o p6 \o p7 \o p8 \o p9
  BY ChangesOneByOne DEF Changes, MasterChange, DomainChange, WordOrValue
<1>5. UNION {Said(ChangeOf(op, k)) : k \in 1 .. 9} =
        UNION {Said(p1), Said(p2), Said(p3), Said(p4), Said(p5), Said(p6), Said(p7), Said(p8), Said(p9)}
  <2>1. ASSUME NEW k \in 1 .. 9
        PROVE  ChangeOf(op, k) \in {p1, p2, p3, p4, p5, p6, p7, p8, p9}
    <3>1. \/ k = 1 \/ k = 2 \/ k = 3 \/ k = 4 \/ k = 5 \/ k = 6 \/ k = 7 \/ k = 8 \/ k = 9
      OBVIOUS
    <3> QED
      BY <3>1
  <2> QED
    BY <1>2, <2>1
<1> HIDE DEF p1, p2, p3, p4, p5, p6, p7, p8, p9
<1> DEFINE q2 == p1 \o p2
           q3 == q2 \o p3
           q4 == q3 \o p4
           q5 == q4 \o p5
           q6 == q5 \o p6
           q7 == q6 \o p7
           q8 == q7 \o p8
           q9 == q8 \o p9
<1>6. q2 \in Seq(S) /\ Said(q2) = Said(p1) \cup Said(p2)
  BY <1>3, ChangesJoin
<1> HIDE DEF q2
<1>7. q3 \in Seq(S) /\ Said(q3) = Said(q2) \cup Said(p3)
  BY <1>3, <1>6, ChangesJoin
<1> HIDE DEF q3
<1>8. q4 \in Seq(S) /\ Said(q4) = Said(q3) \cup Said(p4)
  BY <1>3, <1>7, ChangesJoin
<1> HIDE DEF q4
<1>9. q5 \in Seq(S) /\ Said(q5) = Said(q4) \cup Said(p5)
  BY <1>3, <1>8, ChangesJoin
<1> HIDE DEF q5
<1>10. q6 \in Seq(S) /\ Said(q6) = Said(q5) \cup Said(p6)
  BY <1>3, <1>9, ChangesJoin
<1> HIDE DEF q6
<1>11. q7 \in Seq(S) /\ Said(q7) = Said(q6) \cup Said(p7)
  BY <1>3, <1>10, ChangesJoin
<1> HIDE DEF q7
<1>12. q8 \in Seq(S) /\ Said(q8) = Said(q7) \cup Said(p8)
  BY <1>3, <1>11, ChangesJoin
<1> HIDE DEF q8
<1>13. q9 \in Seq(S) /\ Said(q9) = Said(q8) \cup Said(p9)
  BY <1>3, <1>12, ChangesJoin
<1> HIDE DEF q9
<1>14. Said(q9) =
        UNION {Said(p1), Said(p2), Said(p3), Said(p4), Said(p5), Said(p6), Said(p7), Said(p8), Said(p9)}
  BY <1>6, <1>7, <1>8, <1>9, <1>10, <1>11, <1>12, <1>13
<1>15. Changes(op) = q9
  BY <1>4 DEF q9, q8, q7, q6, q5, q4, q3, q2
<1> QED
  BY <1>5, <1>14, <1>15

\* Lists of changes that are the same agree on each option.
LEMMA ChangesAreToldApart ==
  ASSUME NEW a, NEW b, Changes(a) = Changes(b), NEW k \in 1 .. 9
  PROVE  ChangeOf(a, k) = ChangeOf(b, k)
<1>1. ASSUME NEW op
      PROVE  Said(ChangeOf(op, k)) = {c \in Said(Changes(op)) : Topic(c[1]) = k}
  <2>1. ASSUME NEW j \in 1 .. 9, NEW c \in Said(ChangeOf(op, j)) PROVE Topic(c[1]) = j
    <3> DEFINE piece == ChangeOf(op, j)
    <3>1. OnTopic(piece, j)
      BY ChangesHaveTopics
    <3> HIDE DEF piece
    <3>2. CASE piece = <<>>
      BY <2>1, <3>2 DEF Said, piece
    <3>3. CASE \E d : piece = <<d>> /\ Topic(d[1]) = j
      BY <2>1, <3>3 DEF Said, piece
    <3> QED
      BY <3>1, <3>2, <3>3 DEF OnTopic
  <2> QED
    BY <2>1, ChangesAreOfOptions
<1>2. Said(ChangeOf(a, k)) = Said(ChangeOf(b, k))
  BY <1>1
<1>3. ASSUME NEW op PROVE ChangeOf(op, k) = <<>> \/ \E c : ChangeOf(op, k) = <<c>>
  BY ChangesHaveTopics DEF OnTopic
<1> DEFINE x == ChangeOf(a, k)
           y == ChangeOf(b, k)
<1> HIDE DEF x, y
<1>4. Said(x) = Said(y) /\ (x = <<>> \/ \E c : x = <<c>>) /\ (y = <<>> \/ \E c : y = <<c>>)
  BY <1>2, <1>3 DEF x, y
<1>5. ASSUME NEW c PROVE Said(<<c>>) = {c}
  BY DEF Said
<1>6. Said(<<>>) = {}
  BY DEF Said
<1>7. x = y
  BY <1>4, <1>5, <1>6
<1> QED
  BY <1>7 DEF x, y

LEMMA ValuesAreToldApart ==
  ASSUME NEW v, NEW w, NEW what, WhenSet(v, what) = WhenSet(w, what)
  PROVE  v = w
<1> DEFINE c == <<what, v>>
           d == <<what, w>>
<1>1. WhenSet(v, what) = When(v # None, c) /\ WhenSet(w, what) = When(w # None, d)
  BY DEF WhenSet
<1>2. c = d => v = w
  OBVIOUS
<1> HIDE DEF c, d
<1>3. v # None <=> w # None
  <2>1. <<c>> # <<>> /\ <<d>> # <<>>
    OBVIOUS
  <2> QED
    BY <1>1, <2>1 DEF When
<1>4. CASE v # None
  <2>1. <<c>> = <<d>>
    BY <1>1, <1>3, <1>4 DEF When
  <2> QED
    BY <1>2, <2>1
<1>5. CASE v = None
  BY <1>3, <1>5
<1> QED
  BY <1>4, <1>5

\* The same for an option with a word of its own for one value.
LEMMA ExceptionsAreToldApart ==
  ASSUME NEW v, NEW w, NEW what, NEW special, NEW word, word # what,
         WordOrValue(v, special, word, what) = WordOrValue(w, special, word, what)
  PROVE  v = w
<1>1. ASSUME NEW u PROVE <<<<word>>>> # WhenSet(u, what)
  <2> DEFINE c == <<word>>
             d == <<what, u>>
  <2>1. WhenSet(u, what) = When(u # None, d)
    BY DEF WhenSet
  <2>2. c[1] = word /\ d[1] = what
    OBVIOUS
  <2>3. SUFFICES <<c>> # WhenSet(u, what)
    OBVIOUS
  <2> HIDE DEF c, d
  <2> QED
    BY <2>1, <2>2 DEF When
<1>2. CASE v = special
  BY <1>1, <1>2 DEF WordOrValue
<1>3. CASE v # special
  <2>1. w # special
    BY <1>1, <1>3 DEF WordOrValue
  <2> QED
    BY <1>3, <2>1, ValuesAreToldApart DEF WordOrValue
<1> QED
  BY <1>2, <1>3

\* Sets of the flags an account has.
IsMask(mask) == mask = None \/ mask \in (SUBSET (0 .. 3)) \ {{}}

LEMMA FlagsAreToldApart ==
  ASSUME NEW v, NEW w, NEW what, IsMask(v), IsMask(w), ChangedFlags(v, what) = ChangedFlags(w, what)
  PROVE  v = w
<1>1. ASSUME NEW mask, IsMask(mask)
      PROVE  mask \in {None, {}} <=> mask = None
  BY <1>1, FlagsAssumption DEF IsMask
<1>2. ASSUME NEW mask, IsMask(mask), mask # None
      PROVE  DescribeFlags(mask).names = mask
  BY <1>2 DEF IsMask, DescribeFlags
<1> DEFINE c == <<what, DescribeFlags(v)>>
           d == <<what, DescribeFlags(w)>>
<1>3. /\ ChangedFlags(v, what) = IF v = None THEN <<>> ELSE <<c>>
      /\ ChangedFlags(w, what) = IF w = None THEN <<>> ELSE <<d>>
  BY <1>1 DEF ChangedFlags
<1>4. c = d => DescribeFlags(v) = DescribeFlags(w)
  OBVIOUS
<1> HIDE DEF c, d
<1>5. v = None <=> w = None
  <2>1. <<c>> # <<>> /\ <<d>> # <<>>
    OBVIOUS
  <2> QED
    BY <1>3, <2>1
<1>6. CASE v # None
  <2>1. <<c>> = <<d>>
    BY <1>3, <1>5, <1>6
  <2>2. DescribeFlags(v) = DescribeFlags(w)
    BY <1>4, <2>1
  <2> QED
    BY <1>2, <1>5, <1>6, <2>2
<1> QED
  BY <1>5, <1>6

KeyEnds(key) == {key[1], key[Len(key)]}

\* A signer, its weight, and the ends of its key.
LEMMA SignersAreToldApart ==
  ASSUME NEW key, NEW weight, NEW key2, NEW weight2,
         key = None <=> weight = None, key2 = None <=> weight2 = None,
         ChangedSigner(key, weight) = ChangedSigner(key2, weight2)
  PROVE  /\ key = None <=> key2 = None
         /\ weight = weight2
         /\ key # None => KeyEnds(key) = KeyEnds(key2)
<1> DEFINE removed == <<"removed signer", Shorten(key)>>
           added == <<"added signer", Shorten(key), weight>>
           removed2 == <<"removed signer", Shorten(key2)>>
           added2 == <<"added signer", Shorten(key2), weight2>>
<1>1. /\ ChangedSigner(key, weight) =
           IF key = None THEN <<>> ELSE IF weight = 0 THEN <<removed>> ELSE <<added>>
      /\ ChangedSigner(key2, weight2) =
           IF key2 = None THEN <<>> ELSE IF weight2 = 0 THEN <<removed2>> ELSE <<added2>>
  BY DEF ChangedSigner
<1>2. removed[1] = "removed signer" /\ removed2[1] = "removed signer"
  OBVIOUS
<1>3. added[1] = "added signer" /\ added2[1] = "added signer"
  OBVIOUS
<1>4. removed[1] # added2[1] /\ added[1] # removed2[1]
  BY <1>2, <1>3
<1>5. removed = removed2 => Shorten(key) = Shorten(key2)
  OBVIOUS
<1>6. added = added2 => Shorten(key) = Shorten(key2) /\ weight = weight2
  OBVIOUS
<1> HIDE DEF removed, added, removed2, added2
<1>7. ASSUME NEW x, NEW y PROVE <<x>> = <<y>> => x = y
  OBVIOUS
<1>8. ASSUME NEW x PROVE <<x>> # <<>>
  OBVIOUS
<1>9. key = None <=> key2 = None
  BY <1>1, <1>8
<1>10. CASE key # None
  <2>1. weight = weight2 /\ Shorten(key) = Shorten(key2)
    <3>1. CASE weight = 0 /\ weight2 = 0
      BY <1>1, <1>5, <1>7, <1>9, <1>10, <3>1
    <3>2. CASE weight # 0 /\ weight2 # 0
      BY <1>1, <1>6, <1>7, <1>9, <1>10, <3>2
    <3>3. CASE weight = 0 /\ weight2 # 0
      BY <1>1, <1>4, <1>7, <1>9, <1>10, <3>3
    <3>4. CASE weight # 0 /\ weight2 = 0
      BY <1>1, <1>4, <1>7, <1>9, <1>10, <3>4
    <3> QED
      BY <3>1, <3>2, <3>3, <3>4
  <2>2. KeyEnds(key) = KeyEnds(key2)
    <3>1. ASSUME NEW k
          PROVE  IF Len(k) = 3 THEN KeyEnds(k) = {Shorten(k)[1], Shorten(k)[2]} /\ Len(Shorten(k)) = 2
                 ELSE Shorten(k) = k
      BY DEF Shorten, KeyEnds
    <3>2. CASE Len(key) = 3 /\ Len(key2) = 3
      BY <2>1, <3>1, <3>2
    <3>3. CASE Len(key) = 3 /\ Len(key2) # 3
      BY <2>1, <3>1, <3>3 DEF KeyEnds
    <3>4. CASE Len(key) # 3 /\ Len(key2) = 3
      BY <2>1, <3>1, <3>4 DEF KeyEnds
    <3>5. CASE Len(key) # 3 /\ Len(key2) # 3
      BY <2>1, <3>1, <3>5 DEF KeyEnds
    <3> QED
      BY <3>2, <3>3, <3>4, <3>5
  <2> QED
    BY <1>9, <1>10, <2>1, <2>2
<1> QED
  BY <1>9, <1>10

\* The same option is set, as far as can be seen, or neither is set.
SameOption(a, b, f) ==
  /\ f \in DOMAIN a <=> f \in DOMAIN b
  /\ f \in DOMAIN a => Shown(a, f) = Shown(b, f)

LEMMA FieldsAreToldApart ==
  ASSUME NEW a, NEW b, NEW f, \A x \in DOMAIN a : a[x] # None, \A x \in DOMAIN b : b[x] # None,
         Field(a, f, None) = Field(b, f, None)
  PROVE  (f \in DOMAIN a <=> f \in DOMAIN b) /\ (f \in DOMAIN a => a[f] = b[f])
BY DEF Field

LEMMA FoldedFlags ==
  ASSUME NEW flags, IsFlags(flags), flags # None
  PROVE  /\ FoldFlags(flags) = UNION {flags[i] : i \in 1 .. Len(flags)}
         /\ FoldFlags(flags) \in (SUBSET (0 .. 3)) \ {{}}
<1>1. flags \in Seq((SUBSET (0 .. 3)) \ {{}}) /\ flags # <<>>
  BY DEF IsFlags
<1> DEFINE S == (SUBSET (0 .. 3)) \ {{}}
<1>2. {} \notin S /\ \A x \in S : x \subseteq 0 .. 3
  OBVIOUS
<1> HIDE DEF S
<1>3. Len(flags) \in Nat /\ \A i \in 1 .. Len(flags) : flags[i] \in S
  BY <1>1 DEF S
<1>4. Len(flags) # 0
  BY <1>1, EmptySeq DEF S
<1>5. flags[1] \in S
  BY <1>3, <1>4
<1>6. UNION {flags[i] : i \in 1 .. Len(flags)} \in (SUBSET (0 .. 3)) \ {{}}
  <2>1. flags[1] \subseteq UNION {flags[i] : i \in 1 .. Len(flags)}
    BY <1>3, <1>4
  <2>2. UNION {flags[i] : i \in 1 .. Len(flags)} \subseteq 0 .. 3
    BY <1>2, <1>3
  <2> QED
    BY <1>2, <1>5, <2>1, <2>2
<1> QED
  BY <1>1, <1>6 DEF FoldFlags

\* Changes of options that are explained alike leave out no option.
LEMMA OptionsAreToldApart ==
  ASSUME NEW a, NEW b, Changes(a) = Changes(b),
         IsMask(a.set_flags), IsMask(b.set_flags), IsMask(a.clear_flags), IsMask(b.clear_flags),
         a.signer_key = None <=> a.signer_weight = None,
         b.signer_key = None <=> b.signer_weight = None
  PROVE  /\ a.inflation_dest = b.inflation_dest
         /\ a.master_weight = b.master_weight
         /\ a.low_threshold = b.low_threshold
         /\ a.med_threshold = b.med_threshold
         /\ a.high_threshold = b.high_threshold
         /\ a.home_domain = b.home_domain
         /\ a.set_flags = b.set_flags
         /\ a.clear_flags = b.clear_flags
         /\ a.signer_key = None <=> b.signer_key = None
         /\ a.signer_weight = b.signer_weight
         /\ a.signer_key # None => KeyEnds(a.signer_key) = KeyEnds(b.signer_key)
<1>1. /\ ChangeOf(a, 1) = ChangeOf(b, 1) /\ ChangeOf(a, 2) = ChangeOf(b, 2)
      /\ ChangeOf(a, 3) = ChangeOf(b, 3) /\ ChangeOf(a, 4) = ChangeOf(b, 4)
      /\ ChangeOf(a, 5) = ChangeOf(b, 5) /\ ChangeOf(a, 6) = ChangeOf(b, 6)
      /\ ChangeOf(a, 7) = ChangeOf(b, 7) /\ ChangeOf(a, 8) = ChangeOf(b, 8)
      /\ ChangeOf(a, 9) = ChangeOf(b, 9)
  <2>1. 1 \in 1 .. 9 /\ 2 \in 1 .. 9 /\ 3 \in 1 .. 9 /\ 4 \in 1 .. 9 /\ 5 \in 1 .. 9
        /\ 6 \in 1 .. 9 /\ 7 \in 1 .. 9 /\ 8 \in 1 .. 9 /\ 9 \in 1 .. 9
    OBVIOUS
  <2> QED
    BY <2>1, ChangesAreToldApart
<1>2. /\ a.inflation_dest = b.inflation_dest /\ a.low_threshold = b.low_threshold
      /\ a.med_threshold = b.med_threshold /\ a.high_threshold = b.high_threshold
  <2>1. a.inflation_dest = b.inflation_dest
    <3>1. WhenSet(a.inflation_dest, "inflation destination") = WhenSet(b.inflation_dest, "inflation destination")
      BY <1>1, ChangesOneByOne
    <3> QED
      BY <3>1, ValuesAreToldApart
  <2>2. a.low_threshold = b.low_threshold
    <3>1. WhenSet(a.low_threshold, "low threshold") = WhenSet(b.low_threshold, "low threshold")
      BY <1>1, ChangesOneByOne
    <3> QED
      BY <3>1, ValuesAreToldApart
  <2>3. a.med_threshold = b.med_threshold
    <3>1. WhenSet(a.med_threshold, "medium threshold") = WhenSet(b.med_threshold, "medium threshold")
      BY <1>1, ChangesOneByOne
    <3> QED
      BY <3>1, ValuesAreToldApart
  <2>4. a.high_threshold = b.high_threshold
    <3>1. WhenSet(a.high_threshold, "high threshold") = WhenSet(b.high_threshold, "high threshold")
      BY <1>1, ChangesOneByOne
    <3> QED
      BY <3>1, ValuesAreToldApart
  <2> QED
    BY <2>1, <2>2, <2>3, <2>4
<1>3. a.set_flags = b.set_flags /\ a.clear_flags = b.clear_flags
  <2>1. /\ ChangedFlags(a.set_flags, "enabled") = ChangedFlags(b.set_flags, "enabled")
        /\ ChangedFlags(a.clear_flags, "disabled") = ChangedFlags(b.clear_flags, "disabled")
    BY <1>1, ChangesOneByOne
  <2> QED
    BY <2>1, FlagsAreToldApart
<1>4. /\ a.signer_key = None <=> b.signer_key = None
      /\ a.signer_weight = b.signer_weight
      /\ a.signer_key # None => KeyEnds(a.signer_key) = KeyEnds(b.signer_key)
  <2>1. ChangedSigner(a.signer_key, a.signer_weight) = ChangedSigner(b.signer_key, b.signer_weight)
    BY <1>1, ChangesOneByOne
  <2> DEFINE key == a.signer_key
             weight == a.signer_weight
             key2 == b.signer_key
             weight2 == b.signer_weight
  <2>2. /\ key = None <=> weight = None
        /\ key2 = None <=> weight2 = None
        /\ ChangedSigner(key, weight) = ChangedSigner(key2, weight2)
    BY <2>1
  <2> HIDE DEF key, weight, key2, weight2
  <2>3. /\ key = None <=> key2 = None
        /\ weight = weight2
        /\ key # None => KeyEnds(key) = KeyEnds(key2)
    BY <2>2, SignersAreToldApart
  <2> QED
    BY <2>3 DEF key, weight, key2, weight2
<1>5. a.master_weight = b.master_weight
  <2> DEFINE v == a.master_weight
             w == b.master_weight
             special == 0
             word == "disabled the master key"
             what == "master key weight"
  <2>1. MasterChange(a) = MasterChange(b)
    BY <1>1, ChangesOneByOne
  <2>2. word # what
    OBVIOUS
  <2>3. WordOrValue(v, special, word, what) = WordOrValue(w, special, word, what)
    BY <2>1 DEF MasterChange
  <2> HIDE DEF v, w, special, word, what
  <2>4. v = w
    BY <2>2, <2>3, ExceptionsAreToldApart
  <2> QED
    BY <2>4 DEF v, w
<1>6. a.home_domain = b.home_domain
  <2> DEFINE v == a.home_domain
             w == b.home_domain
             special == ""
             word == "cleared the home domain"
             what == "home domain"
  <2>1. DomainChange(a) = DomainChange(b)
    BY <1>1, ChangesOneByOne
  <2>2. word # what
    OBVIOUS
  <2>3. WordOrValue(v, special, word, what) = WordOrValue(w, special, word, what)
    BY <2>1 DEF DomainChange
  <2> HIDE DEF v, w, special, word, what
  <2>4. v = w
    BY <2>2, <2>3, ExceptionsAreToldApart
  <2> QED
    BY <2>4 DEF v, w
<1> QED
  BY <1>2, <1>3, <1>4, <1>5, <1>6

\* So are set_options operations told apart.
LEMMA SetOptionsAreToldApart ==
  ASSUME NEW a, NEW b, Alike(a, b), a.type = "set_options", b.type = "set_options"
  PROVE  Canon(a) = Canon(b)
<1>1. ASSUME NEW op \in {a, b}
      PROVE  IsSetOptions(op) /\ \A f \in DOMAIN op : op[f] # None
  BY DEF Alike, IsOperation, HasItsFields, SellOffers
<1>2. ASSUME NEW op \in {a, b}
      PROVE  LET h == FromSetOptions(op) IN
               /\ ExplanationOf(op).details.account = op.source_account
               /\ ExplanationOf(op).details.changes = Changes(h)
  <2> DEFINE h == FromSetOptions(op)
  <2>1. FromHorizon(op) = h
    BY DEF FromHorizon
  <2>2. "source_account" \in DOMAIN op /\ op.source_account # None
    BY <1>1 DEF IsSetOptions
  <2>3. h.kind = "SetOptions" /\ h.source = op.source_account
    BY <2>2 DEF FromSetOptions, Source, Field
  <2> HIDE DEF h
  <2>4. ExplanationOf(op) = ExplainSetOptions(h)
    BY <2>1, <2>3 DEF ExplanationOf, ExplainOperation
  <2>5. /\ ExplanationOf(op).details.account = op.source_account
        /\ ExplanationOf(op).details.changes = Changes(h)
    BY <2>2, <2>3, <2>4 DEF ExplainSetOptions, OrUnknown
  <2> QED
    BY <2>5 DEF h
<1> DEFINE h == FromSetOptions(a)
           k == FromSetOptions(b)
<1>3. Changes(h) = Changes(k) /\ a.source_account = b.source_account
  BY <1>2 DEF Alike, SameExplanation
<1>4. ASSUME NEW op \in {a, b}, NEW f \in {"set_flags", "clear_flags"}
      PROVE  FoldFlags(Field(op, f, None)) =
               IF f \in DOMAIN op THEN UNION {op[f][i] : i \in 1 .. Len(op[f])} ELSE None
  <2>1. CASE f \in DOMAIN op
    <3>1. IsFlags(op[f]) /\ op[f] # None /\ Field(op, f, None) = op[f]
      BY <1>1, <2>1 DEF IsSetOptions, Field
    <3> QED
      BY <2>1, <3>1, FoldedFlags
  <2>2. CASE f \notin DOMAIN op
    BY <2>2 DEF Field, FoldFlags
  <2> QED
    BY <2>1, <2>2
<1>5. ASSUME NEW op \in {a, b}, NEW f \in {"set_flags", "clear_flags"}
      PROVE  IsMask(FoldFlags(Field(op, f, None))) /\ (FoldFlags(Field(op, f, None)) = None <=> f \notin DOMAIN op)
  <2>1. CASE f \in DOMAIN op
    <3>1. IsFlags(op[f]) /\ op[f] # None /\ Field(op, f, None) = op[f]
      BY <1>1, <2>1 DEF IsSetOptions, Field
    <3>2. FoldFlags(Field(op, f, None)) \in (SUBSET (0 .. 3)) \ {{}}
      BY <3>1, FoldedFlags
    <3> QED
      BY <2>1, <3>2, FlagsAssumption DEF IsMask
  <2>2. CASE f \notin DOMAIN op
    BY <2>2 DEF Field, FoldFlags, IsMask
  <2> QED
    BY <2>1, <2>2
<1>6. ASSUME NEW op \in {a, b}
      PROVE  /\ Field(op, "signer_key", None) = None <=> "signer_key" \notin DOMAIN op
             /\ Field(op, "signer_key", None) = None <=> Field(op, "signer_weight", None) = None
  BY <1>1 DEF Field, IsSetOptions
<1>7. /\ h.inflation_dest = Field(a, "inflation_dest", None)
      /\ h.clear_flags = FoldFlags(Field(a, "clear_flags", None))
      /\ h.set_flags = FoldFlags(Field(a, "set_flags", None))
      /\ h.master_weight = Field(a, "master_key_weight", None)
      /\ h.low_threshold = Field(a, "low_threshold", None)
      /\ h.med_threshold = Field(a, "med_threshold", None)
      /\ h.high_threshold = Field(a, "high_threshold", None)
      /\ h.home_domain = Field(a, "home_domain", None)
      /\ h.signer_key = Field(a, "signer_key", None)
      /\ h.signer_weight = Field(a, "signer_weight", None)
  BY DEF FromSetOptions
<1>8. /\ k.inflation_dest = Field(b, "inflation_dest", None)
      /\ k.clear_flags = FoldFlags(Field(b, "clear_flags", None))
      /\ k.set_flags = FoldFlags(Field(b, "set_flags", None))
      /\ k.master_weight = Field(b, "master_key_weight", None)
      /\ k.low_threshold = Field(b, "low_threshold", None)
      /\ k.med_threshold = Field(b, "med_threshold", None)
      /\ k.high_threshold = Field(b, "high_threshold", None)
      /\ k.home_domain = Field(b, "home_domain", None)
      /\ k.signer_key = Field(b, "signer_key", None)
      /\ k.signer_weight = Field(b, "signer_weight", None)
  BY DEF FromSetOptions
<1> HIDE DEF h, k
<1>9. /\ IsMask(h.set_flags) /\ IsMask(h.clear_flags)
      /\ IsMask(k.set_flags) /\ IsMask(k.clear_flags)
      /\ h.signer_key = None <=> h.signer_weight = None
      /\ k.signer_key = None <=> k.signer_weight = None
  BY <1>5, <1>6, <1>7, <1>8
<1>10. /\ h.inflation_dest = k.inflation_dest
       /\ h.master_weight = k.master_weight
       /\ h.low_threshold = k.low_threshold
       /\ h.med_threshold = k.med_threshold
       /\ h.high_threshold = k.high_threshold
       /\ h.home_domain = k.home_domain
       /\ h.set_flags = k.set_flags
       /\ h.clear_flags = k.clear_flags
       /\ h.signer_key = None <=> k.signer_key = None
       /\ h.signer_weight = k.signer_weight
       /\ h.signer_key # None => KeyEnds(h.signer_key) = KeyEnds(k.signer_key)
  BY <1>3, <1>9, OptionsAreToldApart
<1>11. ASSUME NEW f \in { "inflation_dest", "master_key_weight", "low_threshold", "med_threshold",
                          "high_threshold", "home_domain", "signer_weight" }
       PROVE  SameOption(a, b, f)
  <2>1. Field(a, f, None) = Field(b, f, None)
    BY <1>7, <1>8, <1>10
  <2>2. (f \in DOMAIN a <=> f \in DOMAIN b) /\ (f \in DOMAIN a => a[f] = b[f])
    BY <1>1, <2>1, FieldsAreToldApart
  <2>3. Shown(a, f) = a[f] /\ Shown(b, f) = b[f]
    BY DEF Shown
  <2> QED
    BY <2>2, <2>3 DEF SameOption
<1>12. ASSUME NEW f \in {"set_flags", "clear_flags"} PROVE SameOption(a, b, f)
  <2>1. FoldFlags(Field(a, f, None)) = FoldFlags(Field(b, f, None))
    BY <1>7, <1>8, <1>10
  <2>2. f \in DOMAIN a <=> f \in DOMAIN b
    BY <1>5, <2>1
  <2>3. ASSUME NEW op PROVE Shown(op, f) = UNION {op[f][i] : i \in 1 .. Len(op[f])}
    BY DEF Shown
  <2> QED
    BY <1>4, <2>1, <2>2, <2>3 DEF SameOption
<1>13. SameOption(a, b, "signer_key")
  <2>1. "signer_key" \in DOMAIN a <=> "signer_key" \in DOMAIN b
    BY <1>6, <1>7, <1>8, <1>10
  <2>2. ASSUME NEW op PROVE Shown(op, "signer_key") = KeyEnds(op["signer_key"])
    BY DEF Shown, KeyEnds
  <2>3. CASE "signer_key" \in DOMAIN a
    <3>1. h.signer_key = a["signer_key"] /\ k.signer_key = b["signer_key"] /\ h.signer_key # None
      BY <1>1, <1>7, <1>8, <2>1, <2>3 DEF Field
    <3> QED
      BY <1>10, <2>1, <2>2, <3>1 DEF SameOption
  <2> QED
    BY <2>1, <2>3 DEF SameOption
<1>14. ASSUME NEW f \in {"type", "source_account"} PROVE SameOption(a, b, f)
  BY <1>1, <1>3 DEF IsSetOptions, SameOption, Shown
<1>15. ASSUME NEW f \in {"type", "source_account"} \cup OptionFields PROVE SameOption(a, b, f)
  BY <1>11, <1>12, <1>13, <1>14 DEF OptionFields
<1>16. /\ DOMAIN a \subseteq {"type", "source_account"} \cup OptionFields
       /\ DOMAIN b \subseteq {"type", "source_account"} \cup OptionFields
  BY <1>1 DEF IsSetOptions
<1>17. DOMAIN a = DOMAIN b /\ \A f \in DOMAIN a : Shown(a, f) = Shown(b, f)
  BY <1>15, <1>16 DEF SameOption
<1> QED
  BY <1>17, CanonIsWhatIsShown

\* Of the operations that are not supported there is nothing but the type.
LEMMA OthersAreToldApart ==
  ASSUME NEW a, NEW b, Alike(a, b), a.type = b.type, a.type \notin Supported
  PROVE  Canon(a) = Canon(b)
<1>1. ASSUME NEW op \in {a, b} PROVE DOMAIN op = {"type"}
  BY DEF Alike, IsOperation, HasItsFields, Supported, SellOffers
<1>2. Shown(a, "type") = Shown(b, "type")
  BY DEF Shown
<1> QED
  BY <1>1, <1>2, CanonIsWhatIsShown

LEMMA OperationsAreToldApart ==
  ASSUME NEW a, NEW b, Alike(a, b)
  PROVE  Canon(a) = Canon(b)
<1>1. ReportedType(a.type) = ReportedType(b.type)
  <2>1. ASSUME NEW op PROVE ExplanationOf(op).type = ReportedType(op.type)
    BY TypeIsReported DEF ExplanationOf
  <2> QED
    BY <2>1 DEF Alike, SameExplanation
<1> DEFINE offers == SellOffers \cup {"manage_buy_offer"}
           plain == { "create_account", "change_trust", "clawback",
                      "clawback_claimable_balance", "account_merge" }
           paths == {"path_payment_strict_send", "path_payment_strict_receive"}
<1>2. "manage_sell_offer" \in SellOffers
  BY DEF SellOffers
<1>3. CASE a.type \in offers \/ b.type \in offers
  <2>1. a.type \in offers /\ b.type \in offers
    BY <1>1, <1>2, <1>3 DEF ReportedType
  <2> QED
    BY <1>1, <2>1, OffersAreToldApart
<1>4. CASE a.type \notin offers /\ b.type \notin offers
  <2>1. a.type = b.type
    BY <1>1, <1>4 DEF ReportedType
  <2>2. \/ a.type = "payment" \/ a.type = "set_options" \/ a.type \in paths \/ a.type \in plain
        \/ a.type \notin Supported
    BY <1>4 DEF Supported
  <2>3. CASE a.type = "payment"
    BY <2>1, <2>3, PaymentsAreToldApart
  <2>4. CASE a.type = "set_options"
    BY <2>1, <2>4, SetOptionsAreToldApart
  <2>5. CASE a.type \in paths
    BY <2>1, <2>5, PathsAreToldApart
  <2>6. CASE a.type \in plain
    BY <2>1, <2>6, PlainOperationsAreToldApart
  <2>7. CASE a.type \notin Supported
    BY <2>1, <2>7, OthersAreToldApart
  <2> QED
    BY <2>2, <2>3, <2>4, <2>5, <2>6, <2>7
<1> QED
  BY <1>3, <1>4

\* What a client may know of an account can be read off its explanation.
LEMMA AccountsAreToldApart ==
  ASSUME NEW raw, NEW name, NEW explained, IsAccount(raw),
         explained = ExplainAccount(IntoDomain(raw), name)
  PROVE  CanonAccount(raw, name) =
           [ native |-> IF explained.xlm_balance = "0" THEN {} ELSE {explained.xlm_balance},
             others |-> explained.asset_count, signers |-> explained.signer_count,
             flags |-> explained.flag_descriptions,
             domain |-> IF explained.home_domain = None THEN "" ELSE explained.home_domain,
             name |-> explained.org_name ]
<1> DEFINE balances == raw.balances
           native == {i \in 1 .. Len(balances) : balances[i].asset_type = "native"}
           others == {i \in 1 .. Len(balances) : balances[i].asset_type # "native"}
           signers == {i \in 1 .. Len(raw.signers) : raw.signers[i] # 0}
           xlm == IF native = {} THEN "0" ELSE balances[Min(native)].balance
<1>1. /\ explained.xlm_balance = xlm
      /\ explained.asset_count = Cardinality(others)
      /\ explained.signer_count = Cardinality(signers)
      /\ explained.flag_descriptions = raw.flags
      /\ explained.home_domain = IF raw.home_domain = "" THEN None ELSE raw.home_domain
      /\ explained.org_name = OrgName(name)
  <2> DEFINE account == IntoDomain(raw)
  <2>1. /\ account.balances = balances /\ account.flags = raw.flags
        /\ account.home_domain = IF raw.home_domain = "" THEN None ELSE raw.home_domain
        /\ account.num_signers = Cardinality({i \in 1 .. Len(raw.signers) : raw.signers[i] > 0})
    BY DEF IntoDomain, Positions
  <2>2. {i \in 1 .. Len(raw.signers) : raw.signers[i] > 0} = signers
    BY DEF IsAccount
  <2> HIDE DEF account
  <2>3. XlmBalance(account) = xlm
    BY <2>1 DEF XlmBalance, Positions, IsNative
  <2>4. explained.asset_count = Cardinality(others)
    BY <2>1 DEF ExplainAccount, Positions, IsNative, account
  <2> QED
    BY <2>1, <2>2, <2>3, <2>4 DEF ExplainAccount, account
<1>2. {balances[i].balance : i \in native} = IF xlm = "0" THEN {} ELSE {xlm}
  <2>1. CASE native = {}
    BY <2>1
  <2>2. CASE native # {}
    <3>1. PICK i \in native : native = {i}
      BY <2>2 DEF IsAccount
    <3>2. Min(native) = i
      BY <3>1 DEF Min
    <3>3. balances[i].balance # "0"
      BY <3>1 DEF IsAccount
    <3> QED
      BY <3>1, <3>2, <3>3
  <2> QED
    BY <2>1, <2>2
<1>3. raw.home_domain # None
  BY DEF IsAccount
<1>4. CanonAccount(raw, name) =
        [ native |-> {balances[i].balance : i \in native}, others |-> Cardinality(others),
          signers |-> Cardinality(signers), flags |-> raw.flags, domain |-> raw.home_domain,
          name |-> OrgName(name) ]
  BY DEF CanonAccount, Positions, IsNative, OrgName
<1> HIDE DEF native, others, signers, xlm, balances
<1> QED
  BY <1>1, <1>2, <1>3, <1>4

LEMMA OperationsInList ==
  ASSUME NEW tx, NEW records, NEW base_fee, NEW body,
         records \in Seq(HorizonOps), body = ExplainTransaction(tx, records, base_fee)
  PROVE  \A i \in 1 .. Len(records) : body.operations[i].told = ExplanationOf(records[i])
<1> DEFINE ops == MapTransactionToDomain(records)
           fee == tx.fee_charged
           told(j) == ExplainOperation(ops[j], fee, base_fee)
<1>1. body.operations = [j \in 1 .. Len(ops) |-> OperationExplanation(j, told(j))]
  BY DEF ExplainTransaction
<1> SUFFICES ASSUME NEW i \in 1 .. Len(records)
             PROVE  body.operations[i].told = ExplanationOf(records[i])
  OBVIOUS
<1>2. Len(records) \in Nat /\ Len(ops) = Len(records) /\ ops[i] = FromHorizon(records[i])
  BY DEF MapTransactionToDomain
<1> HIDE DEF ops, told, fee
<1>3. body.operations[i].told = told(i)
  BY <1>1, <1>2 DEF OperationExplanation
<1>4. told(i) = ExplanationOf(records[i])
  BY <1>2, FeesAreNotTold DEF told, ExplanationOf
<1> QED
  BY <1>3, <1>4

\* Whatever operations Horizon has, no two that differ in more than an explanation
\* may leave out are explained alike, and neither are two accounts.
THEOREM NothingGoesMissing == QueriesSpec => []NothingIsConfused
<1>1. AnswerInv => NothingIsConfused
  <2> SUFFICES ASSUME AnswerInv PROVE NothingIsConfused
    OBVIOUS
  <2>1. ASSUME Answered("transaction"),
               NEW i \in 1 .. Len(asked.records), NEW other \in HorizonOps,
               SameExplanation(ToldOf[other], answer.body.operations[i].told)
        PROVE  Canon(other) = Canon(asked.records[i])
    <3> DEFINE records == asked.records
               tx == asked.tx
               base_fee == asked.base_fee
               op == records[i]
    <3>1. records \in Seq(HorizonOps) /\ answer.body = ExplainTransaction(tx, records, base_fee)
      BY <2>1 DEF AnswerInv, TransactionInv
    <3> HIDE DEF records, tx, base_fee
    <3>2. i \in 1 .. Len(records)
      BY DEF records
    <3>3. answer.body.operations[i].told = ExplanationOf(op)
      <4> DEFINE body == answer.body
      <4>1. records \in Seq(HorizonOps) /\ body = ExplainTransaction(tx, records, base_fee)
        BY <3>1
      <4> HIDE DEF body
      <4>2. \A j \in 1 .. Len(records) : body.operations[j].told = ExplanationOf(records[j])
        BY <4>1, OperationsInList
      <4> QED
        BY <3>2, <4>2 DEF body
    <3>4. op \in HorizonOps
      BY <3>1, <3>2
    <3> HIDE DEF op
    <3>5. ToldOf[other] = ExplanationOf(other)
      BY DEF ToldOf, ExplanationOf
    <3>6. SameExplanation(ExplanationOf(other), ExplanationOf(op))
      BY <2>1, <3>3, <3>5
    <3>7. IsOperation(other) /\ IsOperation(op)
      BY <3>4, WhatQueriesAssume DEF QuestionsAssumption
    <3>8. Canon(other) = Canon(op)
      BY <3>6, <3>7, OperationsAreToldApart DEF Alike
    <3> QED
      BY <3>8 DEF op, records
  <2>2. ASSUME Answered("account"),
               NEW other \in HorizonAccounts, NEW name \in Organisations \cup {None},
               ExplainAccount(IntoDomain(other), name) = answer.body
        PROVE  CanonAccount(other, name) = CanonAccount(asked.raw, asked.name)
    <3> DEFINE body == answer.body
               raw == asked.raw
               known == asked.name
    <3>1. raw \in HorizonAccounts /\ body = ExplainAccount(IntoDomain(raw), known)
      BY <2>2 DEF AnswerInv, AccountInv
    <3>2. body = ExplainAccount(IntoDomain(other), name)
      BY <2>2
    <3> HIDE DEF body, raw, known
    <3>3. IsAccount(raw) /\ IsAccount(other)
      BY <3>1, WhatQueriesAssume DEF QuestionsAssumption
    <3> DEFINE canon ==
          [ native |-> IF body.xlm_balance = "0" THEN {} ELSE {body.xlm_balance},
            others |-> body.asset_count, signers |-> body.signer_count,
            flags |-> body.flag_descriptions,
            domain |-> IF body.home_domain = None THEN "" ELSE body.home_domain,
            name |-> body.org_name ]
    <3>4. CanonAccount(raw, known) = canon
      BY <3>1, <3>3, AccountsAreToldApart
    <3>5. CanonAccount(other, name) = canon
      BY <3>2, <3>3, AccountsAreToldApart
    <3> HIDE DEF canon
    <3> QED
      BY <3>4, <3>5 DEF raw, known
  <2> QED
    BY <2>1, <2>2 DEF NothingIsConfused
<1> QED
  BY <1>1, AnswerAlways, PTL
=============================================================================
