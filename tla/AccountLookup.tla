----------------------------- MODULE AccountLookup -----------------------------
(***************************************************************************)
(* GET /account/:address (packages/core/src/routes/account.rs) and the     *)
(* lookup of an organisation's name in the stellar.toml of the account's   *)
(* home domain, with its cache                                             *)
(* (HorizonClient::fetch_stellar_toml_org_name in                          *)
(* packages/core/src/services/horizon.rs).                                 *)
(*                                                                         *)
(* All requests share one client and so one cache.  The cache is read      *)
(* under a read lock before the file is fetched and written under a write  *)
(* lock afterwards; nothing is locked in between, so several requests may  *)
(* fetch the same file and store what they got in any order.               *)
(*                                                                         *)
(* Time is kept as ages that stop growing once they no longer matter, so   *)
(* that the clock can run forever.                                         *)
(***************************************************************************)
EXTENDS Integers, FiniteSets, Option

CONSTANTS
  Requests,    \* account requests
  Domains,     \* home domains of accounts
  OrgNames,    \* organisation names a stellar.toml may give
  Ttl,         \* life of a cache entry: 3600 seconds in the code
  Timeout,     \* time limit of the GET: 5 seconds in the code
  NotYet,      \* no answer from the domain's server so far
  Absent       \* no cache entry

Published == OrgNames \cup {None}

CacheEntry == [org : Published, age : 0 .. Ttl]

ASSUME LookupAssumption ==
  /\ Ttl \in Nat \ {0}
  /\ Timeout \in Nat
  /\ None \notin OrgNames \cup Domains
  /\ NotYet \notin Published
  /\ Absent \notin CacheEntry

VARIABLES
  site,        \* the ORG_NAME each domain's file gives now; None without one
  lastSeen,    \* history: ticks since site[d] last was o
  toml_cache,  \* toml_cache[d] is the cached name with its age, or Absent
  phase,       \* where each request is
  domain,      \* the home domain of its account, or None
  elapsed,     \* ticks since its GET was sent
  served,      \* what the domain's server put in its answer, or NotYet
  reply        \* the response of each request, once it has one

vars == <<site, lastSeen, toml_cache, phase, domain, elapsed, served, reply>>

\* The oldest that a name may get before it is handed out for the last time.
MaxStale == Ttl - 1 + Timeout

Smaller(a, b) == IF a <= b THEN a ELSE b

NoReply == [status |-> 0, org |-> None, known |-> FALSE]

-----------------------------------------------------------------------------

Init ==
  /\ site \in [Domains -> Published]
  /\ lastSeen = [d \in Domains |->
                   [o \in Published |-> IF o = site[d] THEN 0 ELSE MaxStale + 1]]
  /\ toml_cache = [d \in Domains |-> Absent]
  /\ phase = [r \in Requests |-> "absent"]
  /\ domain = [r \in Requests |-> None]
  /\ elapsed = [r \in Requests |-> 0]
  /\ served = [r \in Requests |-> NotYet]
  /\ reply = [r \in Requests |-> NoReply]

\* A domain's owner edits its stellar.toml.
Publish(d, o) ==
  /\ site[d] # o
  /\ site' = [site EXCEPT ![d] = o]
  /\ lastSeen' = [lastSeen EXCEPT ![d][o] = 0]
  /\ UNCHANGED <<toml_cache, phase, domain, elapsed, served, reply>>

Older(entry) ==
  IF entry = Absent THEN Absent ELSE [entry EXCEPT !.age = Smaller(Ttl, @ + 1)]

\* The clock ticks, but not past a timer that is due.
Tick ==
  /\ \A r \in Requests : phase[r] = "fetch" => elapsed[r] < Timeout
  /\ elapsed' = [r \in Requests |->
                   IF phase[r] = "fetch" THEN elapsed[r] + 1 ELSE elapsed[r]]
  /\ toml_cache' = [d \in Domains |-> Older(toml_cache[d])]
  /\ lastSeen' = [d \in Domains |-> [o \in Published |->
                    IF o = site[d] THEN 0 ELSE Smaller(MaxStale + 1, lastSeen[d][o] + 1)]]
  /\ UNCHANGED <<site, phase, domain, served, reply>>

Arrive(r) ==
  /\ phase[r] = "absent"
  /\ phase' = [phase EXCEPT ![r] = "account"]
  /\ UNCHANGED <<site, lastSeen, toml_cache, domain, elapsed, served, reply>>

Respond(r, status, org, known) ==
  /\ phase' = [phase EXCEPT ![r] = "done"]
  /\ reply' = [reply EXCEPT ![r] = [status |-> status, org |-> org, known |-> known]]

\* fetch_account fails: 404 when Horizon does not know the account, 502 when it
\* cannot be reached or understood.
AccountFails(r, status) ==
  /\ phase[r] = "account"
  /\ Respond(r, status, None, FALSE)
  /\ UNCHANGED <<site, lastSeen, toml_cache, domain, elapsed, served>>

\* Mutant: an empty home domain is looked up too.
AccountFoundAny(r, d) ==
  /\ phase[r] = "account"
  /\ domain' = [domain EXCEPT ![r] = d]
  /\ phase' = [phase EXCEPT ![r] = "cache"]
  /\ UNCHANGED <<site, lastSeen, toml_cache, elapsed, served, reply>>

\* fetch_account succeeds; without a home domain there is nothing to look up.
AccountFound(r, d) ==
  /\ phase[r] = "account"
  /\ domain' = [domain EXCEPT ![r] = d]
  /\ IF d = None
       THEN Respond(r, 200, None, FALSE)
       ELSE phase' = [phase EXCEPT ![r] = "cache"] /\ UNCHANGED reply
  /\ UNCHANGED <<site, lastSeen, toml_cache, elapsed, served>>

\* Mutant: an entry is used whatever its age.
FreshForever(d) == toml_cache[d] # Absent

\* fetched_at.elapsed() < 3600 s
Fresh(d) == toml_cache[d] # Absent /\ toml_cache[d].age < Ttl

\* The read lock: a fresh entry is the answer, also one that says "no name".
CacheHit(r) ==
  /\ phase[r] = "cache"
  /\ Fresh(domain[r])
  /\ Respond(r, 200, toml_cache[domain[r]].org, TRUE)
  /\ UNCHANGED <<site, lastSeen, toml_cache, domain, elapsed, served>>

\* Otherwise a GET is sent, with a time limit.
CacheMiss(r) ==
  /\ phase[r] = "cache"
  /\ ~Fresh(domain[r])
  /\ phase' = [phase EXCEPT ![r] = "fetch"]
  /\ elapsed' = [elapsed EXCEPT ![r] = 0]
  /\ UNCHANGED <<site, lastSeen, toml_cache, domain, served, reply>>

\* The domain's server answers 200 with the file as it is now.
Serve(r) ==
  /\ phase[r] = "fetch"
  /\ served[r] = NotYet
  /\ served' = [served EXCEPT ![r] = site[domain[r]]]
  /\ UNCHANGED <<site, lastSeen, toml_cache, phase, domain, elapsed, reply>>

\* Mutant: a failed fetch is remembered as "no name".
FetchFailsCached(r) ==
  /\ phase[r] = "fetch"
  /\ toml_cache' = [toml_cache EXCEPT ![domain[r]] = [org |-> None, age |-> 0]]
  /\ Respond(r, 200, None, FALSE)
  /\ UNCHANGED <<site, lastSeen, domain, elapsed, served>>

\* Mutant: a failed fetch fails the request.
FetchFailsRequest(r) ==
  /\ phase[r] = "fetch"
  /\ Respond(r, 502, None, FALSE)
  /\ UNCHANGED <<site, lastSeen, toml_cache, domain, elapsed, served>>

\* The GET fails: no connection, a status other than 200, an unreadable body, or
\* no complete answer in time.  Nothing is cached.
FetchFails(r) ==
  /\ phase[r] = "fetch"
  /\ Respond(r, 200, None, FALSE)
  /\ UNCHANGED <<site, lastSeen, toml_cache, domain, elapsed, served>>

\* Mutant: the GET has no time limit.
TimesOutNever(r) == FALSE /\ UNCHANGED vars

TimesOut(r) == elapsed[r] = Timeout /\ FetchFails(r)

\* The answer is complete: it is stored, with the time of storing as its stamp,
\* over whatever another request stored meanwhile, and returned.
Deliver(r) ==
  /\ phase[r] = "fetch"
  /\ served[r] # NotYet
  /\ toml_cache' = [toml_cache EXCEPT ![domain[r]] = [org |-> served[r], age |-> 0]]
  /\ Respond(r, 200, served[r], TRUE)
  /\ UNCHANGED <<site, lastSeen, domain, elapsed, served>>

\* What the backend does by itself, with no help from another server.
Internal(r) == CacheHit(r) \/ CacheMiss(r) \/ TimesOut(r)

Next ==
  \/ \E d \in Domains, o \in Published : Publish(d, o)
  \/ Tick
  \/ \E r \in Requests :
       \/ Arrive(r)
       \/ \E status \in {404, 502} : AccountFails(r, status)
       \/ \E d \in Domains \cup {None} : AccountFound(r, d)
       \/ Internal(r)
       \/ Serve(r)
       \/ FetchFails(r)
       \/ Deliver(r)

Spec == Init /\ [][Next]_vars

\* Time goes on and the backend does its part.  Neither Horizon nor a domain's
\* server has to answer.
Fairness == WF_vars(Tick) /\ \A r \in Requests : WF_vars(Internal(r))

FairSpec == Spec /\ Fairness

-----------------------------------------------------------------------------
(* Properties *)

\* Type invariant.
TypeOK ==
  /\ site \in [Domains -> Published]
  /\ lastSeen \in [Domains -> [Published -> 0 .. MaxStale + 1]]
  /\ toml_cache \in [Domains -> CacheEntry \cup {Absent}]
  /\ phase \in [Requests -> {"absent", "account", "cache", "fetch", "done"}]
  /\ domain \in [Requests -> Domains \cup {None}]
  /\ elapsed \in [Requests -> 0 .. Timeout]
  /\ served \in [Requests -> Published \cup {NotYet}]
  /\ reply \in [Requests -> [status : {0, 200, 404, 502}, org : Published, known : BOOLEAN]]
  /\ \A r \in Requests : phase[r] \in {"cache", "fetch"} => domain[r] \in Domains

\* What the cache would answer was published by the domain no longer ago than
\* the entry is old, give or take the time limit of one GET: a slow answer that
\* overwrites a newer one cannot make an old name young again, and a failed
\* lookup leaves no "no name" behind that nobody published.
CacheIsHonest ==
  \A d \in Domains :
    Fresh(d) => lastSeen[d][toml_cache[d].org] <= toml_cache[d].age + Timeout

\* A name is handed out, and the absence of one asserted, only if the domain
\* published it at most Ttl - 1 + Timeout ticks before.
AnswersAreRecent ==
  [][\A r \in Requests :
       reply'[r] # reply[r] /\ reply'[r].known
         => lastSeen[domain[r]][reply'[r].org] <= MaxStale]_vars

\* The lookup is optional: once Horizon has given the account, the request
\* succeeds whatever the domain's server does.
LookupNeverFailsRequest ==
  \A r \in Requests : domain[r] # None /\ phase[r] = "done" => reply[r].status = 200

\* ... and it ends, even if that server never answers.
LookupEnds == \A r \in Requests : phase[r] \in {"cache", "fetch"} ~> phase[r] = "done"
=============================================================================
