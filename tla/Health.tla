--------------------------------- MODULE Health ---------------------------------
(***************************************************************************)
(* The health endpoint and those who depend on it: which Horizon the       *)
(* server uses (main.rs, config/network.rs), which one GET /health probes  *)
(* (routes/health.rs, all of packages/core/src), the UI's proxy            *)
(* (app/api/health/route.ts) and its banner, which polls through the proxy *)
(* for as long as the page is open (components/NetworkStatusBanner.tsx).   *)
(*                                                                         *)
(* A poll is "asked", then answered "ok" or "bad", which is a 503 of the   *)
(* backend, a 502 of the proxy or no answer: the banner treats them alike. *)
(* Nothing keeps two polls from being out at once.                         *)
(***************************************************************************)
EXTENDS Integers, FiniteSets

CONSTANTS
  Slots,       \* polls that may be out at once: a bound of the model
  None

ASSUME HealthAssumption == Slots # {} /\ None \notin STRING

Horizons == {"public", "testnet", "other"}

\* The environment of the server's process; None for a variable that is not set.
Environments ==
  [STELLAR_NETWORK : {"public", "testnet", None}, HORIZON_URL : Horizons \cup {None}]

VARIABLES
  env,         \* the environment, which stays as it is
  up,          \* for each Horizon, whether it answers in time
  backend,     \* whether the proxy gets an answer of the backend
  polls,       \* what has become of the poll in each slot
  degraded,    \* the banner's verdict
  older,       \* history: polls that were out when something last went up or down
  told         \* history: a poll has been answered since they were all answered

vars == <<env, up, backend, polls, degraded, older, told>>

-----------------------------------------------------------------------------
(* Which Horizon? *)

\* StellarNetwork::from_env and horizon_url
NetworkHorizon == IF env.STELLAR_NETWORK = "testnet" THEN "testnet" ELSE "public"

\* The Horizon behind the other endpoints.
ServerHorizon == IF env.HORIZON_URL = None THEN NetworkHorizon ELSE env.HORIZON_URL

\* The one that the health endpoint looks at.
ProbedHorizon == IF env.HORIZON_URL = None THEN "testnet" ELSE env.HORIZON_URL

Reachable == backend /\ up[ProbedHorizon]

-----------------------------------------------------------------------------
(* The machine *)

Out == {p \in Slots : polls[p] # "free"}

Init ==
  /\ env \in Environments
  /\ up \in [Horizons -> BOOLEAN]
  /\ backend \in BOOLEAN
  /\ polls = [p \in Slots |-> "free"]
  /\ degraded = FALSE
  /\ older = {}
  /\ told = FALSE

\* On mount and then whenever the interval has passed, whatever is still out.
Poll(p) ==
  /\ polls[p] = "free"
  /\ polls' = [polls EXCEPT ![p] = "asked"]
  /\ UNCHANGED <<env, up, backend, degraded, older, told>>

\* health: 200 or 503, after a probe of its own.
Probe(p) ==
  /\ backend
  /\ polls[p] = "asked"
  /\ polls' = [polls EXCEPT ![p] = IF up[ProbedHorizon] THEN "ok" ELSE "bad"]
  /\ UNCHANGED <<env, up, backend, degraded, older, told>>

\* The proxy has no answer to pass on.
ProxyFails(p) ==
  /\ ~backend
  /\ polls[p] \in {"asked", "ok"}
  /\ polls' = [polls EXCEPT ![p] = "bad"]
  /\ UNCHANGED <<env, up, backend, degraded, older, told>>

Answered(p) ==
  /\ polls[p] \in {"ok", "bad"}
  /\ polls' = [polls EXCEPT ![p] = "free"]
  /\ older' = older \ {p}
  /\ told' = (told \/ older = {})
  /\ UNCHANGED <<env, up, backend>>

\* Mutant: no catch around the poll.
DeliverIgnoresFailures(p) == Answered(p) /\ degraded' = (degraded /\ polls[p] # "ok")

\* Mutant: a good answer does not clear the banner.
DeliverNeverClears(p) == Answered(p) /\ degraded' = (degraded \/ polls[p] # "ok")

\* Answers arrive in any order, and each one replaces the verdict.
Deliver(p) == Answered(p) /\ degraded' = (polls[p] # "ok")

\* A Horizon or the backend goes down or comes back.
Changes ==
  /\ UNCHANGED <<env, polls, degraded>>
  /\ \/ \E h \in Horizons : up' = [up EXCEPT ![h] = ~@] /\ UNCHANGED backend
     \/ backend' = ~backend /\ UNCHANGED up
  /\ IF Reachable' = Reachable THEN UNCHANGED <<older, told>>
     ELSE older' = Out /\ told' = FALSE

PollStep(p) == Poll(p) \/ Probe(p) \/ ProxyFails(p) \/ Deliver(p)

Next == Changes \/ \E p \in Slots : PollStep(p)

Spec == Init /\ [][Next]_vars

\* The interval goes on, and calls end: the probe by its limit of five seconds, the
\* calls of the proxy and of the banner, which name none, by the default of fetch.
Fairness ==
  /\ WF_vars(\E p \in Slots : Poll(p))
  /\ \A p \in Slots : WF_vars(Probe(p) \/ ProxyFails(p)) /\ WF_vars(Deliver(p))

FairSpec == Spec /\ Fairness

-----------------------------------------------------------------------------
(* Properties *)

TypeOK ==
  /\ env \in Environments /\ up \in [Horizons -> BOOLEAN] /\ backend \in BOOLEAN
  /\ polls \in [Slots -> {"free", "asked", "ok", "bad"}]
  /\ degraded \in BOOLEAN /\ told \in BOOLEAN /\ older \subseteq Out

\* A late answer may replace that of a later poll, but not for good: once the
\* polls that were out when something last went up or down are answered, the
\* next answer makes the banner tell the present, and it goes on doing so
\* (NetworkStatusBanner.tsx).
BannerIsRight == told => degraded = ~Reachable

\* If what is probed stays up, the banner goes away and does not come back, and
\* if it stays down, the banner comes and stays: polls that overtake each other
\* cannot keep it wrong (NetworkStatusBanner.tsx, with FairSpec).
BannerSettles ==
  /\ <>[]Reachable => <>[]~degraded
  /\ <>[]~Reachable => <>[]degraded

\* What GET /health documents of its status 200, "Service is healthy": the
\* Horizon that the service uses was reachable when it was probed.
HealthyMeansServing ==
  [][\A p \in Slots : polls[p] = "asked" /\ polls'[p] = "ok" => up[ServerHorizon]]_vars
=============================================================================
