------------------------------- MODULE HealthProofs -------------------------------
(***************************************************************************)
(* BannerIsRight for any number of polls that overtake each other.         *)
(***************************************************************************)
EXTENDS Health, TLAPS

\* Polls that were begun since the last change are answered with the present.
YoungPollsAreRight ==
  \A p \in Slots \ older :
    /\ polls[p] = "ok" => Reachable
    /\ polls[p] = "bad" => ~Reachable

\* BannerIsRight is not inductive: the next verdict is that of a poll.
IInv == TypeOK /\ YoungPollsAreRight /\ BannerIsRight /\ (told => older = {})

LEMMA InitInv == Init => IInv
BY HealthAssumption DEF Init, IInv, TypeOK, YoungPollsAreRight, BannerIsRight, Out

\* Steps of a poll change nothing of what is probed.
LEMMA SameReachable ==
  ASSUME UNCHANGED <<env, up, backend>>
  PROVE  Reachable' = Reachable
BY DEF Reachable, ProbedHorizon

LEMMA PollKeeps ==
  ASSUME IInv, NEW p \in Slots, Poll(p)
  PROVE  IInv'
<1>1. Reachable' = Reachable
  BY SameReachable DEF Poll
<1>2. TypeOK'
  BY DEF IInv, TypeOK, Poll, Out
<1>3. YoungPollsAreRight'
  BY <1>1 DEF IInv, TypeOK, YoungPollsAreRight, Poll
<1>4. BannerIsRight' /\ (told => older = {})'
  BY <1>1 DEF IInv, BannerIsRight, Poll
<1> QED
  BY <1>2, <1>3, <1>4 DEF IInv

\* The verdict is that of the moment.
LEMMA ProbeKeeps ==
  ASSUME IInv, NEW p \in Slots, Probe(p) \/ ProxyFails(p)
  PROVE  IInv'
<1>1. Reachable' = Reachable
  BY SameReachable DEF Probe, ProxyFails
<1>2. TypeOK'
  BY DEF IInv, TypeOK, Probe, ProxyFails, Out
<1>3. YoungPollsAreRight'
  <2> SUFFICES ASSUME NEW q \in Slots \ older
               PROVE  /\ polls'[q] = "ok" => Reachable
                      /\ polls'[q] = "bad" => ~Reachable
    BY <1>1 DEF YoungPollsAreRight, Probe, ProxyFails
  <2>1. CASE q = p
    BY <2>1 DEF IInv, TypeOK, Probe, ProxyFails, Reachable
  <2>2. CASE q # p
    BY <2>2 DEF IInv, TypeOK, YoungPollsAreRight, Probe, ProxyFails
  <2> QED
    BY <2>1, <2>2
<1>4. BannerIsRight' /\ (told => older = {})'
  BY <1>1 DEF IInv, BannerIsRight, Probe, ProxyFails
<1> QED
  BY <1>2, <1>3, <1>4 DEF IInv

\* When no older poll is out, the poll that answers is a young one.
LEMMA DeliverKeeps ==
  ASSUME IInv, NEW p \in Slots, Deliver(p)
  PROVE  IInv'
<1>1. Reachable' = Reachable
  BY SameReachable DEF Deliver, Answered
<1>2. polls[p] \in {"ok", "bad"} /\ polls' = [polls EXCEPT ![p] = "free"]
      /\ older' = older \ {p} /\ told' = (told \/ older = {})
      /\ degraded' = (polls[p] # "ok")
  BY DEF Deliver, Answered
<1>3. TypeOK'
  BY <1>2 DEF IInv, TypeOK, Deliver, Answered, Out
<1>4. YoungPollsAreRight'
  BY <1>1, <1>2 DEF IInv, TypeOK, YoungPollsAreRight
<1>5. (told => older = {})'
  BY <1>2 DEF IInv
<1>6. ASSUME told' PROVE degraded' = ~Reachable
  <2>1. older = {}
    BY <1>2, <1>6 DEF IInv
  <2>2. CASE polls[p] = "ok"
    BY <1>2, <2>1, <2>2 DEF IInv, YoungPollsAreRight
  <2>3. CASE polls[p] = "bad"
    <3>1. ~Reachable
      BY <2>1, <2>3 DEF IInv, YoungPollsAreRight
    <3> QED
      BY <1>2, <2>3, <3>1
  <2> QED
    BY <1>2, <2>2, <2>3
<1>7. BannerIsRight'
  BY <1>1, <1>6 DEF BannerIsRight
<1> QED
  BY <1>3, <1>4, <1>5, <1>7 DEF IInv

\* A change of what is probed makes every poll that is out an older one.
LEMMA ChangesKeep ==
  ASSUME IInv, Changes
  PROVE  IInv'
<1>1. UNCHANGED <<env, polls, degraded>>
  BY DEF Changes
<1>2. up' \in [Horizons -> BOOLEAN] /\ backend' \in BOOLEAN
  BY DEF Changes, IInv, TypeOK
<1>3. CASE Reachable' = Reachable
  <2>1. UNCHANGED <<older, told>>
    BY <1>3 DEF Changes
  <2>2. TypeOK'
    BY <1>1, <1>2, <2>1 DEF IInv, TypeOK, Out
  <2>3. YoungPollsAreRight'
    BY <1>1, <1>3, <2>1 DEF IInv, YoungPollsAreRight
  <2>4. BannerIsRight' /\ (told => older = {})'
    BY <1>1, <1>3, <2>1 DEF IInv, BannerIsRight
  <2> QED
    BY <2>2, <2>3, <2>4 DEF IInv
<1>4. CASE Reachable' # Reachable
  <2>1. older' = Out /\ told' = FALSE
    BY <1>4 DEF Changes
  <2>2. TypeOK'
    BY <1>1, <1>2, <2>1 DEF IInv, TypeOK, Out
  <2>3. YoungPollsAreRight'
    BY <1>1, <2>1 DEF YoungPollsAreRight, Out
  <2>4. BannerIsRight' /\ (told => older = {})'
    BY <2>1 DEF BannerIsRight
  <2> QED
    BY <2>2, <2>3, <2>4 DEF IInv
<1> QED
  BY <1>3, <1>4

\* However many polls are out and in whatever order they are answered, the
\* banner is right once the answers from before the last change have come
\* (NetworkStatusBanner.tsx).
THEOREM BannerComesRight == Spec => []BannerIsRight
<1>1. Init => IInv
  BY InitInv
<1>2. IInv /\ [Next]_vars => IInv'
  <2> SUFFICES ASSUME IInv, [Next]_vars PROVE IInv'
    OBVIOUS
  <2>1. CASE UNCHANGED vars
    BY <2>1 DEF vars, IInv, TypeOK, YoungPollsAreRight, BannerIsRight, Out, Reachable, ProbedHorizon
  <2>2. CASE Next
    BY <2>2, PollKeeps, ProbeKeeps, DeliverKeeps, ChangesKeep DEF Next, PollStep
  <2> QED
    BY <2>1, <2>2
<1>3. IInv => BannerIsRight
  BY DEF IInv
<1> QED
  BY <1>1, <1>2, <1>3, PTL DEF Spec
=============================================================================
