--------------------------- MODULE BatchLookupProofs ---------------------------
(***************************************************************************)
(* Each item once, and each result in its place, for lists of any length   *)
(* and any number of runners.                                              *)
(***************************************************************************)
EXTENDS BatchLookup, TLAPS

\* Before the start nothing has been claimed.
IdleIsFresh ==
  outer = "idle" =>
    /\ cursor = 1
    /\ InFlight = {} /\ ended = {}
    /\ \A i \in Indices : results[i] = None

\* What runners hold was claimed.
HeldIsClaimed == \A w \in InFlight : current[w] < cursor

\* ... and so was every item that has a result.
ResultsAreClaimed == \A i \in Indices : results[i] # None => i < cursor

\* Until a lookup rejects, every runner either holds an item or has ended for
\* want of one, and what was claimed is held or has its result.
NothingIsLost ==
  /\ ended \cap InFlight = {}
  /\ outer = "pending" =>
       /\ 1 .. RunnerCount \subseteq ended \cup InFlight
       /\ ended # {} => cursor = N + 1
       /\ \A i \in Indices : i < cursor => results[i] = i \/ \E w \in InFlight : current[w] = i

IInv ==
  /\ TypeOK /\ ClaimedOnce /\ ResultsInPlace
  /\ IdleIsFresh /\ HeldIsClaimed /\ ResultsAreClaimed /\ NothingIsLost

-----------------------------------------------------------------------------

LEMMA Lengths == ASSUME TypeOK PROVE N \in Nat /\ None \notin Indices
BY BatchAssumption DEF TypeOK, N, Indices

\* Whatever number was asked for, there is a runner and there are no more than
\* MaxParallel, nor more than items.
LEMMA RunnerCountBounds ==
  ASSUME TypeOK
  PROVE  /\ RunnerCount \in 1 .. MaxParallel
         /\ Smaller(RunnerCount, N) \in 0 .. N
         /\ Smaller(RunnerCount, N) <= RunnerCount
         /\ Smaller(RunnerCount, N) < RunnerCount => N = 0 /\ RunnerCount = 1
<1>1. N \in Nat /\ MaxParallel \in Nat \ {0}
  BY Lengths, BatchAssumption
<1>2. Clamp(option) \in 1 .. MaxParallel
  <2>1. CASE option = NotFinite \/ option < 2
    BY <1>1, <2>1 DEF Clamp
  <2>2. CASE option # NotFinite /\ ~(option < 2)
    <3>1. option \in Int /\ option \div 2 >= 1
      BY <2>2, BatchAssumption DEF TypeOK
    <3> QED
      BY <1>1, <2>2, <3>1 DEF Clamp, Smaller
  <2> QED
    BY <2>1, <2>2
<1> QED
  BY <1>1, <1>2 DEF RunnerCount, Larger, Smaller

LEMMA InitInv == Init => IInv
<1> SUFFICES ASSUME Init PROVE IInv
  OBVIOUS
<1>1. N \in Nat /\ None \notin Indices
  BY BatchAssumption DEF Init, N, Indices
<1>2. InFlight = {}
  BY DEF Init, InFlight
<1>3. TypeOK
  BY <1>1, <1>2 DEF Init, TypeOK
<1> QED
  BY <1>1, <1>2, <1>3
  DEF Init, IInv, ClaimedOnce, ResultsInPlace, IdleIsFresh, HeldIsClaimed, ResultsAreClaimed,
      NothingIsLost, Indices

-----------------------------------------------------------------------------

LEMMA SameList ==
  ASSUME UNCHANGED inputs
  PROVE  N' = N /\ Indices' = Indices /\ RunnerCount' = RunnerCount
BY DEF inputs, N, Indices, RunnerCount, Clamp

\* The runners start on the first items, one each.
LEMMA StartKeeps == ASSUME IInv, Start PROVE IInv'
<1> DEFINE first == Smaller(RunnerCount, N)
<1>1. N' = N /\ Indices' = Indices /\ RunnerCount' = RunnerCount
  BY SameList DEF Start
<1>2. /\ N \in Nat /\ None \notin Indices /\ MaxParallel \in Nat
      /\ RunnerCount \in 1 .. MaxParallel /\ first \in 0 .. N /\ first <= RunnerCount
      /\ first < RunnerCount => N = 0
  BY Lengths, RunnerCountBounds, BatchAssumption DEF IInv
<1>3. /\ outer = "idle" /\ outer' = "pending" /\ UNCHANGED <<items, option, results>>
      /\ current' = [w \in Runners |-> IF w <= first THEN w ELSE None]
      /\ ended' = {w \in Runners : first < w /\ w <= RunnerCount}
      /\ cursor' = first + 1
      /\ calls' = [i \in Indices |-> IF i <= first THEN 1 ELSE 0]
  BY DEF Start, inputs
<1> HIDE DEF first
<1>4. InFlight' = 1 .. first
  <2>1. ASSUME NEW w \in Runners PROVE w \in InFlight' <=> w \in 1 .. first
    BY <1>2, <1>3 DEF InFlight, Runners, Indices
  <2> QED
    BY <1>2, <2>1 DEF InFlight, Runners
<1>5. \A w \in InFlight' : current'[w] = w /\ w \in Indices
  BY <1>2, <1>3, <1>4 DEF Runners, Indices
<1>6. TypeOK'
  <2>1. current' \in [Runners -> Indices \cup {None}]
    BY <1>2, <1>3 DEF Runners, Indices
  <2>2. InFlight' \cup ended' \subseteq 1 .. RunnerCount
    BY <1>2, <1>3, <1>4 DEF Runners
  <2>3. calls' \in [Indices -> Nat] /\ cursor' \in 1 .. N + 1
    BY <1>2, <1>3
  <2> QED
    BY <1>1, <1>3, <2>1, <2>2, <2>3 DEF IInv, TypeOK
<1>7. ClaimedOnce'
  BY <1>1, <1>2, <1>3, <1>5 DEF ClaimedOnce, Indices
<1>8. ResultsInPlace' /\ IdleIsFresh' /\ ResultsAreClaimed'
  BY <1>1, <1>3, <1>5 DEF IInv, ResultsInPlace, IdleIsFresh, ResultsAreClaimed
<1>9. HeldIsClaimed'
  BY <1>2, <1>3, <1>4, <1>5 DEF HeldIsClaimed
<1>10. NothingIsLost'
  <2>1. ended' \cap InFlight' = {}
    BY <1>2, <1>3, <1>4 DEF Runners
  <2>2. 1 .. RunnerCount \subseteq ended' \cup InFlight'
    BY <1>2, <1>3, <1>4 DEF Runners
  <2>3. ended' # {} => cursor' = N + 1
    BY <1>2, <1>3 DEF Runners
  <2>4. \A i \in Indices : i < cursor' => \E w \in InFlight' : current'[w] = i
    BY <1>2, <1>3, <1>4, <1>5 DEF Indices
  <2> QED
    BY <1>1, <2>1, <2>2, <2>3, <2>4 DEF NothingIsLost
<1> QED
  BY <1>6, <1>7, <1>8, <1>9, <1>10 DEF IInv

-----------------------------------------------------------------------------

\* What a runner does once its item has a result leaves the cursor, the items
\* in flight and the counts in order.
LEMMA ClaimKeeps ==
  ASSUME IInv, outer # "idle", NEW w \in InFlight, ClaimOrEnd(w), UNCHANGED inputs,
         outer' = outer
  PROVE  /\ cursor' \in 1 .. N + 1 /\ cursor <= cursor'
         /\ current' \in [Runners -> Indices \cup {None}]
         /\ InFlight' \cup ended' \subseteq 1 .. RunnerCount
         /\ calls' \in [Indices -> Nat]
         /\ ClaimedOnce' /\ HeldIsClaimed'
         /\ ended' \cap InFlight' = {}
         /\ InFlight \subseteq InFlight' \cup {w} /\ InFlight' \subseteq InFlight
         /\ \A v \in InFlight' \ {w} : current'[v] = current[v]
         /\ w \in InFlight' => current'[w] = cursor /\ cursor' = cursor + 1 /\ ended' = ended
         /\ w \notin InFlight' => cursor = N + 1 /\ cursor' = cursor /\ ended' = ended \cup {w}
<1>1. N' = N /\ Indices' = Indices /\ RunnerCount' = RunnerCount
  BY SameList
<1>2. N \in Nat /\ None \notin Indices /\ w \in Runners /\ w \in 1 .. RunnerCount /\ cursor \in 1 .. N + 1
  BY Lengths DEF IInv, TypeOK, InFlight
<1>3. current[w] \in Indices /\ calls \in [Indices -> Nat] /\ current \in [Runners -> Indices \cup {None}]
  BY DEF IInv, TypeOK, InFlight
<1>4. CASE cursor <= N
  <2>1. /\ current' = [current EXCEPT ![w] = cursor] /\ ended' = ended
        /\ calls' = [calls EXCEPT ![cursor] = @ + 1] /\ cursor' = cursor + 1
    BY <1>4 DEF ClaimOrEnd
  <2>2. cursor \in Indices
    BY <1>2, <1>4 DEF Indices
  <2>3. InFlight' = InFlight
    BY <1>2, <1>3, <2>1, <2>2 DEF InFlight
  <2>4. current'[w] = cursor /\ \A v \in InFlight \ {w} : current'[v] = current[v]
    BY <1>2, <1>3, <2>1 DEF InFlight
  <2>5. ClaimedOnce'
    <3>1. \A i \in Indices : calls'[i] = IF i < cursor' THEN 1 ELSE 0
      BY <1>2, <1>3, <2>1, <2>2 DEF IInv, ClaimedOnce, Indices
    <3>2. \A v \in InFlight : v # w => current'[v] < cursor
      BY <2>4 DEF IInv, HeldIsClaimed
    <3>3. ASSUME NEW v \in InFlight, NEW u \in InFlight, u # v PROVE current'[u] # current'[v]
      BY <1>2, <2>4, <3>2, <3>3 DEF IInv, ClaimedOnce
    <3> QED
      BY <1>1, <2>3, <3>1, <3>3 DEF ClaimedOnce
  <2>6. HeldIsClaimed'
    <3>1. ASSUME NEW v \in InFlight PROVE current'[v] < cursor'
      <4>1. CASE v = w
        BY <1>2, <2>1, <2>4, <4>1
      <4>2. CASE v # w
        <5>1. current[v] < cursor /\ current[v] \in Int
          BY <1>2, <1>3 DEF IInv, HeldIsClaimed, InFlight, Indices
        <5> QED
          BY <1>2, <2>1, <2>4, <4>2, <5>1
      <4> QED
        BY <4>1, <4>2
    <3> QED
      BY <2>3, <3>1 DEF HeldIsClaimed
  <2>7. current' \in [Runners -> Indices \cup {None}] /\ calls' \in [Indices -> Nat]
    BY <1>2, <1>3, <2>1, <2>2
  <2>8. ended' \cap InFlight' = {} /\ InFlight' \cup ended' \subseteq 1 .. RunnerCount
    BY <2>1, <2>3 DEF IInv, TypeOK, NothingIsLost
  <2>9. cursor' \in 1 .. N + 1 /\ cursor <= cursor' /\ cursor' = cursor + 1
    BY <1>2, <1>4, <2>1
  <2> QED
    BY <2>1, <2>3, <2>4, <2>5, <2>6, <2>7, <2>8, <2>9
<1>5. CASE ~(cursor <= N)
  <2>1. /\ current' = [current EXCEPT ![w] = None] /\ ended' = ended \cup {w}
        /\ calls' = calls /\ cursor' = cursor
    BY <1>5 DEF ClaimOrEnd
  <2>2. cursor = N + 1
    BY <1>2, <1>5
  <2>3. InFlight' = InFlight \ {w}
    BY <1>2, <1>3, <2>1 DEF InFlight
  <2>4. \A v \in InFlight' : current'[v] = current[v]
    BY <1>2, <1>3, <2>1, <2>3 DEF InFlight
  <2>5. ClaimedOnce'
    BY <1>1, <2>1, <2>3, <2>4 DEF IInv, ClaimedOnce
  <2>6. HeldIsClaimed'
    BY <2>1, <2>3, <2>4 DEF IInv, HeldIsClaimed
  <2> QED
    BY <1>2, <1>3, <2>1, <2>2, <2>3, <2>4, <2>5, <2>6 DEF IInv, TypeOK, NothingIsLost
<1> QED
  BY <1>4, <1>5

\* The result goes to the slot of the item that the runner held, and no other
\* runner holds that item.
LEMMA FulfilKeeps == ASSUME IInv, NEW w \in Runners, Fulfil(w) PROVE IInv'
<1>1. /\ outer \in {"pending", "rejected"} /\ outer' = outer /\ UNCHANGED inputs
      /\ results' = [results EXCEPT ![current[w]] = current[w]] /\ ClaimOrEnd(w)
  BY DEF Fulfil
<1>2. w \in InFlight /\ N \in Nat /\ None \notin Indices /\ current[w] \in Indices /\ current[w] < cursor
  BY Lengths DEF Fulfil, InFlight, IInv, TypeOK, HeldIsClaimed
<1>3. N' = N /\ Indices' = Indices /\ RunnerCount' = RunnerCount
  BY <1>1, SameList
<1>4. /\ cursor' \in 1 .. N + 1 /\ cursor <= cursor'
      /\ current' \in [Runners -> Indices \cup {None}]
      /\ InFlight' \cup ended' \subseteq 1 .. RunnerCount
      /\ calls' \in [Indices -> Nat]
      /\ ClaimedOnce' /\ HeldIsClaimed'
      /\ ended' \cap InFlight' = {}
      /\ InFlight \subseteq InFlight' \cup {w} /\ InFlight' \subseteq InFlight
      /\ \A v \in InFlight' \ {w} : current'[v] = current[v]
      /\ w \in InFlight' => current'[w] = cursor /\ cursor' = cursor + 1 /\ ended' = ended
      /\ w \notin InFlight' => cursor = N + 1 /\ cursor' = cursor /\ ended' = ended \cup {w}
  BY <1>1, <1>2, ClaimKeeps
<1>5. /\ results' \in [Indices -> Indices \cup {None}] /\ results'[current[w]] = current[w]
      /\ \A i \in Indices : i # current[w] => results'[i] = results[i]
  BY <1>1, <1>2 DEF IInv, TypeOK
<1>6. TypeOK'
  BY <1>1, <1>3, <1>4, <1>5 DEF IInv, TypeOK, inputs
<1>7. ResultsInPlace'
  <2>1. \A i \in Indices : results'[i] \in {i, None}
    BY <1>2, <1>5 DEF IInv, ResultsInPlace
  <2>2. ASSUME NEW v \in InFlight' PROVE results'[current'[v]] = None
    <3>1. CASE v = w
      \* The item that was just claimed: nobody can have stored it before.
      <4>1. current'[w] = cursor /\ cursor \in Indices /\ cursor # current[w]
        BY <1>2, <1>4, <2>2, <3>1 DEF Indices, IInv, TypeOK
      <4>2. results[cursor] = None
        BY <4>1 DEF IInv, ResultsAreClaimed, TypeOK
      <4> QED
        BY <1>5, <3>1, <4>1, <4>2
    <3>2. CASE v # w
      <4>1. current'[v] = current[v] /\ current[v] # current[w] /\ current[v] \in Indices
        BY <1>2, <1>4, <2>2, <3>2 DEF IInv, ClaimedOnce, TypeOK, InFlight
      <4> QED
        BY <1>4, <1>5, <2>2, <4>1 DEF IInv, ResultsInPlace
    <3> QED
      BY <3>1, <3>2
  <2> QED
    BY <1>1, <1>3, <2>1, <2>2 DEF ResultsInPlace
<1>8. IdleIsFresh'
  BY <1>1 DEF IdleIsFresh
<1>9. ResultsAreClaimed'
  <2>1. ASSUME NEW i \in Indices, results'[i] # None PROVE i < cursor'
    <3>1. i < cursor
      BY <1>2, <1>5, <2>1 DEF IInv, ResultsAreClaimed
    <3>2. i \in Int /\ cursor \in Int /\ cursor' \in Int
      BY <1>2, <1>4 DEF Indices, IInv, TypeOK
    <3> QED
      BY <1>4, <3>1, <3>2
  <2> QED
    BY <1>3, <2>1 DEF ResultsAreClaimed
<1>10. NothingIsLost'
  <2>1. ASSUME outer = "pending"
        PROVE  /\ 1 .. RunnerCount \subseteq ended' \cup InFlight'
               /\ ended' # {} => cursor' = N + 1
    <3>1. 1 .. RunnerCount \subseteq ended \cup InFlight /\ (ended # {} => cursor = N + 1)
      BY <2>1 DEF IInv, NothingIsLost
    <3>2. CASE w \in InFlight'
      <4>1. cursor # N + 1
        BY <1>2, <1>4, <3>2 DEF IInv, TypeOK
      <4> QED
        BY <1>4, <3>1, <3>2, <4>1
    <3>3. CASE w \notin InFlight'
      BY <1>4, <3>1, <3>3
    <3> QED
      BY <3>2, <3>3
  <2>2. ASSUME outer = "pending", NEW i \in Indices, i < cursor'
        PROVE  results'[i] = i \/ \E v \in InFlight' : current'[v] = i
    <3>1. CASE i < cursor
      <4>1. CASE results[i] = i
        BY <1>2, <1>5, <4>1 DEF IInv, ResultsInPlace
      <4>2. CASE results[i] # i
        <5>1. PICK v \in InFlight : current[v] = i
          BY <2>2, <3>1, <4>2 DEF IInv, NothingIsLost
        <5>2. CASE v = w
          BY <1>5, <5>1, <5>2
        <5>3. CASE v # w
          BY <1>4, <5>1, <5>3
        <5> QED
          BY <5>2, <5>3
      <4> QED
        BY <4>1, <4>2
    <3>2. CASE ~(i < cursor)
      <4>1. w \in InFlight' /\ i = cursor
        BY <1>2, <1>4, <2>2, <3>2 DEF Indices, IInv, TypeOK
      <4> QED
        BY <1>4, <4>1
    <3> QED
      BY <3>1, <3>2
  <2> QED
    BY <1>1, <1>3, <1>4, <2>1, <2>2 DEF NothingIsLost
<1> QED
  BY <1>4, <1>6, <1>7, <1>8, <1>9, <1>10 DEF IInv

\* A rejection takes its runner out; from then on nothing is promised about what
\* is still to come.
LEMMA RejectKeeps == ASSUME IInv, NEW w \in Runners, Reject(w) PROVE IInv'
<1>1. /\ outer \in {"pending", "rejected"} /\ outer' = "rejected"
      /\ UNCHANGED <<inputs, cursor, results, calls>>
      /\ current' = [current EXCEPT ![w] = None] /\ ended' = ended \cup {w}
  BY DEF Reject
<1>2. w \in InFlight /\ None \notin Indices
  BY Lengths DEF Reject, InFlight, IInv
<1>3. N' = N /\ Indices' = Indices /\ RunnerCount' = RunnerCount
  BY <1>1, SameList
<1>4. InFlight' = InFlight \ {w} /\ \A v \in InFlight' : current'[v] = current[v]
  BY <1>1, <1>2 DEF InFlight, IInv, TypeOK
<1>5. TypeOK'
  <2>1. current' \in [Runners -> Indices \cup {None}]
    BY <1>1 DEF IInv, TypeOK
  <2>2. InFlight' \cup ended' \subseteq 1 .. RunnerCount
    BY <1>1, <1>2, <1>4 DEF IInv, TypeOK
  <2> QED
    BY <1>1, <1>3, <2>1, <2>2 DEF IInv, TypeOK, inputs
<1>6. ClaimedOnce' /\ HeldIsClaimed' /\ ResultsAreClaimed'
  BY <1>1, <1>3, <1>4 DEF IInv, ClaimedOnce, HeldIsClaimed, ResultsAreClaimed
<1>7. ResultsInPlace' /\ IdleIsFresh' /\ NothingIsLost'
  BY <1>1, <1>3, <1>4 DEF IInv, ResultsInPlace, IdleIsFresh, NothingIsLost
<1> QED
  BY <1>5, <1>6, <1>7 DEF IInv

\* When all runners have ended nothing is in flight and the cursor is at the
\* end, so that every item has its result.
LEMMA ReturnKeeps == ASSUME IInv, Return PROVE IInv'
<1>1. /\ outer = "pending" /\ outer' = "resolved" /\ 1 .. RunnerCount \subseteq ended
      /\ UNCHANGED <<inputs, cursor, current, ended, results, calls>>
  BY DEF Return
<1>2. N' = N /\ Indices' = Indices /\ RunnerCount' = RunnerCount /\ InFlight' = InFlight
  BY <1>1, SameList DEF InFlight
<1>3. \A i \in Indices : results[i] = i
  <2>1. InFlight = {}
    BY <1>1 DEF IInv, TypeOK, NothingIsLost
  <2>2. 1 \in ended
    BY <1>1, RunnerCountBounds, BatchAssumption DEF IInv
  <2>3. cursor = N + 1 /\ N \in Nat
    BY <1>1, <2>2, Lengths DEF IInv, NothingIsLost
  <2> QED
    BY <1>1, <2>1, <2>3 DEF IInv, NothingIsLost, Indices
<1>4. TypeOK' /\ ClaimedOnce' /\ HeldIsClaimed' /\ ResultsAreClaimed'
  BY <1>1, <1>2 DEF IInv, TypeOK, ClaimedOnce, HeldIsClaimed, ResultsAreClaimed, inputs
<1>5. ResultsInPlace' /\ IdleIsFresh' /\ NothingIsLost'
  BY <1>1, <1>2, <1>3 DEF IInv, ResultsInPlace, IdleIsFresh, NothingIsLost
<1> QED
  BY <1>4, <1>5 DEF IInv

LEMMA DieKeeps == ASSUME IInv, Die PROVE IInv'
<1>1. /\ outer = "rejected" /\ outer' = "dead"
      /\ UNCHANGED <<inputs, cursor, current, ended, results, calls>>
  BY DEF Die
<1>2. N' = N /\ Indices' = Indices /\ RunnerCount' = RunnerCount /\ InFlight' = InFlight
  BY <1>1, SameList DEF InFlight
<1> QED
  BY <1>1, <1>2
  DEF IInv, TypeOK, ClaimedOnce, ResultsInPlace, IdleIsFresh, HeldIsClaimed, ResultsAreClaimed,
      NothingIsLost, inputs

LEMMA StutterKeeps == ASSUME IInv, UNCHANGED vars PROVE IInv'
<1>1. UNCHANGED <<inputs, cursor, current, ended, results, outer, calls>>
  BY DEF vars, inputs
<1>2. N' = N /\ Indices' = Indices /\ RunnerCount' = RunnerCount /\ InFlight' = InFlight
  BY <1>1, SameList DEF InFlight
<1> QED
  BY <1>1, <1>2
  DEF IInv, TypeOK, ClaimedOnce, ResultsInPlace, IdleIsFresh, HeldIsClaimed, ResultsAreClaimed,
      NothingIsLost, inputs

-----------------------------------------------------------------------------

\* The strengthened invariant holds in every order of completion.
THEOREM InvHolds == Spec => []IInv
<1>1. Init => IInv
  BY InitInv
<1>2. IInv /\ [Next]_vars => IInv'
  <2> SUFFICES ASSUME IInv, [Next]_vars PROVE IInv'
    OBVIOUS
  <2>1. CASE UNCHANGED vars
    BY <2>1, StutterKeeps
  <2>2. CASE Next
    BY <2>2, StartKeeps, FulfilKeeps, RejectKeeps, ReturnKeeps, DieKeeps, StutterKeeps DEF Next, Ended
  <2> QED
    BY <2>1, <2>2
<1> QED
  BY <1>1, <1>2, PTL DEF Spec

\* The state is well formed, and never more lookups are in flight than were
\* asked for (mapWithConcurrency, clampConcurrency).
THEOREM BatchTypeCorrect == Spec => []TypeOK
<1>1. IInv => TypeOK
  BY DEF IInv
<1> QED
  BY <1>1, InvHolds, PTL

\* No item is looked up twice or passed over (mapWithConcurrency).
THEOREM ItemsAreClaimedOnce == Spec => []ClaimedOnce
<1>1. IInv => ClaimedOnce
  BY DEF IInv
<1> QED
  BY <1>1, InvHolds, PTL

\* Results are where their items are, and complete when the command ends
\* normally (mapWithConcurrency).
THEOREM EveryResultInPlace == Spec => []ResultsInPlace
<1>1. IInv => ResultsInPlace
  BY DEF IInv
<1> QED
  BY <1>1, InvHolds, PTL
=============================================================================
