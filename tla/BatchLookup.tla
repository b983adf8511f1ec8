----------------------------- MODULE BatchLookup -----------------------------
(***************************************************************************)
(* The CLI's batch command (packages/cli/src/commands/batch.ts) on top of  *)
(* mapWithConcurrency and clampConcurrency                                 *)
(* (packages/cli/src/utils/concurrency.ts).                                *)
(*                                                                         *)
(* A fixed number of runners share a cursor into the list of items.  The   *)
(* code runs on one JavaScript thread: a runner gives up control only      *)
(* while it awaits its worker, so that storing a result and claiming the   *)
(* next item is one step, and so is the start of all runners.              *)
(***************************************************************************)
EXTENDS Integers, Sequences, FiniteSets

CONSTANTS
  Inputs,      \* the lists of items a batch file may hold, by kind of item
  Options,     \* values of --concurrency: twice a finite number, or NotFinite
  MaxParallel, \* the default max of clampConcurrency
  NotFinite,   \* NaN or Infinity
  None

Kinds == {"tx", "account", "unknown", "null"}

ASSUME BatchAssumption ==
  /\ Inputs \subseteq Seq(Kinds)
  /\ Options \subseteq Int \cup {NotFinite}
  /\ NotFinite \notin Int
  /\ MaxParallel \in Nat \ {0}
  /\ None \notin Int

VARIABLES
  items,       \* the parsed file
  option,      \* the requested concurrency
  cursor,      \* index of the next item to claim, from 1
  current,     \* current[w] is the item runner w awaits, or None
  ended,       \* runners whose promise is settled
  results,     \* results[i]: the item whose outcome is stored in slot i, or None
  outer,       \* the promise of mapWithConcurrency, or the end of the process
  calls        \* history: how often worker was called on each item

vars == <<items, option, cursor, current, ended, results, outer, calls>>
inputs == <<items, option>>

-----------------------------------------------------------------------------

Larger(a, b) == IF a >= b THEN a ELSE b
Smaller(a, b) == IF a <= b THEN a ELSE b

\* clampConcurrency: halves are rounded down, nonsense becomes 1.
Clamp(requested) ==
  IF requested = NotFinite \/ requested < 2 THEN 1
  ELSE Smaller(requested \div 2, MaxParallel)

N == Len(items)
Indices == 1 .. N

RunnerCount == Larger(1, Smaller(Clamp(option), N))
Runners == 1 .. MaxParallel

InFlight == {w \in Runners : current[w] # None}

\* The worker of the batch command reports every failure of a lookup itself and
\* fulfils its promise.  An item that is null makes its error report fail too,
\* and that rejects.
Fulfils(i) == items[i] # "null"

Init ==
  /\ items \in Inputs
  /\ option \in Options
  /\ cursor = 1
  /\ current = [w \in Runners |-> None]
  /\ ended = {}
  /\ results = [i \in Indices |-> None]
  /\ outer = "idle"
  /\ calls = [i \in Indices |-> 0]

\* Mutant: as many runners as the raw option asks for.
StartUnbounded ==
  /\ outer = "idle"
  /\ outer' = "pending"
  /\ current' = [w \in Runners |-> IF w <= N THEN w ELSE None]
  /\ ended' = {w \in Runners : w > N}
  /\ cursor' = Smaller(MaxParallel, N) + 1
  /\ calls' = [i \in Indices |-> IF i <= MaxParallel THEN 1 ELSE 0]
  /\ UNCHANGED <<inputs, results>>

\* Array.from({ length: workerCount }, run): each runner in turn claims an item,
\* calls worker on it and awaits.  With no items the only runner ends at once.
Start ==
  /\ outer = "idle"
  /\ outer' = "pending"
  /\ LET first == Smaller(RunnerCount, N) IN
       /\ current' = [w \in Runners |-> IF w <= first THEN w ELSE None]
       /\ ended' = {w \in Runners : first < w /\ w <= RunnerCount}
       /\ cursor' = first + 1
       /\ calls' = [i \in Indices |-> IF i <= first THEN 1 ELSE 0]
  /\ UNCHANGED <<inputs, results>>

\* Mutant: the index is read before the await and the cursor moved after it.
ClaimOrEndLate(w) ==
  IF cursor <= N
    THEN /\ current' = [current EXCEPT ![w] = cursor]
         /\ calls' = [calls EXCEPT ![cursor] = @ + 1]
         /\ cursor' = Larger(cursor, current[w] + 1)
         /\ UNCHANGED ended
    ELSE /\ current' = [current EXCEPT ![w] = None]
         /\ ended' = ended \cup {w}
         /\ UNCHANGED <<cursor, calls>>

\* Mutant: the last item is never claimed.
ClaimOrEndEarly(w) ==
  IF cursor < N
    THEN /\ current' = [current EXCEPT ![w] = cursor]
         /\ calls' = [calls EXCEPT ![cursor] = @ + 1]
         /\ cursor' = cursor + 1
         /\ UNCHANGED ended
    ELSE /\ current' = [current EXCEPT ![w] = None]
         /\ ended' = ended \cup {w}
         /\ UNCHANGED <<cursor, calls>>

\* The loop of a runner: claim the next item, or end when there is none.
ClaimOrEnd(w) ==
  IF cursor <= N
    THEN /\ current' = [current EXCEPT ![w] = cursor]
         /\ calls' = [calls EXCEPT ![cursor] = @ + 1]
         /\ cursor' = cursor + 1
         /\ UNCHANGED ended
    ELSE /\ current' = [current EXCEPT ![w] = None]
         /\ ended' = ended \cup {w}
         /\ UNCHANGED <<cursor, calls>>

\* Mutant: results are appended in the order in which workers finish.
FulfilInOrder(w) ==
  /\ outer \in {"pending", "rejected"}
  /\ current[w] # None
  /\ Fulfils(current[w])
  /\ LET slot == Cardinality({i \in Indices : results[i] # None}) + 1 IN
       results' = [results EXCEPT ![slot] = current[w]]
  /\ ClaimOrEnd(w)
  /\ UNCHANGED <<inputs, outer>>

\* The worker of runner w is done: its result goes to the slot of its item.
Fulfil(w) ==
  /\ outer \in {"pending", "rejected"}
  /\ current[w] # None
  /\ Fulfils(current[w])
  /\ results' = [results EXCEPT ![current[w]] = current[w]]
  /\ ClaimOrEnd(w)
  /\ UNCHANGED <<inputs, outer>>

\* The worker of runner w rejects: runner and outer promise reject with it,
\* while the other runners go on.
Reject(w) ==
  /\ outer \in {"pending", "rejected"}
  /\ current[w] # None
  /\ ~Fulfils(current[w])
  /\ current' = [current EXCEPT ![w] = None]
  /\ ended' = ended \cup {w}
  /\ outer' = "rejected"
  /\ UNCHANGED <<inputs, cursor, results, calls>>

\* Mutant: Promise.race in place of Promise.all.
ReturnFirst ==
  /\ outer = "pending"
  /\ ended # {}
  /\ outer' = "resolved"
  /\ UNCHANGED <<inputs, cursor, current, ended, results, calls>>

\* Mutant: Promise.all is given one promise for every runner that may be.
ReturnAll ==
  /\ outer = "pending"
  /\ Runners \subseteq ended
  /\ outer' = "resolved"
  /\ UNCHANGED <<inputs, cursor, current, ended, results, calls>>

\* Promise.all has seen every runner end.
Return ==
  /\ outer = "pending"
  /\ 1 .. RunnerCount \subseteq ended
  /\ outer' = "resolved"
  /\ UNCHANGED <<inputs, cursor, current, ended, results, calls>>

\* Nobody handles the rejected promise of the command: the process dies, with
\* whatever was in flight.
Die ==
  /\ outer = "rejected"
  /\ outer' = "dead"
  /\ UNCHANGED <<inputs, cursor, current, ended, results, calls>>

Ended == outer \in {"resolved", "dead"} /\ UNCHANGED vars

Next ==
  \/ Start
  \/ \E w \in Runners : Fulfil(w) \/ Reject(w)
  \/ Return
  \/ Die
  \/ Ended

\* The event loop runs what is ready, and every lookup settles: fetch gives up
\* on a server that does not answer.
Fairness ==
  /\ WF_vars(Start \/ Return \/ Die)
  /\ \A w \in Runners : WF_vars(Fulfil(w) \/ Reject(w))

Spec == Init /\ [][Next]_vars

FairSpec == Spec /\ Fairness

-----------------------------------------------------------------------------
(* Properties *)

\* Type invariant.  Only RunnerCount runners ever run, so that no more lookups
\* are in flight.
TypeOK ==
  /\ items \in Inputs
  /\ option \in Options
  /\ cursor \in 1 .. N + 1
  /\ current \in [Runners -> Indices \cup {None}]
  /\ InFlight \cup ended \subseteq 1 .. RunnerCount
  /\ results \in [Indices -> Indices \cup {None}]
  /\ outer \in {"idle", "pending", "resolved", "rejected", "dead"}
  /\ calls \in [Indices -> Nat]

\* Runners share the cursor without a lock, and yet each item is claimed at most
\* once, in order: the claimed items are those below the cursor, and no two
\* runners hold the same one.
ClaimedOnce ==
  /\ \A i \in Indices : calls[i] = IF i < cursor /\ outer # "idle" THEN 1 ELSE 0
  /\ \A v, w \in InFlight : v # w => current[v] # current[w]

\* A slot of the result list holds the outcome of the item at the same index, or
\* nothing yet, whatever the order in which lookups finish; nothing is stored
\* for an item a runner still holds; and no slot is empty when the command ends
\* normally.
ResultsInPlace ==
  /\ \A i \in Indices : results[i] \in {i, None}
  /\ \A w \in InFlight : results[current[w]] = None
  /\ outer = "resolved" => \A i \in Indices : results[i] = i

\* The command ends, and a list without null items is then complete.
BatchEnds ==
  /\ <>(outer \in {"resolved", "dead"})
  /\ (\A i \in Indices : Fulfils(i)) => <>(outer = "resolved")
=============================================================================
