------------------------------ MODULE BatchStore ------------------------------
(***************************************************************************)
(* What POST /analytics/ingest promises its clients: a bounded store that  *)
(* takes a batch in one step, and answers with what it did.  There are no  *)
(* mutexes and no loops here; AnalyticsIngest is shown to implement this   *)
(* module.  When a request may be refused is not its concern.              *)
(***************************************************************************)
EXTENDS Integers, Sequences, FiniteSets, Selections

CONSTANTS
  Requests,         \* the ingest requests that may arrive
  Incomplete,       \* the events whose id or name is empty
  Batches,          \* the event lists a request may carry
  MaxBatch,         \* the longest batch that is looked at
  Capacity          \* how many events the store keeps

VARIABLES
  store,            \* the events kept, each with its request, oldest first
  batch,            \* the events each request carries
  answer            \* what each request has been told

vars == <<store, batch, answer>>

Absent == [status |-> "absent"]
Waiting == [status |-> "waiting"]
Refused == [status |-> "refused"]
Stored(accepted, dropped) ==
  [status |-> "stored", accepted |-> accepted, dropped |-> dropped]

-----------------------------------------------------------------------------

Init ==
  /\ store = <<>>
  /\ batch = [r \in Requests |-> <<>>]
  /\ answer = [r \in Requests |-> Absent]

\* A batch that is empty or too long is refused as it arrives.
Arrive(r, b) ==
  /\ answer[r] = Absent
  /\ batch' = [batch EXCEPT ![r] = b]
  /\ answer' = [answer EXCEPT ![r] = IF Len(b) \in 1 .. MaxBatch THEN Waiting ELSE Refused]
  /\ UNCHANGED store

\* Any other may be refused, and then leaves nothing behind, ...
Refuse(r) ==
  /\ answer[r] = Waiting
  /\ answer' = [answer EXCEPT ![r] = Refused]
  /\ UNCHANGED <<store, batch>>

\* Where the complete events of r's batch are.
Kept(r) == {i \in 1 .. Len(batch[r]) : batch[r][i] \notin Incomplete}

\* They enter the store as one block, in their order.
Block(r) ==
  Selection([i \in 1 .. Len(batch[r]) |-> [req |-> r, event |-> batch[r][i]]], Kept(r))

\* ... or is stored at one instant, and its events are counted truthfully.
Ingest(r) ==
  /\ answer[r] = Waiting
  /\ store' = Newest(store \o Block(r), Capacity)
  /\ answer' = [answer EXCEPT ![r] =
                  Stored(Cardinality(Kept(r)), Len(batch[r]) - Cardinality(Kept(r)))]
  /\ UNCHANGED batch

Next ==
  \E r \in Requests :
    \/ \E b \in Batches : Arrive(r, b)
    \/ Refuse(r)
    \/ Ingest(r)

Spec == Init /\ [][Next]_vars
=============================================================================
