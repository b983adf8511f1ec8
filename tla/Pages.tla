-------------------------------- MODULE Pages --------------------------------
(***************************************************************************)
(* The history of an account, listed page by page: the handler             *)
(* get_account_transactions of routes/account.rs and the part of           *)
(* services/horizon.rs it uses (packages/core/src), and a client that      *)
(* follows the cursors while the account goes on sending transactions.     *)
(*                                                                         *)
(* Transactions of the account carry the numbers 1, 2, ... in the order of *)
(* the ledger, which are their paging tokens; a link is the sequence of    *)
(* its query parameters.                                                   *)
(***************************************************************************)
EXTENDS Integers, Sequences, Option

CONSTANTS
  History,      \* the account's transactions, oldest first
  Limits,       \* page sizes a client may ask for
  Orders        \* orders a client may ask for

\* Limits are unsigned numbers, or left out.
PagesAssumption ==
  /\ History \in Seq({History[i] : i \in DOMAIN History})
  /\ Limits \subseteq Nat \cup {None}
  /\ None \notin Int

VARIABLES
  height,       \* how much of History is in the ledger
  walk          \* the pages turned so far, or None

-----------------------------------------------------------------------------
(* The handler *)

Limit(limit) == IF limit = None THEN 10 ELSE limit
Order(order) == IF order = None THEN "asc" ELSE order

BadPageRequest(limit, order) ==
  Limit(limit) = 0 \/ Limit(limit) > 50 \/ Order(order) \notin {"asc", "desc"}

\* The status of Horizon's answer decides; None stands for no answer at all.
PageStatus(status) ==
  IF status = 200 THEN 200 ELSE IF status = 404 THEN 404 ELSE 502

\* The first parameter with that name; None without a link or a cursor in it.
ExtractCursor(href) ==
  LET cursors == {i \in 1 .. Len(href) : href[i].name = "cursor"} IN
    IF cursors = {} THEN None
    ELSE href[CHOOSE i \in cursors : \A j \in cursors : i <= j].value

SummarizeTransaction(tx) ==
  [ hash |-> tx.hash, successful |-> tx.successful, operation_count |-> tx.operation_count,
    memo |-> IF tx.memo_type \in {None, "none"} THEN None ELSE tx.memo,
    summary |-> <<tx.successful, tx.operation_count>> ]

\* Mutant: the links are confused.
PageResponseSwapped(page) ==
  [ items |-> [i \in 1 .. Len(page.records) |-> SummarizeTransaction(page.records[i])],
    next_cursor |-> ExtractCursor(page.prev), prev_cursor |-> ExtractCursor(page.next) ]

\* fetch_account_transactions, on a page that Horizon gave
PageResponse(page) ==
  [ items |-> [i \in 1 .. Len(page.records) |-> SummarizeTransaction(page.records[i])],
    next_cursor |-> ExtractCursor(page.next), prev_cursor |-> ExtractCursor(page.prev) ]

-----------------------------------------------------------------------------
(* Horizon's side of it *)

Lesser(a, b) == IF a < b THEN a ELSE b

\* The transactions of a page: upwards or downwards from the cursor.
PageTokens(latest, limit, order, cursor) ==
  IF order = "asc"
    THEN LET start == IF cursor = None THEN 0 ELSE cursor IN
           [i \in 1 .. Lesser(limit, latest - start) |-> start + i]
    ELSE LET start == IF cursor = None THEN latest + 1 ELSE cursor IN
           [i \in 1 .. Lesser(limit, start - 1) |-> start - i]

Link(cursor, limit, order) ==
  (IF cursor = None THEN <<>> ELSE <<[name |-> "cursor", value |-> cursor]>>)
  \o <<[name |-> "limit", value |-> limit], [name |-> "order", value |-> order]>>

Reversed(order) == IF order = "asc" THEN "desc" ELSE "asc"

\* The links lead on from the last record and back from the first one; on an
\* empty page they repeat the cursor that was asked for.
HorizonPage(history, limit, order, cursor) ==
  LET tokens == PageTokens(Len(history), limit, order, cursor) IN
    [ records |-> [i \in 1 .. Len(tokens) |-> history[tokens[i]]],
      next |-> Link(IF tokens = <<>> THEN cursor ELSE tokens[Len(tokens)], limit, order),
      prev |-> Link(IF tokens = <<>> THEN cursor ELSE tokens[1], limit, Reversed(order)) ]

-----------------------------------------------------------------------------
(* Turning pages *)

PagesInit == height = 0 /\ walk = None

Page(limit, order, cursor) ==
  PageResponse(HorizonPage(SubSeq(History, 1, height), Limit(limit), Order(order), cursor))

\* The new pages follow what was listed before; an empty one ends the list.
Turned(limit, order, listed, top, page) ==
  [ limit |-> limit, order |-> order, cursor |-> page.next_cursor,
    listed |-> listed \o page.items, top |-> IF listed = <<>> THEN height ELSE top,
    ended |-> IF page.items = <<>> THEN height ELSE None ]

\* A client asks for a first page, ...
OpenList(limit, order) ==
  /\ ~BadPageRequest(limit, order)
  /\ walk' = Turned(limit, order, <<>>, height, Page(limit, order, None))
  /\ UNCHANGED height

\* ... and for the page at the cursor of the last one.
TurnPage ==
  /\ walk # None
  /\ walk' = Turned(walk.limit, walk.order, walk.listed, walk.top,
                    Page(walk.limit, walk.order, walk.cursor))
  /\ UNCHANGED height

\* It turns to something else, and begins again next time.
CloseList ==
  /\ walk' = None
  /\ UNCHANGED height

\* Another transaction of the account enters the ledger.
Sends ==
  /\ height < Len(History)
  /\ height' = height + 1
  /\ UNCHANGED walk

PagesNext ==
  \/ \E limit \in Limits, order \in Orders : OpenList(limit, order)
  \/ TurnPage
  \/ CloseList
  \/ Sends

PagesSpec == PagesInit /\ [][PagesNext]_<<height, walk>>

-----------------------------------------------------------------------------
(* Properties *)

\* Turning pages, with Horizon failing or the account sending transactions in
\* between, lists the history without a gap or a repetition: upwards from its
\* beginning, downwards from where it ended when the list began; and the list
\* is complete when an empty page comes (routes/account.rs, horizon.rs).
PagesPartition ==
  walk # None =>
    LET listed == walk.listed
        up == Order(walk.order) = "asc" IN
      /\ Len(listed) <= height
      /\ \A i \in 1 .. Len(listed) :
           listed[i].hash = History[IF up THEN i ELSE walk.top + 1 - i].hash
      /\ walk.ended # None => Len(listed) = IF up THEN walk.ended ELSE walk.top
=============================================================================
