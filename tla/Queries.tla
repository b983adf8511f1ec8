-------------------------------- MODULE Queries ---------------------------------
(***************************************************************************)
(* A client of the backend's handlers that keep no state: it asks for the  *)
(* explanation of a transaction or of an account, for the summary of       *)
(* events, and turns the pages of an account's history while the ledger    *)
(* grows (routes/tx.rs, account.rs, analytics.rs of packages/core/src).    *)
(* The failures of the calls behind the first two, and their order, are    *)
(* those of modules TxRequest and AccountLookup.                           *)
(***************************************************************************)
EXTENDS Transactions, Accounts, HorizonRecords, FiniteSetsExt

CONSTANTS
  HorizonOps,   \* operations Horizon may send
  TxQuestions,  \* what Horizon may have: [tx, records, base_fee]
  HorizonAccounts, Organisations,
  Clock,        \* instants at which a summary is asked for
  Drift,        \* seconds that may pass between two looks at the clock
  History,      \* the account's transactions, oldest first
  Limits, Orders  \* what may be asked of a page

VARIABLES
  asked,        \* the question the client has asked
  answer,       \* the answer to it, until the client has read it
  height, walk  \* the ledger and the pages turned, as in module Pages

INSTANCE Pages

QuestionsAssumption ==
  /\ \A q \in TxQuestions : q.records \in Seq(HorizonOps)
  /\ \A op \in HorizonOps : IsOperation(op)
  /\ \A raw \in HorizonAccounts : IsAccount(raw)

ClockAssumption ==
  /\ Clock \subseteq [day : Nat, second : Nat] /\ \A t \in Clock : t.second < 86400
  /\ Drift \in Nat

ASSUME QueriesAssumption == QuestionsAssumption /\ ClockAssumption /\ PagesAssumption

queryVars == <<asked, answer, height, walk>>

-----------------------------------------------------------------------------
(* The summary of events *)

EventNames ==
  << "page_view", "button_click", "form_submit", "api_call", "error_occurred",
     "login", "logout", "search", "purchase", "refund" >>

\* The counts are a seed; the window is not looked at.
QueryEventStore(from, to) ==
  [ name \in {EventNames[i] : i \in 1 .. Len(EventNames)} |->
      10 * CHOOSE i \in 1 .. Len(EventNames) : EventNames[i] = name ]

\* The two defaults look at the clock one after the other.
Summary(from, to, first, second) ==
  LET window == [ from |-> IF from = None THEN DefaultFrom(first, 24) ELSE from,
                  to |-> IF to = None THEN DefaultTo(second) ELSE to ]
      counts == QueryEventStore(window.from, window.to) IN
    [ from |-> window.from, to |-> window.to, events |-> counts,
      total |-> MapThenSumSet(LAMBDA name : counts[name], DOMAIN counts) ]

-----------------------------------------------------------------------------
(* The client; module Pages says how it turns pages *)

NoQuestion == [kind |-> "nothing"]
NoAnswer == [status |-> 0]

QueriesInit ==
  /\ asked = NoQuestion
  /\ answer = NoAnswer
  /\ PagesInit

\* The client asks one question at a time.
Told(question, status, body) ==
  /\ asked = NoQuestion
  /\ asked' = question
  /\ answer' = [status |-> status, body |-> body]

\* get_tx_explanation, when all its calls are answered
AskTransaction ==
  \E q \in TxQuestions :
    /\ Told([kind |-> "transaction", tx |-> q.tx, records |-> q.records, base_fee |-> q.base_fee],
            IF q.records = <<>> THEN 400 ELSE 200,
            IF q.records = <<>> THEN None ELSE ExplainTransaction(q.tx, q.records, q.base_fee))
    /\ CloseList

\* get_account_explanation; a name is known only for a domain.
AskAccount ==
  \E raw \in HorizonAccounts, name \in Organisations \cup {None} :
    /\ raw.home_domain = "" => name = None
    /\ Told([kind |-> "account", raw |-> raw, name |-> name],
            200, ExplainAccount(IntoDomain(raw), name))
    /\ CloseList

\* get_analytics_summary
AskSummary ==
  \E first \in Clock, drift \in 0 .. Drift, from, to \in {None, FormatUnixAsIso([day |-> 0, second |-> 0])} :
    LET second == Later(first, drift) IN
      /\ Told([kind |-> "summary", from |-> from, to |-> to, first |-> first, second |-> second],
              200, Summary(from, to, first, second))
      /\ CloseList

-----------------------------------------------------------------------------
(* Turning pages: get_account_transactions *)

RefusePage ==
  \E limit \in Limits, order \in Orders :
    /\ BadPageRequest(limit, order)
    /\ Told([kind |-> "page", limit |-> limit, order |-> order], 400, None)
    /\ CloseList

FirstPage ==
  \E limit \in Limits, order \in Orders :
    /\ OpenList(limit, order)
    /\ Told([kind |-> "page", limit |-> limit, order |-> order], 200, Page(limit, order, None))

NextPage ==
  /\ TurnPage
  /\ Told([kind |-> "page", limit |-> walk.limit, order |-> walk.order],
          200, Page(walk.limit, walk.order, walk.cursor))

\* Horizon does not answer with a page; the client may ask again.
PageFails ==
  /\ walk # None
  /\ \E status \in {404, 500, None} :
       Told([kind |-> "page", limit |-> walk.limit, order |-> walk.order], PageStatus(status), None)
  /\ UNCHANGED <<height, walk>>

ReadAnswer ==
  /\ asked # NoQuestion
  /\ asked' = NoQuestion
  /\ answer' = NoAnswer
  /\ UNCHANGED <<height, walk>>

Grow ==
  /\ Sends
  /\ UNCHANGED <<asked, answer>>

QueriesNext ==
  \/ AskTransaction
  \/ AskAccount
  \/ AskSummary
  \/ RefusePage
  \/ FirstPage
  \/ NextPage
  \/ PageFails
  \/ ReadAnswer
  \/ Grow

QueriesSpec == QueriesInit /\ [][QueriesNext]_queryVars

-----------------------------------------------------------------------------
(* Properties *)

Answered(kind) == asked.kind = kind /\ answer.status = 200

\* An operation as far as an explanation may go: sell offers are not told
\* apart, nor assets with codes of up to four characters from those with longer
\* ones, flags are a set, and of a signer's key only the ends are shown.
Shown(op, f) ==
  IF f = "type" THEN ReportedType(op.type)
  ELSE IF f \in {"asset_type", "source_asset_type", "selling_asset_type", "buying_asset_type"}
    THEN op[f] = "native"
  ELSE IF f \in {"set_flags", "clear_flags"} THEN UNION {op[f][i] : i \in 1 .. Len(op[f])}
  ELSE IF f = "signer_key" THEN {op[f][1], op[f][Len(op[f])]}
  ELSE op[f]

Canon(op) == [f \in DOMAIN op |-> Shown(op, f)]

ToldOf == [op \in HorizonOps |-> ExplainOperation(FromHorizon(op), 0, None)]

SameExplanation(a, b) == a.type = b.type /\ a.details = b.details /\ a.summary = b.summary

\* Of an account its kinds of assets and its signers are only counted.
CanonAccount(raw, name) ==
  [ native |-> {raw.balances[i].balance : i \in Positions(raw.balances, IsNative)},
    others |-> Cardinality({i \in 1 .. Len(raw.balances) : raw.balances[i].asset_type # "native"}),
    signers |-> Cardinality({i \in 1 .. Len(raw.signers) : raw.signers[i] # 0}),
    flags |-> raw.flags, domain |-> raw.home_domain,
    name |-> IF name \in BlankNames THEN None ELSE name ]

\* No two operations, and no two accounts, that differ in more than an
\* explanation may leave out are explained alike: every arm of the conversion
\* from Horizon's records and every explainer keeps the fields it is given,
\* in their places (models/operation.rs, explain/operation/, explain/account.rs).
NothingIsConfused ==
  /\ Answered("transaction") =>
       \A i \in 1 .. Len(asked.records), other \in HorizonOps :
         SameExplanation(ToldOf[other], answer.body.operations[i].told)
           => Canon(other) = Canon(asked.records[i])
  /\ Answered("account") =>
       \A other \in HorizonAccounts, name \in Organisations \cup {None} :
         ExplainAccount(IntoDomain(other), name) = answer.body
           => CanonAccount(other, name) = CanonAccount(asked.raw, asked.name)

TypesOf(records) == [i \in 1 .. Len(records) |-> records[i].type]

\* What the abstract explanation says of the same transaction.
ClaimsOf(body) ==
  [ successful |-> body.successful,
    operations |-> [i \in 1 .. Len(body.operations) |->
                      [index |-> body.operations[i].index, type |-> body.operations[i].told.type]],
    payments |-> Len(body.payment_explanations),
    skipped |-> body.skipped_operations,
    memo |-> body.memo_explanation.kind,
    fee |-> body.fee_explanation ]

Without(record, field) == [f \in DOMAIN record \ {field} |-> record[f]]

\* The parts of an explanation that are made apart from each other tell the same
\* story, and the whole claims what the abstract explanation does.
PartsAgree(body, tx, records, base_fee) ==
  LET paid == Selection(body.operations, {i \in 1 .. Len(body.operations) :
                                            body.operations[i].told.type = "payment"})
      notes == body.payment_explanations
      abstract == Explain(tx, TypesOf(records), base_fee) IN
    /\ Len(notes) = Len(paid)
    /\ \A i \in 1 .. Len(notes) :
         /\ notes[i].summary = paid[i].told.summary
         /\ \A f \in DOMAIN paid[i].told.details : notes[i][f] = paid[i].told.details[f]
         /\ IF body.fee_explanation.claim = "none" THEN notes[i].fee_note = None
            ELSE notes[i].fee_note = body.fee_explanation
    /\ "payments" \in DOMAIN body.summary =>
         body.summary.payments = Len(notes) /\ body.summary.skipped = body.skipped_operations
    /\ ClaimsOf(body) = Without(abstract, "failure")
    /\ {[index |-> f.index, code |-> f.code] : f \in body.failure.operations}
         = abstract.failure.operations

\* The deprecated list of payments, the list of operations, the note on the fee
\* that each payment carries, the fee of the transaction and the counts of the
\* summary are made apart from each other, and must agree; and so must what is
\* explained and what the types of the operations call for (explain/transaction.rs).
ListsAgree ==
  Answered("transaction") => PartsAgree(answer.body, asked.tx, asked.records, asked.base_fee)

\* The days from 1970 to a date of the Gregorian calendar, in closed form: years
\* begin in March, and are counted in eras of 400.
DayNumber(date) ==
  LET year == IF date[2] <= 2 THEN date[1] - 1 ELSE date[1]
      month == (date[2] + 9) % 12
      of_era == year % 400
      of_year == (153 * month + 2) \div 5 + date[3] - 1 IN
    (year \div 400) * 146097 + of_era * 365 + of_era \div 4 - of_era \div 100 + of_year - 719468

InstantOf(timestamp) ==
  [ day |-> DayNumber(timestamp.date),
    second |-> timestamp.time[1] * 3600 + timestamp.time[2] * 60 + timestamp.time[3] ]

IsDate(date) ==
  /\ date[2] \in 1 .. 12
  /\ date[3] \in 1 .. 28
       \cup (IF date[2] = 2 THEN {} ELSE 29 .. 30)
       \cup (IF date[2] \in {2, 4, 6, 9, 11} THEN {} ELSE {31})
       \cup (IF date[2] = 2 /\ DayNumber(<<date[1], 3, 1>>) - DayNumber(<<date[1], 2, 1>>) = 29
               THEN {29} ELSE {})

\* The default window of a summary ends when it was asked for and begins a day
\* before (never before 1970), in dates that the calendar has: loops over years
\* and months agree with the closed form, across leap years, the ends of
\* months, and centuries (routes/analytics.rs).
CalendarIsGregorian ==
  Answered("summary") =>
    /\ IsDate(answer.body.from.date) /\ IsDate(answer.body.to.date)
    /\ asked.to = None => InstantOf(answer.body.to) = asked.second
    /\ asked.from = None =>
         InstantOf(answer.body.from) =
           IF asked.first.day = 0 THEN [day |-> 0, second |-> 0]
           ELSE [asked.first EXCEPT !.day = @ - 1]
=============================================================================
