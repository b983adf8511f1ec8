# Stellar Explain: a TLA+ model of the system

Stellar Explain turns Stellar transactions and accounts into plain English.  The
repository is a monorepo of four packages: a Rust backend (`packages/core`), a
command line client (`packages/cli`), an analytics library (`packages/analytics`)
and a web UI (`packages/ui`).  This directory models the parts of it in which
something is shared, awaited or interrupted, checks them with TLC on small
instances, and proves what matters most with TLAPS for all instances.

Paths below are relative to `src/packages/`.

## 1. Inventory

| component | state | operations | what is hard |
|---|---|---|---|
| Transaction endpoint, `core/src/routes/tx.rs` | per request: which of three Horizon calls have answered | `GET /tx/:hash` | calls answer in any order or not at all; two are required, one is optional |
| Explanation, `core/src/services/explain.rs`, `core/src/explain/`, `core/src/models/` | none | `map_transaction_to_domain`, `explain_transaction_with_ledger`, ... | positions, counts and fee arithmetic that have to agree with what Horizon sent |
| Account endpoint and stellar.toml cache, `core/src/routes/account.rs`, `core/src/services/horizon.rs` | `toml_cache`: domain to name and time of storing, shared by all requests | `GET /account/:address` | check, await, then write: answers are stored out of order; an untrusted, slow server |
| Account history, same files | none; the client keeps a cursor | `get_account_transactions` (not routed) | cursors cut out of links, pages of a ledger that grows |
| Operations and accounts, `core/src/models/operation.rs`, `core/src/explain/operation/`, `core/src/explain/account.rs` | none | `From<HorizonOperation>`, one explainer per kind of operation, `explain_account_with_org_name` | a dozen arms that are near copies of each other |
| Transaction cache, `core/src/services/transaction_cache.rs` | hash map behind a read-write lock, a clock | `insert`, `get`, `contains_key`, `remove`, `clear`, `evict_expired`, `len`, `stats` | `get` takes two locks in turn; entries expire at any moment |
| Analytics ingest, `core/src/routes/analytics.rs`, `core/src/analytics/store.rs` | the limiter's stamp and the event store, each behind a mutex | `POST /analytics/ingest` | requests race between the two mutexes; a bounded store |
| Analytics summary, same file | none (seed data) | `GET /analytics/summary` | a calendar computed by hand |
| Analytics persistence, `core/src/analytics/persist.rs` | a list of events and its file (not wired) | `record`, `flush_to_disk`, `load_from_path` | flushes that overlap, fail or are cut off; loads that fail or stop short |
| Health and network, `core/src/routes/health.rs`, `core/src/config/network.rs`, the UI's `app/api/health/route.ts` and `NetworkStatusBanner.tsx` | the banner's verdict, the polls that are out | `GET /health`, the proxy, a poll every 60 seconds | polls that overtake each other; two ideas of which Horizon is meant |
| Request ids, auth, `core/src/middleware/` | none | | |
| CLI batch, `cli/src/commands/batch.ts`, `cli/src/utils/concurrency.ts` | a cursor shared by runners, the list of results | `batch <file>` | interleaving at every `await`; rejections |
| CLI cache and history, `cli/src/utils/` | files shared by processes | `cacheGet`, `cacheSet`, `saveToHistory` | lost updates, stale entries, partial writes |
| Event emitter, `analytics/src/emitter/EventEmitter.ts` | queue, lists of handlers, `draining`, the call stack | `on`, `off`, `track`, `flush`, `clear` | re-entrancy |
| Web UI, `ui/src/` | React state | lookups, polls, pages of history | answers that arrive after the question has changed |

How they interact.  The UI and the CLI call the backend over HTTP.  The backend
calls Horizon for transactions, operations, fee statistics and accounts, and the
web server of an account's home domain for its `stellar.toml`.  All requests
share one `HorizonClient`, and so one stellar.toml cache, and one
`AnalyticsState`.  Nothing is shared between the endpoints otherwise; the
transaction cache is written for that purpose but `main.rs` does not wire it.
The emitter is a library that runs in the caller's thread.  `PROJECT.json`
lists, under `hazards`, the places where this can go wrong, with the properties
that cover each.

What makes each component correct:

* transaction cache: a lookup never sees an expired entry, and never loses or
  misses a live one, wherever other threads are;
* ingest: admissions are spaced for all clients together, the store holds the
  newest events in whole batches, and clients are told what happened;
* account lookup: what is cached was published and not too long ago; the lookup
  is optional and ends;
* transaction endpoint: the response is a function of what the calls brought;
  every position in an explanation is a position in Horizon's data;
* batch: each item is looked up once, within the limit, and its result is in
  its place;
* emitter: no event is lost, doubled or overtaken, whatever handlers do, and
  flushes end once handlers stop giving them more to do;
* operations and accounts: what Horizon tells apart stays apart, and the parts
  of one explanation agree with each other;
* history: pages join up without a gap or a repetition;
* persistence: what was flushed survives in the file until the next flush, a
  flush that fails alone costs it a tail, and the memory keeps the order of
  recording whatever could be read;
* health: the banner tells the truth in the end.

## 2. Plan

Written, in this order: `TtlMap`, `TransactionCache`, its proofs;
`AnalyticsIngest`; `BatchLookup`; `EventEmitter`; `AccountLookup`;
`Explanation`, and `TxRequest` which composes it with the endpoint; proofs
about the ingest and account modules; `EventPersist`; `Operations`, `Calendar`,
`Transactions`, `Accounts`, and `Queries` which composes them; `Health` and its
proofs; proofs about `BatchLookup`, `TxRequest` and `EventEmitter`; `Selections`,
on which the proofs about whole batches, the event log, the calls of handlers and
the lists of payments rest; `BatchStore`, which `AnalyticsIngest` implements;
`Pages`, taken out of `Accounts` and `Queries` so that it can be proved about; the
proofs about `Queries`.

Abstract specifications: `TtlMap` for the transaction cache and `BatchStore` for
the ingest endpoint (refinements, shown by TLC and proved), and `Explanation` for
`Transactions` (the same claims from less data, compared in `ListsAgree`).

`HorizonRecords`, the shapes of Horizon's operations and accounts, for the proof
that nothing is confused.

Next: the CLI's disk cache and history file, once a command reaches them
(section 7).

## 3. Modules

### TtlMap and TransactionCache

`TtlMap` says what a time-to-live cache promises: a map in which an entry ceases
to exist once its time to live has passed, and operations that are one step
each.  Where the promise is loose it says so: whether an insert over an expired
entry counts as new, and how many expired entries a length includes, is left
open.

`TransactionCache` is the code.  `cache` is the `HashMap`, `now` is
`Instant::now()`.  One critical section is one step.  `get` has two: `GetHit` or
`GetMiss` under the read lock, and `GetRecheck` under the write lock; `gap[t]`
is the key thread `t` holds in between.  `evict_expired` and `stats` ask each
entry for its age separately, so the clock may advance by a tick within the
step, and each entry may be asked before or after.  `reply` is the result of the
latest completed call.  The refinement mapping `LiveMap` keeps the entries that
are live at `now` and turns each creation time and time to live into a deadline.
Poisoned locks are left out: no critical section can panic.

### AnalyticsIngest

A request goes through `limiter`, `admitted`, `storing` to `stored`, or to
`refused`.  `Arrive` is the check of the batch, `Throttle` and `Admit` the
critical section of the limiter (the clock is read twice there, so `Admit` may
stamp a later instant than it tested), `LockStore`, `StoreEvent` and `Answer`
the one of the store, an event at a time.  `log` is a history of all insertions.
Events are opaque but for being complete or not.  The store has at least one
place, as in `main.rs`.

`BatchStore` says what clients may rely on: a batch enters the store in one step,
as one block of its complete events, and the answer counts them.  It has no
mutexes, loop, limiter or clock; a request that may be stored may also be
refused.  Under the refinement mapping a request takes effect when it answers:
`StoreBetweenBatches` leaves out what the holder of the mutex has inserted so
far and puts back what it has evicted (both are in `log`), and `AnswerOf` maps
the places of a request to what it has been told.

### AccountLookup

`toml_cache[d]` holds a name, or the knowledge that there is none, and its age.
A request is in `account` (waiting for Horizon), `cache`, `fetch` or `done`.
`CacheHit` and `CacheMiss` are the read lock, `Deliver` the write lock, and
`Serve` the moment at which the domain's server puts its present file into the
answer - before the answer arrives, possibly long before.  `FetchFails` is every
`ok()?` and early return; `TimesOut` is the one the client's timer forces.  Ages
saturate once they make no difference, so the clock runs forever and liveness
can be checked.  `lastSeen` is a history: how long ago each name was last the
published one.  `Publish` and `Serve` belong to other systems.  Scheme prefixing
of the domain is left out: it renames cache keys.

### Explanation and TxRequest

`Explanation` holds the pure functions: an explanation is the record of what its
sentences claim - entries with positions and types, the two counts, the kind of
memo, the class of the fee and the named multiple, the reason and positions of
failures.  `TxRequest` is the endpoint: `Send` starts three calls, `Fail` and
`AnswerTx`/`AnswerOps`/`AnswerFee` complete them in any order, `RespondFailure`
and `RespondExplanation` are what follows `tokio::join!`.  Requests to this
endpoint share nothing, so one is modelled.  Horizon sends one page of at most
`PageLimit` operations, since the client names no limit.

### BatchLookup

JavaScript runs one thing at a time, so what lies between two awaits is one
step: `Start` runs every runner up to its first `await`; `Fulfil` stores a
result and claims the next item; `Reject` is the worker that throws.
`--concurrency` is modelled in halves, to have fractions.  The `null` kind is an
item whose error report itself throws.  Two things stand before this code in the
repository as it is: `index.ts` does not register the command, and its action
reads `opts.parent.opts.url`, which commander does not provide; the model starts
after that line.

### EventPersist

`file` is a sequence of cells, two per line: a text and a line feed.  `Open`
empties it, `Write` is one `write` system call at the flusher's own offset,
`WriteFails` and `Crash` may leave a text in part, torn or cut within a
character.  `Restart` loads what can be read: all lines, none if the file cannot
be opened, or those before a read error (`LoadedUpTo`), and the process runs on
with that memory.  The read lock is held from the
first write to the last (`Locked`), which keeps `Record` out but not another
flush; nor does it cover `Open`.  A write beyond the end of a file that was
emptied meanwhile leaves a hole.  `saving`, `intact` and `alone` are histories
from which the properties say which flush they mean, and `complete` says whether
the latest load kept every line of the file.  When it did not, the next flush,
even one that succeeds, replaces the file by the shorter memory: lines that were
safe in the file are gone (from its end, or all of them if it could not be
opened) while events recorded since are kept: a gap, not a tail.  Nothing in the repository promises otherwise (`load_from_path` warns and
goes on, `persist.rs:38-41`; a read error ends the load silently, `:34`), so this
is no finding, but whoever wires the store should know it.  What the operating system
has taken is taken to be kept: power failures are not modelled.

### Option

The one constant `None`, which the modules of the backend share: the variant of
Rust's `Option`, a field that Horizon leaves out, an answer that has not come.

### Operations, HorizonRecords, Calendar, Transactions, Accounts, Pages and Queries

These are the backend's pure functions with their data.  `Operations` has the
conversion of every kind of operation, arm by arm, and every explainer; a
sentence is the sequence of what it says.  The backend takes every field of an
operation for optional.  Which ones there are is Horizon's to say, and external:
`HorizonRecords` lists them for each type, with what else an explanation relies
on (an account has one line for XLM, whose balance is not written `"0"`; a signer
has a weight).  `Calendar` has the dates computed by
hand; the count of seconds is split into days and seconds, since TLC's integers
end in 2038.  Its two loops are the recursive functions `SplitYear` and
`SplitMonth`.  `Transactions` puts an explanation together, with memo text,
ledger time, summary, payments and failures; `Accounts` has the explanation of
an account.  `Pages` is a page of its history, with the cursor cut out of
Horizon's link, and the turning of pages: `OpenList`, `TurnPage`, `CloseList`,
while the account goes on sending (`Sends`).  How Horizon pages, and what its
links look like, is external.  `Queries` is a client that asks one question at a
time; it instantiates `Pages` and adds question and answer to its steps
(`FirstPage`, `NextPage`, `Grow`), and the requests that the handler refuses
(`RefusePage`) or Horizon fails (`PageFails`), after which the same page may be
asked for again.  A summary without a window looks at the clock twice, and the
clock may go on in between, past midnight as well (`Later`).

Left out: the conversion of stroops to XLM through a float, the layout of
sentences, the order in which the summary lists its counts, trust in the shares of
a liquidity pool (the backend reads nothing of the pool, so that all such
operations of an account with the same limit are explained alike).  Worth knowing, as
the model has it like the code: limits and amounts are compared with `"0"`,
while Horizon writes seven decimals; the path of a path payment is never filled;
a passive offer is reported as a sell offer; a transaction without payments is
told to contain operations that are not supported even when all are; the
response has a previous cursor, but Horizon's link for it reverses the order and
the response does not say so, and no client follows it.

### Health

`env` is the environment of the server's process, `ServerHorizon` what
`main.rs` makes of it and `ProbedHorizon` what the health endpoint does.  A poll
is asked, answered by `Probe` or `ProxyFails`, and delivered to the banner; the
interval does not wait, so that several may be out.  `Changes` is any Horizon or
the backend going down or coming back.  `older` and `told` are histories: which
polls are out from before the latest change, and whether one has been answered
since.  Dismissing the banner is left out: it hides the verdict and does not
change it.

### EventEmitter

The state is the fields and the call stack.  A frame of `stack` is a `flush` in
progress; user code runs when the stack is empty or its top frame is inside a
handler, and may then call every method.  An iteration refers to the registered
array as long as nobody replaced it (`attached`): `on` pushes into that array
and extends the iteration, `off` registers a copy and leaves the iteration its
own.  A handler that throws ends like one that returns.

The bounds on events, registrations and user flushes are the model's; the code
has none, and a flush need not end although every handler returns.  A handler
that tracks an event each time it is called keeps the `while` of
`EventEmitter.ts:40` going; one that each time calls `on` for its own event with a
handler like itself keeps the `for` of line 43 going, which runs over the growing
array.  `FlushEnds` therefore has a premise, `HandlersRelent`: inside of flushes,
`track`, `on` and `flush` are called finitely often.  Nothing in the repository
promises that flushes end without it.

### Selections

What `filter` leaves of a sequence, used by `EventEmitter` (`off`), `EventPersist`
(the lines that load), `AnalyticsIngest` and `BatchStore` (the complete events of a
batch), and `Transactions` (the payments among the operations): the elements at a set of positions, in their order.  It is defined
through the place of each position among the others, by counting rather than by
recursion, so that the prover can reason about it.

## 4. Runs

| run | instance | shows |
|---|---|---|
| `cache` | 2 threads, 2 keys, 2 values, times to live 0 and 1, clock to 3 | `TransactionCache` implements `TtlMap`; only `remove` and `clear` take live entries |
| `ingest` | 3 requests, batches of 0 to 4 events, limit 3, store of 2, window 2, clock to 4 | spacing, newest events, whole batches, true answers, every request answered; `AnalyticsIngest` implements `BatchStore` |
| `account` | 3 requests, 1 domain, 1 name or none, entries live 3 ticks, GET limit 2 | staleness bound of cache and answers, the lookup is optional and ends |
| `tx` | 6 transactions of 1 to 4 operations, pages of 3, base fees 1 and 4, 8-bit arithmetic | the response ignores order, positions line up, fee claims are true |
| `tx_stalled_fee` | as `tx`, fairness without `/fee_stats` | violated: an optional call that hangs blocks the request |
| `tx_paged` | as `tx` | violated: operations beyond the first page are not explained |
| `batch` | lists of 0 to 5 items, 7 limits, up to 3 runners | cursor shared properly, within the limit, results in place, the command ends |
| `persist` | 3 flushers (symmetric), 4 events | flushes that overlap, fail or are cut off, loads that fail or stop short: order kept, a finished flush survives in the file, a failure of a lone flush costs a tail |
| `queries` | every kind of operation with two values per field, 3-operation mixtures, 144 accounts, instants at the ends of months, years and centuries at midnight and in the second before noon and midnight, a history of 4 | nothing is confused, lists agree, dates are right, pages join up |
| `health` | all environments, 2 polls at once, any ups and downs | the banner is right once old polls are answered, and settles |
| `health_other_horizon` | as `health`, 1 poll | violated: a healthy report may be about another Horizon |
| `emitter` | 1 name, 2 handlers, 3 events, 3 registrations, 1 user flush | nothing lost, doubled or overtaken; at rest when idle; flushes end if handlers relent |

Why the bounds are enough.  `cache`: three actors' worth of interference needs
one thread in the gap of a `get` and one that acts; a clock of 3 lets an entry
expire, be refreshed and expire again.  `ingest`: with three requests, two can
race for either mutex while the third has passed, and a batch can evict part of
itself (three events, two places).  `account`: two answers can overtake each
other while a third request reads; one domain suffices because no step touches
two.  `tx`: all orders of three calls with all outcomes, a full page, a short
page and an empty one.  `batch`: more items than runners, fewer, and none.
`persist`: of three flushes one can empty the file under another while the third
has finished, and four events leave room for a tail, a middle and a new event.
`queries`: two values tell whether a field is mixed up with another, and the
instants include both kinds of century, the epoch and dates beyond 2038; pages
of one and two out of four end both evenly and unevenly, and a history of four
can grow between any two pages.  `health`: two polls are enough to overtake each
other; any number is covered by the proof.  `emitter`: three events are needed for a nested flush to overtake the queue
position of an outer one and leave one behind.

Fairness.  `AnalyticsIngest`: the runtime polls a handler that can run, and a
released mutex goes to a waiter, so each request's steps are weakly fair;
arrivals are not.  `AccountLookup`: only the clock and the backend's own steps
are fair; neither Horizon nor the domain's server has to answer.  `TxRequest`:
the handler, and Horizon for each call (`FairSpec`) or for the two required ones
(`StalledFeeSpec`).  `BatchLookup`: the event loop, and every lookup settles.
`EventEmitter`: synchronous code runs, and each call of a handler returns; the
code does not justify more, so that `FlushEnds` states as its premise that
handlers make finitely many calls (`HandlersRelent`), which the bounds make true
of every behaviour of the run.  `Health`: the
interval goes on while the page is open, and each probe, each call of the proxy
and each call of the banner ends.  The probe has a limit of five seconds
(`horizon.rs:255`); the calls of the proxy (`route.ts:7`) and of the banner
(`ui/src/lib/api.ts:77`) name none, and that they end rests on the limits that
`fetch` has by default in Node and in the browser.  Nothing is assumed of the ups
and downs.

Every property of a passing run has a mutant: a changed copy of an action or
helper, placed before the original and marked `Mutant:`, that a plausible bug
would produce and under which TLC finds the property violated.

## 5. Findings

* **A hanging `/fee_stats` blocks `/tx/:hash`** (run `tx_stalled_fee`).
  `fetch_fee_stats` has no time limit, unlike the other optional calls, and is
  joined with the required calls.
* **Only one page of operations is explained** (run `tx_paged`).
  `fetch_operations` names no limit and does not follow the page's link, so a
  longer transaction gets a shorter explanation, while the indices of its
  failures still count all of its operations.

* **The health endpoint may look at another Horizon** (run
  `health_other_horizon`).  Without `HORIZON_URL` it probes the testnet's,
  whatever `STELLAR_NETWORK` says, while the other endpoints use the Horizon of
  the selected network, by default the public one.  The deployments described in
  the repository set `HORIZON_URL`.

Without a run: the OpenAPI annotations of `routes/tx.rs:31-36` list the statuses
400, 404 and 500, but a failure of Horizon is answered with 502.

## 6. Proofs

Eight modules hold theorems, all of the form `Spec => ...`, for every value of
the constants.  Where a component has a type invariant it is proved first, and the
proof that a step keeps an invariant has one step per action.  The strengthened invariants below were model-checked on the instances
of section 4 (but for two conjuncts of `EventEmitterProofs` that quantify over
all sets; existentials over all numbers were bounded by the length of the file).

`TransactionCacheProofs`, from `CacheAssumption` alone:

* `TypeCorrect`: `TypeOK` is inductive as it stands.  It says that no entry was
  created after `now`, which is what makes ages non-negative.
* `RefinesTtlMap`: the cache implements `TtlMap` under `LiveMap`.
  `LiveMapExpires` shows that moving the clock takes from the live map exactly
  what it crosses; `PresentIsLive` that the keys of the live map are those of
  live entries; `ReadingsBracket` that a set of ages read while the clock may
  advance lies between the entries expired before and those expired after.
  `NextRefines` maps every action to the abstract operation of its name, and
  `GetMiss`, after which the call is not over, to a stutter.
* `KeepsLiveEntries`: from `NextKeepsLiveEntries`.  The interesting steps are
  `GetRecheck`, which reads the entry again under the write lock, and
  `EvictExpired`, which relies on `ReadingsBracket`.

`AnalyticsIngestProofs`, from `IngestAssumption` alone:

* `IngestTypeCorrect`: `TypeOK` is not inductive, since nothing in it keeps a
  counter from growing.  `CountersAddUp` adds that the two counters sum to the
  loop index less one, that the index does not pass the batch, and that only an
  acceptable batch gets past the first check.
* `LimiterSpacesAdmissions`: `StampIsLatest` adds that `last_request` is no
  earlier than any admission and no later than the clock.
* `StoreKeepsTheNewest`: `InsertKeepsNewest` is the lemma about `Insert` and
  sequences; every other step leaves store and history alone.
* `AnswersTellTheTruth`: `AcceptedIsLogged` says at every moment of the loop what
  `AnswersAreTruthful` says at its end; `CountersAddUp` gives the rest.
* `BatchesEnterWhole`: `BlocksInv` says at every moment of the loop where the
  block of the batch stands in `log`, namely at its end, and that only the holder
  of the mutex is in the loop.  `BlockGrows` is the step that appends to it,
  `BlockStays` every other one.
* `RefinesBatchStore`: the endpoint implements `BatchStore`.  `LockIsSilent` and
  `LoopIsSilent` show that taking the mutex and each turn of the loop leave
  `StoreBetweenBatches` as it was; `AnswerIngests` that the answer is the abstract
  `Ingest`, from `BlockIsLast` (the block of the batch is the end of `log`) and
  `NewestOfConcat` (the newest of a log and a block are those of the store and the
  block, even when the block alone is larger than the store).  `Arrive`, and
  refusals by the limiter, map to the steps of those names.  The invariants
  above are its hypotheses.

`RouteProofs`, about the handlers of `routes/`.  Of `AccountLookup`, from
`LookupAssumption` alone:

* `LookupTypeCorrect`: `TypeOK` is inductive, thanks to its last conjunct (a
  request that looks up has a domain) and to the guard of `Tick`.
* `CacheStaysHonest`, `RecentAnswers`: honesty of the cache is not inductive,
  because `Deliver` stores what `Serve` read earlier.  `AnswersFollowTheGet` adds
  that what a request carries was published no longer ago than its GET is old,
  and `SiteIsCurrent` that what is published now has age zero.
* `LookupIsOptional`: `OptionalInv` adds that a request has no domain before its
  account is found.

Of `Queries`, from `QueriesAssumption`: limits are numbers or left out, what
Horizon has of a transaction is a sequence of operations, operations and accounts
are as in `HorizonRecords` (`IsOperation`, `IsAccount`), and the clock shows days
since 1970 and seconds of a day; and from `ExplanationAssumption` and
`FlagsAssumption`, that `None` is no string, number or set of flags.

* `PagesJoinUp`: `PagesPartition` does not mention the cursor, on which the next
  page depends.  `PagesInv` adds that the cursor is where the list ends, that the
  list is made of the history's transactions, and that limit and order have been
  checked.  `CursorOfLink` shows that the cursor survives Horizon's link;
  `TokensAreDue` that the page at the end of a right list begins with the
  transaction due next and is empty only when none is; `ListGrows` puts both
  together.  `QueriesTurnPages` shows that each step of `Queries` is one of `Pages`
  or leaves the pages alone.
* `PartsTellOneStory`: `ListsAgree`, for transactions of any length with any
  operations, memos, fees and result codes.  `TypeIsReported` follows an operation
  through its conversion and its explainer and finds the type that `Explanation`
  gives it, and the arm of a payment exactly for payments; `SelectionElements` says
  which operation the k-th payment of either list is; `PaymentsAreToldAlike`,
  `NotesOnFees` and `FailuresAgree` compare the parts, and `PartsOfExplanation` puts
  them together.  `TransactionInv` says that the answer is what the functions make
  of the question, which every other step leaves alone.
* `WindowsAreGregorian`: `CalendarIsGregorian`, at every instant from 1970 on.  The
  prover knows a recursive function as the `CHOOSE` of a function that satisfies its
  equation, so it has to be shown that there is one: `SplitYearDefined` and
  `SplitMonthDefined` give it in closed form (the year, or month, in whose days the
  day falls).  What the loops return then follows without induction, from the least
  day for which they would go wrong (`LeastNumber`, from the well-foundedness of
  the numbers): `YearsTakenOff`, `MonthsTakenOff`.  `DayNumberIs` shows that the
  closed form, which counts years from March in eras of 400, numbers the same days,
  and `DatesOfDays` that both are inverse to each other.  `ADayBefore` and
  `LaterIsAnInstant` are the arithmetic of the window.

* `NothingGoesMissing`: `NothingIsConfused`, for every set of operations and of
  accounts.  Each kind of operation has a lemma that reads its fields back from
  its explanation (`PaymentsAreToldApart`, `PathsAreToldApart`,
  `OffersAreToldApart`, `SetOptionsAreToldApart`, ...), and `OperationsAreToldApart`
  puts them together by the reported type.  `AssetsAreToldApart` shows that no two
  assets are written alike.  The changes of options are the hard case, since they
  are nine lists in a row of which each may be empty: `ChangesHaveTopics` shows
  that each is recognised by the word it begins with, `ChangesAreToldApart` that
  equal lists of changes have equal parts, `OptionsAreToldApart` reads the options
  off the parts.  `AccountsAreToldApart` reads an account off its explanation.
  The theorem needs the shapes of `HorizonRecords`: where a field may be missing,
  the backend's default for it is confused with the value it stands for (an offer
  without an identifier with a new one, an account without XLM with one of `"0"`).

`BatchLookupProofs`, from `BatchAssumption` alone (`BatchTypeCorrect`,
`ItemsAreClaimedOnce`, `EveryResultInPlace`).  The three properties are proved
together, as they need each other: `HeldIsClaimed` and `ResultsAreClaimed` say
that what is held or stored lies below the cursor, so that the item claimed next
is nobody's; `NothingIsLost` that until a lookup rejects, each runner holds an
item or has ended for want of one, and each claimed item is held or stored.
`RunnerCountBounds` is the arithmetic of `clampConcurrency`; `ReturnKeeps` the
step at which all runners have ended and hence every slot is filled.

`TxRequestProofs`, from `RequestAssumption` and `ExplanationAssumption`.
`ResponseIsDue` says what response each outcome of the joined calls calls for,
`JoinedOrNothing` that it waits for all three.  `OrderDoesNotMatter` follows.
`PositionsAreHorizons` adds the lemma `FailuresKeepPositions` about leaving out
successes; `FeeClaimsHold` that the product does not wrap for the base fees
assumed (positive and below a fifth of the range, as the base fee of a Stellar
network is a 32-bit number: what `base_fee * 5` does beyond is assumed away, and
not checked) and that the quotient is then at least five
(`HighFeesAreMultiples`).

`EventEmitterProofs`, from `EmitterAssumption` alone, in three layers:

* `ComesToRest`, `TracksInOrder`: `OneFlush` says that without flushes by user
  code `draining` stands for the one flush in progress, which delivers the latest
  event that left the queue; `QueueIsOrdered` that whatever waits is later than
  whatever left.
* `EmitterTypeCorrect`: `Typed`.  `off` is the hard step: `OffFrames` shows that an
  iteration which loses the registered array keeps a copy of it.
* `CallsEveryHandler`, `CallsNoneTooOften`: `DeliveryInv` says of each frame in the
  stack that its list still holds every handler that is due, that each position it
  has passed has been called, that the calls of a handler are no more than the
  positions of it that were passed, and that no two frames deliver the same event;
  and of each list that it holds a handler no more often than it was registered.
  `WithoutProperties` (for `off`) and `PositionsAfterAppend` (for `on`) are what it
  needs to know of lists; the former maps the positions that are left into the
  positions that were there.

`EventPersistProofs`, from `PersistAssumption` alone:

* `PersistTypeCorrect`, `MemoryKeepsOrder`: order in memory is not inductive, since
  a restart loads what overlapping flushes have left.  `TextsInOrder` says that the
  texts of the file have the order of recording at every moment,
  `FlushedFromMemory` that what is in the file while a flush is under way stands at
  the line that it has in memory.  `LoadedUpToProperties` shows that loading keeps
  an order, wherever it stops.
* `FlushesSurvive`: `SavedInv` follows the front of what is whole: either
  everything has been saved or some flusher that is under way has not passed that
  front, so that a flush which empties the file under another is made good by one
  of the two.
* `LosesOnlyATail`: `TailInv` says that a lone flush leaves the file whole up to
  where it came and then at most torn; `EndIsLoaded` what is loaded from such a
  file.  It is about the file; that the memory has all of the file is claimed
  only after a load without errors (`complete`), since a failed one leaves the
  memory behind.

The lemmas about places and selections stand in four of these modules, since the
variables of the components have common names and their modules cannot be
extended together.

`HealthProofs` (`BannerComesRight`).  `BannerIsRight` is not inductive, since the
next verdict is that of a poll: `YoungPollsAreRight` adds that polls asked since
the latest change are answered with the present, and a told banner has no older
poll out.

Only model-checked: all liveness properties (the prover has no rules for
fairness and `ENABLED`).

## 7. What is not modelled

* Wording, layout and logging; the conversion of stroops to XLM.
* Request ids and the auth middleware: one header each, and no route uses the
  latter.
* `core/src/jaym`, `core/src/explain/operation/set_optionally.rs` and the other
  files that no `mod` declaration reaches: they are not part of the program.
* The CLI's cache, history and API client.  The commands that `index.ts`
  registers read `opts.parent.opts.url` first, which commander does not provide,
  and end there; the commands that save to the history are not registered.  A
  model would be about a program that cannot be run.
* The CLI's configuration (it reads the environment) and update check.
* The sinks of the analytics package, which send or print one event and keep no
  state, and its types.
* Rendering in the UI, and its pages that fetch once per mount.
* Routes that `main.rs` does not add are modelled as the code stands: the
  history (`Pages`) and the transaction and event stores (`TransactionCache`,
  `EventPersist`) are ready to be wired.
