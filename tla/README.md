# newcoin-trader in TLA+

TLA+ modules, TLC configurations and TLAPS proofs about `newcoin-trader`, a
paper-only research program: it discovers newly listed tokens, stores them in
PostgreSQL, and simulates orders against recorded prices. All paths below are
relative to the repository; `pkg/` stands for `src/newcoin_trader/`.

## 1. The system

| Component | State it keeps | Operations | Hard behaviour | What makes it correct |
|---|---|---|---|---|
| Discovery cycle and `tokens` table (`pkg/services/ingestion.py`, `pkg/database/repositories/tokens.py`, `pkg/cli/main.py`) | rows keyed by `(chain, token_address)`; per process one session, its open transaction, the events collected | three requests, one upsert per event, commit, rollback | several processes on one database; commits out of fetch order; crosswise locks; death in the middle; a commit nobody heard of | no lost update; `first_seen_time` is the earliest report; a cycle is atomic; every cycle ends |
| `PollController` (`pkg/services/ingestion.py`) | stop event, iterations, results, `stopped` | `run`, `stop` | event, timeout, cycle and cancellation race | a limit bounds the cycles; no cycle after a stop; a stop ends the run |
| Commands `poll`, `collect-once` (`pkg/cli/main.py`) | the two above | a session and a commit per cycle | Ctrl+C between commit and answer | every reported result is durable; no transaction left open |
| Rate limiter (`pkg/collectors/rate_limit.py`) | token level, time of last refill, an `asyncio.Lock` | `acquire` | sleeping under the lock, cancellation | burst bound; FIFO progress |
| HTTP client (`pkg/collectors/http.py`, `retry.py`) | attempt, last error of each call | `get_json` | mixed answers, retries that share the limiter, cancellation | only retryable answers retried; the last answer decides; every call ends but one told to wait for ever, and that one stops nobody |
| Risk checks, gateway, paper broker (`pkg/risk`, `pkg/execution`) | none: limits, portfolio, order and market are arguments | `evaluate`, `submit`, `fill` | two parties check the same order at different prices | limits hold for the fill; liquidity cap; no look-ahead |
| Offline run and strategy (`pkg/demo.py`, `pkg/strategies`) | the fixture, an analysis, a signal, the three report files | `run_offline_smoke`, `generate` | unsorted, repeated and late timestamps; a failure among the reports | nothing from the future matters; which orders can fill |
| Market-history ingest (`MarketHistoryService`, `repositories/market.py`) | `price_snapshots`, `trades`, and a token row locked across requests | three venue branches in one transaction; single loads by library callers | do-nothing inserts that race, partial candles, key collisions, a row held while venues answer | one row per key, the first observation; a run is atomic; a met row is readable; every run ends |
| Paper-trade and strategy-result repositories (`pkg/database/repositories/paper.py`, `strategy.py`) | `paper_trades`, `strategy_results`, the caller's open transaction | insert, or fetch what is there | racing inserts of one run, NULLs and rounded amounts in the key, replays with another result | one row per key; the row met is found; the first result stands |
| Research (`pkg/research`) | none | frames, windows, metrics, candidate windows | ties, zero prices, unknown values, boundaries of windows, returns computed in floats and in decimals | the parts of an analysis agree with each other and with the strategy |
| Normalizers of the discovery feeds (`pkg/collectors`) | none | venue times, `normalize_exchange_info`, `normalize_new_tokens`, `normalize_new_pairs` | seconds or milliseconds told by size; fallbacks; one bad item | what the venues said is what the table says |
| Other normalizers, configuration, wiring, formatting of reports, migrations, idempotency helpers | none | parsing, construction, output | – | not modelled, or only where another part needs them; see section 7 |

The parts interact as follows. A command opens one HTTP client and one engine.
A poller's loop calls one cycle after another; a cycle opens a session, asks
three feeds through the HTTP client (each attempt takes a token of the shared
limiter), upserts the events in order and commits. `ingest-market-history`
upserts the tokens it asks about in the same table, and keeps them locked while
it goes on asking venues and inserting what they answer; a poller that meets
such a token waits for it. Processes share nothing but the database. The
offline run shares nothing with any of this. The two result repositories have
no caller in the program yet; whoever uses them brings the transaction.

## 2. Modules

| Module | Models | Checked by | Proved in |
|---|---|---|---|
| `ListingStore` | `collect_once` in concurrent processes over the tokens table | `MCListingStore` | `ListingStoreProofs` |
| `ListingVenues` | `ListingStore` whose feeds answer with what `Discovery` makes of payloads; what the venues said | `MCListingStore` | `VenuesProofs` |
| `ListingCycles` | the abstract store: a batch arrives as a whole or not at all | as a property of `MCListingStore` | `ListingStoreProofs` |
| `MarketHistory` | `ingest-market-history`, `ingest_snapshots` and `ingest_trades` beside the collectors of `ListingStore` | `MCMarketHistory` | `MarketHistoryProofs` |
| `MarketVenues` | `MarketHistory` whose venues answer with what `MarketPayloads` makes of payloads, over `ListingVenues`; what the venues said | `MCMarketHistory` | `VenuesProofs` |
| `MarketLedger` | the abstract tables: under each key the first row stands, runs are atomic | as a property of `MCMarketHistory` and of `MCResultStore` | `MarketHistoryProofs`, `ResultStoreProofs` |
| `ResultStore` | the inserts of both result repositories by concurrent writers | `MCResultStore` | `ResultStoreProofs` |
| `VenueTimes` | `parse_venue_time`, `parse_required_venue_time` | `MCListingStore`, `MCMarketHistory` | `VenuesProofs` |
| `Discovery` | what the normalizers make of the payloads of the three feeds, over `VenueTimes` | `MCListingStore` | `VenuesProofs` |
| `MarketPayloads` | what the normalizers make of candles, trades and pools of the three venues, over `VenueTimes` | `MCMarketHistory` | `VenuesProofs` |
| `PollController` | `PollController.run` and `stop` | `MCPollController` | `PollControllerProofs` |
| `PollCommand` | `PollController` composed with `ListingStore`; `collect-once` beside it | `MCPollCommand` | `PollCommandProofs` |
| `RateLimiter` | `AsyncRateLimiter` and the `asyncio.Lock` in it | `MCRateLimiter` | `HttpClientProofs` |
| `HttpClient` | `AsyncHttpClient.get_json` over `RateLimiter` | `MCHttpClient` | `HttpClientProofs` |
| `PaperExecution` | `evaluate`, `ExecutionGateway.submit`, `PaperBroker.fill` | `MCPaperExecution` | `OfflineRunProofs` |
| `Research` | `analyze_listing` and all it calls, with the rounding of prices and of the candidates' returns | `MCOfflineRun` | `OfflineRunProofs` |
| `OfflineRun` | `ListingMomentumStrategy.generate` and the driver, over `PaperExecution` and `Research`; the reports | `MCOfflineRun` | `OfflineRunProofs`, which builds the run's invariant on the order's |

### How the code maps to them

`ListingStore`. A session is a process with its SQLAlchemy session. `phase`
says where it is in its cycle, `batch` is the list of events, `done` how many
were upserted. `StartCycle`, `FeedAnswers` (three times), `Upsert` (once per
event), `SendCommit`, `Commit` and `Return` are the awaits of the cycle in
their order; between two of them any other process may act. `Fail` is whatever
leaves the session block before the commit: a request or statement that raises,
Ctrl+C, the death of the process. A cycle that fails ends the process, since
nothing in `run` or the commands catches it. `holder` and `draft` are
PostgreSQL's: the keys an open transaction wrote, and the uncommitted rows.
READ COMMITTED shows in three places: an upsert waits while another open
transaction holds its key (`WaitsFor`), it then works on the newest committed
row (`Visible`), and a cycle of waiting transactions is broken by aborting one
of them (`DeadlockAbort`). These three are external, the rest is the program.
`symbol` stands for all columns the last writer sets. `venue` and
`metadata_json` are such columns because every collector sends them. The history
command sends `venue` and no `metadata_json`; its `coalesce` then keeps the old
value, which no property reads.

`MarketHistory`. It extends `ListingStore`: the same tokens, locks and drafts,
used by two more kinds of sessions. A historian is a process that runs the
command, a loader a caller of the two functions of `IngestionService` that
insert for a token it already knows. `RouteOf` turns the options into the
requests of the run; each answer (`VenueAnswers`) appends to `work` the
statements the service's loop executes for it, and `ran` counts those executed.
Nothing but the answer decides which statements these are, so computing them
when it arrives loses no interleaving: each is still executed by an action of
its own. A pool without a price leaves an empty place in `work`, which
`PastStatement` goes over together with the pool's token, as the loop's
`continue` does. `UpsertToken` leaves the row locked until the run ends.
An insert is `InsertRow` when no row has its key; else `MeetRow`, which does
nothing, and `ReadRow`, the second statement, whose result the code asserts.
Between the two any other session may act. An insert waits for an open
transaction that wrote the same key (`Waits`), and the waits of all sessions
together may be broken (`BreakCycle`); both are external. A row is the statement
that wrote it, with the columns of the three unique indexes and those that tell
two observations of one key apart. `known`, the instant from which the venue
could have said so, is a history field. `KlineRow` and `OhlcvRow` are the
mappers' rows of what `MarketPayloads` makes of a payload.

`PollController`. One action per stretch of code between two awaits; asyncio
lets nothing else run in between. `stop` is the event, `at` the place in
`run`, `stopped` the public flag. The wait ends by the event (`StopWakes`), by
the timeout (`IntervalPasses`), possibly both at once, or by cancellation.

`PollCommand` conjoins the two: `StartCycle` happens exactly when the
controller enters a cycle, and the end of the cycle is what the controller's
`await worker()` sees. `landed` is a history variable that counts the cycles
the server committed.

`RateLimiter`. `level`, `age` and `owner` are `_tokens`, the ticks since
`_updated_at`, and the holder of `_lock`; `queue` its waiters. `Doze` keeps the
lock, as the code does. A waiter may be cancelled when it has been handed the
lock and not yet resumed; `CancelAcquire` covers it with the owner. `window` and `spent` belong to an observer who may
begin to watch at any time. Time is in ticks, amounts are integers.

`HttpClient`. `Get`, `Send`, `Hear`, `Retry` follow the loop of `_get`; the
limiter's actions are taken inside them. `heard` is a history variable. The
client's own backoff is finite. A `Retry-After` of a 429 or 5xx answer is slept
as it was sent, and `inf` is a number to `float()`: such a call goes to
`stalled`, which only a cancellation ends (`BackOff`).

`PaperExecution`. Prices and quantities are naturals, and sums of money are
kept in units of `1 / (One * (One + Slip) * FracDen)`; in these units the fill
price, the limits the offline run computes (one by a division), and the cap by
liquidity are all integers, so no rounding has to be invented. A filled
quantity is represented by its notional, which makes `min(requested_qty,
max_qty)` a comparison of integers. The risk checks are a list of objections in
the code's order, of which the first that holds is reported.

`OfflineRun`. A fixture is a sequence in file order. The strategy's stable sort
is represented by what is used of its result, the earliest and the latest
element seen. An `IndexError` of a fixture that is too short, an analysis that
raises, and a limit price of zero refused by `PaperOrder`'s validator end the
run. `reports` says of each of the three files whether it is of the run before,
of this one, or torn.

`Research`. A frame is a sequence of snapshots. `sort_values` does not keep the
order of equal timestamps, so the sorted frame is any of `Sortings`, and what
`analyze_listing` returns is any member of `Analyses`; since the frame of the
candidates is sorted again, they range over the sortings on their own. What
pandas selects from a frame are its rows at a set of places (`RowsAt`). `Float`
is what `float()` makes of a price, given as the decimal the float is spelled
as, for that is what `Decimal(str(...))` reads back. Three arithmetics of one
return are kept apart: the strategy's, a fraction of the prices as they came;
the windows' and the holding candidate's, a fraction of the rounded ones; and
the entry's and exit's, whose float division and subtraction round again
(`Gain`). `None` stands for what `decimal_or_none` makes of a value that
is not a number. The volatility is only known or not known.

`VenueTimes`, `Discovery`, `MarketPayloads`. A JSON value is a record of a type and a number. Every
conversion that changes a value is there: the unit told by the size of the
number, digits in a string, Python's truth in `a or b` (which passes over 0),
what is skipped, and what raises and so spoils the whole list. Of amounts only
the checks matter: present, a number, positive, not negative.

`ListingVenues`, `MarketVenues`. They put the payloads and the processes
together. `Heard` is what the feeds may send, `FeedAnswer` the events their
normalizers make of it, and `Answers` is that; a payload that is refused is one
of the reasons for `Fail`. `MarketHeard`, `MarketAnswer` and `FailHistory` are
the same for the history command. Beside them stands, in instants and without
any of the normalizers, what the payloads mean: `Meant` gives the instants a
value can be a spelling of, `Seen` and `Born` say when a token was offered and
created, `Says` relates an item of an answer to the row it should become.

`ResultStore`. A writer is a transaction of some caller: a list of inserts and
a commit. `InsertResult` is an insert that finds its key free, `MeetResult` one
that does not, `ReadResult` the second statement with the assertion on its
result. `KeyOf` gives the columns of the unique constraint as they are stored:
a run id in any spelling is one UUID, amounts are rounded to the column's scale,
and three columns of the strategy key may be NULL. `SameKey` is the constraint
(`NULLS NOT DISTINCT`), `Selected` the query; that they tell the same rows apart
is what `MetResultFound` checks while others write. `told` is what the callers
got. Waiting and deadlock are PostgreSQL's, as in `ListingStore`; the
transaction itself is external, since the repositories have no caller.

## 3. What the runs check

| Run | Instance | Question |
|---|---|---|
| `store` | a poller and a collect-once, four keys, the answers computed from payloads with times in every spelling, every fault | no lost update, earliest first-seen, atomic cycles; the table tells what the venues said; both parsers of times agree |
| `poll` | two controllers, limits 1 to 3 and none | the order of event, timeout, cycle and cancellation |
| `command` | a poller, limited to two cycles or not, and a collect-once, two keys in crosswise order | loop and transactions agree; results are durable; cycles and limited runs end |
| `limiter` | three callers, a bucket of two tokens | burst bound, one sleep per token, progress, no deadlock |
| `http` | two tasks, two attempts, all classes of answers | retries, outcome, release of the limiter, progress, no deadlock |
| `market_spot` | two history runs and a loader of one Binance symbol | one row per key, a met row is readable, every row's token is there, runs are atomic |
| `market_beside` | a run over Raydium and GeckoTerminal pools, a loader of the same candles and a poller of the same tokens, each in another order | every run and every cycle ends; rows carry the prices and instants of the payloads |
| `market_stamps` | a GeckoTerminal pool with its candles | violated: see findings |
| `paper` | about 50,000 combinations of order, market and portfolio | risk limits and liquidity hold for the fill |
| `offline` | some 4,600 fixtures, each with every order of equal timestamps, prices and returns that rounding changes | no look-ahead; the analysis agrees with itself and with the strategy as far as rounding lets it; what can be refused |
| `offline_limit` | the same | violated: see findings |
| `results` | two writers, six lists of inserts, two transactions each, every fault | one result per key, the met row is found, what a caller was told stands, replays change nothing |

`CyclesAreAtomic` is the refinement `ListingStore` => `ListingCycles`: the
committed table is the abstract store, and a session's offer is its batch from
the last answer to the server's commit. It says more than the invariants: the
rows a commit publishes are those of the whole batch absorbed at once into
whatever the table holds at that moment, though the statements ran earlier and
interleaved with other processes.

`RunsAreAtomic` is the refinement `MarketHistory` => `MarketLedger`: a commit
adds, of the run's whole list, the first row of each key that the table lacks
*at the commit*. It is what a rerun relies on: the second ingest of the same
history changes nothing, and one that died half-way can be repeated.
`FirstResultStands` says the same of `ResultStore` => `MarketLedger`: a replayed
run leaves the first results as they are, as the repositories' first line,
"replay-safe idempotency", promises.

`ReportsAgree` compares three computations of one number that the code makes in
three places: the strategy's return of the prices as they came, and the holding
candidate's and a window's of the prices as floats. The last two are always
equal. The strategy decides by the same number if `float()` keeps the first and
the last price; if it rounds them, a return may fall on the other side of a
threshold (1 and 1.049999999999999999 are no rise of 5 percent, their floats
are), and all that remains is that a BUY never stands beside a holding that
loses, nor a SELL beside one that gains. It is stated for fixtures whose first and last instants in
view are unambiguous; where two snapshots share such an instant the strategy
(stable sort) and pandas (any order) may pick different ones, and they do in the
instance. `CandidatesFit` compares what can be compared over two arithmetics:
entry and exit by value, the holding by its sign alone. From 3 to 3.3 the
holding gains 0.1 and the exit, at the same price, 0.09999999999999987.
`DrawdownIsWorstFall` is a reference definition: the deepest fall over
all pairs of snapshots, against the running maximum of the code.

### Bounds

* `store`: two sessions suffice for every pairwise race of a key. A Binance
  symbol that is traded, one that is not, and two mints that the feeds report
  in both orders, so that locks cross. `PerSecond` is 2 and the threshold 10
  instead of 1000 and 10^10: what matters is that plausible instants written as
  seconds lie below the threshold and as milliseconds above it, which holds
  between 11 and 20 here (`Plausible`), and in the program from April 1970 to
  the year 2286. The payloads use instants 11 and 14, the server's time and the
  host's clock 14 and 20, so both ends of that range are reached; `Misread`
  ranges over all of it and, for the two parsers, over every value up to the
  latest instant and beyond. Deadlocks of three sessions
  are not in the instance (they are in the proofs, which hold for any set of
  sessions).
* `poll`: limits up to 3 let a limit be reached at the first, a middle and a
  last cycle. Iterations are not counted where no limit reads them.
* `command`: limit 2, so that one cycle's end is followed by another's begin; one
  instant, since times play no role there; two keys, the least that can be
  locked crosswise.
* `limiter`: a token of 5 units at 2 units a tick takes a wait that is rounded
  up; `FullAge` bounds `age` where the bucket is full anyway, `MaxWindow` the
  windows measured (the proof has no such bound on their number, only the
  assumption that it is finite).
* `http`: two attempts give one that is followed by another and one that is
  not; a bucket of one token makes the tasks wait for each other.
* `market_spot`: one symbol suffices since keys of different tokens never
  meet. The candle's interval is over or not when it is fetched, and a second
  interval ends at the same instant, so that two prices contend for one key; an
  empty answer leaves the key to the loader. Payloads write the end in every
  spelling, and some are refused for a candle that ends before it begins, a
  missing begin, a price of 0. The latest instant is 21, so that 14 in
  milliseconds, read as seconds, is out of range, as every such time is in the
  program. A list holds one trade twice. A
  limit of 1001 is refused by the command.
* `market_beside`: two pools, one without price and stamp in Raydium's list, that
  the poller upserts in the other order; two candles that the loader inserts in
  the other order. Waits for tokens and waits for rows occur, and both can close
  a cycle. `Times` has 0, the instant of the numbers that stand for no time in
  Raydium's later fields, beside the two the venues mean.
* `paper`: each quantity takes a value on each side of every comparison; a
  slippage of a quarter separates the fill price from the market's.
* `offline`: three instants, prices that fall, rise and vanish, a fifth
  snapshot before, at and after the fourth; the program's own 25 basis points.
  The float of 11 is 12 and floats divide to the nearest half, coarse enough
  that a rise of 10 percent becomes one of 20, on the other side of the
  threshold of 15; that two prices have one return; and that a holding gains
  more, and less, than an exit at its price.
  Two windows, of which one ends before the latest instant and one with it.
* `results`: a run in two spellings and one that is malformed; strategy keys
  with NULLs in different columns, twice in one list and in two writers; amounts
  that round to one value and one that does not; lists that meet in opposite
  orders. Two transactions per writer (`MaxTries`) give a replay after each kind
  of end.

### Fairness

* `command`, `market_beside`: requests end because each attempt has a timeout
  and attempts are bounded, provided that no venue sends an endless
  `Retry-After`, which the client would sleep as it is: `CommandsEnd` and
  `SessionsEnd` are about finite ones. The server runs statements that can run and looks
  for deadlocks (weak fairness). Upserts and inserts are strongly fair because
  PostgreSQL queues those that wait for a key. In `market_beside` one
  strong fairness per session covers them and the other steps, of which a
  session has one at a time. Two history runs that hold tokens crosswise are not
  in the instance; a run and the poller are, and a run and the loader. Nothing makes a process start a
  cycle or a run, fail or be interrupted. `command` also assumes that intervals
  end.
* `poll`: the loop runs, a cycle ends one way or the other, a set event wakes
  its waiter. Nothing is assumed of the interval, so `StopEndsRun` shows that a
  stop does not wait for it.
* `limiter`, `http`: time passes and the event loop resumes a task that can go
  on; a request ends, by its timeout; a backoff of finite length ends. Nothing
  ends an endless one, so `GetsEnd` says that a call ends or is stalled by an
  answer of its own, never by those of others. Nothing makes a task call or
  cancel.

Deadlock is checked in `limiter` and `http`. The other models
describe processes that may really stop.

## 4. Findings

1. `offline_limit`: a SELL's limit is `price / (1 + s)`, the broker's fill price
   `price * (1 - s)`, which is lower: the limit excludes what the comment above
   it says it allows (`pkg/demo.py:116`). It has no effect today, because the
   offline run starts without a position and the risk check refuses every SELL
   first (`NeverSellsShort`).
2. `market_stamps`: a GeckoTerminal candle carries one stamp, the instant its
   interval opened, as opening and closing time
   (`pkg/collectors/gecko/normalize.py:75`). The snapshot made of it stores the
   closing price under that instant. `windows.py` filters by the stamp alone, so
   what its first line promises, "Prevent look-ahead by as-of filtering", does
   not hold for such rows: an evaluation at the stamp sees a later price.

Facts met on the way that no run is spent on:

* `--max-iterations 0` still runs one cycle, because the limit is compared only
  after a cycle (`pkg/services/ingestion.py:220`), against the help text "Stop
  after N cycles" (`pkg/cli/main.py:182`). `LimitBoundsCycles` is about positive
  limits.
* `HTTP_MAX_ATTEMPTS=0` is accepted by the configuration and turns every GET into
  a failed assertion (`pkg/collectors/http.py:141`; `Get` in `HttpClient`).
* A pool's price is stamped with `pool_created_at`, Raydium's with `openTime`,
  which never change, so only the first price of such a pool is ever stored
  (`pkg/collectors/gecko/normalize.py:33`, `raydium/normalize.py:38`).
* Raydium's `openTime` of 0 is not null and makes the pool one of 1970, and a
  `slot`, the number of a block, is read as an instant; without any time the
  instant comes from a hash of the item and lies between November 2023 and March
  2024 (`raydium/normalize.py:38`). It becomes the token's `first_seen_time`,
  which can only move earlier.
* Prices of Raydium and GeckoTerminal are stored whatever their sign
  (`gecko/normalize.py:79`); Binance's must be positive.
* A string of digits is never read as a date, so an ISO date without hyphens
  becomes an instant of 1970 (`pkg/collectors/normalization.py:110`); an explicit
  0 as the last choice of a Birdeye time becomes the start of 1970
  (`birdeye/normalize.py:30`), and an address of `null` the token named `None`.
* A SELL is compared with the position at its limit price but filled at the
  market's, which may be higher (`pkg/risk/checks.py:25`). `LimitsKept` is about
  BUYs: what a position is worth the code does not fix, and its only caller has
  none.
* A Birdeye search answer of a shape that is not known counts as one without
  pairs (`birdeye/normalize.py:62`): the feed goes silent and the cycle succeeds.

## 5. What is proved

All theorems hold for every value of the constants under the named assumptions
of the modules. They restate what the code guarantees before the modelled part
begins. A theorem rests on the assumptions its proofs cite, not on all that are
declared where it stands:

| Assumption | Why the code justifies it |
|---|---|
| `SessionsAssumption`, `CallersAssumption`, `NoRowAssumption`, `NoBatchAssumption`, `TimesAssumption` | model values for "none" are not values of the program; instants are numbers |
| `AnswersAssumption`, `FixturesAssumption`, `InputsAssumption` | the normalizers and the fixture's loader return lists of validated domain objects |
| `BucketAssumption`, `BrokerAssumption`, `AttemptsAssumption`, both `LimitsAssumption` | constructors and settings are integers or refuse what is not positive |
| `CommandsAssumption`, `MarketAnswersAssumption`, `LoadsAssumption` | Click's option types; `get_pool` returns one `PoolSnapshot`, the other requests lists; the callers of the two loaders pass lists of rows |
| `StoreAssumption` | what the two repositories' signatures leave nullable, and that a known amount is a number |
| `FloatAssumption` | `float()` of a Decimal rounds to the nearest float and so reverses no order, keeps 0, and may underflow to it; prices are not negative |
| `GainAssumption` | division and subtraction of IEEE floats round monotonically; the quotient of a float and a smaller one exceeds `1 + 2^-53` and so rounds to more than 1, any other is at most 1, so that the sign of a gain is kept; a quotient that overflows, an infinite return that `CandidateWindow` refuses, is left out |
| `NoneAssumption` | `None` is neither a signal nor a return |
| `IngestersAssumption` | a process runs one command; who collects, ingests or loads is told apart by name |
| `InstantsAssumption` | seconds are thousands of milliseconds; the threshold of 10^10 and the years 1970 to 9999 enclose the instants a venue can mean in both units |
| `HeardAssumption`, `MarketHeardAssumption` | what the model reads as a list is a JSON array, and a pair of Birdeye's has fields for its times |
| `TimesMeantAssumption`, `MarketTimesMeantAssumption` | a value a venue sends as a time is a time, or absent, or one the normalizers refuse; this is about the venues, and all that is assumed of them |
| `FeedAnswerAssumption`, `MarketAnswerAssumption` | the collectors return what the normalizers make of payloads and nothing else |
| `BoundsAssumption`, `MaxTries` in `StoreAssumption` | bounds of the model, needed for TLC alone; that they are finite is all the proofs use |

### The tokens table

`ListingStoreProofs`. `IInv` joins the type invariant, `LockDiscipline` and
`FirstSeenIsEarliest`. `FirstSeenIsEarliest` alone is not inductive: a commit
publishes drafts, so the drafts must already account for everything committed
*before the commit*, not only before the statement that wrote them. This is
`DraftAccounts`. It survives another session's commit because that session can
only have events about keys it holds (`InOrder`), which are not the keys of
this draft (`AccountsLocal`). `KnowledgeKept` follows from the same invariant:
a draft never has a later first-seen time than its committed row.

The same module shows that `ListingStore` implements `ListingCycles`
(`CyclesCorrect`). The invariant `CycleInv` adds, for a session that is writing
or committing, `Absorbing`: what it sees under each key is the committed row
*as it is now* with the events written so far absorbed into it. An own statement
absorbs one event more (`AbsorbNext`, which is about minima, the first known
creation time and the last event of a list), another session's commit changes
no key that this one has written. `Collected` says which feeds have answered, so
that the batch of a session that commits is one of `Batches`.

### The market tables

`MarketHistoryProofs`. `OneRowPerKey` and `ConflictIsReadable` are each
inductive together with `HistoryShape`, the shape of the ingesters' state. Every step
of the system is of one of four kinds for a run's rows: it adds one under a
key nobody has (`Adds`), meets one (`Meets`), publishes (`Publishes`), or leaves
or drops them (`Keeps`). `StepEffect` shows this once, the invariant is then
preserved kind by kind. That no two open transactions insert one key rests
only on the wait for a conflicting uncommitted row; that a met row is still
there rests on rows never being deleted, and on the fact that a run waits until
the row's writer has committed or given up before it decides.

`RunsImplementLedger` is the refinement `MarketHistory` => `MarketLedger`. A run
decides row by row, at different times, against a table that grows; the ledger
decides at the commit. They agree because of `Taken`: at every moment the rows
in the transaction are those of the executed inserts that are the first of
their key in the run and whose key the table lacks *now*. A commit of another
run in between cannot take such a key away (`OthersTaken`, by `OneRowPerKey`).
At the commit all inserts have been executed, and `Taken` is what the ledger
asks for.

`MarketUnderTokens` rests on `TokenInv`, which follows the service through its
order of calls. The rows of a request for candles or trades are those of the
run's `token_id`; that there is one by then is `AsksFirst`: the route of a
command without a symbol asks for a pool before its candles, and an answer
about a pool has a token. A row's insert comes after the upsert of its token
(`InsertsUnder`), and a token upserted is held (`HoldsTokens`), so when the run
commits, its token is in the table with it. Two runs that want one row would
both hold its token, hence they only ever wait at tokens. Loaders do not upsert;
their tokens are in the table to begin with, and none is ever removed
(`TouchKeeps`).

`FirstSeenBesideRuns` and `KnowledgeKeptByRuns` say that history runs take nothing
from what the collectors are promised: the tokens table has the earliest
first-seen time of all cycles *and* runs. The proof does not repeat that of
`ListingStore`. It looks at any session, of either kind, through the events its
open transaction has upserted (`Pending`); then every step of the whole system is
one of four deeds: one upsert, a commit of what is pending, the end of a
transaction without one, or nothing (`CollectorDeed`, `IngesterDeed`). That these
keep each draft true to what is committed and pending is shown once
(`DeedKeeps`).

### The result tables

`ResultStoreProofs`. `SelectedIsSameKey` is the heart: on rows as they are
stored, the query's conditions (`=`, or equality that counts NULLs as equal,
on rounded amounts) tell apart just what the unique constraint does. `ResultInv`
then says what a caller has been told (`HeldTo`) and that a writer between its
two statements has met a row (`Asks`). `ResultKeys`, `ResultRead` and
`ResultTold` follow. The refinement of `MarketLedger` uses `Drafted`, which is to
`ResultStore` what `Taken` is to `MarketHistory`.

### What the venues said

`VenuesProofs` has the theorems that reach from a venue's payload to the
committed tables. First the values. A spelling of a plausible instant is read as
that instant (`SpellingRead`): the milliseconds of one lie above the threshold,
its seconds below. Where the strict parser accepts a value, both agree
(`ParsersAgree`). Hence nothing is misread, whatever the units and the threshold,
and `TimesAgreed` follows. Then the lists. What a normalizer returns is a list
of events each of which tells of its token what the payload says (`HeardTold`).
The lists of a grouped answer are joined by a recursive function, of whose
values nothing is known until they are followed place by place: the first place
at which the joined list could be no list of events does not exist
(`JoinedType`, by the least-number principle).

Then the processes. `BatchesTold` says it of the events collected, `TokensTold` of
the tokens committed and drafted; an upsert takes the minimum of two first-seen
times and one of two creation times, so that each still is one a venue gave
(`MergeTold`), and the other steps move rows. Together with `IInv` these are
inductive, and `TableTellsVenues` follows (`VenuesTold`).

`RowsTellVenues` is the same for three tables and harder, because no row carries
its token: it is inserted under the `token_id` the run has at that moment. That
an answer about one pool never lands under another token is `Ordered`. Binance
is asked first, and then the run's only token is the symbol (`SpotsFirst`).
Candles of a pool are asked for right after that pool (`PoolFirst`), whose answer ends
with its token (`EndsWithPool`); and `token_id` is that of the last token
statement executed (`TokenIsLast`), all of which have been when the next request
goes out. `VenuesInv` adds that statements in the list, rows in the table, and
the collectors' batches beside them tell what was said (`MarketTold`).

### The poller

`PollControllerProofs`. `LimitBoundsCycles` needs that a run that waits has not
yet reached its limit; `StoppedFlagIsTrue` and `NoCycleAfterStop` follow.

`PollCommandProofs`. Every step of the commands is one of the store and one of
each controller, or leaves it alone (`CommandImplementsParts`), so that what is
proved of the two parts holds of the whole (`CommandKeepsParts`). `CommandInv`
ties them together: where the controller is, by the phase of its session
(`InStep`), and how many cycles landed, by how many it counted (`Counts`): one
more just between a commit and its answer.

### HTTP client and limiter

`HttpClientProofs`, first half. `WindowBound` is not inductive: it does not say what is
left in the bucket. `Ledger` does: once a token was taken in the window, the
last refill lies in the window, and the tokens taken, the level and what has
flowed in since that refill together stay within one full bucket and the inflow
of the window. `OneSleepCorrect` rests on `SleepCovers`: only the owner of the
lock sleeps, and what it will find when its sleep ends is enough for a token.

Second half. The client's behaviours are behaviours of the limiter
(`ClientImplementsLimiter`), so the burst bound is one on requests
(`ClientWindowCorrect`). `ClientInv` says of each call what its answers so far
allow (`CallOK`), that nobody is in the limiter twice (`QueuedOnce`), and that a
call is in it exactly while it acquires (`Acquires`); the last is what
cancellation could break, in the queue as well as asleep with the lock.

### Orders and the offline run

`OfflineRunProofs`. `OrderInv` remembers what acceptance (`Approved`) and
the broker's checks (`Executed`) established. `LimitsCorrect` is then the chain
fill notional <= qty * fill price <= qty * limit <= room under the limit.

The second part is about `OfflineRun`, whose order goes through the same steps.
`OrderedRun` follows it from the fixture to its end; together with `OrderInv`
it gives `RunKeepsRules`: the run's own order keeps every rule proved for
orders at large. `SlippageCovered` needs to know which snapshot the strategy's
stable sort puts last (`LatestExists`, by the least-number principle): the fill
price misses the limit only if the evaluation time has a second, cheaper
snapshot. `NoShortSale` comes from the same invariant.

The third part is about the analysis. `Analysed` is the invariant: the report in
memory is one of those the fixture allows, and the signal is the fixture's. All
else is about what those are. A frame is described without its order: it
`Arranges` the rows of the fixture at a set of places, which means a bijection
`Leads` from its places to those (`SortingsArrange`; that an injection of a
finite set into itself is a bijection is counted with `FiniteSetTheorems`). What
pandas selects from a frame by time again arranges the rows selected
(`SelectionArranges`), so that a window's rows are those of the view up to its
end, and the first of the frame (`WindowArranges`).

* `NoLookahead`: whatever orders equal timestamps in the whole fixture orders
  them in the fixture without its future, by going over to the places that are
  left and back (`KeptFrames`); the strategy's earliest and latest snapshot stay
  the same (`KeptEnds`).
* `DrawdownCorrect`: of finitely many fractions one is the least (`LeastFraction`);
  falls from the running maximum are falls, and from a higher price the fall to
  the same one is deeper (`DeeperFromHigher`), so the least of the former is
  the least of all (`WorstFall`). Over the fixture's rows the pairs are the
  same, but for those of one instant, which may come in either order.
* `StatisticsNested`: a wider window's rows begin with the narrower one's, so that
  what is known of the latter's prices is known of the former's
  (`StatisticsGrow`).
* `CandidatesCorrect`: for every rounding that keeps order and sign. A greatest
  return exists because a greatest price does (`PeakIsGreatest`), it is no less
  than the first gain and hence a gain too (`GainStays`), and a last price above
  the first is a rise whatever its rounding (`ReturnsOf`, `CandidateFacts`).
* `OneStory`: if the first and last instant have one snapshot each, every frame
  begins and ends with them (`EndsOfFrame`). The signal compares their prices with
  the thresholds by cross multiplication (`SignalOfEnds`). If these are
  representable, the holding's return is the same fraction; if not, a rise or
  fall is at least no fall or rise of the floats, by `FloatAssumption`.

The type invariants (`TypeOK`, `PollTypeOK`, `LimiterTypeOK`, `OrderTypeOK`) and
`StoppedFlagIsTrue` are proved and no longer spent a run on.

### What the proofs changed in the modules

* The second conjunct of `OnlyRetryableRetried` was false for a negative
  `MaxAttempts`, which the configuration accepts: such a call makes no request
  and has still heard more than a negative number of answers. It now speaks of
  calls that have heard one.
* `Absorbed` in `ListingCycles` had a CASE with two guards that can hold at
  once and different values, so TLA+ leaves open which one it is. It is an
  IF now, in the order of the SQL `coalesce`.
* `MarketLedger` no longer fixes the set of rows that may ever be offered, which
  neither table has; a list is any function from positions to rows. What it says
  of a commit is the same, for more lists.
* `PoolStatements` was a filter over a sequence, of which the provers know
  nothing; it is a function now, with empty places.
* `Research` selected rows with filters and sorted them with permutations of
  sequences; it now says at which places rows are (`RowsAt`) and sorts by
  injections. The lists of `Discovery` and `MarketPayloads` are functions on
  the places of a payload, joined with the library's `FlattenSeq`.
* `ReportsAgree` was false for a threshold of zero, at which a price that stays
  is a rise as well as a fall: the code asks for the rise first, which the
  property now says.
* `CandidatesFit` and `ReportsAgree` spoke of one exact fraction where the program
  has three arithmetics. They now say what survives rounding, and the proofs
  need no more of it than `FloatAssumption` and `GainAssumption`.
* `TimesAgree`, `TableTellsVenues` and `RowsTellVenues` were about the payloads a
  TLC instance enumerates. They moved to `ListingVenues` and `MarketVenues`,
  where payloads are constants; what has to be assumed of them came out of the
  proofs.

## 6. Only model-checked

Liveness, and nothing else: `CommandsEnd` and `SessionsEnd` (every cycle, run and
limited command ends), `StopEndsRun`, `EveryCallerServed` and `GetsEnd`, under the fairness of section 3. They hold by
fairness, that is by ENABLED of actions, and neither is in the prover's reach.
Every other property of a passing run is a theorem. The two findings are
counterexamples, which TLC shows on an instance.

Induction with an operator as its parameter is out of reach as well. Where a
proof here needs one, about finite sets of fractions, running maxima or joined
lists, it takes the least counterexample instead: that a set of naturals has a
least element is a fact about sets.

## 7. Not modelled

* The order book, the ticker and Raydium's quote, which no command calls, and
  the columns of a payload that no row here keeps.
* The value of the volatility. The rounding of drawdowns and means in pandas, and
  in the limiter; that of `Decimal` at 28 digits, in the broker and in the
  strategy's quotient, so that "decided by the same return" holds for prices of
  fewer digits; quotients of floats that overflow.
* The sign of a price or a liquidity, which `PriceSnapshot` does not check: they
  are naturals here.
* Lengths of timeouts, backoffs and `Retry-After`, except that the last may be
  endless.
* A liquidity that Birdeye sends and that is no number: it refuses its list, which
  is a `Fail` like any other.
* What a failed run leaves of the three reports is modelled (`WriteReport`) and no
  property is about it: an old paper run and table may stand beside a new
  analysis, and nothing in the repository promises otherwise.
* Configuration, wiring, the engine and the formatting of reports: construction
  and output. The migration is represented by the constraints it creates.
* The fee of a fill, which decides nothing, the counters of
  `MarketHistoryResult`, `parse_window` and the helpers of `idempotency.py`,
  which nothing calls.

## 8. Plan

What is left:

1. The refinement of `ListingCycles` beside history runs: `CyclesAreAtomic` is
   proved for collectors alone, and a run's upserts would have to be offers of
   their own.
2. The normalizers that no command's rows depend on yet (order book, ticker,
   quote), when a command calls them.
