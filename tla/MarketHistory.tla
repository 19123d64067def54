---------------------------- MODULE MarketHistory ----------------------------
(***************************************************************************)
(* The tables price_snapshots and trades and the processes that fill them, *)
(* beside the collectors of ListingStore on the same database.  A          *)
(* historian runs the command ingest-market-history: upserts of tokens,    *)
(* requests to three venues and inserts of what they answer, all in one    *)
(* transaction, so that it keeps the rows of its tokens across requests.   *)
(* A loader calls IngestionService.ingest_snapshots or ingest_trades for   *)
(* a token it knows, without upserting it, and commits.                    *)
(*                                                                         *)
(* INSERT ... ON CONFLICT DO NOTHING waits for an open transaction that    *)
(* wrote the same key.  It returns no row when it meets one; the row is    *)
(* then read by a second statement, and must be there.                     *)
(*                                                                         *)
(* A row is the statement that wrote it: table, token, instant, source,    *)
(* external id of a trade, a value (the price of a snapshot; side, amount  *)
(* and price of a trade), and, as history, the instant "known" from which  *)
(* the venue could have said so.                                           *)
(***************************************************************************)
EXTENDS ListingStore

CONSTANTS
    Historians, Loaders,
    Commands,       \* the option values of ingest-market-history
    SpotName,       \* the symbol column of a Binance symbol
    MarketAnswers,  \* MarketAnswers[r]: the normalized lists of request r
    Loads           \* the lists of rows a loader may have, but for the token

Ingesters == Historians \cup Loaders

Collectors == Sessions \ Ingesters

ASSUME IngestersAssumption ==
    /\ Ingesters \subseteq Sessions
    /\ Historians \cap Loaders = {}
    /\ Pollers \subseteq Collectors

Requests == {"klines", "aggTrades", "trades", "pools", "pool", "ohlcv"}

ASSUME CommandsAssumption ==
    /\ Null \notin Keys
    /\ SpotName \in [Keys -> Symbols]
    /\ \A c \in Commands : c.symbol \in Keys \cup {Null} /\ {c.recent, c.pool} \subseteq BOOLEAN

\* get_pool returns one pool, and a pool is what PoolSnapshot says.
ASSUME MarketAnswersAssumption ==
    /\ DOMAIN MarketAnswers = Requests
    /\ \A request \in Requests : \A list \in MarketAnswers[request] :
          list \in Seq({list[i] : i \in DOMAIN list})
    /\ \A request \in {"pools", "pool"} : \A list \in MarketAnswers[request] :
          \A i \in DOMAIN list :
             list[i].address \in Keys /\ list[i].at \in Times /\ list[i].name \in Symbols
    /\ \A list \in MarketAnswers["pool"] : Len(list) = 1

ASSUME LoadsAssumption ==
    \A list \in Loads : /\ list \in Seq({list[i] : i \in DOMAIN list})
                        /\ \A i \in DOMAIN list : "token" \in DOMAIN list[i]

VARIABLES
    market,     \* the committed rows
    added,      \* ingester -> the rows its open transaction inserted
    stage,      \* where the ingester is
    route,      \* ingester -> the requests still to be made
    work,       \* ingester -> the statements so far, executed or due
    ran,        \* ingester -> how many of them were executed
    token_id    \* ingester -> the token it upserted last

historyVars == <<market, added, stage, route, work, ran, token_id>>

collectVars == <<phase, asked, batch, done>>

systemVars == <<vars, historyVars>>

-----------------------------------------------------------------------------
(* The options *)

INGEST_CONTROL_MIN == 1
INGEST_BINANCE_LIMIT_MAX == 1000
INGEST_RAYDIUM_PAGE_MAX == 100
INGEST_RAYDIUM_PAGE_SIZE_MAX == 100
INGEST_GECKO_OHLCV_LIMIT_MAX == 1000

ControlsValid(c) ==
    /\ c.limit \in INGEST_CONTROL_MIN..INGEST_BINANCE_LIMIT_MAX
    /\ c.page \in INGEST_CONTROL_MIN..INGEST_RAYDIUM_PAGE_MAX
    /\ c.pageSize # Null =>
          c.pageSize \in INGEST_CONTROL_MIN..INGEST_RAYDIUM_PAGE_SIZE_MAX
    /\ c.ohlcv \in INGEST_CONTROL_MIN..INGEST_GECKO_OHLCV_LIMIT_MAX

\* The requests a run makes, in order.
RouteOf(c) ==
    (CASE c.symbol = Null -> <<>>
       [] c.symbol # Null /\ c.recent -> <<"klines", "aggTrades", "trades">>
       [] OTHER -> <<"klines", "aggTrades">>)
    \o (IF c.pageSize = Null THEN <<>> ELSE <<"pools">>)
    \o (IF c.pool THEN <<"pool", "ohlcv">> ELSE <<>>)

-----------------------------------------------------------------------------
(* Rows and statements *)

SnapshotRow(k, at, source, x) ==
    [table |-> "snapshot", token |-> k, at |-> at, source |-> source,
     id |-> Null, value |-> x.price, known |-> x.known]

TradeRow(k, source, t) ==
    [table |-> "trade", token |-> k, at |-> t.at, source |-> source,
     id |-> t.id, value |-> t.fill, known |-> t.at]

\* The unique key a row falls under.
KeyOf(r) ==
    CASE r.table = "snapshot" -> <<"snapshot", r.token, r.at, r.source>>
      [] r.table = "trade" /\ r.id # Null -> <<"external", r.token, r.source, r.id>>
      [] OTHER -> <<"composite", r.token, r.at, r.value, r.source>>

\* A candle is stamped with its close_time, be it over or not.  The source of
\* a Binance candle does not name the interval.
KlineRow(k, c) == SnapshotRow(k, c.close, <<"binance">>, c)

OhlcvRow(k, c) == SnapshotRow(k, c.close, <<"geckoterminal", "ohlcv", c.interval>>, c)

TokenStatement(k, first, symbol) ==
    [op |-> "token",
     event |-> [key |-> k, created |-> Null, first |-> first, symbol |-> symbol]]

Insert(r) == [op |-> "insert", row |-> r]

Inserts(rows) == [i \in DOMAIN rows |-> Insert(rows[i])]

\* A pool without a price leaves a token and no snapshot.
NoStatement == [op |-> "none"]

PoolStatements(list, source) ==
    [i \in 1..(2 * Len(list)) |->
        LET p == list[(i + 1) \div 2]
        IN  IF i % 2 = 1 THEN TokenStatement(p.address, p.at, p.name)
            ELSE IF p.price = Null THEN NoStatement
            ELSE Insert(SnapshotRow(p.address, p.at, source, p))]

\* What is executed for the answer to a request; k is the run's token.
StatementsFor(request, list, k) ==
    CASE request = "klines" -> [i \in DOMAIN list |-> Insert(KlineRow(k, list[i]))]
      [] request = "aggTrades" ->
            [i \in DOMAIN list |-> Insert(TradeRow(k, <<"binance", "aggTrades">>, list[i]))]
      [] request = "trades" ->
            [i \in DOMAIN list |-> Insert(TradeRow(k, <<"binance", "trades">>, list[i]))]
      [] request = "pools" -> PoolStatements(list, <<"raydium">>)
      [] request = "pool" -> PoolStatements(list, <<"geckoterminal", "pool">>)
      [] request = "ohlcv" -> [i \in DOMAIN list |-> Insert(OhlcvRow(k, list[i]))]

-----------------------------------------------------------------------------
(* Waiting *)

Drained(s) == stage[s] = "running" /\ ran[s] = Len(work[s])

Due(s, op) ==
    /\ stage[s] = "running"
    /\ ran[s] < Len(work[s])
    /\ work[s][ran[s] + 1].op = op

Statement(s) == work[s][ran[s] + 1]

\* How far s is after its statement: past a snapshot there is not.
PastStatement(s) ==
    IF ran[s] + 2 \in DOMAIN work[s] /\ work[s][ran[s] + 2] = NoStatement
    THEN ran[s] + 2
    ELSE ran[s] + 1

Wrote(s, r) == \E x \in added[s] : KeyOf(x) = KeyOf(r)

\* s cannot go on before the transaction of o has ended.
Waits(s, o) ==
    /\ o # s
    /\ \/ s \in Collectors /\ WaitsFor(s) = o
       \/ s \in Ingesters /\ Due(s, "token") /\ holder[Statement(s).event.key] = o
       \/ /\ s \in Ingesters /\ Due(s, "insert")
          /\ o \in Ingesters /\ Wrote(o, Statement(s).row)

Free(s) == \A o \in Sessions : ~Waits(s, o)

\* As InDeadlock, of all sessions.
OnCycle(s) ==
    \E C \in SUBSET Sessions :
        s \in C /\ {o \in Sessions : \E c \in C : Waits(c, o)} = C

\* A row under the key of the statement's, committed or its own.
Found(s) ==
    \/ \E x \in market : KeyOf(x) = KeyOf(Statement(s).row)
    \/ Wrote(s, Statement(s).row)

-----------------------------------------------------------------------------
(* A run *)

HistoryInit ==
    /\ Init
    /\ market = {}
    /\ added = [s \in Ingesters |-> {}]
    /\ stage = [s \in Ingesters |-> "idle"]
    /\ route = [s \in Ingesters |-> <<>>]
    /\ work = [s \in Ingesters |-> <<>>]
    /\ ran = [s \in Ingesters |-> 0]
    /\ token_id = [s \in Ingesters |-> Null]

\* Options out of bounds end the process before any request or statement.
BeginHistory(s) ==
    /\ s \in Historians
    /\ stage[s] = "idle"
    /\ stage' = [stage EXCEPT ![s] = "running"]
    /\ \E c \in Commands, now \in Times :
          /\ ControlsValid(c)
          /\ route' = [route EXCEPT ![s] = RouteOf(c)]
          /\ work' = [work EXCEPT ![s] =
                         IF c.symbol = Null THEN <<>>
                         ELSE <<TokenStatement(c.symbol, now, SpotName[c.symbol])>>]
    /\ UNCHANGED <<vars, market, added, ran, token_id>>

\* The caller has a token's id from the table.
BeginLoad(s) ==
    /\ s \in Loaders
    /\ stage[s] = "idle"
    /\ stage' = [stage EXCEPT ![s] = "running"]
    /\ \E k \in Keys, list \in Loads :
          /\ tokens[k] # NoRow
          /\ work' = [work EXCEPT ![s] =
                         Inserts([i \in DOMAIN list |-> [list[i] EXCEPT !.token = k]])]
    /\ UNCHANGED <<vars, market, added, route, ran, token_id>>

\* The next request is sent after the last statement, and is answered.
VenueAnswers(s) ==
    /\ Drained(s)
    /\ route[s] # <<>>
    /\ \E list \in MarketAnswers[Head(route[s])] :
          work' = [work EXCEPT ![s] = @ \o StatementsFor(Head(route[s]), list, token_id[s])]
    /\ route' = [route EXCEPT ![s] = Tail(@)]
    /\ UNCHANGED <<vars, market, added, stage, ran, token_id>>

\* Mutant: the token is looked up, and inserted only where it is missing.
UpsertTokenUnlocked(s) ==
    /\ Due(s, "token")
    /\ Free(s)
    /\ LET e == Statement(s).event
       IN  /\ IF Visible(s, e.key) # NoRow
              THEN UNCHANGED <<holder, draft>>
              ELSE /\ holder' = [holder EXCEPT ![e.key] = s]
                   /\ draft' = [draft EXCEPT ![s][e.key] = Merge(NoRow, e)]
           /\ token_id' = [token_id EXCEPT ![s] = e.key]
    /\ ran' = [ran EXCEPT ![s] = PastStatement(s)]
    /\ UNCHANGED <<tokens, collectVars, accepted, market, added, stage, route, work>>

UpsertToken(s) ==
    /\ Due(s, "token")
    /\ Free(s)
    /\ LET e == Statement(s).event
       IN  /\ holder' = [holder EXCEPT ![e.key] = s]
           /\ draft' = [draft EXCEPT ![s][e.key] = Merge(Visible(s, e.key), e)]
           /\ token_id' = [token_id EXCEPT ![s] = e.key]
    /\ ran' = [ran EXCEPT ![s] = PastStatement(s)]
    /\ UNCHANGED <<tokens, collectVars, accepted, market, added, stage, route, work>>

\* Mutant: the row is looked up first and then inserted unconditionally.
InsertRowBlindly(s) ==
    /\ Due(s, "insert")
    /\ added' = [added EXCEPT ![s] = @ \cup {Statement(s).row}]
    /\ ran' = [ran EXCEPT ![s] = @ + 1]
    /\ UNCHANGED <<vars, market, stage, route, work, token_id>>

\* Mutant: every insert commits by itself.
InsertRowAutocommit(s) ==
    /\ Due(s, "insert")
    /\ Free(s)
    /\ ~Found(s)
    /\ market' = market \cup {Statement(s).row}
    /\ ran' = [ran EXCEPT ![s] = @ + 1]
    /\ UNCHANGED <<vars, added, stage, route, work, token_id>>

\* The insert meets no row of its key.
InsertRow(s) ==
    /\ Due(s, "insert")
    /\ Free(s)
    /\ ~Found(s)
    /\ added' = [added EXCEPT ![s] = @ \cup {Statement(s).row}]
    /\ ran' = [ran EXCEPT ![s] = @ + 1]
    /\ UNCHANGED <<vars, market, stage, route, work, token_id>>

\* Mutant: a conflict with an open transaction is not waited for.
MeetRowEarly(s) ==
    /\ Due(s, "insert")
    /\ Found(s) \/ ~Free(s)
    /\ stage' = [stage EXCEPT ![s] = "selecting"]
    /\ UNCHANGED <<vars, market, added, route, work, ran, token_id>>

\* The insert meets a row and does nothing; the row is to be read.
MeetRow(s) ==
    /\ Due(s, "insert")
    /\ Free(s)
    /\ Found(s)
    /\ stage' = [stage EXCEPT ![s] = "selecting"]
    /\ UNCHANGED <<vars, market, added, route, work, ran, token_id>>

\* The second statement reads it.  If it were gone the assertion would fail.
ReadRow(s) ==
    /\ stage[s] = "selecting"
    /\ Found(s)
    /\ stage' = [stage EXCEPT ![s] = "running"]
    /\ ran' = [ran EXCEPT ![s] = @ + 1]
    /\ UNCHANGED <<vars, market, added, route, work, token_id>>

SendHistoryCommit(s) ==
    /\ Drained(s)
    /\ route[s] = <<>>
    /\ stage' = [stage EXCEPT ![s] = "committing"]
    /\ UNCHANGED <<vars, market, added, route, work, ran, token_id>>

TokenEvents(w) == {w[i].event : i \in {j \in DOMAIN w : w[j].op = "token"}}

CommitHistory(s) ==
    /\ stage[s] = "committing"
    /\ stage' = [stage EXCEPT ![s] = "committed"]
    /\ tokens' = [k \in Keys |-> Visible(s, k)]
    /\ Release(s)
    /\ market' = market \cup added[s]
    /\ added' = [added EXCEPT ![s] = {}]
    /\ accepted' = accepted \cup TokenEvents(work[s])
    /\ UNCHANGED <<collectVars, route, work, ran, token_id>>

\* The locals of a run go with it; the next one is another call.
Dismiss(s) ==
    /\ stage' = [stage EXCEPT ![s] = "idle"]
    /\ route' = [route EXCEPT ![s] = <<>>]
    /\ work' = [work EXCEPT ![s] = <<>>]
    /\ ran' = [ran EXCEPT ![s] = 0]
    /\ token_id' = [token_id EXCEPT ![s] = Null]

EndHistory(s) ==
    /\ stage[s] = "committed"
    /\ Dismiss(s)
    /\ UNCHANGED <<vars, market, added>>

\* Mutant: the session is not closed when the run raises.
AbandonLeaky(s) ==
    /\ Dismiss(s)
    /\ UNCHANGED <<vars, market, added>>

Abandon(s) ==
    /\ Dismiss(s)
    /\ Release(s)
    /\ added' = [added EXCEPT ![s] = {}]
    /\ UNCHANGED <<tokens, collectVars, accepted, market>>

\* A request or a statement raises, or the process is killed.
FailHistory(s) ==
    /\ stage[s] \in {"running", "selecting", "committing"}
    /\ Abandon(s)

BreakCycle(s) ==
    /\ OnCycle(s)
    /\ IF s \in Ingesters THEN Abandon(s) ELSE RollBack(s) /\ UNCHANGED historyVars

RunStatement(s) == UpsertToken(s) \/ InsertRow(s) \/ MeetRow(s) \/ ReadRow(s)

Collect(s) ==
    /\ \/ StartCycle(s) \/ FeedAnswers(s) \/ Upsert(s)
       \/ SendCommit(s) \/ Commit(s) \/ Return(s)
       \/ Fail(s) \/ Interrupt(s)
    /\ UNCHANGED historyVars

HistoryNext ==
    \/ \E s \in Ingesters :
          \/ BeginHistory(s)
          \/ BeginLoad(s)
          \/ VenueAnswers(s)
          \/ RunStatement(s)
          \/ SendHistoryCommit(s)
          \/ CommitHistory(s)
          \/ EndHistory(s)
          \/ FailHistory(s)
    \/ \E s \in Collectors : Collect(s)
    \/ \E s \in Sessions : BreakCycle(s)

HistorySpec == HistoryInit /\ [][HistoryNext]_systemVars

\* As in ListingStore: requests end, statements that can run do, and waiters
\* of a key are served in turn.  Of these steps a session has one at a time,
\* and only waiting for a key disables it again.
HistoryFairness ==
    /\ \A s \in Ingesters :
          SF_systemVars(\/ VenueAnswers(s) \/ RunStatement(s) \/ SendHistoryCommit(s)
                        \/ CommitHistory(s) \/ EndHistory(s))
    /\ \A s \in Collectors :
          SF_systemVars(/\ \/ FeedAnswers(s) \/ Upsert(s) \/ SendCommit(s)
                           \/ Commit(s) \/ Return(s)
                        /\ UNCHANGED historyVars)
    /\ \A s \in Sessions : WF_systemVars(BreakCycle(s))

HistoryFairSpec == HistorySpec /\ HistoryFairness

-----------------------------------------------------------------------------
(* Properties *)

\* The rows under a key are at most one, counting all open transactions: an
\* ingest repeated, or run twice at the same time, writes nothing twice
\* (README.md, "idempotent upserts"; market.py, on_conflict_do_nothing).
OneRowPerKey ==
    LET written == market \cup UNION {added[s] : s \in Ingesters}
    IN  /\ \A a, b \in written : KeyOf(a) = KeyOf(b) => a = b
        /\ \A s \in Ingesters : added[s] \cap market = {}
        /\ \A s, o \in Ingesters : s # o => added[s] \cap added[o] = {}

\* The row a do-nothing insert met is there when it is read, whatever other
\* sessions commit or roll back between the two statements: the assertion
\* "existing is not None" (market.py) holds.
ConflictIsReadable ==
    \A s \in Ingesters : stage[s] = "selecting" => Found(s)

\* From its first upsert to the end of its transaction, requests in between
\* included, a historian holds the rows of the tokens it writes about.
\* Historians therefore meet on tokens and never on snapshots or trades, and
\* every row that is committed has its token in the table.
MarketUnderToken ==
    /\ \A s \in Historians :
          /\ \A r \in added[s] : holder[r.token] = s
          /\ token_id[s] # Null /\ stage[s] # "committed" => holder[token_id[s]] = s
    /\ \A s, o \in Historians : Waits(s, o) => Due(s, "token")
    /\ \A r \in market : tokens[r.token] # NoRow

\* The rows of a run's list, at their places among its statements.
InsertsOf(s) ==
    [i \in {j \in DOMAIN work[s] : work[s][j].op = "insert"} |-> work[s][i].row]

Ledger == INSTANCE MarketLedger WITH
    Runs <- Ingesters,
    KeyOf <- KeyOf,
    ledger <- market,
    offer <- [s \in Ingesters |-> IF stage[s] = "committing" THEN {InsertsOf(s)} ELSE {}]

\* The rows a commit publishes are the first observations of its whole list
\* under keys the ledger lacks at that moment, though its inserts ran earlier
\* and interleaved with other runs; a run that ends otherwise leaves none.
RunsAreAtomic == Ledger!Spec

\* Every run ends, though it holds tokens while it waits for venues and for
\* other runs, loaders and collectors; and so does the cycle of a collector
\* that meets a token a historian holds across its requests.
SessionsEnd ==
    /\ \A s \in Ingesters : stage[s] = "running" ~> stage[s] = "idle"
    /\ \A s \in Collectors : phase[s] = "fetching" ~> phase[s] \in {"idle", "stopped"}

\* A snapshot that research may see at an instant was known at that instant
\* (README.md: "Research (pandas, listing-relative windows, no look-ahead)";
\* windows.py filters by the stamp of a snapshot alone).
StampedWhenKnown ==
    \A r \in market : r.table = "snapshot" => r.known <= r.at

=============================================================================
