------------------------- MODULE MarketHistoryProofs -------------------------
(***************************************************************************)
(* Proofs about MarketHistory, for any sessions, options, answers and      *)
(* lists of rows.  That no key is written twice and that a row that was    *)
(* met can be read follows from the waiting for uncommitted rows of the    *)
(* same key alone; that a commit publishes what the ledger would take of   *)
(* the run's list, from what a run knows of the table at each insert; and  *)
(* that rows are under tokens, from the order of requests and statements.  *)
(***************************************************************************)
EXTENDS MarketHistory, ListingStoreProofs

-----------------------------------------------------------------------------
(* What a step does to the rows *)

\* f is a function of the ingesters.
OfIngesters(f) == f = [s \in Ingesters |-> f[s]]

HistoryShape ==
    /\ OfIngesters(added) /\ OfIngesters(stage) /\ OfIngesters(work)
    /\ OfIngesters(ran) /\ OfIngesters(route) /\ OfIngesters(token_id)

\* Only t moves.
OnlyMoves(t) ==
    \A s \in Ingesters \ {t} :
        /\ added'[s] = added[s]
        /\ stage'[s] = stage[s]
        /\ work'[s] = work[s]
        /\ ran'[s] = ran[s]
        /\ route'[s] = route[s]
        /\ token_id'[s] = token_id[s]

\* t adds the row of its statement, which no row it can meet precludes.
Adds(t) ==
    /\ Due(t, "insert") /\ Free(t) /\ ~Found(t)
    /\ market' = market
    /\ added'[t] = added[t] \cup {Statement(t).row}
    /\ stage'[t] # "selecting"

\* t has met a row and is about to read it.
Meets(t) ==
    /\ Found(t)
    /\ market' = market
    /\ added'[t] = added[t] /\ work'[t] = work[t] /\ ran'[t] = ran[t]

\* t publishes its rows.
Publishes(t) ==
    /\ market' = market \cup added[t]
    /\ added'[t] = {}
    /\ stage'[t] # "selecting"

\* t drops its rows or leaves them alone.
Keeps(t) ==
    /\ market' = market
    /\ added'[t] = {} \/ added'[t] = added[t]
    /\ stage'[t] # "selecting"

Effect(t) == OnlyMoves(t) /\ (Adds(t) \/ Meets(t) \/ Publishes(t) \/ Keeps(t))

\* The actions of an ingester each have one of these effects on the rows.
LEMMA IngesterEffect ==
    ASSUME HistoryShape, NEW t \in Ingesters,
           \/ BeginHistory(t) \/ BeginLoad(t) \/ VenueAnswers(t)
           \/ RunStatement(t) \/ SendHistoryCommit(t) \/ CommitHistory(t)
           \/ EndHistory(t) \/ Abandon(t)
    PROVE  HistoryShape' /\ Effect(t)
<1> USE DEF HistoryShape, OfIngesters, Effect, OnlyMoves
<1>1. CASE BeginHistory(t)
  <2>1. HistoryShape'
    BY <1>1 DEF BeginHistory
  <2>2. OnlyMoves(t) /\ Keeps(t)
    BY <1>1 DEF BeginHistory, Keeps
  <2> QED BY <2>1, <2>2
<1>2. CASE BeginLoad(t)
  <2>1. HistoryShape'
    BY <1>2 DEF BeginLoad
  <2>2. OnlyMoves(t) /\ Keeps(t)
    BY <1>2 DEF BeginLoad, Keeps
  <2> QED BY <2>1, <2>2
<1>3. CASE VenueAnswers(t)
  <2>1. HistoryShape'
    BY <1>3 DEF VenueAnswers
  <2>2. OnlyMoves(t) /\ Keeps(t)
    BY <1>3 DEF VenueAnswers, Drained, Keeps
  <2> QED BY <2>1, <2>2
<1>4. CASE UpsertToken(t)
  <2>1. HistoryShape'
    BY <1>4 DEF UpsertToken
  <2>2. OnlyMoves(t) /\ Keeps(t)
    BY <1>4 DEF UpsertToken, Due, Keeps
  <2> QED BY <2>1, <2>2
<1>5. CASE InsertRow(t)
  <2>1. HistoryShape'
    BY <1>5 DEF InsertRow
  <2>2. OnlyMoves(t) /\ Adds(t)
    BY <1>5 DEF InsertRow, Due, Adds
  <2> QED BY <2>1, <2>2
<1>6. CASE MeetRow(t)
  <2>1. HistoryShape'
    BY <1>6 DEF MeetRow
  <2>2. OnlyMoves(t) /\ Meets(t)
    BY <1>6 DEF MeetRow, Meets
  <2> QED BY <2>1, <2>2
<1>7. CASE ReadRow(t)
  <2>1. HistoryShape'
    BY <1>7 DEF ReadRow
  <2>2. OnlyMoves(t) /\ Keeps(t)
    BY <1>7 DEF ReadRow, Keeps
  <2> QED BY <2>1, <2>2
<1>8. CASE SendHistoryCommit(t)
  <2>1. HistoryShape'
    BY <1>8 DEF SendHistoryCommit
  <2>2. OnlyMoves(t) /\ Keeps(t)
    BY <1>8 DEF SendHistoryCommit, Keeps
  <2> QED BY <2>1, <2>2
<1>9. CASE CommitHistory(t)
  <2>1. HistoryShape'
    BY <1>9 DEF CommitHistory
  <2>2. OnlyMoves(t) /\ Publishes(t)
    BY <1>9 DEF CommitHistory, Publishes
  <2> QED BY <2>1, <2>2
<1>10. CASE EndHistory(t)
  <2>1. HistoryShape'
    BY <1>10 DEF EndHistory, Dismiss
  <2>2. OnlyMoves(t) /\ Keeps(t)
    BY <1>10 DEF EndHistory, Dismiss, Keeps
  <2> QED BY <2>1, <2>2
<1>11. CASE Abandon(t)
  <2>1. HistoryShape'
    BY <1>11 DEF Abandon, Dismiss
  <2>2. OnlyMoves(t) /\ Keeps(t)
    BY <1>11 DEF Abandon, Dismiss, Keeps
  <2> QED BY <2>1, <2>2
<1> QED BY <1>1, <1>2, <1>3, <1>4, <1>5, <1>6, <1>7, <1>8, <1>9, <1>10, <1>11
        DEF RunStatement

\* A step of the system leaves the tables alone or has the effect of one
\* ingester.
LEMMA StepEffect ==
    ASSUME HistoryShape, [HistoryNext]_systemVars
    PROVE  /\ HistoryShape'
           /\ UNCHANGED historyVars \/ \E t \in Ingesters : Effect(t)
<1>1. CASE UNCHANGED historyVars
  BY <1>1 DEF historyVars, HistoryShape, OfIngesters
<1>2. ASSUME NEW t \in Ingesters,
             \/ BeginHistory(t) \/ BeginLoad(t) \/ VenueAnswers(t)
             \/ RunStatement(t) \/ SendHistoryCommit(t) \/ CommitHistory(t)
             \/ EndHistory(t) \/ Abandon(t)
      PROVE  HistoryShape' /\ Effect(t)
  BY <1>2, IngesterEffect
<1>3. UNCHANGED systemVars => UNCHANGED historyVars
  BY DEF systemVars
<1>4. ASSUME NEW s \in Collectors, Collect(s)
      PROVE  UNCHANGED historyVars
  BY <1>4 DEF Collect
<1>5. ASSUME NEW s \in Sessions, BreakCycle(s)
      PROVE  UNCHANGED historyVars \/ (s \in Ingesters /\ Abandon(s))
  BY <1>5 DEF BreakCycle
<1>6. ASSUME NEW s \in Ingesters, FailHistory(s)
      PROVE  Abandon(s)
  BY <1>6 DEF FailHistory
<1> QED BY <1>1, <1>2, <1>3, <1>4, <1>5, <1>6 DEF HistoryNext

-----------------------------------------------------------------------------
(* The row that was met *)

\* What s found it still finds while it stands still and the table grows.
LEMMA FoundStays ==
    ASSUME NEW s \in Ingesters, Found(s),
           \A x \in market : x \in market',
           added'[s] = added[s], work'[s] = work[s], ran'[s] = ran[s]
    PROVE  Found(s)'
BY DEF Found, Wrote, Statement

ReadInv == HistoryShape /\ ConflictIsReadable

\* In every reachable state a session between the two statements of a
\* do-nothing insert finds the row it met: the assertion in market.py holds.
THEOREM ConflictReadable == HistorySpec => []ConflictIsReadable
<1>1. HistoryInit => ReadInv
  BY DEF HistoryInit, ReadInv, HistoryShape, OfIngesters, ConflictIsReadable
<1>2. ReadInv /\ [HistoryNext]_systemVars => ReadInv'
  <2> SUFFICES ASSUME ReadInv, [HistoryNext]_systemVars PROVE ReadInv'
    OBVIOUS
  <2>1. HistoryShape' /\ (UNCHANGED historyVars \/ \E t \in Ingesters : Effect(t))
    BY StepEffect DEF ReadInv
  <2>2. CASE UNCHANGED historyVars
    BY <2>1, <2>2 DEF historyVars, ReadInv, ConflictIsReadable, Found, Wrote, Statement
  <2>3. ASSUME NEW t \in Ingesters, Effect(t)
        PROVE  ConflictIsReadable'
    <3> SUFFICES ASSUME NEW s \in Ingesters, stage'[s] = "selecting"
                 PROVE  Found(s)'
      BY DEF ConflictIsReadable
    <3>1. \A x \in market : x \in market'
      BY <2>3 DEF Effect, Adds, Meets, Publishes, Keeps
    <3>2. CASE s = t
      <4>1. Meets(t)
        BY <2>3, <3>2 DEF Effect, Adds, Publishes, Keeps
      <4> QED BY <3>1, <3>2, <4>1, FoundStays DEF Meets
    <3>3. CASE s # t
      <4>1. /\ added'[s] = added[s] /\ stage[s] = "selecting"
            /\ work'[s] = work[s] /\ ran'[s] = ran[s]
        BY <2>3, <3>3 DEF Effect, OnlyMoves
      <4>2. Found(s)
        BY <4>1 DEF ReadInv, ConflictIsReadable
      <4> QED BY <3>1, <4>1, <4>2, FoundStays
    <3> QED BY <3>2, <3>3
  <2> QED BY <2>1, <2>2, <2>3 DEF ReadInv
<1>3. ReadInv => ConflictIsReadable
  BY DEF ReadInv
<1> QED BY <1>1, <1>2, <1>3, PTL DEF HistorySpec

-----------------------------------------------------------------------------
(* One row per key *)

KeyInv == HistoryShape /\ OneRowPerKey

\* In every reachable state no key has two rows, committed or not, whatever
\* runs are repeated, run at the same time, fail or are broken off.
THEOREM OneRow == HistorySpec => []OneRowPerKey
<1>1. HistoryInit => KeyInv
  BY DEF HistoryInit, KeyInv, HistoryShape, OfIngesters, OneRowPerKey
<1>2. KeyInv /\ [HistoryNext]_systemVars => KeyInv'
  <2> SUFFICES ASSUME KeyInv, [HistoryNext]_systemVars PROVE KeyInv'
    OBVIOUS
  <2>1. HistoryShape' /\ (UNCHANGED historyVars \/ \E t \in Ingesters : Effect(t))
    BY StepEffect DEF KeyInv
  <2>2. CASE UNCHANGED historyVars
    BY <2>1, <2>2 DEF historyVars, KeyInv, OneRowPerKey
  <2>3. ASSUME NEW t \in Ingesters, Effect(t)
        PROVE  OneRowPerKey'
    <3> DEFINE written == market \cup UNION {added[s] : s \in Ingesters}
    <3>0. /\ \A a, b \in written : KeyOf(a) = KeyOf(b) => a = b
          /\ \A s \in Ingesters : added[s] \cap market = {}
          /\ \A s, o \in Ingesters : s # o => added[s] \cap added[o] = {}
      BY DEF KeyInv, OneRowPerKey
    <3>1. \A s \in Ingesters \ {t} : added'[s] = added[s]
      BY <2>3 DEF Effect, OnlyMoves
    <3>2. CASE Adds(t)
      <4> DEFINE r == Statement(t).row
      <4>1. \A x \in written : KeyOf(x) # KeyOf(r)
        <5>1. \A x \in market \cup added[t] : KeyOf(x) # KeyOf(r)
          BY <3>2 DEF Adds, Found, Wrote
        <5>2. \A o \in Ingesters \ {t} : \A x \in added[o] : KeyOf(x) # KeyOf(r)
          BY <3>2, IngestersAssumption DEF Adds, Free, Waits, Wrote
        <5> QED BY <5>1, <5>2
      <4>2. written' = written \cup {r}
        BY <3>1, <3>2 DEF Adds
      <4>3. \A a, b \in written' : KeyOf(a) = KeyOf(b) => a = b
        BY <3>0, <4>1, <4>2
      <4>4. r \notin written
        BY <4>1
      <4>5. \A s \in Ingesters : added'[s] \cap market' = {}
        BY <3>0, <3>1, <3>2, <4>4 DEF Adds
      <4>6. \A s, o \in Ingesters : s # o => added'[s] \cap added'[o] = {}
        BY <3>0, <3>1, <3>2, <4>4 DEF Adds
      <4> QED BY <4>3, <4>5, <4>6 DEF OneRowPerKey
    <3>3. CASE Publishes(t)
      <4>1. written' \subseteq written
        BY <3>1, <3>3 DEF Publishes
      <4>2. \A s \in Ingesters : added'[s] \cap market' = {}
        BY <3>0, <3>1, <3>3 DEF Publishes
      <4>3. \A s, o \in Ingesters : s # o => added'[s] \cap added'[o] = {}
        BY <3>0, <3>1, <3>3 DEF Publishes
      <4> QED BY <3>0, <4>1, <4>2, <4>3 DEF OneRowPerKey
    <3>4. CASE Meets(t) \/ Keeps(t)
      <4>0. market' = market /\ (added'[t] = {} \/ added'[t] = added[t])
        BY <3>4 DEF Meets, Keeps
      <4>1. written' \subseteq written
        BY <3>1, <4>0
      <4>2. \A s \in Ingesters : added'[s] \cap market' = {}
        BY <3>0, <3>1, <4>0
      <4>3. \A s, o \in Ingesters : s # o => added'[s] \cap added'[o] = {}
        BY <3>0, <3>1, <4>0
      <4> QED BY <3>0, <4>1, <4>2, <4>3 DEF OneRowPerKey
    <3> QED BY <2>3, <3>2, <3>3, <3>4 DEF Effect
  <2> QED BY <2>1, <2>2, <2>3 DEF KeyInv
<1>3. KeyInv => OneRowPerKey
  BY DEF KeyInv
<1> QED BY <1>1, <1>2, <1>3, PTL DEF HistorySpec

-----------------------------------------------------------------------------
(* The state of a run *)

IsList(w) == w \in Seq({w[i] : i \in DOMAIN w})

RowAt(s, i) == work[s][i].row

\* The inserts s has executed.
Executed(s) == {i \in 1 .. ran[s] : work[s][i].op = "insert"}

Typed(s) ==
    /\ stage[s] \in {"idle", "running", "selecting", "committing", "committed"}
    /\ route[s] \in Seq(Requests)
    /\ IsList(work[s]) /\ ran[s] \in 0 .. Len(work[s])
    /\ stage[s] = "idle" => work[s] = <<>> /\ token_id[s] = Null
    /\ stage[s] = "committed" => added[s] = {}
    /\ stage[s] \in {"committing", "committed"} => ran[s] = Len(work[s])
    /\ stage[s] = "selecting" => ran[s] < Len(work[s]) /\ Statement(s).op = "insert"

Stored(key) == \E x \in market : KeyOf(x) = key

\* No earlier insert of s has the key of the i-th.
First(s, i) == \A j \in Executed(s) : j < i => KeyOf(RowAt(s, j)) # KeyOf(RowAt(s, i))

\* The executed inserts whose rows are its own.
Own(s) == {i \in Executed(s) : First(s, i) /\ ~Stored(KeyOf(RowAt(s, i)))}

\* Every insert executed has its key in the table or in the transaction, and
\* the transaction has inserted just what the ledger would take of them now.
Taken(s) ==
    /\ \A i \in Executed(s) : Stored(KeyOf(RowAt(s, i))) \/ Wrote(s, RowAt(s, i))
    /\ added[s] = {RowAt(s, i) : i \in Own(s)}

RunInv == HistoryShape /\ \A s \in Ingesters : Typed(s) /\ Taken(s)

-----------------------------------------------------------------------------
(* Lists of statements *)

LEMMA ListHasPositions ==
    ASSUME NEW w, IsList(w)
    PROVE  Len(w) \in Nat /\ DOMAIN w = 1 .. Len(w)
BY DEF IsList

LEMMA ListByPositions ==
    ASSUME NEW n \in Nat, NEW F, DOMAIN F = 1 .. n, F = [i \in 1 .. n |-> F[i]]
    PROVE  IsList(F) /\ Len(F) = n
<1>1. F \in Seq({F[i] : i \in DOMAIN F})
  OBVIOUS
<1> QED BY <1>1 DEF IsList

LEMMA ListsJoined ==
    ASSUME NEW v, NEW w, IsList(v), IsList(w)
    PROVE  /\ IsList(v \o w) /\ Len(v \o w) = Len(v) + Len(w)
           /\ \A i \in 1 .. Len(v) : (v \o w)[i] = v[i]
           /\ \A i \in 1 .. Len(w) : (v \o w)[Len(v) + i] = w[i]
           /\ \A i \in 1 .. Len(v \o w) : i > Len(v) =>
                 i - Len(v) \in 1 .. Len(w) /\ (v \o w)[i] = w[i - Len(v)]
<1> DEFINE A == {v[i] : i \in DOMAIN v}
           B == {w[i] : i \in DOMAIN w}
<1>1. v \in Seq(A \cup B) /\ w \in Seq(A \cup B)
  BY DEF IsList
<1> HIDE DEF A, B
<1>2. v \o w \in Seq(A \cup B) /\ Len(v \o w) = Len(v) + Len(w)
  BY <1>1
<1>3. \A i \in 1 .. Len(v) + Len(w) : (v \o w)[i] = IF i <= Len(v) THEN v[i] ELSE w[i - Len(v)]
  BY <1>1
<1>4. ASSUME NEW u \in Seq(A \cup B) PROVE IsList(u)
  <2>1. Len(u) \in Nat /\ DOMAIN u = 1 .. Len(u) /\ u = [i \in 1 .. Len(u) |-> u[i]]
    OBVIOUS
  <2> QED BY <2>1, ListByPositions
<1>5. Len(v) \in Nat /\ Len(w) \in Nat
  BY <1>1
<1>6. IsList(v \o w)
  BY <1>2, <1>4
<1> QED BY <1>2, <1>3, <1>5, <1>6

\* The statements for an answer are a list.
LEMMA StatementsAreList ==
    ASSUME NEW request \in Requests, NEW list \in MarketAnswers[request], NEW k
    PROVE  IsList(StatementsFor(request, list, k))
<1>1. Len(list) \in Nat /\ DOMAIN list = 1 .. Len(list)
  BY MarketAnswersAssumption
<1>2. ASSUME NEW source
      PROVE  IsList(PoolStatements(list, source))
  <2>1. 2 * Len(list) \in Nat
    BY <1>1
  <2> QED BY <2>1, ListByPositions DEF PoolStatements
<1>3. CASE request \in {"pools", "pool"}
  BY <1>2, <1>3 DEF StatementsFor
<1>4. CASE request \notin {"pools", "pool"}
  <2>1. /\ DOMAIN StatementsFor(request, list, k) = 1 .. Len(list)
        /\ StatementsFor(request, list, k)
           = [i \in 1 .. Len(list) |-> StatementsFor(request, list, k)[i]]
    BY <1>1, <1>4 DEF StatementsFor, Requests
  <2> QED BY <1>1, <2>1, ListByPositions
<1> QED BY <1>3, <1>4

LEMMA RouteIsTyped ==
    ASSUME NEW c \in Commands
    PROVE  RouteOf(c) \in Seq(Requests)
<1> DEFINE spot == CASE c.symbol = Null -> <<>>
                     [] c.symbol # Null /\ c.recent -> <<"klines", "aggTrades", "trades">>
                     [] OTHER -> <<"klines", "aggTrades">>
           pools == IF c.pageSize = Null THEN <<>> ELSE <<"pools">>
           pool == IF c.pool THEN <<"pool", "ohlcv">> ELSE <<>>
<1>1. spot \in Seq(Requests)
  <2>1. /\ <<>> \in Seq(Requests)
        /\ <<"klines", "aggTrades", "trades">> \in Seq(Requests)
        /\ <<"klines", "aggTrades">> \in Seq(Requests)
    BY DEF Requests
  <2>2. spot \in {<<>>, <<"klines", "aggTrades", "trades">>, <<"klines", "aggTrades">>}
    <3>1. CASE c.symbol = Null
      BY <3>1
    <3>2. CASE c.symbol # Null /\ c.recent
      BY <3>2
    <3>3. CASE c.symbol # Null /\ ~c.recent
      BY <3>3
    <3> QED BY <3>1, <3>2, <3>3
  <2> HIDE DEF spot
  <2> QED BY <2>1, <2>2
<1>2. pools \in Seq(Requests) /\ pool \in Seq(Requests)
  <2>1. <<>> \in Seq(Requests) /\ <<"pools">> \in Seq(Requests)
    BY DEF Requests
  <2>2. <<"pool", "ohlcv">> \in Seq(Requests)
    BY DEF Requests
  <2> QED BY <2>1, <2>2
<1>3. RouteOf(c) = spot \o pools \o pool
  BY DEF RouteOf
<1> HIDE DEF spot, pools, pool
<1> QED BY <1>1, <1>2, <1>3

-----------------------------------------------------------------------------
(* What a run has inserted *)

\* s executes no insert, or none yet.
LEMMA TakenStays ==
    ASSUME NEW s \in Ingesters, Taken(s), market' = market, added'[s] = added[s],
           Executed(s)' = Executed(s),
           \A i \in Executed(s) : RowAt(s, i)' = RowAt(s, i)
    PROVE  Taken(s)'
<1>1. \A i \in Executed(s) : First(s, i)' <=> First(s, i)
  BY DEF First
<1>2. Own(s)' = Own(s)
  BY <1>1 DEF Own, Stored
<1> QED BY <1>2 DEF Taken, Stored, Wrote, Own

\* The statements of s so far are the same, and no more were executed.
LEMMA TakenByPosition ==
    ASSUME NEW s \in Ingesters, Typed(s), Taken(s),
           market' = market, added'[s] = added[s], ran'[s] = ran[s],
           \A i \in 1 .. Len(work[s]) : work'[s][i] = work[s][i]
    PROVE  Taken(s)'
<1>1. ran[s] \in Nat /\ ran[s] <= Len(work[s]) /\ Len(work[s]) \in Nat
  BY ListHasPositions DEF Typed
<1>2. \A i \in 1 .. ran[s] : work'[s][i] = work[s][i]
  BY <1>1
<1>3. Executed(s)' = Executed(s)
  BY <1>2 DEF Executed
<1>4. \A i \in Executed(s) : RowAt(s, i)' = RowAt(s, i)
  BY <1>2 DEF Executed, RowAt
<1> QED BY <1>3, <1>4, TakenStays

\* What another ingester publishes has keys that were not those of s.
LEMMA OthersTaken ==
    ASSUME OneRowPerKey, NEW t \in Ingesters, NEW s \in Ingesters \ {t}, Taken(s),
           market' = market \/ market' = market \cup added[t],
           added'[s] = added[s], work'[s] = work[s], ran'[s] = ran[s]
    PROVE  Taken(s)'
<1>1. Executed(s)' = Executed(s) /\ \A i : RowAt(s, i)' = RowAt(s, i)
  BY DEF Executed, RowAt
<1>2. \A i : First(s, i)' <=> First(s, i)
  BY <1>1 DEF First
<1>3. ASSUME NEW i \in Own(s) PROVE ~Stored(KeyOf(RowAt(s, i)))'
  <2>1. RowAt(s, i) \in added[s]
    BY DEF Taken
  <2>2. ASSUME NEW x \in market \cup added[t], KeyOf(x) = KeyOf(RowAt(s, i))
        PROVE  FALSE
    <3>1. x = RowAt(s, i)
      BY <2>1, <2>2 DEF OneRowPerKey
    <3> QED BY <2>1, <3>1 DEF OneRowPerKey
  <2> QED BY <1>1, <2>2 DEF Stored
<1>4. ASSUME NEW key, Stored(key) PROVE Stored(key)'
  BY <1>4 DEF Stored
<1>5. Own(s)' = Own(s)
  BY <1>1, <1>2, <1>3, <1>4 DEF Own
<1> QED BY <1>1, <1>4, <1>5 DEF Taken, Wrote

\* One more insert is executed: its row is inserted just if it is the first
\* of its key, in the run and in the table.
LEMMA OneMoreTaken ==
    ASSUME NEW s \in Ingesters, Typed(s), Taken(s), ran[s] < Len(work[s]),
           Statement(s).op = "insert",
           market' = market, work'[s] = work[s], ran'[s] = ran[s] + 1,
           IF Found(s) THEN added'[s] = added[s]
                       ELSE added'[s] = added[s] \cup {Statement(s).row}
    PROVE  Taken(s)'
<1>0. PICK n \in Nat, r \in {Statement(s).row} : n = ran[s] + 1 /\ r = Statement(s).row
  BY ListHasPositions DEF Typed
<1>1. ran[s] \in Nat /\ r = RowAt(s, n)
  BY <1>0, ListHasPositions DEF Typed, Statement, RowAt
<1>2. Executed(s)' = Executed(s) \cup {n} /\ n \notin Executed(s) /\ \A i \in Executed(s) : i < n
  BY <1>0, <1>1 DEF Executed, Statement
<1>3. \A i : RowAt(s, i)' = RowAt(s, i)
  BY DEF RowAt
<1>4. \A i \in Executed(s) : First(s, i)' <=> First(s, i)
  BY <1>1, <1>2, <1>3 DEF First, Executed
<1>5. First(s, n)' <=> \A j \in Executed(s) : KeyOf(RowAt(s, j)) # KeyOf(r)
  BY <1>1, <1>2, <1>3 DEF First
<1>6. First(s, n)' /\ ~Stored(KeyOf(r)) <=> ~Found(s)
  <2>1. ASSUME NEW j \in Executed(s), KeyOf(RowAt(s, j)) = KeyOf(r) PROVE Found(s)
    BY <1>0, <2>1 DEF Taken, Stored, Found, Wrote
  <2>2. ASSUME Found(s), ~Stored(KeyOf(r))
        PROVE  \E j \in Executed(s) : KeyOf(RowAt(s, j)) = KeyOf(r)
    BY <1>0, <2>2 DEF Found, Wrote, Stored, Taken, Own
  <2>3. Stored(KeyOf(r)) => Found(s)
    BY <1>0 DEF Stored, Found
  <2> QED BY <1>5, <2>1, <2>2, <2>3
<1>7. Own(s)' = Own(s) \cup IF Found(s) THEN {} ELSE {n}
  BY <1>1, <1>2, <1>3, <1>4, <1>6 DEF Own, Stored
<1>8. added'[s] = {RowAt(s, i) : i \in Own(s)'}
  <2>1. added[s] = {RowAt(s, i) : i \in Own(s)}
    BY DEF Taken
  <2> QED BY <1>0, <1>1, <1>3, <1>7, <2>1
<1>9. ASSUME NEW i \in Executed(s)'
      PROVE  Stored(KeyOf(RowAt(s, i))) \/ \E x \in added'[s] : KeyOf(x) = KeyOf(RowAt(s, i))
  <2>1. CASE i \in Executed(s)
    BY <2>1 DEF Taken, Wrote
  <2>2. CASE i = n
    BY <1>0, <1>1, <2>2 DEF Found, Stored, Wrote
  <2> QED BY <1>2, <2>1, <2>2
<1> QED BY <1>3, <1>8, <1>9 DEF Taken, Stored, Wrote

LEMMA NothingTaken ==
    ASSUME NEW s \in Ingesters, Executed(s) = {}, added[s] = {}
    PROVE  Taken(s)
BY DEF Taken, Own

\* Where a run is before its first statement.
LEMMA FreshRun ==
    ASSUME NEW s \in Ingesters, Typed(s), Taken(s), stage[s] = "idle"
    PROVE  ran[s] = 0 /\ added[s] = {} /\ work[s] = <<>>
<1>1. ran[s] = 0
  BY DEF Typed
<1> QED BY <1>1 DEF Taken, Own, Executed, Typed

\* The token's statement writes no row, and neither does what it passes over.
LEMMA PastToken ==
    ASSUME NEW s \in Ingesters, Typed(s), Due(s, "token"), work'[s] = work[s],
           ran'[s] = PastStatement(s)
    PROVE  /\ ran'[s] \in 0 .. Len(work[s])
           /\ Executed(s)' = Executed(s)
           /\ ran'[s] = ran[s] + 1 \/ (ran'[s] = ran[s] + 2 /\ work[s][ran[s] + 2].op = "none")
<1>1. /\ ran[s] \in Nat /\ Len(work[s]) \in Nat /\ ran[s] < Len(work[s])
      /\ DOMAIN work[s] = 1 .. Len(work[s])
  BY ListHasPositions DEF Typed, Due
<1>2. work[s][ran[s] + 1].op = "token"
  BY DEF Due
<1>3. CASE ran'[s] = ran[s] + 1
  <2>1. 1 .. ran'[s] = (1 .. ran[s]) \cup {ran[s] + 1}
    BY <1>1, <1>3
  <2> QED BY <1>1, <1>2, <1>3, <2>1 DEF Executed
<1>4. CASE ran'[s] = ran[s] + 2 /\ ran[s] + 2 \in DOMAIN work[s]
                              /\ work[s][ran[s] + 2] = NoStatement
  <2>1. 1 .. ran'[s] = (1 .. ran[s]) \cup {ran[s] + 1, ran[s] + 2}
    BY <1>1, <1>4
  <2>2. work[s][ran[s] + 2].op = "none"
    BY <1>4 DEF NoStatement
  <2>3. ran'[s] \in 0 .. Len(work[s])
    BY <1>1, <1>4
  <2>4. Executed(s)' = Executed(s)
    BY <1>2, <2>1, <2>2 DEF Executed
  <2> QED BY <1>4, <2>2, <2>3, <2>4
<1> QED BY <1>3, <1>4 DEF PastStatement

-----------------------------------------------------------------------------
(* The steps of a run *)

\* A step of t keeps t's run in order.
LEMMA RunKeeps ==
    ASSUME RunInv, NEW t \in Ingesters,
           \/ BeginHistory(t) \/ BeginLoad(t) \/ VenueAnswers(t)
           \/ RunStatement(t) \/ SendHistoryCommit(t) \/ CommitHistory(t)
           \/ EndHistory(t) \/ Abandon(t)
    PROVE  Typed(t)' /\ Taken(t)'
<1> USE DEF RunInv, HistoryShape, OfIngesters
<1>0. Typed(t) /\ Taken(t) /\ Len(work[t]) \in Nat /\ DOMAIN work[t] = 1 .. Len(work[t])
  BY ListHasPositions DEF Typed
<1>a. ASSUME IsList(work'[t]), route'[t] \in Seq(Requests), stage[t] = "idle",
             stage'[t] = "running",
             market' = market, added'[t] = added[t], ran'[t] = ran[t]
      PROVE  Typed(t)' /\ Taken(t)'
  <2>1. ran[t] = 0 /\ added[t] = {}
    BY <1>0, <1>a, FreshRun
  <2>2. Executed(t)' = {}
    BY <1>a, <2>1 DEF Executed
  <2>3. Len(work'[t]) \in Nat
    BY <1>a, ListHasPositions
  <2>4. Taken(t)'
    BY <1>a, <2>1, <2>2 DEF Taken, Own
  <2> QED BY <1>a, <2>1, <2>3, <2>4 DEF Typed
<1>1. CASE BeginHistory(t)
  <2>1. /\ stage[t] = "idle" /\ stage'[t] = "running"
        /\ market' = market /\ added'[t] = added[t] /\ ran'[t] = ran[t]
    BY <1>1 DEF BeginHistory
  <2>2. PICK c \in Commands, now \in Times :
          /\ route'[t] = RouteOf(c)
          /\ work'[t] = IF c.symbol = Null THEN <<>>
                        ELSE <<TokenStatement(c.symbol, now, SpotName[c.symbol])>>
    BY <1>1 DEF BeginHistory
  <2>3. IsList(work'[t])
    <3>1. IsList(<<>>) /\ \A x : IsList(<<x>>)
      BY DEF IsList
    <3> QED BY <2>2, <3>1
  <2> QED BY <1>a, <2>1, <2>2, <2>3, RouteIsTyped
<1>2. CASE BeginLoad(t)
  <2>1. /\ stage[t] = "idle" /\ stage'[t] = "running" /\ route'[t] = route[t]
        /\ market' = market /\ added'[t] = added[t] /\ ran'[t] = ran[t]
    BY <1>2 DEF BeginLoad
  <2>2. PICK k \in Keys, list \in Loads :
          work'[t] = Inserts([i \in DOMAIN list |-> [list[i] EXCEPT !.token = k]])
    BY <1>2 DEF BeginLoad
  <2>3. Len(list) \in Nat /\ DOMAIN list = 1 .. Len(list)
    BY LoadsAssumption
  <2>4. DOMAIN work'[t] = 1 .. Len(list) /\ work'[t] = [i \in 1 .. Len(list) |-> work'[t][i]]
    BY <2>2, <2>3 DEF Inserts
  <2>5. IsList(work'[t])
    BY <2>3, <2>4, ListByPositions
  <2> QED BY <1>0, <1>a, <2>1, <2>5 DEF Typed
<1>3. CASE VenueAnswers(t)
  <2>1. /\ stage'[t] = stage[t] /\ stage[t] = "running"
        /\ market' = market /\ added'[t] = added[t] /\ ran'[t] = ran[t]
        /\ route'[t] = Tail(route[t]) /\ route[t] # <<>>
    BY <1>3 DEF VenueAnswers, Drained
  <2>2. Head(route[t]) \in Requests /\ route'[t] \in Seq(Requests)
    BY <1>0, <2>1 DEF Typed
  <2>3. PICK list \in MarketAnswers[Head(route[t])] :
          work'[t] = work[t] \o StatementsFor(Head(route[t]), list, token_id[t])
    BY <1>3 DEF VenueAnswers
  <2>4. IsList(StatementsFor(Head(route[t]), list, token_id[t]))
    BY <2>2, StatementsAreList
  <2>5. /\ IsList(work'[t]) /\ Len(work'[t]) \in Nat /\ Len(work'[t]) >= Len(work[t])
        /\ \A i \in 1 .. Len(work[t]) : work'[t][i] = work[t][i]
    BY <1>0, <2>3, <2>4, ListsJoined, ListHasPositions DEF Typed
  <2>6. Taken(t)'
    BY <1>0, <2>1, <2>5, TakenByPosition
  <2> QED BY <1>0, <2>1, <2>2, <2>5, <2>6 DEF Typed
<1>4. CASE UpsertToken(t)
  <2>1. /\ stage'[t] = stage[t] /\ market' = market /\ added'[t] = added[t]
        /\ work'[t] = work[t] /\ route'[t] = route[t] /\ ran'[t] = PastStatement(t)
        /\ Due(t, "token")
    BY <1>4 DEF UpsertToken
  <2>2. ran'[t] \in 0 .. Len(work[t]) /\ Executed(t)' = Executed(t)
    BY <1>0, <2>1, PastToken
  <2>3. \A i : RowAt(t, i)' = RowAt(t, i)
    BY <2>1 DEF RowAt
  <2>4. Taken(t)'
    BY <1>0, <2>1, <2>2, <2>3, TakenStays
  <2> QED BY <1>0, <2>1, <2>2, <2>4 DEF Typed, Due
<1>b. ASSUME ran[t] < Len(work[t]), Statement(t).op = "insert", stage'[t] = "running",
             work'[t] = work[t], route'[t] = route[t], ran'[t] = ran[t] + 1, market' = market,
             IF Found(t) THEN added'[t] = added[t]
                         ELSE added'[t] = added[t] \cup {Statement(t).row}
      PROVE  Typed(t)' /\ Taken(t)'
  <2>1. Taken(t)'
    BY <1>0, <1>b, OneMoreTaken
  <2> QED BY <1>0, <1>b, <2>1 DEF Typed
<1>5. CASE InsertRow(t)
  BY <1>b, <1>5 DEF InsertRow, Due, Statement
<1>6. CASE MeetRow(t)
  <2>1. /\ stage'[t] = "selecting" /\ work'[t] = work[t] /\ ran'[t] = ran[t]
        /\ route'[t] = route[t] /\ market' = market /\ added'[t] = added[t]
        /\ ran[t] < Len(work[t]) /\ Statement(t).op = "insert" /\ Statement(t)' = Statement(t)
    BY <1>6 DEF MeetRow, Due, Statement
  <2>2. Taken(t)'
    BY <1>0, <2>1, TakenByPosition
  <2> QED BY <1>0, <2>1, <2>2 DEF Typed
<1>7. CASE ReadRow(t)
  <2>1. ran[t] < Len(work[t]) /\ Statement(t).op = "insert"
    BY <1>0, <1>7 DEF ReadRow, Typed
  <2> QED BY <1>b, <1>7, <2>1 DEF ReadRow
<1>8. CASE SendHistoryCommit(t)
  <2>1. /\ stage'[t] = "committing" /\ work'[t] = work[t] /\ ran'[t] = ran[t]
        /\ route'[t] = route[t] /\ market' = market /\ added'[t] = added[t]
        /\ ran[t] = Len(work[t])
    BY <1>8 DEF SendHistoryCommit, Drained
  <2>2. Taken(t)'
    BY <1>0, <2>1, TakenByPosition
  <2> QED BY <1>0, <2>1, <2>2 DEF Typed
<1>9. CASE CommitHistory(t)
  <2>1. /\ stage'[t] = "committed" /\ stage[t] = "committing"
        /\ work'[t] = work[t] /\ ran'[t] = ran[t] /\ route'[t] = route[t]
        /\ market' = market \cup added[t] /\ added'[t] = {}
    BY <1>9 DEF CommitHistory
  <2>2. Executed(t)' = Executed(t) /\ \A i : RowAt(t, i)' = RowAt(t, i)
    BY <2>1 DEF Executed, RowAt
  <2>3. \A i \in Executed(t)' : Stored(KeyOf(RowAt(t, i)))'
    BY <1>0, <2>1, <2>2 DEF Taken, Stored, Wrote
  <2>4. Own(t)' = {}
    BY <2>3 DEF Own
  <2> QED BY <1>0, <2>1, <2>3, <2>4 DEF Typed, Taken
<1>10. CASE EndHistory(t) \/ Abandon(t)
  <2>1. /\ stage'[t] = "idle" /\ work'[t] = <<>> /\ ran'[t] = 0 /\ route'[t] = <<>>
        /\ token_id'[t] = Null
    BY <1>10 DEF EndHistory, Abandon, Dismiss
  <2>2. added'[t] = {}
    <3>1. CASE EndHistory(t)
      <4>1. stage[t] = "committed" /\ added' = added
        BY <3>1 DEF EndHistory
      <4> QED BY <1>0, <4>1 DEF Typed
    <3>2. CASE Abandon(t)
      BY <3>2 DEF Abandon
    <3> QED BY <1>10, <3>1, <3>2
  <2>3. IsList(work'[t]) /\ Len(work'[t]) = 0
    BY <2>1 DEF IsList
  <2>4. Executed(t)' = {}
    BY <2>1 DEF Executed
  <2>5. Taken(t)'
    BY <2>2, <2>4 DEF Taken, Own
  <2> QED BY <2>1, <2>3, <2>5 DEF Typed
<1> QED BY <1>1, <1>2, <1>3, <1>4, <1>5, <1>6, <1>7, <1>8, <1>9, <1>10 DEF RunStatement

\* A step of the system keeps the runs of all ingesters in order.
LEMMA RunInvStep ==
    ASSUME RunInv, OneRowPerKey, [HistoryNext]_systemVars
    PROVE  RunInv'
<1>1. HistoryShape'
  BY StepEffect DEF RunInv
<1>2. ASSUME NEW s \in Ingesters, UNCHANGED historyVars
      PROVE  Typed(s)' /\ Taken(s)'
  <2>1. Typed(s)'
    BY <1>2 DEF historyVars, RunInv, Typed, Statement
  <2>2. Executed(s)' = Executed(s) /\ \A i : RowAt(s, i)' = RowAt(s, i)
    BY <1>2 DEF historyVars, Executed, RowAt
  <2> QED BY <1>2, <2>1, <2>2, TakenStays DEF historyVars, RunInv
<1>3. ASSUME NEW t \in Ingesters,
             \/ BeginHistory(t) \/ BeginLoad(t) \/ VenueAnswers(t)
             \/ RunStatement(t) \/ SendHistoryCommit(t) \/ CommitHistory(t)
             \/ EndHistory(t) \/ Abandon(t)
      PROVE  \A s \in Ingesters : Typed(s)' /\ Taken(s)'
  <2>1. Effect(t) /\ Typed(t)' /\ Taken(t)'
    BY <1>3, IngesterEffect, RunKeeps DEF RunInv
  <2>2. OnlyMoves(t) /\ (market' = market \/ market' = market \cup added[t])
    BY <2>1 DEF Effect, Adds, Meets, Publishes, Keeps
  <2>3. ASSUME NEW s \in Ingesters \ {t}
        PROVE  Typed(s)' /\ Taken(s)'
    <3>1. /\ added'[s] = added[s] /\ stage'[s] = stage[s] /\ work'[s] = work[s]
          /\ ran'[s] = ran[s] /\ route'[s] = route[s] /\ token_id'[s] = token_id[s]
      BY <2>2 DEF OnlyMoves
    <3>2. Typed(s)'
      BY <3>1 DEF RunInv, Typed, Statement
    <3> QED BY <2>2, <3>1, <3>2, OthersTaken DEF RunInv
  <2> QED BY <2>1, <2>3
<1>4. ASSUME NEW s \in Collectors, Collect(s) PROVE UNCHANGED historyVars
  BY <1>4 DEF Collect
<1>5. ASSUME NEW s \in Sessions, BreakCycle(s)
      PROVE  UNCHANGED historyVars \/ (s \in Ingesters /\ Abandon(s))
  BY <1>5 DEF BreakCycle
<1>6. UNCHANGED systemVars => UNCHANGED historyVars
  BY DEF systemVars
<1> QED BY <1>1, <1>2, <1>3, <1>4, <1>5, <1>6 DEF RunInv, HistoryNext, FailHistory

LEMMA RunInvInit == HistoryInit => RunInv
<1> SUFFICES ASSUME HistoryInit PROVE RunInv
  OBVIOUS
<1>1. HistoryShape
  BY DEF HistoryInit, HistoryShape, OfIngesters
<1>2. ASSUME NEW s \in Ingesters PROVE Typed(s) /\ Taken(s)
  <2>1. /\ added[s] = {} /\ stage[s] = "idle" /\ route[s] = <<>> /\ work[s] = <<>>
        /\ ran[s] = 0 /\ token_id[s] = Null
    BY DEF HistoryInit
  <2>2. IsList(<<>>) /\ Len(<<>>) = 0
    BY DEF IsList
  <2>3. Executed(s) = {}
    BY <2>1 DEF Executed
  <2> QED BY <2>1, <2>2, <2>3, NothingTaken DEF Typed
<1> QED BY <1>1, <1>2 DEF RunInv

LEMMA RunInvariant == HistorySpec => []RunInv
BY RunInvInit, RunInvStep, OneRow, PTL DEF HistorySpec

-----------------------------------------------------------------------------
(* MarketHistory implements MarketLedger *)

Offered ==
    [s \in Ingesters |-> IF stage[s] = "committing" THEN {InsertsOf(s)} ELSE {}]

\* What a run that commits has inserted is what the ledger takes of its list.
LEMMA InsertedIsTaken ==
    ASSUME NEW s \in Ingesters, Typed(s), Taken(s), stage[s] = "committing"
    PROVE  added[s] = {r \in Ledger!Firsts(InsertsOf(s)) : ~Ledger!Known(r, market)}
<1> DEFINE list == InsertsOf(s)
<1>1. DOMAIN work[s] = 1 .. ran[s]
  BY ListHasPositions DEF Typed
<1>2. DOMAIN list = Executed(s) /\ \A i \in Executed(s) : list[i] = RowAt(s, i)
  BY <1>1 DEF InsertsOf, Executed, RowAt
<1> HIDE DEF list
<1>3. Ledger!Firsts(list) = {RowAt(s, i) : i \in {j \in Executed(s) : First(s, j)}}
  BY <1>2 DEF Ledger!Firsts, First
<1>4. \A r : Ledger!Known(r, market) <=> Stored(KeyOf(r))
  BY DEF Ledger!Known, Stored
<1> QED BY <1>3, <1>4 DEF Taken, Own, list

\* A step of t is one of the ledger's or leaves it alone.
LEMMA StepOfLedger ==
    ASSUME RunInv, NEW t \in Ingesters,
           \/ BeginHistory(t) \/ BeginLoad(t) \/ VenueAnswers(t)
           \/ RunStatement(t) \/ SendHistoryCommit(t) \/ CommitHistory(t)
           \/ EndHistory(t) \/ Abandon(t)
    PROVE  \/ Ledger!Prepare(t) \/ Ledger!HandOver(t) \/ Ledger!GiveUp(t)
           \/ UNCHANGED <<market, Offered>>
<1> USE DEF RunInv, HistoryShape, OfIngesters
<1>0. /\ Effect(t) /\ HistoryShape'
      /\ \A s \in Ingesters \ {t} : Offered'[s] = Offered[s]
      /\ Offered[t] = IF stage[t] = "committing" THEN {InsertsOf(t)} ELSE {}
      /\ Offered'[t] = IF stage'[t] = "committing" THEN {InsertsOf(t)'} ELSE {}
      /\ Offered = [s \in Ingesters |-> Offered[s]]
      /\ Offered' = [s \in Ingesters |-> Offered'[s]]
  <2>1. Effect(t) /\ HistoryShape'
    BY IngesterEffect
  <2>2. ASSUME NEW s \in Ingesters \ {t} PROVE Offered'[s] = Offered[s]
    <3>1. work'[s] = work[s] /\ stage'[s] = stage[s]
      BY <2>1 DEF Effect, OnlyMoves
    <3>2. InsertsOf(s)' = InsertsOf(s)
      BY <3>1 DEF InsertsOf
    <3> QED BY <3>1, <3>2 DEF Offered
  <2> QED BY <2>1, <2>2 DEF Offered
<1>1. CASE CommitHistory(t)
  <2>1. /\ stage[t] = "committing" /\ stage'[t] = "committed"
        /\ market' = market \cup added[t]
    BY <1>1 DEF CommitHistory
  <2>2. Offered' = [Offered EXCEPT ![t] = {}] /\ Offered[t] = {InsertsOf(t)}
    BY <1>0, <2>1
  <2> QED BY <2>1, <2>2, InsertedIsTaken DEF Ledger!HandOver, Offered
<1>2. CASE SendHistoryCommit(t)
  <2>1. stage[t] = "running" /\ stage'[t] = "committing" /\ market' = market
    BY <1>2 DEF SendHistoryCommit, Drained
  <2>2. Typed(t)'
    BY <1>2, RunKeeps
  <2>3. DOMAIN InsertsOf(t)' \subseteq Nat
    BY <2>2, ListHasPositions DEF InsertsOf, Typed
  <2>4. Offered[t] = {} /\ Offered'[t] = {InsertsOf(t)'}
    BY <1>0, <2>1
  <2> QED BY <1>0, <2>1, <2>3, <2>4 DEF Ledger!Prepare, Offered
<1>3. CASE Abandon(t) /\ stage[t] = "committing"
  <2>1. stage'[t] = "idle" /\ market' = market
    BY <1>3 DEF Abandon, Dismiss
  <2>2. Offered' = [Offered EXCEPT ![t] = {}] /\ Offered[t] # {}
    BY <1>0, <1>3, <2>1
  <2> QED BY <2>1, <2>2 DEF Ledger!GiveUp, Offered
<1>4. ASSUME stage[t] # "committing", stage'[t] # "committing", market' = market
      PROVE  UNCHANGED <<market, Offered>>
  <2>1. Offered'[t] = Offered[t]
    BY <1>0, <1>4
  <2> QED BY <1>0, <1>4, <2>1
<1>5. CASE BeginHistory(t)
  BY <1>4, <1>5 DEF BeginHistory
<1>6. CASE BeginLoad(t)
  BY <1>4, <1>6 DEF BeginLoad
<1>7. CASE VenueAnswers(t)
  BY <1>4, <1>7 DEF VenueAnswers, Drained
<1>8. CASE UpsertToken(t)
  BY <1>4, <1>8 DEF UpsertToken, Due
<1>9. CASE InsertRow(t)
  BY <1>4, <1>9 DEF InsertRow, Due
<1>10. CASE MeetRow(t)
  BY <1>4, <1>10 DEF MeetRow, Due
<1>11. CASE ReadRow(t)
  BY <1>4, <1>11 DEF ReadRow
<1>12. CASE EndHistory(t)
  BY <1>4, <1>12 DEF EndHistory, Dismiss
<1>13. CASE Abandon(t) /\ stage[t] # "committing"
  BY <1>4, <1>13 DEF Abandon, Dismiss
<1> QED BY <1>1, <1>2, <1>3, <1>5, <1>6, <1>7, <1>8, <1>9, <1>10, <1>11, <1>12, <1>13
        DEF RunStatement

\* The market tables implement the ledger of first rows: a run's rows come
\* together or not at all, and what a commit adds are the first observations
\* of its whole list under keys the tables lack at that moment.
THEOREM RunsImplementLedger == HistorySpec => RunsAreAtomic
<1>1. HistoryInit => Ledger!Init
  BY DEF HistoryInit, Ledger!Init
<1>2. RunInv /\ [HistoryNext]_systemVars => [Ledger!Next]_<<market, Offered>>
  <2> SUFFICES ASSUME RunInv, [HistoryNext]_systemVars
               PROVE  [Ledger!Next]_<<market, Offered>>
    OBVIOUS
  <2>1. CASE UNCHANGED historyVars
    BY <2>1 DEF historyVars, Offered, InsertsOf
  <2>2. ASSUME NEW t \in Ingesters,
               \/ BeginHistory(t) \/ BeginLoad(t) \/ VenueAnswers(t)
               \/ RunStatement(t) \/ SendHistoryCommit(t) \/ CommitHistory(t)
               \/ EndHistory(t) \/ Abandon(t)
        PROVE  [Ledger!Next]_<<market, Offered>>
    BY <2>2, StepOfLedger DEF Ledger!Next
  <2>3. ASSUME NEW s \in Collectors, Collect(s) PROVE UNCHANGED historyVars
    BY <2>3 DEF Collect
  <2>4. ASSUME NEW s \in Sessions, BreakCycle(s)
        PROVE  UNCHANGED historyVars \/ (s \in Ingesters /\ Abandon(s))
    BY <2>4 DEF BreakCycle
  <2>5. UNCHANGED systemVars => UNCHANGED historyVars
    BY DEF systemVars
  <2> QED BY <2>1, <2>2, <2>3, <2>4, <2>5 DEF HistoryNext, FailHistory
<1> QED BY <1>1, <1>2, RunInvariant, PTL DEF HistorySpec, RunsAreAtomic, Ledger!Spec, Offered

-----------------------------------------------------------------------------
(* Rows and their tokens *)

\* The requests whose rows belong to the token upserted last.
OfRows == {"klines", "aggTrades", "trades", "ohlcv"}

Running(s) == stage[s] \in {"running", "selecting", "committing"}

\* One of the first n statements of the list w upserts token k.
Upserts(w, n, k) == \E j \in 1 .. n : w[j].op = "token" /\ w[j].event.key = k

HasToken(w) == \E j \in DOMAIN w : w[j].op = "token"

\* The row of an insert belongs to a token upserted before it.
InsertsUnder(s) ==
    \A i \in DOMAIN work[s] : work[s][i].op = "insert" => Upserts(work[s], i - 1, RowAt(s, i).token)

\* Until its transaction ends a run holds every token it has upserted.
HoldsTokens(s) == Running(s) => \A k \in Keys : Upserts(work[s], ran[s], k) => holder[k] = s

\* token_id is a token upserted, and Null only as long as there is none.
KnowsToken(s) ==
    /\ token_id[s] # Null => Upserts(work[s], ran[s], token_id[s])
    /\ token_id[s] = Null => \A j \in 1 .. ran[s] : work[s][j].op # "token"

\* The rows of a token are requested after a token was.
AsksFirst(s) ==
    \A i \in DOMAIN route[s] :
        route[s][i] \in OfRows => HasToken(work[s]) \/ \E j \in 1 .. (i - 1) : route[s][j] = "pool"

\* What a historian keeps.
TokensFirst(s) == InsertsUnder(s) /\ HoldsTokens(s) /\ KnowsToken(s) /\ AsksFirst(s)

\* A loader inserts under tokens it found in the table.
TokensThere(s) ==
    /\ route[s] = <<>>
    /\ \A i \in DOMAIN work[s] : /\ work[s][i].op = "insert"
                                 /\ RowAt(s, i).token \in Keys
                                 /\ tokens[RowAt(s, i).token] # NoRow

EventsTyped(s) ==
    \A i \in DOMAIN work[s] : work[s][i].op = "token" => work[s][i].event \in Events

HeldDrafted == \A s \in Sessions, k \in Keys : holder[k] = s => draft[s][k] # NoRow

AskedInOrder ==
    \A s \in Sessions : /\ phase[s] = "idle" => asked[s] = 0
                        /\ phase[s] = "fetching" => asked[s] < 3

StoreInv == TypeOK /\ AskedInOrder /\ HeldDrafted

TokenInv ==
    /\ StoreInv
    /\ \A s \in Ingesters : EventsTyped(s)
    /\ \A s \in Historians : TokensFirst(s)
    /\ \A s \in Loaders : TokensThere(s)
    /\ \A r \in market : r.token \in Keys /\ tokens[r.token] # NoRow

-----------------------------------------------------------------------------
(* What a step does to the tokens *)

Writes(s) ==
    \E k \in Keys, row \in Rows :
        /\ holder[k] \in {s, Nobody}
        /\ holder' = [holder EXCEPT ![k] = s]
        /\ draft' = [draft EXCEPT ![s][k] = row]
        /\ tokens' = tokens

Releases(s) == Release(s) /\ (tokens' = tokens \/ tokens' = [k \in Keys |-> Visible(s, k)])

Touches(s) == UNCHANGED <<tokens, holder, draft>> \/ Writes(s) \/ Releases(s)

\* Whatever s does to its keys, no token vanishes and the others keep theirs.
LEMMA TouchKeeps ==
    ASSUME TypeOK, HeldDrafted, NEW s \in Sessions, Touches(s)
    PROVE  /\ HeldDrafted'
           /\ \A k \in Keys : tokens[k] # NoRow => tokens'[k] # NoRow
           /\ \A o \in Sessions \ {s}, k \in Keys : holder[k] = o => holder'[k] = o
<1>1. CASE UNCHANGED <<tokens, holder, draft>>
  BY <1>1 DEF HeldDrafted
<1>2. CASE Writes(s)
  <2>1. PICK k \in Keys, row \in Rows :
            /\ holder[k] \in {s, Nobody}
            /\ holder' = [holder EXCEPT ![k] = s]
            /\ draft' = [draft EXCEPT ![s][k] = row]
            /\ tokens' = tokens
    BY <1>2 DEF Writes
  <2>2. \A l \in Keys : holder'[l] = IF l = k THEN s ELSE holder[l]
    BY <2>1 DEF TypeOK
  <2>3. \A o \in Sessions, l \in Keys :
            draft'[o][l] = IF o = s /\ l = k THEN row ELSE draft[o][l]
    BY <2>1 DEF TypeOK
  <2> QED BY <2>1, <2>2, <2>3, NoRowAssumption, SessionsAssumption DEF HeldDrafted
<1>3. CASE Releases(s)
  <2>1. /\ \A l \in Keys : holder'[l] = IF holder[l] = s THEN Nobody ELSE holder[l]
        /\ \A o \in Sessions \ {s} : draft'[o] = draft[o]
    BY <1>3 DEF Releases, Release, TypeOK
  <2>2. \A l \in Keys : tokens[l] # NoRow => tokens'[l] # NoRow
    BY <1>3 DEF Releases, Visible, HeldDrafted
  <2> QED BY <2>1, <2>2, SessionsAssumption DEF HeldDrafted
<1> QED BY <1>1, <1>2, <1>3 DEF Touches

\* The cycle of a collector.
LEMMA CollectorTouches ==
    ASSUME StoreInv, NEW s \in Collectors, Collect(s) \/ RollBack(s)
    PROVE  StoreInv' /\ Touches(s)
<1> USE DEF StoreInv
<1>0. s \in Sessions
  BY DEF Collectors
<1>1. \/ StartCycle(s) \/ FeedAnswers(s) \/ Upsert(s) \/ SendCommit(s)
      \/ Commit(s) \/ Return(s) \/ RollBack(s) \/ Interrupt(s)
  BY DEF Collect, Fail
<1>2. TypeOK'
  BY <1>0, <1>1, ProcessTypes DEF AskedInOrder
<1>3. AskedInOrder'
  <2>1. \A o \in Sessions \ {s} : phase'[o] = phase[o] /\ asked'[o] = asked[o]
    BY <1>1 DEF TypeOK, StartCycle, FeedAnswers, Upsert, SendCommit, Commit, Return,
                RollBack, Interrupt, Forget
  <2>2. asked[s] \in 0 .. 3
    BY <1>0 DEF TypeOK
  <2>3. /\ phase'[s] = "idle" => asked'[s] = 0
        /\ phase'[s] = "fetching" => asked'[s] < 3
    BY <1>0, <1>1, <2>2 DEF TypeOK, AskedInOrder, StartCycle, FeedAnswers, Upsert, SendCommit,
                Commit, Return, RollBack, Interrupt, Forget, Phases
  <2> QED BY <2>1, <2>3 DEF AskedInOrder
<1>4. Touches(s)
  <2>1. CASE Upsert(s)
    <3>1. NextEvent(s) \in Events /\ NextEvent(s).key \in Keys
          /\ holder[NextEvent(s).key] \in {s, Nobody}
      BY <1>0, <2>1, NextEventType
    <3>2. Visible(s, NextEvent(s).key) \in Rows \cup {NoRow}
      BY <1>0, <3>1 DEF Visible, TypeOK
    <3>3. Merge(Visible(s, NextEvent(s).key), NextEvent(s)) \in Rows
      BY <3>1, <3>2, MergeType
    <3> QED BY <2>1, <3>1, <3>3 DEF Upsert, Touches, Writes
  <2>2. CASE Commit(s) \/ RollBack(s)
    BY <2>2 DEF Commit, RollBack, Touches, Releases
  <2>3. CASE ~Upsert(s) /\ ~Commit(s) /\ ~RollBack(s)
    BY <1>1, <2>3 DEF StartCycle, FeedAnswers, SendCommit, Return, Interrupt, Touches
  <2> QED BY <2>1, <2>2, <2>3
<1> QED BY <1>0, <1>2, <1>3, <1>4, TouchKeeps

\* A run's statements about tokens are those of a cycle.
LEMMA IngesterTouches ==
    ASSUME StoreInv, NEW t \in Ingesters, Typed(t), EventsTyped(t),
           \/ BeginHistory(t) \/ BeginLoad(t) \/ VenueAnswers(t)
           \/ RunStatement(t) \/ SendHistoryCommit(t) \/ CommitHistory(t)
           \/ EndHistory(t) \/ Abandon(t)
    PROVE  StoreInv' /\ Touches(t)
<1> USE DEF StoreInv
<1>0. t \in Sessions
  BY IngestersAssumption
<1>1. UNCHANGED <<phase, asked>>
  BY DEF BeginHistory, BeginLoad, VenueAnswers, RunStatement, UpsertToken, InsertRow, MeetRow,
         ReadRow, SendHistoryCommit, CommitHistory, EndHistory, Abandon, vars, collectVars
<1>2. CASE UpsertToken(t)
  <2> DEFINE e == Statement(t).event
  <2>1. ran[t] + 1 \in DOMAIN work[t]
    BY <1>2, ListHasPositions DEF UpsertToken, Due, Typed
  <2>2. e \in Events /\ e.key \in Keys
    BY <1>2, <2>1 DEF UpsertToken, Due, EventsTyped, Statement, Events
  <2>3. holder[e.key] \in {t, Nobody}
    BY <1>2, <2>2 DEF UpsertToken, Free, Waits, TypeOK
  <2>4. Visible(t, e.key) \in Rows \cup {NoRow}
    BY <1>0, <2>2 DEF Visible, TypeOK
  <2>5. Merge(Visible(t, e.key), e) \in Rows
    BY <2>2, <2>4, MergeType
  <2>6. /\ holder' = [holder EXCEPT ![e.key] = t]
        /\ draft' = [draft EXCEPT ![t][e.key] = Merge(Visible(t, e.key), e)]
        /\ UNCHANGED <<tokens, batch, done, accepted>>
    BY <1>2 DEF UpsertToken, collectVars
  <2> HIDE DEF e
  <2>7. TypeOK'
    BY <1>0, <1>1, <2>2, <2>5, <2>6 DEF TypeOK
  <2>8. Touches(t)
    BY <2>2, <2>3, <2>5, <2>6 DEF Touches, Writes
  <2> QED BY <1>0, <1>1, <2>7, <2>8, TouchKeeps DEF AskedInOrder
<1>3. CASE CommitHistory(t) \/ Abandon(t)
  <2>1. /\ Release(t) /\ UNCHANGED <<batch, done>>
        /\ tokens' = tokens \/ tokens' = [k \in Keys |-> Visible(t, k)]
        /\ accepted' = accepted \/ accepted' = accepted \cup TokenEvents(work[t])
    BY <1>3 DEF CommitHistory, Abandon, collectVars
  <2>2. TokenEvents(work[t]) \subseteq Events
    BY DEF TokenEvents, EventsTyped
  <2>3. \A k \in Keys : Visible(t, k) \in Rows \cup {NoRow}
    BY <1>0 DEF Visible, TypeOK
  <2>4. TypeOK'
    BY <1>0, <1>1, <2>1, <2>2, <2>3 DEF TypeOK, Release, NoDraft
  <2>5. Touches(t)
    BY <2>1 DEF Touches, Releases
  <2> QED BY <1>0, <1>1, <2>4, <2>5, TouchKeeps DEF AskedInOrder
<1>4. CASE ~UpsertToken(t) /\ ~CommitHistory(t) /\ ~Abandon(t)
  <2>1. UNCHANGED vars
    BY <1>4 DEF BeginHistory, BeginLoad, VenueAnswers, RunStatement, InsertRow, MeetRow,
                ReadRow, SendHistoryCommit, EndHistory
  <2>2. TypeOK'
    BY <2>1 DEF vars, TypeOK
  <2>3. Touches(t)
    BY <2>1 DEF vars, Touches
  <2> QED BY <1>0, <1>1, <2>2, <2>3, TouchKeeps DEF AskedInOrder
<1> QED BY <1>2, <1>3, <1>4

-----------------------------------------------------------------------------
(* The order of requests and statements *)

\* A run without a symbol requests candles after it has requested a pool.
LEMMA RouteStarts ==
    ASSUME NEW c \in Commands, c.symbol = Null,
           NEW i \in DOMAIN RouteOf(c), RouteOf(c)[i] \in OfRows
    PROVE  \E j \in 1 .. (i - 1) : RouteOf(c)[j] = "pool"
<1> DEFINE u == IF c.pageSize = Null THEN <<>> ELSE <<"pools">>
           v == IF c.pool THEN <<"pool", "ohlcv">> ELSE <<>>
<1>1. RouteOf(c) = u \o v
  <2>1. RouteOf(c) = <<>> \o u \o v
    BY DEF RouteOf
  <2>2. <<>> \o <<>> = <<>> /\ <<>> \o <<"pools">> = <<"pools">>
    OBVIOUS
  <2> QED BY <2>1, <2>2
<1>2. /\ IsList(u) /\ \A j \in 1 .. Len(u) : u[j] \notin OfRows
      /\ IsList(v) /\ \A j \in 1 .. Len(v) : v[j] \in OfRows => j = 2 /\ v[1] = "pool"
  <2>1. IsList(<<>>) /\ IsList(<<"pools">>) /\ IsList(<<"pool", "ohlcv">>)
    BY DEF IsList
  <2>2. \A j \in 1 .. Len(u) : u[j] \notin OfRows
    BY DEF OfRows
  <2>3. \A j \in 1 .. Len(v) : v[j] \in OfRows => j = 2 /\ v[1] = "pool"
    BY DEF OfRows
  <2> QED BY <2>1, <2>2, <2>3
<1> HIDE DEF u, v
<1>3. /\ Len(u) \in Nat /\ Len(v) \in Nat /\ i \in 1 .. Len(u \o v)
      /\ DOMAIN u = 1 .. Len(u) /\ DOMAIN v = 1 .. Len(v)
  BY <1>1, <1>2, ListHasPositions, ListsJoined
<1>4. i > Len(u) /\ i - Len(u) \in 1 .. Len(v) /\ RouteOf(c)[i] = v[i - Len(u)]
  BY <1>1, <1>2, <1>3, ListsJoined
<1>5. i = Len(u) + 2 /\ 1 \in 1 .. Len(v) /\ v[1] = "pool"
  BY <1>2, <1>3, <1>4
<1>6. RouteOf(c)[Len(u) + 1] = "pool"
  BY <1>1, <1>2, <1>5, ListsJoined
<1> QED BY <1>3, <1>5, <1>6

\* A pool's row comes next to its token.
LEMMA PoolOrder ==
    ASSUME NEW request \in {"pools", "pool"}, NEW list \in MarketAnswers[request], NEW source,
           NEW w, w = PoolStatements(list, source), NEW i \in DOMAIN w
    PROVE  /\ w[i].op = "token" => w[i].event \in Events
           /\ w[i].op = "insert" => /\ i - 1 \in DOMAIN w
                                    /\ w[i - 1].op = "token"
                                    /\ w[i - 1].event.key = w[i].row.token
<1> DEFINE Pool(j) == list[(j + 1) \div 2]
<1>1. Len(list) \in Nat /\ DOMAIN list = 1 .. Len(list) /\ DOMAIN w = 1 .. 2 * Len(list)
  BY MarketAnswersAssumption DEF Requests, PoolStatements
<1>2. i \in Nat /\ (i + 1) \div 2 \in DOMAIN list
  BY <1>1
<1>3. CASE i % 2 = 1
  <2>1. w[i] = TokenStatement(Pool(i).address, Pool(i).at, Pool(i).name)
    BY <1>1, <1>3 DEF PoolStatements
  <2>2. Pool(i).address \in Keys /\ Pool(i).at \in Times /\ Pool(i).name \in Symbols
    BY <1>2, MarketAnswersAssumption
  <2> QED BY <2>1, <2>2 DEF TokenStatement, Events
<1>4. CASE i % 2 # 1
  <2>1. i - 1 \in DOMAIN w /\ (i - 1) % 2 = 1 /\ (i - 1 + 1) \div 2 = (i + 1) \div 2
    BY <1>1, <1>2, <1>4
  <2>2. w[i - 1] = TokenStatement(Pool(i).address, Pool(i).at, Pool(i).name)
    BY <1>1, <2>1 DEF PoolStatements
  <2>3. w[i] = NoStatement \/ w[i] = Insert(SnapshotRow(Pool(i).address, Pool(i).at, source, Pool(i)))
    BY <1>1, <1>4 DEF PoolStatements
  <2> HIDE DEF Pool
  <2> QED BY <2>1, <2>2, <2>3 DEF NoStatement, Insert, SnapshotRow, TokenStatement
<1> QED BY <1>3, <1>4

\* The statements for candles and trades insert rows of the run's token.
LEMMA RowsOrder ==
    ASSUME NEW request \in OfRows, NEW list \in MarketAnswers[request], NEW k,
           NEW i \in DOMAIN StatementsFor(request, list, k)
    PROVE  LET w == StatementsFor(request, list, k)
           IN  w[i].op = "insert" /\ w[i].row.token = k
BY DEF OfRows, StatementsFor, Insert, KlineRow, OhlcvRow, SnapshotRow, TradeRow

-----------------------------------------------------------------------------
(* The steps of a historian *)

\* What a step leaves of a run whose statements and requests stay, when it
\* goes past a statement about no token.
LEMMA SameTokens ==
    ASSUME NEW t \in Ingesters, Typed(t), TokensFirst(t),
           work'[t] = work[t], route'[t] = route[t], token_id'[t] = token_id[t],
           \/ ran'[t] = ran[t]
           \/ /\ ran'[t] = ran[t] + 1 /\ ran[t] < Len(work[t])
              /\ work[t][ran[t] + 1].op # "token",
           Running(t)' => Running(t) /\ holder' = holder
    PROVE  TokensFirst(t)'
<1> USE DEF TokensFirst
<1>0. ran[t] \in Nat
  BY ListHasPositions DEF Typed
<1>1. \A n, k : Upserts(work'[t], n, k) <=> Upserts(work[t], n, k)
  BY DEF Upserts
<1>2. \A k : Upserts(work[t], ran'[t], k) <=> Upserts(work[t], ran[t], k)
  BY <1>0 DEF Upserts
<1>3. \A j \in 1 .. ran'[t] : j \in 1 .. ran[t] \/ work[t][j].op # "token"
  BY <1>0
<1>4. InsertsUnder(t)'
  BY <1>1 DEF InsertsUnder, RowAt
<1>5. HoldsTokens(t)'
  BY <1>1, <1>2 DEF HoldsTokens
<1>6. KnowsToken(t)'
  BY <1>1, <1>2, <1>3 DEF KnowsToken
<1>7. AsksFirst(t)'
  BY DEF AsksFirst, HasToken
<1> QED BY <1>4, <1>5, <1>6, <1>7

\* A run is left without statements and requests.
LEMMA NoTokens ==
    ASSUME NEW t \in Ingesters,
           work'[t] = <<>>, ran'[t] = 0, token_id'[t] = Null, route'[t] = <<>>
    PROVE  TokensFirst(t)' /\ EventsTyped(t)'
BY DEF TokensFirst, InsertsUnder, HoldsTokens, KnowsToken, AsksFirst, EventsTyped, Upserts

\* The first statement upserts the token of the symbol.
LEMMA BeginKeeps ==
    ASSUME NEW t \in Ingesters, RunInv, BeginHistory(t)
    PROVE  TokensFirst(t)' /\ EventsTyped(t)'
<1>1. /\ ran'[t] = 0 /\ token_id'[t] = Null
      /\ \A j \in 1 .. ran'[t] : FALSE
  <2>1. ran[t] = 0 /\ token_id[t] = Null
    BY FreshRun DEF RunInv, BeginHistory, Typed
  <2> QED BY <2>1 DEF BeginHistory
<1>2. PICK c \in Commands, now \in Times :
        /\ route'[t] = RouteOf(c)
        /\ work'[t] = IF c.symbol = Null THEN <<>>
                      ELSE <<TokenStatement(c.symbol, now, SpotName[c.symbol])>>
  BY DEF BeginHistory, RunInv, HistoryShape, OfIngesters
<1>3. \A i \in DOMAIN work'[t] : work'[t][i].op = "token" /\ work'[t][i].event \in Events
  <2>1. c.symbol # Null => c.symbol \in Keys /\ SpotName[c.symbol] \in Symbols
    BY CommandsAssumption
  <2>2. c.symbol # Null =>
          TokenStatement(c.symbol, now, SpotName[c.symbol]).event \in Events
    BY <2>1 DEF TokenStatement, Events
  <2> QED BY <1>2, <2>2 DEF TokenStatement
<1>4. AsksFirst(t)'
  <2>1. CASE c.symbol = Null
    BY <1>2, <2>1, RouteStarts DEF AsksFirst
  <2>2. CASE c.symbol # Null
    <3>1. 1 \in DOMAIN work'[t]
      BY <1>2, <2>2
    <3>2. HasToken(work'[t])
      BY <1>3, <3>1 DEF HasToken
    <3> QED BY <3>2 DEF AsksFirst
  <2> QED BY <2>1, <2>2
<1> QED BY <1>1, <1>3, <1>4
        DEF TokensFirst, InsertsUnder, HoldsTokens, KnowsToken, EventsTyped, Upserts

\* Rows of the run's token are answered after it was upserted, and a pool's
\* row comes with the pool's token.
LEMMA AnswerKeeps ==
    ASSUME NEW t \in Ingesters, RunInv, TokensFirst(t), EventsTyped(t), VenueAnswers(t)
    PROVE  TokensFirst(t)' /\ EventsTyped(t)'
<1> USE DEF TokensFirst
<1> DEFINE n == Len(work[t])
           request == Head(route[t])
<1>0. /\ Typed(t) /\ IsList(work[t]) /\ n \in Nat /\ DOMAIN work[t] = 1 .. n
      /\ ran[t] = n /\ ran'[t] = n /\ token_id'[t] = token_id[t] /\ holder' = holder
      /\ stage'[t] = stage[t]
      /\ route[t] \in Seq(Requests) /\ route[t] # <<>> /\ route'[t] = Tail(route[t])
  BY ListHasPositions
     DEF RunInv, HistoryShape, OfIngesters, Typed, VenueAnswers, Drained, vars
<1>1. request \in Requests /\ route[t][1] = request /\ 1 \in DOMAIN route[t]
  BY <1>0
<1>2. PICK list \in MarketAnswers[request] :
        work'[t] = work[t] \o StatementsFor(request, list, token_id[t])
  BY DEF VenueAnswers, RunInv, HistoryShape, OfIngesters
<1> DEFINE w == StatementsFor(request, list, token_id[t])
<1>3. IsList(w) /\ Len(w) \in Nat /\ DOMAIN w = 1 .. Len(w)
  BY <1>1, StatementsAreList, ListHasPositions
<1>4. request \in {"pools", "pool"} \/ request \in OfRows
  BY <1>1 DEF Requests, OfRows
<1>5. request \in {"pools", "pool"} => \E source : w = PoolStatements(list, source)
  BY DEF StatementsFor
<1>6. request \in OfRows => \A i \in DOMAIN w : w[i].op = "insert" /\ w[i].row.token = token_id[t]
  BY RowsOrder
<1>7. request = "pool" => 1 \in DOMAIN w /\ w[1].op = "token"
  <2>1. request = "pool" => w = PoolStatements(list, <<"geckoterminal", "pool">>) /\ Len(list) = 1
    BY MarketAnswersAssumption DEF StatementsFor
  <2> QED BY <2>1 DEF PoolStatements, TokenStatement
<1> HIDE DEF w, request
<1>8. /\ DOMAIN work'[t] = 1 .. n + Len(w)
      /\ \A i \in 1 .. n : work'[t][i] = work[t][i]
      /\ \A i \in 1 .. Len(w) : work'[t][n + i] = w[i]
      /\ \A i \in 1 .. n + Len(w) : i > n => i - n \in 1 .. Len(w) /\ work'[t][i] = w[i - n]
  <2>1. work'[t] = work[t] \o w
    BY <1>2 DEF w
  <2>2. IsList(work[t] \o w) /\ Len(work[t] \o w) = n + Len(w)
    BY <1>0, <1>3, ListsJoined
  <2>3. DOMAIN work'[t] = 1 .. n + Len(w)
    BY <2>1, <2>2, ListHasPositions
  <2>4. /\ \A i \in 1 .. n : (work[t] \o w)[i] = work[t][i]
        /\ \A i \in 1 .. Len(w) : (work[t] \o w)[n + i] = w[i]
        /\ \A i \in 1 .. n + Len(w) : i > n =>
              i - n \in 1 .. Len(w) /\ (work[t] \o w)[i] = w[i - n]
    BY <1>0, <1>3, <2>2, ListsJoined
  <2> QED BY <2>1, <2>3, <2>4
<1>a. n \in Nat /\ Len(w) \in Nat /\ DOMAIN work[t] = 1 .. n
  BY <1>0, <1>3
<1> HIDE DEF n
<1>9. ASSUME NEW m \in 0 .. n, NEW k
      PROVE  Upserts(work'[t], m, k) <=> Upserts(work[t], m, k)
  <2>1. \A j \in 1 .. m : work'[t][j] = work[t][j]
    BY <1>0, <1>8
  <2> QED BY <2>1 DEF Upserts
<1>10. EventsTyped(t)'
  <2> SUFFICES ASSUME NEW i \in DOMAIN work'[t], work'[t][i].op = "token"
               PROVE  work'[t][i].event \in Events
    BY DEF EventsTyped
  <2>1. CASE i <= n
    <3>1. i \in 1 .. n
      BY <1>a, <1>8, <2>1
    <3> QED BY <1>a, <1>8, <3>1 DEF EventsTyped
  <2>2. CASE i > n
    <3>1. i - n \in DOMAIN w /\ work'[t][i] = w[i - n]
      BY <1>3, <1>8, <2>2
    <3>2. request \in {"pools", "pool"}
      BY <1>4, <1>6, <3>1
    <3> QED BY <1>5, <3>1, <3>2, PoolOrder
  <2> QED BY <1>a, <1>8, <2>1, <2>2
<1>11. InsertsUnder(t)'
  <2> SUFFICES ASSUME NEW i \in DOMAIN work'[t], work'[t][i].op = "insert"
               PROVE  Upserts(work'[t], i - 1, work'[t][i].row.token)
    BY DEF InsertsUnder, RowAt
  <2>0. i \in 1 .. n + Len(w)
    BY <1>8
  <2>1. CASE i <= n
    <3>1. Upserts(work[t], i - 1, work[t][i].row.token) /\ work'[t][i] = work[t][i]
      BY <1>a, <1>8, <2>0, <2>1 DEF InsertsUnder, RowAt
    <3>2. i - 1 \in 0 .. n
      BY <1>a, <2>0, <2>1
    <3> QED BY <1>9, <3>1, <3>2
  <2>2. CASE i > n /\ request \in OfRows
    <3>0. i - n \in DOMAIN w /\ work'[t][i] = w[i - n]
      BY <1>3, <1>8, <2>0, <2>2
    <3>1. work'[t][i].row.token = token_id[t]
      BY <1>6, <2>2, <3>0
    <3>2. HasToken(work[t])
      BY <1>1, <2>2 DEF AsksFirst
    <3>3. Upserts(work[t], n, token_id[t])
      BY <1>0, <3>2 DEF HasToken, KnowsToken
    <3>4. Upserts(work'[t], n, token_id[t])
      BY <1>0, <1>9, <3>3
    <3>5. \A j \in 1 .. n : j \in 1 .. (i - 1)
      BY <1>a, <2>0, <2>2
    <3> QED BY <3>1, <3>4, <3>5 DEF Upserts
  <2>3. CASE i > n /\ request \in {"pools", "pool"}
    <3>1. i - n \in DOMAIN w /\ work'[t][i] = w[i - n]
      BY <1>3, <1>8, <2>0, <2>3
    <3>2. /\ i - n - 1 \in DOMAIN w
          /\ w[i - n - 1].op = "token"
          /\ w[i - n - 1].event.key = w[i - n].row.token
      BY <1>5, <2>3, <3>1, PoolOrder
    <3>3. i - n - 1 \in 1 .. Len(w)
      BY <1>3, <3>2
    <3>4. work'[t][n + (i - n - 1)] = w[i - n - 1]
      BY <1>8, <3>3
    <3>5. n + (i - n - 1) = i - 1 /\ i - 1 \in 1 .. (i - 1)
      <4>1. n \in Int /\ n >= 0 /\ i \in Int
        BY <1>a, <2>0
      <4>2. i - n - 1 >= 1
        BY <1>3, <3>3
      <4> QED BY <4>1, <4>2
    <3> QED BY <3>1, <3>2, <3>4, <3>5 DEF Upserts
  <2> QED BY <1>a, <1>4, <2>0, <2>1, <2>2, <2>3
<1>12. HoldsTokens(t)'
  BY <1>0, <1>9 DEF HoldsTokens, Running
<1>13. KnowsToken(t)'
  <2>1. \A j \in 1 .. n : work'[t][j] = work[t][j]
    BY <1>8
  <2>2. \A k : Upserts(work'[t], n, k) <=> Upserts(work[t], n, k)
    BY <2>1 DEF Upserts
  <2> QED BY <1>0, <2>1, <2>2 DEF KnowsToken
<1>14. AsksFirst(t)'
  <2> SUFFICES ASSUME NEW i \in DOMAIN route'[t], route'[t][i] \in OfRows
               PROVE  HasToken(work'[t]) \/ \E j \in 1 .. (i - 1) : route'[t][j] = "pool"
    BY DEF AsksFirst
  <2>1. HasToken(work[t]) => HasToken(work'[t])
    <3>1. \A j \in 1 .. n : j \in 1 .. n + Len(w)
      BY <1>a
    <3> QED BY <1>a, <1>8, <3>1 DEF HasToken
  <2>2. /\ i \in Nat /\ i + 1 \in DOMAIN route[t] /\ route'[t][i] = route[t][i + 1]
        /\ \A j \in 1 .. (i - 1) : route'[t][j] = route[t][j + 1]
    BY <1>0
  <2>3. CASE \E j \in 2 .. i : route[t][j] = "pool"
    <3>1. PICK j \in 2 .. i : route[t][j] = "pool"
      BY <2>3
    <3>2. j - 1 \in 1 .. (i - 1) /\ route'[t][j - 1] = "pool"
      BY <2>2, <3>1
    <3> QED BY <3>2
  <2>4. CASE route[t][1] = "pool"
    <3>0. 1 \in 1 .. Len(w) /\ w[1].op = "token"
      BY <1>1, <1>3, <1>7, <2>4
    <3>1. n + 1 \in DOMAIN work'[t] /\ work'[t][n + 1].op = "token"
      BY <1>a, <1>8, <3>0
    <3> QED BY <3>1 DEF HasToken
  <2>5. HasToken(work[t]) \/ \E j \in 1 .. i : route[t][j] = "pool"
    BY <2>2 DEF AsksFirst
  <2> QED BY <2>1, <2>2, <2>3, <2>4, <2>5
<1> QED BY <1>10, <1>11, <1>12, <1>13, <1>14

\* The upsert takes the token it writes about, and remembers it.
LEMMA UpsertKeeps ==
    ASSUME NEW t \in Ingesters, RunInv, StoreInv, TokensFirst(t), EventsTyped(t), UpsertToken(t)
    PROVE  TokensFirst(t)' /\ EventsTyped(t)'
<1> USE DEF TokensFirst
<1> DEFINE e == Statement(t).event
<1>0. /\ Typed(t) /\ ran[t] \in Nat /\ ran[t] < Len(work[t]) /\ DOMAIN work[t] = 1 .. Len(work[t])
      /\ work'[t] = work[t] /\ route'[t] = route[t] /\ token_id'[t] = e.key
      /\ stage[t] = "running" /\ ran'[t] = PastStatement(t)
      /\ Due(t, "token") /\ work[t][ran[t] + 1].op = "token" /\ work[t][ran[t] + 1].event = e
      /\ holder' = [holder EXCEPT ![e.key] = t]
  BY ListHasPositions
     DEF RunInv, HistoryShape, OfIngesters, Typed, UpsertToken, Due, Statement
<1> HIDE DEF e
<1>1. e \in Events /\ e.key \in Keys
  <2>1. ran[t] + 1 \in DOMAIN work[t]
    BY <1>0
  <2> QED BY <1>0, <2>1 DEF EventsTyped, Events
<1>2. \A l \in Keys : holder'[l] = IF l = e.key THEN t ELSE holder[l]
  BY <1>0, <1>1 DEF StoreInv, TypeOK
<1>3. ran'[t] = ran[t] + 1 \/ (ran'[t] = ran[t] + 2 /\ work[t][ran[t] + 2].op = "none")
  BY <1>0, PastToken
<1>4. \A n, k : Upserts(work'[t], n, k) <=> Upserts(work[t], n, k)
  BY <1>0 DEF Upserts
<1>5. \A k : Upserts(work[t], ran'[t], k) <=> k = e.key \/ Upserts(work[t], ran[t], k)
  <2>1. \A j \in 1 .. ran'[t] : j \in 1 .. ran[t] \/ j = ran[t] + 1 \/ work[t][j].op = "none"
    BY <1>0, <1>3
  <2>2. ran[t] + 1 \in 1 .. ran'[t] /\ \A j \in 1 .. ran[t] : j \in 1 .. ran'[t]
    BY <1>0, <1>3
  <2> QED BY <1>0, <2>1, <2>2 DEF Upserts
<1>6. InsertsUnder(t)'
  BY <1>0, <1>4 DEF InsertsUnder, RowAt
<1>7. HoldsTokens(t)'
  BY <1>0, <1>2, <1>4, <1>5 DEF HoldsTokens, Running
<1>8. KnowsToken(t)'
  BY <1>0, <1>1, <1>4, <1>5, CommandsAssumption DEF KnowsToken
<1>9. AsksFirst(t)' /\ EventsTyped(t)'
  BY <1>0 DEF AsksFirst, HasToken, EventsTyped
<1> QED BY <1>6, <1>7, <1>8, <1>9


\* The end of a run, and the steps that pass no token.
LEMMA OtherStepsKeep ==
    ASSUME NEW t \in Ingesters, RunInv, TokensFirst(t), EventsTyped(t),
           \/ InsertRow(t) \/ MeetRow(t) \/ ReadRow(t) \/ SendHistoryCommit(t)
           \/ CommitHistory(t) \/ EndHistory(t) \/ Abandon(t)
    PROVE  TokensFirst(t)' /\ EventsTyped(t)'
<1> USE DEF HistoryShape, OfIngesters, RunInv
<1>1. CASE EndHistory(t) \/ Abandon(t)
  <2>1. work'[t] = <<>> /\ ran'[t] = 0 /\ token_id'[t] = Null /\ route'[t] = <<>>
    BY <1>1 DEF EndHistory, Abandon, Dismiss
  <2> QED BY <2>1, NoTokens
<1>2. ASSUME work'[t] = work[t], route'[t] = route[t], token_id'[t] = token_id[t],
             \/ ran'[t] = ran[t]
             \/ /\ ran'[t] = ran[t] + 1 /\ ran[t] < Len(work[t])
                /\ work[t][ran[t] + 1].op # "token",
             Running(t)' => Running(t) /\ holder' = holder
      PROVE  TokensFirst(t)' /\ EventsTyped(t)'
  <2>1. TokensFirst(t)'
    BY <1>2, SameTokens
  <2> QED BY <1>2, <2>1 DEF EventsTyped
<1>3. CASE InsertRow(t)
  BY <1>2, <1>3 DEF InsertRow, Due, Running, vars
<1>4. CASE MeetRow(t)
  BY <1>2, <1>4 DEF MeetRow, Due, Running, vars
<1>5. CASE ReadRow(t)
  <2>1. ran[t] < Len(work[t]) /\ work[t][ran[t] + 1].op # "token"
    BY <1>5 DEF ReadRow, Typed, Statement
  <2> QED BY <1>2, <1>5, <2>1 DEF ReadRow, Running, vars
<1>6. CASE SendHistoryCommit(t)
  BY <1>2, <1>6 DEF SendHistoryCommit, Drained, Running, vars
<1>7. CASE CommitHistory(t)
  BY <1>2, <1>7 DEF CommitHistory, Running
<1> QED BY <1>1, <1>3, <1>4, <1>5, <1>6, <1>7

LEMMA HistorianKeeps ==
    ASSUME NEW t \in Historians, RunInv, StoreInv, TokensFirst(t), EventsTyped(t),
           \/ BeginHistory(t) \/ BeginLoad(t) \/ VenueAnswers(t)
           \/ RunStatement(t) \/ SendHistoryCommit(t) \/ CommitHistory(t)
           \/ EndHistory(t) \/ Abandon(t)
    PROVE  TokensFirst(t)' /\ EventsTyped(t)'
<1>1. t \in Ingesters /\ ~BeginLoad(t)
  BY IngestersAssumption DEF Ingesters, BeginLoad
<1> QED BY <1>1, BeginKeeps, AnswerKeeps, UpsertKeeps, OtherStepsKeep DEF RunStatement

-----------------------------------------------------------------------------
(* The steps of a loader *)

LEMMA LoaderKeeps ==
    ASSUME NEW t \in Loaders, RunInv, StoreInv, TokensThere(t), EventsTyped(t),
           \A k \in Keys : tokens[k] # NoRow => tokens'[k] # NoRow,
           \/ BeginHistory(t) \/ BeginLoad(t) \/ VenueAnswers(t)
           \/ RunStatement(t) \/ SendHistoryCommit(t) \/ CommitHistory(t)
           \/ EndHistory(t) \/ Abandon(t)
    PROVE  TokensThere(t)' /\ EventsTyped(t)'
<1> USE DEF HistoryShape, OfIngesters, RunInv
<1>0. t \in Ingesters /\ ~BeginHistory(t) /\ ~VenueAnswers(t)
  BY IngestersAssumption DEF Ingesters, BeginHistory, VenueAnswers, TokensThere
<1>1. CASE BeginLoad(t)
  <2>1. PICK k \in Keys, list \in Loads :
          /\ tokens[k] # NoRow
          /\ work'[t] = Inserts([i \in DOMAIN list |-> [list[i] EXCEPT !.token = k]])
    BY <1>0, <1>1 DEF BeginLoad
  <2>2. DOMAIN work'[t] = DOMAIN list
    BY <2>1 DEF Inserts
  <2>3. ASSUME NEW i \in DOMAIN list
        PROVE  work'[t][i].op = "insert" /\ RowAt(t, i)' = [list[i] EXCEPT !.token = k]
    BY <2>1 DEF Inserts, Insert, RowAt
  <2>4. ASSUME NEW i \in DOMAIN list
        PROVE  [list[i] EXCEPT !.token = k].token = k
    BY LoadsAssumption
  <2>5. route'[t] = <<>> /\ tokens' = tokens
    BY <1>0, <1>1 DEF BeginLoad, TokensThere, vars
  <2>6. \A i \in DOMAIN work'[t] : work'[t][i].op = "insert" /\ RowAt(t, i)'.token = k
    BY <2>2, <2>3, <2>4
  <2>7. TokensThere(t)'
    BY <2>1, <2>5, <2>6 DEF TokensThere
  <2> QED BY <2>6, <2>7 DEF EventsTyped
<1>2. CASE EndHistory(t) \/ Abandon(t)
  <2>1. work'[t] = <<>> /\ route'[t] = <<>>
    BY <1>0, <1>2 DEF EndHistory, Abandon, Dismiss
  <2> QED BY <2>1 DEF TokensThere, EventsTyped
<1>3. CASE RunStatement(t) \/ SendHistoryCommit(t) \/ CommitHistory(t)
  <2>1. work'[t] = work[t] /\ route'[t] = route[t]
    BY <1>0, <1>3
       DEF RunStatement, UpsertToken, InsertRow, MeetRow, ReadRow, SendHistoryCommit, CommitHistory
  <2> QED BY <2>1 DEF TokensThere, EventsTyped, RowAt
<1> QED BY <1>0, <1>1, <1>2, <1>3

-----------------------------------------------------------------------------
(* Rows under tokens *)

\* What a run has inserted belongs to a token that is in the table when the
\* run commits.
LEMMA InsertedUnder ==
    ASSUME NEW t \in Ingesters, RunInv, TokenInv, NEW r \in added[t]
    PROVE  /\ r.token \in Keys
           /\ Running(t)
           /\ t \in Historians => holder[r.token] = t
           /\ t \in Loaders => tokens[r.token] # NoRow
<1>1. Typed(t) /\ Taken(t) /\ ran[t] \in Nat /\ DOMAIN work[t] = 1 .. Len(work[t])
      /\ ran[t] <= Len(work[t]) /\ Len(work[t]) \in Nat
  BY ListHasPositions DEF RunInv, Typed
<1>2. PICK i \in 1 .. ran[t] : work[t][i].op = "insert" /\ r = RowAt(t, i)
  BY <1>1 DEF Taken, Own, Executed
<1>3. Running(t)
  BY <1>1, FreshRun DEF Typed, Running
<1>4. CASE t \in Historians
  <2>1. Upserts(work[t], i - 1, r.token)
    BY <1>1, <1>2, <1>4 DEF TokenInv, TokensFirst, InsertsUnder
  <2>2. Upserts(work[t], ran[t], r.token)
    BY <1>1, <1>2, <2>1 DEF Upserts
  <2>3. r.token \in Keys
    BY <1>1, <2>2 DEF TokenInv, EventsTyped, Upserts, Events
  <2>4. holder[r.token] = t
    BY <1>3, <1>4, <2>2, <2>3 DEF TokenInv, TokensFirst, HoldsTokens
  <2> QED BY <1>3, <1>4, <2>3, <2>4, IngestersAssumption
<1>5. CASE t \in Loaders
  <2>1. r.token \in Keys /\ tokens[r.token] # NoRow
    BY <1>1, <1>2, <1>5 DEF TokenInv, TokensThere
  <2> QED BY <1>3, <1>5, <2>1, IngestersAssumption
<1> QED BY <1>4, <1>5 DEF Ingesters

\* A step of an ingester keeps every row under its token.
LEMMA IngesterKeeps ==
    ASSUME NEW t \in Ingesters, RunInv, TokenInv,
           \/ BeginHistory(t) \/ BeginLoad(t) \/ VenueAnswers(t)
           \/ RunStatement(t) \/ SendHistoryCommit(t) \/ CommitHistory(t)
           \/ EndHistory(t) \/ Abandon(t)
    PROVE  TokenInv'
<1>0. t \in Sessions /\ Historians \subseteq Sessions /\ Historians \subseteq Ingesters
      /\ Loaders \subseteq Ingesters
  BY IngestersAssumption DEF Ingesters
<1>1. StoreInv /\ Typed(t) /\ EventsTyped(t)
  BY DEF RunInv, TokenInv
<1>2. StoreInv' /\ Touches(t)
  BY <1>1, IngesterTouches
<1>3. /\ \A k \in Keys : tokens[k] # NoRow => tokens'[k] # NoRow
      /\ \A o \in Sessions \ {t}, k \in Keys : holder[k] = o => holder'[k] = o
  BY <1>0, <1>1, <1>2, TouchKeeps DEF StoreInv
<1>4. OnlyMoves(t) /\ Effect(t)
  BY IngesterEffect DEF RunInv, Effect
<1>5. ASSUME NEW s \in Ingesters \ {t}
      PROVE  EventsTyped(s)' /\ (s \in Historians => TokensFirst(s)')
                             /\ (s \in Loaders => TokensThere(s)')
  <2>1. /\ stage'[s] = stage[s] /\ work'[s] = work[s] /\ ran'[s] = ran[s]
        /\ route'[s] = route[s] /\ token_id'[s] = token_id[s]
    BY <1>4 DEF OnlyMoves
  <2>2. EventsTyped(s)'
    BY <2>1 DEF TokenInv, EventsTyped
  <2>3. s \in Historians => TokensFirst(s)'
    BY <1>0, <1>3, <2>1 DEF TokenInv, TokensFirst, InsertsUnder, HoldsTokens, KnowsToken, AsksFirst,
                      RowAt, Running
  <2>4. s \in Loaders => TokensThere(s)'
    BY <1>3, <2>1 DEF TokenInv, TokensThere, RowAt
  <2> QED BY <2>2, <2>3, <2>4
<1>6. EventsTyped(t)' /\ (t \in Historians => TokensFirst(t)')
                      /\ (t \in Loaders => TokensThere(t)')
  <2>1. CASE t \in Historians
    <3>1. TokensFirst(t)
      BY <2>1 DEF TokenInv
    <3>2. TokensFirst(t)' /\ EventsTyped(t)'
      BY <1>1, <2>1, <3>1, HistorianKeeps
    <3> QED BY <2>1, <3>2, IngestersAssumption
  <2>2. CASE t \in Loaders
    <3>1. TokensThere(t)
      BY <2>2 DEF TokenInv
    <3>2. TokensThere(t)' /\ EventsTyped(t)'
      BY <1>1, <1>3, <2>2, <3>1, LoaderKeeps
    <3> QED BY <2>2, <3>2, IngestersAssumption
  <2> QED BY <2>1, <2>2 DEF Ingesters
<1>7. ASSUME NEW r \in market'
      PROVE  r.token \in Keys /\ tokens'[r.token] # NoRow
  <2>1. CASE r \in market
    BY <1>3, <2>1 DEF TokenInv
  <2>2. CASE r \notin market
    <3>1. CommitHistory(t) /\ r \in added[t]
      BY <2>2 DEF BeginHistory, BeginLoad, VenueAnswers, RunStatement, UpsertToken, InsertRow,
                  MeetRow, ReadRow, SendHistoryCommit, CommitHistory, EndHistory, Abandon
    <3>2. /\ r.token \in Keys
          /\ t \in Historians => holder[r.token] = t
          /\ t \in Loaders => tokens[r.token] # NoRow
      BY <3>1, InsertedUnder
    <3>3. CASE t \in Historians
      <4>1. holder[r.token] = t /\ draft[t][r.token] # NoRow
        BY <1>0, <1>1, <3>2, <3>3 DEF StoreInv, HeldDrafted
      <4>2. tokens'[r.token] = draft[t][r.token]
        BY <3>1, <3>2, <4>1 DEF CommitHistory, Visible
      <4> QED BY <3>2, <4>1, <4>2
    <3>4. CASE t \in Loaders
      BY <1>3, <3>2, <3>4
    <3> QED BY <3>3, <3>4 DEF Ingesters
  <2> QED BY <2>1, <2>2
<1>8. /\ \A s \in Ingesters : EventsTyped(s)'
      /\ \A s \in Historians : TokensFirst(s)'
      /\ \A s \in Loaders : TokensThere(s)'
  BY <1>0, <1>5, <1>6
<1> QED BY <1>2, <1>7, <1>8 DEF TokenInv


\* A step of a collector takes no key of an ingester, and no token away.
LEMMA CollectorKeeps ==
    ASSUME NEW s \in Collectors, TokenInv, Collect(s) \/ RollBack(s), UNCHANGED historyVars
    PROVE  TokenInv'
<1>0. /\ s \in Sessions /\ Ingesters \subseteq Sessions \ {s}
      /\ Historians \subseteq Ingesters /\ Loaders \subseteq Ingesters
  BY IngestersAssumption DEF Collectors, Ingesters
<1>1. StoreInv' /\ Touches(s)
  BY CollectorTouches DEF TokenInv
<1>2. /\ \A k \in Keys : tokens[k] # NoRow => tokens'[k] # NoRow
      /\ \A o \in Sessions \ {s}, k \in Keys : holder[k] = o => holder'[k] = o
  BY <1>0, <1>1, TouchKeeps DEF TokenInv, StoreInv
<1>3. ASSUME NEW o \in Historians PROVE TokensFirst(o)'
  BY <1>0, <1>2 DEF TokenInv, TokensFirst, InsertsUnder, HoldsTokens, KnowsToken, AsksFirst,
                    RowAt, Running, historyVars
<1>4. ASSUME NEW o \in Loaders PROVE TokensThere(o)'
  BY <1>0, <1>2 DEF TokenInv, TokensThere, RowAt, historyVars
<1>5. \A o \in Ingesters : EventsTyped(o)'
  BY DEF TokenInv, EventsTyped, historyVars
<1>6. \A r \in market' : r.token \in Keys /\ tokens'[r.token] # NoRow
  BY <1>2 DEF TokenInv, historyVars
<1> QED BY <1>1, <1>3, <1>4, <1>5, <1>6 DEF TokenInv

LEMMA TokenInvStep ==
    ASSUME RunInv, TokenInv, [HistoryNext]_systemVars
    PROVE  TokenInv'
<1>1. CASE UNCHANGED systemVars
  <2>1. StoreInv'
    BY <1>1 DEF systemVars, vars, TokenInv, StoreInv, TypeOK, AskedInOrder, HeldDrafted
  <2>2. \A s \in Ingesters : EventsTyped(s)'
    BY <1>1 DEF systemVars, historyVars, TokenInv, EventsTyped
  <2>3. \A s \in Historians : TokensFirst(s)'
    BY <1>1 DEF systemVars, vars, historyVars, TokenInv, TokensFirst, InsertsUnder, HoldsTokens,
                KnowsToken, AsksFirst, RowAt, Running
  <2>4. \A s \in Loaders : TokensThere(s)'
    BY <1>1 DEF systemVars, vars, historyVars, TokenInv, TokensThere, RowAt
  <2>5. \A r \in market' : r.token \in Keys /\ tokens'[r.token] # NoRow
    BY <1>1 DEF systemVars, vars, historyVars, TokenInv
  <2> QED BY <2>1, <2>2, <2>3, <2>4, <2>5 DEF TokenInv
<1>2. ASSUME NEW s \in Collectors, Collect(s) PROVE TokenInv'
  BY <1>2, CollectorKeeps DEF Collect
<1>3. ASSUME NEW s \in Sessions, BreakCycle(s)
      PROVE  TokenInv'
  <2>1. CASE s \in Ingesters
    BY <1>3, <2>1, IngesterKeeps DEF BreakCycle
  <2>2. CASE s \notin Ingesters
    <3>1. s \in Collectors /\ RollBack(s) /\ UNCHANGED historyVars
      BY <1>3, <2>2 DEF BreakCycle, Collectors
    <3> QED BY <3>1, CollectorKeeps
  <2> QED BY <2>1, <2>2
<1>4. ASSUME NEW t \in Ingesters,
             \/ BeginHistory(t) \/ BeginLoad(t) \/ VenueAnswers(t)
             \/ RunStatement(t) \/ SendHistoryCommit(t) \/ CommitHistory(t)
             \/ EndHistory(t) \/ Abandon(t)
      PROVE  TokenInv'
  BY <1>4, IngesterKeeps
<1> QED BY <1>1, <1>2, <1>3, <1>4 DEF HistoryNext, FailHistory

LEMMA TokenInvInit == HistoryInit => TokenInv
<1> SUFFICES ASSUME HistoryInit PROVE TokenInv
  OBVIOUS
<1>1. StoreInv
  BY SessionsAssumption
     DEF HistoryInit, Init, StoreInv, TypeOK, AskedInOrder, HeldDrafted, NoDraft, Phases
<1>2. ASSUME NEW s \in Ingesters
      PROVE  work[s] = <<>> /\ ran[s] = 0 /\ token_id[s] = Null /\ route[s] = <<>>
  BY DEF HistoryInit
<1>3. ASSUME NEW s \in Ingesters PROVE EventsTyped(s) /\ TokensFirst(s) /\ TokensThere(s)
  BY <1>2 DEF TokensFirst, InsertsUnder, HoldsTokens, KnowsToken, AsksFirst, EventsTyped,
              TokensThere, Upserts
<1> QED BY <1>1, <1>3 DEF HistoryInit, TokenInv, Ingesters

\* Rows of one key are rows of one token.
LEMMA KeyOfToken ==
    ASSUME NEW x, NEW y, KeyOf(x) = KeyOf(y)
    PROVE  x.token = y.token
<1>1. \A r : KeyOf(r)[2] = r.token
  BY DEF KeyOf
<1> QED BY <1>1

\* In every reachable state a historian holds the tokens of all it has
\* written since its transaction began, so that historians wait for each
\* other at tokens alone, and no committed row is without its token.
THEOREM MarketUnderTokens == HistorySpec => []MarketUnderToken
<1>1. RunInv /\ TokenInv => MarketUnderToken
  <2> SUFFICES ASSUME RunInv, TokenInv PROVE MarketUnderToken
    OBVIOUS
  <2>0. Historians \subseteq Ingesters /\ Historians \cap Collectors = {}
    BY DEF Ingesters, Collectors
  <2>1. ASSUME NEW s \in Historians, NEW r \in added[s] PROVE holder[r.token] = s
    BY <2>0, InsertedUnder
  <2>2. ASSUME NEW s \in Historians, token_id[s] # Null, stage[s] # "committed"
        PROVE  holder[token_id[s]] = s
    <3>1. Typed(s) /\ DOMAIN work[s] = 1 .. Len(work[s]) /\ ran[s] \in 0 .. Len(work[s])
          /\ Len(work[s]) \in Nat
      BY <2>0, ListHasPositions DEF RunInv, Typed
    <3>2. Running(s)
      BY <2>2, <3>1 DEF Typed, Running
    <3>3. Upserts(work[s], ran[s], token_id[s])
      BY <2>2 DEF TokenInv, TokensFirst, KnowsToken
    <3>4. token_id[s] \in Keys
      BY <2>0, <3>1, <3>3 DEF Upserts, TokenInv, EventsTyped, Events
    <3> QED BY <3>2, <3>3, <3>4 DEF TokenInv, TokensFirst, HoldsTokens
  <2>3. ASSUME NEW s \in Historians, NEW o \in Historians, Waits(s, o)
        PROVE  Due(s, "token")
    <3> SUFFICES ASSUME o # s, Due(s, "insert"), Wrote(o, Statement(s).row)
                 PROVE  FALSE
      BY <2>0, <2>3 DEF Waits
    <3>1. PICK x \in added[o] : KeyOf(x) = KeyOf(Statement(s).row)
      BY DEF Wrote
    <3>2. x.token = Statement(s).row.token /\ x.token \in Keys /\ holder[x.token] = o
      BY <2>0, <3>1, InsertedUnder, KeyOfToken
    <3>3. Typed(s) /\ DOMAIN work[s] = 1 .. Len(work[s]) /\ ran[s] \in Nat
          /\ Len(work[s]) \in Nat
      BY <2>0, ListHasPositions DEF RunInv, Typed
    <3>4. ran[s] + 1 \in DOMAIN work[s] /\ work[s][ran[s] + 1].op = "insert"
          /\ RowAt(s, ran[s] + 1).token = x.token
      BY <3>2, <3>3 DEF Due, Statement, RowAt
    <3>5. Upserts(work[s], ran[s], x.token)
      <4>1. PICK i \in DOMAIN work[s] :
                i = ran[s] + 1 /\ work[s][i].op = "insert" /\ RowAt(s, i).token = x.token
        BY <3>4
      <4>2. Upserts(work[s], i - 1, x.token)
        BY <4>1 DEF TokenInv, TokensFirst, InsertsUnder
      <4>3. i - 1 = ran[s]
        BY <3>3, <4>1
      <4> QED BY <4>2, <4>3
    <3>6. holder[x.token] = s
      BY <3>2, <3>5 DEF TokenInv, TokensFirst, HoldsTokens, Running, Due
    <3> QED BY <3>2, <3>6
  <2>4. \A r \in market : tokens[r.token] # NoRow
    BY DEF TokenInv
  <2> QED BY <2>1, <2>2, <2>3, <2>4 DEF MarketUnderToken
<1> QED BY <1>1, RunInvariant, TokenInvInit, TokenInvStep, PTL DEF HistorySpec


-----------------------------------------------------------------------------
(* When tokens were first seen: runs and cycles on one table *)

\* The events the open transaction of s has upserted.
Pending(s) ==
    IF s \in Ingesters
    THEN {work[s][i].event : i \in {j \in 1 .. ran[s] : Running(s) /\ work[s][j].op = "token"}}
    ELSE {batch[s][i] : i \in {j \in 1 .. done[s] : phase[s] \in {"writing", "committing"}}}

PendingHeld(s) == Pending(s) \subseteq Events /\ \A e \in Pending(s) : holder[e.key] = s

\* DraftAccounts, for cycles and runs.
DraftTells(s, k) ==
    holder[k] = s =>
        /\ Accounts(draft[s][k], accepted \cup Pending(s), k)
        /\ (tokens[k] # NoRow /\ tokens[k].created # Null) =>
              draft[s][k].created = tokens[k].created

SightInv ==
    /\ FirstSeenIsEarliest
    /\ \A s \in Sessions : PendingHeld(s)
    /\ \A s \in Sessions, k \in Keys : DraftTells(s, k)

\* What a step may do: nothing, one upsert, a commit, or the end of a
\* transaction without one.
Rests(s) == UNCHANGED <<tokens, holder, draft, accepted>> /\ Pending(s)' = Pending(s)

Reports(s, e) ==
    /\ holder[e.key] \in {s, Nobody}
    /\ holder' = [holder EXCEPT ![e.key] = s]
    /\ draft' = [draft EXCEPT ![s][e.key] = Merge(Visible(s, e.key), e)]
    /\ UNCHANGED <<tokens, accepted>>
    /\ Pending(s)' = Pending(s) \cup {e}

Lands(s) ==
    /\ Release(s)
    /\ tokens' = [k \in Keys |-> Visible(s, k)]
    /\ accepted' = accepted \cup Pending(s)
    /\ Pending(s)' = {}

Drops(s) == Release(s) /\ UNCHANGED <<tokens, accepted>> /\ Pending(s)' = {}

Deed(s) ==
    /\ \A o \in Sessions \ {s} : Pending(o)' = Pending(o)
    /\ \/ Rests(s) \/ Lands(s) \/ Drops(s)
       \/ \E e \in Events : Reports(s, e)

\* An upsert on a key that is free, or held already.
LEMMA ReportKeeps ==
    ASSUME TypeOK, SightInv, NEW s \in Sessions, NEW e \in Events, Reports(s, e),
           \A o \in Sessions \ {s} : Pending(o)' = Pending(o)
    PROVE  SightInv'
<1>0. /\ e.key \in Keys /\ UNCHANGED <<tokens, accepted>>
      /\ Pending(s)' = Pending(s) \cup {e}
      /\ \A k \in Keys : holder'[k] = IF k = e.key THEN s ELSE holder[k]
      /\ \A o \in Sessions, k \in Keys :
            draft'[o][k] = IF o = s /\ k = e.key THEN Merge(Visible(s, k), e) ELSE draft[o][k]
  BY DEF Reports, TypeOK, Events
<1>1. FirstSeenIsEarliest'
  BY <1>0 DEF SightInv, FirstSeenIsEarliest
<1>2. ASSUME NEW o \in Sessions PROVE PendingHeld(o)'
  <2>1. \A x \in Pending(o) : x \in Events /\ x.key \in Keys /\ holder[x.key] = o
    BY DEF SightInv, PendingHeld, Events
  <2>2. CASE o = s
    BY <1>0, <2>1, <2>2 DEF PendingHeld
  <2>3. CASE o # s
    <3>1. holder[e.key] # o
      BY <2>3, SessionsAssumption DEF Reports
    <3>2. \A x \in Pending(o) : holder'[x.key] = o
      BY <1>0, <2>1, <3>1
    <3> QED BY <2>1, <2>3, <3>2 DEF PendingHeld
  <2> QED BY <2>2, <2>3
<1>3. ASSUME NEW o \in Sessions, NEW k \in Keys, holder'[k] = o
      PROVE  DraftTells(o, k)'
  <2>1. CASE o # s
    <3>1. k # e.key /\ holder[k] = o /\ draft'[o][k] = draft[o][k] /\ Pending(o)' = Pending(o)
      BY <1>0, <1>3, <2>1
    <3>2. DraftTells(o, k)
      BY DEF SightInv
    <3> QED BY <1>0, <3>1, <3>2 DEF DraftTells
  <2>2. CASE o = s /\ k # e.key
    <3>1. holder[k] = s /\ draft'[s][k] = draft[s][k] /\ DraftTells(s, k)
      BY <1>0, <1>3, <2>2 DEF SightInv
    <3>2. \A x : x.key = k =>
              (x \in accepted \cup Pending(s) <=> x \in accepted \cup (Pending(s) \cup {e}))
      BY <2>2
    <3>3. Accounts(draft[s][k], accepted \cup (Pending(s) \cup {e}), k)
      BY <3>1, <3>2, AccountsLocal DEF DraftTells
    <3> QED BY <1>0, <2>2, <3>1, <3>3 DEF DraftTells
  <2>3. CASE o = s /\ k = e.key
    <3>0. /\ Visible(s, k) \in Rows \cup {NoRow}
          /\ accepted \cup Pending(s) \in SUBSET Events
          /\ Accounts(tokens[k], accepted, k) /\ DraftTells(s, k)
      BY DEF Visible, TypeOK, SightInv, PendingHeld, FirstSeenIsEarliest
    <3>1. /\ Accounts(Visible(s, k), accepted \cup Pending(s), k)
          /\ (tokens[k] # NoRow /\ tokens[k].created # Null) =>
                Visible(s, k) # NoRow /\ Visible(s, k).created = tokens[k].created
      <4>1. CASE holder[k] = s
        <5>1. Visible(s, k) = draft[s][k] /\ Accounts(draft[s][k], accepted \cup Pending(s), k)
          BY <3>0, <4>1 DEF Visible, DraftTells
        <5>2. tokens[k] # NoRow => draft[s][k] # NoRow
          BY <3>0, <5>1 DEF Accounts
        <5> QED BY <3>0, <4>1, <5>1, <5>2 DEF DraftTells
      <4>2. CASE holder[k] = Nobody
        <5>1. Visible(s, k) = tokens[k]
          BY <4>2, SessionsAssumption DEF Visible
        <5>2. \A x : x.key = k => (x \in accepted <=> x \in accepted \cup Pending(s))
          BY <4>2, SessionsAssumption DEF SightInv, PendingHeld
        <5>3. Accounts(tokens[k], accepted \cup Pending(s), k)
          BY <3>0, <5>2, AccountsLocal
        <5> QED BY <5>1, <5>3
      <4> QED BY <2>3, <4>1, <4>2 DEF Reports
    <3>2. Accounts(Merge(Visible(s, k), e), (accepted \cup Pending(s)) \cup {e}, k)
      BY <2>3, <3>0, <3>1, MergeAccounts
    <3>3. (tokens[k] # NoRow /\ tokens[k].created # Null) =>
             Merge(Visible(s, k), e).created = tokens[k].created
      BY <3>1 DEF Merge, Coalesce
    <3>4. /\ draft'[s][k] = Merge(Visible(s, k), e)
          /\ accepted' \cup Pending(s)' = (accepted \cup Pending(s)) \cup {e}
      BY <1>0, <2>3
    <3> QED BY <1>0, <2>3, <3>2, <3>3, <3>4 DEF DraftTells
  <2> QED BY <2>1, <2>2, <2>3
<1>4. \A o \in Sessions, k \in Keys : DraftTells(o, k)'
  BY <1>3 DEF DraftTells
<1> QED BY <1>1, <1>2, <1>4 DEF SightInv

\* The end of a transaction, with or without a commit, and other steps.
LEMMA DeedKeeps ==
    ASSUME TypeOK, SightInv, NEW s \in Sessions, Deed(s)
    PROVE  /\ SightInv'
           /\ \A k \in Keys : tokens[k] # NoRow =>
                 /\ tokens'[k] # NoRow
                 /\ tokens'[k].first <= tokens[k].first
                 /\ tokens[k].created # Null => tokens'[k].created = tokens[k].created
<1>0. /\ \A k \in Keys : Accounts(tokens[k], accepted, k)
      /\ \A o \in Sessions, k \in Keys : DraftTells(o, k)
      /\ \A o \in Sessions : PendingHeld(o)
  BY DEF SightInv, FirstSeenIsEarliest
<1>1. ASSUME tokens' = tokens, NEW k \in Keys, tokens[k] # NoRow
      PROVE  /\ tokens'[k] # NoRow
             /\ tokens'[k].first <= tokens[k].first
             /\ tokens[k].created # Null => tokens'[k].created = tokens[k].created
  <2>1. tokens[k] \in Rows
    BY <1>1 DEF TypeOK
  <2>2. tokens[k].first \in Nat
    BY <2>1, TimesAssumption DEF Rows
  <2> QED BY <1>1, <2>2
<1>2. CASE Rests(s)
  <2>1. \A o \in Sessions : Pending(o)' = Pending(o)
    BY <1>2 DEF Deed, Rests
  <2>2. UNCHANGED <<tokens, holder, draft, accepted>>
    BY <1>2 DEF Rests
  <2>3. SightInv'
    BY <1>0, <2>1, <2>2 DEF SightInv, FirstSeenIsEarliest, PendingHeld, DraftTells
  <2> QED BY <1>1, <2>2, <2>3
<1>3. ASSUME NEW e \in Events, Reports(s, e)
      PROVE  SightInv' /\ tokens' = tokens
  BY <1>3, ReportKeeps DEF Deed, Reports
<1>4. ASSUME Release(s), Pending(s)' = {},
             \A k \in Keys : holder[k] # s => tokens'[k] = tokens[k],
             accepted' = accepted \/ accepted' = accepted \cup Pending(s),
             FirstSeenIsEarliest',
             \A o \in Sessions \ {s} : Pending(o)' = Pending(o)
      PROVE  SightInv'
  <2>1. /\ \A k \in Keys : holder'[k] = IF holder[k] = s THEN Nobody ELSE holder[k]
        /\ \A o \in Sessions \ {s} : draft'[o] = draft[o]
    BY <1>4 DEF Release, TypeOK
  <2>2. ASSUME NEW o \in Sessions PROVE PendingHeld(o)'
    <3>1. \A x \in Pending(o) : x \in Events /\ x.key \in Keys /\ holder[x.key] = o
      BY <1>0 DEF PendingHeld, Events
    <3>2. CASE o = s
      BY <1>4, <3>2 DEF PendingHeld
    <3>3. CASE o # s
      BY <1>4, <2>1, <3>1, <3>3 DEF PendingHeld
    <3> QED BY <3>2, <3>3
  <2>3. ASSUME NEW o \in Sessions, NEW k \in Keys, holder'[k] = o
        PROVE  DraftTells(o, k)'
    <3>1. o # s /\ holder[k] = o /\ draft'[o][k] = draft[o][k] /\ tokens'[k] = tokens[k]
          /\ Pending(o)' = Pending(o)
      BY <1>4, <2>1, <2>3, SessionsAssumption
    <3>2. \A x : x.key = k => (x \in accepted \cup Pending(o) <=> x \in accepted' \cup Pending(o))
      <4>1. \A x \in Pending(s) : x.key # k
        BY <1>0, <3>1 DEF PendingHeld
      <4> QED BY <1>4, <4>1
    <3>3. Accounts(draft[o][k], accepted' \cup Pending(o), k)
      BY <1>0, <3>1, <3>2, AccountsLocal DEF DraftTells
    <3> QED BY <1>0, <3>1, <3>3 DEF DraftTells
  <2>4. \A o \in Sessions, k \in Keys : DraftTells(o, k)'
    BY <2>3 DEF DraftTells
  <2> QED BY <1>4, <2>2, <2>4 DEF SightInv
<1>5. CASE Drops(s)
  <2>1. FirstSeenIsEarliest'
    BY <1>0, <1>5 DEF Drops, FirstSeenIsEarliest
  <2>2. SightInv'
    BY <1>4, <1>5, <2>1 DEF Drops, Deed
  <2> QED BY <1>1, <1>5, <2>2 DEF Drops
<1>6. CASE Lands(s)
  <2>1. \A k \in Keys : tokens'[k] = IF holder[k] = s THEN draft[s][k] ELSE tokens[k]
    BY <1>6 DEF Lands, Visible
  <2>2. accepted' = accepted \cup Pending(s)
    BY <1>6 DEF Lands
  <2>3. ASSUME NEW k \in Keys PROVE Accounts(tokens'[k], accepted', k)
    <3>1. CASE holder[k] = s
      BY <1>0, <2>1, <2>2, <3>1 DEF DraftTells
    <3>2. CASE holder[k] # s
      <4>1. \A x : x.key = k => (x \in accepted <=> x \in accepted \cup Pending(s))
        BY <1>0, <3>2 DEF PendingHeld
      <4>2. Accounts(tokens[k], accepted \cup Pending(s), k)
        BY <1>0, <4>1, AccountsLocal
      <4> QED BY <2>1, <2>2, <3>2, <4>2
    <3> QED BY <3>1, <3>2
  <2>4. FirstSeenIsEarliest'
    BY <2>3 DEF FirstSeenIsEarliest
  <2>5. SightInv'
    BY <1>4, <1>6, <2>1, <2>4 DEF Lands, Deed
  <2>6. ASSUME NEW k \in Keys, tokens[k] # NoRow
        PROVE  /\ tokens'[k] # NoRow
               /\ tokens'[k].first <= tokens[k].first
               /\ tokens[k].created # Null => tokens'[k].created = tokens[k].created
    <3>1. /\ Accounts(tokens[k], accepted, k)
          /\ Accounts(tokens'[k], accepted \cup Pending(s), k)
      BY <1>0, <2>2, <2>3
    <3>2. tokens'[k] # NoRow /\ tokens'[k].first <= tokens[k].first
      BY <2>6, <3>1 DEF Accounts
    <3>3. tokens[k].created # Null => tokens'[k].created = tokens[k].created
      BY <1>0, <2>1, <2>6 DEF DraftTells
    <3> QED BY <3>2, <3>3
  <2> QED BY <2>5, <2>6
<1> QED BY <1>1, <1>2, <1>3, <1>5, <1>6 DEF Deed

\* What a collector has upserted, by where its cycle is.
WritesInOrder(s) ==
    /\ done[s] <= Len(batch[s])
    /\ phase[s] \in {"idle", "fetching", "stopped"} => done[s] = 0
    /\ phase[s] = "committing" => done[s] = Len(batch[s])

LEMMA CollectorDeed ==
    ASSUME StoreInv, NEW s \in Collectors, WritesInOrder(s), UNCHANGED historyVars,
           Collect(s) \/ RollBack(s)
    PROVE  /\ Deed(s) /\ WritesInOrder(s)'
           /\ \A o \in Collectors \ {s} : WritesInOrder(o) => WritesInOrder(o)'
<1> USE DEF StoreInv
<1>0. s \in Sessions /\ s \notin Ingesters /\ Collectors \subseteq Sessions
  BY DEF Collectors
<1>1. \/ StartCycle(s) \/ FeedAnswers(s) \/ Upsert(s) \/ SendCommit(s)
      \/ Commit(s) \/ Return(s) \/ RollBack(s) \/ Interrupt(s)
  BY DEF Collect, Fail
<1>2. \A o \in Sessions \ {s} : phase'[o] = phase[o] /\ batch'[o] = batch[o] /\ done'[o] = done[o]
  BY <1>1 DEF TypeOK, StartCycle, FeedAnswers, Upsert, SendCommit, Commit, Return,
              RollBack, Interrupt, Forget
<1>3. \A o \in Sessions \ {s} : Pending(o)' = Pending(o)
  BY <1>2 DEF Pending, Running, historyVars
<1>4. \A o \in Collectors \ {s} : WritesInOrder(o) => WritesInOrder(o)'
  BY <1>0, <1>2 DEF WritesInOrder
<1>5. /\ phase[s] \in Phases /\ batch[s] \in Seq(Events) /\ done[s] \in Nat /\ Len(batch[s]) \in Nat
      /\ Pending(s) = IF phase[s] \in {"writing", "committing"} THEN Written(s) ELSE {}
      /\ Pending(s)' = IF phase'[s] \in {"writing", "committing"} THEN Written(s)' ELSE {}
  BY <1>0 DEF TypeOK, Pending, Written
<1>a. ASSUME UNCHANGED <<tokens, holder, draft, accepted>>, Pending(s)' = Pending(s)
      PROVE  Deed(s)
  BY <1>3, <1>a DEF Deed, Rests
<1>6. CASE StartCycle(s)
  <2>1. /\ phase[s] = "idle" /\ phase'[s] = "fetching" /\ done' = done /\ batch' = batch
        /\ UNCHANGED <<tokens, holder, draft, accepted>>
    BY <1>0, <1>6 DEF StartCycle, TypeOK
  <2>2. Pending(s)' = Pending(s)
    BY <1>5, <2>1
  <2>3. WritesInOrder(s)'
    BY <2>1 DEF WritesInOrder
  <2> QED BY <1>4, <1>a, <2>1, <2>2, <2>3
<1>7. CASE FeedAnswers(s)
  <2>1. /\ phase[s] = "fetching" /\ phase'[s] \in {"fetching", "writing"} /\ done' = done
        /\ UNCHANGED <<tokens, holder, draft, accepted>> /\ done[s] = 0
    BY <1>0, <1>7 DEF FeedAnswers, TypeOK, WritesInOrder
  <2>2. Written(s)' = {}
    BY <2>1 DEF Written
  <2>3. batch'[s] \in Seq(Events)
    <3>1. TypeOK'
      BY <1>0, <1>7, ProcessTypes DEF AskedInOrder
    <3> QED BY <1>0, <3>1 DEF TypeOK
  <2>4. WritesInOrder(s)'
    BY <2>1, <2>3 DEF WritesInOrder
  <2> QED BY <1>4, <1>5, <1>a, <2>1, <2>2, <2>4
<1>8. CASE Upsert(s)
  <2> DEFINE e == NextEvent(s)
  <2>1. /\ e \in Events /\ holder[e.key] \in {s, Nobody}
        /\ e = batch[s][done[s] + 1]
        /\ holder' = [holder EXCEPT ![e.key] = s]
        /\ draft' = [draft EXCEPT ![s][e.key] = Merge(Visible(s, e.key), e)]
        /\ UNCHANGED <<tokens, accepted>>
        /\ phase' = phase /\ batch' = batch /\ done'[s] = done[s] + 1
        /\ phase[s] = "writing" /\ done[s] < Len(batch[s])
    BY <1>0, <1>8, NextEventType DEF Upsert, HasNext, NextEvent, TypeOK
  <2> HIDE DEF e
  <2>2. 1 .. done'[s] = (1 .. done[s]) \cup {done[s] + 1}
    BY <1>5, <2>1
  <2>3. Written(s)' = Written(s) \cup {e}
    BY <2>1, <2>2 DEF Written
  <2>4. Pending(s)' = Pending(s) \cup {e}
    BY <1>5, <2>1, <2>3
  <2>5. Reports(s, e)
    BY <2>1, <2>4 DEF Reports
  <2>6. WritesInOrder(s)'
    BY <1>5, <2>1 DEF WritesInOrder
  <2> QED BY <1>3, <1>4, <2>1, <2>5, <2>6 DEF Deed
<1>9. CASE SendCommit(s)
  <2>1. /\ phase[s] = "writing" /\ phase'[s] = "committing" /\ done' = done /\ batch' = batch
        /\ UNCHANGED <<tokens, holder, draft, accepted>> /\ done[s] = Len(batch[s])
    BY <1>0, <1>9 DEF SendCommit, TypeOK
  <2>2. Written(s)' = Written(s)
    BY <2>1 DEF Written
  <2>3. WritesInOrder(s)'
    BY <1>5, <2>1 DEF WritesInOrder
  <2> QED BY <1>4, <1>5, <1>a, <2>1, <2>2, <2>3
<1>10. CASE Commit(s)
  <2>1. /\ phase[s] = "committing" /\ phase'[s] = "committed" /\ done' = done /\ batch' = batch
        /\ Release(s) /\ tokens' = [k \in Keys |-> Visible(s, k)]
        /\ accepted' = accepted \cup EventsOf(batch[s])
    BY <1>0, <1>10 DEF Commit, TypeOK
  <2>2. EventsOf(batch[s]) = Pending(s)
    BY <1>5, <2>1 DEF EventsOf, Written, WritesInOrder
  <2>3. Lands(s)
    BY <1>5, <2>1, <2>2 DEF Lands
  <2>4. WritesInOrder(s)'
    BY <2>1 DEF WritesInOrder
  <2> QED BY <1>3, <1>4, <2>3, <2>4 DEF Deed
<1>11. CASE Return(s) \/ Interrupt(s) \/ RollBack(s)
  <2>1. phase'[s] \in {"idle", "stopped"} /\ done'[s] = 0 /\ batch'[s] = <<>>
    BY <1>0, <1>11 DEF Return, Interrupt, RollBack, Forget, TypeOK
  <2>2. Pending(s)' = {} /\ WritesInOrder(s)'
    BY <1>5, <2>1 DEF WritesInOrder
  <2>3. CASE RollBack(s)
    <3>1. Drops(s)
      BY <2>2, <2>3 DEF RollBack, Drops
    <3> QED BY <1>3, <1>4, <2>2, <3>1 DEF Deed
  <2>4. CASE Return(s) \/ Interrupt(s)
    <3>1. UNCHANGED <<tokens, holder, draft, accepted>> /\ phase[s] \in {"idle", "committed"}
      BY <2>4 DEF Return, Interrupt
    <3> QED BY <1>4, <1>5, <1>a, <2>2, <3>1
  <2> QED BY <1>11, <2>3, <2>4
<1> QED BY <1>1, <1>6, <1>7, <1>8, <1>9, <1>10, <1>11

LEMMA IngesterDeed ==
    ASSUME RunInv, StoreInv, NEW t \in Ingesters, EventsTyped(t),
           \/ BeginHistory(t) \/ BeginLoad(t) \/ VenueAnswers(t)
           \/ RunStatement(t) \/ SendHistoryCommit(t) \/ CommitHistory(t)
           \/ EndHistory(t) \/ Abandon(t)
    PROVE  Deed(t) /\ \A s \in Collectors : WritesInOrder(s) => WritesInOrder(s)'
<1> USE DEF RunInv, HistoryShape, OfIngesters
<1>0. /\ t \in Sessions /\ Typed(t) /\ Typed(t)'
      /\ ran[t] \in Nat /\ Len(work[t]) \in Nat /\ ran[t] <= Len(work[t])
      /\ DOMAIN work[t] = 1 .. Len(work[t])
  BY IngestersAssumption, RunKeeps, ListHasPositions DEF Typed
<1>1. UNCHANGED <<phase, batch, done>>
  BY DEF BeginHistory, BeginLoad, VenueAnswers, RunStatement, UpsertToken, InsertRow, MeetRow,
         ReadRow, SendHistoryCommit, CommitHistory, EndHistory, Abandon, vars, collectVars
<1>2. \A s \in Collectors : WritesInOrder(s) => WritesInOrder(s)'
  BY <1>1 DEF WritesInOrder
<1>3. OnlyMoves(t)
  BY IngesterEffect DEF Effect
<1>4. \A o \in Sessions \ {t} : Pending(o)' = Pending(o)
  <2>1. \A o \in Ingesters \ {t} : work'[o] = work[o] /\ ran'[o] = ran[o] /\ stage'[o] = stage[o]
    BY <1>3 DEF OnlyMoves
  <2>2. ASSUME NEW o \in Ingesters \ {t} PROVE Pending(o)' = Pending(o)
    <3>1. work'[o] = work[o] /\ ran'[o] = ran[o] /\ stage'[o] = stage[o]
      BY <2>1
    <3> QED BY <3>1 DEF Pending, Running
  <2>3. ASSUME NEW o \in Sessions, o \notin Ingesters PROVE Pending(o)' = Pending(o)
    BY <1>1, <2>3 DEF Pending
  <2> QED BY <2>2, <2>3
<1>a. ASSUME UNCHANGED vars, Pending(t)' = Pending(t)
      PROVE  Deed(t)
  BY <1>4, <1>a DEF Deed, Rests, vars
<1>5. CASE BeginHistory(t) \/ BeginLoad(t)
  <2>1. ran[t] = 0 /\ ran'[t] = 0 /\ UNCHANGED vars
    BY <1>0, <1>5, FreshRun DEF BeginHistory, BeginLoad
  <2>2. Pending(t) = {} /\ Pending(t)' = {}
    BY <2>1 DEF Pending
  <2> QED BY <1>2, <1>a, <2>1, <2>2
<1>6. CASE VenueAnswers(t)
  <2>1. /\ stage'[t] = stage[t] /\ ran'[t] = ran[t] /\ UNCHANGED vars
        /\ route'[t] = Tail(route[t]) /\ route[t] # <<>> /\ Head(route[t]) \in Requests
    BY <1>0, <1>6 DEF VenueAnswers, Typed
  <2>2. PICK list \in MarketAnswers[Head(route[t])] :
          work'[t] = work[t] \o StatementsFor(Head(route[t]), list, token_id[t])
    BY <1>6 DEF VenueAnswers
  <2>3. \A i \in 1 .. ran[t] : work'[t][i] = work[t][i]
    BY <1>0, <2>1, <2>2, StatementsAreList, ListsJoined DEF Typed
  <2>4. Pending(t)' = Pending(t)
    BY <2>1, <2>3 DEF Pending, Running
  <2> QED BY <1>2, <1>a, <2>1, <2>4
<1>7. CASE UpsertToken(t)
  <2> DEFINE e == Statement(t).event
  <2>1. /\ work'[t] = work[t] /\ stage'[t] = stage[t] /\ stage[t] = "running"
        /\ ran[t] < Len(work[t]) /\ Due(t, "token") /\ ran'[t] = PastStatement(t)
        /\ work[t][ran[t] + 1].op = "token" /\ e = work[t][ran[t] + 1].event
        /\ holder' = [holder EXCEPT ![e.key] = t]
        /\ draft' = [draft EXCEPT ![t][e.key] = Merge(Visible(t, e.key), e)]
        /\ UNCHANGED <<tokens, accepted>>
    BY <1>7 DEF UpsertToken, Due, Statement
  <2>2. e \in Events
    BY <1>0, <2>1 DEF EventsTyped
  <2>3. holder[e.key] \in {t, Nobody}
    BY <1>7, <2>2 DEF UpsertToken, Free, Waits, StoreInv, TypeOK, Events
  <2> HIDE DEF e
  <2>4. ran'[t] = ran[t] + 1 \/ (ran'[t] = ran[t] + 2 /\ work[t][ran[t] + 2].op = "none")
    BY <1>0, <2>1, PastToken
  <2>5. {j \in 1 .. ran'[t] : work[t][j].op = "token"}
          = {j \in 1 .. ran[t] : work[t][j].op = "token"} \cup {ran[t] + 1}
    <3>1. \A j \in 1 .. ran'[t] : j \in 1 .. ran[t] \/ j = ran[t] + 1 \/ work[t][j].op = "none"
      BY <1>0, <2>4
    <3>2. ran[t] + 1 \in 1 .. ran'[t] /\ \A j \in 1 .. ran[t] : j \in 1 .. ran'[t]
      BY <1>0, <2>4
    <3> QED BY <2>1, <3>1, <3>2
  <2>6. Pending(t)' = Pending(t) \cup {e}
    <3>1. Pending(t)' = {work[t][i].event : i \in {j \in 1 .. ran'[t] : work[t][j].op = "token"}}
      BY <2>1 DEF Pending, Running
    <3>2. Pending(t) = {work[t][i].event : i \in {j \in 1 .. ran[t] : work[t][j].op = "token"}}
      BY <2>1 DEF Pending, Running
    <3> QED BY <2>1, <2>5, <3>1, <3>2
  <2>7. Reports(t, e)
    BY <2>1, <2>3, <2>6 DEF Reports
  <2> QED BY <1>2, <1>4, <2>2, <2>7 DEF Deed
<1>b. ASSUME work'[t] = work[t], Running(t), Running(t)', UNCHANGED vars,
             \/ ran'[t] = ran[t]
             \/ ran'[t] = ran[t] + 1 /\ work[t][ran[t] + 1].op # "token"
      PROVE  Deed(t)
  <2>1. {j \in 1 .. ran'[t] : work[t][j].op = "token"} = {j \in 1 .. ran[t] : work[t][j].op = "token"}
    BY <1>0, <1>b
  <2>2. Pending(t)' = Pending(t)
    BY <1>b, <2>1 DEF Pending
  <2> QED BY <1>a, <1>b, <2>2
<1>8. CASE InsertRow(t)
  BY <1>2, <1>8, <1>b DEF InsertRow, Due, Running
<1>9. CASE MeetRow(t)
  BY <1>2, <1>9, <1>b DEF MeetRow, Due, Running
<1>10. CASE ReadRow(t)
  <2>1. work[t][ran[t] + 1].op = "insert"
    BY <1>0, <1>10 DEF ReadRow, Typed, Statement
  <2> QED BY <1>2, <1>10, <1>b, <2>1 DEF ReadRow, Running
<1>11. CASE SendHistoryCommit(t)
  BY <1>2, <1>11, <1>b DEF SendHistoryCommit, Drained, Running
<1>12. CASE CommitHistory(t)
  <2>1. /\ stage[t] = "committing" /\ stage'[t] = "committed" /\ ran[t] = Len(work[t])
        /\ Release(t) /\ tokens' = [k \in Keys |-> Visible(t, k)]
        /\ accepted' = accepted \cup TokenEvents(work[t])
    BY <1>0, <1>12 DEF CommitHistory, Typed
  <2>2. Pending(t) = TokenEvents(work[t]) /\ Pending(t)' = {}
    BY <1>0, <2>1 DEF Pending, Running, TokenEvents
  <2> QED BY <1>2, <1>4, <2>1, <2>2 DEF Deed, Lands
<1>13. CASE EndHistory(t)
  <2>1. stage[t] = "committed" /\ stage'[t] = "idle" /\ UNCHANGED vars
    BY <1>13 DEF EndHistory, Dismiss
  <2>2. Pending(t) = {} /\ Pending(t)' = {}
    BY <2>1 DEF Pending, Running
  <2> QED BY <1>2, <1>a, <2>1, <2>2
<1>14. CASE Abandon(t)
  <2>1. stage'[t] = "idle" /\ Release(t) /\ UNCHANGED <<tokens, accepted>>
    BY <1>14 DEF Abandon, Dismiss
  <2>2. Pending(t)' = {}
    BY <2>1 DEF Pending, Running
  <2> QED BY <1>2, <1>4, <2>1, <2>2 DEF Deed, Drops
<1> QED BY <1>5, <1>6, <1>7, <1>8, <1>9, <1>10, <1>11, <1>12, <1>13, <1>14 DEF RunStatement

\* What is inductive, beside RunInv and TokenInv.
ReportInv == SightInv /\ \A s \in Collectors : WritesInOrder(s)

Known(k) ==
    tokens[k] # NoRow =>
        /\ tokens'[k] # NoRow
        /\ tokens'[k].first <= tokens[k].first
        /\ tokens[k].created # Null => tokens'[k].created = tokens[k].created

LEMMA ReportInvStep ==
    ASSUME RunInv, TokenInv, ReportInv, [HistoryNext]_systemVars
    PROVE  ReportInv' /\ \A k \in Keys : Known(k)
<1> USE DEF TokenInv, StoreInv
<1>0. Ingesters \subseteq Sessions /\ Collectors \subseteq Sessions
  BY IngestersAssumption DEF Collectors
<1>1. ASSUME NEW s \in Collectors, Collect(s) \/ RollBack(s), UNCHANGED historyVars
      PROVE  ReportInv' /\ \A k \in Keys : Known(k)
  <2>1. Deed(s) /\ \A o \in Collectors : WritesInOrder(o)'
    BY <1>1, CollectorDeed DEF ReportInv
  <2> QED BY <1>0, <2>1, DeedKeeps DEF ReportInv, Known
<1>2. ASSUME NEW t \in Ingesters,
             \/ BeginHistory(t) \/ BeginLoad(t) \/ VenueAnswers(t)
             \/ RunStatement(t) \/ SendHistoryCommit(t) \/ CommitHistory(t)
             \/ EndHistory(t) \/ Abandon(t)
      PROVE  ReportInv' /\ \A k \in Keys : Known(k)
  <2>1. Deed(t) /\ \A o \in Collectors : WritesInOrder(o)'
    BY <1>2, IngesterDeed DEF ReportInv
  <2> QED BY <1>0, <2>1, DeedKeeps DEF ReportInv, Known
<1>3. CASE UNCHANGED systemVars
  <2>1. UNCHANGED <<tokens, holder, draft, accepted, phase, batch, done, stage, work, ran>>
    BY <1>3 DEF systemVars, vars, historyVars
  <2>2. \A s \in Sessions : Pending(s)' = Pending(s)
    BY <2>1 DEF Pending, Running
  <2>3. SightInv'
    BY <2>1, <2>2
       DEF ReportInv, SightInv, FirstSeenIsEarliest, PendingHeld, DraftTells
  <2>4. \A k \in Keys : tokens[k] # NoRow => tokens[k].first \in Nat
    <3>1. \A k \in Keys : tokens[k] # NoRow => tokens[k] \in Rows
      BY DEF TypeOK
    <3> QED BY <3>1, TimesAssumption DEF Rows
  <2>5. \A k \in Keys : Known(k)
    BY <2>1, <2>4 DEF Known
  <2>6. \A s \in Collectors : WritesInOrder(s)'
    BY <2>1 DEF ReportInv, WritesInOrder
  <2> QED BY <2>3, <2>5, <2>6 DEF ReportInv
<1>4. ASSUME NEW s \in Sessions, BreakCycle(s)
      PROVE  ReportInv' /\ \A k \in Keys : Known(k)
  <2>1. CASE s \in Ingesters
    BY <1>2, <1>4, <2>1 DEF BreakCycle
  <2>2. CASE s \notin Ingesters
    BY <1>1, <1>4, <2>2 DEF BreakCycle, Collectors
  <2> QED BY <2>1, <2>2
<1>5. ASSUME NEW s \in Collectors, Collect(s)
      PROVE  ReportInv' /\ \A k \in Keys : Known(k)
  BY <1>1, <1>5 DEF Collect
<1> QED BY <1>2, <1>3, <1>4, <1>5 DEF HistoryNext, FailHistory

LEMMA ReportInvInit == HistoryInit => ReportInv
<1> SUFFICES ASSUME HistoryInit PROVE ReportInv
  OBVIOUS
<1>1. /\ \A k \in Keys : tokens[k] = NoRow /\ holder[k] = Nobody
      /\ accepted = {}
      /\ \A s \in Sessions : phase[s] = "idle" /\ batch[s] = <<>> /\ done[s] = 0
      /\ \A s \in Ingesters : stage[s] = "idle"
  BY DEF HistoryInit, Init
<1>2. ASSUME NEW s \in Sessions PROVE Pending(s) = {}
  <2>1. CASE s \in Ingesters
    <3>1. ~Running(s)
      BY <1>1, <2>1 DEF Running
    <3> QED BY <2>1, <3>1 DEF Pending
  <2>2. CASE s \notin Ingesters
    <3>1. phase[s] \notin {"writing", "committing"}
      BY <1>1
    <3> QED BY <2>2, <3>1 DEF Pending
  <2> QED BY <2>1, <2>2
<1>3. FirstSeenIsEarliest
  BY <1>1 DEF FirstSeenIsEarliest, Accounts
<1>4. SightInv
  BY <1>1, <1>2, <1>3, SessionsAssumption DEF SightInv, PendingHeld, DraftTells
<1>5. ASSUME NEW s \in Collectors PROVE WritesInOrder(s)
  <2>1. phase[s] = "idle" /\ batch[s] = <<>> /\ done[s] = 0
    BY <1>1 DEF Collectors
  <2>2. Len(<<>>) = 0
    OBVIOUS
  <2> QED BY <2>1, <2>2 DEF WritesInOrder
<1> QED BY <1>4, <1>5 DEF ReportInv

\* Beside history runs and loaders, too, the table says of every token the
\* earliest first_seen_time that any committed cycle or run reported, in
\* whichever order they asked, waited, upserted and committed: a historian
\* that keeps a token locked while venues answer, and then commits, undoes no
\* report a poller made meanwhile.
THEOREM FirstSeenBesideRuns == HistorySpec => []FirstSeenIsEarliest
<1>1. ReportInv => FirstSeenIsEarliest
  BY DEF ReportInv, SightInv
<1> QED BY <1>1, RunInvariant, TokenInvInit, TokenInvStep, ReportInvInit, ReportInvStep,
           PTL DEF HistorySpec

\* Nor does any step of a run, a loader or a cycle remove a token, move its
\* first_seen_time later or change a created_time that is known.
THEOREM KnowledgeKeptByRuns == HistorySpec => KnowledgeKept
<1>1. RunInv /\ TokenInv /\ ReportInv /\ [HistoryNext]_systemVars
        => [\A k \in Keys : tokens[k] # NoRow =>
              /\ tokens'[k] # NoRow
              /\ tokens'[k].first <= tokens[k].first
              /\ tokens[k].created # Null => tokens'[k].created = tokens[k].created]_vars
  <2> SUFFICES ASSUME RunInv, TokenInv, ReportInv, [HistoryNext]_systemVars
               PROVE  \A k \in Keys : tokens[k] # NoRow =>
                         /\ tokens'[k] # NoRow
                         /\ tokens'[k].first <= tokens[k].first
                         /\ tokens[k].created # Null => tokens'[k].created = tokens[k].created
    OBVIOUS
  <2>1. \A k \in Keys : Known(k)
    BY ReportInvStep
  <2> QED BY <2>1 DEF Known
<1> QED BY <1>1, RunInvariant, TokenInvInit, TokenInvStep, ReportInvInit, ReportInvStep,
           PTL DEF HistorySpec, KnowledgeKept


=============================================================================
