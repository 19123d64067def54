---------------------------- MODULE ResultStore ----------------------------
(***************************************************************************)
(* The paper_trades and strategy_results tables and the callers of         *)
(* PaperTradeRepository.insert and StrategyResultRepository.insert         *)
(* (database/repositories/paper.py, strategy.py).  An insert does nothing  *)
(* if a row of its key exists; a second statement then selects that row,   *)
(* and an assertion says that it is found.  A caller is told the row that  *)
(* stands under its key, its own or an earlier one.                        *)
(*                                                                         *)
(* The repositories neither commit nor roll back.  A writer is a caller    *)
(* that makes some inserts in one transaction, leaves on an exception, and *)
(* may come back with the same results or others.  PostgreSQL runs writers *)
(* at READ COMMITTED: an insert that meets the uncommitted row of another  *)
(* waits for its end, and a cycle of waiting writers is broken.            *)
(***************************************************************************)
EXTENDS Integers, Sequences

CONSTANTS
    Writers,
    Lists,      \* the lists of calls a writer may make in a transaction
    IdOf,       \* what is given for a run id -> its UUID, or Null: malformed
    Unit,       \* the last decimal of NUMERIC(38, 18), in the callers' units
    MaxTries,   \* bound: transactions of a writer
    Null

\* What the two functions take; payload stands for the columns outside the
\* key, name for the strategy's name and version.  Quantities and prices are
\* Decimals of any precision.  Of a strategy's window and token, any may be
\* Null.
PaperArguments == {"run", "token", "ts", "side", "qty", "price", "payload"}

StrategyArguments == {"run", "name", "token", "start", "end", "payload"}

Nullables == {"token", "start", "end"}

IsPaper(call) == DOMAIN call = PaperArguments

ASSUME StoreAssumption ==
    /\ Unit \in Nat \ {0} /\ MaxTries \in Nat
    /\ Null \notin Nat
    /\ \A list \in Lists : list \in Seq({list[i] : i \in DOMAIN list})
    /\ \A list \in Lists : \A i \in DOMAIN list :
          /\ DOMAIN list[i] \in {PaperArguments, StrategyArguments}
          /\ list[i].run \in DOMAIN IdOf
          /\ \A f \in DOMAIN list[i] \ Nullables : list[i][f] # Null
          /\ IsPaper(list[i]) =>
                list[i].qty \in Nat /\ list[i].price \in Nat /\ list[i].token # Null

VARIABLES
    results,    \* the committed rows of both tables
    draft,      \* writer -> the rows its open transaction inserted
    phase,      \* writer -> where it is
    calls,      \* writer -> the inserts it makes
    told,       \* writer -> the rows returned to it, one per insert
    tries       \* writer -> transactions begun

resultVars == <<results, draft, phase, calls, told, tries>>

-----------------------------------------------------------------------------
(* Keys *)

\* NUMERIC rounds to its scale, half away from zero.
Rounded(x) == (x + Unit \div 2) \div Unit

\* The key a row is stored under.
KeyOf(call) ==
    IF IsPaper(call)
    THEN [run |-> IdOf[call.run], token |-> call.token, ts |-> call.ts, side |-> call.side,
          qty |-> Rounded(call.qty), price |-> Rounded(call.price)]
    ELSE [run |-> IdOf[call.run], name |-> call.name, token |-> call.token,
          start |-> call.start, end |-> call.end]

RowOf(call) == [key |-> KeyOf(call), payload |-> call.payload]

\* SQL's "=" of two columns is not true of a NULL.
SqlEqual(a, b) == a # Null /\ b # Null /\ a = b

\* Mutant: a unique constraint without NULLS NOT DISTINCT.
SameKeyNullsDistinct(k, l) == k = l /\ \A column \in DOMAIN k : k[column] # Null

\* The unique constraints; for strategy results with NULLS NOT DISTINCT.
SameKey(k, l) == k = l

\* Mutant: a comparison with "=" whatever the value.
EqNullableNot(column, value) == SqlEqual(column, value)

\* _eq_nullable()
EqNullable(column, value) ==
    IF value = Null THEN column = Null ELSE SqlEqual(column, value)

\* Mutant: the limit price is not part of the query.
SelectedAnyPrice(row, call) ==
    /\ DOMAIN row.key = DOMAIN KeyOf(call)
    /\ \A column \in DOMAIN row.key \ {"price"} :
          EqNullable(row.key[column], KeyOf(call)[column])

\* The rows the second statement selects.  The parameters are cast to the
\* columns' types, so they are rounded as the row was.
Selected(row, call) ==
    /\ DOMAIN row.key = DOMAIN KeyOf(call)
    /\ \A column \in DOMAIN row.key :
          IF ~IsPaper(call) /\ column \in Nullables
          THEN EqNullable(row.key[column], KeyOf(call)[column])
          ELSE SqlEqual(row.key[column], KeyOf(call)[column])

\* The rows a list of calls would store.
OfferOf(list) == [i \in DOMAIN list |-> RowOf(list[i])]

-----------------------------------------------------------------------------
(* Waiting *)

Open(w) == phase[w] \in {"open", "met", "committing"}

\* What the statements of w see.
Visible(w) == results \cup draft[w]

HasCall(w) == phase[w] = "open" /\ Len(told[w]) < Len(calls[w])

NextCall(w) == calls[w][Len(told[w]) + 1]

Conflicting(rows, call) == {r \in rows : SameKey(r.key, KeyOf(call))}

\* The writers whose transactions must end before w can go on.
WaitsFor(w) ==
    IF HasCall(w) THEN {u \in Writers \ {w} : Conflicting(draft[u], NextCall(w)) # {}}
    ELSE {}

InDeadlock(w) ==
    \E C \in SUBSET Writers :
        w \in C /\ \A c \in C : \E d \in C : d \in WaitsFor(c)

-----------------------------------------------------------------------------
(* A transaction *)

ResultInit ==
    /\ results = {}
    /\ draft = [w \in Writers |-> {}]
    /\ phase = [w \in Writers |-> "idle"]
    /\ calls = [w \in Writers |-> <<>>]
    /\ told = [w \in Writers |-> <<>>]
    /\ tries = [w \in Writers |-> 0]

Begin(w) ==
    /\ phase[w] \in {"idle", "done", "failed"}
    /\ tries[w] < MaxTries
    /\ \E list \in Lists : calls' = [calls EXCEPT ![w] = list]
    /\ phase' = [phase EXCEPT ![w] = "open"]
    /\ told' = [told EXCEPT ![w] = <<>>]
    /\ tries' = [tries EXCEPT ![w] = @ + 1]
    /\ UNCHANGED <<results, draft>>

Tell(w, row) == told' = [told EXCEPT ![w] = Append(@, row)]

\* No row has the key: the row is inserted, and RETURNING tells it.
InsertResult(w) ==
    /\ HasCall(w) /\ IdOf[NextCall(w).run] # Null
    /\ WaitsFor(w) = {}
    /\ Conflicting(Visible(w), NextCall(w)) = {}
    /\ draft' = [draft EXCEPT ![w] = @ \cup {RowOf(NextCall(w))}]
    /\ Tell(w, RowOf(NextCall(w)))
    /\ UNCHANGED <<results, phase, calls, tries>>

\* Mutant: ON CONFLICT DO UPDATE.
MeetAndUpdate(w) ==
    /\ HasCall(w) /\ IdOf[NextCall(w).run] # Null
    /\ WaitsFor(w) = {}
    /\ Conflicting(Visible(w), NextCall(w)) # {}
    /\ draft' = [draft EXCEPT ![w] = @ \cup {RowOf(NextCall(w))}]
    /\ Tell(w, RowOf(NextCall(w)))
    /\ UNCHANGED <<results, phase, calls, tries>>

\* A row has it: ON CONFLICT DO NOTHING returns none.
MeetResult(w) ==
    /\ HasCall(w) /\ IdOf[NextCall(w).run] # Null
    /\ WaitsFor(w) = {}
    /\ Conflicting(Visible(w), NextCall(w)) # {}
    /\ phase' = [phase EXCEPT ![w] = "met"]
    /\ UNCHANGED <<results, draft, calls, told, tries>>

\* The rows the second statement would find now.
Found(w) == {r \in Visible(w) : Selected(r, NextCall(w))}

\* The second statement, and the assertion on its result.
ReadResult(w) ==
    /\ phase[w] = "met"
    /\ \/ \E r \in Found(w) :
             Tell(w, r) /\ phase' = [phase EXCEPT ![w] = "open"] /\ UNCHANGED draft
       \/ /\ Found(w) = {}
          /\ phase' = [phase EXCEPT ![w] = "failed"]
          /\ draft' = [draft EXCEPT ![w] = {}]
          /\ UNCHANGED told
    /\ UNCHANGED <<results, calls, tries>>

\* The transaction is rolled back.
GiveUp(w) ==
    /\ draft' = [draft EXCEPT ![w] = {}]
    /\ phase' = [phase EXCEPT ![w] = "failed"]
    /\ UNCHANGED <<results, calls, told, tries>>

\* UUID() raises before any statement is sent.
RefuseRun(w) == HasCall(w) /\ IdOf[NextCall(w).run] = Null /\ GiveUp(w)

\* The writer has made its calls and commits.
SendCommit(w) ==
    /\ phase[w] = "open" /\ Len(told[w]) = Len(calls[w])
    /\ phase' = [phase EXCEPT ![w] = "committing"]
    /\ UNCHANGED <<results, draft, calls, told, tries>>

\* The server commits.
Commit(w) ==
    /\ phase[w] = "committing"
    /\ results' = results \cup draft[w]
    /\ draft' = [draft EXCEPT ![w] = {}]
    /\ phase' = [phase EXCEPT ![w] = "done"]
    /\ UNCHANGED <<calls, told, tries>>

\* A statement raises, or the writer is interrupted or killed, before the
\* server has committed.
Fail(w) == Open(w) /\ GiveUp(w)

BreakDeadlock(w) == InDeadlock(w) /\ GiveUp(w)

\* The answer to the commit is lost, and the writer does not know.
LoseAnswer(w) ==
    /\ phase[w] = "done"
    /\ phase' = [phase EXCEPT ![w] = "failed"]
    /\ UNCHANGED <<results, draft, calls, told, tries>>

ResultNext ==
    \E w \in Writers :
        \/ Begin(w)
        \/ InsertResult(w)
        \/ MeetResult(w)
        \/ ReadResult(w)
        \/ RefuseRun(w)
        \/ SendCommit(w)
        \/ Commit(w)
        \/ Fail(w)
        \/ BreakDeadlock(w)
        \/ LoseAnswer(w)

ResultSpec == ResultInit /\ [][ResultNext]_resultVars

-----------------------------------------------------------------------------
(* Properties *)

\* Among the rows that are committed or about to be, no two writers' and no
\* two of one writer's have the same run, order or window, NULLs and rounded
\* amounts included: racing writers of one result cannot both insert it
\* (the unique constraints of models.py).
OneResultPerKey ==
    /\ \A r, s \in results : r.key = s.key => r = s
    /\ \A w \in Writers : \A r \in draft[w] :
          /\ \A s \in Visible(w) : r.key = s.key => r = s
          /\ \A u \in Writers \ {w} : \A s \in draft[u] \cup results : r.key # s.key

\* "assert existing is not None" (paper.py, strategy.py): when the insert did
\* nothing, whatever other writers did before the second statement, the query
\* finds the row it met, and no other.
MetResultFound ==
    \A w \in Writers : phase[w] = "met" => \E r \in Visible(w) : Found(w) = {r}

\* What a caller is told is the row under the key it asked for, never another
\* writer's uncommitted one, and once its transaction has ended well all of it
\* is in the tables for good, though it may have been told some of it before
\* it was committed.
ToldStands ==
    \A w \in Writers : \A i \in DOMAIN told[w] :
        /\ phase[w] # "failed" => told[w][i] \in Visible(w)
        /\ told[w][i].key = KeyOf(calls[w][i])

KeyOfRow(row) == row.key

Ledger == INSTANCE MarketLedger WITH
    Runs <- Writers,
    KeyOf <- KeyOfRow,
    ledger <- results,
    offer <- [w \in Writers |-> IF Open(w) THEN {OfferOf(calls[w])} ELSE {}]

\* A result, once stored, stands: whoever computes it again, after a failure,
\* after a commit nobody confirmed or beside the first, leaves it as it is,
\* and the results of one transaction come together or not at all ("replay-safe
\* idempotency", paper.py and strategy.py).
FirstResultStands == Ledger!Spec

=============================================================================
