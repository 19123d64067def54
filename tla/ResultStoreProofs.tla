-------------------------- MODULE ResultStoreProofs --------------------------
(***************************************************************************)
(* What the two result repositories promise, proved for any writers, lists *)
(* of calls, spellings of run ids and roundings: no key is written twice,  *)
(* the row an insert met is the one the query finds, and what a caller was *)
(* told stands.                                                            *)
(***************************************************************************)
EXTENDS ResultStore, TLAPS

-----------------------------------------------------------------------------
(* Keys *)

\* The calls that get as far as a statement, and the rows they may leave.
Sendable ==
    {call \in UNION {{list[i] : i \in DOMAIN list} : list \in Lists} : IdOf[call.run] # Null}

StoredRows == {RowOf(call) : call \in Sendable}

LEMMA RoundedType ==
    ASSUME NEW x \in Nat PROVE Rounded(x) \in Nat
BY StoreAssumption DEF Rounded

\* The columns a statement sends are not NULL unless they may be.
LEMMA KeyColumns ==
    ASSUME NEW call \in Sendable
    PROVE  /\ IsPaper(call) =>
                /\ KeyOf(call) = [run |-> IdOf[call.run], token |-> call.token, ts |-> call.ts,
                                  side |-> call.side, qty |-> Rounded(call.qty),
                                  price |-> Rounded(call.price)]
                /\ \A column \in DOMAIN KeyOf(call) : KeyOf(call)[column] # Null
           /\ ~IsPaper(call) =>
                /\ KeyOf(call) = [run |-> IdOf[call.run], name |-> call.name,
                                  token |-> call.token, start |-> call.start, end |-> call.end]
                /\ \A column \in DOMAIN KeyOf(call) \ Nullables : KeyOf(call)[column] # Null
<1>0. /\ IdOf[call.run] # Null
      /\ DOMAIN call \in {PaperArguments, StrategyArguments}
      /\ \A f \in DOMAIN call \ Nullables : call[f] # Null
      /\ IsPaper(call) => call.qty \in Nat /\ call.price \in Nat /\ call.token # Null
  BY StoreAssumption DEF Sendable
<1>1. CASE IsPaper(call)
  <2>1. KeyOf(call) = [run |-> IdOf[call.run], token |-> call.token, ts |-> call.ts,
                       side |-> call.side, qty |-> Rounded(call.qty),
                       price |-> Rounded(call.price)]
    BY <1>1 DEF KeyOf
  <2>2. Rounded(call.qty) # Null /\ Rounded(call.price) # Null
    BY <1>0, <1>1, RoundedType, StoreAssumption
  <2>3. call.ts # Null /\ call.side # Null
    BY <1>0, <1>1 DEF IsPaper, PaperArguments, Nullables
  <2> QED BY <1>0, <1>1, <2>1, <2>2, <2>3
<1>2. CASE ~IsPaper(call)
  <2>1. KeyOf(call) = [run |-> IdOf[call.run], name |-> call.name,
                       token |-> call.token, start |-> call.start, end |-> call.end]
    BY <1>2 DEF KeyOf
  <2>2. call.name # Null
    BY <1>0, <1>2 DEF IsPaper, StrategyArguments, Nullables
  <2> QED BY <1>0, <1>2, <2>1, <2>2 DEF Nullables
<1> QED BY <1>1, <1>2

\* The query tells rows apart as the unique constraint does: NULLs are equal
\* to each other in both, and amounts are rounded in both.
LEMMA SelectedIsSameKey ==
    ASSUME NEW call \in Sendable, NEW other \in Sendable
    PROVE  Selected(RowOf(other), call) <=> KeyOf(other) = KeyOf(call)
<1> DEFINE k == KeyOf(other)  l == KeyOf(call)
<1>0. RowOf(other).key = k
  BY DEF RowOf
<1>1. CASE k = l
  <2>1. CASE IsPaper(call)
    <3>1. \A column \in DOMAIN l : l[column] # Null
      BY <2>1, KeyColumns
    <3> HIDE DEF k, l
    <3> QED BY <1>0, <1>1, <2>1, <3>1 DEF Selected, SqlEqual, k, l
  <2>2. CASE ~IsPaper(call)
    <3>1. \A column \in DOMAIN l \ Nullables : l[column] # Null
      BY <2>2, KeyColumns
    <3> QED BY <1>0, <1>1, <2>2, <3>1 DEF Selected, SqlEqual, EqNullable
  <2> QED BY <2>1, <2>2
<1>2. CASE Selected(RowOf(other), call)
  <2>1. DOMAIN k = DOMAIN l /\ \A column \in DOMAIN k : k[column] = l[column]
    BY <1>0, <1>2 DEF Selected, SqlEqual, EqNullable
  <2>2. IsPaper(other) <=> IsPaper(call)
    BY <2>1, KeyColumns
  <2>3. CASE IsPaper(call)
    BY <1>2, <2>1, <2>2, <2>3, KeyColumns
  <2>4. CASE ~IsPaper(call)
    BY <1>2, <2>1, <2>2, <2>4, KeyColumns
  <2> QED BY <2>3, <2>4
<1> QED BY <1>1, <1>2

-----------------------------------------------------------------------------
(* The inductive invariant *)

ResultTypeOK ==
    /\ results \in SUBSET StoredRows
    /\ draft \in [Writers -> SUBSET StoredRows]
    /\ phase \in [Writers -> {"idle", "open", "met", "committing", "done", "failed"}]
    /\ calls \in [Writers -> Lists \cup {<<>>}]
    /\ told \in [Writers -> Seq(StoredRows)]
    /\ tries \in [Writers -> Nat]

\* w has been answered no more calls than it makes; between the statements of
\* one it has met a row of the call's key.
Asks(w) ==
    /\ Len(told[w]) <= Len(calls[w])
    /\ phase[w] = "met" =>
          /\ Len(told[w]) < Len(calls[w])
          /\ IdOf[NextCall(w).run] # Null
          /\ Conflicting(Visible(w), NextCall(w)) # {}

\* What w has been told is what it asked for and, while it has not failed,
\* visible to it.
HeldTo(w) ==
    \A i \in DOMAIN told[w] :
        /\ phase[w] # "failed" => told[w][i] \in Visible(w)
        /\ told[w][i].key = KeyOf(calls[w][i])

ResultInv ==
    /\ ResultTypeOK
    /\ \A w \in Writers : Asks(w) /\ HeldTo(w)
    /\ OneResultPerKey

\* A list of calls is a sequence, and the next of its calls one of them.
LEMMA NextCallIsListed ==
    ASSUME ResultTypeOK, NEW w \in Writers
    PROVE  /\ Len(calls[w]) \in Nat /\ DOMAIN calls[w] = 1 .. Len(calls[w])
           /\ Len(told[w]) \in Nat /\ DOMAIN told[w] = 1 .. Len(told[w])
           /\ Len(told[w]) < Len(calls[w]) /\ IdOf[NextCall(w).run] # Null =>
                 /\ NextCall(w) \in Sendable
                 /\ RowOf(NextCall(w)) \in StoredRows
<1>1. calls[w] \in Lists \cup {<<>>} /\ told[w] \in Seq(StoredRows)
  BY DEF ResultTypeOK
<1>2. calls[w] \in Seq({calls[w][i] : i \in DOMAIN calls[w]})
  <2>1. CASE calls[w] \in Lists
    BY <2>1, StoreAssumption
  <2>2. CASE calls[w] = <<>>
    <3>1. <<>> \in Seq({calls[w][i] : i \in DOMAIN calls[w]})
      OBVIOUS
    <3> QED BY <2>2, <3>1
  <2> QED BY <1>1, <2>1, <2>2
<1>3. /\ Len(calls[w]) \in Nat /\ DOMAIN calls[w] = 1 .. Len(calls[w])
      /\ Len(told[w]) \in Nat /\ DOMAIN told[w] = 1 .. Len(told[w])
  BY <1>1, <1>2
<1>4. ASSUME Len(told[w]) < Len(calls[w]), IdOf[NextCall(w).run] # Null
      PROVE  NextCall(w) \in Sendable
  <2>1. calls[w] \in Lists
    BY <1>1, <1>3, <1>4
  <2>2. Len(told[w]) + 1 \in DOMAIN calls[w]
    BY <1>3, <1>4
  <2> QED BY <1>4, <2>1, <2>2 DEF Sendable, NextCall
<1> QED BY <1>3, <1>4 DEF StoredRows

-----------------------------------------------------------------------------
(* The steps *)

LEMMA TypeStep ==
    ASSUME ResultTypeOK, ResultNext PROVE ResultTypeOK'
<1> PICK w \in Writers :
        \/ Begin(w) \/ InsertResult(w) \/ MeetResult(w) \/ ReadResult(w)
        \/ RefuseRun(w) \/ SendCommit(w) \/ Commit(w) \/ Fail(w)
        \/ BreakDeadlock(w) \/ LoseAnswer(w)
  BY DEF ResultNext
<1> USE DEF ResultTypeOK
<1>1. CASE Begin(w)
  BY <1>1 DEF Begin
<1>2. CASE InsertResult(w)
  <2>1. RowOf(NextCall(w)) \in StoredRows
    BY <1>2, NextCallIsListed DEF InsertResult, HasCall
  <2>2. draft' \in [Writers -> SUBSET StoredRows]
    BY <1>2, <2>1 DEF InsertResult
  <2>3. told' \in [Writers -> Seq(StoredRows)]
    BY <1>2, <2>1 DEF InsertResult, Tell
  <2> QED BY <1>2, <2>2, <2>3 DEF InsertResult
<1>3. CASE MeetResult(w)
  BY <1>3 DEF MeetResult
<1>4. CASE ReadResult(w)
  <2>1. ASSUME NEW r \in Found(w), Tell(w, r)
        PROVE  told' \in [Writers -> Seq(StoredRows)]
    <3>1. r \in StoredRows
      BY DEF Found, Visible
    <3> QED BY <2>1, <3>1 DEF Tell
  <2> QED BY <1>4, <2>1 DEF ReadResult
<1>5. CASE GiveUp(w)
  BY <1>5 DEF GiveUp
<1>6. CASE SendCommit(w)
  BY <1>6 DEF SendCommit
<1>7. CASE Commit(w)
  BY <1>7 DEF Commit
<1>8. CASE LoseAnswer(w)
  BY <1>8 DEF LoseAnswer
<1> QED BY <1>1, <1>2, <1>3, <1>4, <1>5, <1>6, <1>7, <1>8
        DEF RefuseRun, Fail, BreakDeadlock

\* A step is one writer's: it moves no other, and takes no committed row.
OnlyMoves(w) ==
    /\ results \subseteq results'
    /\ \A u \in Writers \ {w} :
          /\ draft'[u] = draft[u] /\ phase'[u] = phase[u]
          /\ calls'[u] = calls[u] /\ told'[u] = told[u]

\* The rows of the drafts stay where they are or are dropped.
Recedes == results' = results /\ \A u \in Writers : draft'[u] \subseteq draft[u]

\* What a step of w does to the rows, and to what w was told.
LEMMA StepOfWriter ==
    ASSUME ResultTypeOK, NEW w \in Writers,
           \/ Begin(w) \/ MeetResult(w) \/ ReadResult(w)
           \/ GiveUp(w) \/ SendCommit(w) \/ LoseAnswer(w)
    PROVE  OnlyMoves(w) /\ Recedes
<1> USE DEF ResultTypeOK, OnlyMoves, Recedes
<1>1. CASE Begin(w)
  BY <1>1 DEF Begin
<1>2. CASE MeetResult(w)
  BY <1>2 DEF MeetResult
<1>3. CASE ReadResult(w)
  BY <1>3 DEF ReadResult, Tell
<1>4. CASE GiveUp(w)
  BY <1>4 DEF GiveUp
<1>5. CASE SendCommit(w)
  BY <1>5 DEF SendCommit
<1>6. CASE LoseAnswer(w)
  BY <1>6 DEF LoseAnswer
<1> QED BY <1>1, <1>2, <1>3, <1>4, <1>5, <1>6

\* An insert adds a row whose key no writer has, the other tables' rows and
\* drafts being those that were waited for or looked at.
LEMMA InsertIsFresh ==
    ASSUME ResultTypeOK, NEW w \in Writers, InsertResult(w)
    PROVE  /\ OnlyMoves(w) /\ results' = results
           /\ draft'[w] = draft[w] \cup {RowOf(NextCall(w))}
           /\ \A u \in Writers : \A r \in results \cup draft[u] :
                 r.key # RowOf(NextCall(w)).key
<1>1. OnlyMoves(w) /\ results' = results /\ draft'[w] = draft[w] \cup {RowOf(NextCall(w))}
  BY DEF InsertResult, Tell, OnlyMoves, ResultTypeOK
<1>2. RowOf(NextCall(w)).key = KeyOf(NextCall(w))
  BY DEF RowOf
<1>3. \A r \in results \cup draft[w] : r.key # KeyOf(NextCall(w))
  BY DEF InsertResult, Conflicting, SameKey, Visible
<1>4. \A u \in Writers \ {w} : \A r \in draft[u] : r.key # KeyOf(NextCall(w))
  BY DEF InsertResult, WaitsFor, Conflicting, SameKey
<1> QED BY <1>1, <1>2, <1>3, <1>4

LEMMA CommitPublishes ==
    ASSUME ResultTypeOK, NEW w \in Writers, Commit(w)
    PROVE  /\ OnlyMoves(w) /\ results' = results \cup draft[w] /\ draft'[w] = {}
           /\ told' = told /\ calls' = calls /\ phase'[w] = "done"
BY DEF Commit, OnlyMoves, ResultTypeOK

\* No step writes a key twice.
LEMMA KeyStep ==
    ASSUME ResultTypeOK, OneResultPerKey, ResultNext
    PROVE  OneResultPerKey'
<1> PICK w \in Writers :
        \/ Begin(w) \/ InsertResult(w) \/ MeetResult(w) \/ ReadResult(w)
        \/ RefuseRun(w) \/ SendCommit(w) \/ Commit(w) \/ Fail(w)
        \/ BreakDeadlock(w) \/ LoseAnswer(w)
  BY DEF ResultNext
<1>0. /\ \A r, s \in results : r.key = s.key => r = s
      /\ \A u \in Writers : \A r \in draft[u] : \A s \in results \cup draft[u] :
            r.key = s.key => r = s
      /\ \A u \in Writers : \A r \in draft[u] :
            \A o \in Writers \ {u} : \A s \in draft[o] \cup results : r.key # s.key
  BY DEF OneResultPerKey, Visible
<1> SUFFICES /\ \A r, s \in results' : r.key = s.key => r = s
             /\ \A u \in Writers : \A r \in draft'[u] : \A s \in results' \cup draft'[u] :
                   r.key = s.key => r = s
             /\ \A u \in Writers : \A r \in draft'[u] :
                   \A o \in Writers \ {u} : \A s \in draft'[o] \cup results' : r.key # s.key
  BY DEF OneResultPerKey, Visible
<1>1. CASE Recedes
  BY <1>0, <1>1 DEF Recedes
<1>2. CASE InsertResult(w)
  <2> DEFINE new == RowOf(NextCall(w))
  <2>1. /\ results' = results /\ draft'[w] = draft[w] \cup {new}
        /\ \A u \in Writers \ {w} : draft'[u] = draft[u]
        /\ \A u \in Writers : \A r \in results \cup draft[u] : r.key # new.key
    BY <1>2, InsertIsFresh DEF OnlyMoves
  <2> HIDE DEF new
  <2> QED BY <1>0, <2>1
<1>3. CASE Commit(w)
  <2>1. /\ results' = results \cup draft[w] /\ draft'[w] = {}
        /\ \A u \in Writers \ {w} : draft'[u] = draft[u]
    BY <1>3, CommitPublishes DEF OnlyMoves
  <2> QED BY <1>0, <2>1
<1> QED BY <1>1, <1>2, <1>3, StepOfWriter DEF RefuseRun, Fail, BreakDeadlock

\* What a writer sees and was told, when another one moves.
LEMMA OthersStand ==
    ASSUME ResultTypeOK, NEW w \in Writers, OnlyMoves(w),
           NEW u \in Writers \ {w}, Asks(u), HeldTo(u)
    PROVE  Asks(u)' /\ HeldTo(u)'
<1>1. /\ phase'[u] = phase[u] /\ calls'[u] = calls[u] /\ told'[u] = told[u]
      /\ Visible(u) \subseteq Visible(u)' /\ NextCall(u)' = NextCall(u)
  BY DEF OnlyMoves, Visible, NextCall
<1>2. Asks(u)'
  BY <1>1 DEF Asks, Conflicting
<1>3. HeldTo(u)'
  BY <1>1 DEF HeldTo
<1> QED BY <1>2, <1>3

\* The row the second statement selects is under the key of the call.
LEMMA FoundHasKey ==
    ASSUME ResultTypeOK, NEW w \in Writers, Asks(w), phase[w] = "met"
    PROVE  Found(w) = {r \in Visible(w) : r.key = KeyOf(NextCall(w))}
<1>1. NextCall(w) \in Sendable
  BY NextCallIsListed DEF Asks
<1>2. ASSUME NEW r \in Visible(w)
      PROVE  Selected(r, NextCall(w)) <=> r.key = KeyOf(NextCall(w))
  <2>1. r \in StoredRows
    BY DEF Visible, ResultTypeOK
  <2>2. PICK other \in Sendable : r = RowOf(other)
    BY <2>1 DEF StoredRows
  <2>3. r.key = KeyOf(other)
    BY <2>2 DEF RowOf
  <2> QED BY <1>1, <2>2, <2>3, SelectedIsSameKey
<1> QED BY <1>2 DEF Found

\* w is told a row it sees, of the key it asked for.
LEMMA ToldOneMore ==
    ASSUME ResultTypeOK, NEW w \in Writers, Asks(w), HeldTo(w), phase[w] # "failed",
           NEW row \in StoredRows, row.key = KeyOf(NextCall(w)), Tell(w, row),
           Len(told[w]) < Len(calls[w]), calls' = calls, phase'[w] = "open",
           Visible(w) \subseteq Visible(w)', row \in Visible(w)'
    PROVE  Asks(w)' /\ HeldTo(w)'
<1>1. told'[w] = Append(told[w], row)
  BY DEF Tell, ResultTypeOK
<1>2. /\ Len(told[w]) \in Nat /\ DOMAIN told[w] = 1 .. Len(told[w])
      /\ Len(calls[w]) \in Nat /\ told[w] \in Seq(StoredRows)
  BY NextCallIsListed DEF ResultTypeOK
<1>3. /\ Len(told'[w]) = Len(told[w]) + 1
      /\ DOMAIN told'[w] = 1 .. Len(told[w]) + 1
      /\ \A i \in 1 .. Len(told[w]) : told'[w][i] = told[w][i]
      /\ told'[w][Len(told[w]) + 1] = row
  BY <1>1, <1>2
<1>4. Asks(w)'
  BY <1>2, <1>3 DEF Asks
<1>5. ASSUME NEW i \in DOMAIN told'[w]
      PROVE  told'[w][i] \in Visible(w)' /\ told'[w][i].key = KeyOf(calls'[w][i])
  <2>1. CASE i = Len(told[w]) + 1
    BY <1>3, <2>1 DEF NextCall
  <2>2. CASE i \in 1 .. Len(told[w])
    BY <1>2, <1>3, <2>2 DEF HeldTo
  <2> QED BY <1>2, <1>3, <2>1, <2>2
<1> QED BY <1>4, <1>5 DEF HeldTo

\* What the writer that moves is told.
LEMMA ToldStep ==
    ASSUME ResultTypeOK, ResultTypeOK', NEW w \in Writers, Asks(w), HeldTo(w),
           \/ Begin(w) \/ InsertResult(w) \/ MeetResult(w) \/ ReadResult(w)
           \/ GiveUp(w) \/ SendCommit(w) \/ Commit(w) \/ LoseAnswer(w)
    PROVE  Asks(w)' /\ HeldTo(w)'
<1>0. /\ Len(told[w]) \in Nat /\ DOMAIN told[w] = 1 .. Len(told[w]) /\ Len(calls[w]) \in Nat
      /\ Len(calls'[w]) \in Nat
  <2>1. Len(calls'[w]) \in Nat
    <3>1. (Len(calls[w]) \in Nat)'
      BY NextCallIsListed, PTL
    <3> QED BY <3>1
  <2> QED BY <2>1, NextCallIsListed
<1>1. CASE Begin(w)
  <2>1. told'[w] = <<>> /\ phase'[w] = "open"
    BY <1>1 DEF Begin, ResultTypeOK
  <2> QED BY <1>0, <2>1 DEF Asks, HeldTo
<1>2. CASE InsertResult(w)
  <2>1. /\ phase[w] = "open" /\ phase' = phase /\ calls' = calls
        /\ Len(told[w]) < Len(calls[w]) /\ IdOf[NextCall(w).run] # Null
        /\ Tell(w, RowOf(NextCall(w)))
    BY <1>2 DEF InsertResult, HasCall
  <2>2. results' = results /\ draft'[w] = draft[w] \cup {RowOf(NextCall(w))}
    BY <1>2, InsertIsFresh
  <2>3. /\ RowOf(NextCall(w)) \in StoredRows
        /\ RowOf(NextCall(w)).key = KeyOf(NextCall(w))
    BY <2>1, NextCallIsListed DEF RowOf
  <2>4. Visible(w) \subseteq Visible(w)' /\ RowOf(NextCall(w)) \in Visible(w)'
    BY <2>2 DEF Visible
  <2> QED BY <2>1, <2>3, <2>4, ToldOneMore
<1>3. CASE MeetResult(w)
  <2>1. /\ phase'[w] = "met" /\ results' = results /\ draft' = draft
        /\ calls' = calls /\ told' = told
        /\ phase[w] = "open" /\ Len(told[w]) < Len(calls[w])
        /\ IdOf[NextCall(w).run] # Null /\ Conflicting(Visible(w), NextCall(w)) # {}
    BY <1>3 DEF MeetResult, HasCall, ResultTypeOK
  <2>2. NextCall(w)' = NextCall(w) /\ Visible(w)' = Visible(w)
    BY <2>1 DEF NextCall, Visible
  <2>3. Asks(w)'
    BY <2>1, <2>2 DEF Asks, Conflicting
  <2>4. HeldTo(w)'
    BY <2>1, <2>2 DEF HeldTo
  <2> QED BY <2>3, <2>4
<1>4. CASE ReadResult(w)
  <2>1. phase[w] = "met" /\ results' = results /\ calls' = calls
    BY <1>4 DEF ReadResult
  <2>2. CASE Found(w) = {}
    <3>1. told' = told /\ phase'[w] = "failed"
      BY <1>4, <2>2 DEF ReadResult, ResultTypeOK
    <3> QED BY <2>1, <3>1 DEF Asks, HeldTo
  <2>3. ASSUME NEW r \in Found(w), Tell(w, r),
               phase' = [phase EXCEPT ![w] = "open"], UNCHANGED draft
        PROVE  Asks(w)' /\ HeldTo(w)'
    <3>1. r \in Visible(w) /\ r.key = KeyOf(NextCall(w))
      BY <2>1, FoundHasKey
    <3>2. r \in StoredRows /\ phase'[w] = "open"
      BY <2>3, <3>1 DEF Visible, ResultTypeOK
    <3>3. Visible(w)' = Visible(w) /\ Len(told[w]) < Len(calls[w])
      BY <2>1, <2>3 DEF Visible, Asks
    <3> QED BY <2>1, <2>3, <3>1, <3>2, <3>3, ToldOneMore
  <2> QED BY <1>4, <2>2, <2>3 DEF ReadResult
<1>5. CASE GiveUp(w)
  <2>1. phase'[w] = "failed" /\ told' = told /\ calls' = calls
    BY <1>5 DEF GiveUp, ResultTypeOK
  <2> QED BY <2>1 DEF Asks, HeldTo
<1>6. CASE SendCommit(w)
  <2>1. /\ phase'[w] = "committing" /\ phase[w] = "open"
        /\ told' = told /\ calls' = calls /\ Visible(w)' = Visible(w)
    BY <1>6 DEF SendCommit, Visible, ResultTypeOK
  <2> QED BY <2>1 DEF Asks, HeldTo
<1>7. CASE Commit(w)
  <2>1. /\ phase'[w] = "done" /\ phase[w] = "committing"
        /\ told' = told /\ calls' = calls /\ Visible(w)' = Visible(w)
    BY <1>7, CommitPublishes DEF Commit, Visible
  <2> QED BY <2>1 DEF Asks, HeldTo
<1>8. CASE LoseAnswer(w)
  <2>1. phase'[w] = "failed" /\ told' = told /\ calls' = calls
    BY <1>8 DEF LoseAnswer, ResultTypeOK
  <2> QED BY <2>1 DEF Asks, HeldTo
<1> QED BY <1>1, <1>2, <1>3, <1>4, <1>5, <1>6, <1>7, <1>8

-----------------------------------------------------------------------------
(* What the tables promise *)

LEMMA ResultInvInit == ResultInit => ResultInv
<1> SUFFICES ASSUME ResultInit PROVE ResultInv
  OBVIOUS
<1>1. ResultTypeOK
  BY DEF ResultInit, ResultTypeOK
<1>2. \A w \in Writers : Asks(w) /\ HeldTo(w)
  <2> TAKE w \in Writers
  <2>1. told[w] = <<>> /\ calls[w] = <<>> /\ phase[w] = "idle"
    BY DEF ResultInit
  <2> QED BY <2>1 DEF Asks, HeldTo
<1>3. OneResultPerKey
  BY DEF ResultInit, OneResultPerKey, Visible
<1> QED BY <1>1, <1>2, <1>3 DEF ResultInv

LEMMA ResultInvStep == ResultInv /\ [ResultNext]_resultVars => ResultInv'
<1> SUFFICES ASSUME ResultInv, [ResultNext]_resultVars PROVE ResultInv'
  OBVIOUS
<1>1. CASE UNCHANGED resultVars
  BY <1>1 DEF resultVars, ResultInv, ResultTypeOK, Asks, HeldTo, OneResultPerKey,
              Visible, NextCall, Conflicting
<1>2. CASE ResultNext
  <2>1. ResultTypeOK'
    BY <1>2, TypeStep DEF ResultInv
  <2>2. OneResultPerKey'
    BY <1>2, KeyStep DEF ResultInv
  <2>3. ASSUME NEW w \in Writers,
               \/ Begin(w) \/ InsertResult(w) \/ MeetResult(w) \/ ReadResult(w)
               \/ GiveUp(w) \/ SendCommit(w) \/ Commit(w) \/ LoseAnswer(w)
        PROVE  \A u \in Writers : Asks(u)' /\ HeldTo(u)'
    <3>1. OnlyMoves(w)
      BY <2>3, StepOfWriter, InsertIsFresh, CommitPublishes DEF ResultInv
    <3>2. Asks(w)' /\ HeldTo(w)'
      BY <2>1, <2>3, ToldStep DEF ResultInv
    <3> QED BY <3>1, <3>2, OthersStand DEF ResultInv
  <2>4. \A u \in Writers : Asks(u)' /\ HeldTo(u)'
    BY <1>2, <2>3 DEF ResultNext, RefuseRun, Fail, BreakDeadlock
  <2> QED BY <2>1, <2>2, <2>4 DEF ResultInv
<1> QED BY <1>1, <1>2

LEMMA ResultInvariant == ResultSpec => []ResultInv
BY ResultInvInit, ResultInvStep, PTL DEF ResultSpec

\* In every reachable state no two rows, committed or in drafts, have the same
\* key, whatever writers race, repeat themselves, fail or deadlock.
THEOREM ResultKeys == ResultSpec => []OneResultPerKey
<1>1. ResultInv => OneResultPerKey
  BY DEF ResultInv
<1> QED BY <1>1, ResultInvariant, PTL

\* In every reachable state the query after an insert that did nothing finds
\* one row: the assertions of paper.py and strategy.py hold.
THEOREM ResultRead == ResultSpec => []MetResultFound
<1>1. ResultInv => MetResultFound
  <2> SUFFICES ASSUME ResultInv, NEW w \in Writers, phase[w] = "met"
               PROVE  \E r \in Visible(w) : Found(w) = {r}
    BY DEF MetResultFound
  <2>1. Found(w) = {r \in Visible(w) : r.key = KeyOf(NextCall(w))}
    BY FoundHasKey DEF ResultInv
  <2>2. PICK r \in Visible(w) : r.key = KeyOf(NextCall(w))
    BY DEF ResultInv, Asks, Conflicting, SameKey
  <2>3. \A s \in Visible(w) : s.key = r.key => s = r
    BY DEF ResultInv, OneResultPerKey, Visible
  <2> QED BY <2>1, <2>2, <2>3
<1> QED BY <1>1, ResultInvariant, PTL

\* In every reachable state what a caller was told is of the key it asked for,
\* and visible to it unless its transaction failed: committed once it is done.
THEOREM ResultTold == ResultSpec => []ToldStands
<1>1. ResultInv => ToldStands
  BY DEF ResultInv, ToldStands, HeldTo
<1> QED BY <1>1, ResultInvariant, PTL

-----------------------------------------------------------------------------
(* ResultStore implements MarketLedger *)

\* No earlier call of w's list has the key of the i-th.
First(w, i) == \A j \in 1 .. (i - 1) : KeyOf(calls[w][j]) # KeyOf(calls[w][i])

Stored(key) == \E x \in results : x.key = key

\* Of the calls w was answered, those whose rows are its own.
Own(w) ==
    {i \in DOMAIN told[w] : First(w, i) /\ ~Stored(KeyOf(calls[w][i]))}

\* The draft of an open transaction is what the ledger would take of the calls
\* made so far, were they handed over now.
Drafted(w) ==
    IF Open(w) THEN /\ calls[w] \in Lists
                    /\ draft[w] = {RowOf(calls[w][i]) : i \in Own(w)}
                    /\ phase[w] = "committing" => Len(told[w]) = Len(calls[w])
    ELSE draft[w] = {}

\* Another writer's step leaves it so: what is published meanwhile has keys
\* that were not this writer's.
LEMMA OthersDrafts ==
    ASSUME ResultInv, NEW w \in Writers, OnlyMoves(w),
           results' = results \/ results' = results \cup draft[w],
           NEW u \in Writers \ {w}, Drafted(u)
    PROVE  Drafted(u)'
<1>1. /\ phase'[u] = phase[u] /\ calls'[u] = calls[u] /\ told'[u] = told[u]
      /\ draft'[u] = draft[u]
  BY DEF OnlyMoves
<1>2. Open(u)' <=> Open(u)
  BY <1>1 DEF Open
<1>3. ASSUME Open(u) PROVE Own(u)' = Own(u)
  <2>1. ASSUME NEW i \in Own(u) PROVE ~Stored(KeyOf(calls[u][i]))'
    <3>1. RowOf(calls[u][i]) \in draft[u] /\ RowOf(calls[u][i]).key = KeyOf(calls[u][i])
      BY <1>3 DEF Drafted, RowOf
    <3>2. \A x \in draft[w] \cup results : x.key # KeyOf(calls[u][i])
      BY <3>1 DEF ResultInv, OneResultPerKey
    <3> QED BY <1>1, <3>2 DEF Stored
  <2>2. ASSUME NEW i, Stored(KeyOf(calls[u][i])) PROVE Stored(KeyOf(calls[u][i]))'
    BY <1>1, <2>2 DEF Stored
  <2> QED BY <1>1, <2>1, <2>2 DEF Own, First
<1> QED BY <1>1, <1>2, <1>3 DEF Drafted

\* One more call is answered: its row is in the draft just if it is the first
\* of its key, there and in the tables.
LEMMA OneMoreDrafted ==
    ASSUME ResultInv, NEW w \in Writers, Drafted(w), Open(w), Open(w)',
           NEW row, told'[w] = Append(told[w], row),
           calls' = calls, results' = results, phase'[w] = "open",
           Len(told[w]) < Len(calls[w]),
           IF Conflicting(Visible(w), NextCall(w)) = {}
           THEN draft'[w] = draft[w] \cup {RowOf(NextCall(w))}
           ELSE draft'[w] = draft[w]
    PROVE  Drafted(w)'
<1> DEFINE n == Len(told[w]) + 1
<1>1. /\ Len(told[w]) \in Nat /\ DOMAIN told[w] = 1 .. Len(told[w]) /\ told[w] \in Seq(StoredRows)
  BY NextCallIsListed DEF ResultInv, ResultTypeOK
<1>2. DOMAIN told'[w] = DOMAIN told[w] \cup {n} /\ n \notin DOMAIN told[w]
  BY <1>1
<1>3. Own(w)' = Own(w) \cup IF First(w, n) /\ ~Stored(KeyOf(calls[w][n])) THEN {n} ELSE {}
  BY <1>2 DEF Own, First, Stored
<1>4. calls[w][n] = NextCall(w)
  BY DEF NextCall
<1>5. First(w, n) /\ ~Stored(KeyOf(NextCall(w))) <=> Conflicting(Visible(w), NextCall(w)) = {}
  <2>1. ASSUME NEW r \in results, r.key = KeyOf(NextCall(w))
        PROVE  Stored(KeyOf(NextCall(w)))
    BY <2>1 DEF Stored
  <2>2. ASSUME NEW r \in draft[w], r.key = KeyOf(NextCall(w))
        PROVE  ~First(w, n)
    <3>1. PICK i \in Own(w) : r = RowOf(calls[w][i])
      BY DEF Drafted
    <3>2. i \in 1 .. n - 1 /\ KeyOf(calls[w][i]) = KeyOf(calls[w][n])
      BY <1>1, <1>4, <2>2, <3>1 DEF Own, RowOf
    <3> QED BY <3>2 DEF First
  <2>3. ASSUME ~First(w, n)
        PROVE  \E r \in Visible(w) : r.key = KeyOf(NextCall(w))
    <3>1. PICK j \in 1 .. n - 1 : KeyOf(calls[w][j]) = KeyOf(NextCall(w))
      BY <1>4, <2>3 DEF First
    <3>2. /\ j \in DOMAIN told[w]
      BY <1>1
    <3>3. told[w][j] \in Visible(w) /\ told[w][j].key = KeyOf(calls[w][j])
      BY <3>2 DEF ResultInv, HeldTo, Open
    <3> QED BY <3>1, <3>3
  <2>4. ASSUME Stored(KeyOf(NextCall(w)))
        PROVE  \E r \in Visible(w) : r.key = KeyOf(NextCall(w))
    BY <2>4 DEF Stored, Visible
  <2> QED BY <2>1, <2>2, <2>3, <2>4 DEF Conflicting, SameKey, Visible
<1>6. draft'[w] = {RowOf(calls[w][i]) : i \in Own(w)'}
  <2>1. draft[w] = {RowOf(calls[w][i]) : i \in Own(w)}
    BY DEF Drafted
  <2>2. CASE Conflicting(Visible(w), NextCall(w)) = {}
    <3>1. Own(w)' = Own(w) \cup {n}
      BY <1>3, <1>4, <1>5, <2>2
    <3> HIDE DEF n
    <3> QED BY <1>4, <2>1, <2>2, <3>1
  <2>3. CASE Conflicting(Visible(w), NextCall(w)) # {}
    <3>1. Own(w)' = Own(w)
      BY <1>3, <1>4, <1>5, <2>3
    <3> QED BY <2>1, <2>3, <3>1
  <2> QED BY <2>2, <2>3
<1> QED BY <1>6 DEF Drafted

LEMMA DraftStep ==
    ASSUME ResultInv, ResultInv', NEW w \in Writers, Drafted(w),
           \/ Begin(w) \/ InsertResult(w) \/ MeetResult(w) \/ ReadResult(w)
           \/ GiveUp(w) \/ SendCommit(w) \/ Commit(w) \/ LoseAnswer(w)
    PROVE  Drafted(w)'
<1> USE DEF ResultInv
<1>1. CASE Begin(w)
  <2>1. /\ told'[w] = <<>> /\ phase'[w] = "open" /\ draft'[w] = {} /\ calls'[w] \in Lists
    BY <1>1 DEF Begin, ResultTypeOK, Drafted, Open
  <2>2. Own(w)' = {}
    BY <2>1 DEF Own
  <2> QED BY <2>1, <2>2 DEF Drafted, Open
<1>2. CASE InsertResult(w)
  <2>1. /\ phase[w] = "open" /\ phase' = phase /\ calls' = calls
        /\ Len(told[w]) < Len(calls[w]) /\ Conflicting(Visible(w), NextCall(w)) = {}
        /\ told'[w] = Append(told[w], RowOf(NextCall(w)))
    BY <1>2 DEF InsertResult, HasCall, Tell, ResultTypeOK
  <2>2. results' = results /\ draft'[w] = draft[w] \cup {RowOf(NextCall(w))}
    BY <1>2, InsertIsFresh
  <2> QED BY <2>1, <2>2, OneMoreDrafted DEF Open
<1>3. CASE MeetResult(w)
  <2>1. /\ phase[w] = "open" /\ phase'[w] = "met"
        /\ results' = results /\ draft' = draft /\ calls' = calls /\ told' = told
    BY <1>3 DEF MeetResult, HasCall, ResultTypeOK
  <2> QED BY <2>1 DEF Drafted, Open, Own, First, Stored
<1>4. CASE ReadResult(w)
  <2>1. phase[w] = "met" /\ results' = results /\ calls' = calls
    BY <1>4 DEF ReadResult
  <2>2. CASE Found(w) = {}
    <3>1. draft'[w] = {} /\ phase'[w] = "failed"
      BY <1>4, <2>2 DEF ReadResult, ResultTypeOK
    <3> QED BY <3>1 DEF Drafted, Open
  <2>3. ASSUME NEW r \in Found(w), Tell(w, r),
               phase' = [phase EXCEPT ![w] = "open"], UNCHANGED draft
        PROVE  Drafted(w)'
    <3>1. phase'[w] = "open" /\ told'[w] = Append(told[w], r)
      BY <2>3 DEF Tell, ResultTypeOK
    <3>2. Len(told[w]) < Len(calls[w]) /\ Conflicting(Visible(w), NextCall(w)) # {}
      BY <2>1 DEF Asks
    <3> QED BY <2>1, <2>3, <3>1, <3>2, OneMoreDrafted DEF Open
  <2> QED BY <1>4, <2>2, <2>3 DEF ReadResult
<1>5. CASE GiveUp(w)
  <2>1. phase'[w] = "failed" /\ draft'[w] = {}
    BY <1>5 DEF GiveUp, ResultTypeOK
  <2> QED BY <2>1 DEF Drafted, Open
<1>6. CASE SendCommit(w)
  <2>1. /\ phase'[w] = "committing" /\ phase[w] = "open" /\ Len(told[w]) = Len(calls[w])
        /\ results' = results /\ draft' = draft /\ calls' = calls /\ told' = told
    BY <1>6 DEF SendCommit, ResultTypeOK
  <2> QED BY <2>1 DEF Drafted, Open, Own, First, Stored
<1>7. CASE Commit(w)
  <2>1. phase'[w] = "done" /\ draft'[w] = {}
    BY <1>7, CommitPublishes
  <2> QED BY <2>1 DEF Drafted, Open
<1>8. CASE LoseAnswer(w)
  <2>1. phase'[w] = "failed" /\ phase[w] = "done" /\ draft' = draft
    BY <1>8 DEF LoseAnswer, ResultTypeOK
  <2> QED BY <2>1 DEF Drafted, Open
<1> QED BY <1>1, <1>2, <1>3, <1>4, <1>5, <1>6, <1>7, <1>8

Offered == [w \in Writers |-> IF Open(w) THEN {OfferOf(calls[w])} ELSE {}]

\* Only w's offer changes when only w moves.
LEMMA OnlyItsOffer ==
    ASSUME NEW w \in Writers, OnlyMoves(w)
    PROVE  \A u \in Writers \ {w} : Offered'[u] = Offered[u]
BY DEF OnlyMoves, Offered, Open

\* The rows of a draft that is complete are those the ledger takes.
LEMMA DraftIsTaken ==
    ASSUME ResultInv, NEW w \in Writers, Drafted(w), phase[w] = "committing"
    PROVE  draft[w] = {r \in Ledger!Firsts(OfferOf(calls[w])) : ~Ledger!Known(r, results)}
<1>1. /\ DOMAIN told[w] = DOMAIN calls[w] /\ DOMAIN calls[w] = 1 .. Len(calls[w])
      /\ Len(calls[w]) \in Nat
  BY NextCallIsListed DEF Drafted, Open, ResultInv
<1> DEFINE list == OfferOf(calls[w])
<1>2. /\ DOMAIN list = DOMAIN calls[w]
      /\ \A i \in DOMAIN list : list[i] = RowOf(calls[w][i])
      /\ \A i \in DOMAIN list : list[i].key = KeyOf(calls[w][i])
  BY DEF OfferOf, RowOf
<1> HIDE DEF list
<1>3. Ledger!Firsts(list) = {list[i] : i \in {j \in DOMAIN list : First(w, j)}}
  <2>1. ASSUME NEW j \in DOMAIN list
        PROVE  (\A n \in DOMAIN list : n < j => list[n].key # list[j].key) <=> First(w, j)
    <3>1. \A n : n \in 1 .. (j - 1) <=> n \in DOMAIN list /\ n < j
      BY <1>1, <1>2
    <3> QED BY <1>2, <3>1 DEF First
  <2>2. {j \in DOMAIN list : \A n \in DOMAIN list : n < j => list[n].key # list[j].key}
        = {j \in DOMAIN list : First(w, j)}
    BY <2>1
  <2> QED BY <2>2 DEF Ledger!Firsts, KeyOfRow
<1>4. \A i \in DOMAIN list : Ledger!Known(list[i], results) <=> Stored(KeyOf(calls[w][i]))
  BY <1>2 DEF Ledger!Known, KeyOfRow, Stored
<1>5. draft[w] = {list[i] : i \in Own(w)}
  BY <1>1, <1>2 DEF Drafted, Open, Own
<1> QED BY <1>1, <1>2, <1>3, <1>4, <1>5 DEF Own, list

\* A step of the repositories is one of the ledger's, or leaves it alone.
LEMMA StepIsLedgers ==
    ASSUME ResultInv, ResultInv', NEW w \in Writers, Drafted(w), Drafted(w)',
           \/ Begin(w) \/ InsertResult(w) \/ MeetResult(w) \/ ReadResult(w)
           \/ (GiveUp(w) /\ Open(w)) \/ SendCommit(w) \/ Commit(w) \/ LoseAnswer(w)
    PROVE  \/ Ledger!Prepare(w) \/ Ledger!HandOver(w) \/ Ledger!GiveUp(w)
           \/ UNCHANGED <<results, Offered>>
<1> USE DEF ResultInv
<1>0. /\ \A u \in Writers \ {w} : Offered'[u] = Offered[u]
      /\ Offered[w] = IF Open(w) THEN {OfferOf(calls[w])} ELSE {}
      /\ Offered'[w] = IF Open(w)' THEN {OfferOf(calls'[w])} ELSE {}
      /\ Offered = [u \in Writers |-> Offered[u]]
      /\ Offered' = [u \in Writers |-> Offered'[u]]
  <2>1. OnlyMoves(w)
    BY StepOfWriter, InsertIsFresh, CommitPublishes
  <2>2. \A u \in Writers \ {w} : Offered'[u] = Offered[u]
    BY <2>1, OnlyItsOffer
  <2> QED BY <2>2 DEF Offered
<1>1. CASE Begin(w)
  <2>1. ~Open(w) /\ Open(w)' /\ results' = results
    BY <1>1 DEF Begin, Open, ResultTypeOK
  <2>2. \E list : Offered'[w] = {list} /\ DOMAIN list \subseteq Nat
    <3>1. PICK calling \in Lists : calls'[w] = calling
      BY <1>1 DEF Begin, ResultTypeOK
    <3>2. DOMAIN calling \subseteq Nat
      BY StoreAssumption
    <3>3. Offered'[w] = {OfferOf(calling)} /\ DOMAIN OfferOf(calling) \subseteq Nat
      BY <1>0, <2>1, <3>1, <3>2 DEF OfferOf
    <3> QED BY <3>3
  <2> QED BY <1>0, <2>1, <2>2 DEF Ledger!Prepare, Offered
<1>2. CASE Commit(w)
  <2>1. /\ Open(w) /\ ~Open(w)' /\ phase[w] = "committing"
        /\ results' = results \cup draft[w]
    BY <1>2, CommitPublishes DEF Commit, Open
  <2>2. Offered' = [Offered EXCEPT ![w] = {}]
    BY <1>0, <2>1
  <2>3. Offered[w] = {OfferOf(calls[w])}
    BY <1>0, <2>1
  <2> QED BY <2>1, <2>2, <2>3, DraftIsTaken DEF Ledger!HandOver, Offered
<1>3. CASE GiveUp(w) /\ Open(w)
  <2>1. ~Open(w)' /\ results' = results
    BY <1>3 DEF GiveUp, Open, ResultTypeOK
  <2>2. Offered' = [Offered EXCEPT ![w] = {}]
    BY <1>0, <2>1
  <2> QED BY <1>0, <1>3, <2>1, <2>2 DEF Ledger!GiveUp, Offered
<1>4. CASE ReadResult(w) /\ Found(w) = {}
  <2>1. Open(w) /\ ~Open(w)' /\ results' = results
    BY <1>4 DEF ReadResult, Open, ResultTypeOK
  <2>2. Offered' = [Offered EXCEPT ![w] = {}]
    BY <1>0, <2>1
  <2> QED BY <1>0, <2>1, <2>2 DEF Ledger!GiveUp, Offered
<1>5. ASSUME Open(w)' <=> Open(w), calls'[w] = calls[w], results' = results
      PROVE  UNCHANGED <<results, Offered>>
  <2>1. Offered'[w] = Offered[w]
    BY <1>0, <1>5
  <2> QED BY <1>0, <1>5, <2>1
<1>6. CASE InsertResult(w)
  BY <1>5, <1>6 DEF InsertResult, Open
<1>7. CASE MeetResult(w)
  BY <1>5, <1>7 DEF MeetResult, HasCall, Open, ResultTypeOK
<1>8. CASE ReadResult(w) /\ Found(w) # {}
  BY <1>5, <1>8 DEF ReadResult, Open, ResultTypeOK
<1>9. CASE SendCommit(w)
  BY <1>5, <1>9 DEF SendCommit, Open, ResultTypeOK
<1>10. CASE LoseAnswer(w)
  BY <1>5, <1>10 DEF LoseAnswer, Open, ResultTypeOK
<1> QED BY <1>1, <1>2, <1>3, <1>4, <1>6, <1>7, <1>8, <1>9, <1>10

\* The repositories implement the ledger of first rows: a result, once stored,
\* stands, and a transaction's results come together or not at all.
THEOREM ResultsImplementLedger == ResultSpec => FirstResultStands
<1> DEFINE Inv == ResultInv /\ \A w \in Writers : Drafted(w)
<1>1. ResultInit => Inv
  <2> SUFFICES ASSUME ResultInit, NEW w \in Writers PROVE Drafted(w)
    BY ResultInvInit
  <2> QED BY DEF ResultInit, Drafted, Open
<1>2. Inv /\ ResultInv' /\ [ResultNext]_resultVars
      => Inv' /\ [Ledger!Next]_<<results, Offered>>
  <2> SUFFICES ASSUME Inv, ResultInv', [ResultNext]_resultVars
               PROVE  Inv' /\ [Ledger!Next]_<<results, Offered>>
    OBVIOUS
  <2>1. CASE UNCHANGED resultVars
    BY <2>1 DEF resultVars, Drafted, Open, Own, First, Stored, Offered
  <2>2. ASSUME NEW w \in Writers,
               \/ Begin(w) \/ InsertResult(w) \/ MeetResult(w) \/ ReadResult(w)
               \/ (GiveUp(w) /\ Open(w)) \/ SendCommit(w) \/ Commit(w) \/ LoseAnswer(w)
        PROVE  Inv' /\ [Ledger!Next]_<<results, Offered>>
    <3>1. Drafted(w)'
      BY <2>2, DraftStep
    <3>2. OnlyMoves(w) /\ (results' = results \/ results' = results \cup draft[w])
      BY <2>2, StepOfWriter, InsertIsFresh, CommitPublishes DEF ResultInv, Recedes
    <3>3. \A u \in Writers \ {w} : Drafted(u)'
      BY <3>2, OthersDrafts
    <3>4. \/ Ledger!Prepare(w) \/ Ledger!HandOver(w) \/ Ledger!GiveUp(w)
          \/ UNCHANGED <<results, Offered>>
      BY <2>2, <3>1, StepIsLedgers
    <3> QED BY <3>1, <3>3, <3>4 DEF Ledger!Next
  <2>3. ASSUME NEW w \in Writers, RefuseRun(w) \/ Fail(w) \/ BreakDeadlock(w)
        PROVE  GiveUp(w) /\ Open(w)
    BY <2>3 DEF RefuseRun, Fail, BreakDeadlock, InDeadlock, WaitsFor, HasCall, Open
  <2>4. CASE ResultNext
    BY <2>2, <2>3, <2>4 DEF ResultNext
  <2> QED BY <2>1, <2>4
<1>3. ResultInit => Ledger!Init
  <2> SUFFICES ASSUME ResultInit PROVE Ledger!Init
    OBVIOUS
  <2>1. \A w \in Writers : ~Open(w)
    BY DEF ResultInit, Open
  <2> QED BY <2>1 DEF ResultInit, Ledger!Init
<1>4. ResultSpec => []Inv /\ [][Ledger!Next]_<<results, Offered>>
  BY <1>1, <1>2, ResultInvariant, PTL DEF ResultSpec
<1> QED BY <1>3, <1>4, PTL DEF ResultSpec, FirstResultStands, Ledger!Spec, Offered

=============================================================================
