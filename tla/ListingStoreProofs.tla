------------------------- MODULE ListingStoreProofs -------------------------
(***************************************************************************)
(* Proofs about ListingStore, for any sets of processes, keys, instants    *)
(* and feeds.                                                              *)
(***************************************************************************)
EXTENDS ListingStore, WellFoundedInduction, TLAPS

\* The strengthening of FirstSeenIsEarliest that every step preserves.
IInv == TypeOK /\ LockDiscipline /\ FirstSeenIsEarliest

-----------------------------------------------------------------------------
(* The statement *)

\* The statement turns a row, or none, into a row.
LEMMA MergeType ==
    ASSUME NEW old \in Rows \cup {NoRow}, NEW e \in Events
    PROVE  Merge(old, e) \in Rows
  BY DEF Merge, Coalesce, Least, Rows, Events

\* If a row accounts for E, the row the statement leaves accounts for E and
\* the event it wrote.
LEMMA MergeAccounts ==
    ASSUME NEW old \in Rows \cup {NoRow}, NEW e \in Events,
           NEW E \in SUBSET Events, Accounts(old, E, e.key)
    PROVE  Accounts(Merge(old, e), E \cup {e}, e.key)
  <1> DEFINE k == e.key
             R(F) == {x.first : x \in {y \in F : y.key = k}}
  <1>1. R(E \cup {e}) = R(E) \cup {e.first}
    OBVIOUS
  <1>2. /\ Merge(old, e) # NoRow
        /\ \A t \in R(E) : t \in Nat
        /\ e.first \in Nat
    BY MergeType, NoRowAssumption, TimesAssumption DEF Events
  <1>3. CASE R(E) = {}
    <2>1. Merge(old, e).first = e.first
      BY <1>3 DEF Accounts, Merge
    <2> QED
      BY <1>1, <1>2, <1>3, <2>1 DEF Accounts
  <1>4. CASE R(E) # {}
    <2>1. old # NoRow /\ old.first \in R(E) /\ \A t \in R(E) : old.first <= t
      BY <1>4 DEF Accounts
    <2>2. Merge(old, e).first = Least(old.first, e.first)
      BY <2>1 DEF Merge
    <2>3. /\ Merge(old, e).first \in R(E) \cup {e.first}
          /\ \A t \in R(E) \cup {e.first} : Merge(old, e).first <= t
      BY <1>2, <2>1, <2>2 DEF Least
    <2> QED
      BY <1>1, <1>2, <2>3 DEF Accounts
  <1> QED
    BY <1>3, <1>4

\* Accounting for key k only looks at the events about k.
LEMMA AccountsLocal ==
    ASSUME NEW r, NEW E, NEW F, NEW k,
           \A e : e.key = k => (e \in E <=> e \in F)
    PROVE  Accounts(r, E, k) <=> Accounts(r, F, k)
  <1>1. {x \in E : x.key = k} = {x \in F : x.key = k}
    OBVIOUS
  <1> QED
    BY <1>1 DEF Accounts

-----------------------------------------------------------------------------
(* Types *)

\* While events are left, the next one is an event about one of the keys.
LEMMA NextEventType ==
    ASSUME TypeOK, NEW s \in Sessions, Upsert(s)
    PROVE  /\ done[s] + 1 \in DOMAIN batch[s]
           /\ NextEvent(s) \in Events
           /\ NextEvent(s).key \in Keys
           /\ holder[NextEvent(s).key] \in {s, Nobody}
  <1>1. done[s] + 1 \in DOMAIN batch[s] /\ batch[s] \in Seq(Events)
    BY DEF TypeOK, Upsert, HasNext
  <1>2. batch[s][done[s] + 1] \in Events
    BY <1>1
  <1> QED
    BY <1>1, <1>2 DEF Upsert, NextEvent, WaitsFor, Events

\* No step of a process leaves the declared types.
LEMMA ProcessTypes ==
    ASSUME TypeOK, NEW s \in Sessions, phase[s] = "fetching" => asked[s] < 3,
           \/ StartCycle(s) \/ FeedAnswers(s) \/ Upsert(s) \/ SendCommit(s)
           \/ Commit(s) \/ Return(s) \/ RollBack(s) \/ Interrupt(s)
    PROVE  TypeOK'
  <1>1. CASE StartCycle(s)
    BY <1>1 DEF StartCycle, TypeOK, Phases
  <1>2. CASE FeedAnswers(s)
    <2>0. asked[s] < 3 /\ asked[s] \in 0..3
      BY <1>2 DEF FeedAnswers, TypeOK
    <2>1. asked[s] + 1 \in Feeds
      BY <2>0 DEF Feeds
    <2>2. PICK list \in Answers[asked[s] + 1] :
              batch' = [batch EXCEPT ![s] = @ \o list]
      BY <1>2 DEF FeedAnswers
    <2>3. batch' \in [Sessions -> Seq(Events)]
      BY <2>1, <2>2, AnswersAssumption DEF TypeOK
    <2> QED
      BY <1>2, <2>1, <2>3 DEF FeedAnswers, TypeOK, Phases, Feeds
  <1>3. CASE Upsert(s)
    <2>1. NextEvent(s) \in Events /\ NextEvent(s).key \in Keys
      BY <1>3, NextEventType
    <2>2. Visible(s, NextEvent(s).key) \in Rows \cup {NoRow}
      BY <2>1 DEF Visible, TypeOK
    <2>3. Merge(Visible(s, NextEvent(s).key), NextEvent(s)) \in Rows
      BY <2>1, <2>2, MergeType
    <2> QED
      BY <1>3, <2>1, <2>3 DEF Upsert, TypeOK
  <1>4. CASE SendCommit(s)
    BY <1>4 DEF SendCommit, TypeOK, Phases
  <1>5. CASE Commit(s)
    <2>1. EventsOf(batch[s]) \subseteq Events
      BY DEF EventsOf, TypeOK
    <2>2. \A k \in Keys : Visible(s, k) \in Rows \cup {NoRow}
      BY DEF Visible, TypeOK
    <2> QED
      BY <1>5, <2>1, <2>2 DEF Commit, Release, NoDraft, TypeOK, Phases
  <1>6. CASE Return(s)
    BY <1>6 DEF Return, Forget, TypeOK, Phases
  <1>7. CASE RollBack(s)
    BY <1>7 DEF RollBack, Release, Forget, NoDraft, TypeOK, Phases
  <1>8. CASE Interrupt(s)
    BY <1>8 DEF Interrupt, Forget, TypeOK, Phases
  <1> QED
    BY <1>1, <1>2, <1>3, <1>4, <1>5, <1>6, <1>7, <1>8

LEMMA StepTypes == IInv /\ [Next]_vars => TypeOK'
  <1> SUFFICES ASSUME IInv, [Next]_vars PROVE TypeOK'
    OBVIOUS
  <1>1. CASE UNCHANGED vars
    BY <1>1 DEF vars, TypeOK, IInv
  <1>2. \A s \in Sessions : phase[s] = "fetching" => asked[s] < 3
    BY DEF IInv, LockDiscipline, InOrder
  <1> QED
    BY <1>1, <1>2, ProcessTypes DEF IInv, Next, Fail, DeadlockAbort

-----------------------------------------------------------------------------
(* Transactions *)

\* Every event a session has written is an event about one of the keys.
LEMMA WrittenType ==
    ASSUME TypeOK, NEW s \in Sessions, InOrder(s), NEW i \in 1..done[s]
    PROVE  batch[s][i] \in Events /\ batch[s][i].key \in Keys
  <1>1. i \in 1..Len(batch[s]) /\ batch[s] \in Seq(Events)
    BY DEF InOrder, TypeOK
  <1>2. batch[s][i] \in Events
    BY <1>1
  <1> QED
    BY <1>2 DEF Events

\* Every step keeps each session writing its batch in order, on keys that
\* stay its own.
LEMMA StepOrder ==
    ASSUME IInv, [Next]_vars, NEW t \in Sessions
    PROVE  InOrder(t)'
  <1> USE DEF IInv, LockDiscipline
  <1>0. InOrder(t) /\ TypeOK /\ TypeOK'
    BY StepTypes
  <1>k. \A i \in 1..done[t] : batch[t][i].key \in Keys
    BY <1>0, WrittenType
  <1>1. ASSUME NEW s \in Sessions, StartCycle(s) PROVE InOrder(t)'
    BY <1>0, <1>1 DEF StartCycle, TypeOK, InOrder
  <1>2. ASSUME NEW s \in Sessions, FeedAnswers(s) PROVE InOrder(t)'
    <2>1. CASE t = s
      <3>1. done'[t] = 0 /\ Len(batch'[t]) \in Nat
        BY <1>0, <1>2, <2>1 DEF FeedAnswers, InOrder, TypeOK
      <3>2. asked'[t] = asked[t] + 1 /\ asked[t] < 3 /\ asked[t] \in 0..3
        BY <1>0, <1>2, <2>1 DEF FeedAnswers, InOrder, TypeOK
      <3>3. phase'[t] = IF asked[t] + 1 = 3 THEN "writing" ELSE "fetching"
        BY <1>0, <1>2, <2>1 DEF FeedAnswers, TypeOK
      <3> QED
        BY <3>1, <3>2, <3>3 DEF InOrder
    <2>2. CASE t # s
      BY <1>0, <1>2, <2>2 DEF FeedAnswers, TypeOK, InOrder
    <2> QED
      BY <2>1, <2>2
  <1>3. ASSUME NEW s \in Sessions, Upsert(s) PROVE InOrder(t)'
    <2> DEFINE k == NextEvent(s).key
    <2>1. /\ k \in Keys
          /\ holder[k] \in {s, Nobody}
          /\ holder' = [holder EXCEPT ![k] = s]
          /\ done' = [done EXCEPT ![s] = @ + 1]
          /\ UNCHANGED <<phase, asked, batch>>
          /\ phase[s] = "writing" /\ done[s] < Len(batch[s])
      BY <1>0, <1>3, NextEventType DEF Upsert, HasNext
    <2>2. CASE t = s
      BY <1>0, <2>1, <2>2 DEF InOrder, TypeOK, NextEvent
    <2>3. CASE t # s
      BY <1>0, <2>1, <2>3, SessionsAssumption DEF InOrder, TypeOK
    <2> QED
      BY <2>2, <2>3
  <1>4. ASSUME NEW s \in Sessions, SendCommit(s) PROVE InOrder(t)'
    BY <1>0, <1>4 DEF SendCommit, TypeOK, InOrder
  <1>5. ASSUME NEW s \in Sessions, Commit(s) PROVE InOrder(t)'
    <2>1. CASE t = s
      BY <1>0, <1>5, <2>1 DEF Commit, Release, TypeOK, InOrder
    <2>2. CASE t # s
      BY <1>0, <1>k, <1>5, <2>2 DEF Commit, Release, TypeOK, InOrder
    <2> QED
      BY <2>1, <2>2
  <1>6. ASSUME NEW s \in Sessions, Return(s) PROVE InOrder(t)'
    BY <1>0, <1>6 DEF Return, Forget, TypeOK, InOrder
  <1>7. ASSUME NEW s \in Sessions, RollBack(s) PROVE InOrder(t)'
    <2>1. CASE t = s
      BY <1>0, <1>7, <2>1 DEF RollBack, Forget, TypeOK, InOrder
    <2>2. CASE t # s
      BY <1>0, <1>k, <1>7, <2>2 DEF RollBack, Release, Forget, TypeOK, InOrder
    <2> QED
      BY <2>1, <2>2
  <1>8. ASSUME NEW s \in Sessions, Interrupt(s) PROVE InOrder(t)'
    BY <1>0, <1>8 DEF Interrupt, Forget, TypeOK, InOrder
  <1>9. CASE UNCHANGED vars
    BY <1>0, <1>9 DEF vars, InOrder
  <1> QED
    BY <1>1, <1>2, <1>3, <1>4, <1>5, <1>6, <1>7, <1>8, <1>9
    DEF Next, Fail, DeadlockAbort

\* Outside the session that steps, what a session has written stays.
LEMMA WrittenStays ==
    ASSUME NEW t \in Sessions, batch'[t] = batch[t], done'[t] = done[t]
    PROVE  Written(t)' = Written(t)
  BY DEF Written

\* Every step keeps the drafts accounting for what is committed and for what
\* their sessions have written.
LEMMA StepDrafts ==
    ASSUME IInv, [Next]_vars, NEW t \in Sessions, NEW k \in Keys
    PROVE  DraftAccounts(t, k)'
  <1> USE DEF IInv
  <1>0. /\ DraftAccounts(t, k) /\ InOrder(t) /\ TypeOK /\ TypeOK'
        /\ \A s \in Sessions : DraftAccounts(s, k) /\ InOrder(s)
    BY StepTypes DEF LockDiscipline
  <1>1. SUFFICES ASSUME holder'[k] = t PROVE DraftAccounts(t, k)'
    BY DEF DraftAccounts
  <1>2. ASSUME NEW s \in Sessions, StartCycle(s) \/ FeedAnswers(s) \/ Return(s) \/ Interrupt(s)
        PROVE DraftAccounts(t, k)'
    <2>1. /\ UNCHANGED <<tokens, holder, draft, accepted>>
          /\ phase[s] \notin {"writing", "committing"}
      BY <1>2 DEF StartCycle, FeedAnswers, Return, Interrupt
    <2>2. t # s /\ holder[k] = t
      BY <1>0, <1>1, <2>1, SessionsAssumption DEF DraftAccounts
    <2>3. batch'[t] = batch[t] /\ done'[t] = done[t] /\ phase'[t] = phase[t]
      BY <1>0, <1>2, <2>2
      DEF StartCycle, FeedAnswers, Return, Interrupt, Forget, TypeOK
    <2>4. Written(t)' = Written(t)
      BY <2>3, WrittenStays
    <2> QED
      BY <1>0, <2>1, <2>2, <2>3, <2>4 DEF DraftAccounts
  <1>3. ASSUME NEW s \in Sessions, Upsert(s) PROVE DraftAccounts(t, k)'
    <2> DEFINE e == NextEvent(s)
    <2>1. /\ e \in Events /\ e.key \in Keys
          /\ holder[e.key] \in {s, Nobody}
          /\ done[s] + 1 \in DOMAIN batch[s]
          /\ holder' = [holder EXCEPT ![e.key] = s]
          /\ draft' = [draft EXCEPT ![s][e.key] = Merge(Visible(s, e.key), e)]
          /\ done' = [done EXCEPT ![s] = @ + 1]
          /\ UNCHANGED <<tokens, phase, asked, batch, accepted>>
          /\ phase[s] = "writing"
      BY <1>0, <1>3, NextEventType DEF Upsert, HasNext
    <2>2. CASE t # s
      <3>1. holder[k] = t /\ k # e.key /\ draft'[t] = draft[t]
        BY <1>0, <1>1, <2>1, <2>2 DEF TypeOK
      <3>2. Written(t)' = Written(t)
        BY <1>0, <2>1, <2>2, WrittenStays DEF TypeOK
      <3> QED
        BY <1>0, <2>1, <3>1, <3>2 DEF DraftAccounts
    <2>3. CASE t = s
      <3>1. Written(s)' = Written(s) \cup {e}
        <4>1. done'[s] = done[s] + 1 /\ done[s] \in Nat /\ batch' = batch
          BY <1>0, <2>1 DEF TypeOK
        <4>2. e = batch[s][done[s] + 1]
          BY DEF NextEvent
        <4> QED
          BY <4>1, <4>2 DEF Written
      <3>2. CASE k = e.key
        <4>1. Visible(s, k) \in Rows \cup {NoRow}
          BY <1>0 DEF Visible, TypeOK
        <4>2. accepted \cup Written(s) \in SUBSET Events
          BY <1>0, <2>3, WrittenType DEF Written, TypeOK
        <4>3. Accounts(Visible(s, k), accepted \cup Written(s), k)
          <5>1. CASE holder[k] = s
            BY <1>0, <2>3, <5>1 DEF DraftAccounts, Visible
          <5>2. CASE holder[k] = Nobody
            <6>1. \A x \in Written(s) : holder[x.key] = s
              BY <1>0, <2>1, <2>3 DEF InOrder, Written
            <6>2. \A x : x.key = k =>
                      (x \in accepted <=> x \in accepted \cup Written(s))
              BY <5>2, <6>1, SessionsAssumption
            <6>3. Accounts(tokens[k], accepted, k)
              BY DEF FirstSeenIsEarliest
            <6>4. Accounts(tokens[k], accepted \cup Written(s), k)
              BY <6>2, <6>3, AccountsLocal
            <6> QED
              BY <5>2, <6>4, SessionsAssumption DEF Visible
          <5> QED
            BY <2>1, <3>2, <5>1, <5>2
        <4>4. Accounts(Merge(Visible(s, k), e), (accepted \cup Written(s)) \cup {e}, k)
          BY <2>1, <3>2, <4>1, <4>2, <4>3, MergeAccounts
        <4>5. draft'[s][k] = Merge(Visible(s, k), e)
          BY <1>0, <2>1, <3>2 DEF TypeOK
        <4>6. (tokens[k] # NoRow /\ tokens[k].created # Null) =>
                 /\ Visible(s, k) # NoRow
                 /\ Visible(s, k).created = tokens[k].created
          <5>1. CASE holder[k] = s
            <6>1. draft[s][k].created = tokens[k].created \/ tokens[k] = NoRow
                                                         \/ tokens[k].created = Null
              BY <1>0, <2>3, <5>1 DEF DraftAccounts
            <6>2. tokens[k] # NoRow => draft[s][k] # NoRow
              <7>1. Accounts(tokens[k], accepted, k)
                BY DEF FirstSeenIsEarliest
              <7>2. Accounts(draft[s][k], accepted \cup Written(s), k)
                BY <1>0, <2>3, <5>1 DEF DraftAccounts
              <7> QED
                BY <7>1, <7>2 DEF Accounts
            <6> QED
              BY <5>1, <6>1, <6>2 DEF Visible
          <5>2. CASE holder[k] = Nobody
            BY <5>2, SessionsAssumption DEF Visible
          <5> QED
            BY <2>1, <3>2, <5>1, <5>2
        <4>7. (tokens[k] # NoRow /\ tokens[k].created # Null) =>
                 Merge(Visible(s, k), e).created = tokens[k].created
          BY <4>6 DEF Merge, Coalesce
        <4>8. accepted' \cup Written(t)' = (accepted \cup Written(s)) \cup {e}
          BY <2>1, <2>3, <3>1
        <4> QED
          BY <2>1, <2>3, <4>4, <4>5, <4>7, <4>8 DEF DraftAccounts
      <3>3. CASE k # e.key
        <4>1. holder[k] = t /\ draft'[t][k] = draft[t][k]
          BY <1>0, <1>1, <2>1, <2>3, <3>3 DEF TypeOK
        <4>2. \A x : x.key = k =>
                  (x \in accepted \cup Written(s)
                   <=> x \in (accepted \cup Written(s)) \cup {e})
          BY <3>3
        <4>3. Accounts(draft[t][k], (accepted \cup Written(s)) \cup {e}, k)
          BY <1>0, <2>3, <4>1, <4>2, AccountsLocal DEF DraftAccounts
        <4>4. accepted' \cup Written(t)' = (accepted \cup Written(s)) \cup {e}
          BY <2>1, <2>3, <3>1
        <4> QED
          BY <1>0, <2>1, <2>3, <4>1, <4>3, <4>4 DEF DraftAccounts
      <3> QED
        BY <3>2, <3>3
    <2> QED
      BY <2>2, <2>3
  <1>4. ASSUME NEW s \in Sessions, SendCommit(s) PROVE DraftAccounts(t, k)'
    <2>1. UNCHANGED <<tokens, holder, draft, batch, done, accepted>>
      BY <1>4 DEF SendCommit
    <2>2. phase'[t] \in {"writing", "committing"}
      BY <1>0, <1>1, <1>4 DEF SendCommit, DraftAccounts, TypeOK
    <2> QED
      BY <1>0, <1>1, <2>1, <2>2, WrittenStays DEF DraftAccounts
  <1>5. ASSUME NEW s \in Sessions, Commit(s) PROVE DraftAccounts(t, k)'
    <2>1. /\ phase[s] = "committing" /\ done[s] = Len(batch[s])
          /\ UNCHANGED <<batch, done>>
          /\ accepted' = accepted \cup EventsOf(batch[s])
          /\ tokens'[k] = Visible(s, k)
          /\ holder'[k] = IF holder[k] = s THEN Nobody ELSE holder[k]
      BY <1>0, <1>5 DEF Commit, Release, InOrder
    <2>2. t # s /\ holder[k] = t
      BY <1>1, <2>1, SessionsAssumption
    <2>3. draft'[t] = draft[t] /\ phase'[t] = phase[t] /\ tokens'[k] = tokens[k]
      BY <1>0, <1>5, <2>1, <2>2 DEF Commit, Release, TypeOK, Visible
    <2>4. \A x \in EventsOf(batch[s]) : holder[x.key] = s
      <3>1. DOMAIN batch[s] = 1..done[s]
        BY <1>0, <2>1 DEF TypeOK
      <3> QED
        BY <1>0, <2>1, <3>1 DEF InOrder, EventsOf
    <2>5. \A x : x.key = k =>
              (x \in accepted \cup Written(t) <=> x \in accepted' \cup Written(t))
      BY <2>1, <2>2, <2>4
    <2>6. Accounts(draft[t][k], accepted' \cup Written(t), k)
      BY <1>0, <2>2, <2>5, AccountsLocal DEF DraftAccounts
    <2>7. Written(t)' = Written(t)
      BY <2>1, WrittenStays
    <2> QED
      BY <1>0, <2>2, <2>3, <2>6, <2>7 DEF DraftAccounts
  <1>6. ASSUME NEW s \in Sessions, RollBack(s) PROVE DraftAccounts(t, k)'
    <2>1. /\ UNCHANGED <<tokens, accepted>>
          /\ holder'[k] = IF holder[k] = s THEN Nobody ELSE holder[k]
      BY <1>6 DEF RollBack, Release
    <2>2. t # s /\ holder[k] = t
      BY <1>1, <2>1, SessionsAssumption
    <2>3. /\ draft'[t] = draft[t] /\ phase'[t] = phase[t]
          /\ batch'[t] = batch[t] /\ done'[t] = done[t]
      BY <1>0, <1>6, <2>2 DEF RollBack, Release, Forget, TypeOK
    <2>4. Written(t)' = Written(t)
      BY <2>3, WrittenStays
    <2> QED
      BY <1>0, <2>1, <2>2, <2>3, <2>4 DEF DraftAccounts
  <1>7. CASE UNCHANGED vars
    BY <1>0, <1>7 DEF vars, DraftAccounts, Written
  <1>8. \/ UNCHANGED vars
        \/ \E s \in Sessions :
              \/ StartCycle(s) \/ FeedAnswers(s) \/ Return(s) \/ Interrupt(s)
              \/ Upsert(s) \/ SendCommit(s) \/ Commit(s) \/ RollBack(s)
    BY DEF Next, Fail, DeadlockAbort
  <1> QED
    BY <1>2, <1>3, <1>4, <1>5, <1>6, <1>7, <1>8

-----------------------------------------------------------------------------
(* The committed table *)

\* A commit turns the row of every key into the draft of the session, if it
\* holds the key; every other step leaves the table alone.
LEMMA TableChange ==
    ASSUME [Next]_vars
    PROVE  \/ UNCHANGED <<tokens, accepted>>
           \/ \E s \in Sessions : Commit(s)
  BY DEF Next, vars, StartCycle, FeedAnswers, Upsert, SendCommit, Return,
         Fail, DeadlockAbort, RollBack, Interrupt

\* Every step keeps every committed row accounting for the committed cycles.
LEMMA StepFirstSeen ==
    ASSUME IInv, [Next]_vars
    PROVE  FirstSeenIsEarliest'
  <1> USE DEF IInv
  <1>1. CASE UNCHANGED <<tokens, accepted>>
    BY <1>1 DEF FirstSeenIsEarliest
  <1>2. ASSUME NEW s \in Sessions, Commit(s), NEW k \in Keys
        PROVE  Accounts(tokens'[k], accepted', k)
    <2>1. /\ phase[s] = "committing" /\ done[s] = Len(batch[s])
          /\ accepted' = accepted \cup EventsOf(batch[s])
          /\ tokens'[k] = Visible(s, k)
      BY <1>2 DEF Commit, LockDiscipline, InOrder
    <2>2. Written(s) = EventsOf(batch[s])
      <3>1. DOMAIN batch[s] = 1..done[s]
        BY <2>1 DEF TypeOK
      <3> QED
        BY <3>1 DEF Written, EventsOf
    <2>3. CASE holder[k] = s
      BY <2>1, <2>2, <2>3 DEF Visible, LockDiscipline, DraftAccounts
    <2>4. CASE holder[k] # s
      <3>1. \A x \in Written(s) : holder[x.key] = s
        BY <2>1 DEF LockDiscipline, InOrder, Written
      <3>2. \A x : x.key = k => (x \in accepted <=> x \in accepted')
        BY <2>1, <2>2, <2>4, <3>1
      <3>3. Accounts(tokens[k], accepted, k)
        BY DEF FirstSeenIsEarliest
      <3> QED
        BY <2>1, <2>4, <3>2, <3>3, AccountsLocal DEF Visible
    <2> QED
      BY <2>3, <2>4
  <1> QED
    BY <1>1, <1>2, TableChange DEF FirstSeenIsEarliest

LEMMA InitInv == Init => IInv
  <1> SUFFICES ASSUME Init PROVE IInv
    OBVIOUS
  <1>1. TypeOK
    BY DEF Init, TypeOK, NoDraft, Phases
  <1>2. ASSUME NEW s \in Sessions PROVE InOrder(s)
    BY DEF Init, InOrder
  <1>3. ASSUME NEW s \in Sessions, NEW k \in Keys PROVE DraftAccounts(s, k)
    BY SessionsAssumption DEF Init, DraftAccounts
  <1>4. FirstSeenIsEarliest
    BY DEF Init, FirstSeenIsEarliest, Accounts
  <1> QED
    BY <1>1, <1>2, <1>3, <1>4 DEF IInv, LockDiscipline

LEMMA StepInv == IInv /\ [Next]_vars => IInv'
  BY StepTypes, StepOrder, StepDrafts, StepFirstSeen DEF IInv, LockDiscipline

\* The inductive invariant holds of every reachable state.
THEOREM Invariance == Spec => []IInv
  BY InitInv, StepInv, PTL DEF Spec

\* Every reachable state has the types the module declares.
THEOREM TypeCorrect == Spec => []TypeOK
  BY Invariance, PTL DEF IInv

\* However many processes run, in whatever order their transactions commit,
\* fail or are aborted, no update of a token is lost: the table says of every
\* token the earliest first_seen_time that any committed cycle reported.
THEOREM FirstSeenCorrect == Spec => []FirstSeenIsEarliest
  BY Invariance, PTL DEF IInv

\* No session ever works on a key another open transaction has written, and
\* a session that has stopped holds no key.
THEOREM LockDisciplineCorrect == Spec => []LockDiscipline
  BY Invariance, PTL DEF IInv

\* What a step may do to the row of k.
LEMMA StepKnowledge ==
    ASSUME IInv, [Next]_vars, NEW k \in Keys, tokens[k] # NoRow
    PROVE  /\ tokens'[k] # NoRow
           /\ tokens'[k].first <= tokens[k].first
           /\ tokens[k].created # Null => tokens'[k].created = tokens[k].created
  <1> USE DEF IInv
  <1>1. /\ tokens[k] \in Rows /\ tokens[k].first \in Nat
        /\ tokens[k].first \in {e.first : e \in {x \in accepted : x.key = k}}
    BY TimesAssumption DEF TypeOK, Rows, FirstSeenIsEarliest, Accounts
  <1>2. CASE UNCHANGED <<tokens, accepted>>
    BY <1>1, <1>2
  <1>3. ASSUME NEW s \in Sessions, Commit(s), holder[k] = s
        PROVE  /\ tokens'[k] # NoRow
               /\ tokens'[k].first <= tokens[k].first
               /\ tokens[k].created # Null => tokens'[k].created = tokens[k].created
    <2>1. tokens'[k] = draft[s][k]
      BY <1>3 DEF Commit, Visible
    <2>2. DraftAccounts(s, k)
      BY DEF LockDiscipline
    <2>3. tokens[k].first \in
              {e.first : e \in {x \in accepted \cup Written(s) : x.key = k}}
      BY <1>1
    <2> QED
      BY <1>3, <2>1, <2>2, <2>3 DEF DraftAccounts, Accounts
  <1>4. ASSUME NEW s \in Sessions, Commit(s), holder[k] # s
        PROVE  tokens'[k] = tokens[k]
    BY <1>4 DEF Commit, Visible
  <1> QED
    BY <1>1, <1>2, <1>3, <1>4, TableChange

\* No step of any process removes a token, moves its first_seen_time later or
\* changes a created_time that is known.
THEOREM KnowledgeCorrect == Spec => KnowledgeKept
  <1>1. IInv /\ [Next]_vars =>
          [\A k \in Keys : tokens[k] # NoRow =>
              /\ tokens'[k] # NoRow
              /\ tokens'[k].first <= tokens[k].first
              /\ tokens[k].created # Null => tokens'[k].created = tokens[k].created]_vars
    BY StepKnowledge
  <1> QED
    BY <1>1, Invariance, PTL DEF Spec, KnowledgeKept

-----------------------------------------------------------------------------
(* A batch absorbed one event at a time *)

LEMMA NatLeast == \A S \in SUBSET Nat : S # {} => \E x \in S : \A y \in S : x <= y
  <1> DEFINE R == {p \in Nat \X Nat : p[1] < p[2]}
  <1>1. R = OpToRel(<, Nat)
    BY DEF OpToRel
  <1>2. IsWellFoundedOn(R, Nat)
    BY <1>1, NatLessThanWellFounded, Zenon
  <1>3. \A a, b \in Nat : <<a, b>> \notin R => b <= a
    OBVIOUS
  <1> HIDE DEF R
  <1> TAKE S \in SUBSET Nat
  <1> HAVE S # {}
  <1>4. PICK x \in S : \A y \in S : <<y, x>> \notin R
    BY <1>2, WFMin, Zenon
  <1> QED
    BY <1>3, <1>4

\* The least member of a set of numbers is there, and is its only one.
LEMMA LeastMember ==
    ASSUME NEW S \in SUBSET Nat, NEW m \in S, \A x \in S : m <= x
    PROVE  Cycles!Min(S) = m
  <1>1. \A n \in S : (\A y \in S : n =< y) => n = m
    OBVIOUS
  <1> QED
    BY <1>1 DEF Cycles!Min

LEMMA MinIsLeast ==
    ASSUME NEW S \in SUBSET Nat, S # {}
    PROVE  Cycles!Min(S) \in S /\ \A x \in S : Cycles!Min(S) <= x
  <1>1. PICK m \in S : \A x \in S : m <= x
    BY NatLeast
  <1> QED
    BY <1>1, LeastMember

LEMMA GreatestMember ==
    ASSUME NEW S \in SUBSET Nat, NEW m \in S, \A x \in S : x <= m
    PROVE  Cycles!Max(S) = m
  <1>1. \A n \in S : (\A y \in S : n >= y) => n = m
    OBVIOUS
  <1> QED
    BY <1>1 DEF Cycles!Max

\* A number greater than all leaves the least as it is; any other number added
\* is compared with it.
LEMMA MinOfMore ==
    ASSUME NEW S \in SUBSET Nat, S # {}, NEW x \in Nat
    PROVE  Cycles!Min(S \cup {x}) = Least(Cycles!Min(S), x)
  <1>1. Cycles!Min(S) \in S /\ \A y \in S : Cycles!Min(S) <= y
    BY MinIsLeast
  <1> DEFINE m == Cycles!Min(S)
  <1>2. S \cup {x} \in SUBSET Nat /\ m \in Nat
    BY <1>1
  <1> HIDE DEF m
  <1>3. /\ Least(m, x) \in S \cup {x}
        /\ \A y \in S \cup {x} : Least(m, x) <= y
    BY <1>1, <1>2 DEF Least, m
  <1> QED
    BY <1>2, <1>3, LeastMember DEF m

\* The first n events of a batch; those about k; those that date it.
Part(B, n) == [i \in 1..n |-> B[i]]

Mine(B, n, k) == {i \in 1..n : B[i].key = k}

Dated(B, n, k) == {i \in Mine(B, n, k) : B[i].created # Null}

Firsts(old, B, n, k) ==
    (IF old = NoRow THEN {} ELSE {old.first}) \cup {B[i].first : i \in Mine(B, n, k)}

CreatedOf(old, B, n, k) ==
    IF old # NoRow /\ old.created # Null THEN old.created
    ELSE IF Dated(B, n, k) # {} THEN Part(B, n)[Cycles!Min(Dated(B, n, k))].created
    ELSE Null

LEMMA AbsorbedPart ==
    ASSUME NEW k \in Keys, NEW old, NEW B, NEW n \in Nat
    PROVE  Cycles!Absorbed(old, Part(B, n), k) =
             IF Mine(B, n, k) = {} THEN old
             ELSE [first   |-> Cycles!Min(Firsts(old, B, n, k)),
                   created |-> CreatedOf(old, B, n, k),
                   symbol  |-> Part(B, n)[Cycles!Max(Mine(B, n, k))].symbol]
  <1> DEFINE b == Part(B, n)
  <1>1. DOMAIN b = 1..n /\ \A i \in 1..n : b[i] = B[i]
    BY DEF Part
  <1>2. {i \in DOMAIN b : b[i].key = k} = Mine(B, n, k)
    BY <1>1 DEF Mine
  <1>3. {i \in Mine(B, n, k) : b[i].created # Null} = Dated(B, n, k)
    BY <1>1 DEF Mine, Dated
  <1>4. {b[i].first : i \in Mine(B, n, k)} = {B[i].first : i \in Mine(B, n, k)}
    BY <1>1 DEF Mine
  <1> QED
    BY <1>1, <1>2, <1>3, <1>4 DEF Cycles!Absorbed, Firsts, CreatedOf

LEMMA LastMine ==
    ASSUME NEW B, NEW n \in Nat, NEW k, Mine(B, n, k) # {}
    PROVE  Cycles!Max(Mine(B, n, k)) \in Mine(B, n, k)
  <1> DEFINE T == {n - i : i \in Mine(B, n, k)}
  <1>1. T \in SUBSET Nat /\ T # {}
    BY DEF Mine
  <1>2. PICK t \in T : \A u \in T : t <= u
    BY <1>1, NatLeast
  <1>3. PICK m \in Mine(B, n, k) : t = n - m
    BY <1>2
  <1>4. \A x \in Mine(B, n, k) : n - m <= n - x /\ x \in 1..n /\ m \in 1..n
    BY <1>2, <1>3 DEF Mine
  <1>5. Mine(B, n, k) \in SUBSET Nat /\ \A x \in Mine(B, n, k) : x <= m
    BY <1>4
  <1> HIDE DEF T
  <1> QED
    BY <1>3, <1>5, GreatestMember

\* What a batch makes of a row is a row, if the batch has an event about k.
LEMMA AbsorbedType ==
    ASSUME NEW k \in Keys, NEW old \in Rows \cup {NoRow}, NEW B \in Seq(Events), NEW n \in Nat,
           n <= Len(B), Mine(B, n, k) # {}
    PROVE  Cycles!Absorbed(old, Part(B, n), k) \in Rows
  <1>1. /\ \A i \in 1..n : B[i] \in Events /\ Part(B, n)[i] = B[i]
        /\ Mine(B, n, k) \in SUBSET (1..n) /\ Dated(B, n, k) \in SUBSET (1..n)
    BY DEF Part, Mine, Dated
  <1>2. \A x \in Events : x.first \in Times /\ x.created \in Times \cup {Null} /\ x.symbol \in Symbols
    BY DEF Events
  <1>3. old # NoRow => old.first \in Times /\ old.created \in Times \cup {Null}
    BY DEF Rows
  <1>4. Firsts(old, B, n, k) \in SUBSET Times /\ Firsts(old, B, n, k) # {}
    BY <1>1, <1>2, <1>3 DEF Firsts
  <1>5. Cycles!Min(Firsts(old, B, n, k)) \in Times
    BY <1>4, MinIsLeast, TimesAssumption
  <1>6. CreatedOf(old, B, n, k) \in Times \cup {Null}
    <2>1. Dated(B, n, k) # {} => Cycles!Min(Dated(B, n, k)) \in 1..n
      BY <1>1, MinIsLeast
    <2> QED
      BY <1>1, <1>2, <1>3, <2>1 DEF CreatedOf
  <1>7. Part(B, n)[Cycles!Max(Mine(B, n, k))].symbol \in Symbols
    <2>1. Cycles!Max(Mine(B, n, k)) \in 1..n
      BY <1>1, LastMine
    <2> QED
      BY <1>1, <1>2, <2>1
  <1> QED
    BY <1>5, <1>6, <1>7, AbsorbedPart DEF Rows

\* One more event about another key changes nothing.
LEMMA AbsorbOther ==
    ASSUME NEW k \in Keys, NEW old, NEW B, NEW n \in Nat, B[n + 1].key # k
    PROVE  Cycles!Absorbed(old, Part(B, n + 1), k) = Cycles!Absorbed(old, Part(B, n), k)
  <1>1. Mine(B, n + 1, k) = Mine(B, n, k)
    BY DEF Mine
  <1>2. Dated(B, n + 1, k) = Dated(B, n, k)
    BY <1>1 DEF Dated
  <1>3. Firsts(old, B, n + 1, k) = Firsts(old, B, n, k)
    BY <1>1 DEF Firsts
  <1>4. \A i \in 1..n : Part(B, n + 1)[i] = Part(B, n)[i]
    BY DEF Part
  <1>5. Mine(B, n, k) # {} => Cycles!Max(Mine(B, n, k)) \in 1..n
    <2>1. Mine(B, n, k) # {} => Cycles!Max(Mine(B, n, k)) \in Mine(B, n, k)
      BY LastMine
    <2> QED
      BY <2>1 DEF Mine
  <1>6. Dated(B, n, k) # {} => Cycles!Min(Dated(B, n, k)) \in 1..n
    BY MinIsLeast DEF Dated, Mine
  <1>7. CreatedOf(old, B, n + 1, k) = CreatedOf(old, B, n, k)
    BY <1>2, <1>4, <1>6 DEF CreatedOf
  <1> QED
    BY <1>1, <1>3, <1>4, <1>5, <1>7, AbsorbedPart

\* One more event about k has the effect of the statement on what the others
\* have left: absorbing a batch at once is upserting it event by event.
LEMMA AbsorbNext ==
    ASSUME NEW k \in Keys, NEW old \in Rows \cup {NoRow}, NEW B \in Seq(Events), NEW n \in Nat,
           n + 1 \in DOMAIN B, B[n + 1].key = k
    PROVE  Cycles!Absorbed(old, Part(B, n + 1), k)
             = Merge(Cycles!Absorbed(old, Part(B, n), k), B[n + 1])
  <1> DEFINE e == B[n + 1]
             was == Cycles!Absorbed(old, Part(B, n), k)
  <1>0. /\ e \in Events /\ e.first \in Nat
        /\ \A i \in 1..n : B[i] \in Events /\ B[i].first \in Nat
    <2>1. \A i \in 1..(n + 1) : B[i] \in Events
      OBVIOUS
    <2>2. \A x \in Events : x.first \in Nat
      BY TimesAssumption DEF Events
    <2> QED
      BY <2>1, <2>2
  <1>1. Mine(B, n + 1, k) = Mine(B, n, k) \cup {n + 1}
    BY DEF Mine
  <1>2. Mine(B, n, k) \in SUBSET (1..n) /\ Dated(B, n, k) \in SUBSET (1..n)
    BY DEF Mine, Dated
  <1>3. Part(B, n + 1)[n + 1] = e /\ \A i \in 1..n : Part(B, n + 1)[i] = Part(B, n)[i]
    BY DEF Part
  <1>4. Cycles!Max(Mine(B, n + 1, k)) = n + 1
    <2>1. Mine(B, n + 1, k) \in SUBSET Nat /\ \A x \in Mine(B, n + 1, k) : x <= n + 1
      BY <1>1, <1>2
    <2> QED
      BY <1>1, <2>1, GreatestMember
  <1>5. Cycles!Absorbed(old, Part(B, n + 1), k) =
          [first |-> Cycles!Min(Firsts(old, B, n + 1, k)),
           created |-> CreatedOf(old, B, n + 1, k), symbol |-> e.symbol]
    <2>1. n + 1 \in Nat
      OBVIOUS
    <2>2. Mine(B, n + 1, k) # {}
      BY <1>1
    <2> QED
      BY <1>3, <1>4, <2>1, <2>2, AbsorbedPart
  <1>6. /\ Firsts(old, B, n + 1, k) = Firsts(old, B, n, k) \cup {e.first}
        /\ Firsts(old, B, n, k) \in SUBSET Nat
    <2>1. {B[i].first : i \in Mine(B, n + 1, k)}
            = {B[i].first : i \in Mine(B, n, k)} \cup {e.first}
      BY <1>1
    <2>2. {B[i].first : i \in Mine(B, n, k)} \in SUBSET Nat
      BY <1>0, <1>2
    <2>3. old # NoRow => old.first \in Nat
      BY TimesAssumption DEF Rows
    <2> QED
      BY <2>1, <2>2, <2>3 DEF Firsts
  <1>7. Dated(B, n + 1, k) = Dated(B, n, k) \cup (IF e.created # Null THEN {n + 1} ELSE {})
    BY <1>1 DEF Dated
  <1>8. Dated(B, n, k) # {} =>
          /\ Cycles!Min(Dated(B, n + 1, k)) = Cycles!Min(Dated(B, n, k))
          /\ Cycles!Min(Dated(B, n, k)) \in Dated(B, n, k)
    <2> SUFFICES ASSUME Dated(B, n, k) # {}
                 PROVE  /\ Cycles!Min(Dated(B, n + 1, k)) = Cycles!Min(Dated(B, n, k))
                        /\ Cycles!Min(Dated(B, n, k)) \in Dated(B, n, k)
      OBVIOUS
    <2> DEFINE m == Cycles!Min(Dated(B, n, k))
    <2>1. m \in Dated(B, n, k) /\ \A x \in Dated(B, n, k) : m <= x
      BY <1>2, MinIsLeast
    <2> HIDE DEF m
    <2>2. /\ m \in Dated(B, n + 1, k) /\ Dated(B, n + 1, k) \in SUBSET Nat
          /\ \A x \in Dated(B, n + 1, k) : m <= x
      BY <1>2, <1>7, <2>1
    <2>3. Cycles!Min(Dated(B, n + 1, k)) = m
      BY <2>2, LeastMember
    <2> QED
      BY <2>1, <2>3 DEF m
  <1>9. Cycles!Min({n + 1}) = n + 1 /\ Cycles!Min({e.first}) = e.first
    <2>1. \A x \in Nat : Cycles!Min({x}) = x
      <3> TAKE x \in Nat
      <3> QED
        BY LeastMember
    <2> QED
      BY <1>0, <2>1
  <1>10. CASE Mine(B, n, k) = {}
    <2>1. was = old /\ Dated(B, n, k) = {}
      BY <1>10, AbsorbedPart DEF Dated
    <2>2. CreatedOf(old, B, n + 1, k) =
            IF old # NoRow /\ old.created # Null THEN old.created ELSE e.created
      BY <1>3, <1>7, <1>9, <2>1 DEF CreatedOf
    <2>3. Firsts(old, B, n, k) = IF old = NoRow THEN {} ELSE {old.first}
      BY <1>10 DEF Firsts
    <2>4. CASE old = NoRow
      <3>1. Cycles!Min(Firsts(old, B, n + 1, k)) = e.first
        BY <1>6, <1>9, <2>3, <2>4
      <3> QED
        BY <1>5, <2>1, <2>2, <2>4, <3>1 DEF Merge
    <2>5. CASE old # NoRow
      <3>1. old.first \in Nat
        BY <2>5, TimesAssumption DEF Rows
      <3>2. Cycles!Min({old.first}) = old.first
        BY <3>1, LeastMember
      <3>3. Cycles!Min(Firsts(old, B, n + 1, k)) = Least(old.first, e.first)
        <4>1. {old.first} \in SUBSET Nat /\ {old.first} # {}
          BY <3>1
        <4>2. Cycles!Min({old.first} \cup {e.first}) = Least(Cycles!Min({old.first}), e.first)
          BY <1>0, <4>1, MinOfMore
        <4> QED
          BY <1>6, <2>3, <2>5, <3>2, <4>2
      <3> QED
        BY <1>5, <2>1, <2>2, <2>5, <3>3 DEF Merge, Coalesce
    <2> QED
      BY <2>4, <2>5
  <1>11. CASE Mine(B, n, k) # {}
    <2>1. /\ was.first = Cycles!Min(Firsts(old, B, n, k))
          /\ was.created = CreatedOf(old, B, n, k)
          /\ was = [first |-> was.first, created |-> was.created, symbol |-> was.symbol]
      BY <1>11, AbsorbedPart
    <2>2. Firsts(old, B, n, k) # {}
      BY <1>11 DEF Firsts
    <2>3. Cycles!Min(Firsts(old, B, n + 1, k)) = Least(was.first, e.first)
      BY <1>0, <1>6, <2>1, <2>2, MinOfMore
    <2>4. CreatedOf(old, B, n + 1, k) = Coalesce(was.created, e.created)
      <3>1. CASE old # NoRow /\ old.created # Null
        BY <2>1, <3>1 DEF CreatedOf, Coalesce
      <3>2. CASE ~(old # NoRow /\ old.created # Null) /\ Dated(B, n, k) # {}
        <4> DEFINE m == Cycles!Min(Dated(B, n, k))
        <4>1. m \in Dated(B, n, k) /\ Dated(B, n + 1, k) # {} /\ m = Cycles!Min(Dated(B, n + 1, k))
          BY <1>7, <1>8, <3>2
        <4>2. /\ CreatedOf(old, B, n, k) = Part(B, n)[m].created
              /\ CreatedOf(old, B, n + 1, k) = Part(B, n + 1)[m].created
          BY <3>2, <4>1 DEF CreatedOf
        <4> HIDE DEF m
        <4>3. m \in 1..n /\ Part(B, n)[m] = B[m] /\ B[m].created # Null
          BY <1>2, <4>1 DEF Part, Dated
        <4> QED
          BY <1>3, <2>1, <4>2, <4>3 DEF Coalesce
      <3>3. CASE ~(old # NoRow /\ old.created # Null) /\ Dated(B, n, k) = {}
        <4>1. CreatedOf(old, B, n, k) = Null
          BY <3>3 DEF CreatedOf
        <4>2. CreatedOf(old, B, n + 1, k) = e.created
          BY <1>3, <1>7, <1>9, <3>3 DEF CreatedOf
        <4> QED
          BY <2>1, <4>1, <4>2 DEF Coalesce
      <3> QED
        BY <3>1, <3>2, <3>3
    <2>5. was # NoRow
      <3>1. n <= Len(B)
        OBVIOUS
      <3> QED
        BY <1>11, <3>1, AbsorbedType, NoRowAssumption
    <2> QED
      BY <1>5, <2>3, <2>4, <2>5 DEF Merge
  <1> QED
    BY <1>10, <1>11

-----------------------------------------------------------------------------
(* The cycle as one step *)

\* What the feeds have answered so far.
Collected(s) ==
    /\ asked[s] = 0 => batch[s] = <<>>
    /\ asked[s] = 1 => batch[s] \in Answers[1]
    /\ asked[s] = 2 => \E x \in Answers[1], y \in Answers[2] : batch[s] = x \o y
    /\ asked[s] = 3 => batch[s] \in Batches
    /\ phase[s] \in {"writing", "committing", "committed"} => asked[s] = 3

\* What a transaction sees of a key is the committed row with the events it
\* has written absorbed, whatever others have committed since it wrote them.
Absorbing(s) ==
    phase[s] \in {"writing", "committing"} =>
        \A k \in Keys :
            Visible(s, k) = Cycles!Absorbed(tokens[k], Part(batch[s], done[s]), k)

CycleInv ==
    /\ IInv
    /\ \A s \in Sessions : Collected(s) /\ Absorbing(s)

\* The batch a session is about to commit.
OfferOf(s) == IF phase[s] \in {"writing", "committing"} THEN batch[s] ELSE NoBatch

LEMMA StepCollected ==
    ASSUME IInv, [Next]_vars, NEW t \in Sessions, Collected(t)
    PROVE  Collected(t)'
  <1>0. TypeOK /\ InOrder(t)
    BY DEF IInv, LockDiscipline
  <1>1. ASSUME NEW s \in Sessions, FeedAnswers(s)
        PROVE  Collected(t)'
    <2>1. CASE t = s
      <3>1. /\ phase[s] = "fetching" /\ asked[s] \in 0..2
            /\ asked'[s] = asked[s] + 1
            /\ phase'[s] = IF asked[s] + 1 = 3 THEN "writing" ELSE "fetching"
        BY <1>0, <1>1, <2>1 DEF FeedAnswers, TypeOK, InOrder
      <3>2. PICK list \in Answers[asked[s] + 1] : batch' = [batch EXCEPT ![s] = @ \o list]
        BY <1>1 DEF FeedAnswers
      <3>3. batch'[s] = batch[s] \o list
        BY <1>0, <3>2 DEF TypeOK
      <3>4. CASE asked[s] = 0
        <4>1. list \in Seq(Events) /\ batch[s] = <<>>
          BY <2>1, <3>2, <3>4, AnswersAssumption DEF Feeds, Collected
        <4>2. batch'[s] \in Answers[1]
          BY <3>2, <3>3, <3>4, <4>1
        <4> QED
          BY <2>1, <3>1, <3>4, <4>2 DEF Collected
      <3>5. CASE asked[s] = 1
        <4>1. batch[s] \in Answers[1] /\ list \in Answers[2]
          BY <2>1, <3>2, <3>5 DEF Collected
        <4>2. \E x \in Answers[1], y \in Answers[2] : batch'[s] = x \o y
          BY <3>3, <4>1
        <4>3. asked'[s] = 2 /\ phase'[s] = "fetching"
          BY <3>1, <3>5
        <4>4. asked'[t] = 2 /\ phase'[t] = "fetching"
              /\ \E x \in Answers[1], y \in Answers[2] : batch'[t] = x \o y
          BY <2>1, <4>2, <4>3
        <4> QED
          BY <4>4 DEF Collected
      <3>6. CASE asked[s] = 2
        <4>1. PICK x \in Answers[1], y \in Answers[2] : batch[s] = x \o y
          BY <2>1, <3>6 DEF Collected
        <4>2. list \in Answers[3]
          BY <3>2, <3>6
        <4> DEFINE c == <<x, y, list>>
        <4>3. c \in Answers[1] \X Answers[2] \X Answers[3] /\ c[1] = x /\ c[2] = y /\ c[3] = list
          BY <4>1, <4>2
        <4>4. batch'[s] = x \o y \o list
          BY <3>3, <4>1
        <4>5. batch'[s] \in Batches
          <5> HIDE DEF c
          <5> QED
            BY <4>3, <4>4 DEF Batches
        <4> QED
          BY <2>1, <3>1, <3>6, <4>5 DEF Collected
      <3> QED
        BY <3>1, <3>4, <3>5, <3>6
    <2>2. CASE t # s
      <3>1. phase'[t] = phase[t] /\ asked'[t] = asked[t] /\ batch'[t] = batch[t]
        BY <1>0, <1>1, <2>2 DEF FeedAnswers, TypeOK
      <3> QED
        BY <3>1 DEF Collected
    <2> QED
      BY <2>1, <2>2
  <1>2. ASSUME NEW s \in Sessions, Return(s) \/ RollBack(s) \/ Interrupt(s)
        PROVE  Collected(t)'
    <2>1. CASE t = s
      <3>1. /\ phase'[t] \in {"idle", "stopped"}
            /\ asked'[t] = 0 /\ batch'[t] = <<>>
        BY <1>0, <1>2, <2>1 DEF Return, RollBack, Interrupt, Forget, TypeOK
      <3> QED
        BY <3>1 DEF Collected
    <2>2. CASE t # s
      <3>1. phase'[t] = phase[t] /\ asked'[t] = asked[t] /\ batch'[t] = batch[t]
        BY <1>0, <1>2, <2>2 DEF Return, RollBack, Interrupt, Forget, TypeOK
      <3> QED
        BY <3>1 DEF Collected
    <2> QED
      BY <2>1, <2>2
  <1>3. ASSUME NEW s \in Sessions, StartCycle(s) \/ Upsert(s) \/ SendCommit(s) \/ Commit(s)
        PROVE  Collected(t)'
    BY <1>0, <1>3 DEF StartCycle, Upsert, HasNext, SendCommit, Commit, TypeOK, Collected
  <1>4. CASE UNCHANGED vars
    BY <1>4 DEF vars, Collected
  <1> QED
    BY <1>1, <1>2, <1>3, <1>4 DEF Next, Fail, DeadlockAbort

\* A batch without an event about k leaves its row alone.
LEMMA AbsorbNone ==
    ASSUME NEW k \in Keys, NEW old, NEW B, NEW n \in Nat, \A i \in 1..n : B[i].key # k
    PROVE  Cycles!Absorbed(old, Part(B, n), k) = old
  <1>1. Mine(B, n, k) = {}
    BY DEF Mine
  <1> QED
    BY <1>1, AbsorbedPart

\* Who holds no key of what t has written sees of it the committed row.
LEMMA UnheldAbsorbs ==
    ASSUME TypeOK, NEW t \in Sessions, InOrder(t), NEW k \in Keys,
           phase[t] \in {"writing", "committing"}, holder[k] # t
    PROVE  \A r : Cycles!Absorbed(r, Part(batch[t], done[t]), k) = r
  <1>1. done[t] \in Nat /\ \A i \in 1..done[t] : batch[t][i].key # k
    BY DEF TypeOK, InOrder
  <1> QED
    BY <1>1, AbsorbNone

\* A step of another session.
LEMMA AbsorbingStays ==
    ASSUME IInv, TypeOK', NEW t \in Sessions, Absorbing(t),
           phase'[t] = phase[t], batch'[t] = batch[t], done'[t] = done[t],
           \A k \in Keys : \/ /\ holder[k] = t /\ holder'[k] = t
                              /\ draft'[t][k] = draft[t][k] /\ tokens'[k] = tokens[k]
                           \/ holder[k] # t /\ holder'[k] # t
    PROVE  Absorbing(t)'
  <1> SUFFICES ASSUME phase[t] \in {"writing", "committing"}, NEW k \in Keys
               PROVE  Visible(t, k)'
                        = Cycles!Absorbed(tokens'[k], Part(batch[t], done[t]), k)
    BY DEF Absorbing
  <1>1. CASE /\ holder[k] = t /\ holder'[k] = t
             /\ draft'[t][k] = draft[t][k] /\ tokens'[k] = tokens[k]
    BY <1>1 DEF Absorbing, Visible
  <1>2. CASE holder[k] # t /\ holder'[k] # t
    BY <1>2, UnheldAbsorbs DEF Visible, IInv, LockDiscipline
  <1> QED
    BY <1>1, <1>2

LEMMA StepAbsorbing ==
    ASSUME IInv, [Next]_vars, NEW t \in Sessions, Absorbing(t)
    PROVE  Absorbing(t)'
  <1>0. /\ TypeOK /\ TypeOK' /\ InOrder(t)
        /\ \A k \in Keys : DraftAccounts(t, k)
    BY StepTypes DEF IInv, LockDiscipline
  <1>1. ASSUME NEW s \in Sessions, StartCycle(s) \/ Return(s) \/ RollBack(s) \/ Interrupt(s),
               s = t
        PROVE  Absorbing(t)'
    BY <1>0, <1>1 DEF StartCycle, Return, RollBack, Interrupt, TypeOK, Absorbing
  <1>2. ASSUME FeedAnswers(t)
        PROVE  Absorbing(t)'
    <2>1. /\ phase[t] = "fetching" /\ done'[t] = 0
          /\ UNCHANGED <<tokens, holder, draft>>
      BY <1>0, <1>2 DEF FeedAnswers, InOrder
    <2>2. \A k \in Keys : holder[k] # t
      BY <1>0, <2>1 DEF DraftAccounts
    <2>3. \A k \in Keys : Visible(t, k)' = tokens[k]
      BY <2>1, <2>2 DEF Visible
    <2>4. \A k \in Keys : Cycles!Absorbed(tokens[k], Part(batch'[t], 0), k) = tokens[k]
      <3> TAKE k \in Keys
      <3>1. \A i \in 1..0 : batch'[t][i].key # k
        OBVIOUS
      <3> QED
        BY <3>1, AbsorbNone
    <2> QED
      BY <2>1, <2>3, <2>4 DEF Absorbing
  <1>3. ASSUME Upsert(t)
        PROVE  Absorbing(t)'
    <2> DEFINE e == NextEvent(t)
               n == done[t]
    <2>1. /\ n + 1 \in DOMAIN batch[t] /\ e = batch[t][n + 1] /\ e.key \in Keys
          /\ n \in Nat /\ batch[t] \in Seq(Events)
          /\ holder' = [holder EXCEPT ![e.key] = t]
          /\ draft' = [draft EXCEPT ![t][e.key] = Merge(Visible(t, e.key), e)]
          /\ done'[t] = n + 1
          /\ UNCHANGED <<tokens, phase, batch>>
          /\ phase[t] = "writing"
      BY <1>0, <1>3, NextEventType DEF Upsert, HasNext, NextEvent, TypeOK
    <2>2. SUFFICES ASSUME NEW k \in Keys
                   PROVE  Visible(t, k)' = Cycles!Absorbed(tokens[k], Part(batch[t], n + 1), k)
      BY <2>1 DEF Absorbing
    <2>3. Visible(t, k) = Cycles!Absorbed(tokens[k], Part(batch[t], n), k)
      BY <2>1 DEF Absorbing
    <2>4. CASE k = e.key
      <3>1. Visible(t, k)' = Merge(Visible(t, k), e)
        BY <1>0, <2>1, <2>4 DEF Visible, TypeOK
      <3>2. tokens[k] \in Rows \cup {NoRow}
        BY <1>0 DEF TypeOK
      <3>3. batch[t][n + 1].key = k
        BY <2>1, <2>4
      <3> HIDE DEF n, e
      <3> QED
        BY <2>1, <2>3, <3>1, <3>2, <3>3, AbsorbNext
    <2>5. CASE k # e.key
      <3>1. Visible(t, k)' = Visible(t, k)
        BY <1>0, <2>1, <2>5 DEF Visible, TypeOK
      <3>2. batch[t][n + 1].key # k
        BY <2>1, <2>5
      <3> HIDE DEF n, e
      <3> QED
        BY <2>1, <2>3, <3>1, <3>2, AbsorbOther
    <2> QED
      BY <2>4, <2>5
  <1>4. ASSUME SendCommit(t)
        PROVE  Absorbing(t)'
    BY <1>0, <1>4 DEF SendCommit, TypeOK, Absorbing, Visible
  <1>5. ASSUME Commit(t)
        PROVE  Absorbing(t)'
    BY <1>0, <1>5 DEF Commit, TypeOK, Absorbing
  <1>6. ASSUME NEW s \in Sessions \ {t}, StartCycle(s) \/ FeedAnswers(s) \/ SendCommit(s)
                                         \/ Return(s) \/ Interrupt(s)
        PROVE  Absorbing(t)'
    <2>1. /\ phase'[t] = phase[t] /\ batch'[t] = batch[t] /\ done'[t] = done[t]
          /\ UNCHANGED <<tokens, holder, draft>>
      BY <1>0, <1>6 DEF StartCycle, FeedAnswers, SendCommit, Return, Interrupt, Forget, TypeOK
    <2> QED
      BY <1>0, <2>1, AbsorbingStays
  <1>7. ASSUME NEW s \in Sessions \ {t}, Upsert(s)
        PROVE  Absorbing(t)'
    <2>0. NextEvent(s).key \in Keys /\ holder[NextEvent(s).key] # t
      BY <1>0, <1>7, NextEventType, SessionsAssumption
    <2>1. /\ phase'[t] = phase[t] /\ batch'[t] = batch[t] /\ done'[t] = done[t]
          /\ UNCHANGED tokens /\ draft'[t] = draft[t]
          /\ holder' = [holder EXCEPT ![NextEvent(s).key] = s]
      BY <1>0, <1>7 DEF Upsert, TypeOK
    <2>2. \A k \in Keys : (holder[k] = t /\ holder'[k] = t) \/ (holder[k] # t /\ holder'[k] # t)
      BY <1>0, <2>0, <2>1 DEF TypeOK
    <2> QED
      BY <1>0, <2>1, <2>2, AbsorbingStays
  <1>8. ASSUME NEW s \in Sessions \ {t}, Commit(s) \/ RollBack(s)
        PROVE  Absorbing(t)'
    <2>1. /\ phase'[t] = phase[t] /\ batch'[t] = batch[t] /\ done'[t] = done[t]
          /\ draft'[t] = draft[t]
          /\ \A k \in Keys : holder'[k] = IF holder[k] = s THEN Nobody ELSE holder[k]
          /\ \A k \in Keys : holder[k] # s => tokens'[k] = tokens[k]
      BY <1>0, <1>8 DEF Commit, RollBack, Release, Forget, Visible, TypeOK
    <2>2. \A k \in Keys : \/ holder[k] = t /\ holder'[k] = t /\ tokens'[k] = tokens[k]
                          \/ holder[k] # t /\ holder'[k] # t
      BY <2>1, SessionsAssumption
    <2> QED
      BY <1>0, <2>1, <2>2, AbsorbingStays
  <1>9. CASE UNCHANGED vars
    BY <1>9 DEF vars, Absorbing, Visible
  <1> QED
    BY <1>1, <1>2, <1>3, <1>4, <1>5, <1>6, <1>7, <1>8, <1>9 DEF Next, Fail, DeadlockAbort

\* The invariant the refinement rests on: besides IInv, a session's events are
\* those the feeds returned (Collected), and its drafts are what its upserts so
\* far make of the committed rows (Absorbing).
THEOREM CycleInvariance == Spec => []CycleInv
  <1>1. Init => CycleInv
    <2> SUFFICES ASSUME Init PROVE CycleInv
      OBVIOUS
    <2>1. ASSUME NEW s \in Sessions PROVE Collected(s) /\ Absorbing(s)
      BY DEF Init, Collected, Absorbing
    <2> QED
      BY <2>1, InitInv DEF CycleInv
  <1>2. CycleInv /\ [Next]_vars => CycleInv'
    BY StepInv, StepCollected, StepAbsorbing DEF CycleInv
  <1> QED
    BY <1>1, <1>2, PTL DEF Spec

Offers == [s \in Sessions |-> OfferOf(s)]

\* A step that commits nothing, ends no open transaction and opens none for
\* writing.
LEMMA Stutters ==
    ASSUME TypeOK, TypeOK', UNCHANGED tokens,
           \A s \in Sessions : OfferOf(s)' = OfferOf(s)
    PROVE  UNCHANGED <<tokens, Offers>>
  BY DEF Offers

\* A step that takes the offer of s, and of s only, from one value to another.
LEMMA OfferMoves ==
    ASSUME NEW s \in Sessions, NEW b, OfferOf(s)' = b,
           \A o \in Sessions \ {s} : OfferOf(o)' = OfferOf(o)
    PROVE  Offers' = [Offers EXCEPT ![s] = b]
  BY DEF Offers

\* A session a deadlock is broken at is writing.
LEMMA DeadlockedWrites ==
    ASSUME NEW s \in Sessions, InDeadlock(s)
    PROVE  phase[s] = "writing"
  <1>1. PICK C \in SUBSET Sessions : s \in C /\ {WaitsFor(c) : c \in C} = C
    BY DEF InDeadlock
  <1>2. WaitsFor(s) # Nobody
    BY <1>1, SessionsAssumption
  <1> QED
    BY <1>2 DEF WaitsFor, HasNext

\* Every step of the store is a step of ListingCycles, or changes nothing there.
LEMMA StepOfCycles ==
    ASSUME CycleInv, CycleInv', [Next]_vars
    PROVE  Cycles!Next \/ UNCHANGED <<tokens, Offers>>
  <1>0. /\ TypeOK /\ TypeOK'
        /\ \A s \in Sessions : InOrder(s) /\ Collected(s) /\ Absorbing(s) /\ Collected(s)'
    BY DEF CycleInv, IInv, LockDiscipline
  <1>1. ASSUME NEW s \in Sessions, StartCycle(s) \/ Upsert(s) \/ SendCommit(s)
                                   \/ Return(s) \/ Interrupt(s)
        PROVE  UNCHANGED <<tokens, Offers>>
    <2>1. UNCHANGED tokens
      BY <1>1 DEF StartCycle, Upsert, SendCommit, Return, Interrupt
    <2>2. CASE StartCycle(s) \/ Return(s) \/ Interrupt(s)
      <3>1. \A o \in Sessions : OfferOf(o)' = OfferOf(o)
        BY <1>0, <2>2 DEF StartCycle, Return, Interrupt, Forget, TypeOK, OfferOf
      <3> QED
        BY <1>0, <2>1, <3>1, Stutters
    <2>3. CASE Upsert(s) \/ SendCommit(s)
      <3>1. \A o \in Sessions : OfferOf(o)' = OfferOf(o)
        BY <1>0, <2>3 DEF Upsert, HasNext, SendCommit, TypeOK, OfferOf
      <3> QED
        BY <1>0, <2>1, <3>1, Stutters
    <2> QED
      BY <1>1, <2>2, <2>3
  <1>2. ASSUME NEW s \in Sessions, FeedAnswers(s)
        PROVE  Cycles!Next \/ UNCHANGED <<tokens, Offers>>
    <2>1. /\ phase[s] = "fetching" /\ OfferOf(s) = NoBatch
          /\ UNCHANGED tokens
          /\ \A o \in Sessions \ {s} : OfferOf(o)' = OfferOf(o)
          /\ phase'[s] \in {"fetching", "writing"}
      BY <1>0, <1>2 DEF FeedAnswers, TypeOK, OfferOf
    <2>2. CASE phase'[s] = "fetching"
      <3>1. \A o \in Sessions : OfferOf(o)' = OfferOf(o)
        BY <2>1, <2>2 DEF OfferOf
      <3> QED
        BY <1>0, <2>1, <3>1, Stutters
    <2>3. CASE phase'[s] = "writing"
      <3>1. batch'[s] \in Batches /\ OfferOf(s)' = batch'[s]
        BY <1>0, <2>3 DEF Collected, OfferOf
      <3>2. Offers' = [Offers EXCEPT ![s] = batch'[s]]
        BY <2>1, <3>1, OfferMoves
      <3>3. Offers[s] = NoBatch
        BY <2>1 DEF Offers
      <3>4. Cycles!Collect(s)
        BY <2>1, <3>1, <3>2, <3>3 DEF Cycles!Collect, Offers, OfferOf
      <3> QED
        BY <3>4 DEF Cycles!Next
    <2> QED
      BY <2>1, <2>2, <2>3
  <1>3. ASSUME NEW s \in Sessions, Commit(s)
        PROVE  Cycles!Next
    <2>1. /\ phase[s] = "committing" /\ done[s] = Len(batch[s]) /\ batch[s] \in Batches
          /\ phase'[s] = "committed"
          /\ OfferOf(s) = batch[s] /\ OfferOf(s)' = NoBatch
          /\ \A o \in Sessions \ {s} : OfferOf(o)' = OfferOf(o)
      <3>1. phase[s] = "committing" /\ phase'[s] = "committed"
        BY <1>0, <1>3 DEF Commit, TypeOK
      <3>2. done[s] = Len(batch[s]) /\ batch[s] \in Batches
        BY <1>0, <3>1 DEF InOrder, Collected
      <3>3. \A o \in Sessions \ {s} : OfferOf(o)' = OfferOf(o)
        BY <1>0, <1>3 DEF Commit, TypeOK, OfferOf
      <3> QED
        BY <3>1, <3>2, <3>3 DEF OfferOf
    <2>2. Part(batch[s], done[s]) = batch[s]
      BY <1>0, <2>1 DEF Part, TypeOK
    <2>3. tokens' = [k \in Keys |-> Cycles!Absorbed(tokens[k], batch[s], k)]
      <3>1. \A k \in Keys : Visible(s, k) = Cycles!Absorbed(tokens[k], batch[s], k)
        BY <1>0, <2>1, <2>2 DEF Absorbing
      <3> QED
        BY <1>3, <3>1 DEF Commit
    <2>4. Offers' = [Offers EXCEPT ![s] = NoBatch] /\ Offers[s] = batch[s]
      BY <2>1, OfferMoves DEF Offers
    <2>5. Offers[s] # NoBatch
      BY <2>1, <2>4, NoBatchAssumption
    <2>6. Cycles!HandOver(s)
      BY <2>3, <2>4, <2>5 DEF Cycles!HandOver, Offers, OfferOf
    <2> QED
      BY <2>6 DEF Cycles!Next
  <1>4. ASSUME NEW s \in Sessions, RollBack(s), phase[s] \in {"fetching", "writing", "committing"}
        PROVE  Cycles!Next \/ UNCHANGED <<tokens, Offers>>
    <2>1. /\ UNCHANGED tokens
          /\ OfferOf(s)' = NoBatch
          /\ \A o \in Sessions \ {s} : OfferOf(o)' = OfferOf(o)
      BY <1>0, <1>4 DEF RollBack, Forget, TypeOK, OfferOf
    <2>2. CASE phase[s] = "fetching"
      <3>1. \A o \in Sessions : OfferOf(o)' = OfferOf(o)
        BY <2>1, <2>2 DEF OfferOf
      <3> QED
        BY <1>0, <2>1, <3>1, Stutters
    <2>3. CASE phase[s] # "fetching"
      <3>1. OfferOf(s) = batch[s] /\ batch[s] \in Batches
        BY <1>0, <1>4, <2>3 DEF OfferOf, Collected
      <3>2. Offers[s] # NoBatch
        BY <3>1, NoBatchAssumption DEF Offers
      <3>3. Offers' = [Offers EXCEPT ![s] = NoBatch]
        BY <2>1, OfferMoves
      <3>4. Cycles!GiveUp(s)
        BY <2>1, <3>2, <3>3 DEF Cycles!GiveUp, Offers, OfferOf
      <3> QED
        BY <3>4 DEF Cycles!Next
    <2> QED
      BY <2>2, <2>3
  <1>5. CASE UNCHANGED vars
    BY <1>5 DEF vars, Offers, OfferOf
  <1> QED
    BY <1>1, <1>2, <1>3, <1>4, <1>5, DeadlockedWrites DEF Next, Fail, DeadlockAbort

\* Every behaviour of the store is one in which each cycle hands over its
\* batch in a single step or not at all: what the rows become is what the
\* whole batch makes of them, whatever other transactions committed, failed
\* or waited in between.
THEOREM CyclesCorrect == Spec => CyclesAreAtomic
  <1>1. Init => Cycles!Init
    BY DEF Init, Cycles!Init
  <1>2. CycleInv /\ CycleInv' /\ [Next]_vars => [Cycles!Next]_<<tokens, Offers>>
    BY StepOfCycles
  <1>3. CycleInv /\ CycleInv' /\ [Next]_vars
          => [Cycles!Next]_<<tokens, [s \in Sessions |-> IF phase[s] \in {"writing", "committing"}
                                                         THEN batch[s] ELSE NoBatch]>>
    BY <1>2 DEF Offers, OfferOf
  <1> QED
    BY <1>1, <1>3, CycleInvariance, PTL DEF Spec, CyclesAreAtomic, Cycles!Spec

=============================================================================
