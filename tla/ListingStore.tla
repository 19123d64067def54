---------------------------- MODULE ListingStore ----------------------------
(***************************************************************************)
(* The tokens table and the processes that fill it: every process runs     *)
(* IngestionService.collect_once inside one database session, one          *)
(* transaction per cycle (cli/main.py, commands collect-once and poll).    *)
(* Several processes may run against one database.                         *)
(*                                                                         *)
(* PostgreSQL runs them at READ COMMITTED.  An INSERT ... ON CONFLICT DO   *)
(* UPDATE that meets a key another open transaction wrote waits for that   *)
(* transaction to end and then works on the newest committed row; a        *)
(* transaction keeps the keys it wrote until it ends; a cycle of waiting   *)
(* transactions is broken by aborting one of them.                         *)
(*                                                                         *)
(* A row keeps what the statement treats differently: created_time (kept   *)
(* once known), first_seen_time (never later), and symbol, which stands    *)
(* for the columns the last writer sets (symbol, venue, metadata_json; the *)
(* collectors always send the last two).  The surrogate id is the key: the *)
(* unique constraint makes one a function of the other.                    *)
(***************************************************************************)
EXTENDS Integers, Sequences

CONSTANTS
    Sessions,   \* the processes, each with its own database session
    Pollers,    \* those that run "poll"; the others run "collect-once"
    Keys,       \* values of (chain, token_address)
    Times,      \* instants a venue or a host clock can report
    Symbols,    \* values of the columns the last writer sets
    Answers,    \* Answers[i]: the lists feed i may return, in venue order
    Null,       \* SQL NULL
    NoRow,      \* no row under this key
    Nobody,     \* no open transaction holds this key
    NoBatch     \* the session has no events to commit

\* The three requests of a cycle: exchange_info, new_tokens, new_pairs.
Feeds == 1..3

Events == [key : Keys, created : Times \cup {Null}, first : Times, symbol : Symbols]
Rows   == [created : Times \cup {Null}, first : Times, symbol : Symbols]

ASSUME SessionsAssumption == /\ Pollers \subseteq Sessions
                             /\ Nobody \notin Sessions
ASSUME TimesAssumption == Times \subseteq Nat /\ Null \notin Times
ASSUME NoRowAssumption == NoRow \notin Rows
ASSUME AnswersAssumption ==
    /\ DOMAIN Answers = Feeds
    /\ \A i \in Feeds : \A list \in Answers[i] : list \in Seq(Events)

\* What a cycle may have collected in the end.
Batches == {c[1] \o c[2] \o c[3] : c \in Answers[1] \X Answers[2] \X Answers[3]}

ASSUME NoBatchAssumption == NoBatch \notin Batches

VARIABLES
    tokens,     \* the committed table: key -> row
    holder,     \* key -> the session whose open transaction wrote it
    draft,      \* session -> key -> the uncommitted row it wrote
    phase,      \* where the process is in its cycle
    asked,      \* session -> number of feeds that have answered
    batch,      \* session -> the events collected, in upsert order
    done,       \* session -> number of events of the batch upserted
    accepted    \* history: the events of all committed cycles

vars == <<tokens, holder, draft, phase, asked, batch, done, accepted>>

Phases == {"idle", "fetching", "writing", "committing", "committed", "stopped"}

EventsOf(b) == {b[i] : i \in DOMAIN b}

-----------------------------------------------------------------------------
(* The upsert statement *)

Least(a, b) == IF a <= b THEN a ELSE b

\* Mutant: the arguments of coalesce swapped.
CoalesceSwapped(a, b) == IF b = Null THEN a ELSE b

Coalesce(a, b) == IF a = Null THEN b ELSE a

\* Mutant: first_seen_time taken from the new event.
MergeLatest(old, e) ==
    [created |-> IF old = NoRow THEN e.created ELSE Coalesce(old.created, e.created),
     first   |-> e.first,
     symbol  |-> e.symbol]

\* The row the statement leaves where it found row "old".
Merge(old, e) ==
    IF old = NoRow
    THEN [created |-> e.created, first |-> e.first, symbol |-> e.symbol]
    ELSE [created |-> Coalesce(old.created, e.created),
          first   |-> Least(old.first, e.first),
          symbol  |-> e.symbol]

NoDraft == [k \in Keys |-> NoRow]

\* Mutant: the statement misses what its own transaction wrote.
VisibleStale(s, k) == tokens[k]

\* The row the statement of s works on: its own uncommitted row, or else the
\* newest committed one.
Visible(s, k) == IF holder[k] = s THEN draft[s][k] ELSE tokens[k]

-----------------------------------------------------------------------------
(* Waiting *)

HasNext(s) == phase[s] = "writing" /\ done[s] < Len(batch[s])

NextEvent(s) == batch[s][done[s] + 1]

\* The session whose transaction must end before s can go on.
WaitsFor(s) ==
    IF HasNext(s) /\ holder[NextEvent(s).key] # s
    THEN holder[NextEvent(s).key]
    ELSE Nobody

\* s is on a cycle of waiting transactions: every session waits for at most
\* one other, so a set equal to the set of those its members wait for is a
\* union of cycles.
InDeadlock(s) ==
    \E C \in SUBSET Sessions : s \in C /\ {WaitsFor(c) : c \in C} = C

-----------------------------------------------------------------------------
(* The cycle of a process *)

Init ==
    /\ tokens = [k \in Keys |-> NoRow]
    /\ holder = [k \in Keys |-> Nobody]
    /\ draft = [s \in Sessions |-> NoDraft]
    /\ phase = [s \in Sessions |-> "idle"]
    /\ asked = [s \in Sessions |-> 0]
    /\ batch = [s \in Sessions |-> <<>>]
    /\ done = [s \in Sessions |-> 0]
    /\ accepted = {}

\* A session is opened and the first request sent.
StartCycle(s) ==
    /\ phase[s] = "idle"
    /\ phase' = [phase EXCEPT ![s] = "fetching"]
    /\ UNCHANGED <<tokens, holder, draft, asked, batch, done, accepted>>

\* The next feed answers.  Nothing is written before the last one has.
FeedAnswers(s) ==
    /\ phase[s] = "fetching"
    /\ \E list \in Answers[asked[s] + 1] :
          batch' = [batch EXCEPT ![s] = @ \o list]
    /\ asked' = [asked EXCEPT ![s] = @ + 1]
    /\ phase' = [phase EXCEPT ![s] = IF asked[s] + 1 = 3 THEN "writing" ELSE @]
    /\ UNCHANGED <<tokens, holder, draft, done, accepted>>

\* Mutant: every statement commits by itself.
UpsertAutocommit(s) ==
    /\ HasNext(s)
    /\ WaitsFor(s) = Nobody
    /\ LET e == NextEvent(s)
       IN  /\ tokens' = [tokens EXCEPT ![e.key] = Merge(@, e)]
           /\ accepted' = accepted \cup {e}
    /\ done' = [done EXCEPT ![s] = @ + 1]
    /\ UNCHANGED <<holder, draft, phase, asked, batch>>

\* The next event of the batch is upserted, once no other open transaction
\* holds its key.
Upsert(s) ==
    /\ HasNext(s)
    /\ WaitsFor(s) = Nobody
    /\ LET e == NextEvent(s)
       IN  /\ holder' = [holder EXCEPT ![e.key] = s]
           /\ draft' = [draft EXCEPT ![s][e.key] = Merge(Visible(s, e.key), e)]
    /\ done' = [done EXCEPT ![s] = @ + 1]
    /\ UNCHANGED <<tokens, phase, asked, batch, accepted>>

\* session.commit() is sent after the last event.
SendCommit(s) ==
    /\ phase[s] = "writing"
    /\ done[s] = Len(batch[s])
    /\ phase' = [phase EXCEPT ![s] = "committing"]
    /\ UNCHANGED <<tokens, holder, draft, asked, batch, done, accepted>>

\* The transaction of s is over: its keys are free and its drafts gone.
Release(s) ==
    /\ holder' = [k \in Keys |-> IF holder[k] = s THEN Nobody ELSE holder[k]]
    /\ draft' = [draft EXCEPT ![s] = NoDraft]

\* The server commits.
Commit(s) ==
    /\ phase[s] = "committing"
    /\ tokens' = [k \in Keys |-> Visible(s, k)]
    /\ Release(s)
    /\ accepted' = accepted \cup EventsOf(batch[s])
    /\ phase' = [phase EXCEPT ![s] = "committed"]
    /\ UNCHANGED <<asked, batch, done>>

\* The lists of a cycle are locals of collect_once and go with it.
Forget(s) ==
    /\ asked' = [asked EXCEPT ![s] = 0]
    /\ batch' = [batch EXCEPT ![s] = <<>>]
    /\ done' = [done EXCEPT ![s] = 0]

\* The process learns of it and the cycle returns: a poller waits for its
\* next cycle, collect-once ends.
Return(s) ==
    /\ phase[s] = "committed"
    /\ phase' = [phase EXCEPT ![s] = IF s \in Pollers THEN "idle" ELSE "stopped"]
    /\ Forget(s)
    /\ UNCHANGED <<tokens, holder, draft, accepted>>

\* Mutant: the session is not closed when the cycle raises.
RollBackLeaky(s) ==
    /\ Forget(s)
    /\ phase' = [phase EXCEPT ![s] = "stopped"]
    /\ UNCHANGED <<tokens, holder, draft, accepted>>

\* The end of a process whose transaction is open: the exception leaves the
\* session block, which rolls back; nothing restarts the cycle.
RollBack(s) ==
    /\ Release(s)
    /\ Forget(s)
    /\ phase' = [phase EXCEPT ![s] = "stopped"]
    /\ UNCHANGED <<tokens, accepted>>

\* A request or a statement raises, or the process is interrupted or killed,
\* before the server has committed.
Fail(s) ==
    /\ phase[s] \in {"fetching", "writing", "committing"}
    /\ RollBack(s)

\* The server breaks a cycle of waiting transactions by aborting s.
DeadlockAbort(s) ==
    /\ InDeadlock(s)
    /\ RollBack(s)

\* The process is interrupted between cycles, or after the server committed
\* and before the answer arrived.
Interrupt(s) ==
    /\ phase[s] \in {"idle", "committed"}
    /\ Forget(s)
    /\ phase' = [phase EXCEPT ![s] = "stopped"]
    /\ UNCHANGED <<tokens, holder, draft, accepted>>

Next ==
    \E s \in Sessions :
        \/ StartCycle(s)
        \/ FeedAnswers(s)
        \/ Upsert(s)
        \/ SendCommit(s)
        \/ Commit(s)
        \/ Return(s)
        \/ Fail(s)
        \/ DeadlockAbort(s)
        \/ Interrupt(s)

Spec == Init /\ [][Next]_vars

\* A request ends (every one has a timeout and a bounded number of attempts),
\* a statement that can run does, and the server looks for deadlocks.  Strong
\* fairness of Upsert: the server queues the waiters of a key, so a waiter
\* for whom the key is free again and again gets it.  Nothing is assumed of
\* StartCycle, Fail or Interrupt.
Fairness ==
    \A s \in Sessions :
        /\ WF_vars(FeedAnswers(s))
        /\ SF_vars(Upsert(s))
        /\ WF_vars(SendCommit(s))
        /\ WF_vars(Commit(s))
        /\ WF_vars(Return(s))
        /\ WF_vars(DeadlockAbort(s))

FairSpec == Spec /\ Fairness

-----------------------------------------------------------------------------
(* Properties *)

TypeOK ==
    /\ tokens \in [Keys -> Rows \cup {NoRow}]
    /\ holder \in [Keys -> Sessions \cup {Nobody}]
    /\ draft \in [Sessions -> [Keys -> Rows \cup {NoRow}]]
    /\ phase \in [Sessions -> Phases]
    /\ asked \in [Sessions -> 0..3]
    /\ batch \in [Sessions -> Seq(Events)]
    /\ done \in [Sessions -> Nat]
    /\ accepted \subseteq Events

\* The events of s that its open transaction has written.
Written(s) == {batch[s][i] : i \in 1..done[s]}

\* Row r accounts for exactly the events in E about key k: there is a row if
\* there was an event, and its first_seen_time is the earliest reported one.
Accounts(r, E, k) ==
    LET reported == {e.first : e \in {x \in E : x.key = k}}
    IN  IF reported = {} THEN r = NoRow
        ELSE r # NoRow /\ r.first \in reported /\ \A t \in reported : r.first <= t

\* The committed table says of every token the earliest first_seen_time any
\* committed cycle reported, whatever the order in which cycles that fetched
\* at different times commit, and holds no token no committed cycle reported
\* (tokens.py: least(...), one transaction per cycle in cli/main.py).
FirstSeenIsEarliest == \A k \in Keys : Accounts(tokens[k], accepted, k)

\* A step of any process leaves every token in place, never moves its
\* first_seen_time later (README.md, "first_seen_time is never moved later")
\* and never changes a created_time that is known (coalesce in tokens.py).
KnowledgeKept ==
    [][\A k \in Keys : tokens[k] # NoRow =>
          /\ tokens'[k] # NoRow
          /\ tokens'[k].first <= tokens[k].first
          /\ tokens[k].created # Null => tokens'[k].created = tokens[k].created]_vars

\* A session writes its batch in order, and the keys of all events it has
\* written are its own until its transaction ends.
InOrder(s) ==
    /\ done[s] <= Len(batch[s])
    /\ phase[s] \in {"idle", "fetching", "stopped"} => done[s] = 0
    /\ phase[s] \in {"idle", "stopped"} => asked[s] = 0
    /\ phase[s] = "fetching" => asked[s] < 3
    /\ phase[s] = "committing" => done[s] = Len(batch[s])
    /\ phase[s] \in {"writing", "committing"} =>
          \A i \in 1..done[s] : holder[batch[s][i].key] = s

\* The draft of a held key accounts for the committed events and those its
\* session has written, and keeps a created_time already committed.
DraftAccounts(s, k) ==
    holder[k] = s =>
        /\ phase[s] \in {"writing", "committing"}
        /\ Accounts(draft[s][k], accepted \cup Written(s), k)
        /\ (tokens[k] # NoRow /\ tokens[k].created # Null) =>
              draft[s][k].created = tokens[k].created

\* Between statements of different sessions no update is lost: keys are held
\* by writing sessions only, a stopped process leaves no key held, and what a
\* session is about to commit accounts for all that others committed before
\* (tokens.py works on the row the statement finds, not on one read earlier).
LockDiscipline ==
    /\ \A s \in Sessions : InOrder(s)
    /\ \A s \in Sessions, k \in Keys : DraftAccounts(s, k)

Cycles == INSTANCE ListingCycles WITH
    store <- tokens,
    offer <- [s \in Sessions |->
                 IF phase[s] \in {"writing", "committing"} THEN batch[s] ELSE NoBatch]

\* A cycle's batch becomes visible to every reader as a whole or not at all,
\* and the rows it leaves are those of the whole batch absorbed at once,
\* whatever other processes did between its first upsert and its commit.
CyclesAreAtomic == Cycles!Spec

\* Every cycle ends: no process waits for ever for a key another process
\* holds, whichever of them fails, is killed or is chosen as the victim of a
\* deadlock.
CyclesEnd ==
    \A s \in Sessions : phase[s] = "fetching" ~> phase[s] \in {"idle", "stopped"}

=============================================================================
