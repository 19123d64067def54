---------------------------- MODULE ListingCycles ----------------------------
(***************************************************************************)
(* What the listing store promises: a cycle's batch reaches the table as a *)
(* whole, in one step, or not at all, and the row it leaves is given       *)
(* without reference to the order of statements, locks or waiting.         *)
(***************************************************************************)
EXTENDS Integers, Sequences, FiniteSetsExt

CONSTANTS
    Sessions, Keys,
    Batches,    \* the lists of events a cycle may collect
    Null, NoRow,
    NoBatch     \* the session has nothing to hand over

VARIABLES
    store,      \* key -> row
    offer       \* session -> the batch it is about to hand over

\* The row of k after all of b has been absorbed: the earliest report, the
\* first creation time known, and the last event's columns.
Absorbed(old, b, k) ==
    LET mine == {i \in DOMAIN b : b[i].key = k}
        dated == {i \in mine : b[i].created # Null}
        known == IF old = NoRow THEN {} ELSE {old.first}
    IN  IF mine = {} THEN old
        ELSE [first |-> Min(known \cup {b[i].first : i \in mine}),
              created |-> IF old # NoRow /\ old.created # Null THEN old.created
                          ELSE IF dated # {} THEN b[Min(dated)].created
                          ELSE Null,
              symbol |-> b[Max(mine)].symbol]

Init ==
    /\ store = [k \in Keys |-> NoRow]
    /\ offer = [s \in Sessions |-> NoBatch]

Collect(s) ==
    /\ offer[s] = NoBatch
    /\ \E b \in Batches : offer' = [offer EXCEPT ![s] = b]
    /\ UNCHANGED store

HandOver(s) ==
    /\ offer[s] # NoBatch
    /\ store' = [k \in Keys |-> Absorbed(store[k], offer[s], k)]
    /\ offer' = [offer EXCEPT ![s] = NoBatch]

GiveUp(s) ==
    /\ offer[s] # NoBatch
    /\ offer' = [offer EXCEPT ![s] = NoBatch]
    /\ UNCHANGED store

Next == \E s \in Sessions : Collect(s) \/ HandOver(s) \/ GiveUp(s)

Spec == Init /\ [][Next]_<<store, offer>>

=============================================================================
