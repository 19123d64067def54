---------------------------- MODULE MarketLedger ----------------------------
(***************************************************************************)
(* What the repositories that never update promise (snapshots and trades   *)
(* in MarketHistory, paper trades and strategy results in ResultStore): a  *)
(* run hands over a list of rows, which reaches the tables as a whole or   *)
(* not at all; under each key the first row stands for ever.               *)
(***************************************************************************)
EXTENDS Naturals

CONSTANTS Runs, KeyOf(_)

VARIABLES
    ledger,     \* the rows kept
    offer       \* run -> the list it is about to hand over, as a set: of
                \* one or none.  A list gives positions to rows; there may
                \* be gaps.

Known(r, rows) == \E x \in rows : KeyOf(x) = KeyOf(r)

\* The members of a list that are the first of their key.
Firsts(list) ==
    {list[i] : i \in {j \in DOMAIN list :
        \A n \in DOMAIN list : n < j => KeyOf(list[n]) # KeyOf(list[j])}}

Init ==
    /\ ledger = {}
    /\ offer = [s \in Runs |-> {}]

Prepare(s) ==
    /\ offer[s] = {}
    /\ \E list \in offer'[s] : offer'[s] = {list} /\ DOMAIN list \subseteq Nat
    /\ \A o \in Runs \ {s} : offer'[o] = offer[o]
    /\ UNCHANGED ledger

HandOver(s) ==
    /\ \E list \in offer[s] :
          ledger' = ledger \cup {r \in Firsts(list) : ~Known(r, ledger)}
    /\ offer' = [offer EXCEPT ![s] = {}]

GiveUp(s) ==
    /\ offer[s] # {}
    /\ offer' = [offer EXCEPT ![s] = {}]
    /\ UNCHANGED ledger

Next == \E s \in Runs : Prepare(s) \/ HandOver(s) \/ GiveUp(s)

Spec == Init /\ [][Next]_<<ledger, offer>>

=============================================================================
