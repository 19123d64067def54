----------------------------- MODULE Discovery -----------------------------
(***************************************************************************)
(* What becomes of the payloads of the three discovery requests:           *)
(* collectors/binance/normalize.py, normalize_exchange_info, and           *)
(* collectors/birdeye/normalize.py.  Each returns the list of events that  *)
(* ListingStore's cycles upsert, or raises, and then the cycle fails.  No  *)
(* state.                                                                  *)
(*                                                                         *)
(* A payload has the fields the normalizers read. A name is what they make *)
(* of it, so that an address of null, which str() turns into the text      *)
(* None, is a name like any other. NoText stands for one that is missing,  *)
(* or that Binance's normalizer does not take for a name.                  *)
(***************************************************************************)
EXTENDS VenueTimes

Lists == INSTANCE SequencesExt

CONSTANTS
    Null,
    NoText

Event(key, created, first, symbol) ==
    [key |-> key, created |-> created, first |-> first, symbol |-> symbol]

\* The events of a list, of which an item gives one or none.  One that cannot
\* be parsed spoils the list.
ListOf(events) ==
    IF \E i \in DOMAIN events : \E j \in DOMAIN events[i] : events[i][j].created = Refused
    THEN Refused
    ELSE Lists!FlattenSeq(events)

-----------------------------------------------------------------------------
(* Binance *)

Onboard(item) == IF Truthy(item.onboard) THEN parse_venue_time(item.onboard) ELSE Null

\* Mutant: only the name of the status is looked at, whatever it says.
TradingAny(item) == item.status # NoText

Trading(item) == item.status = "TRADING"

\* A symbol that is not traded is left out, but not before it was looked at.
normalize_exchange_info(payload) ==
    LET seen_at == parse_required_venue_time(payload.serverTime)
        Events(item) ==
            IF Trading(item) THEN <<Event(item.symbol, Onboard(item), seen_at, "spot")>>
            ELSE <<>>
    IN  IF \/ seen_at = Refused
           \/ \E i \in DOMAIN payload.symbols :
                 payload.symbols[i].status = NoText \/ payload.symbols[i].symbol = NoText
        THEN Refused
        ELSE ListOf([i \in DOMAIN payload.symbols |-> Events(payload.symbols[i])])

-----------------------------------------------------------------------------
(* Birdeye *)

\* An explicit 0 counts as an instant if nothing better comes before it.
Created(times) ==
    LET v == FirstTruthy(times)
    IN  IF v.type = "null" THEN Null ELSE parse_venue_time(v)

\* times are liquidityAddedAt and createdAt.  An item without an address
\* raises a KeyError.
normalize_new_tokens(payload, now) ==
    IF payload.shape # "items" \/ \E i \in DOMAIN payload.items : payload.items[i].address = NoText
    THEN Refused
    ELSE ListOf([i \in DOMAIN payload.items |->
                    <<Event(payload.items[i].address, Created(payload.items[i].times), now, "token")>>])

\* A search answers in groups.  A payload of a shape not known has no pairs,
\* one that breaks off its shape further down raises.
Pairs(payload) ==
    CASE payload.shape = "groups" -> Lists!FlattenSeq(payload.items)
      [] payload.shape \in {"pairs", "list"} -> payload.items
      [] OTHER -> <<>>

\* times are created_at, blockTime and createdAt; address that of the base
\* token.  A pair without one is left out.
normalize_new_pairs(payload, now) ==
    LET items == Pairs(payload)
        Events(item) ==
            IF item.address = NoText THEN <<>>
            ELSE <<Event(item.address, Created(item.times), now, "pair")>>
    IN  IF payload.shape = "malformed" THEN Refused
        ELSE ListOf([i \in DOMAIN items |-> Events(items[i])])

=============================================================================
