--------------------------- MODULE MCListingStore ---------------------------
(***************************************************************************)
(* A poller and a collect-once process, a Binance symbol that is traded    *)
(* and one that is not, and two Solana mints the feeds report at different *)
(* times and in both orders.                                               *)
(***************************************************************************)
EXTENDS ListingVenues, TLC

CONSTANTS p1, p2, btc, halted, mintA, mintB

MCEarliest == -4

MCTimes == 0..Latest

MCSymbols == {"spot", "token", "pair"}

MCAnswers == FeedAnswer

-----------------------------------------------------------------------------
(* Payloads: of the plausible instants 11 to 20 they use both ends *)

Spot(status, symbol, onboard) == [status |-> status, symbol |-> symbol, onboard |-> onboard]

\* halted is not traded; an item without a status spoils the list.
ExchangeInfos ==
    {[serverTime |-> t, symbols |-> symbols] :
        t \in Spellings(14) \cup {Absent, Zero},
        symbols \in {<<Spot("BREAK", halted, Absent)>>, <<Spot(NoText, btc, Absent)>>}
                    \cup {<<Spot("BREAK", halted, v), Spot("TRADING", btc, v)>> :
                             v \in Spellings(11) \cup {[type |-> "text", n |-> 1]}}}

Item(address, times) == [address |-> address, times |-> times]

\* The two mints in either order, so that two cycles may lock them crosswise.
NewTokens ==
    {[shape |-> "items", items |-> items] :
        items \in {<<Item(mintA, <<Absent, Absent>>), Item(mintB, <<v, Zero>>)>> :
                      v \in Spellings(11)}}

LaterTokens ==
    {[shape |-> "items", items |-> items] :
        items \in {<<Item(mintB, <<Zero, v>>), Item(mintA, <<Absent, Absent>>)>> :
                      v \in Spellings(11) \cup {[type |-> "bool", n |-> 1]}}
                  \cup {<<Item(NoText, <<Absent, Absent>>)>>}}

NewPairs ==
    {[shape |-> "groups",
      items |-> <<<<Item(mintB, <<Zero, v, Absent>>)>>, <<Item(NoText, <<v, v, v>>),
                  Item(mintA, <<v, Zero, Zero>>)>>>>] : v \in Spellings(14)}
    \cup {[shape |-> shape, items |-> <<>>] : shape \in {"pairs", "unknown", "malformed"}}

Hear(i, payloads, now) == {[feed |-> i, payload |-> p, now |-> now] : p \in payloads}

\* One serverTime or one reading of the host clock per list.
MCHeard ==
    Hear(1, ExchangeInfos, 14) \cup Hear(2, NewTokens, 14) \cup Hear(2, LaterTokens, 20)
        \cup Hear(3, NewPairs, 20)

=============================================================================
