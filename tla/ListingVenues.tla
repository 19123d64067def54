--------------------------- MODULE ListingVenues ---------------------------
(***************************************************************************)
(* ListingStore with its venues: the lists its cycles collect are what     *)
(* Discovery makes of payloads; those it refuses are among the causes of   *)
(* Fail.  What the venues said, in instants, beside what the table says.   *)
(***************************************************************************)
EXTENDS ListingStore

CONSTANTS
    PerSecond, Threshold, Earliest, Latest, Refused, NoText,
    Heard       \* what may be heard: the feed, its payload, and the reading
                \* of the host's clock (now) when the payload arrives

INSTANCE Discovery

\* The list a cycle collects, or Refused.
Normalized(h) ==
    CASE h.feed = 1 -> normalize_exchange_info(h.payload)
      [] h.feed = 2 -> normalize_new_tokens(h.payload, h.now)
      [] h.feed = 3 -> normalize_new_pairs(h.payload, h.now)

FeedAnswer == [i \in Feeds |-> {Normalized(h) : h \in {x \in Heard : x.feed = i}} \ {Refused}]

-----------------------------------------------------------------------------
(* What the venues said *)

\* Instants the two units cannot be taken for each other at.
Plausible == (Threshold + 1)..(Threshold * PerSecond)

\* The instants a venue can mean by a value.
Meant(v) == {t \in Plausible : v \in Spellings(t)}

Members(list) == {list[i] : i \in DOMAIN list}

\* The tokens a payload offers.
OfferedBy(h) ==
    CASE h.feed = 1 -> {x \in Members(h.payload.symbols) : x.status = "TRADING"}
      [] h.feed # 1 /\ h.payload.shape = "groups" ->
            UNION {Members(group) : group \in Members(h.payload.items)}
      [] OTHER -> Members(h.payload.items)

NameOf(h, x) == IF h.feed = 1 THEN x.symbol ELSE x.address

TimesOf(h, x) == IF h.feed = 1 THEN {x.onboard} ELSE Members(x.times)

\* Binance tells the instant of its answer, Birdeye does not.
SeenAt(h) == IF h.feed = 1 THEN Meant(h.payload.serverTime) ELSE {h.now}

\* By token, when it was offered and when it is said to be created.
Seen ==
    [k \in Keys |->
        UNION {SeenAt(h) : h \in {g \in Heard : \E x \in OfferedBy(g) : NameOf(g, x) = k}}]

Born ==
    [k \in Keys |->
        UNION {UNION {UNION {Meant(v) : v \in TimesOf(h, x)} :
                         x \in {y \in OfferedBy(h) : NameOf(h, y) = k}} : h \in Heard}]

-----------------------------------------------------------------------------
(* Assumptions *)

\* 1970 to 9999 in milliseconds; what the threshold tells apart are instants
\* from April 1970 to 2286.
ASSUME InstantsAssumption ==
    /\ {PerSecond, Threshold} \subseteq Nat /\ PerSecond # 0
    /\ {Earliest, Latest} \subseteq Int
    /\ Plausible \subseteq Earliest..Latest

IsSequence(list) == list \in Seq(Members(list))

ASSUME HeardAssumption ==
    \A h \in Heard :
        /\ h.feed \in Feeds
        /\ h.feed = 1 => IsSequence(h.payload.symbols)
        /\ h.feed # 1 =>
              /\ IsSequence(h.payload.items)
              /\ h.payload.shape = "groups" => \A group \in Members(h.payload.items) : IsSequence(group)
              /\ \A x \in OfferedBy(h) : IsSequence(x.times) /\ x.times # <<>>

\* A number sent as a time is a time.  A 0 stands for no time, and where it
\* would count as one, an instant stands beside it.
ASSUME TimesMeantAssumption ==
    \A h \in Heard :
        /\ h.feed = 1 =>
              parse_required_venue_time(h.payload.serverTime) = Refused
                 \/ Meant(h.payload.serverTime) # {}
        /\ \A x \in OfferedBy(h) : \A v \in TimesOf(h, x) :
              \/ Meant(v) # {}
              \/ parse_venue_time(v) = Refused
              \/ ~Truthy(v) /\ (h.feed = 1 \/ \E w \in TimesOf(h, x) : Truthy(w))

ASSUME FeedAnswerAssumption == Answers = FeedAnswer

-----------------------------------------------------------------------------
(* Properties *)

Values == {v \in [type : Types, n : Earliest..(PerSecond * Latest + 1)] :
              v.type = "int" => v.n % PerSecond = 0}

\* Instants of which a spelling is not read as that instant, or not as the
\* same one by the strict parser of required times, where that accepts it, as
\* by the permissive one.
Misread ==
    {t \in Plausible : \E v \in Spellings(t) : parse_venue_time(v) # t}
    \cup UNION {{parse_venue_time(v), parse_required_venue_time(v)} :
        v \in {x \in Values :
                  parse_required_venue_time(x) \notin {parse_venue_time(x), Refused}}}

\* However a venue writes the time of a token, as seconds or milliseconds, as a
\* number, digits or an ISO string, it is read as the same instant, although
\* only the size of the number tells the unit (normalization.py:126); so feeds
\* that spell the instant otherwise, and the two parsers, cannot date a token
\* differently.
TimesAgree ==
    \A k \in Keys : tokens[k] # NoRow =>
        {tokens[k].created, tokens[k].first} \cap Misread = {}

\* The table tells what the venues said: it holds only tokens that a payload
\* offers as traded or with an address, each first seen when one of the
\* payloads offered it and created when one of them says, however that was
\* spelled, whatever stood beside it in the lists and whatever was merged with
\* what (the normalizers of binance and birdeye; tokens.py).
TableTellsVenues ==
    \A k \in Keys : tokens[k] # NoRow =>
        /\ tokens[k].first \in Seen[k]
        /\ tokens[k].created \in Born[k] \cup {Null}

=============================================================================
