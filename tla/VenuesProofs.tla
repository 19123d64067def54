---------------------------- MODULE VenuesProofs ----------------------------
(***************************************************************************)
(* Proofs about ListingVenues and MarketVenues.  The first sections are    *)
(* about values: a spelling is read as the instant it spells, and a list   *)
(* of events says of its tokens what its payload says.  The next carries   *)
(* this through the cycles of ListingStore.  The same then for the lists   *)
(* of market data, and for the runs of MarketHistory, which must not mix   *)
(* up the tokens of their rows.                                            *)
(***************************************************************************)
EXTENDS MarketVenues, MarketHistoryProofs

-----------------------------------------------------------------------------
(* Spellings *)

LEMMA TimesOneUnit ==
  ASSUME NEW p \in Nat, p # 0, NEW n \in Nat, NEW t \in Int, t > n
  PROVE  p * t > n * p /\ (p * t) \div p = t /\ p * t \in Int /\ (p * t) % p = 0
  OBVIOUS

LEMMA SpellingForms ==
  ASSUME NEW t \in Plausible, NEW v \in Spellings(t)
  PROVE  /\ v.type \in {"int", "float", "digits", "iso"}
         /\ v.type = "iso" => v.n = t
         /\ v.n = t \/ (v.type # "iso" /\ v.n = PerSecond * t)
  BY DEF Spellings, Numbers, Digits, Millis, Seconds

\* A spelling of a plausible instant is read as that instant: numbers above
\* the threshold are milliseconds and no plausible number of seconds is.
LEMMA SpellingRead ==
  ASSUME NEW t \in Plausible, NEW v \in Spellings(t)
  PROVE  parse_venue_time(v) = t /\ parse_required_venue_time(v) \in {t, Refused}
  <1>1. /\ PerSecond \in Nat /\ PerSecond # 0 /\ Threshold \in Nat
        /\ t \in Int /\ t > Threshold /\ t <= Threshold * PerSecond
        /\ Held(t) = t
    <2>1. Threshold * PerSecond \in Int
      BY InstantsAssumption
    <2> QED
      BY <2>1, InstantsAssumption DEF Plausible, Held
  <1>2. /\ PerSecond * t > Threshold * PerSecond
        /\ (PerSecond * t) \div PerSecond = t
    BY <1>1, TimesOneUnit
  <1>3. Instant(t) = t /\ Instant(PerSecond * t) = t
    BY <1>1, <1>2 DEF Instant
  <1> QED
    BY <1>1, <1>3, SpellingForms DEF parse_venue_time, parse_required_venue_time

LEMMA MeantIsRead ==
  ASSUME NEW v, Meant(v) # {}
  PROVE  parse_venue_time(v) \in Meant(v)
  <1>1. PICK t \in Plausible : v \in Spellings(t)
    BY DEF Meant
  <1> QED
    BY <1>1, SpellingRead DEF Meant

LEMMA RequiredIsMeant ==
  ASSUME NEW v, Meant(v) # {}, parse_required_venue_time(v) # Refused
  PROVE  parse_required_venue_time(v) \in Meant(v)
  <1>1. PICK t \in Plausible : v \in Spellings(t)
    BY DEF Meant
  <1> QED
    BY <1>1, SpellingRead DEF Meant

\* Where the strict parser accepts a value, it reads it as the other one.
LEMMA ParsersAgree ==
  ASSUME NEW v, parse_required_venue_time(v) # Refused
  PROVE  parse_required_venue_time(v) = parse_venue_time(v)
  BY DEF parse_venue_time, parse_required_venue_time

LEMMA NothingMisread == Misread = {}
  BY SpellingRead, ParsersAgree DEF Misread

\* For all units, thresholds and payloads, no time in the table was read from
\* a spelling that the parsers, or two of their branches, read differently.
THEOREM TimesAgreed == Spec => []TimesAgree
  <1>1. TimesAgree
    BY NothingMisread DEF TimesAgree
  <1> QED
    BY <1>1, PTL

-----------------------------------------------------------------------------
(* Lists of events *)

LEMMA JoinIs ==
  ASSUME NEW s
  PROVE  Lists!FlattenSeq(s) =
           IF Len(s) = 0 THEN s
           ELSE (CHOOSE g : g = [i \in 1..Len(s) |-> IF i = 1 THEN s[i] ELSE g[i - 1] \o s[i]])[Len(s)]
  BY Zenon DEF Lists!FlattenSeq

\* The lists of things in E, one after another, are a list of things in E.
\* The recursive function is built up to the first place it could be missing,
\* and its values are followed to the first that could be wrong.
LEMMA JoinedType ==
  ASSUME NEW E, NEW s \in Seq(Seq(E))
  PROVE  Lists!FlattenSeq(s) \in Seq(E)
  <1> DEFINE Joins(g, m) == g = [i \in 1..m |-> IF i = 1 THEN s[i] ELSE g[i - 1] \o s[i]]
             n == Len(s)
             Missing == {m \in Nat : m <= n /\ ~\E g : Joins(g, m)}
             Longer(g, m) == [i \in 1..m |-> IF i < m THEN g[i]
                                             ELSE IF i = 1 THEN s[i] ELSE g[i - 1] \o s[i]]
  <1>0. n \in Nat /\ \A i \in 1..n : s[i] \in Seq(E)
    OBVIOUS
  <1>1. Missing = {}
    <2> SUFFICES ASSUME Missing # {} PROVE FALSE
      OBVIOUS
    <2>1. PICK m \in Missing : \A x \in Missing : m <= x
      <3>1. Missing \in SUBSET Nat
        OBVIOUS
      <3> QED
        BY <3>1, NatLeast
    <2>2. m # 0
      <3>1. Joins([i \in 1..0 |-> 0], 0)
        OBVIOUS
      <3> QED
        BY <2>1, <3>1
    <2>3. PICK g : Joins(g, m - 1)
      <3>1. m \in Nat /\ m <= n /\ m - 1 \in Nat /\ m - 1 <= n /\ ~(m <= m - 1)
        BY <1>0, <2>1, <2>2
      <3>2. m - 1 \notin Missing
        BY <2>1, <3>1
      <3> QED
        BY <3>1, <3>2
    <2>4. Joins(Longer(g, m), m)
      <3> DEFINE h == Longer(g, m)
      <3>1. m \in Nat /\ m >= 1
        BY <2>1, <2>2
      <3>2. \A i \in 1..(m - 1) : h[i] = g[i]
        BY <3>1
      <3>3. \A i \in 1..m : h[i] = IF i = 1 THEN s[i] ELSE h[i - 1] \o s[i]
        <4> TAKE i \in 1..m
        <4>1. CASE i < m
          <5>1. i \in 1..(m - 1) /\ (i # 1 => i - 1 \in 1..(m - 1))
            BY <3>1, <4>1
          <5>2. g[i] = IF i = 1 THEN s[i] ELSE g[i - 1] \o s[i]
            BY <2>3, <5>1
          <5> QED
            BY <3>2, <5>1, <5>2
        <4>2. CASE i = m
          <5>1. i # 1 => i - 1 \in 1..(m - 1)
            BY <3>1, <4>2
          <5>2. h[i] = IF i = 1 THEN s[i] ELSE g[i - 1] \o s[i]
            BY <3>1, <4>2
          <5> QED
            BY <3>2, <5>1, <5>2
        <4> QED
          BY <3>1, <4>1, <4>2
      <3> QED
        BY <3>3
    <2> QED
      BY <2>1, <2>4
  <1>2. ASSUME NEW g, Joins(g, n)
        PROVE  \A i \in 1..n : g[i] \in Seq(E)
    <2> DEFINE Wrong == {i \in 1..n : g[i] \notin Seq(E)}
    <2> SUFFICES ASSUME Wrong # {} PROVE FALSE
      OBVIOUS
    <2>1. PICK i \in Wrong : \A x \in Wrong : i <= x
      <3>1. Wrong \in SUBSET Nat
        OBVIOUS
      <3> QED
        BY <3>1, NatLeast
    <2>2. g[i] = IF i = 1 THEN s[i] ELSE g[i - 1] \o s[i]
      BY <1>2
    <2>3. i # 1 => g[i - 1] \in Seq(E)
      <3>1. i # 1 => i - 1 \in 1..n /\ i - 1 \notin Wrong
        BY <1>0, <2>1
      <3> QED
        BY <3>1
    <2>4. i \in 1..n /\ g[i] \notin Seq(E) /\ s[i] \in Seq(E)
      BY <1>0, <2>1
    <2>5. i # 1 => g[i - 1] \o s[i] \in Seq(E)
      BY <2>3, <2>4
    <2> QED
      BY <2>2, <2>4, <2>5
  <1>3. CASE n = 0
    <2>1. Lists!FlattenSeq(s) = s /\ s = << >>
      <3>1. Lists!FlattenSeq(s) = s
        BY <1>3, JoinIs
      <3> QED
        BY <1>3, <3>1
    <2> QED
      BY <2>1
  <1>4. CASE n # 0
    <2> DEFINE g == CHOOSE x : Joins(x, n)
    <2>1. n \notin Missing
      BY <1>1
    <2>2. Joins(g, n)
      <3>1. \E x : Joins(x, n)
        <4>1. n \in Nat /\ n <= n
          BY <1>0
        <4> HIDE DEF n, Joins
        <4> QED
          BY <2>1, <4>1
      <3> HIDE DEF Joins
      <3> QED
        BY <3>1
    <2>3. Lists!FlattenSeq(s) = g[n]
      BY <1>4, JoinIs
    <2> HIDE DEF g, Joins
    <2>4. \A i \in 1..n : g[i] \in Seq(E)
      BY <1>2, <2>2
    <2> QED
      BY <1>0, <1>4, <2>3, <2>4
  <1> QED
    BY <1>3, <1>4

-----------------------------------------------------------------------------
(* What a payload says *)

LEMMA FirstTruthyIs ==
  ASSUME NEW list, IsSequence(list), list # << >>
  PROVE  /\ FirstTruthy(list) \in Members(list)
         /\ (\E w \in Members(list) : Truthy(w)) => Truthy(FirstTruthy(list))
  <1> DEFINE n == Len(list)
             Start(i) == /\ Truthy(list[i]) \/ i = n
                         /\ \A j \in 1..(i - 1) : ~Truthy(list[j])
             Some == {i \in 1..n : Truthy(list[i]) \/ i = n}
  <1>1. DOMAIN list = 1..n /\ n \in Nat /\ n >= 1
    BY DEF IsSequence
  <1> HIDE DEF n
  <1>2. PICK i \in Some : \A x \in Some : i <= x
    <2>1. Some \in SUBSET Nat /\ n \in Some
      BY <1>1
    <2> QED
      BY <2>1, NatLeast
  <1>3. \E k \in 1..n : Start(k)
    <2>1. \A j \in 1..(i - 1) : j \in 1..n /\ ~(i <= j)
      <3>1. i \in 1..n
        BY <1>2
      <3> QED
        BY <1>1, <3>1
    <2> QED
      BY <1>2, <2>1
  <1> DEFINE k == CHOOSE x \in 1..n : Start(x)
  <1>4. k \in 1..n /\ Start(k)
    <2> HIDE DEF Start
    <2> QED
      BY <1>3
  <1>5. FirstTruthy(list) = list[k]
    BY <1>1 DEF FirstTruthy, n
  <1> HIDE DEF k
  <1>6. ASSUME NEW m \in 1..n, Truthy(list[m]) PROVE Truthy(list[k])
    <2>1. k < n \/ k = n
      BY <1>1, <1>4
    <2>2. m < k => ~Truthy(list[m])
      BY <1>1, <1>4
    <2>3. k = n => m < k \/ m = k
      BY <1>1
    <2> QED
      BY <1>1, <1>4, <1>6, <2>1, <2>2, <2>3
  <1> QED
    BY <1>1, <1>4, <1>5, <1>6 DEF Members

\* What becomes of one item, be it listed or not.
EventOf(h, x) ==
    CASE h.feed = 1 -> Event(x.symbol, Onboard(x),
                             parse_required_venue_time(h.payload.serverTime), "spot")
      [] h.feed = 2 -> Event(x.address, Created(x.times), h.now, "token")
      [] h.feed = 3 -> Event(x.address, Created(x.times), h.now, "pair")

\* Those that can be in the list of h.
Parsed(h) ==
    {e \in {EventOf(h, x) : x \in OfferedBy(h)} :
        e.created # Refused /\ (h.feed = 1 => e.first # Refused)}

\* e says of a token what payload h says of it.
Tells(h, e) ==
    \E x \in OfferedBy(h) :
        /\ e.key = NameOf(h, x)
        /\ e.first \in SeenAt(h)
        /\ e.created # Null => \E v \in TimesOf(h, x) : e.created \in Meant(v)

LEMMA EventTells ==
  ASSUME NEW h \in Heard, NEW e \in Parsed(h)
  PROVE  Tells(h, e)
  <1>1. PICK x \in OfferedBy(h) : e = EventOf(h, x)
    BY DEF Parsed
  <1>2. e.created # Refused /\ (h.feed = 1 => e.first # Refused)
    BY DEF Parsed
  <1>3. h.feed \in {1, 2, 3}
    BY HeardAssumption DEF Feeds
  <1>4. CASE h.feed = 1
    <2>1. /\ e.key = x.symbol /\ e.created = Onboard(x)
          /\ e.first = parse_required_venue_time(h.payload.serverTime)
      BY <1>1, <1>4 DEF EventOf, Event
    <2>2. e.first \in Meant(h.payload.serverTime)
      BY <1>2, <1>4, <2>1, TimesMeantAssumption, RequiredIsMeant
    <2>3. ASSUME e.created # Null PROVE e.created \in Meant(x.onboard)
      <3>1. Truthy(x.onboard) /\ e.created = parse_venue_time(x.onboard)
        BY <2>1, <2>3 DEF Onboard
      <3>2. Meant(x.onboard) # {}
        BY <1>2, <1>4, <3>1, TimesMeantAssumption DEF TimesOf
      <3> QED
        BY <3>1, <3>2, MeantIsRead
    <2> QED
      BY <1>4, <2>1, <2>2, <2>3 DEF Tells, NameOf, SeenAt, TimesOf
  <1>5. CASE h.feed # 1
    <2>1. e.key = x.address /\ e.created = Created(x.times) /\ e.first = h.now
      BY <1>1, <1>3, <1>5 DEF EventOf, Event
    <2> DEFINE v == FirstTruthy(x.times)
    <2>2. v \in TimesOf(h, x) /\ ((\E w \in TimesOf(h, x) : Truthy(w)) => Truthy(v))
      BY <1>5, FirstTruthyIs, HeardAssumption DEF TimesOf
    <2>3. ASSUME e.created # Null PROVE e.created \in Meant(v)
      <3>1. e.created = parse_venue_time(v)
        BY <2>1, <2>3 DEF Created
      <3>2. Meant(v) # {}
        BY <1>2, <1>5, <2>2, <3>1, TimesMeantAssumption
      <3> QED
        BY <3>1, <3>2, MeantIsRead
    <2> HIDE DEF v
    <2> QED
      BY <1>5, <2>1, <2>2, <2>3 DEF Tells, NameOf, SeenAt
  <1> QED
    BY <1>4, <1>5

\* A list of one event or none per item, of which none is refused.
LEMMA ListOfType ==
  ASSUME NEW E, NEW s \in Seq(Seq(E)), ListOf(s) # Refused
  PROVE  ListOf(s) \in Seq({e \in E : e.created # Refused})
  <1> DEFINE Good == {e \in E : e.created # Refused}
  <1>1. \A i \in DOMAIN s : \A j \in DOMAIN s[i] : s[i][j].created # Refused
    BY DEF ListOf
  <1>2. ListOf(s) = Lists!FlattenSeq(s)
    BY DEF ListOf
  <1>3. s \in Seq(Seq(Good))
    <2>1. \A i \in 1..Len(s) : s[i] \in Seq(Good)
      <3> TAKE i \in 1..Len(s)
      <3>1. s[i] \in Seq(E) /\ i \in DOMAIN s
        OBVIOUS
      <3>2. \A j \in 1..Len(s[i]) : s[i][j] \in Good
        BY <1>1, <3>1
      <3> HIDE DEF Good
      <3> QED
        BY <3>1, <3>2
    <2> HIDE DEF Good
    <2> QED
      BY <2>1
  <1> QED
    BY <1>2, <1>3, JoinedType

LEMMA PairsType ==
  ASSUME NEW h \in Heard, h.feed = 3
  PROVE  Pairs(h.payload) \in Seq(OfferedBy(h))
  <1>1. IsSequence(h.payload.items)
    BY HeardAssumption
  <1>2. CASE h.payload.shape = "groups"
    <2>1. \A group \in Members(h.payload.items) : group \in Seq(OfferedBy(h))
      <3> TAKE group \in Members(h.payload.items)
      <3>1. group \in Seq(Members(group))
        BY <1>2, HeardAssumption DEF IsSequence
      <3>2. Members(group) \subseteq OfferedBy(h)
        BY <1>2 DEF OfferedBy
      <3> QED
        BY <3>1, <3>2
    <2>2. h.payload.items \in Seq(Seq(OfferedBy(h)))
      BY <1>1, <2>1 DEF IsSequence
    <2> QED
      BY <1>2, <2>2, JoinedType DEF Pairs
  <1>3. CASE h.payload.shape \in {"pairs", "list"}
    <2>1. Pairs(h.payload) = h.payload.items /\ OfferedBy(h) = Members(h.payload.items)
      BY <1>3 DEF Pairs, OfferedBy
    <2> QED
      BY <1>1, <2>1 DEF IsSequence
  <1>4. CASE h.payload.shape \notin {"groups", "pairs", "list"}
    BY <1>4 DEF Pairs
  <1> QED
    BY <1>2, <1>3, <1>4

LEMMA NormalizedType ==
  ASSUME NEW h \in Heard, Normalized(h) # Refused
  PROVE  Normalized(h) \in Seq(Parsed(h))
  <1> DEFINE E == {EventOf(h, x) : x \in OfferedBy(h)}
  <1>1. CASE h.feed = 1
    <2> DEFINE symbols == h.payload.symbols
               seen_at == parse_required_venue_time(h.payload.serverTime)
               EventsOf1(x) == IF Trading(x) THEN <<Event(x.symbol, Onboard(x), seen_at, "spot")>>
                               ELSE << >>
               s == [i \in DOMAIN symbols |-> EventsOf1(symbols[i])]
    <2>1. Normalized(h) = normalize_exchange_info(h.payload)
      BY <1>1 DEF Normalized
    <2>2. seen_at # Refused /\ Normalized(h) = ListOf(s)
      BY <2>1 DEF normalize_exchange_info
    <2>3. s \in Seq(Seq(E))
      <3>1. symbols \in Seq(Members(symbols))
        BY <1>1, HeardAssumption DEF IsSequence
      <3>2. \A i \in DOMAIN symbols : s[i] \in Seq(E)
        <4> TAKE i \in DOMAIN symbols
        <4>1. CASE Trading(symbols[i])
          <5>1. symbols[i] \in OfferedBy(h)
            BY <1>1, <4>1 DEF OfferedBy, Members, Trading
          <5>2. EventOf(h, symbols[i]) = Event(symbols[i].symbol, Onboard(symbols[i]), seen_at, "spot")
            BY <1>1 DEF EventOf
          <5>3. s[i] = <<EventOf(h, symbols[i])>>
            BY <4>1, <5>2
          <5> HIDE DEF s, seen_at
          <5> QED
            BY <5>1, <5>3
        <4>2. CASE ~Trading(symbols[i])
          BY <4>2
        <4> QED
          BY <4>1, <4>2
      <3>3. Len(symbols) \in Nat /\ DOMAIN symbols = 1..Len(symbols)
        BY <3>1
      <3>4. s = [i \in 1..Len(symbols) |-> s[i]]
        BY <3>3
      <3> HIDE DEF E, s, symbols
      <3> QED
        BY <3>2, <3>3, <3>4
    <2> HIDE DEF s, E
    <2>4. ListOf(s) \in Seq({e \in E : e.created # Refused})
      BY <2>2, <2>3, ListOfType
    <2>5. {e \in E : e.created # Refused} \subseteq Parsed(h)
      <3>1. \A e \in E : e.first = seen_at
        BY <1>1 DEF E, EventOf, Event
      <3> QED
        BY <2>2, <3>1 DEF Parsed, E
    <2> QED
      BY <2>2, <2>4, <2>5
  <1>2. CASE h.feed = 2
    <2> DEFINE items == h.payload.items
               s == [i \in DOMAIN items |->
                       <<Event(items[i].address, Created(items[i].times), h.now, "token")>>]
    <2>1. Normalized(h) = normalize_new_tokens(h.payload, h.now)
      BY <1>2 DEF Normalized
    <2>2. h.payload.shape = "items" /\ Normalized(h) = ListOf(s)
      BY <2>1 DEF normalize_new_tokens
    <2>3. s \in Seq(Seq(E))
      <3>1. items \in Seq(Members(items))
        BY <1>2, HeardAssumption DEF IsSequence
      <3>2. \A i \in DOMAIN items : s[i] \in Seq(E)
        <4> TAKE i \in DOMAIN items
        <4>1. items[i] \in OfferedBy(h)
          BY <1>2, <2>2 DEF OfferedBy, Members
        <4>2. s[i] = <<EventOf(h, items[i])>>
          BY <1>2 DEF EventOf
        <4> HIDE DEF s
        <4> QED
          BY <4>1, <4>2
      <3>3. Len(items) \in Nat /\ DOMAIN items = 1..Len(items)
        BY <3>1
      <3>4. s = [i \in 1..Len(items) |-> s[i]]
        BY <3>3
      <3> HIDE DEF E, s, items
      <3> QED
        BY <3>2, <3>3, <3>4
    <2> HIDE DEF s, E
    <2>4. ListOf(s) \in Seq({e \in E : e.created # Refused})
      BY <2>2, <2>3, ListOfType
    <2>5. {e \in E : e.created # Refused} \subseteq Parsed(h)
      BY <1>2 DEF Parsed, E
    <2> QED
      BY <2>2, <2>4, <2>5
  <1>3. CASE h.feed = 3
    <2> DEFINE items == Pairs(h.payload)
               EventsOf3(x) == IF x.address = NoText THEN << >>
                               ELSE <<Event(x.address, Created(x.times), h.now, "pair")>>
               s == [i \in DOMAIN items |-> EventsOf3(items[i])]
    <2>1. Normalized(h) = normalize_new_pairs(h.payload, h.now)
      BY <1>3 DEF Normalized
    <2>2. Normalized(h) = ListOf(s)
      BY <2>1 DEF normalize_new_pairs
    <2>3. s \in Seq(Seq(E))
      <3>1. items \in Seq(OfferedBy(h))
        BY <1>3, PairsType
      <3>2. \A i \in DOMAIN items : s[i] \in Seq(E)
        <4> TAKE i \in DOMAIN items
        <4>1. items[i] \in OfferedBy(h)
          BY <3>1
        <4>2. s[i] = << >> \/ s[i] = <<EventOf(h, items[i])>>
          BY <1>3 DEF EventOf
        <4> HIDE DEF s
        <4>3. EventOf(h, items[i]) \in E
          BY <4>1
        <4> HIDE DEF E
        <4>4. << >> \in Seq(E) /\ <<EventOf(h, items[i])>> \in Seq(E)
          BY <4>3
        <4> QED
          BY <4>2, <4>4
      <3>3. Len(items) \in Nat /\ DOMAIN items = 1..Len(items)
        BY <3>1
      <3>4. s = [i \in 1..Len(items) |-> s[i]]
        BY <3>3
      <3> HIDE DEF E, s, items
      <3> QED
        BY <3>2, <3>3, <3>4
    <2> HIDE DEF s, E
    <2>4. ListOf(s) \in Seq({e \in E : e.created # Refused})
      BY <2>2, <2>3, ListOfType
    <2>5. {e \in E : e.created # Refused} \subseteq Parsed(h)
      BY <1>3 DEF Parsed, E
    <2> QED
      BY <2>2, <2>4, <2>5
  <1> QED
    BY <1>1, <1>2, <1>3, HeardAssumption DEF Feeds

-----------------------------------------------------------------------------
(* From the lists to the table *)

\* A row or an event dates token k as the venues did, where it may have been
\* seen at the instants seen[k].
Told(seen, k, r) == r.first \in seen[k] /\ r.created \in Born[k] \cup {Null}

LEMMA HeardTold ==
  ASSUME NEW h \in Heard, NEW e, e.key \in Keys, Tells(h, e)
  PROVE  Told(Seen, e.key, e)
  <1>1. \E x \in OfferedBy(h) : /\ e.key = NameOf(h, x)
                                /\ e.first \in SeenAt(h)
                                /\ e.created # Null => \E v \in TimesOf(h, x) : e.created \in Meant(v)
    BY DEF Tells
  <1>2. e.first \in Seen[e.key]
    <2>1. Seen[e.key] =
            UNION {SeenAt(f) : f \in {g \in Heard : \E y \in OfferedBy(g) : NameOf(g, y) = e.key}}
      BY DEF Seen
    <2>2. h \in {g \in Heard : \E y \in OfferedBy(g) : NameOf(g, y) = e.key}
      BY <1>1
    <2>3. e.first \in SeenAt(h)
      BY <1>1
    <2> QED
      BY <2>1, <2>2, <2>3
  <1>3. ASSUME e.created # Null PROVE e.created \in Born[e.key]
    <2> DEFINE Of(g) == UNION {UNION {Meant(v) : v \in TimesOf(g, z)} :
                                  z \in {y \in OfferedBy(g) : NameOf(g, y) = e.key}}
    <2>1. Born[e.key] = UNION {Of(g) : g \in Heard}
      BY DEF Born
    <2>2. PICK x \in OfferedBy(h) : /\ e.key = NameOf(h, x)
                                    /\ \E v \in TimesOf(h, x) : e.created \in Meant(v)
      BY <1>1, <1>3
    <2>3. e.created \in UNION {Meant(v) : v \in TimesOf(h, x)}
      BY <2>2
    <2>4. x \in {y \in OfferedBy(h) : NameOf(h, y) = e.key}
      BY <2>2
    <2>5. e.created \in Of(h)
      BY <2>3, <2>4
    <2> HIDE DEF Of
    <2> QED
      BY <2>1, <2>5
  <1> QED
    BY <1>2, <1>3 DEF Told

LEMMA AnswersTold ==
  ASSUME NEW i \in Feeds, NEW list \in Answers[i], NEW j \in DOMAIN list
  PROVE  list[j].key \in Keys /\ Told(Seen, list[j].key, list[j])
  <1>1. list[j] \in Events
    BY AnswersAssumption
  <1>2. PICK h \in Heard : list = Normalized(h) /\ list # Refused
    BY FeedAnswerAssumption DEF FeedAnswer
  <1>3. Tells(h, list[j])
    <2>1. list \in Seq(Parsed(h))
      BY <1>2, NormalizedType
    <2> QED
      BY <2>1, EventTells
  <1>4. list[j].key \in Keys
    BY <1>1 DEF Events
  <1> QED
    BY <1>3, <1>4, HeardTold

LEMMA MergeTold ==
  ASSUME NEW seen, NEW k \in Keys, NEW old, NEW e,
         old = NoRow \/ Told(seen, k, old), Told(seen, k, e)
  PROVE  Told(seen, k, Merge(old, e))
  BY DEF Told, Merge, Coalesce, Least

\* What is inductive: the events collected and the drafts tell what the venues
\* said, and so does the table.
BatchesTold == \A s \in Sessions : \A j \in DOMAIN batch[s] : Told(Seen, batch[s][j].key, batch[s][j])

TokensTold(seen) ==
    /\ \A k \in Keys : tokens[k] = NoRow \/ Told(seen, k, tokens[k])
    /\ \A s \in Sessions, k \in Keys : draft[s][k] = NoRow \/ Told(seen, k, draft[s][k])

LEMMA NothingTold ==
  ASSUME NEW seen, Init
  PROVE  BatchesTold /\ TokensTold(seen)
  BY DEF Init, BatchesTold, TokensTold, NoDraft

\* The upsert of an event that is told.
LEMMA UpsertTold ==
  ASSUME NEW seen, TypeOK, TokensTold(seen), NEW s \in Sessions, NEW e, e.key \in Keys,
         Told(seen, e.key, e), UNCHANGED tokens,
         draft' = [draft EXCEPT ![s][e.key] = Merge(Visible(s, e.key), e)]
  PROVE  TokensTold(seen)'
  <1> DEFINE row == Merge(Visible(s, e.key), e)
  <1>1. Visible(s, e.key) = NoRow \/ Told(seen, e.key, Visible(s, e.key))
    BY DEF TokensTold, Visible
  <1>2. Told(seen, e.key, row)
    BY <1>1, MergeTold
  <1>3. draft' = [draft EXCEPT ![s][e.key] = row]
    OBVIOUS
  <1> HIDE DEF row
  <1>4. \A r \in Sessions, k \in Keys :
           draft'[r][k] = IF r = s /\ k = e.key THEN row ELSE draft[r][k]
    BY <1>3 DEF TypeOK
  <1> QED
    BY <1>2, <1>4 DEF TokensTold, Told

\* The end of a transaction, committed or not.
LEMMA ReleaseTold ==
  ASSUME NEW seen, TypeOK, TokensTold(seen), NEW s \in Sessions, Release(s) \/ UNCHANGED draft,
         UNCHANGED tokens \/ tokens' = [k \in Keys |-> Visible(s, k)]
  PROVE  TokensTold(seen)'
  <1>1. \A k \in Keys : tokens'[k] = NoRow \/ Told(seen, k, tokens'[k])
    BY DEF TokensTold, Visible
  <1>2. \A r \in Sessions, k \in Keys : draft'[r][k] = NoRow \/ draft'[r][k] = draft[r][k]
    <2>1. CASE Release(s)
      <3>1. draft' = [draft EXCEPT ![s] = [l \in Keys |-> NoRow]]
        BY <2>1 DEF Release, NoDraft
      <3>2. \A r \in Sessions : draft'[r] = IF r = s THEN [l \in Keys |-> NoRow] ELSE draft[r]
        BY <3>1 DEF TypeOK
      <3> QED
        BY <3>2
    <2>2. CASE UNCHANGED draft
      BY <2>2
    <2> QED
      BY <2>1, <2>2
  <1> QED
    BY <1>1, <1>2 DEF TokensTold, Told

LEMMA ForgetTold ==
  ASSUME TypeOK, BatchesTold, NEW s \in Sessions, Forget(s)
  PROVE  BatchesTold'
  <1>1. \A r \in Sessions : batch'[r] = << >> \/ batch'[r] = batch[r]
    BY DEF Forget, TypeOK
  <1> QED
    BY <1>1 DEF BatchesTold, Told

LEMMA FeedTold ==
  ASSUME TypeOK, AskedInOrder, BatchesTold, NEW s \in Sessions, FeedAnswers(s)
  PROVE  BatchesTold'
  <1>1. PICK list \in Answers[asked[s] + 1] : batch' = [batch EXCEPT ![s] = @ \o list]
    BY DEF FeedAnswers
  <1>2. asked[s] + 1 \in Feeds
    <2>1. asked[s] \in 0..3 /\ asked[s] < 3
      BY DEF TypeOK, AskedInOrder, FeedAnswers
    <2> QED
      BY <2>1 DEF Feeds
  <1>3. list \in Seq(Events) /\ batch[s] \in Seq(Events) /\ batch \in [Sessions -> Seq(Events)]
    BY <1>2, AnswersAssumption DEF TypeOK
  <1>4. \A j \in DOMAIN (batch[s] \o list) :
           Told(Seen, (batch[s] \o list)[j].key, (batch[s] \o list)[j])
    <2> TAKE j \in DOMAIN (batch[s] \o list)
    <2>1. CASE j \in DOMAIN batch[s]
      <3>1. (batch[s] \o list)[j] = batch[s][j]
        BY <1>3, <2>1
      <3> QED
        BY <2>1, <3>1 DEF BatchesTold
    <2>2. CASE j \notin DOMAIN batch[s]
      <3>1. j - Len(batch[s]) \in DOMAIN list /\ (batch[s] \o list)[j] = list[j - Len(batch[s])]
        BY <1>3, <2>2
      <3> QED
        BY <1>2, <3>1, AnswersTold
    <2> QED
      BY <2>1, <2>2
  <1>5. \A r \in Sessions : batch'[r] = IF r = s THEN batch[s] \o list ELSE batch[r]
    BY <1>1, <1>3
  <1> QED
    BY <1>4, <1>5 DEF BatchesTold, Told

\* The steps of a cycle, whoever else writes to the table, as long as the
\* instants its tokens are seen at are among seen.
LEMMA CycleTold ==
  ASSUME NEW seen, \A k \in Keys : Seen[k] \subseteq seen[k],
         TypeOK, AskedInOrder, BatchesTold, TokensTold(seen), NEW s \in Sessions,
         \/ StartCycle(s) \/ FeedAnswers(s) \/ Upsert(s) \/ SendCommit(s)
         \/ Commit(s) \/ Return(s) \/ RollBack(s) \/ Interrupt(s)
  PROVE  BatchesTold' /\ TokensTold(seen)'
  <1>1. ASSUME UNCHANGED batch PROVE BatchesTold'
    BY <1>1 DEF BatchesTold, Told
  <1>2. ASSUME UNCHANGED <<tokens, draft>> PROVE TokensTold(seen)'
    BY <1>2 DEF TokensTold, Told
  <1>3. CASE StartCycle(s) \/ SendCommit(s)
    BY <1>1, <1>2, <1>3 DEF StartCycle, SendCommit
  <1>4. CASE FeedAnswers(s)
    BY <1>2, <1>4, FeedTold DEF FeedAnswers
  <1>5. CASE Upsert(s)
    <2> DEFINE e == NextEvent(s)
    <2>1. e \in Events /\ e.key \in Keys /\ done[s] + 1 \in DOMAIN batch[s]
      <3>1. batch[s] \in Seq(Events) /\ done[s] \in Nat /\ done[s] < Len(batch[s])
        BY <1>5 DEF TypeOK, Upsert, HasNext
      <3>2. done[s] + 1 \in DOMAIN batch[s]
        BY <3>1
      <3>3. batch[s][done[s] + 1] \in Events
        BY <3>1, <3>2
      <3> QED
        BY <3>2, <3>3 DEF NextEvent, Events
    <2>2. Told(Seen, e.key, e)
      BY <2>1 DEF BatchesTold, NextEvent
    <2>3. Told(seen, e.key, e)
      BY <2>1, <2>2 DEF Told
    <2>4. draft' = [draft EXCEPT ![s][e.key] = Merge(Visible(s, e.key), e)] /\ UNCHANGED <<tokens, batch>>
      BY <1>5 DEF Upsert
    <2> HIDE DEF e
    <2> QED
      BY <1>1, <2>1, <2>3, <2>4, UpsertTold
  <1>6. CASE Commit(s)
    BY <1>1, <1>6, ReleaseTold DEF Commit
  <1>7. CASE Return(s) \/ RollBack(s) \/ Interrupt(s)
    BY <1>7, ForgetTold, ReleaseTold DEF Return, RollBack, Interrupt
  <1> QED
    BY <1>3, <1>4, <1>5, <1>6, <1>7

LEMMA StepTold ==
  ASSUME IInv, BatchesTold, TokensTold(Seen), Next \/ UNCHANGED vars
  PROVE  BatchesTold' /\ TokensTold(Seen)'
  <1>1. TypeOK /\ AskedInOrder
    BY DEF IInv, LockDiscipline, InOrder, AskedInOrder
  <1>2. CASE UNCHANGED vars
    BY <1>2 DEF vars, BatchesTold, TokensTold, Told
  <1>3. CASE Next
    <2>1. PICK s \in Sessions :
            \/ StartCycle(s) \/ FeedAnswers(s) \/ Upsert(s) \/ SendCommit(s)
            \/ Commit(s) \/ Return(s) \/ RollBack(s) \/ Interrupt(s)
      BY <1>3 DEF Next, Fail, DeadlockAbort
    <2> QED
      BY <1>1, <2>1, CycleTold
  <1> QED
    BY <1>2, <1>3

THEOREM ToldInvariance == Spec => [](BatchesTold /\ TokensTold(Seen))
  <1>1. IInv /\ BatchesTold /\ TokensTold(Seen) /\ [Next]_vars => BatchesTold' /\ TokensTold(Seen)'
    BY StepTold
  <1>2. Init => BatchesTold /\ TokensTold(Seen)
    BY NothingTold
  <1> QED
    BY <1>1, <1>2, Invariance, PTL DEF Spec

\* For any payloads whose times mean instants, any number of processes and any
\* faults, the table holds only tokens that were offered, dated as one of
\* their offers dates them.
THEOREM VenuesTold == Spec => []TableTellsVenues
  <1>1. BatchesTold /\ TokensTold(Seen) => TableTellsVenues
    BY DEF TokensTold, Told, TableTellsVenues
  <1> QED
    BY <1>1, ToldInvariance, PTL

-----------------------------------------------------------------------------
(* Lists of market data *)

LEMMA ParsersSame ==
  ASSUME NEW v
  PROVE  /\ Payloads!parse_venue_time(v) = parse_venue_time(v)
         /\ Payloads!parse_required_venue_time(v) = parse_required_venue_time(v)
         /\ Payloads!Truthy(v) = Truthy(v)
  BY DEF Payloads!parse_venue_time, Payloads!parse_required_venue_time, Payloads!Instant,
         Payloads!Held, Payloads!Truthy, parse_venue_time, parse_required_venue_time, Instant,
         Held, Truthy

\* What becomes of one item, be its list refused or not.
NormalOf(m, x) ==
    CASE m.request = "klines" -> Payloads!normalize_kline(x, m.interval)
      [] m.request \in {"aggTrades", "trades"} -> Payloads!normalize_trade(x)
      [] m.request = "pools" -> Payloads!Pool(x, Payloads!observation_timestamp(x))
      [] m.request = "pool" ->
            Payloads!Pool(x, IF Truthy(x.created) THEN parse_venue_time(x.created) ELSE m.now)
      [] m.request = "ohlcv" -> Payloads!normalize_candle(x, m.interval)

LEMMA ListOfItems ==
  ASSUME NEW request \in Requests, NEW list \in MarketAnswers[request], NEW i \in DOMAIN list
  PROVE  \E m \in MarketHeard : \E x \in Items(m) :
            m.request = request /\ list[i] = NormalOf(m, x) /\ list[i] # Refused
  <1>1. PICK m \in MarketHeard : m.request = request /\ list = MarketNormalized(m) /\ list # Refused
    BY MarketAnswerAssumption DEF MarketAnswer
  <1>2. CASE request = "pool"
    <2> DEFINE at == IF Payloads!Truthy(m.payload.created)
                     THEN Payloads!parse_venue_time(m.payload.created) ELSE m.now
               one == <<Payloads!Pool(m.payload, at)>>
    <2>1. list = Payloads!normalize_pool(m.payload, m.now)
      BY <1>1, <1>2 DEF MarketNormalized
    <2>2. list = Payloads!ListOf(one)
      BY <2>1 DEF Payloads!normalize_pool
    <2>3. Payloads!Pool(m.payload, at) = NormalOf(m, m.payload)
      <3>1. at = IF Truthy(m.payload.created) THEN parse_venue_time(m.payload.created) ELSE m.now
        BY ParsersSame
      <3> HIDE DEF at
      <3> QED
        BY <1>1, <1>2, <3>1 DEF NormalOf
    <2> HIDE DEF at
    <2>4. list = one /\ one[1] # Refused
      BY <1>1, <2>2 DEF Payloads!ListOf
    <2>5. i = 1
      BY <2>4
    <2> QED
      BY <1>1, <1>2, <2>3, <2>4, <2>5 DEF Items
  <1>3. CASE request # "pool"
    <2> DEFINE s == [j \in DOMAIN m.payload |-> NormalOf(m, m.payload[j])]
    <2>1. list = Payloads!ListOf(s)
      BY <1>1, <1>3 DEF MarketNormalized, NormalOf, Requests, Payloads!Klines, Payloads!Trades,
         Payloads!normalize_pool_list, Payloads!normalize_ohlcv
    <2> HIDE DEF s
    <2>2. list = s /\ s[i] # Refused
      BY <1>1, <2>1 DEF Payloads!ListOf
    <2>3. i \in DOMAIN m.payload /\ s[i] = NormalOf(m, m.payload[i])
      BY <2>2 DEF s
    <2> QED
      BY <1>1, <1>3, <2>2, <2>3 DEF Items, Members
  <1> QED
    BY <1>2, <1>3

\* The first time that is there is the one of the least place.
LEMMA ObservationIs ==
  ASSUME NEW x, IsSequence(x.times), Payloads!observation_timestamp(x) # Refused,
         ObservedAt(x) # {}
  PROVE  Payloads!observation_timestamp(x) \in ObservedAt(x)
  <1> DEFINE G == Payloads!Given(x)
  <1>1. DOMAIN x.times = 1..Len(x.times) /\ Len(x.times) \in Nat
        /\ G = {i \in DOMAIN x.times : x.times[i].type # "null"}
    BY DEF IsSequence, Payloads!Given
  <1>2. CASE G = {}
    BY <1>1, <1>2 DEF Payloads!observation_timestamp, ObservedAt
  <1>3. CASE G # {}
    <2>1. PICK i \in G : \A j \in G : i <= j
      <3>1. G \in SUBSET Nat
        BY <1>1
      <3> QED
        BY <1>3, <3>1, NatLeast
    <2>2. Payloads!Min(G) = i
      BY <1>1, <2>1 DEF Payloads!Min
    <2>3. Payloads!observation_timestamp(x) = parse_venue_time(x.times[i])
      BY <1>3, <2>2, ParsersSame DEF Payloads!observation_timestamp
    <2> DEFINE Foremost(j) == x.times[j].type # "null" /\ \A l \in 1..(j - 1) : x.times[l].type = "null"
    <2>4. i \in 1..Len(x.times) /\ Foremost(i)
      <3>1. ASSUME NEW l \in 1..(i - 1) PROVE x.times[l].type = "null"
        <4>1. i \in 1..Len(x.times) /\ l \in 1..Len(x.times) /\ ~(i <= l)
          BY <1>1, <2>1
        <4> QED
          BY <1>1, <2>1, <4>1
      <3> QED
        BY <1>1, <2>1, <3>1
    <2>5. \A j \in 1..Len(x.times) : Foremost(j) => j = i
      <3> TAKE j \in 1..Len(x.times)
      <3> HAVE Foremost(j)
      <3>1. ~(i < j) /\ ~(j < i)
        BY <1>1, <2>4
      <3> QED
        BY <1>1, <2>4, <3>1
    <2>6. {j \in DOMAIN x.times : Foremost(j)} = {i}
      <3> HIDE DEF Foremost
      <3> QED
        BY <1>1, <2>4, <2>5
    <2>7. ~(\A j \in DOMAIN x.times : x.times[j].type = "null")
      BY <1>1, <2>4
    <2>8. ObservedAt(x) = Meant(x.times[i])
      <3>1. ObservedAt(x) = UNION {Meant(x.times[k]) : k \in {j \in DOMAIN x.times : Foremost(j)}}
        BY <2>7 DEF ObservedAt
      <3> HIDE DEF Foremost
      <3> QED
        BY <2>6, <3>1
    <2> QED
      BY <2>3, <2>8, MeantIsRead
  <1> QED
    BY <1>2, <1>3

LEMMA KlineTold ==
  ASSUME NEW m \in MarketHeard, m.request = "klines", NEW x \in Items(m), NormalOf(m, x) # Refused
  PROVE  NormalOf(m, x).close \in InstantsOf(m, x) /\ NormalOf(m, x).price = ValueOf(m, x)
  <1> DEFINE close == Payloads!parse_required_venue_time(x.close)
  <1>1. close # Refused /\ NormalOf(m, x) = Payloads!Candle(close, m.interval, x.prices[4], x.known)
    BY DEF NormalOf, Payloads!normalize_kline
  <1>2. close = parse_required_venue_time(x.close)
    BY ParsersSame
  <1> HIDE DEF close
  <1>3. Meant(x.close) # {}
    BY <1>1, <1>2, MarketTimesMeantAssumption DEF InstantsOf
  <1> QED
    BY <1>1, <1>2, <1>3, RequiredIsMeant DEF Payloads!Candle, InstantsOf, ValueOf

LEMMA TradeTold ==
  ASSUME NEW m \in MarketHeard, m.request \in {"aggTrades", "trades"}, NEW x \in Items(m),
         NormalOf(m, x) # Refused
  PROVE  /\ NormalOf(m, x).at \in InstantsOf(m, x)
         /\ NormalOf(m, x).fill = ValueOf(m, x)
         /\ NormalOf(m, x).id = x.id
  <1> DEFINE time == Payloads!parse_required_venue_time(x.time)
  <1>1. /\ time # Refused
        /\ NormalOf(m, x) = [id |-> x.id, at |-> time, fill |-> IF x.isBuyerMaker THEN Sold ELSE Bought]
    BY DEF NormalOf, Payloads!normalize_trade
  <1>2. time = parse_required_venue_time(x.time)
    BY ParsersSame
  <1> HIDE DEF time
  <1>3. Meant(x.time) # {}
    BY <1>1, <1>2, MarketTimesMeantAssumption DEF InstantsOf
  <1> QED
    BY <1>1, <1>2, <1>3, RequiredIsMeant DEF InstantsOf, ValueOf

LEMMA PoolTold ==
  ASSUME NEW m \in MarketHeard, m.request \in {"pools", "pool"}, NEW x \in Items(m),
         NormalOf(m, x) # Refused
  PROVE  /\ NormalOf(m, x).at \in InstantsOf(m, x)
         /\ NormalOf(m, x).price = ValueOf(m, x)
         /\ NormalOf(m, x).address = x.address
  <1>1. ASSUME NEW at, NormalOf(m, x) = Payloads!Pool(x, at)
        PROVE  /\ at # Refused /\ NormalOf(m, x).at = at
               /\ NormalOf(m, x).price = x.price /\ NormalOf(m, x).address = x.address
    BY <1>1 DEF Payloads!Pool
  <1>2. CASE m.request = "pools"
    <2> DEFINE at == Payloads!observation_timestamp(x)
    <2>1. NormalOf(m, x) = Payloads!Pool(x, at)
      BY <1>2 DEF NormalOf
    <2>2. at # Refused
      BY <1>1, <2>1
    <2>3. ObservedAt(x) # {} /\ IsSequence(x.times)
      BY <1>2, <2>2, MarketTimesMeantAssumption, MarketHeardAssumption DEF InstantsOf
    <2>4. at \in ObservedAt(x)
      BY <2>2, <2>3, ObservationIs
    <2> HIDE DEF at
    <2> QED
      BY <1>1, <1>2, <2>1, <2>4 DEF InstantsOf, ValueOf
  <1>3. CASE m.request = "pool"
    <2> DEFINE at == IF Truthy(x.created) THEN parse_venue_time(x.created) ELSE m.now
    <2>1. NormalOf(m, x) = Payloads!Pool(x, at)
      BY <1>3 DEF NormalOf
    <2>2. at \in InstantsOf(m, x)
      <3>1. at # Refused
        BY <1>1, <2>1
      <3>2. Truthy(x.created) => Meant(x.created) # {}
        BY <1>3, <3>1, MarketTimesMeantAssumption DEF InstantsOf
      <3> QED
        BY <1>3, <3>2, MeantIsRead DEF InstantsOf
    <2> HIDE DEF at
    <2> QED
      BY <1>1, <1>3, <2>1, <2>2 DEF ValueOf
  <1> QED
    BY <1>2, <1>3

\* What int() leaves of a number of seconds is the second it is in.
LEMMA CandleTold ==
  ASSUME NEW m \in MarketHeard, m.request = "ohlcv", NEW x \in Items(m), NormalOf(m, x) # Refused
  PROVE  /\ NormalOf(m, x).close \in InstantsOf(m, x)
         /\ NormalOf(m, x).price = ValueOf(m, x)
         /\ NormalOf(m, x).interval = m.interval
  <1> DEFINE seconds == Payloads!Truncated(x.open)
  <1>1. /\ Payloads!Held(seconds) # Refused
        /\ NormalOf(m, x) = Payloads!Candle(Payloads!Held(seconds), m.interval, x.prices[4], x.known)
    BY DEF NormalOf, Payloads!normalize_candle
  <1>2. PICK u \in Plausible : x.open.type \in {"int", "float", "digits"} /\ x.open.n = u
    BY MarketTimesMeantAssumption DEF InstantsOf, SecondOf, NormalOf
  <1>3. u \in Int /\ ~(u < 0)
    <2>1. Threshold \in Nat /\ Threshold * PerSecond \in Int
      BY InstantsAssumption
    <2>2. \A t \in Int : \A n \in (Threshold + 1)..t : n \in Int /\ ~(n < 0)
      BY <2>1
    <2> QED
      BY <2>1, <2>2, <1>2 DEF Plausible
  <1>4. seconds = (u \div PerSecond) * PerSecond
    BY <1>2, <1>3 DEF Payloads!Truncated
  <1>5. seconds \in SecondOf(x.open)
    BY <1>2, <1>4 DEF SecondOf
  <1> HIDE DEF seconds
  <1>6. Payloads!Held(seconds) = seconds
    BY <1>1 DEF Payloads!Held
  <1> QED
    BY <1>1, <1>5, <1>6 DEF Payloads!Candle, InstantsOf, ValueOf

-----------------------------------------------------------------------------
(* From the lists to the statements *)

RowTold(r) == Brought(r) \/ \E m \in MarketHeard : Says(m, r)

\* When tokens are seen by cycles or by runs.
SeenByAny == [k \in Keys |-> Seen[k] \cup SeenByRuns[k]]

SpotRequests == {"klines", "aggTrades", "trades"}

\* The rows of candles and trades, if k is a token they can be about.
LEMMA RowsTold ==
  ASSUME NEW request \in OfRows, NEW list \in MarketAnswers[request], NEW k,
         request \in SpotRequests => k \in Spots,
         request = "ohlcv" => k \in GeckoPools,
         NEW i \in DOMAIN StatementsFor(request, list, k)
  PROVE  LET w == StatementsFor(request, list, k)
         IN  w[i].op = "insert" /\ RowTold(w[i].row)
  <1> DEFINE w == StatementsFor(request, list, k)
  <1>0. request \in Requests
    BY DEF OfRows, Requests
  <1>1. i \in DOMAIN list
    BY DEF StatementsFor, OfRows
  <1>2. PICK m \in MarketHeard : \E x \in Items(m) :
            m.request = request /\ list[i] = NormalOf(m, x) /\ list[i] # Refused
    BY <1>0, <1>1, ListOfItems
  <1>3. PICK x \in Items(m) :
            m.request = request /\ list[i] = NormalOf(m, x) /\ list[i] # Refused
    BY <1>2
  <1>4. CASE request = "klines"
    <2>1. w[i] = Insert(KlineRow(k, list[i]))
      BY <1>1, <1>4 DEF StatementsFor
    <2>2. list[i].close \in InstantsOf(m, x) /\ list[i].price = ValueOf(m, x)
      BY <1>3, <1>4, KlineTold
    <2>3. k \in TokensOf(m, x) /\ SourceOf(m) = <<"binance">>
      BY <1>3, <1>4 DEF TokensOf, SourceOf, SpotRequests
    <2>4. Says(m, KlineRow(k, list[i]))
      BY <1>3, <1>4, <2>2, <2>3 DEF Says, KlineRow, SnapshotRow
    <2> QED
      BY <2>1, <2>4 DEF Insert, RowTold
  <1>5. CASE request \in {"aggTrades", "trades"}
    <2>1. w[i] = Insert(TradeRow(k, <<"binance", request>>, list[i]))
      BY <1>1, <1>5 DEF StatementsFor
    <2>2. list[i].at \in InstantsOf(m, x) /\ list[i].fill = ValueOf(m, x) /\ list[i].id = x.id
      BY <1>3, <1>5, TradeTold
    <2>3. k \in TokensOf(m, x) /\ SourceOf(m) = <<"binance", request>>
      BY <1>3, <1>5 DEF TokensOf, SourceOf, SpotRequests
    <2>4. Says(m, TradeRow(k, <<"binance", request>>, list[i]))
      BY <1>3, <1>5, <2>2, <2>3 DEF Says, TradeRow
    <2> QED
      BY <2>1, <2>4 DEF Insert, RowTold
  <1>6. CASE request = "ohlcv"
    <2>1. w[i] = Insert(OhlcvRow(k, list[i]))
      BY <1>1, <1>6 DEF StatementsFor
    <2>2. /\ list[i].close \in InstantsOf(m, x) /\ list[i].price = ValueOf(m, x)
          /\ list[i].interval = m.interval
      BY <1>3, <1>6, CandleTold
    <2>3. k \in TokensOf(m, x) /\ SourceOf(m) = <<"geckoterminal", "ohlcv", m.interval>>
      BY <1>3, <1>6 DEF TokensOf, SourceOf
    <2>4. Says(m, OhlcvRow(k, list[i]))
      BY <1>3, <1>6, <2>2, <2>3 DEF Says, OhlcvRow, SnapshotRow
    <2> QED
      BY <2>1, <2>4 DEF Insert, RowTold
  <1> QED
    BY <1>4, <1>5, <1>6 DEF OfRows

\* A pool and its row.
LEMMA PoolsTold ==
  ASSUME NEW request \in {"pools", "pool"}, NEW list \in MarketAnswers[request], NEW k,
         NEW i \in DOMAIN StatementsFor(request, list, k)
  PROVE  LET w == StatementsFor(request, list, k)
         IN  /\ w[i].op = "insert" => RowTold(w[i].row)
             /\ w[i].op = "token" => /\ Told(SeenByAny, w[i].event.key, w[i].event)
                                     /\ request = "pool" => w[i].event.key \in GeckoPools
  <1> DEFINE w == StatementsFor(request, list, k)
             p == list[(i + 1) \div 2]
             source == IF request = "pools" THEN <<"raydium">> ELSE <<"geckoterminal", "pool">>
  <1>0. request \in Requests
    BY DEF Requests
  <1>1. w = PoolStatements(list, source)
    BY DEF StatementsFor
  <1>2. Len(list) \in Nat /\ DOMAIN list = 1 .. Len(list) /\ i \in 1 .. 2 * Len(list)
    BY <1>0, <1>1, MarketAnswersAssumption DEF PoolStatements
  <1>3. (i + 1) \div 2 \in DOMAIN list
    BY <1>2
  <1>4. PICK m \in MarketHeard : \E x \in Items(m) :
            m.request = request /\ p = NormalOf(m, x) /\ p # Refused
    BY <1>0, <1>3, ListOfItems
  <1>5. PICK x \in Items(m) : m.request = request /\ p = NormalOf(m, x) /\ p # Refused
    BY <1>4
  <1>6. w[i] = TokenStatement(p.address, p.at, p.name) \/ w[i] = NoStatement
          \/ w[i] = Insert(SnapshotRow(p.address, p.at, source, p))
    BY <1>1, <1>2 DEF PoolStatements
  <1>7. /\ p.at \in InstantsOf(m, x) /\ p.price = ValueOf(m, x) /\ p.address = x.address
        /\ p.address \in Keys
    BY <1>3, <1>5, PoolTold, MarketAnswersAssumption
  <1>8. p.address \in TokensOf(m, x) /\ SourceOf(m) = source
    BY <1>5, <1>7 DEF TokensOf, SourceOf
  <1> HIDE DEF w, p, source
  <1>9. Says(m, SnapshotRow(p.address, p.at, source, p))
    BY <1>5, <1>7, <1>8 DEF Says, SnapshotRow
  <1>10. p.at \in SeenByRuns[p.address]
    <2> DEFINE In(h) == UNION {InstantsOf(h, z) : z \in {y \in Items(h) : y.address = p.address}}
    <2>1. SeenByRuns[p.address] = PoolSeen(p.address) \cup IF p.address \in Spots THEN Times ELSE {}
      BY <1>7 DEF SeenByRuns
    <2>2. p.at \in In(m)
      <3>1. x \in {y \in Items(m) : y.address = p.address}
        BY <1>7
      <3> QED
        BY <1>7, <3>1
    <2>3. m \in {g \in MarketHeard : g.request \in {"pools", "pool"}}
      BY <1>5
    <2>4. PoolSeen(p.address) = UNION {In(h) : h \in {g \in MarketHeard : g.request \in {"pools", "pool"}}}
      BY DEF PoolSeen
    <2> HIDE DEF In
    <2>5. p.at \in PoolSeen(p.address)
      BY <2>2, <2>3, <2>4
    <2> QED
      BY <2>1, <2>5
  <1>11. Told(SeenByAny, p.address, TokenStatement(p.address, p.at, p.name).event)
    BY <1>7, <1>10 DEF Told, SeenByAny, TokenStatement
  <1>12. request = "pool" => p.address \in GeckoPools
    BY <1>5, <1>7 DEF GeckoPools, Items
  <1> QED
    BY <1>6, <1>9, <1>11, <1>12 DEF TokenStatement, NoStatement, Insert, RowTold, w

-----------------------------------------------------------------------------
(* The runs *)

\* The statements of a run say what the venues said, or what the loader was
\* given.
StatementsTold(s) ==
    \A i \in DOMAIN work[s] :
        /\ work[s][i].op = "insert" => RowTold(RowAt(s, i))
        /\ work[s][i].op = "token" => Told(SeenByAny, work[s][i].event.key, work[s][i].event)

\* Binance is asked first, and as long as it is, a run has no token but the
\* symbol it asks about.
SpotsFirst(s) ==
    \A i \in DOMAIN route[s] :
        route[s][i] \in SpotRequests =>
            /\ \A j \in DOMAIN work[s] : work[s][j].op = "token" => work[s][j].event.key \in Spots
            /\ \A j \in 1 .. (i - 1) : route[s][j] \in SpotRequests

\* The last token among the statements w is that of a pool asked for by name.
EndsWithPool(w) ==
    \E j \in DOMAIN w : /\ w[j].op = "token" /\ w[j].event.key \in GeckoPools
                        /\ \A l \in DOMAIN w : l > j => w[l].op # "token"

\* The candles of a pool are asked for next after the pool.
PoolFirst(s) ==
    \A i \in DOMAIN route[s] :
        route[s][i] = "ohlcv" => IF i = 1 THEN EndsWithPool(work[s]) ELSE route[s][i - 1] = "pool"

\* The token of a run is that of the last token statement it has executed.
TokenIsLast(s) ==
    \A j \in 1 .. ran[s] :
        /\ work[s][j].op = "token"
        /\ \A l \in 1 .. ran[s] : l > j => work[s][l].op # "token"
        => token_id[s] = work[s][j].event.key

Ordered(s) == SpotsFirst(s) /\ PoolFirst(s) /\ TokenIsLast(s)

\* What is inductive, beside RunInv and TokenInv.
VenuesInv ==
    /\ BatchesTold /\ TokensTold(SeenByAny)
    /\ \A r \in market : RowTold(r)
    /\ \A s \in Ingesters : StatementsTold(s)
    /\ \A s \in Historians : Ordered(s)

LEMMA RouteShape ==
  ASSUME NEW c \in Commands, NEW i \in DOMAIN RouteOf(c)
  PROVE  /\ RouteOf(c)[i] \in SpotRequests =>
              c.symbol # Null /\ \A j \in 1 .. (i - 1) : RouteOf(c)[j] \in SpotRequests
         /\ RouteOf(c)[i] = "ohlcv" => i # 1 /\ RouteOf(c)[i - 1] = "pool"
  <1> DEFINE spot == CASE c.symbol = Null -> <<>>
                       [] c.symbol # Null /\ c.recent -> <<"klines", "aggTrades", "trades">>
                       [] OTHER -> <<"klines", "aggTrades">>
             u == IF c.pageSize = Null THEN <<>> ELSE <<"pools">>
             v == IF c.pool THEN <<"pool", "ohlcv">> ELSE <<>>
  <1>1. RouteOf(c) = (spot \o u) \o v
    BY DEF RouteOf
  <1>2. /\ IsList(spot) /\ \A j \in 1 .. Len(spot) : spot[j] \in SpotRequests /\ c.symbol # Null
        /\ IsList(u) /\ \A j \in 1 .. Len(u) : u[j] = "pools"
        /\ IsList(v) /\ \A j \in 1 .. Len(v) : /\ v[j] \notin SpotRequests
                                               /\ v[j] = "ohlcv" => j = 2 /\ v[1] = "pool"
    <2>1. /\ IsList(<<>>) /\ IsList(<<"pools">>) /\ IsList(<<"pool", "ohlcv">>)
          /\ IsList(<<"klines", "aggTrades", "trades">>) /\ IsList(<<"klines", "aggTrades">>)
      BY DEF IsList
    <2>2. /\ IsList(spot) /\ \A j \in 1 .. Len(spot) : spot[j] \in SpotRequests /\ c.symbol # Null
      <3>1. CASE c.symbol = Null
        BY <2>1, <3>1
      <3>2. CASE c.symbol # Null /\ c.recent
        BY <2>1, <3>2 DEF SpotRequests
      <3>3. CASE c.symbol # Null /\ ~c.recent
        BY <2>1, <3>3 DEF SpotRequests
      <3> QED
        BY <3>1, <3>2, <3>3
    <2>3. IsList(u) /\ \A j \in 1 .. Len(u) : u[j] = "pools"
      BY <2>1
    <2>4. IsList(v) /\ \A j \in 1 .. Len(v) : /\ v[j] \notin SpotRequests
                                              /\ v[j] = "ohlcv" => j = 2 /\ v[1] = "pool"
      BY <2>1 DEF SpotRequests
    <2> QED
      BY <2>2, <2>3, <2>4
  <1> HIDE DEF spot, u, v
  <1> DEFINE w == spot \o u
             a == Len(spot)
             b == Len(w)
  <1>3. /\ IsList(w) /\ a \in Nat /\ Len(u) \in Nat /\ Len(v) \in Nat /\ b = a + Len(u)
        /\ \A j \in 1 .. a : w[j] = spot[j]
        /\ \A j \in 1 .. b : j > a => j - a \in 1 .. Len(u) /\ w[j] = u[j - a]
    BY <1>2, ListHasPositions, ListsJoined
  <1>4. /\ IsList(RouteOf(c)) /\ Len(RouteOf(c)) = b + Len(v)
        /\ \A j \in 1 .. b : RouteOf(c)[j] = w[j]
        /\ \A j \in 1 .. Len(v) : RouteOf(c)[b + j] = v[j]
        /\ \A j \in 1 .. b + Len(v) : j > b => j - b \in 1 .. Len(v) /\ RouteOf(c)[j] = v[j - b]
    <2>1. w \o v = RouteOf(c)
      BY <1>1
    <2> HIDE DEF w
    <2>2. /\ IsList(w \o v) /\ Len(w \o v) = b + Len(v)
          /\ \A j \in 1 .. b : (w \o v)[j] = w[j]
          /\ \A j \in 1 .. Len(v) : (w \o v)[b + j] = v[j]
      BY <1>2, <1>3, ListsJoined
    <2>3. \A j \in 1 .. Len(w \o v) : j > b => j - b \in 1 .. Len(v) /\ (w \o v)[j] = v[j - b]
      BY <1>2, <1>3, ListsJoined
    <2> QED
      BY <2>1, <2>2, <2>3
  <1> HIDE DEF w, a, b
  <1>5. i \in 1 .. b + Len(v) /\ b \in Nat /\ a <= b
    BY <1>3, <1>4, ListHasPositions
  <1>6. \A j \in 1 .. a : RouteOf(c)[j] \in SpotRequests
    <2> TAKE j \in 1 .. a
    <2>1. j \in 1 .. b
      BY <1>3, <1>5
    <2>2. RouteOf(c)[j] = spot[j]
      BY <1>3, <1>4, <2>1
    <2>3. j \in 1 .. Len(spot)
      BY DEF a
    <2> QED
      BY <1>2, <2>2, <2>3
  <1>7. CASE i <= a
    <2>1. c.symbol # Null /\ \A j \in 1 .. (i - 1) : RouteOf(c)[j] \in SpotRequests
      <3>1. i \in 1 .. Len(spot)
        BY <1>3, <1>5, <1>7 DEF a
      <3>2. \A j \in 1 .. (i - 1) : j \in 1 .. a
        BY <1>3, <1>5, <1>7
      <3> QED
        BY <1>2, <1>6, <3>1, <3>2
    <2>2. RouteOf(c)[i] # "ohlcv"
      <3>1. i \in 1 .. a
        BY <1>3, <1>5, <1>7
      <3> QED
        BY <1>6, <3>1 DEF SpotRequests
    <2> QED
      BY <2>1, <2>2
  <1>8. CASE i > a /\ i <= b
    <2>1. RouteOf(c)[i] = "pools"
      <3>1. i \in 1 .. b
        BY <1>5, <1>8
      <3>2. i - a \in 1 .. Len(u) /\ RouteOf(c)[i] = u[i - a]
        BY <1>3, <1>4, <1>8, <3>1
      <3> QED
        BY <1>2, <3>2
    <2> QED
      BY <2>1 DEF SpotRequests
  <1>9. CASE i > b
    <2>1. i - b \in 1 .. Len(v) /\ RouteOf(c)[i] = v[i - b]
      BY <1>4, <1>5, <1>9
    <2>2. RouteOf(c)[i] \notin SpotRequests
      BY <1>2, <2>1
    <2>3. ASSUME RouteOf(c)[i] = "ohlcv" PROVE i # 1 /\ RouteOf(c)[i - 1] = "pool"
      <3>1. i - b = 2 /\ v[1] = "pool"
        BY <1>2, <2>1, <2>3
      <3>2. 1 \in 1 .. Len(v) /\ b + 1 = i - 1 /\ i # 1
        BY <1>3, <1>5, <2>1, <3>1
      <3>3. RouteOf(c)[b + 1] = v[1]
        BY <1>4, <3>2
      <3> QED
        BY <3>1, <3>2, <3>3
    <2> QED
      BY <2>2, <2>3
  <1> QED
    BY <1>3, <1>5, <1>7, <1>8, <1>9

\* A symbol may first be seen whenever it is asked about.
LEMMA SpotSeen ==
  ASSUME NEW k \in Keys, k \in Spots
  PROVE  Times \subseteq SeenByRuns[k]
  BY DEF SeenByRuns

\* The first statement of a run upserts the symbol at the time of its clock.
LEMMA BeginTold ==
  ASSUME NEW t \in Ingesters, RunInv, BeginHistory(t)
  PROVE  StatementsTold(t)' /\ Ordered(t)'
  <1>1. ran'[t] = 0
    BY FreshRun DEF RunInv, BeginHistory, Typed
  <1>2. PICK c \in Commands, now \in Times :
          /\ ControlsValid(c) /\ route'[t] = RouteOf(c)
          /\ work'[t] = IF c.symbol = Null THEN <<>>
                        ELSE <<TokenStatement(c.symbol, now, SpotName[c.symbol])>>
    BY DEF BeginHistory, RunInv, HistoryShape, OfIngesters
  <1>3. c.symbol # Null =>
          /\ c.symbol \in Spots
          /\ Told(SeenByAny, c.symbol, TokenStatement(c.symbol, now, SpotName[c.symbol]).event)
    <2> SUFFICES ASSUME c.symbol # Null
                 PROVE  /\ c.symbol \in Spots
                        /\ Told(SeenByAny, c.symbol, TokenStatement(c.symbol, now, SpotName[c.symbol]).event)
      OBVIOUS
    <2>1. c.symbol \in Spots /\ c.symbol \in Keys
      BY <1>2, CommandsAssumption DEF Spots
    <2>2. now \in SeenByRuns[c.symbol]
      BY <2>1, SpotSeen
    <2>3. now \in SeenByAny[c.symbol]
      BY <2>1, <2>2 DEF SeenByAny
    <2> QED
      BY <2>1, <2>3 DEF Told, TokenStatement
  <1>4. \A j \in DOMAIN work'[t] :
          /\ work'[t][j].op = "token" /\ work'[t][j].event.key \in Spots
          /\ Told(SeenByAny, work'[t][j].event.key, work'[t][j].event)
    BY <1>2, <1>3 DEF TokenStatement
  <1>5. StatementsTold(t)'
    BY <1>4 DEF StatementsTold, Told
  <1>6. SpotsFirst(t)' /\ PoolFirst(t)'
    BY <1>2, <1>4, RouteShape DEF SpotsFirst, PoolFirst
  <1> QED
    BY <1>1, <1>5, <1>6 DEF Ordered, TokenIsLast

LEMMA LoadTold ==
  ASSUME NEW t \in Ingesters, RunInv, BeginLoad(t)
  PROVE  StatementsTold(t)'
  <1>1. PICK k \in Keys, list \in Loads :
          work'[t] = Inserts([i \in DOMAIN list |-> [list[i] EXCEPT !.token = k]])
    BY DEF BeginLoad, RunInv, HistoryShape, OfIngesters
  <1>2. ASSUME NEW i \in DOMAIN list
        PROVE  work'[t][i].op = "insert" /\ Brought(work'[t][i].row)
    <2>1. work'[t][i].op = "insert" /\ work'[t][i].row = [list[i] EXCEPT !.token = k]
      BY <1>1 DEF Inserts, Insert
    <2>2. work'[t][i].row.token = k
      BY <2>1, LoadsAssumption
    <2>3. work'[t][i].row = [list[i] EXCEPT !.token = work'[t][i].row.token]
      BY <2>1, <2>2
    <2> QED
      BY <2>1, <2>3 DEF Brought
  <1>3. DOMAIN work'[t] = DOMAIN list
    BY <1>1 DEF Inserts
  <1> QED
    BY <1>2, <1>3 DEF StatementsTold, RowTold, RowAt

\* The answer is about the token of the run, which is one it can be about.
LEMMA AnswerTold ==
  ASSUME NEW t \in Ingesters, RunInv, TokensFirst(t), StatementsTold(t), Ordered(t), VenueAnswers(t)
  PROVE  StatementsTold(t)' /\ Ordered(t)'
  <1> USE DEF Ordered
  <1> DEFINE n == Len(work[t])
             request == Head(route[t])
             k == token_id[t]
  <1>0. /\ IsList(work[t]) /\ n \in Nat /\ DOMAIN work[t] = 1 .. n
        /\ ran[t] = n /\ ran'[t] = n /\ token_id'[t] = k
        /\ route[t] \in Seq(Requests) /\ route[t] # <<>> /\ route'[t] = Tail(route[t])
    BY ListHasPositions DEF RunInv, HistoryShape, OfIngesters, Typed, VenueAnswers, Drained, vars
  <1>1. request \in Requests /\ route[t][1] = request /\ 1 \in DOMAIN route[t]
    BY <1>0
  <1>2. PICK list \in MarketAnswers[request] :
          work'[t] = work[t] \o StatementsFor(request, list, k)
    BY DEF VenueAnswers, RunInv, HistoryShape, OfIngesters
  <1> DEFINE w == StatementsFor(request, list, k)
  <1>3. IsList(w) /\ Len(w) \in Nat /\ DOMAIN w = 1 .. Len(w)
    BY <1>1, StatementsAreList, ListHasPositions
  <1>4. request \in {"pools", "pool"} \/ request \in OfRows
    BY <1>1 DEF Requests, OfRows
  <1>5. request \in SpotRequests => k \in Spots
    <2> SUFFICES ASSUME request \in SpotRequests PROVE k \in Spots
      OBVIOUS
    <2>1. request \in OfRows
      BY DEF SpotRequests, OfRows
    <2>2. HasToken(work[t])
      BY <1>1, <2>1 DEF TokensFirst, AsksFirst
    <2>3. Upserts(work[t], n, k)
      BY <1>0, <2>2 DEF TokensFirst, KnowsToken, HasToken
    <2>4. \A j \in DOMAIN work[t] : work[t][j].op = "token" => work[t][j].event.key \in Spots
      BY <1>1 DEF SpotsFirst
    <2> QED
      BY <1>0, <2>3, <2>4 DEF Upserts
  <1>6. request = "ohlcv" => k \in GeckoPools
    <2> SUFFICES ASSUME request = "ohlcv" PROVE k \in GeckoPools
      OBVIOUS
    <2>1. PICK j \in 1 .. n : /\ work[t][j].op = "token" /\ work[t][j].event.key \in GeckoPools
                              /\ \A l \in 1 .. n : l > j => work[t][l].op # "token"
      BY <1>0, <1>1 DEF PoolFirst, EndsWithPool
    <2>2. k = work[t][j].event.key
      BY <1>0, <2>1 DEF TokenIsLast
    <2> QED
      BY <2>1, <2>2
  <1>7. request \in OfRows => \A i \in 1 .. Len(w) : w[i].op = "insert" /\ RowTold(w[i].row)
    BY <1>3, <1>5, <1>6, RowsTold
  <1>8. request \in {"pools", "pool"} =>
          \A i \in 1 .. Len(w) :
             /\ w[i].op = "insert" => RowTold(w[i].row)
             /\ w[i].op = "token" => /\ Told(SeenByAny, w[i].event.key, w[i].event)
                                     /\ request = "pool" => w[i].event.key \in GeckoPools
    BY <1>3, PoolsTold
  <1>9. request = "pool" => Len(w) = 2 /\ w[1].op = "token" /\ w[2].op # "token"
    <2> SUFFICES ASSUME request = "pool" PROVE Len(w) = 2 /\ w[1].op = "token" /\ w[2].op # "token"
      OBVIOUS
    <2>1. w = PoolStatements(list, <<"geckoterminal", "pool">>) /\ Len(list) = 1
      BY MarketAnswersAssumption DEF StatementsFor
    <2>2. DOMAIN w = 1 .. 2
      BY <2>1 DEF PoolStatements
    <2>3. Len(w) = 2
      BY <1>3, <2>2
    <2>4. w[1].op = "token" /\ w[2].op # "token"
      BY <2>1 DEF PoolStatements, TokenStatement, NoStatement, Insert
    <2> QED
      BY <2>3, <2>4
  <1> HIDE DEF w, request, k
  <1>10. /\ DOMAIN work'[t] = 1 .. n + Len(w)
         /\ \A i \in 1 .. n : work'[t][i] = work[t][i]
         /\ \A i \in 1 .. Len(w) : work'[t][n + i] = w[i]
         /\ \A i \in 1 .. n + Len(w) : i > n => i - n \in 1 .. Len(w) /\ work'[t][i] = w[i - n]
    <2>1. work'[t] = work[t] \o w
      BY <1>2 DEF w, k
    <2>2. IsList(work[t] \o w) /\ Len(work[t] \o w) = n + Len(w)
      BY <1>0, <1>3, ListsJoined
    <2>3. DOMAIN work'[t] = 1 .. n + Len(w)
      BY <2>1, <2>2, ListHasPositions
    <2>4. /\ \A i \in 1 .. n : (work[t] \o w)[i] = work[t][i]
          /\ \A i \in 1 .. Len(w) : (work[t] \o w)[n + i] = w[i]
          /\ \A i \in 1 .. n + Len(w) : i > n =>
                i - n \in 1 .. Len(w) /\ (work[t] \o w)[i] = w[i - n]
      BY <1>0, <1>3, <2>2, ListsJoined
    <2> QED
      BY <2>1, <2>3, <2>4
  <1>11. n \in Nat /\ Len(w) \in Nat /\ DOMAIN work[t] = 1 .. n
    BY <1>0, <1>3
  <1> HIDE DEF n
  <1>12. StatementsTold(t)'
    <2>1. \A i \in 1 .. n + Len(w) :
            /\ work'[t][i].op = "insert" => RowTold(work'[t][i].row)
            /\ work'[t][i].op = "token" => Told(SeenByAny, work'[t][i].event.key, work'[t][i].event)
      <3> TAKE i \in 1 .. n + Len(w)
      <3>1. CASE i <= n
        <4>1. i \in 1 .. n
          BY <1>11, <3>1
        <4> QED
          BY <1>10, <1>11, <4>1 DEF StatementsTold, RowAt
      <3>2. CASE i > n
        <4>1. i - n \in 1 .. Len(w) /\ work'[t][i] = w[i - n]
          BY <1>10, <3>2
        <4> QED
          BY <1>4, <1>7, <1>8, <4>1
      <3> QED
        BY <1>11, <3>1, <3>2
    <2> QED
      BY <1>10, <2>1 DEF StatementsTold, RowAt, RowTold, Told
  <1>13. ASSUME NEW i \in DOMAIN route'[t]
         PROVE  /\ i \in Nat /\ i >= 1 /\ i + 1 \in DOMAIN route[t] /\ route'[t][i] = route[t][i + 1]
                /\ \A j \in 1 .. (i - 1) : route'[t][j] = route[t][j + 1] /\ j + 1 \in 1 .. i
    BY <1>0
  <1>14. SpotsFirst(t)'
    <2> SUFFICES ASSUME NEW i \in DOMAIN route'[t], route'[t][i] \in SpotRequests
                 PROVE  /\ \A j \in DOMAIN work'[t] :
                              work'[t][j].op = "token" => work'[t][j].event.key \in Spots
                        /\ \A j \in 1 .. (i - 1) : route'[t][j] \in SpotRequests
      BY DEF SpotsFirst
    <2>1. /\ \A j \in DOMAIN work[t] : work[t][j].op = "token" => work[t][j].event.key \in Spots
          /\ \A j \in 1 .. i : route[t][j] \in SpotRequests
      <3>1. i + 1 \in DOMAIN route[t] /\ route[t][i + 1] \in SpotRequests /\ i \in Nat
        BY <1>13
      <3>2. \A j \in 1 .. ((i + 1) - 1) : route[t][j] \in SpotRequests
        BY <3>1 DEF SpotsFirst
      <3> QED
        BY <3>1, <3>2 DEF SpotsFirst
    <2>2. \A j \in 1 .. (i - 1) : route'[t][j] \in SpotRequests
      BY <1>13, <2>1
    <2>3. request \in OfRows
      <3>1. 1 \in 1 .. i
        BY <1>13
      <3> QED
        BY <1>1, <2>1, <3>1 DEF SpotRequests, OfRows
    <2>4. ASSUME NEW j \in 1 .. n + Len(w), work'[t][j].op = "token"
          PROVE  work'[t][j].event.key \in Spots
      <3>1. CASE j <= n
        <4>1. j \in 1 .. n
          BY <1>11, <3>1
        <4> QED
          BY <1>10, <1>11, <2>1, <2>4, <4>1
      <3>2. CASE j > n
        <4>1. j - n \in 1 .. Len(w) /\ work'[t][j] = w[j - n]
          BY <1>10, <3>2
        <4> QED
          BY <1>7, <2>3, <2>4, <4>1
      <3> QED
        BY <1>11, <3>1, <3>2
    <2> QED
      BY <1>10, <2>2, <2>4
  <1>15. PoolFirst(t)'
    <2> SUFFICES ASSUME NEW i \in DOMAIN route'[t], route'[t][i] = "ohlcv"
                 PROVE  IF i = 1 THEN EndsWithPool(work'[t]) ELSE route'[t][i - 1] = "pool"
      BY DEF PoolFirst, EndsWithPool
    <2>1. i + 1 \in DOMAIN route[t] /\ route[t][i + 1] = "ohlcv" /\ i \in Nat /\ i >= 1
      BY <1>13
    <2>2. route[t][i] = "pool"
      <3>1. i + 1 # 1 /\ (i + 1) - 1 = i
        BY <2>1
      <3> QED
        BY <2>1, <3>1 DEF PoolFirst
    <2>3. CASE i = 1
      <3>1. request = "pool"
        BY <1>1, <2>2, <2>3
      <3>2. Len(w) = 2 /\ w[1].op = "token" /\ w[2].op # "token" /\ w[1].event.key \in GeckoPools
        <4>1. Len(w) = 2 /\ w[1].op = "token" /\ w[2].op # "token"
          BY <1>9, <3>1
        <4>2. 1 \in 1 .. Len(w)
          BY <4>1
        <4> QED
          BY <1>8, <3>1, <4>1, <4>2
      <3>3. work'[t][n + 1] = w[1] /\ work'[t][n + 2] = w[2] /\ DOMAIN work'[t] = 1 .. n + 2
        BY <1>10, <3>2
      <3>4. \A l \in 1 .. n + 2 : l > n + 1 => l = n + 2
        BY <1>11
      <3>5. n + 1 \in 1 .. n + 2
        BY <1>11
      <3> QED
        BY <2>3, <3>2, <3>3, <3>4, <3>5 DEF EndsWithPool
    <2>4. CASE i # 1
      <3>1. i - 1 \in 1 .. (i - 1) /\ (i - 1) + 1 = i
        BY <2>1, <2>4
      <3>2. route'[t][i - 1] = route[t][i]
        BY <1>13, <3>1
      <3> QED
        BY <2>2, <2>4, <3>2
    <2> QED
      BY <2>3, <2>4
  <1>16. TokenIsLast(t)'
    <2>1. ran'[t] = n /\ ran[t] = n /\ token_id'[t] = token_id[t]
      BY <1>0 DEF n, k
    <2>2. TokenIsLast(t)
      OBVIOUS
    <2> SUFFICES ASSUME NEW j \in 1 .. n, work'[t][j].op = "token",
                        \A l \in 1 .. n : l > j => work'[t][l].op # "token"
                 PROVE  token_id'[t] = work'[t][j].event.key
      BY <2>1 DEF TokenIsLast
    <2>3. \A i \in 1 .. n : work'[t][i] = work[t][i]
      BY <1>10
    <2>4. \A l \in 1 .. n : l > j => work[t][l].op # "token"
      BY <2>3
    <2> QED
      BY <2>1, <2>2, <2>3, <2>4 DEF TokenIsLast
  <1> QED
    BY <1>12, <1>14, <1>15, <1>16

\* An upsert is the last statement about a token that was executed.
LEMMA UpsertOrdered ==
  ASSUME NEW t \in Ingesters, RunInv, Ordered(t), UpsertToken(t)
  PROVE  Ordered(t)'
  <1>0. /\ ran[t] \in Nat /\ ran[t] < Len(work[t]) /\ DOMAIN work[t] = 1 .. Len(work[t])
        /\ work'[t] = work[t] /\ route'[t] = route[t] /\ token_id'[t] = work[t][ran[t] + 1].event.key
        /\ ran'[t] = PastStatement(t) /\ Due(t, "token") /\ work[t][ran[t] + 1].op = "token"
    BY ListHasPositions
       DEF RunInv, HistoryShape, OfIngesters, Typed, UpsertToken, Due, Statement
  <1>1. Typed(t)
    BY DEF RunInv
  <1>2. ran'[t] = ran[t] + 1 \/ (ran'[t] = ran[t] + 2 /\ work[t][ran[t] + 2].op = "none")
    BY <1>0, <1>1, PastToken
  <1>3. ASSUME NEW j \in 1 .. ran'[t], work[t][j].op = "token",
               \A l \in 1 .. ran'[t] : l > j => work[t][l].op # "token"
        PROVE  j = ran[t] + 1
    <2>1. ran[t] + 1 \in 1 .. ran'[t]
      BY <1>0, <1>2
    <2>2. ~(ran[t] + 1 > j)
      BY <1>0, <1>3, <2>1
    <2> QED
      BY <1>0, <1>2, <1>3, <2>2
  <1>4. TokenIsLast(t)'
    <2> SUFFICES ASSUME NEW j \in 1 .. ran'[t], work'[t][j].op = "token",
                        \A l \in 1 .. ran'[t] : l > j => work'[t][l].op # "token"
                 PROVE  token_id'[t] = work'[t][j].event.key
      BY DEF TokenIsLast
    <2>1. j = ran[t] + 1
      BY <1>0, <1>3
    <2> QED
      BY <1>0, <2>1
  <1>5. SpotsFirst(t)'
    BY <1>0 DEF Ordered, SpotsFirst
  <1>6. PoolFirst(t)'
    <2>1. route'[t] = route[t] /\ work'[t] = work[t]
      BY <1>0
    <2> QED
      BY <2>1 DEF Ordered, PoolFirst, EndsWithPool
  <1> QED
    BY <1>4, <1>5, <1>6 DEF Ordered

\* The end of a run, and the steps that pass no token.
LEMMA OthersOrdered ==
  ASSUME NEW t \in Ingesters, RunInv, Ordered(t),
         \/ InsertRow(t) \/ MeetRow(t) \/ ReadRow(t) \/ SendHistoryCommit(t)
         \/ CommitHistory(t) \/ EndHistory(t) \/ Abandon(t)
  PROVE  Ordered(t)'
  <1> USE DEF HistoryShape, OfIngesters, RunInv
  <1>1. CASE EndHistory(t) \/ Abandon(t)
    <2>1. ran'[t] = 0 /\ route'[t] = <<>>
      BY <1>1 DEF EndHistory, Abandon, Dismiss
    <2> QED
      BY <2>1 DEF Ordered, SpotsFirst, PoolFirst, TokenIsLast
  <1>2. ASSUME work'[t] = work[t], route'[t] = route[t], token_id'[t] = token_id[t],
               \/ ran'[t] = ran[t]
               \/ /\ ran'[t] = ran[t] + 1 /\ ran[t] < Len(work[t])
                  /\ work[t][ran[t] + 1].op # "token"
        PROVE  Ordered(t)'
    <2>0. ran[t] \in Nat
      BY ListHasPositions DEF Typed
    <2>1. \A j \in 1 .. ran'[t] : j \in 1 .. ran[t] \/ work[t][j].op # "token"
      BY <1>2, <2>0
    <2>2. \A j \in 1 .. ran[t] : j \in 1 .. ran'[t]
      BY <1>2, <2>0
    <2>3. TokenIsLast(t)'
      BY <1>2, <2>1, <2>2 DEF Ordered, TokenIsLast
    <2> QED
      BY <1>2, <2>3 DEF Ordered, SpotsFirst, PoolFirst
  <1>3. CASE InsertRow(t)
    BY <1>2, <1>3 DEF InsertRow, Due
  <1>4. CASE MeetRow(t) \/ SendHistoryCommit(t) \/ CommitHistory(t)
    BY <1>2, <1>4 DEF MeetRow, SendHistoryCommit, CommitHistory
  <1>5. CASE ReadRow(t)
    <2>1. ran[t] < Len(work[t]) /\ work[t][ran[t] + 1].op # "token"
      BY <1>5 DEF ReadRow, Typed, Statement
    <2> QED
      BY <1>2, <1>5, <2>1 DEF ReadRow
  <1> QED
    BY <1>1, <1>3, <1>4, <1>5

\* The steps that leave a run its statements, or drop them.
LEMMA SameStatements ==
  ASSUME NEW s \in Ingesters, StatementsTold(s), work'[s] = work[s] \/ work'[s] = <<>>
  PROVE  StatementsTold(s)'
  BY DEF StatementsTold, RowTold, RowAt, Told

LEMMA SameOrder ==
  ASSUME NEW s \in Ingesters, Ordered(s), work'[s] = work[s], ran'[s] = ran[s],
         route'[s] = route[s], token_id'[s] = token_id[s]
  PROVE  Ordered(s)'
  BY DEF Ordered, SpotsFirst, PoolFirst, EndsWithPool, TokenIsLast

\* What a run has inserted was among its statements.
LEMMA AddedTold ==
  ASSUME NEW t \in Ingesters, RunInv, StatementsTold(t), NEW r \in added[t]
  PROVE  RowTold(r)
  <1>1. Typed(t) /\ Taken(t)
    BY DEF RunInv
  <1>2. PICK i \in 1 .. ran[t] : work[t][i].op = "insert" /\ r = RowAt(t, i)
    BY <1>1 DEF Taken, Own, Executed
  <1>3. i \in DOMAIN work[t]
    BY <1>1, ListHasPositions DEF Typed
  <1> QED
    BY <1>2, <1>3 DEF StatementsTold

LEMMA RunTellsTokens ==
  ASSUME NEW t \in Ingesters, RunInv, TokenInv, VenuesInv,
         \/ BeginHistory(t) \/ BeginLoad(t) \/ VenueAnswers(t)
         \/ RunStatement(t) \/ SendHistoryCommit(t) \/ CommitHistory(t)
         \/ EndHistory(t) \/ Abandon(t)
  PROVE  BatchesTold' /\ TokensTold(SeenByAny)'
  <1>0. /\ t \in Sessions /\ TypeOK /\ Typed(t) /\ EventsTyped(t) /\ StatementsTold(t)
        /\ BatchesTold /\ TokensTold(SeenByAny)
    BY IngestersAssumption DEF Ingesters, RunInv, TokenInv, StoreInv, VenuesInv
  <1>1. BatchesTold'
    <2>1. UNCHANGED batch
      BY DEF BeginHistory, BeginLoad, VenueAnswers, RunStatement, UpsertToken, InsertRow, MeetRow,
             ReadRow, SendHistoryCommit, CommitHistory, EndHistory, Abandon, vars, collectVars
    <2> QED
      BY <1>0, <2>1 DEF BatchesTold, Told
  <1>2. CASE UpsertToken(t)
    <2> DEFINE e == Statement(t).event
    <2>1. ran[t] + 1 \in DOMAIN work[t] /\ work[t][ran[t] + 1].op = "token"
      BY <1>0, <1>2, ListHasPositions DEF Typed, UpsertToken, Due
    <2>2. e.key \in Keys /\ Told(SeenByAny, e.key, e)
      BY <1>0, <2>1 DEF EventsTyped, StatementsTold, Statement, Events
    <2>3. draft' = [draft EXCEPT ![t][e.key] = Merge(Visible(t, e.key), e)] /\ UNCHANGED tokens
      BY <1>2 DEF UpsertToken
    <2> HIDE DEF e
    <2> QED
      BY <1>0, <1>1, <2>2, <2>3, UpsertTold
  <1>3. CASE CommitHistory(t) \/ Abandon(t)
    BY <1>0, <1>1, <1>3, ReleaseTold DEF CommitHistory, Abandon
  <1>4. CASE UNCHANGED <<tokens, draft>>
    BY <1>0, <1>1, <1>4 DEF TokensTold, Told
  <1> QED
    BY <1>2, <1>3, <1>4
       DEF BeginHistory, BeginLoad, VenueAnswers, RunStatement, InsertRow, MeetRow,
           ReadRow, SendHistoryCommit, EndHistory, vars

LEMMA RunTellsRows ==
  ASSUME NEW t \in Ingesters, RunInv, TokenInv, VenuesInv,
         \/ BeginHistory(t) \/ BeginLoad(t) \/ VenueAnswers(t)
         \/ RunStatement(t) \/ SendHistoryCommit(t) \/ CommitHistory(t)
         \/ EndHistory(t) \/ Abandon(t)
  PROVE  /\ \A r \in market' : RowTold(r)
         /\ \A s \in Ingesters : StatementsTold(s)'
         /\ \A s \in Historians : Ordered(s)'
  <1>0. OnlyMoves(t) /\ Effect(t) /\ Historians \subseteq Ingesters
        /\ StatementsTold(t) /\ (t \in Historians => Ordered(t) /\ TokensFirst(t))
    BY IngesterEffect, IngestersAssumption DEF RunInv, Effect, VenuesInv, TokenInv, Ingesters
  <1>1. ASSUME NEW r \in market' PROVE RowTold(r)
    <2>1. CASE r \in market
      BY <2>1 DEF VenuesInv
    <2>2. CASE r \notin market
      <3>1. r \in added[t]
        BY <2>2 DEF BeginHistory, BeginLoad, VenueAnswers, RunStatement, UpsertToken, InsertRow,
                    MeetRow, ReadRow, SendHistoryCommit, CommitHistory, EndHistory, Abandon
      <3> QED
        BY <1>0, <3>1, AddedTold
    <2> QED
      BY <2>1, <2>2
  <1>2. ASSUME NEW s \in Ingesters \ {t}
        PROVE  StatementsTold(s)' /\ (s \in Historians => Ordered(s)')
    <2>1. /\ work'[s] = work[s] /\ ran'[s] = ran[s]
          /\ route'[s] = route[s] /\ token_id'[s] = token_id[s]
      BY <1>0 DEF OnlyMoves
    <2> QED
      BY <2>1, SameStatements, SameOrder DEF VenuesInv
  <1>3. StatementsTold(t)' /\ (t \in Historians => Ordered(t)')
    <2>1. CASE BeginHistory(t)
      BY <2>1, BeginTold
    <2>2. CASE BeginLoad(t)
      <3>1. t \notin Historians
        BY <2>2, IngestersAssumption DEF BeginLoad
      <3> QED
        BY <2>2, <3>1, LoadTold
    <2>3. CASE VenueAnswers(t)
      <3>1. t \in Historians
        <4>1. route[t] # <<>>
          BY <2>3 DEF VenueAnswers
        <4> QED
          BY <4>1 DEF TokenInv, TokensThere, Ingesters
      <3> QED
        BY <1>0, <2>3, <3>1, AnswerTold
    <2>4. ASSUME work'[t] = work[t] \/ work'[t] = <<>>, t \in Historians => Ordered(t)'
          PROVE  StatementsTold(t)' /\ (t \in Historians => Ordered(t)')
      BY <1>0, <2>4, SameStatements
    <2>5. CASE UpsertToken(t)
      BY <1>0, <2>4, <2>5, UpsertOrdered DEF UpsertToken
    <2>6. CASE \/ InsertRow(t) \/ MeetRow(t) \/ ReadRow(t) \/ SendHistoryCommit(t)
               \/ CommitHistory(t) \/ EndHistory(t) \/ Abandon(t)
      <3>1. t \in Historians => Ordered(t)'
        BY <1>0, <2>6, OthersOrdered
      <3>2. work'[t] = work[t] \/ work'[t] = <<>>
        BY <2>6 DEF InsertRow, MeetRow, ReadRow, SendHistoryCommit, CommitHistory, EndHistory,
                    Abandon, Dismiss, RunInv, HistoryShape, OfIngesters
      <3> QED
        BY <2>4, <3>1, <3>2
    <2> QED
      BY <2>1, <2>2, <2>3, <2>5, <2>6 DEF RunStatement
  <1> QED
    BY <1>0, <1>1, <1>2, <1>3

LEMMA CollectorTells ==
  ASSUME NEW s \in Collectors, TokenInv, VenuesInv, Collect(s) \/ RollBack(s),
         UNCHANGED historyVars
  PROVE  VenuesInv'
  <1>1. TypeOK /\ AskedInOrder /\ s \in Sessions
    BY DEF TokenInv, StoreInv, Collectors
  <1>2. \A k \in Keys : Seen[k] \subseteq SeenByAny[k]
    BY DEF SeenByAny
  <1>3. BatchesTold' /\ TokensTold(SeenByAny)'
    BY <1>1, <1>2, CycleTold DEF VenuesInv, Collect, Fail
  <1>4. \A r \in market' : RowTold(r)
    BY DEF VenuesInv, historyVars
  <1>5. \A o \in Ingesters : StatementsTold(o)'
    BY SameStatements DEF VenuesInv, historyVars
  <1>6. \A o \in Historians : Ordered(o)'
    BY SameOrder DEF VenuesInv, historyVars, Ingesters
  <1> QED
    BY <1>3, <1>4, <1>5, <1>6 DEF VenuesInv, RowTold

LEMMA VenuesInvStep ==
  ASSUME RunInv, TokenInv, VenuesInv, [HistoryNext]_systemVars
  PROVE  VenuesInv'
  <1>1. ASSUME NEW t \in Ingesters,
               \/ BeginHistory(t) \/ BeginLoad(t) \/ VenueAnswers(t)
               \/ RunStatement(t) \/ SendHistoryCommit(t) \/ CommitHistory(t)
               \/ EndHistory(t) \/ Abandon(t)
        PROVE  VenuesInv'
    BY <1>1, RunTellsTokens, RunTellsRows DEF VenuesInv, RowTold
  <1>2. ASSUME NEW s \in Collectors, Collect(s) PROVE VenuesInv'
    BY <1>2, CollectorTells DEF Collect
  <1>3. ASSUME NEW s \in Sessions, BreakCycle(s) PROVE VenuesInv'
    <2>1. CASE s \in Ingesters
      BY <1>1, <1>3, <2>1 DEF BreakCycle
    <2>2. CASE s \notin Ingesters
      <3>1. s \in Collectors /\ RollBack(s) /\ UNCHANGED historyVars
        BY <1>3, <2>2 DEF BreakCycle, Collectors
      <3> QED
        BY <3>1, CollectorTells
    <2> QED
      BY <2>1, <2>2
  <1>4. CASE UNCHANGED systemVars
    <2>1. BatchesTold' /\ TokensTold(SeenByAny)'
      BY <1>4 DEF VenuesInv, systemVars, vars, BatchesTold, TokensTold, Told
    <2>2. \A r \in market' : RowTold(r)
      BY <1>4 DEF VenuesInv, systemVars, historyVars
    <2>3. \A o \in Ingesters : StatementsTold(o)'
      BY <1>4, SameStatements DEF VenuesInv, systemVars, historyVars
    <2>4. \A o \in Historians : Ordered(o)'
      BY <1>4, SameOrder DEF VenuesInv, systemVars, historyVars, Ingesters
    <2> QED
      BY <2>1, <2>2, <2>3, <2>4 DEF VenuesInv, RowTold
  <1> QED
    BY <1>1, <1>2, <1>3, <1>4 DEF HistoryNext, FailHistory

LEMMA VenuesInvInit == HistoryInit => VenuesInv
  <1> SUFFICES ASSUME HistoryInit PROVE VenuesInv
    OBVIOUS
  <1>1. BatchesTold /\ TokensTold(SeenByAny)
    BY NothingTold DEF HistoryInit
  <1>2. ASSUME NEW s \in Ingesters PROVE StatementsTold(s) /\ Ordered(s)
    <2>1. work[s] = <<>> /\ ran[s] = 0 /\ route[s] = <<>>
      BY DEF HistoryInit
    <2> QED
      BY <2>1 DEF StatementsTold, Ordered, SpotsFirst, PoolFirst, TokenIsLast
  <1> QED
    BY <1>1, <1>2 DEF HistoryInit, VenuesInv, Ingesters

\* In every reachable state the statements of every run tell what the venues
\* said, and the requests still to come are about the token the run has.
THEOREM VenuesInvariance == HistorySpec => []VenuesInv
  <1>1. HistorySpec => []TokenInv
    BY RunInvariant, TokenInvInit, TokenInvStep, PTL DEF HistorySpec
  <1> QED
    BY <1>1, RunInvariant, VenuesInvInit, VenuesInvStep, PTL DEF HistorySpec

\* For any payloads whose times mean instants, any number of collectors,
\* historians and loaders and any faults, every committed price is one that a
\* venue or a file said of that token, source and instant, and every token is
\* dated as a venue or the clock of a run dated it.
THEOREM MarketTold == HistorySpec => []RowsTellVenues
  <1>1. VenuesInv => RowsTellVenues
    BY DEF VenuesInv, RowTold, TokensTold, Told, SeenByAny, RowsTellVenues
  <1> QED
    BY <1>1, VenuesInvariance, PTL
=============================================================================
