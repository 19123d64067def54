----------------------------- MODULE VenueTimes -----------------------------
(***************************************************************************)
(* collectors/normalization.py, parse_venue_time (any spelling of an       *)
(* instant, for optional times) and parse_required_venue_time (numbers     *)
(* only), with domain/types.py.  No state.                                 *)
(*                                                                         *)
(* Instants are in milliseconds.  A JSON value is a record of its type and *)
(* n: of a number, or of a string of digits, its value times PerSecond, so *)
(* that fractions of a second are integers too; of an ISO string, its      *)
(* instant; of a bool or another string, 0 if it is falsy.                 *)
(***************************************************************************)
EXTENDS Integers, Sequences

CONSTANTS
    PerSecond,          \* 1000
    Threshold,          \* 10_000_000_000: greater numbers are milliseconds
    Earliest, Latest,   \* the instants a datetime can hold
    Refused             \* the parser raises

Types == {"null", "bool", "int", "float", "digits", "iso", "text", "nonfinite"}

\* What Python takes for true.  A string "0" is true, a number 0 is not.
Truthy(v) ==
    /\ v.type # "null"
    /\ v.type \in {"bool", "int", "float", "text"} => v.n # 0

\* a or b or ...: the first that is truthy, or else the last.
FirstTruthy(values) ==
    values[CHOOSE i \in DOMAIN values :
              /\ Truthy(values[i]) \/ i = Len(values)
              /\ \A j \in 1..(i - 1) : ~Truthy(values[j])]

Held(t) == IF t \in Earliest..Latest THEN t ELSE Refused

\* Mutant: the threshold of milliseconds taken for one of seconds.
InstantByMillis(n) == Held(IF n > Threshold THEN n \div PerSecond ELSE n)

\* utc_from_millis(int(value)) or utc_from_seconds(value).
Instant(n) == Held(IF n > Threshold * PerSecond THEN n \div PerSecond ELSE n)

parse_venue_time(v) ==
    CASE v.type \in {"int", "float", "digits"} -> Instant(v.n)
      [] v.type = "iso" -> v.n
      [] OTHER -> Refused

\* Mutant: digits in a string are always seconds.
DigitsAreSeconds(v) ==
    CASE v.type \in {"int", "float"} /\ v.n > 0 -> Instant(v.n)
      [] v.type = "digits" -> Held(v.n)
      [] OTHER -> Refused

parse_required_venue_time(v) ==
    IF /\ v.type \in {"int", "float", "digits"}
       /\ v.n > 0
       /\ v.type = "float" => v.n % PerSecond = 0
    THEN Instant(v.n)
    ELSE Refused

-----------------------------------------------------------------------------
(* How a venue may write an instant *)

Absent == [type |-> "null", n |-> 0]

Zero == [type |-> "int", n |-> 0]

Millis(t) == [type |-> "int", n |-> PerSecond * t]

Seconds(t) == [type |-> IF t % PerSecond = 0 THEN "int" ELSE "float", n |-> t]

Numbers(t) == {Millis(t), Seconds(t), [Millis(t) EXCEPT !.type = "float"]}

Digits(t) ==
    {[v EXCEPT !.type = "digits"] : v \in {x \in Numbers(t) : x.type = "int"}}

Spellings(t) == Numbers(t) \cup Digits(t) \cup {[type |-> "iso", n |-> t]}

=============================================================================
