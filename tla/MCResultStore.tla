--------------------------- MODULE MCResultStore ---------------------------
(* Two writers of one run, which one of them spells differently.  A result    *)
(* computed again has another payload.  Amounts 96 and 104 are one amount in  *)
(* the tables, 110 is another.                                                *)
EXTENDS ResultStore

CONSTANTS w1, w2, t1

Paper(spelling, price, payload) ==
    [run |-> spelling, token |-> t1, ts |-> 1, side |-> "BUY", qty |-> 100,
     price |-> price, payload |-> payload]

Strategy(spelling, token, start, payload) ==
    [run |-> spelling, name |-> "momentum", token |-> token, start |-> start,
     end |-> Null, payload |-> payload]

SomeLists ==
    {<<Paper("dashed", 104, "a"), Strategy("dashed", Null, Null, "a")>>,
     <<Strategy("plain", Null, Null, "b"), Paper("plain", 96, "b")>>,
     <<Strategy("plain", t1, Null, "b"), Strategy("plain", t1, 1, "b"),
       Strategy("dashed", t1, Null, "c")>>,
     <<Paper("plain", 110, "b"), Paper("dashed", 96, "c")>>,
     <<Paper("plain", 110, "a"), Paper("bad", 110, "a")>>,
     <<Strategy("plain", t1, Null, "c")>>}

RunIds == [spelling \in {"dashed", "plain", "bad"} |->
              IF spelling = "bad" THEN Null ELSE "run"]

=============================================================================
