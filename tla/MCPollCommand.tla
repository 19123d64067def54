---------------------------- MODULE MCPollCommand ----------------------------
(* A poller and a collect-once that meet on two tokens. *)
EXTENDS PollCommand

CONSTANTS p1, p2, mintA, mintB

Ev(k, t) == [key |-> k, created |-> Null, first |-> t, symbol |-> "token"]

\* One cycle reports the tokens in one order, another in the other.
MCAnswers == <<
    {<<>>},
    {<<Ev(mintA, 1)>>, <<Ev(mintB, 1)>>},
    {<<Ev(mintA, 1)>>, <<Ev(mintB, 1)>>} >>

MCSymbols == {"token"}
=============================================================================
