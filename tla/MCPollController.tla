-------------------------- MODULE MCPollController --------------------------
(* Two controllers, with no limit or one of a few. *)
EXTENDS PollController
CONSTANTS c1, c2
=============================================================================
