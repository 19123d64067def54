---------------------------- MODULE MCHttpClient ----------------------------
(* Two tasks sharing a limiter whose bucket holds a single token. *)
EXTENDS HttpClient
CONSTANTS c1, c2
=============================================================================
