------------------------------- MODULE MCWire -------------------------------
(* Wire with two accounts, one of them registered.                           *)
(*                                                                           *)
(* Bounds leaves out what follows late and torn on the second connection,    *)
(* of which the liveness property claims nothing, a server whose writes are  *)
(* held up together with a client in trouble, and more than two troubles of  *)
(* the client's at once.                                                     *)
EXTENDS Wire, FiniteSets

CONSTANTS known, unknown
MCAccounts   == {known, unknown}
MCRegistered == {known}

WritesAtOnce == build = "reactor" /\ stalls = 0 /\ errors = 0
Troubles     == <<partials > 0, resets > 0, short, banned, torn, account = unknown>>

Bounds ==
  /\ epoch > 1 \/ resets > 0 \/ partials > 0 \/ torn => WritesAtOnce
  /\ epoch > 1 => ~late /\ ~torn /\ account # unknown
  /\ Cardinality({i \in DOMAIN Troubles : Troubles[i]}) <= 2
=============================================================================
