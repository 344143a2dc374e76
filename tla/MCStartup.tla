------------------------------ MODULE MCStartup ------------------------------
(* The pools and the base file as TLC evaluates them.                         *)
EXTENDS Startup

CONSTANTS login, other, a
MCPools == <<login, other>>
Symmetry == Permutations(Keys)
MCBase == {[name |-> 1, content |-> a, state |-> "ARCHIVED"]}
=============================================================================
