---------------------------- MODULE MCAuthServer ----------------------------
(* Model values for TLC; the clients can be exchanged for each other.        *)
EXTENDS AuthServer, TLC

Symmetry == Permutations(Sessions)
=============================================================================
