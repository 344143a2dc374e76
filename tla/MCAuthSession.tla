--------------------------- MODULE MCAuthSession ---------------------------
EXTENDS AuthSession, TLC

(* Sessions are interchangeable; used only where no liveness is checked. *)
Symmetry == Permutations(Sessions)
=============================================================================
