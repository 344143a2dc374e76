------------------------ MODULE MCDatabaseWorkerPool ------------------------
EXTENDS DatabaseWorkerPool, TLC

(* Operations are interchangeable; used only where no liveness is checked. *)
Symmetry == Permutations(Ops)
=============================================================================
