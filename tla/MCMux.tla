------------------------------- MODULE MCMux -------------------------------
(* Mux for TLC.  The clients are interchangeable: nothing orders them.     *)
EXTENDS Mux, TLC

Symmetry == Permutations(Clients)
=============================================================================
