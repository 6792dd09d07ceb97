-------------------------- MODULE MCModelElevation --------------------------
(* Small instances of ModelElevation for TLC.                               *)
EXTENDS ModelElevation, TLC

\* TUI processes are interchangeable, and so are unused lease ids.
Symmetry == Permutations(Clients) \cup Permutations(Leases)
=============================================================================
