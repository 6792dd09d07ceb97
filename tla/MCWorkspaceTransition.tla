----------------------- MODULE MCWorkspaceTransition -----------------------
(* Small instances of WorkspaceTransition for TLC.                          *)
EXTENDS WorkspaceTransition, TLC

\* Controllers are interchangeable.
Symmetry == Permutations(Controllers)
=============================================================================
