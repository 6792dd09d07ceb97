--------------------------- MODULE MCTmuxRuntime ---------------------------
(* Small instances of TmuxRuntime for TLC.                                  *)
EXTENDS TmuxRuntime, TLC

\* TUI processes are interchangeable, and so are pane ids.
Symmetry == Permutations(Clients) \cup Permutations(Panes)
=============================================================================
