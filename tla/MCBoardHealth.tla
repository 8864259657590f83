----------------------------- MODULE MCBoardHealth -----------------------------
(***************************************************************************)
(* Two boards and three health checks, enough for a streak of two failures *)
(* and the clean check that ends it; one board and two checks for what     *)
(* comes of a pause.                                                       *)
(***************************************************************************)
EXTENDS BoardHealth, TLC
CONSTANTS c6, s3, k1, k2, k3
MCBoards == {c6, s3}
MCRuns == {k1, k2, k3}
OneBoard == {c6}
TwoRuns == {k1, k2}
Interchangeable == Permutations(MCBoards) \cup Permutations(MCRuns)
=============================================================================
