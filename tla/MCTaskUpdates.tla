--------------------------- MODULE MCTaskUpdates ---------------------------
(* Small instances of TaskUpdates for TLC.                                 *)
EXTENDS TaskUpdates, TLC

\* No pages, one page, and two chunks of which the second has two pages.
CallPlans == {<<>>, <<1>>, <<1, 2, 2>>}

\* A single page, and four chunks, so that one report can replace another that waits.
ReportPlans == {<<1>>, <<1, 2, 3, 4>>}

Symmetry == Permutations(Users) \cup Permutations(DedupeKeys)
=============================================================================
