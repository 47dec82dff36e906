----------------------------- MODULE MCTaskBoard -----------------------------
(***************************************************************************)
(* Small instances of TaskBoard.                                           *)
(***************************************************************************)
EXTENDS TaskBoard, TLC

\* Requests are interchangeable, and so are the tasks still to be made; no
\* property is temporal.
BoardSymmetry == Permutations(Workers) \union Permutations(Tasks \ Initial)
=============================================================================
