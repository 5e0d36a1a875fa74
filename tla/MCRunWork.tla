------------------------------- MODULE MCRunWork -------------------------------
(***************************************************************************)
(* Small instances of the components inside a Run.                         *)
(***************************************************************************)
EXTENDS RunWork

TextTotals == <<2, 2>>  \* two texts of a file, of two units each
================================================================================
