---------------------------- MODULE MCInstallation -----------------------------
(***************************************************************************)
(* Small instances of the components around a Run.                         *)
(***************************************************************************)
EXTENDS Installation

ImageKeys == {<<"c", "d1">>, <<"c", "d2">>}  \* a commit under two definitions
================================================================================
