----------------------------- MODULE MCCollector -----------------------------
(***************************************************************************)
(* Small tables for TLC: every order of allocation, linking, rooting and   *)
(* dropping that fits in them.                                             *)
(***************************************************************************)
EXTENDS Collector
CONSTANT c1
MCCode == {c1}
NoCode == {}
=============================================================================
