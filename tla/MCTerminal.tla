------------------------------ MODULE MCTerminal -----------------------------
(***************************************************************************)
(* Terminal for TLC: the bounds are in the configurations.                 *)
(***************************************************************************)
EXTENDS Terminal
=============================================================================
