----------------------------- MODULE MCTimeouts -----------------------------
(***************************************************************************)
(* Model-checking instance of Timeouts: lengths and timeouts take their    *)
(* real values, and the quiet counter goes past the last doubling that     *)
(* changes the mDNS timeout (the 25th, after 75 timeouts).                 *)
(***************************************************************************)
EXTENDS Timeouts

MCMaxQuiet == 80
=============================================================================
