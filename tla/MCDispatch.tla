----------------------------- MODULE MCDispatch -----------------------------
(* Dispatch for TLC: the constants are given in the configurations.        *)
EXTENDS DispatchInv
=============================================================================
