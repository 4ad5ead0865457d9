------------------------------ MODULE MCServer ------------------------------
(* Instances of Server for TLC. *)
EXTENDS Server

CONSTANTS c1, c2, f1, f2

TwoConns == {c1, c2}
TwoFds == {f1, f2}
=============================================================================
