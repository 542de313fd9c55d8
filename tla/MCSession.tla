------------------------------ MODULE MCSession ------------------------------
(* Two targets; instances of module Session for TLC.                       *)
EXTENDS Session

=============================================================================
