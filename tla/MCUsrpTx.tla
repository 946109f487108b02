------------------------------ MODULE MCUsrpTx ------------------------------
(* The transmit queue of UsrpTx with the service thread, which also closes, *)
(* and the main thread, whose disconnects overlap its calls.                *)
EXTENDS UsrpTx
=============================================================================
