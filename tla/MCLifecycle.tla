----------------------------- MODULE MCLifecycle -----------------------------
(***************************************************************************)
(* The instance TLC checks is the whole model: it has no parameters.       *)
(***************************************************************************)
EXTENDS Lifecycle
=============================================================================
