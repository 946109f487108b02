----------------------------- MODULE MCLastHeard -----------------------------
(***************************************************************************)
(* The instance TLC checks: the two stores, three callsigns of which the   *)
(* file keeps two, and four calls of record() within two seconds.          *)
(***************************************************************************)
EXTENDS LastHeard, TLC

Symmetric == Permutations(Calls) \cup Permutations(Stores)
=============================================================================
