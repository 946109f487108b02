------------------------- MODULE MCDashboardCommands -------------------------
(***************************************************************************)
(* The instance TLC checks: two request threads, two reloads and a block,  *)
(* so that a reload can be stale while another is fresh.                   *)
(***************************************************************************)
EXTENDS DashboardCommands
=============================================================================
