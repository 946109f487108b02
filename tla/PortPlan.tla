------------------------------- MODULE PortPlan -------------------------------
(***************************************************************************)
(* build_port_plan: the four UDP ports between the gateway and             *)
(* Analog_Bridge.  Each is given in the configuration or chosen from its   *)
(* range; a plan saved by an earlier run is taken over if one of them is   *)
(* to be chosen and the range is still the same.  Every program of the     *)
(* repository that starts computes the plan anew, so they meet on the same *)
(* ports only if it comes out the same each time.                          *)
(***************************************************************************)
EXTENDS Integers, Sequences, FiniteSets, FiniteSetsExt, SequencesExt

CONSTANTS AutoPort,  \* a port that is to be chosen
          None      \* no plan: there is no state file, or none can be made

Ports == 1 .. 4   \* app_usrp_rx, app_usrp_tx, app_tlv_rx, app_tlv_tx
Plans == [ports : [Ports -> Nat], start : Nat, end : Nat]

ASSUME PlanAssumption == AutoPort \notin Nat /\ None \notin Seq(Nat) \cup Plans

InRange(cfg) == cfg.start .. cfg.end

(* _validate_plan.                                                         *)
Valid(plan, cfg) ==
  /\ IsInjective(plan.ports)
  /\ \A i \in Ports : plan.ports[i] \in InRange(cfg) \ cfg.reserved

(* _check_plan_available, where held are the ports that are bound.         *)
Available(plan, held) == ToSet(plan.ports) \cap held = {}

(* choose_auto, for each port in turn: the lowest that is free.            *)
Take(cfg, busy) ==
  LET Next(acc, want) ==
        LET free == InRange(cfg) \ (cfg.reserved \cup busy \cup ToSet(acc))
        IN CASE acc = None -> None
             [] acc # None /\ want # AutoPort -> Append(acc, want)
             [] OTHER -> IF free = {} THEN None ELSE Append(acc, Min(free))
  IN FoldLeft(Next, <<>>, cfg.explicit)

(* Mutant: the plan is made anew each time.                                *)
NeverReuse(saved, cfg, reuse) == FALSE

(* The saved plan stands in for a new one.                                 *)
Reuses(saved, cfg, reuse) ==
  /\ reuse /\ saved # None
  /\ \E i \in Ports : cfg.explicit[i] = AutoPort
  /\ saved.start = cfg.start /\ saved.end = cfg.end

(* None stands for a PortPlanError.  busy holds the ports bound by others; *)
(* with allowInUse they count as free.                                     *)
Plan(cfg, saved, busy, allowInUse, reuse) ==
  LET held == IF allowInUse THEN {} ELSE busy
      taken == Take(cfg, held)
      plan == IF Reuses(saved, cfg, reuse) THEN saved
              ELSE [ports |-> taken, start |-> cfg.start, end |-> cfg.end]
  IN IF /\ cfg.end - cfg.start >= 3
        /\ plan.ports # None /\ Valid(plan, cfg)
        /\ Available(plan, held)
     THEN plan ELSE None

(* analog_bridge_mapping: what Analog_Bridge sends to, and listens on.     *)
Mapping(plan) ==
  [usrp |-> [tx |-> plan.ports[1], rx |-> plan.ports[2]],
   ambe |-> [tx |-> plan.ports[3], rx |-> plan.ports[4]]]
=============================================================================
