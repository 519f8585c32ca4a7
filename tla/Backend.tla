------------------------------- MODULE Backend -------------------------------
(***************************************************************************)
(* What one call of Backend::apply does to the hardware, as the steps that  *)
(* can interleave with other callers: crates/core/src/backends/msi.rs and   *)
(* platform_profile.rs share the shape, and both end in battery::apply of  *)
(* crates/core/src/battery.rs.  Every sysfs write is a step of its own.     *)
(*                                                                         *)
(* The two backends differ only in what the machine accepts, which is the  *)
(* constant Machine: MSI takes every level and has most capabilities;      *)
(* platform-profile takes the levels its firmware has a name for and no    *)
(* fan mode, cooler boost or battery saver.                                *)
(***************************************************************************)
EXTENDS HwProfile

CONSTANT Machine

Thresholds == {"charge_end_threshold", "charge_start_threshold"}

ASSUME MachineIsTyped ==
  /\ Machine.levels \subseteq PowerLevel
  /\ Machine.caps \subseteq Attrs \ {"power_level"}

\* The steps of an apply: an attribute written, the threshold pair checked
\* against the hardware, or the order of the pair's two writes chosen.
Steps == Attrs \cup {"check", "order"}

Asked(profile, a) == IF profile[a] = Unset THEN << >> ELSE <<a>>

AsksForThresholds(profile) == \E a \in Thresholds : profile[a] # Unset

\* Mutated form of Todo: the line for the fan mode is missing.
TodoWithoutFans(profile) ==
  Asked(profile, "power_level") \o Asked(profile, "cooler_boost")
    \o Asked(profile, "battery_saver")
    \o (IF AsksForThresholds(profile) THEN <<"check", "order">> ELSE << >>)

\* The order in which both backends go through a profile.
Todo(profile) ==
  Asked(profile, "power_level") \o Asked(profile, "fan_mode")
    \o Asked(profile, "cooler_boost") \o Asked(profile, "battery_saver")
    \o (IF AsksForThresholds(profile) THEN <<"check", "order">> ELSE << >>)

\* A level the firmware has no name for, or an attribute the machine lacks.
Supports(a, value) ==
  IF a = "power_level" THEN value \in Machine.levels ELSE a \in Machine.caps

SupportsThresholds(profile) ==
  \A a \in Thresholds : profile[a] # Unset => Supports(a, profile[a])

InRange(profile) ==
  \A a \in Thresholds : profile[a] # Unset => profile[a] \in 20..100

\* Whichever half the caller left alone is read from the hardware; a threshold
\* that cannot be read constrains nothing.
InOrder(profile, hw) ==
  LET end   == OrElse(profile.charge_end_threshold, hw.charge_end_threshold)
      start == OrElse(profile.charge_start_threshold, hw.charge_start_threshold)
  IN  start # Unset /\ end # Unset => start < end

\* The end threshold is asked for and cannot be compared with the current
\* one, or goes up, or is not asked for at all.
Raising(profile, hw) ==
  LET wanted  == profile.charge_end_threshold
      current == hw.charge_end_threshold
  IN  wanted = Unset \/ current = Unset \/ wanted > current

\* Mutated form of ChargeWrites: the end first, whichever way it moves.
ChargeWritesEndFirst(profile, hw) ==
  Asked(profile, "charge_end_threshold") \o Asked(profile, "charge_start_threshold")

ChargeWrites(profile, hw) ==
  IF Raising(profile, hw)
    THEN Asked(profile, "charge_end_threshold") \o Asked(profile, "charge_start_threshold")
    ELSE Asked(profile, "charge_start_threshold") \o Asked(profile, "charge_end_threshold")

-----------------------------------------------------------------------------
(* The kernel, as the comment on battery::apply describes it: a write that  *)
(* would leave the pair of thresholds out of order is refused.  (MSI        *)
(* firmware instead moves the other threshold: Follow of module Tui.)       *)

KernelWrite(hw, a, value) == [hw EXCEPT ![a] = value]

Ordered(hw) ==
  hw.charge_start_threshold # Unset /\ hw.charge_end_threshold # Unset
    => hw.charge_start_threshold < hw.charge_end_threshold

KernelTakes(hw, a, value) ==
  a \in Thresholds => Ordered(KernelWrite(hw, a, value))
=============================================================================
