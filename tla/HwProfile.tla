------------------------------ MODULE HwProfile ------------------------------
(***************************************************************************)
(* The vendor-neutral vocabulary of crates/core/src/types.rs and the pure  *)
(* decision built on it in crates/daemon/src/engine.rs: which profile the  *)
(* hardware should be in, given what power-profiles-daemon reports, the    *)
(* power source and the verdict of the thermal guard.                      *)
(***************************************************************************)
EXTENDS Integers, Sequences

CONSTANTS
  Unset,   \* Rust's None
  Names,   \* the profile names power-profiles-daemon may report
  Config   \* the parsed /etc/omarchy-power/config.toml

PowerLevel == {"performance", "balanced", "power-saver"}
FanMode    == {"auto", "silent", "aggressive"}
U8         == 0..255

Option(S) == S \cup {Unset}

\* A requested change: an attribute that is Unset is left alone.
HwProfile ==
  [ power_level            : Option(PowerLevel),
    fan_mode               : Option(FanMode),
    cooler_boost           : Option(BOOLEAN),
    battery_saver          : Option(BOOLEAN),
    charge_end_threshold   : Option(U8),
    charge_start_threshold : Option(U8) ]

Attrs == { "power_level", "fan_mode", "cooler_boost", "battery_saver",
           "charge_end_threshold", "charge_start_threshold" }

\* HwProfile::default(), which asks for nothing.
NoChange == [a \in Attrs |-> Unset]

IsEmpty(profile) == profile = NoChange

ThermalConfig == [enabled : BOOLEAN, high_c : U8, low_c : U8, cooldown_s : Nat]

\* Config::default(), for a machine without a file.
DefaultConfig ==
  [ profiles   |-> [name \in PowerLevel |->
                      [ NoChange EXCEPT
                          !.power_level   = name,
                          !.fan_mode      = CASE name = "performance" -> "aggressive"
                                              [] name = "balanced"    -> "auto"
                                              [] name = "power-saver" -> "silent",
                          !.battery_saver = (name = "power-saver") ]],
    on_battery |-> NoChange,
    thermal    |-> [enabled |-> TRUE, high_c |-> 90, low_c |-> 80, cooldown_s |-> 30] ]

\* None is no value of any optional field, nor a profile or a name.
ASSUME UnsetIsNoValue ==
  /\ Unset \notin PowerLevel
  /\ Unset \notin FanMode
  /\ Unset \notin BOOLEAN
  /\ Unset \notin Int
  /\ Unset \notin HwProfile
  /\ Unset \notin Names

\* What serde accepts: any profile names, any settings, no relation between
\* the two thermal thresholds.
ASSUME ConfigIsTyped ==
  /\ DOMAIN Config.profiles \subseteq Names
  /\ \A name \in DOMAIN Config.profiles : Config.profiles[name] \in HwProfile
  /\ Config.on_battery \in HwProfile
  /\ Config.thermal \in ThermalConfig

-----------------------------------------------------------------------------

Inputs == [ppd_profile : Option(Names), on_battery : BOOLEAN, thermal_tripped : BOOLEAN]

\* An unknown name, like no name at all, maps to a profile that changes nothing.
ForProfile(name) ==
  IF name \in DOMAIN Config.profiles THEN Config.profiles[name] ELSE NoChange

OrElse(over, base) == IF over = Unset THEN base ELSE over

\* The fields are the ones the function lists, in its order; it has no line
\* for charge_start_threshold.
Overlay(base, over) ==
  [ base EXCEPT
      !.power_level          = OrElse(over.power_level, @),
      !.fan_mode             = OrElse(over.fan_mode, @),
      !.cooler_boost         = OrElse(over.cooler_boost, @),
      !.battery_saver        = OrElse(over.battery_saver, @),
      !.charge_end_threshold = OrElse(over.charge_end_threshold, @) ]

\* Mutated form of Decide: the guard only fills in for a missing fan mode.
DecideProfileWins(inputs) ==
  LET profile == ForProfile(inputs.ppd_profile)
      powered == IF inputs.on_battery THEN Overlay(profile, Config.on_battery)
                                      ELSE profile
  IN  IF inputs.thermal_tripped
        THEN [powered EXCEPT !.fan_mode = OrElse(@, "aggressive")]
        ELSE powered

\* Profile, then battery overlay, then the thermal guard with the last word.
Decide(inputs) ==
  LET profile == ForProfile(inputs.ppd_profile)
      powered == IF inputs.on_battery THEN Overlay(profile, Config.on_battery)
                                      ELSE profile
  IN  IF inputs.thermal_tripped THEN [powered EXCEPT !.fan_mode = "aggressive"]
                                ELSE powered
=============================================================================
