------------------------------ MODULE MCDaemon ------------------------------
(* The daemon with one of its watchers, which are alike, and the thermal     *)
(* loop.  The guard is off, so that the loop does nothing but retry: the     *)
(* engine's own runs have it on.                                            *)
EXTENDS Daemon, TLC

Ask(profile) == profile @@ NoChange

MCNames == {"performance", "power-saver"}

\* One attribute is enough for a decision to be stale.
MCConfig ==
  [ profiles   |-> [name \in MCNames |-> Ask("power_level" :> name)],
    on_battery |-> Ask("power_level" :> "power-saver"),
    thermal    |-> [enabled |-> FALSE, high_c |-> 90, low_c |-> 80, cooldown_s |-> 30] ]

MCMachine == [levels |-> PowerLevel, caps |-> {"fan_mode", "charge_end_threshold"}]
PpdAndThermal == {"power_profiles", "thermal_loop"}
MCClients == {"client"}
MCRequests == {Ask("charge_end_threshold" :> 60), Ask("fan_mode" :> "silent")}
MCPpdProfiles == {Unset, "performance", "power-saver"}
MCReadings == {Unset}
MCGaps == {0}
LevelFails == {"power_level"}
MCBoot == {Ask("power_level" :> "balanced" @@ "fan_mode" :> "auto" @@ "charge_end_threshold" :> 100)}
MCAbsent == {"power_profiles"}
MCUnitFiles ==
  { <<"tlp.service", "enabled">>, <<"battery-charge-threshold.service", "static">>,
    <<"battery-life.service", "enabled">> }
=============================================================================
