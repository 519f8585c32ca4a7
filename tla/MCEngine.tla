------------------------------ MODULE MCEngine ------------------------------
(* The engine on small machines: the profiles keep only the attributes that *)
(* the properties tell apart, and one reading lies in each thermal band.    *)
EXTENDS Engine, TLC

Ask(profile) == profile @@ NoChange

Fans(mode)   == "fan_mode" :> mode
Level(level) == "power_level" :> level
End(value)   == "charge_end_threshold" :> value
Start(value) == "charge_start_threshold" :> value

MCNames == {"performance", "power-saver"}

\* Two degrees between the marks, and a cooldown of two ticks.
MCThermal == [enabled |-> TRUE, high_c |-> 6, low_c |-> 4, cooldown_s |-> 2]
MCReadings == {4, 5, 6}
MCGaps == {1}

\* A quiet profile, a loud one, and an overlay that only takes the speed off.
MCConfig ==
  [ profiles   |-> "performance" :> Ask(Level("performance") @@ Fans("aggressive"))
                     @@ "power-saver" :> Ask(Level("power-saver") @@ Fans("silent")),
    on_battery |-> Ask(Level("power-saver")),
    thermal    |-> MCThermal ]

MCPpdProfiles == {Unset, "performance", "power-saver"}

AllTasks == {"power_profiles", "power_source", "thermal_loop"}
PpdAndThermal == {"power_profiles", "thermal_loop"}
NoClients == {}
OneClient == {"client"}
NoFaults == {}
SaverFails == {"battery_saver"}

\* An MSI machine without a cooler boost, which a client asks for all the same.
MCRequests == {Ask(Fans("silent")), Ask("cooler_boost" :> TRUE)}
\* And one whose switch for the saver fails, which no profile asks for.
SaverRequests == MCRequests \cup {Ask("battery_saver" :> TRUE)}
MCMsi == [levels |-> PowerLevel, caps |-> Attrs \ {"power_level", "cooler_boost"}]
MCBoot == {Ask(Level("balanced") @@ Fans("auto"))}

-----------------------------------------------------------------------------
(* A firmware with a platform profile and nothing else, and no file: the    *)
(* profiles the daemon has built in ask for a fan mode.                    *)

MCPlatformProfile == [levels |-> PowerLevel, caps |-> {}]
PlatformBoot == {Ask(Level("balanced"))}
DefaultPpdProfiles == {Unset} \cup PowerLevel
DefaultReadings == {80, 85, 90}
DefaultGaps == {5}
PlatformRequests == {Ask(Level("performance"))}
ThermalOnly == {"thermal_loop"}

-----------------------------------------------------------------------------
(* An overlay with one key more, on a machine that has both thresholds.     *)

PowerSourceOnly == {"power_source"}
OverlayConfig ==
  [ profiles   |-> [name \in {} |-> NoChange],
    on_battery |-> Ask(Start(60) @@ End(80)),
    thermal    |-> MCThermal ]
OverlayBoot == {Ask(Start(70) @@ End(100))}

-----------------------------------------------------------------------------
(* Charge thresholds: a profile for each pair and each half of a pair, in  *)
(* and out of range and order, applied by one task from every valid state. *)

PpdOnly == {"power_profiles"}
Limits == {20, 50, 51, 80, 100}
AnyLimit == Limits \cup {19, 101, Unset}
PairNames == AnyLimit \X AnyLimit
PairConfig ==
  [ profiles   |-> [pair \in PairNames |-> Ask(Start(pair[1]) @@ End(pair[2]))],
    on_battery |-> NoChange,
    thermal    |-> MCThermal ]
PairBoot == {h \in {Ask(Start(s) @@ End(e)) : s, e \in Limits} : Ordered(h)}
=============================================================================
