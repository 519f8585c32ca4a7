-------------------------------- MODULE MCTui --------------------------------
(* Every platform_profile firmware the kernel documents, with nothing else,  *)
(* an MSI machine with the kernel's interface beside its own, and machines   *)
(* with one or two charge thresholds and temperatures of every kind.        *)
EXTENDS Tui

Ask(profile) == profile @@ NoChange

MCNames == {"balanced"}
MCConfig ==
  [ profiles   |-> [name \in {} |-> NoChange],
    on_battery |-> NoChange,
    thermal    |-> [enabled |-> FALSE, high_c |-> 90, low_c |-> 75, cooldown_s |-> 60] ]

Bare ==
  [ msi_ec |-> {}, realtime |-> << >>, handlers |-> << >>, acpi |-> Unset, supplies |-> << >>,
    chips |-> << >> ]

Machine(sysfs, boot) == [tree |-> sysfs, boot |-> {boot}]

Level(name) == "power_level" :> name
Pair(start, end) == "charge_start_threshold" :> start @@ "charge_end_threshold" :> end

\* Every firmware that offers some of these names, which boots in one of them;
\* "quiet" stands for "cool" too.
SomeNames == PlatformNames \ {"cool"}
FirmwareOf(choices) ==
  Machine([Bare EXCEPT !.acpi = choices],
          IF choices = {} THEN NoChange ELSE Ask(Level(CHOOSE name \in choices : TRUE)))

Battery(files) == [type |-> "Battery", files |-> files, number |-> 71]
Mains == [type |-> "Mains", files |-> {}, number |-> 1]
Both == {"charge_end_threshold", "charge_start_threshold"}

\* The MSI Katana of the fixtures, with the kernel's interface beside it; its
\* driver lacks a file and a sensor.
Katana ==
  Machine(
    [ Bare EXCEPT
        !.msi_ec = {"shift_mode", "fan_mode", "super_battery"}, !.acpi = {"balanced"},
        !.realtime = ("cpu_temp_c" :> 101 @@ "gpu_temp_c" :> Unset @@ "cpu_fan_percent" :> 70
                        @@ "gpu_fan_percent" :> 40),
        !.chips = <<[name |-> "msi_wmi_platform", temp1 |-> Unset, fans |-> <<3555, 0, Unset, 9>>]>> ],
    Ask(Level("comfort") @@ "fan_mode" :> "auto"))

\* A class device without a profile, so that the ACPI file counts; chips in no
\* order of preference; a battery with one threshold or none, and a second one.
Chip(name, temp, fans) == [name |-> name, temp1 |-> temp, fans |-> fans]
Class(temp, limits) ==
  Machine(
    [ Bare EXCEPT
        !.handlers = <<Unset, {"performance"}>>, !.acpi = {"quiet"},
        !.supplies = <<Mains, Battery(DOMAIN limits), Battery(Both)>>,
        !.chips = <<Chip("k10temp", 61000, <<2412>>), Chip("coretemp", temp, << >>),
                    Chip("xe", 45000, <<Unset, 900>>), Chip("amdgpu", Unset, << >>),
                    Chip("amdgpu", 52000, << >>)>> ],
    Ask(limits @@ Level("custom")))

\* Both thresholds, on a firmware with one level only.
Thinkpad ==
  Machine([Bare EXCEPT !.handlers = <<{"balanced"}>>, !.supplies = <<Battery(Both)>>],
          Ask(Level("balanced") @@ Pair(70, 80)))

Temps == {Unset, -1000, -999, 88000, 100999, 255999, 256000}

MCMachines ==
  {FirmwareOf(choices) : choices \in SUBSET SomeNames} \cup {Katana, Thinkpad} \cup {Class(t, << >>) : t \in Temps}
    \cup {Class(40000, "charge_end_threshold" :> 97)}
MCKeys == {"p", "f", "b", "s", "+", "-", "[", "]", "q", "r"}
MCOthers == {<<"power_level", "balanced">>, <<"power_level", "eco">>, <<"fan_mode", "basic">>}

-----------------------------------------------------------------------------
\* The limits of an MSI machine, which move together.
MsiLimits ==
  { Machine([Bare EXCEPT !.msi_ec = {"shift_mode"}, !.supplies = <<Battery(Both)>>],
            Ask(Level("comfort") @@ Pair(20, 30))) }
ChargeKeys == {"-", "["}
NoOthers == {}
=============================================================================
