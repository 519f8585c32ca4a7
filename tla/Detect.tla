------------------------------- MODULE Detect -------------------------------
(***************************************************************************)
(* From a sysfs tree to a backend, and from there to a snapshot: detect.rs, *)
(* the probes and read_state of the two backends, and the helpers of        *)
(* sysfs.rs and battery.rs they share (crates/core/src).                    *)
(*                                                                         *)
(* A tree is a record.  Directories are sequences, in the order of the      *)
(* names of their entries, which is the order the code sorts them in:       *)
(*   msi_ec    the files of the MSI driver's directory                      *)
(*   realtime  the numbers in four of them; Unset where there is none       *)
(*   handlers  for each class/platform-profile device, the names it         *)
(*             accepts, Unset for one that has no profile file              *)
(*   acpi      the names the ACPI file accepts, Unset without that file     *)
(*   supplies  class/power_supply: type, the files it has, its number       *)
(*   chips     class/hwmon: name, temp1 in millidegrees, and fan1, fan2 ... *)
(***************************************************************************)
EXTENDS Firmware, SequencesExt

NoBackend == [name |-> "none", choices |-> {}, caps |-> {}]

First(places) == CHOOSE i \in places : \A j \in places : i <= j

\* By name, so that BAT0 always wins over BAT1.
Supplies(tree, type) == {i \in DOMAIN tree.supplies : tree.supplies[i].type = type}

\* Two files: a driver that offers only one of them is common.
ChargeCaps(tree) ==
  LET found == Supplies(tree, "Battery")
  IN  IF found = {} THEN {} ELSE Attrs \cap tree.supplies[First(found)].files

EcFile == [fan_mode |-> "fan_mode", cooler_boost |-> "cooler_boost", battery_saver |-> "super_battery"]

ProbeMsi(tree) ==
  IF "shift_mode" \notin tree.msi_ec THEN NoBackend
  ELSE [ name    |-> "msi-ec",
         choices |-> ShiftModes,
         caps    |-> {"power_level"} \cup {a \in DOMAIN EcFile : EcFile[a] \in tree.msi_ec}
                       \cup ChargeCaps(tree) ]

\* The class is preferred, but only its first device counts.
Locate(tree) ==
  IF tree.handlers # << >> /\ tree.handlers[1] # Unset THEN tree.handlers[1] ELSE tree.acpi

ProbePlatformProfile(tree) ==
  IF Locate(tree) = Unset \/ ~Drivable(Locate(tree)) THEN NoBackend
  ELSE [ name    |-> "platform-profile",
         choices |-> Locate(tree),
         caps    |-> {"power_level"} \cup ChargeCaps(tree) ]

\* Mutated form of DetectIn: the kernel's interface first.
DetectInKernelFirst(tree) ==
  IF ProbePlatformProfile(tree) # NoBackend THEN ProbePlatformProfile(tree) ELSE ProbeMsi(tree)

\* An MSI laptop can have both, and only its own driver reaches the fans.
DetectIn(tree) ==
  IF ProbeMsi(tree) # NoBackend THEN ProbeMsi(tree) ELSE ProbePlatformProfile(tree)

-----------------------------------------------------------------------------
(* Readings.  A file that is missing or does not parse is an absence.       *)

\* str::parse::<u8>.
Byte(number) == IF number # Unset /\ number \in U8 THEN number ELSE Unset

\* Mutated form of Degrees: Euclid's division, which rounds down.
DegreesDown(milli) == milli \div 1000

\* Rust divides towards zero.
Degrees(milli) == IF milli < 0 THEN -((-milli) \div 1000) ELSE milli \div 1000

CpuHwmon == <<"coretemp", "k10temp", "zenpower">>
GpuHwmon == <<"amdgpu", "nouveau", "i915", "xe">>

Chips(tree, name) == {chip \in Range(tree.chips) : chip.name = name}

\* The first in the order the kernel lists them in, which nothing sorts: one of
\* that name, and the same at every reading.
HwmonByName(tree, name) == CHOOSE chip \in Chips(tree, name) : TRUE

\* In the caller's order of preference; a chip that is there and cannot be
\* read is not passed over for the next.
TempFrom(tree, wanted) ==
  LET found == {k \in DOMAIN wanted : Chips(tree, wanted[k]) # {}}
      milli == IF found = {} THEN Unset ELSE HwmonByName(tree, wanted[First(found)]).temp1
  IN  IF milli = Unset THEN Unset ELSE Byte(Degrees(milli))

\* Fans are numbered from 1; reading stops at the first gap.
UpToGap(fans) ==
  SubSeq(fans, 1, First({i \in 1..(Len(fans) + 1) : i > Len(fans) \/ fans[i] = Unset}) - 1)

\* MSI's chip counts them, or else every chip does.
FanRpm(tree, backend) ==
  IF backend.name # "msi-ec" THEN FlattenSeq([i \in DOMAIN tree.chips |-> UpToGap(tree.chips[i].fans)])
  ELSE IF Chips(tree, "msi_wmi_platform") = {} THEN << >>
  ELSE UpToGap(HwmonByName(tree, "msi_wmi_platform").fans)

ReadBattery(tree, reading) ==
  LET found == Supplies(tree, IF reading = "on_ac" THEN "Mains" ELSE "Battery")
      value == IF found = {} THEN Unset ELSE Byte(tree.supplies[First(found)].number)
  IN  IF reading = "on_ac" /\ value # Unset THEN value = 1 ELSE value

Realtime(tree) ==
  DOMAIN tree.realtime \cap {"cpu_temp_c", "gpu_temp_c", "cpu_fan_percent", "gpu_fan_percent"}

ReadSensor(tree, backend, reading) ==
  CASE reading = "fan_rpm"                        -> FanRpm(tree, backend)
    [] reading \in {"capacity_percent", "on_ac"}  -> ReadBattery(tree, reading)
    [] backend.name = "msi-ec" /\ reading \in Realtime(tree)  -> Byte(tree.realtime[reading])
    [] backend.name # "msi-ec" /\ reading = "cpu_temp_c" -> TempFrom(tree, CpuHwmon)
    [] backend.name # "msi-ec" /\ reading = "gpu_temp_c" -> TempFrom(tree, GpuHwmon)
    [] OTHER                                      -> Unset

\* What a snapshot makes of the attributes and of the rest of the tree.
\* (Switches and thresholds are spelled one to one.)
ReadState(tree, backend, hw) ==
  [a \in Attrs \cup Sensors |->
     CASE a = "power_level" -> Parse(hw.power_level)
       [] a = "fan_mode"    -> ParseFanMode(hw.fan_mode)
       [] a \in Attrs \ {"power_level", "fan_mode"} -> hw[a]
       [] OTHER             -> ReadSensor(tree, backend, a)]
=============================================================================
