------------------------------ MODULE Firmware ------------------------------
(***************************************************************************)
(* The names firmware gives to power levels and fan modes, as the two       *)
(* backends write and read them (crates/core/src/backends), and the         *)
(* dictionary a snapshot travels in between daemon and client               *)
(* (crates/core/src/wire.rs).                                              *)
(***************************************************************************)
EXTENDS HwProfile

\* What the kernel documents for platform_profile, and MSI's shift modes.
PlatformNames ==
  {"performance", "balanced-performance", "balanced", "low-power", "quiet", "cool", "custom"}
ShiftModes == {"turbo", "comfort", "eco"}

\* None is no word of any firmware.
ASSUME UnsetIsNoWord == Unset \notin PlatformNames \cup ShiftModes \cup {"auto", "silent", "advanced"}

\* Mutated form of Candidates: the name every firmware has comes first.
CandidatesSafeFirst(level) ==
  CASE level = "performance" -> <<"balanced", "performance", "balanced-performance", "turbo">>
    [] level = "balanced"    -> <<"balanced", "balanced-performance", "comfort">>
    [] level = "power-saver" -> <<"balanced", "low-power", "quiet", "cool", "eco">>

\* Best first.  MSI has one name for each level, and platform_profile none of those.
Candidates(level) ==
  CASE level = "performance" -> <<"performance", "balanced-performance", "balanced", "turbo">>
    [] level = "balanced"    -> <<"balanced", "balanced-performance", "comfort">>
    [] level = "power-saver" -> <<"low-power", "quiet", "cool", "balanced", "eco">>

Parse(name) ==
  CASE name \in {"performance", "turbo"}                         -> "performance"
    [] name \in {"balanced", "balanced-performance", "comfort"}  -> "balanced"
    [] name \in {"low-power", "quiet", "cool", "eco"}            -> "power-saver"
    [] OTHER                                                     -> Unset

\* The first candidate the firmware offers; Unset when it offers none.
ValueFor(choices, level) ==
  LET offered == {i \in DOMAIN Candidates(level) : Candidates(level)[i] \in choices}
      first   == CHOOSE i \in offered : \A j \in offered : i <= j
  IN  IF offered = {} THEN Unset ELSE Candidates(level)[first]

\* A firmware none of whose names means anything is left to another backend.
Drivable(choices) == \E name \in choices : Parse(name) # Unset

\* MSI's words for the fan modes.  Others exist ("basic"), and read as nothing.
FanModeValue(mode) == IF mode = "aggressive" THEN "advanced" ELSE mode

ParseFanMode(name) ==
  CASE name \in {"auto", "silent"} -> name
    [] name = "advanced"           -> "aggressive"
    [] OTHER                       -> Unset

\* What a snapshot has beside the attributes: Sensors and Battery.
Sensors == {"cpu_temp_c", "gpu_temp_c", "cpu_fan_percent", "gpu_fan_percent", "fan_rpm",
            "capacity_percent", "on_ac"}

-----------------------------------------------------------------------------
(* The wire.  Levels and fan modes are called here what as_str calls them.  *)

\* FromStr: a vendor's word, or a name this client does not know, is nothing.
LevelNamed(name) == IF name \in PowerLevel THEN name ELSE Unset

FanModeNamed(name) == IF name \in FanMode THEN name ELSE Unset

\* Mutated form of Key: both thresholds travel under one name.
KeyShared(a) == IF a = "charge_start_threshold" THEN "charge_end_threshold" ELSE a

\* The dictionary key of an attribute or a reading.
Key(a) == a

\* Whatever is not reported has no key.  The list of fans is sent even if empty.
StateToDict(state) ==
  LET reported == {a \in DOMAIN state : state[a] # Unset}
  IN  [key \in {Key(a) : a \in reported} |->
         state[CHOOSE a \in reported : Key(a) = key]]

StateFromDict(dict) ==
  LET get == [a \in Attrs \cup Sensors |-> IF Key(a) \in DOMAIN dict THEN dict[Key(a)] ELSE Unset]
  IN  [ get EXCEPT
          !.power_level = LevelNamed(@),
          !.fan_mode    = FanModeNamed(@),
          !.fan_rpm     = IF @ = Unset THEN << >> ELSE @ ]

CapsToDict(caps) == [key \in {Key(a) : a \in Attrs} |-> \E a \in caps : Key(a) = key]

CapsFromDict(dict) == {a \in Attrs : Key(a) \in DOMAIN dict /\ dict[Key(a)]}
=============================================================================
