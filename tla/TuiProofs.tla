------------------------------ MODULE TuiProofs ------------------------------
(***************************************************************************)
(* What a key asks for is taken, what is written reads back, and what is    *)
(* read arrives, for every machine, whatever others write and however often *)
(* the daemon comes and goes.                                               *)
(***************************************************************************)
EXTENDS Tui, WellFoundedInduction, SequenceTheorems, TLAPS

Limits == {"charge_end_threshold", "charge_start_threshold"}

-----------------------------------------------------------------------------
(* Firmware names, the wire, and detection. *)

\* Reading a level's name back: the first candidate that is offered means the
\* level, if any name that is offered does.
LEMMA NamesReadBack ==
  ASSUME NEW choices, choices \subseteq PlatformNames \/ choices = ShiftModes,
         NEW level \in PowerLevel, NEW name \in choices, Parse(name) = level
  PROVE  Parse(ValueFor(choices, level)) = level
<1> DEFINE all == Candidates(level)
           offered == {i \in DOMAIN all : all[i] \in choices}
           first == CHOOSE i \in offered : \A j \in offered : i <= j
<1>1. CASE level = "performance"
  <2>1. all = <<"performance", "balanced-performance", "balanced", "turbo">>
    BY <1>1 DEF Candidates
  <2>2. name \in {"performance", "turbo"}
    BY <1>1, UnsetIsNoValue DEF Parse, PowerLevel
  <2>3. CASE choices = ShiftModes
    <3>1. offered = {4}
      BY <2>1, <2>3 DEF ShiftModes
    <3>2. first = 4
      BY <3>1
    <3> QED
      BY <1>1, <2>1, <3>1, <3>2 DEF ValueFor, Parse
  <2>4. CASE choices \subseteq PlatformNames
    <3>1. name = "performance"
      BY <2>2, <2>4 DEF PlatformNames
    <3>2. 1 \in offered /\ offered \subseteq 1..4
      BY <2>1, <3>1
    <3>3. first = 1
      <4>1. \A j \in offered : 1 <= j
        BY <3>2
      <4>2. \A i \in offered : i <= 1 => i = 1
        BY <3>2
      <4> HIDE DEF offered
      <4> QED
        BY <3>2, <4>1, <4>2
    <3> QED
      BY <1>1, <2>1, <3>2, <3>3 DEF ValueFor, Parse
  <2> QED
    BY <2>3, <2>4
<1>2. CASE level = "balanced"
  <2>1. all = <<"balanced", "balanced-performance", "comfort">>
    BY <1>2 DEF Candidates
  <2>2. name \in {"balanced", "balanced-performance", "comfort"}
    BY <1>2, UnsetIsNoValue DEF Parse, PowerLevel
  <2>3. \A i \in 1..3 : Parse(all[i]) = "balanced"
    BY <2>1 DEF Parse
  <2>4. offered # {} /\ offered \subseteq 1..3
    BY <2>1, <2>2
  <2>5. first \in offered
    <3>1. 1 \in offered \/ (1 \notin offered /\ 2 \in offered) \/ offered = {3}
      BY <2>4
    <3>2. \E i \in offered : \A j \in offered : i <= j
      <4> HIDE DEF offered
      <4> QED
        BY <2>4, <3>1
    <3> QED
      BY <3>2
  <2> QED
    BY <1>2, <2>3, <2>4, <2>5 DEF ValueFor
<1>3. CASE level = "power-saver"
  <2>1. all = <<"low-power", "quiet", "cool", "balanced", "eco">>
    BY <1>3 DEF Candidates
  <2>2. name \in {"low-power", "quiet", "cool", "eco"}
    BY <1>3, UnsetIsNoValue DEF Parse, PowerLevel
  <2>3. CASE choices = ShiftModes
    <3>1. offered = {5}
      BY <2>1, <2>3 DEF ShiftModes
    <3>2. first = 5
      BY <3>1
    <3> QED
      BY <1>3, <2>1, <3>1, <3>2 DEF ValueFor, Parse
  <2>4. CASE choices \subseteq PlatformNames
    <3>1. name \in {"low-power", "quiet", "cool"}
      BY <2>2, <2>4 DEF PlatformNames
    <3>2. offered \subseteq 1..5 /\ (1 \in offered \/ 2 \in offered \/ 3 \in offered)
      BY <2>1, <3>1
    <3>3. first \in {1, 2, 3}
      <4>1. \E i \in offered : i \in {1, 2, 3} /\ \A j \in offered : i <= j
        <5> HIDE DEF offered
        <5> QED
          BY <3>2
      <4>2. first \in offered /\ \A j \in offered : first <= j
        <5> HIDE DEF offered
        <5> QED
          BY <4>1
      <4> HIDE DEF offered, first
      <4> QED
        BY <3>2, <4>1, <4>2
    <3>4. \A i \in {1, 2, 3} : Parse(all[i]) = "power-saver"
      BY <2>1 DEF Parse
    <3> QED
      BY <1>3, <3>2, <3>3, <3>4 DEF ValueFor
  <2> QED
    BY <2>3, <2>4
<1> QED
  BY <1>1, <1>2, <1>3 DEF PowerLevel

\* A snapshot survives the dictionary.
LEMMA WireRoundTrip ==
  ASSUME NEW snapshot, DOMAIN snapshot = Attrs \cup Sensors,
         snapshot = [a \in Attrs \cup Sensors |-> snapshot[a]],
         snapshot["power_level"] \in PowerLevel \cup {Unset},
         snapshot["fan_mode"] \in FanMode \cup {Unset},
         snapshot["fan_rpm"] # Unset
  PROVE  StateFromDict(StateToDict(snapshot)) = snapshot
<1> DEFINE dict == StateToDict(snapshot)
           get == [a \in Attrs \cup Sensors |-> IF a \in DOMAIN dict THEN dict[a] ELSE Unset]
<1>1. /\ DOMAIN dict = {a \in Attrs \cup Sensors : snapshot[a] # Unset}
      /\ \A a \in DOMAIN dict : dict[a] = snapshot[a]
  BY DEF StateToDict, Key
<1>2. get = snapshot
  <2> HIDE DEF dict
  <2> QED
    BY <1>1
<1>3. LevelNamed(snapshot["power_level"]) = snapshot["power_level"]
  BY DEF LevelNamed
<1>4. FanModeNamed(snapshot["fan_mode"]) = snapshot["fan_mode"]
  BY DEF FanModeNamed
<1>5. StateFromDict(dict) =
        [ get EXCEPT !.power_level = LevelNamed(@), !.fan_mode = FanModeNamed(@),
                     !.fan_rpm = IF @ = Unset THEN << >> ELSE @ ]
  BY DEF StateFromDict, Key
<1>6. StateFromDict(dict) =
        [ snapshot EXCEPT
            !.power_level = LevelNamed(snapshot["power_level"]),
            !.fan_mode    = FanModeNamed(snapshot["fan_mode"]),
            !.fan_rpm     = IF snapshot["fan_rpm"] = Unset THEN << >> ELSE snapshot["fan_rpm"] ]
  <2> HIDE DEF dict, get
  <2> QED
    BY <1>2, <1>5
<1>7. StateFromDict(dict) =
        [ snapshot EXCEPT
            !.power_level = snapshot["power_level"],
            !.fan_mode    = snapshot["fan_mode"],
            !.fan_rpm     = snapshot["fan_rpm"] ]
  <2> HIDE DEF dict, get
  <2> QED
    BY <1>3, <1>4, <1>6, Zenon
<1>8. StateFromDict(dict) = snapshot
  <2> HIDE DEF dict, get
  <2> QED
    BY <1>7
<1> QED
  BY <1>8

LEMMA CapsRoundTrip ==
  ASSUME NEW some \in SUBSET Attrs
  PROVE  CapsFromDict(CapsToDict(some)) = some
BY DEF CapsFromDict, CapsToDict, Key

LEMMA DetectedCaps ==
  ASSUME NEW sysfs
  PROVE  DetectIn(sysfs).caps \in SUBSET Attrs
<1>1. ChargeCaps(sysfs) \subseteq Attrs
  BY DEF ChargeCaps
<1>2. DOMAIN EcFile \subseteq Attrs /\ "power_level" \in Attrs
  BY DEF EcFile, Attrs
<1>3. ProbeMsi(sysfs).caps \subseteq Attrs
  BY <1>1, <1>2 DEF ProbeMsi, NoBackend
<1>4. ProbePlatformProfile(sysfs).caps \subseteq Attrs
  BY <1>1, <1>2 DEF ProbePlatformProfile, NoBackend
<1> QED
  BY <1>3, <1>4 DEF DetectIn
-----------------------------------------------------------------------------
(* Snapshots. *)

LEMMA ParseType ==
  ASSUME NEW name
  PROVE  Parse(name) \in PowerLevel \cup {Unset} /\ ParseFanMode(name) \in FanMode \cup {Unset}
BY DEF Parse, ParseFanMode, PowerLevel, FanMode

LEMMA Readings ==
  ASSUME NEW sysfs, NEW backend, NEW h
  PROVE  LET snapshot == ReadState(sysfs, backend, h)
         IN  /\ DOMAIN snapshot = Attrs \cup Sensors
             /\ snapshot = [a \in Attrs \cup Sensors |-> snapshot[a]]
             /\ snapshot["power_level"] = Parse(h["power_level"])
             /\ snapshot["fan_mode"] = ParseFanMode(h["fan_mode"])
             /\ snapshot["fan_rpm"] = FanRpm(sysfs, backend)
             /\ \A a \in Attrs \ {"power_level", "fan_mode"} : snapshot[a] = h[a]
<1> DEFINE snapshot == ReadState(sysfs, backend, h)
<1>1. DOMAIN snapshot = Attrs \cup Sensors /\ snapshot = [a \in Attrs \cup Sensors |-> snapshot[a]]
  BY DEF ReadState
<1>2. snapshot["power_level"] = Parse(h["power_level"])
  BY DEF ReadState, Attrs
<1>3. snapshot["fan_mode"] = ParseFanMode(h["fan_mode"])
  BY DEF ReadState, Attrs
<1>4. ReadSensor(sysfs, backend, "fan_rpm") = FanRpm(sysfs, backend)
  BY DEF ReadSensor, Realtime
<1>5. snapshot["fan_rpm"] = FanRpm(sysfs, backend)
  BY <1>4 DEF ReadState, Attrs, Sensors
<1>6. ASSUME NEW a \in Attrs \ {"power_level", "fan_mode"} PROVE snapshot[a] = h[a]
  BY DEF ReadState, Attrs
<1> QED
  BY <1>1, <1>2, <1>3, <1>5, <1>6

-----------------------------------------------------------------------------
(* What a key means. *)

LEMMA ClampBounds ==
  ASSUME NEW value \in Int, NEW low \in Int, NEW high \in Int, low <= high
  PROVE  Clamp(value, low, high) \in low..high
BY DEF Clamp

\* The cycle of a key stays among its three values.
LEMMA CycleStays ==
  ASSUME NEW a, NEW b, NEW c, NEW current
  PROVE  After(<<a, b, c>>, current) \in {a, b, c}
<1> DEFINE all == <<a, b, c>>
           i == CHOOSE i \in DOMAIN all : all[i] = current
<1>1. Range(all) = {a, b, c} /\ DOMAIN all = 1..3 /\ Len(all) = 3
  BY DEF Range
<1>2. CASE current \in Range(all)
  <2>1. i \in 1..3
    BY <1>1, <1>2 DEF Range
  <2>2. (i % 3) + 1 \in 1..3
    <3> HIDE DEF i
    <3> QED
      BY <2>1
  <2>3. all[(i % 3) + 1] \in {a, b, c}
    <3> HIDE DEF i
    <3> QED
      BY <2>2
  <2> QED
    BY <1>1, <1>2, <2>3 DEF After
<1>3. CASE current \notin Range(all)
  BY <1>3 DEF After
<1> QED
  BY <1>2, <1>3

\* What a key may ask of an attribute.
Allowed(a) ==
  CASE a = "power_level"                       -> PowerLevel
    [] a = "fan_mode"                          -> FanMode
    [] a \in {"cooler_boost", "battery_saver"} -> BOOLEAN
    [] OTHER                                   -> 20..100

LEMMA AllowedHolds ==
  ASSUME NEW a \in Attrs, NEW value \in Allowed(a)
  PROVE  value # Unset /\ Holds(a, value)
BY UnsetIsNoValue DEF Allowed, Holds, Attrs

LEMMA NothingIsTyped == NoChange \in HwProfile
BY DEF NoChange, HwProfile, Attrs, Option

LEMMA SetIsTyped ==
  ASSUME NEW a \in Attrs, NEW value \in Allowed(a)
  PROVE  Set(a, value).asks \in HwProfile
<1>1. Set(a, value).asks = [NoChange EXCEPT ![a] = value]
  BY DEF Set
<1>2. CASE a = "power_level"
  BY <1>1, <1>2, NothingIsTyped DEF Allowed, HwProfile, Option
<1>3. CASE a = "fan_mode"
  BY <1>1, <1>3, NothingIsTyped DEF Allowed, HwProfile, Option
<1>4. CASE a = "cooler_boost" \/ a = "battery_saver"
  BY <1>1, <1>4, NothingIsTyped DEF Allowed, HwProfile, Option
<1>5. CASE a \in Limits
  BY <1>1, <1>5, NothingIsTyped DEF Allowed, HwProfile, Option, U8, Limits
<1> QED
  BY <1>2, <1>3, <1>4, <1>5 DEF Attrs, Limits

LEMMA SetAsks ==
  ASSUME NEW a \in Attrs, NEW value
  PROVE  /\ Set(a, value).kind = "Set"
         /\ Set(a, value).asks[a] = value
         /\ \A b \in Attrs \ {a} : Set(a, value).asks[b] = Unset
BY DEF Set, NoChange, Attrs

\* A threshold on screen is a percentage.
Shown(a) == state[a] = Unset \/ state[a] \in 0..100

\* A key asks for one attribute that the client was told of, and for a value
\* that the attribute can have.
Asks(a, asks) ==
  /\ a \in caps
  /\ asks[a] \in Allowed(a) /\ asks \in HwProfile
  /\ \A b \in Attrs \ {a} : asks[b] = Unset
  /\ a = "charge_start_threshold" /\ state.charge_end_threshold # Unset
       => asks[a] < state.charge_end_threshold

LEMMA KeyAsks ==
  ASSUME NEW key, NEW act, act = ForKey(key), act.kind = "Set",
         \A a \in Limits : Shown(a)
  PROVE  \E a \in Attrs : Asks(a, act.asks)
<1>1. ASSUME NEW a \in Attrs \ Limits, NEW value, act = Gated(a, value),
             value \in Allowed(a)
      PROVE  Asks(a, act.asks)
  <2>1. a \in caps /\ act = Set(a, value)
    BY <1>1 DEF Gated, Unsupported, Nothing
  <2> QED
    BY <1>1, <2>1, SetAsks, SetIsTyped DEF Asks, Limits
<1>2. ASSUME NEW delta \in Int, act = Charge(delta) PROVE Asks("charge_end_threshold", act.asks)
  <2> DEFINE current == state.charge_end_threshold
  <2>1. /\ "charge_end_threshold" \in caps /\ current # Unset
        /\ act = Set("charge_end_threshold", Clamp(current + delta, 20, 100))
    BY <1>2 DEF Charge, Unsupported, Nothing
  <2>2. current \in Int
    BY <2>1 DEF Shown, Limits
  <2>3. Clamp(current + delta, 20, 100) \in 20..100
    <3>1. current + delta \in Int
      BY <1>2, <2>2
    <3> HIDE DEF current
    <3> QED
      BY <3>1, ClampBounds DEF Clamp
  <2> HIDE DEF current
  <2> QED
    BY <2>1, <2>3, SetAsks, SetIsTyped DEF Asks, Allowed, Attrs, Limits
<1>3. ASSUME NEW delta \in Int, act = ChargeStart(delta) PROVE Asks("charge_start_threshold", act.asks)
  <2> DEFINE current == state.charge_start_threshold
             end == state.charge_end_threshold
             ceiling == Ceiling(end)
  <2>1. /\ "charge_start_threshold" \in caps /\ current # Unset /\ ~(ceiling < 20)
        /\ act = Set("charge_start_threshold", Clamp(current + delta, 20, ceiling))
    BY <1>3 DEF ChargeStart, Unsupported, Nothing, Panic
  <2>2. current \in Int /\ ceiling \in Int /\ ceiling <= 100 /\ (end # Unset => end \in Int /\ ceiling = end - 1)
    BY <2>1 DEF Shown, Limits, Ceiling
  <2>3. Clamp(current + delta, 20, ceiling) \in 20..ceiling
    <3> HIDE DEF current, ceiling
    <3> QED
      BY <1>3, <2>1, <2>2, ClampBounds
  <2>4. act.asks["charge_start_threshold"] = Clamp(current + delta, 20, ceiling)
    BY <2>1, SetAsks DEF Attrs
  <2>5. \A b \in Attrs \ {"charge_start_threshold"} : act.asks[b] = Unset
    BY <2>1, SetAsks DEF Attrs
  <2>6. /\ act.asks["charge_start_threshold"] \in 20..100
        /\ end # Unset => act.asks["charge_start_threshold"] < end
    <3> HIDE DEF current, ceiling, end
    <3> QED
      BY <2>2, <2>3, <2>4
  <2>7. act.asks \in HwProfile
    <3>1. Clamp(current + delta, 20, ceiling) \in Allowed("charge_start_threshold")
      <4>1. Allowed("charge_start_threshold") = 20..100
        BY DEF Allowed
      <4> HIDE DEF current, ceiling
      <4>2. \A value \in 20..ceiling : value \in 20..100
        BY <2>2
      <4> QED
        BY <2>3, <4>1, <4>2
    <3> QED
      BY <2>1, <3>1, SetIsTyped DEF Attrs
  <2> QED
    BY <2>1, <2>5, <2>6, <2>7 DEF Asks, Allowed
<1>5. CASE key = "p"
  <2> DEFINE levels == <<"performance", "balanced", "power-saver">>
  <2>1. After(levels, state.power_level) \in PowerLevel
    BY CycleStays DEF PowerLevel
  <2>2. act = Gated("power_level", After(levels, state.power_level))
    BY <1>5 DEF ForKey
  <2> QED
    BY <1>1, <2>1, <2>2 DEF Attrs, Limits, Allowed
<1>6. CASE key = "f"
  <2> DEFINE modes == <<"auto", "silent", "aggressive">>
  <2>1. After(modes, state.fan_mode) \in FanMode
    BY CycleStays DEF FanMode
  <2>2. act = Gated("fan_mode", After(modes, state.fan_mode))
    BY <1>6 DEF ForKey
  <2> QED
    BY <1>1, <2>1, <2>2 DEF Attrs, Limits, Allowed
<1>7. CASE key = "b"
  <2>1. act = Gated("cooler_boost", Flipped(state.cooler_boost)) /\ Flipped(state.cooler_boost) \in BOOLEAN
    BY <1>7 DEF ForKey, Flipped
  <2> QED
    BY <1>1, <2>1 DEF Attrs, Limits, Allowed
<1>8. CASE key = "s"
  <2>1. act = Gated("battery_saver", Flipped(state.battery_saver)) /\ Flipped(state.battery_saver) \in BOOLEAN
    BY <1>8 DEF ForKey, Flipped
  <2> QED
    BY <1>1, <2>1 DEF Attrs, Limits, Allowed
<1>9. CASE key = "+" \/ key = "-"
  <2>1. \E delta \in Int : act = Charge(delta)
    BY <1>9 DEF ForKey
  <2> QED
    BY <1>2, <2>1 DEF Attrs
<1>10. CASE key = "[" \/ key = "]"
  <2>1. \E delta \in Int : act = ChargeStart(delta)
    BY <1>10 DEF ForKey
  <2> QED
    BY <1>3, <2>1 DEF Attrs
<1>11. key \in {"p", "f", "b", "s", "+", "-", "[", "]"}
  BY DEF ForKey, Nothing
<1> QED
  BY <1>5, <1>6, <1>7, <1>8, <1>9, <1>10, <1>11

-----------------------------------------------------------------------------
(* The invariant.  What a key asked for stands until it is performed, and    *)
(* neither the capabilities nor the screen change in between.               *)

Detected == machine = DetectIn(tree) /\ \E m \in Machines : tree = m.tree

TuiInv ==
  /\ Detected
  /\ Hardware(hw)
  /\ pc \notin {"connect", "quit"} => caps = machine.caps
  /\ \A a \in Limits : Shown(a)
  /\ pc = "perform" => \E a \in Attrs : Asks(a, action.asks)

\* A snapshot arrives as it was read.
LEMMA Arrives ==
  ASSUME Detected
  PROVE  StateFromDict(StateToDict(Reported)) = Reported
<1>1. FanRpm(tree, machine) # Unset
  BY MachinesAreTyped DEF Detected
<1>2. /\ Reported["power_level"] \in PowerLevel \cup {Unset}
      /\ Reported["fan_mode"] \in FanMode \cup {Unset}
      /\ Reported["fan_rpm"] # Unset
      /\ DOMAIN Reported = Attrs \cup Sensors
      /\ Reported = [a \in Attrs \cup Sensors |-> Reported[a]]
  <2>1. /\ Reported["power_level"] = Parse(hw["power_level"])
        /\ Reported["fan_mode"] = ParseFanMode(hw["fan_mode"])
        /\ Reported["fan_rpm"] = FanRpm(tree, machine)
        /\ DOMAIN Reported = Attrs \cup Sensors
        /\ Reported = [a \in Attrs \cup Sensors |-> Reported[a]]
    BY Readings DEF Reported
  <2> QED
    BY <1>1, <2>1, ParseType
<1> HIDE DEF Reported
<1> QED
  BY <1>2, WireRoundTrip

\* The thresholds of a snapshot are those of the hardware.
LEMMA LimitsAreRead ==
  ASSUME NEW a \in Limits
  PROVE  Reported[a] = hw[a]
BY Readings DEF Reported, Limits, Attrs

\* The thresholds of what the hardware comes to are still percentages.
LEMMA TakesKeepsHardware ==
  ASSUME Hardware(hw), NEW a \in Attrs, NEW value, Holds(a, value), Takes(a, value)
  PROVE  Hardware(hw)'
<1> DEFINE written == B!KernelWrite(hw, a, value)
<1>1. /\ DOMAIN written = Attrs
      /\ written[a] = value
      /\ \A b \in Attrs \ {a} : written[b] = hw[b]
  BY DEF B!KernelWrite, Hardware
<1>2. Hardware(written)
  <2> HIDE DEF written
  <2> QED
    BY <1>1 DEF Hardware
<1>3. ASSUME machine.name = "msi-ec" PROVE Hardware(Follow(written, a))
  <2>1. CASE a = "charge_end_threshold"
    <3> DEFINE other == Clamp(written.charge_end_threshold - 10, 0, 100)
    <3>1. written.charge_end_threshold \in 0..100
      BY <1>1, <2>1 DEF Holds
    <3>2. other \in 0..100
      <4> HIDE DEF written
      <4> QED
        BY <3>1 DEF Clamp
    <3>3. \/ Follow(written, a) = written
          \/ Follow(written, a) = [written EXCEPT !["charge_start_threshold"] = other]
      BY <2>1 DEF Follow
    <3> HIDE DEF written, other
    <3> QED
      BY <1>2, <3>2, <3>3 DEF Hardware, Holds
  <2>2. CASE a = "charge_start_threshold"
    <3> DEFINE other == Clamp(written.charge_start_threshold + 10, 0, 100)
    <3>1. written.charge_start_threshold \in 0..100
      BY <1>1, <2>2 DEF Holds
    <3>2. other \in 0..100
      <4> HIDE DEF written
      <4> QED
        BY <3>1 DEF Clamp
    <3>3. \/ Follow(written, a) = written
          \/ Follow(written, a) = [written EXCEPT !["charge_end_threshold"] = other]
      BY <2>2 DEF Follow
    <3> HIDE DEF written, other
    <3> QED
      BY <1>2, <3>2, <3>3 DEF Hardware, Holds
  <2>3. CASE a \notin Limits
    BY <1>2, <2>3 DEF Follow, Limits
  <2> QED
    BY <2>1, <2>2, <2>3 DEF Limits
<1>4. hw' = written \/ (machine.name = "msi-ec" /\ hw' = Follow(written, a))
  BY DEF Takes
<1> QED
  BY <1>2, <1>3, <1>4 DEF Hardware

\* A setter writes the one attribute that was asked for.
LEMMA SetterWritesOne ==
  ASSUME TuiInv, pc = "perform", SetterRuns
  PROVE  \E a \in Attrs : /\ Asks(a, action.asks) /\ Holds(a, Written(a)) /\ Takes(a, Written(a))
<1>1. PICK a \in Attrs : Asks(a, action.asks)
  BY DEF TuiInv
<1>2. PICK b \in Attrs : action.asks[b] # Unset /\ Takes(b, Written(b))
  BY DEF SetterRuns
<1>3. a = b
  BY <1>1, <1>2 DEF Asks
<1>4. Holds(a, Written(a))
  BY <1>1, AllowedHolds DEF Written, Asks, Holds
<1> QED
  BY <1>1, <1>2, <1>3, <1>4

LEMMA TuiInit == Init => TuiInv
<1> SUFFICES ASSUME Init PROVE TuiInv
  OBVIOUS
<1>1. Detected
  BY DEF Init, Detected
<1>2. Hardware(hw)
  BY MachinesAreTyped DEF Init
<1>3. \A a \in Limits : Shown(a)
  BY DEF Init, Shown, NoChange, Limits, Attrs
<1> QED
  BY <1>1, <1>2, <1>3 DEF Init, TuiInv

LEMMA TuiStep == TuiInv /\ [Next]_vars => TuiInv'
<1> SUFFICES ASSUME TuiInv, [Next]_vars PROVE TuiInv'
  OBVIOUS
<1> USE DEF TuiInv
<1>1. Detected'
  BY DEF Next, vars, Connect, NothingDetected, Loop, Press, PollTimesOut, Perform, PerformFails,
         PerformUnanswered, Snapshot, SnapshotFails, StatusAges, OtherWrite, DaemonStartsOrStops,
         Detected
<1>2. Hardware(hw)'
  <2>1. CASE Perform \/ PerformUnanswered
    <3>1. PICK a \in Attrs : Holds(a, Written(a)) /\ Takes(a, Written(a))
      BY <2>1, SetterWritesOne DEF Perform, PerformUnanswered
    <3> QED
      BY <3>1, TakesKeepsHardware
  <2>2. CASE \E write \in Others : OtherWrite(write[1], write[2])
    BY <2>2, OthersAreTyped, TakesKeepsHardware DEF OtherWrite
  <2>3. CASE UNCHANGED hw
    BY <2>3 DEF Hardware
  <2> QED
    BY <2>1, <2>2, <2>3 DEF Next, vars, Connect, NothingDetected, Loop, Press, PollTimesOut,
       PerformFails, Snapshot, SnapshotFails, StatusAges, DaemonStartsOrStops
<1>3. (pc \notin {"connect", "quit"} => caps = machine.caps)'
  <2>1. CASE Connect
    <3>1. machine.caps \in SUBSET Attrs
      BY DetectedCaps DEF Detected
    <3> QED
      BY <2>1, <3>1, CapsRoundTrip DEF Connect
  <2>2. CASE NothingDetected
    BY <2>2 DEF NothingDetected
  <2>3. CASE UNCHANGED <<machine, caps>> /\ (pc' = pc \/ pc \notin {"connect", "quit"})
    BY <2>3
  <2> QED
    BY <2>1, <2>2, <2>3 DEF Next, vars, Loop, Press, PollTimesOut, Perform, PerformFails,
       PerformUnanswered, Snapshot, SnapshotFails, StatusAges, OtherWrite, DaemonStartsOrStops
<1>4. (\A a \in Limits : Shown(a))'
  <2>1. CASE Snapshot
    <3>1. state' = Reported
      BY <2>1, Arrives DEF Snapshot
    <3>2. ASSUME NEW a \in Limits PROVE Shown(a)'
      BY <3>1, <3>2, LimitsAreRead DEF Shown, Hardware, Holds, Limits, Attrs
    <3> QED
      BY <3>2
  <2>2. CASE UNCHANGED state
    BY <2>2 DEF Shown
  <2> QED
    BY <2>1, <2>2 DEF Next, vars, Connect, NothingDetected, Loop, Press, PollTimesOut, Perform,
       PerformFails, PerformUnanswered, SnapshotFails, StatusAges, OtherWrite, DaemonStartsOrStops
<1>5. (pc = "perform" => \E a \in Attrs : Asks(a, action.asks))'
  <2>1. ASSUME NEW key \in Keys, Press(key), pc' = "perform"
        PROVE  (\E a \in Attrs : Asks(a, action.asks))'
    <3>1. action' = ForKey(key) /\ action'.kind = "Set" /\ UNCHANGED <<state, caps>>
      BY <2>1 DEF Press, AfterKey
    <3>2. \E a \in Attrs : Asks(a, action'.asks)
      BY <3>1, KeyAsks
    <3> QED
      BY <3>1, <3>2 DEF Asks
  <2>2. CASE UNCHANGED <<pc, action, caps, state>>
    BY <2>2 DEF Asks
  <2>3. CASE pc' # "perform"
    BY <2>3
  <2> QED
    BY <2>1, <2>2, <2>3 DEF Next, vars, Connect, NothingDetected, Loop, PollTimesOut, Perform,
       PerformFails, PerformUnanswered, Snapshot, SnapshotFails, StatusAges, OtherWrite,
       DaemonStartsOrStops
<1> QED
  BY <1>1, <1>2, <1>3, <1>4, <1>5

LEMMA TuiInvariant == Spec => []TuiInv
BY TuiInit, TuiStep, PTL DEF Spec

-----------------------------------------------------------------------------
(* What it comes to. *)

(* What a key asks for is within range, and on a screen that is not stale   *)
(* the daemon accepts it: what actions.rs offers agrees with the checks of  *)
(* iface.rs and battery.rs on every machine.                                *)
THEOREM KeysTaken == Spec => []KeysAreTaken
<1>1. TuiInv => KeysAreTaken
  <2> SUFFICES ASSUME TuiInv, pc = "perform" PROVE
        /\ B!InRange(action.asks)
        /\ state = Reported /\ action.asks.power_level = Unset
             /\ action.asks.charge_end_threshold = Unset => Accepted(action.asks)
    BY DEF KeysAreTaken
  <2>1. PICK a \in Attrs : Asks(a, action.asks)
    BY DEF TuiInv
  <2>2. caps = machine.caps
    BY DEF TuiInv
  <2>3. B!InRange(action.asks)
    BY <2>1, AllowedHolds DEF B!InRange, B!Thresholds, Asks, Allowed, Limits, Attrs
  <2>4. ASSUME state = Reported, action.asks.power_level = Unset,
               action.asks.charge_end_threshold = Unset
        PROVE  Accepted(action.asks)
    <3>1. a \notin {"power_level", "charge_end_threshold"}
      BY <2>1, <2>4, AllowedHolds DEF Asks
    <3>2. \A b \in Attrs : action.asks[b] # Unset => B!Supports(b, action.asks[b])
      BY <2>1, <2>2, <3>1 DEF Asks, B!Supports
    <3>3. CASE a = "charge_start_threshold"
      <4>1. state.charge_end_threshold = hw.charge_end_threshold
        BY <2>4, LimitsAreRead DEF Limits
      <4> DEFINE wanted == action.asks.charge_start_threshold
                 limit  == state.charge_end_threshold
      <4>2. B!OrElse(action.asks.charge_end_threshold, hw.charge_end_threshold) = limit
        BY <2>4, <4>1 DEF B!OrElse
      <4>3. B!OrElse(wanted, hw.charge_start_threshold) = wanted
        BY <2>1, <3>3, AllowedHolds DEF B!OrElse, Asks
      <4>4. limit # Unset => wanted < limit
        BY <2>1, <3>3 DEF Asks
      <4>5. B!InOrder(action.asks, hw)
        <5> SUFFICES ASSUME B!OrElse(action.asks.charge_end_threshold, hw.charge_end_threshold) # Unset
                     PROVE  B!OrElse(wanted, hw.charge_start_threshold)
                              < B!OrElse(action.asks.charge_end_threshold, hw.charge_end_threshold)
          BY DEF B!InOrder
        <5> HIDE DEF wanted, limit
        <5> QED
          BY <4>2, <4>3, <4>4
      <4> QED
        BY <2>3, <3>2, <4>5 DEF Accepted
    <3>4. CASE a # "charge_start_threshold"
      <4>1. ~B!AsksForThresholds(action.asks)
        BY <2>1, <3>1, <3>4 DEF Asks, B!AsksForThresholds, B!Thresholds, Attrs
      <4> QED
        BY <3>2, <4>1 DEF Accepted
    <3> QED
      BY <3>3, <3>4
  <2> QED
    BY <2>3, <2>4
<1> QED
  BY <1>1, TuiInvariant, PTL

(* A level set with a key is the level read back, on every firmware that    *)
(* has a name for it: value_for of the two backends writes no fallback.     *)
THEOREM LevelsBack == Spec => LevelsReadBack
<1>1. ASSUME TuiInv, [Next]_vars, NEW level \in PowerLevel, Perform,
             action.asks.power_level = level, NEW name \in machine.choices, Parse(name) = level
      PROVE  Reported'.power_level = level
  <2> DEFINE value == ValueFor(machine.choices, level)
  <2>1. machine.choices \subseteq PlatformNames \/ machine.choices = ShiftModes
    BY <1>1, MachinesAreTyped DEF TuiInv, Detected
  <2>2. Parse(value) = level
    BY <1>1, <2>1, NamesReadBack
  <2>3. PICK a \in Attrs : Asks(a, action.asks) /\ Takes(a, Written(a))
    BY <1>1, SetterWritesOne DEF Perform
  <2>4. a = "power_level"
    BY <1>1, <2>3, UnsetIsNoValue DEF Asks, Attrs
  <2>5. Written(a) = value
    BY <1>1, <2>4 DEF Written
  <2>6. hw' = [hw EXCEPT !["power_level"] = value]
    BY <2>3, <2>4, <2>5 DEF Takes, Follow, B!KernelWrite
  <2>7. hw'["power_level"] = value
    <3> HIDE DEF value
    <3> QED
      BY <1>1, <2>6 DEF TuiInv, Hardware, Attrs
  <2>8. Reported'["power_level"] = Parse(hw'["power_level"])
    BY Readings DEF Reported
  <2> QED
    BY <2>2, <2>7, <2>8
<1>2. TuiInv /\ [Next]_vars =>
        [ \A level \in PowerLevel :
            Perform /\ action.asks.power_level = level
              /\ (\E name \in machine.choices : Parse(name) = level)
            => Reported'.power_level = level ]_vars
  BY <1>1
<1> QED
  BY <1>2, TuiInvariant, PTL DEF Spec, LevelsReadBack

(* Nothing of a snapshot is lost or invented on the way to the screen:      *)
(* from_dict of wire.rs undoes to_dict.                                     *)
THEOREM SnapshotsFaithful == Spec => SnapshotsAreFaithful
<1>1. ASSUME TuiInv, [Next]_vars, pc' = "poll", state' # state
      PROVE  state' = Reported
  <2>1. Snapshot
    BY <1>1 DEF Next, vars, Connect, NothingDetected, Loop, Press, PollTimesOut, Perform,
       PerformFails, PerformUnanswered, SnapshotFails, StatusAges, OtherWrite, DaemonStartsOrStops
  <2> QED
    BY <1>1, <2>1, Arrives DEF Snapshot, TuiInv
<1>2. TuiInv /\ [Next]_vars => [pc' = "poll" /\ state' # state => state' = Reported]_vars
  BY <1>1
<1> QED
  BY <1>2, TuiInvariant, PTL DEF Spec, SnapshotsAreFaithful

-----------------------------------------------------------------------------
(* Types, and the scale of the gauges. *)

LEMMA ReadingsAreTyped ==
  ASSUME NEW sysfs, NEW backend, NEW h, Hardware(h)
  PROVE  LET snapshot == ReadState(sysfs, backend, h)
         IN  [a \in Attrs |-> snapshot[a]] \in HwProfile
<1> DEFINE snapshot == ReadState(sysfs, backend, h)
<1>1. snapshot["power_level"] \in Option(PowerLevel) /\ snapshot["fan_mode"] \in Option(FanMode)
  <2>1. snapshot["power_level"] = Parse(h["power_level"])
        /\ snapshot["fan_mode"] = ParseFanMode(h["fan_mode"])
    BY Readings
  <2> HIDE DEF snapshot
  <2> QED
    BY <2>1, ParseType DEF Option
<1>2. \A a \in {"cooler_boost", "battery_saver"} : snapshot[a] \in Option(BOOLEAN)
  <2>1. \A a \in {"cooler_boost", "battery_saver"} : snapshot[a] = h[a]
    BY Readings DEF Attrs
  <2> HIDE DEF snapshot
  <2> QED
    BY <2>1 DEF Hardware, Holds, Attrs, Option
<1>3. \A a \in Limits : snapshot[a] \in Option(U8)
  <2>1. \A a \in Limits : snapshot[a] = h[a]
    BY Readings DEF Attrs, Limits
  <2>2. \A a \in Limits : h[a] = Unset \/ h[a] \in 0..100
    BY DEF Hardware, Holds, Attrs, Limits
  <2> HIDE DEF snapshot
  <2> QED
    BY <2>1, <2>2 DEF Option, U8
<1> HIDE DEF snapshot
<1>4. [a \in Attrs |-> snapshot[a]] \in HwProfile
  BY <1>1, <1>2, <1>3 DEF HwProfile, Attrs, Limits
<1> QED
  BY <1>4 DEF snapshot

LEMMA KeyIsTyped ==
  ASSUME NEW key, \A a \in Limits : Shown(a)
  PROVE  /\ ForKey(key).asks \in HwProfile
         /\ ForKey(key).kind \in {"Ignored", "Quit", "Refresh", "Set", "Unsupported", "Panic"}
<1>1. ForKey(key).kind \in {"Ignored", "Quit", "Refresh", "Set", "Unsupported", "Panic"}
  BY DEF ForKey, Nothing, Gated, Set, Unsupported, Charge, ChargeStart, Panic
<1>2. CASE ForKey(key).kind = "Set"
  BY <1>1, <1>2, KeyAsks DEF Asks
<1>3. CASE ForKey(key).kind # "Set"
  <2>1. ForKey(key).asks = NoChange
    BY <1>3 DEF ForKey, Nothing, Gated, Set, Unsupported, Charge, ChargeStart, Panic
  <2> QED
    BY <1>1, <2>1, NothingIsTyped
<1> QED
  BY <1>2, <1>3, <1>1

\* A temperature is missing or fits a byte.
Measured(temp) == temp = Unset \/ temp \in U8

LEMMA TempsFit ==
  ASSUME NEW sysfs, NEW backend, NEW h, NEW reading \in {"cpu_temp_c", "gpu_temp_c"}
  PROVE  Measured(ReadState(sysfs, backend, h)[reading])
<1>1. ASSUME NEW number PROVE Measured(Byte(number))
  BY DEF Byte, Measured
<1>2. ASSUME NEW wanted PROVE Measured(TempFrom(sysfs, wanted))
  BY <1>1 DEF TempFrom, Measured
<1>3. ReadState(sysfs, backend, h)[reading] = ReadSensor(sysfs, backend, reading)
  BY DEF ReadState, Attrs, Sensors
<1>4. \/ ReadSensor(sysfs, backend, reading) = Unset
      \/ ReadSensor(sysfs, backend, reading) = Byte(sysfs.realtime[reading])
      \/ ReadSensor(sysfs, backend, reading) = TempFrom(sysfs, CpuHwmon)
      \/ ReadSensor(sysfs, backend, reading) = TempFrom(sysfs, GpuHwmon)
  BY DEF ReadSensor
<1>5. CASE ReadSensor(sysfs, backend, reading) = Unset
  BY <1>3, <1>5 DEF Measured
<1>6. CASE ReadSensor(sysfs, backend, reading) = Byte(sysfs.realtime[reading])
  BY <1>1, <1>3, <1>6
<1>7. CASE ReadSensor(sysfs, backend, reading) = TempFrom(sysfs, CpuHwmon)
  BY <1>2, <1>3, <1>7
<1>8. CASE ReadSensor(sysfs, backend, reading) = TempFrom(sysfs, GpuHwmon)
  BY <1>2, <1>3, <1>8
<1> QED
  BY <1>4, <1>5, <1>6, <1>7, <1>8

ScreenInv ==
  /\ TuiInv
  /\ TypeOK
  /\ state # NoChange =>
       Measured(state["cpu_temp_c"]) /\ Measured(state["gpu_temp_c"])

LEMMA ScreenInit == Init => ScreenInv
<1> SUFFICES ASSUME Init PROVE ScreenInv
  OBVIOUS
<1>1. TuiInv
  BY TuiInit
<1>2. [a \in Attrs |-> Reported[a]] \in HwProfile
  BY <1>1, ReadingsAreTyped DEF Reported, TuiInv
<1>3. [a \in Attrs |-> state[a]] \in HwProfile
  <2>1. [a \in Attrs |-> NoChange[a]] = NoChange
    BY DEF NoChange
  <2> QED
    BY <2>1, NothingIsTyped DEF Init
<1>4. TypeOK
  BY <1>1, <1>2, <1>3, NothingIsTyped DEF TypeOK, Init, TuiInv, Detected, Nothing, Footer
<1> QED
  BY <1>1, <1>4 DEF ScreenInv, Init

LEMMA ScreenStep == ScreenInv /\ [Next]_vars => ScreenInv'
<1> SUFFICES ASSUME ScreenInv, [Next]_vars PROVE ScreenInv'
  OBVIOUS
<1> USE DEF ScreenInv
<1>1. TuiInv'
  BY TuiStep
<1>2. ([a \in Attrs |-> Reported[a]] \in HwProfile)'
  BY <1>1, ReadingsAreTyped DEF Reported, TuiInv
<1>3. ( /\ [a \in Attrs |-> state[a]] \in HwProfile
        /\ state # NoChange => Measured(state["cpu_temp_c"]) /\ Measured(state["gpu_temp_c"]) )'
  <2>1. CASE Snapshot
    <3>1. state' = Reported
      BY <2>1, Arrives DEF Snapshot, TuiInv
    <3>2. Measured(Reported["cpu_temp_c"]) /\ Measured(Reported["gpu_temp_c"])
      BY TempsFit DEF Reported
    <3> QED
      BY <3>1, <3>2 DEF TypeOK
  <2>2. CASE UNCHANGED state
    BY <2>2 DEF TypeOK
  <2> QED
    BY <2>1, <2>2 DEF Next, vars, Connect, NothingDetected, Loop, Press, PollTimesOut, Perform,
       PerformFails, PerformUnanswered, SnapshotFails, StatusAges, OtherWrite, DaemonStartsOrStops
<1>4. (source # "none" => caps = machine.caps)'
  <2>1. CASE Connect
    BY <1>1, <2>1 DEF Connect, TuiInv
  <2>2. CASE UNCHANGED <<source, caps, machine>>
    BY <2>2 DEF TypeOK
  <2> QED
    BY <2>1, <2>2 DEF Next, vars, NothingDetected, Loop, Press, PollTimesOut, Perform,
       PerformFails, PerformUnanswered, Snapshot, SnapshotFails, StatusAges, OtherWrite,
       DaemonStartsOrStops
<1>5. ( /\ action.kind \in {"Ignored", "Quit", "Refresh", "Set", "Unsupported", "Panic"}
        /\ action.asks \in HwProfile )'
  <2>1. ASSUME NEW key \in Keys, Press(key)
        PROVE  /\ action'.kind \in {"Ignored", "Quit", "Refresh", "Set", "Unsupported", "Panic"}
               /\ action'.asks \in HwProfile
    BY <2>1, KeyIsTyped DEF Press, TuiInv
  <2>2. CASE action' = Nothing
    BY <2>2, NothingIsTyped DEF Nothing
  <2>3. CASE UNCHANGED action
    BY <2>3 DEF TypeOK
  <2> QED
    BY <2>1, <2>2, <2>3 DEF Next, vars, Connect, NothingDetected, Loop, PollTimesOut, Perform,
       PerformFails, PerformUnanswered, Snapshot, SnapshotFails, StatusAges, OtherWrite,
       DaemonStartsOrStops
<1>6. (footer \in [status : {"none", "ok", "failed"}, old : BOOLEAN])'
  <2> DEFINE Footers == [status : {"none", "ok", "failed"}, old : BOOLEAN]
  <2>1. footer \in Footers
    BY DEF TypeOK
  <2>2. \A status \in {"none", "ok", "failed"} : Footer(status) \in Footers
    BY DEF Footer
  <2>3. Expired(footer) \in Footers /\ [footer EXCEPT !.old = TRUE] \in Footers
    BY <2>1, <2>2 DEF Expired
  <2> HIDE DEF Footers
  <2>4. \/ \E status \in {"none", "ok", "failed"} : footer' = Footer(status)
        \/ footer' = Expired(footer)
        \/ footer' = [footer EXCEPT !.old = TRUE]
        \/ footer' = footer
    BY DEF Next, vars, Connect, NothingDetected, Loop, Press, PollTimesOut, Perform, PerformFails,
       PerformUnanswered, Snapshot, SnapshotFails, StatusAges, OtherWrite, DaemonStartsOrStops
  <2>5. footer' \in Footers
    BY <2>1, <2>2, <2>3, <2>4
  <2> QED
    BY <2>5 DEF Footers
<1>7. (pc \in {"connect", "first", "poll", "perform", "snapshot", "quit", "panicked"})'
  BY DEF TypeOK, Next, vars, Connect, NothingDetected, Loop, Press, AfterKey, PollTimesOut, Perform,
     PerformFails, PerformUnanswered, Snapshot, SnapshotFails, StatusAges, OtherWrite,
     DaemonStartsOrStops
<1>8. (up \in BOOLEAN /\ source \in {"none", "daemon", "local"})'
  BY DEF TypeOK, Next, vars, Connect, NothingDetected, Loop, Press, PollTimesOut, Perform,
     PerformFails, PerformUnanswered, Snapshot, SnapshotFails, StatusAges, OtherWrite,
     DaemonStartsOrStops
<1> QED
  BY <1>1, <1>2, <1>3, <1>4, <1>5, <1>6, <1>7, <1>8 DEF TypeOK, TuiInv, Detected

(* Type correctness of the client: source and capabilities stay those of    *)
(* the start, and what is on screen and asked for is a profile.             *)
THEOREM TuiTypeCorrect == Spec => []TypeOK
BY ScreenInit, ScreenStep, PTL DEF Spec, ScreenInv

(* Drawing never panics, whatever a sensor reports: a byte cut at a hundred *)
(* is a percentage, red at the end of the scale (render_temp of ui.rs).     *)
THEOREM GaugesFitScale == Spec => []GaugesFit
<1>1. ScreenInv => GaugesFit
  <2> SUFFICES ASSUME ScreenInv, state # NoChange, NEW g \in {"cpu", "gpu"},
                      Gauges(state)[g].word = "value"
               PROVE  /\ Gauges(state)[g].percent \in 0..100
                      /\ Gauges(state)[g].percent = 100 => Gauges(state)[g].colour = "red"
    BY DEF GaugesFit
  <2>1. PICK temp, fan : Gauges(state)[g] = Gauge(temp, fan) /\ Measured(temp)
    BY DEF Gauges, ScreenInv
  <2>2. temp # Unset
    BY <2>1 DEF Gauge
  <2>3. /\ temp \in U8
        /\ Gauges(state)[g].percent = Percent(temp)
        /\ Gauges(state)[g].colour = Colour(temp)
    BY <2>1, <2>2 DEF Gauge, Measured
  <2>4. Percent(temp) \in 0..100 /\ (Percent(temp) = 100 => temp >= 100)
    BY <2>3 DEF Percent, U8
  <2>5. temp >= 100 => Colour(temp) = "red"
    BY <2>3 DEF Colour, HOT_C, WARM_C, U8
  <2> QED
    BY <2>3, <2>4, <2>5
<1> QED
  BY <1>1, ScreenInit, ScreenStep, PTL DEF Spec

-----------------------------------------------------------------------------
(* The first of some places, as detection and the readings look for it.     *)

LEMMA FirstIsLeast ==
  ASSUME NEW places \in SUBSET Nat, places # {}
  PROVE  First(places) \in places /\ \A place \in places : First(places) <= place
<1> DEFINE R == OpToRel(<, Nat)
<1>1. IsWellFoundedOn(R, Nat)
  BY NatLessThanWellFounded
<1>2. \A m, n \in Nat : m < n => <<m, n>> \in R
  BY DEF OpToRel
<1> HIDE DEF R
<1>3. PICK least \in places : \A place \in places : ~(<<place, least>> \in R)
  BY <1>1, WFMin
<1>4. ASSUME NEW place \in places PROVE least <= place
  <2>1. least \in Nat /\ place \in Nat
    OBVIOUS
  <2>2. ~(place < least)
    BY <1>2, <1>3, <2>1
  <2> QED
    BY <2>1, <2>2
<1> QED
  BY <1>4 DEF First

\* The thresholds are those of the battery that has none before it.
LEMMA ChargeFiles ==
  ASSUME NEW sysfs, Typed(sysfs), NEW a \in Attrs
  PROVE  a \in ChargeCaps(sysfs) <=>
           \E i \in DOMAIN sysfs.supplies :
             /\ sysfs.supplies[i].type = "Battery" /\ a \in sysfs.supplies[i].files
             /\ \A j \in 1..(i - 1) : sysfs.supplies[j].type # "Battery"
<1> DEFINE found == Supplies(sysfs, "Battery")
<1>1. DOMAIN sysfs.supplies = 1..Len(sysfs.supplies) /\ Len(sysfs.supplies) \in Nat
  BY DEF Typed
<1>2. found \in SUBSET Nat /\ found \subseteq DOMAIN sysfs.supplies
  BY <1>1 DEF Supplies
<1>3. CASE found = {}
  BY <1>3 DEF ChargeCaps, Supplies
<1>4. CASE found # {}
  <2> DEFINE first == First(found)
  <2>1. first \in found /\ \A i \in found : first <= i
    BY <1>2, <1>4, FirstIsLeast
  <2>2. a \in ChargeCaps(sysfs) <=> a \in sysfs.supplies[first].files
    BY <1>4 DEF ChargeCaps
  <2>3. ASSUME NEW i \in DOMAIN sysfs.supplies
        PROVE  (sysfs.supplies[i].type = "Battery" /\ \A j \in 1..(i - 1) : sysfs.supplies[j].type # "Battery")
                 <=> i = first
    <3>1. \A j \in DOMAIN sysfs.supplies : j \in found <=> sysfs.supplies[j].type = "Battery"
      BY DEF Supplies
    <3>2. \A j \in 1..(i - 1) : j \in DOMAIN sysfs.supplies
      BY <1>1
    <3> HIDE DEF found, first
    <3> QED
      BY <1>1, <1>2, <2>1, <3>1, <3>2
  <2>4. first \in DOMAIN sysfs.supplies
    BY <1>2, <2>1
  <2> HIDE DEF found, first
  <2> QED
    BY <2>2, <2>3, <2>4
<1> QED
  BY <1>3, <1>4

\* What is drawn in bold is what was detected.
LEMMA DetectedRows ==
  ASSUME NEW sysfs, Typed(sysfs), DetectIn(sysfs) # NoBackend, NEW a \in Attrs
  PROVE  a \in DetectIn(sysfs).caps <=> Filed(sysfs, a)
<1> USE DEF Filed
<1>1. CASE "shift_mode" \in sysfs.msi_ec
  <2>1. ProbeMsi(sysfs) # NoBackend
    BY <1>1 DEF ProbeMsi, NoBackend
  <2>2. DetectIn(sysfs).caps =
          {"power_level"} \cup {b \in DOMAIN EcFile : EcFile[b] \in sysfs.msi_ec} \cup ChargeCaps(sysfs)
    BY <1>1, <2>1 DEF DetectIn, ProbeMsi
  <2> QED
    BY <1>1, <2>2
<1>2. CASE "shift_mode" \notin sysfs.msi_ec
  <2>1. DetectIn(sysfs) = ProbePlatformProfile(sysfs)
    BY <1>2 DEF DetectIn, ProbeMsi
  <2>2. DetectIn(sysfs).caps = {"power_level"} \cup ChargeCaps(sysfs)
    BY <2>1 DEF ProbePlatformProfile
  <2> QED
    BY <1>2, <2>2
<1> QED
  BY <1>1, <1>2

\* A client that has a source has a machine, and what the machine lacks is
\* never read.
DrawnInv ==
  /\ ScreenInv
  /\ source # "none" => machine # NoBackend
  /\ machine # NoBackend => \A a \in Attrs \ machine.caps : hw[a] = Unset

LEMMA DrawnInit == Init => DrawnInv
<1> SUFFICES ASSUME Init PROVE DrawnInv
  OBVIOUS
<1>1. machine # NoBackend => \A a \in Attrs \ machine.caps : hw[a] = Unset
  BY MachinesAreTyped, DetectedRows DEF Init
<1> QED
  BY <1>1, ScreenInit DEF DrawnInv, Init

\* A write leaves alone what is not there.
LEMMA TakesKeepsAbsent ==
  ASSUME Hardware(hw), NEW a \in Attrs, NEW value, Takes(a, value), NEW b \in Attrs, b # a, hw[b] = Unset
  PROVE  hw'[b] = Unset
<1> DEFINE written == B!KernelWrite(hw, a, value)
<1>1. DOMAIN written = Attrs /\ written[b] = Unset
  BY DEF B!KernelWrite, Hardware
<1>2. hw' = written \/ hw' = Follow(written, a)
  BY DEF Takes
<1> HIDE DEF written
<1>3. Follow(written, a)[b] = Unset
  BY <1>1 DEF Follow
<1> QED
  BY <1>1, <1>2, <1>3

LEMMA DrawnStep == DrawnInv /\ [Next]_vars => DrawnInv'
<1> SUFFICES ASSUME DrawnInv, [Next]_vars PROVE DrawnInv'
  OBVIOUS
<1>1. TuiInv /\ ScreenInv'
  BY ScreenStep DEF DrawnInv, ScreenInv
<1>2. machine' = machine
  BY DEF Next, vars, Connect, NothingDetected, Loop, Press, PollTimesOut, Perform, PerformFails,
     PerformUnanswered, Snapshot, SnapshotFails, StatusAges, OtherWrite, DaemonStartsOrStops
<1>3. source' # "none" => machine # NoBackend
  BY DEF DrawnInv, Next, vars, Connect, NothingDetected, Loop, Press, PollTimesOut, Perform,
     PerformFails, PerformUnanswered, Snapshot, SnapshotFails, StatusAges, OtherWrite,
     DaemonStartsOrStops
<1>4. ASSUME machine # NoBackend, NEW b \in Attrs \ machine.caps PROVE hw'[b] = Unset
  <2>1. hw[b] = Unset
    BY <1>4 DEF DrawnInv
  <2>2. CASE Perform \/ PerformUnanswered
    <3>1. PICK a \in Attrs : Asks(a, action.asks) /\ Takes(a, Written(a))
      BY <1>1, <2>2, SetterWritesOne DEF Perform, PerformUnanswered
    <3>2. a \in machine.caps
      BY <1>1, <2>2, <3>1 DEF TuiInv, Asks, Perform, PerformUnanswered
    <3> QED
      BY <1>1, <1>4, <2>1, <3>1, <3>2, TakesKeepsAbsent DEF TuiInv
  <2>3. CASE \E write \in Others : OtherWrite(write[1], write[2])
    <3>1. PICK write \in Others : OtherWrite(write[1], write[2])
      BY <2>3
    <3> QED
      BY <1>1, <1>4, <2>1, <3>1, OthersAreTyped, TakesKeepsAbsent DEF TuiInv, OtherWrite
  <2>4. CASE UNCHANGED hw
    BY <2>1, <2>4
  <2> QED
    BY <2>2, <2>3, <2>4 DEF Next, vars, Connect, NothingDetected, Loop, Press, PollTimesOut,
       PerformFails, Snapshot, SnapshotFails, StatusAges, DaemonStartsOrStops
<1> QED
  BY <1>1, <1>2, <1>3, <1>4 DEF DrawnInv

LEMMA DrawnInvariant == Spec => []DrawnInv
BY DrawnInit, DrawnStep, PTL DEF Spec

(* What is drawn in bold is what a key can reach: detection takes the MSI   *)
(* driver first, file by file, and the thresholds of the first battery      *)
(* (probe of the two backends, battery.rs, sysfs.rs).                       *)
THEOREM RowsMatch == Spec => []RowsMatchTheMachine
<1>1. DrawnInv => RowsMatchTheMachine
  <2> SUFFICES ASSUME DrawnInv, source # "none", NEW a \in Attrs
               PROVE  ~Row(state, caps, a).muted <=>
                        \/ a = "power_level"
                        \/ a \in DOMAIN EcFile /\ {"shift_mode", EcFile[a]} \subseteq tree.msi_ec
                        \/ \E i \in DOMAIN tree.supplies :
                             /\ tree.supplies[i].type = "Battery" /\ a \in tree.supplies[i].files
                             /\ \A j \in 1..(i - 1) : tree.supplies[j].type # "Battery"
    BY DEF RowsMatchTheMachine
  <2>1. /\ machine = DetectIn(tree) /\ machine # NoBackend
        /\ caps = machine.caps
        /\ Typed(tree)
    BY MachinesAreTyped DEF DrawnInv, ScreenInv, TuiInv, Detected, TypeOK
  <2>2. ~Row(state, caps, a).muted <=> a \in caps
    BY DEF Row
  <2> QED
    BY <2>1, <2>2, DetectedRows, ChargeFiles DEF Filed
<1> QED
  BY <1>1, DrawnInvariant, PTL

-----------------------------------------------------------------------------
(* Temperatures: the chip that counts, and the conversion.                  *)

LEMMA DegreesAreClose ==
  ASSUME NEW milli \in Int
  PROVE  /\ Degrees(milli) \in Int
         /\ Degrees(milli) \in U8 <=> milli > -1000 /\ milli < 256000
         /\ -999 <= milli - 1000 * Degrees(milli) /\ milli - 1000 * Degrees(milli) <= 999
<1>1. CASE milli < 0
  <2> DEFINE whole == (-milli) \div 1000
  <2>1. whole \in Nat /\ 1000 * whole <= -milli /\ -milli < 1000 * whole + 1000
    BY <1>1
  <2>2. Degrees(milli) = -whole
    BY <1>1 DEF Degrees
  <2> HIDE DEF whole
  <2> QED
    BY <1>1, <2>1, <2>2 DEF U8
<1>2. CASE milli >= 0
  <2> DEFINE whole == milli \div 1000
  <2>1. whole \in Nat /\ 1000 * whole <= milli /\ milli < 1000 * whole + 1000
    BY <1>2
  <2>2. Degrees(milli) = whole
    BY <1>2 DEF Degrees
  <2> HIDE DEF whole
  <2> QED
    BY <1>2, <2>1, <2>2 DEF U8
<1> QED
  BY <1>1, <1>2

\* What a chip reports fits a byte, or is missing.
LEMMA MilliFits ==
  ASSUME NEW milli \in Option(Int), NEW temp,
         temp = IF milli = Unset THEN Unset ELSE Byte(Degrees(milli))
  PROVE  IF FitsByte(milli) THEN temp # Unset /\ WithinADegree(milli, temp)
                            ELSE temp = Unset
<1>1. CASE milli = Unset
  BY <1>1 DEF FitsByte
<1>2. CASE milli # Unset
  <2> DEFINE degrees == Degrees(milli)
  <2>1. milli \in Int
    BY <1>2 DEF Option
  <2>2. degrees \in Int /\ degrees # Unset
    BY <2>1, DegreesAreClose, UnsetIsNoValue
  <2>3. temp = IF degrees \in U8 THEN degrees ELSE Unset
    BY <1>2, <2>2 DEF Byte
  <2>4. FitsByte(milli) <=> degrees \in U8
    BY <1>2, <2>1, DegreesAreClose DEF FitsByte
  <2>5. -999 <= milli - 1000 * degrees /\ milli - 1000 * degrees <= 999
    BY <2>1, DegreesAreClose
  <2>6. WithinADegree(milli, degrees)
    <3> HIDE DEF degrees
    <3> QED
      BY <2>1, <2>2, <2>5 DEF WithinADegree
  <2> QED
    BY <2>2, <2>3, <2>4, <2>6, Zenon
<1> QED
  BY <1>1, <1>2

\* The search by names in the caller's order comes to a preferred chip.
LEMMA PreferredChip ==
  ASSUME NEW names, names \in Seq(Range(names))
  PROVE  \/ Preferred(names) = {} /\ TempFrom(tree, names) = Unset
         \/ \E chip \in Preferred(names) :
              TempFrom(tree, names) = IF chip.temp1 = Unset THEN Unset ELSE Byte(Degrees(chip.temp1))
<1> DEFINE found == {k \in DOMAIN names : Chips(tree, names[k]) # {}}
<1>1. found \in SUBSET Nat /\ DOMAIN names = 1..Len(names) /\ Len(names) \in Nat
  OBVIOUS
<1>2. \A k \in DOMAIN names : k \in found <=> \E chip \in Range(tree.chips) : chip.name = names[k]
  BY DEF Chips
<1>3. \A chip : chip \in Preferred(names) <=>
        /\ chip \in Range(tree.chips)
        /\ \E k \in DOMAIN names :
             /\ chip.name = names[k]
             /\ \A j \in 1..(k - 1) : \A other \in Range(tree.chips) : other.name # names[j]
  BY DEF Preferred
<1>4. CASE found = {}
  <2>1. TempFrom(tree, names) = Unset
    BY <1>4 DEF TempFrom
  <2>2. ASSUME NEW chip \in Preferred(names) PROVE FALSE
    BY <1>2, <1>3, <1>4
  <2> QED
    BY <2>1, <2>2
<1>5. CASE found # {}
  <2> DEFINE best == First(found)
             chip == HwmonByName(tree, names[best])
  <2>1. best \in found /\ \A k \in found : best <= k
    BY <1>1, <1>5, FirstIsLeast
  <2>2. TempFrom(tree, names) = IF chip.temp1 = Unset THEN Unset ELSE Byte(Degrees(chip.temp1))
    BY <1>5 DEF TempFrom
  <2>3. chip \in Range(tree.chips) /\ chip.name = names[best]
    <3>1. Chips(tree, names[best]) # {}
      BY <2>1
    <3>2. chip \in Chips(tree, names[best])
      BY <3>1 DEF HwmonByName
    <3> QED
      BY <3>2 DEF Chips
  <2> HIDE DEF found, best, chip
  <2>4. ASSUME NEW j \in 1..(best - 1), NEW other \in Range(tree.chips) PROVE other.name # names[j]
    <3>1. best \in 1..Len(names)
      BY <1>1, <2>1 DEF found
    <3>2. j \in DOMAIN names /\ j \notin found
      BY <1>1, <2>1, <3>1
    <3> QED
      BY <1>2, <3>2
  <2>5. chip \in Preferred(names)
    BY <1>3, <2>1, <2>3, <2>4 DEF found
  <2> QED
    BY <2>2, <2>5
<1> QED
  BY <1>4, <1>5

LEMMA GaugeHonest ==
  ASSUME Typed(tree), state = Reported, NEW fan,
         NEW reading, NEW names,
         \/ reading = "cpu_temp_c" /\ names = CpuHwmon
         \/ reading = "gpu_temp_c" /\ names = GpuHwmon
  PROVE  GaugeIsHonest(Gauge(state[reading], fan), reading, names)
<1> DEFINE temp == state[reading]
           gauge == Gauge(temp, fan)
<1>1. temp = ReadSensor(tree, machine, reading)
  BY DEF Reported, ReadState, Attrs, Sensors
<1>2. /\ temp = Unset => gauge.word = "unavailable"
      /\ temp # Unset => gauge.word = "value" /\ gauge.temp = temp
  BY DEF Gauge
<1>3. CASE machine.name = "msi-ec"
  <2>1. temp = IF reading \in DOMAIN tree.realtime THEN Byte(tree.realtime[reading]) ELSE Unset
    BY <1>1, <1>3 DEF ReadSensor, Realtime
  <2>2. CASE reading \in DOMAIN tree.realtime /\ tree.realtime[reading] \in U8
    <3>1. tree.realtime[reading] # Unset
      BY <2>2, UnsetIsNoValue DEF U8
    <3>2. temp = tree.realtime[reading]
      BY <2>1, <2>2, <3>1 DEF Byte
    <3> HIDE DEF temp, gauge
    <3> QED
      BY <1>2, <1>3, <2>2, <3>1, <3>2 DEF GaugeIsHonest, temp, gauge
  <2>3. CASE ~(reading \in DOMAIN tree.realtime /\ tree.realtime[reading] \in U8)
    <3>1. temp = Unset
      BY <2>1, <2>3 DEF Byte
    <3> QED
      BY <1>2, <1>3, <2>3, <3>1 DEF GaugeIsHonest
  <2> QED
    BY <2>2, <2>3
<1>4. CASE machine.name # "msi-ec"
  <2>1. temp = TempFrom(tree, names)
    BY <1>1, <1>4 DEF ReadSensor
  <2>2. names \in Seq(Range(names))
    BY DEF CpuHwmon, GpuHwmon, Range
  <2>3. CASE Preferred(names) = {}
    <3>1. temp = Unset
      BY <2>1, <2>2, <2>3, PreferredChip
    <3> QED
      BY <1>2, <1>4, <2>3, <3>1 DEF GaugeIsHonest
  <2>4. CASE Preferred(names) # {}
    <3>1. PICK chip \in Preferred(names) :
            temp = IF chip.temp1 = Unset THEN Unset ELSE Byte(Degrees(chip.temp1))
      BY <2>1, <2>2, <2>4, PreferredChip
    <3>2. chip.temp1 \in Option(Int)
      BY DEF Typed, Preferred
    <3> HIDE DEF temp, gauge
    <3>3. IF FitsByte(chip.temp1) THEN temp # Unset /\ WithinADegree(chip.temp1, temp)
                                  ELSE temp = Unset
      BY <3>1, <3>2, MilliFits, Zenon
    <3>4. IF FitsByte(chip.temp1) THEN gauge.word = "value" /\ WithinADegree(chip.temp1, gauge.temp)
                                  ELSE gauge.word = "unavailable"
      BY <1>2, <3>3, Zenon
    <3>5. GaugeIsHonest(gauge, reading, names)
      BY <1>4, <3>4 DEF GaugeIsHonest
    <3> QED
      BY <3>5 DEF temp, gauge
  <2> QED
    BY <2>3, <2>4
<1> QED
  BY <1>3, <1>4

-----------------------------------------------------------------------------
(* Rows. *)

LEMMA RowHonest ==
  ASSUME Hardware(hw), state = Reported, caps = machine.caps, NEW a \in Attrs,
         a \in machine.caps \/ hw[a] = Unset
  PROVE  LET row == Row(state, caps, a)
         IN  IF a \in machine.caps /\ hw[a] # Unset /\ Known(a, hw[a])
               THEN row.word = "value" /\ hw[a] \in Words(a, row.value)
               ELSE row.word # "value"
<1> DEFINE row == Row(state, caps, a)
<1>1. row.value = state[a] /\ (row.word = "value" <=> state[a] # Unset)
  BY DEF Row, Word
<1>2. CASE a = "power_level"
  <2> DEFINE word == hw["power_level"]
  <2>1. state[a] = Parse(word)
    BY <1>2, Readings DEF Reported
  <2>2. Known(a, word) <=>
          word \in {"performance", "balanced-performance", "balanced", "turbo", "comfort",
                    "low-power", "quiet", "cool", "eco"}
    BY <1>2 DEF Known, Words, Candidates, Range, PowerLevel
  <2>3. Parse(word) # Unset <=> Known(a, word)
    BY <2>2, UnsetIsNoValue DEF Parse, PowerLevel
  <2>4. Parse(word) # Unset => word \in Words(a, Parse(word))
    BY <1>2 DEF Parse, Words, Candidates, Range
  <2>5. Parse(Unset) = Unset
    BY UnsetIsNoWord DEF Parse, PlatformNames, ShiftModes
  <2> HIDE DEF row
  <2> QED
    BY <1>1, <1>2, <2>1, <2>3, <2>4, <2>5 DEF row
<1>3. CASE a = "fan_mode"
  <2> DEFINE word == hw["fan_mode"]
  <2>1. state[a] = ParseFanMode(word)
    BY <1>3, Readings DEF Reported
  <2>2. Known(a, word) <=> word \in {"auto", "silent", "advanced"}
    BY <1>3 DEF Known, Words, FanModeValue, FanMode
  <2>3. ParseFanMode(word) # Unset <=> Known(a, word)
    BY <2>2, UnsetIsNoValue DEF ParseFanMode, FanMode
  <2>4. ParseFanMode(word) # Unset => word \in Words(a, ParseFanMode(word))
    BY <1>3 DEF ParseFanMode, Words, FanModeValue
  <2>5. ParseFanMode(Unset) = Unset
    BY UnsetIsNoWord DEF ParseFanMode
  <2> HIDE DEF row
  <2> QED
    BY <1>1, <1>3, <2>1, <2>3, <2>4, <2>5 DEF row
<1>4. CASE a \notin {"power_level", "fan_mode"}
  <2>1. state[a] = hw[a]
    BY <1>4, Readings DEF Reported
  <2>2. Known(a, hw[a]) /\ hw[a] \in Words(a, hw[a])
    BY <1>4 DEF Known, Words
  <2> HIDE DEF row
  <2> QED
    BY <1>1, <2>1, <2>2 DEF row
<1> QED
  BY <1>2, <1>3, <1>4

-----------------------------------------------------------------------------
(* Fans. *)

\* The concatenation of several sequences, which is defined by a recursion, is
\* empty just if all of them are: by the least place at which that would fail.
LEMMA FlattenedIsEmpty ==
  ASSUME NEW T, NEW seqs \in Seq(Seq(T))
  PROVE  FlattenSeq(seqs) = << >> <=> \A i \in 1..Len(seqs) : seqs[i] = << >>
<1> DEFINE n == Len(seqs)
           Builds(f, k) == f = [i \in 1..k |-> IF i = 1 THEN seqs[i] ELSE f[i - 1] \o seqs[i]]
           flatten == CHOOSE f : Builds(f, n)
<1>1. n \in Nat /\ \A i \in 1..n : seqs[i] \in Seq(T)
  OBVIOUS
<1>2. CASE n = 0
  <2>1. seqs = << >> /\ FlattenSeq(seqs) = seqs
    BY <1>2 DEF FlattenSeq
  <2> QED
    BY <1>2, <2>1
<1>3. CASE n # 0
  <2>1. FlattenSeq(seqs) = flatten[n]
    BY <1>3 DEF FlattenSeq
  <2>2. \E f : Builds(f, n)
    <3> DEFINE missing == {k \in 1..n : ~\E f : Builds(f, k)}
    <3>1. SUFFICES ASSUME missing # {} PROVE FALSE
      <4> HIDE DEF Builds
      <4>1. n \in 1..n
        BY <1>1, <1>3
      <4> HIDE DEF n
      <4> QED
        BY <4>1
    <3> DEFINE k == First(missing)
    <3>2. k \in missing /\ \A j \in missing : k <= j
      <4> HIDE DEF Builds
      <4>1. missing \in SUBSET Nat
        BY <1>1
      <4> HIDE DEF missing
      <4> QED
        BY <3>1, <4>1, FirstIsLeast
    <3>3. k \in 1..n /\ ~\E f : Builds(f, k)
      BY <3>2
    <3> HIDE DEF missing, k
    <3>4. CASE k = 1
      <4>1. Builds([i \in 1..1 |-> seqs[i]], 1)
        OBVIOUS
      <4> QED
        BY <3>3, <3>4, <4>1
    <3>5. CASE k # 1
      <4>1. k - 1 \in 1..n /\ k - 1 \notin missing
        BY <1>1, <3>2, <3>3, <3>5
      <4>2. PICK f : Builds(f, k - 1)
        BY <4>1 DEF missing
      <4> DEFINE g == [i \in 1..k |-> IF i = k THEN f[k - 1] \o seqs[k] ELSE f[i]]
      <4>3. ASSUME NEW i \in 1..k
            PROVE  g[i] = IF i = 1 THEN seqs[i] ELSE g[i - 1] \o seqs[i]
        <5>1. k \in Int /\ i \in Int /\ (i # 1 => i - 1 \in 1..k /\ i - 1 # k)
          BY <1>1, <3>3
        <5>2. CASE i = k
          BY <3>5, <5>1, <5>2
        <5>3. CASE i # k
          <6>1. i \in 1..(k - 1)
            BY <5>1, <5>3
          <6> QED
            BY <4>2, <5>1, <5>3, <6>1
        <5> QED
          BY <5>2, <5>3
      <4>4. g = [i \in 1..k |-> g[i]]
        OBVIOUS
      <4> HIDE DEF g
      <4>5. Builds(g, k)
        BY <4>3, <4>4
      <4> QED
        BY <3>3, <4>5
    <3> QED
      BY <3>4, <3>5
  <2>3. Builds(flatten, n)
    <3> HIDE DEF Builds
    <3> QED
      BY <2>2
  <2> HIDE DEF flatten
  <2>4. \A i \in 1..n : flatten[i] = IF i = 1 THEN seqs[i] ELSE flatten[i - 1] \o seqs[i]
    BY <2>3
  <2> HIDE DEF Builds
  <2> DEFINE Fine(k) == flatten[k] \in Seq(T) /\ (flatten[k] = << >> <=> \A i \in 1..k : seqs[i] = << >>)
             wrong == {k \in 1..n : ~Fine(k)}
  <2>5. \A k \in 1..n : Fine(k)
    <3>1. SUFFICES ASSUME wrong # {} PROVE FALSE
      OBVIOUS
    <3> DEFINE k == First(wrong)
    <3>2. k \in wrong /\ \A j \in wrong : k <= j
      <4>1. wrong \in SUBSET Nat
        BY <1>1
      <4> HIDE DEF wrong
      <4> QED
        BY <3>1, <4>1, FirstIsLeast
    <3>3. k \in 1..n /\ ~Fine(k)
      BY <3>2
    <3> HIDE DEF wrong, k
    <3>4. CASE k = 1
      BY <1>1, <2>4, <3>3, <3>4
    <3>5. CASE k # 1
      <4>1. k - 1 \in 1..n /\ k - 1 \notin wrong
        BY <1>1, <3>2, <3>3, <3>5
      <4>2. Fine(k - 1)
        BY <4>1 DEF wrong
      <4>3. flatten[k] = flatten[k - 1] \o seqs[k]
        BY <2>4, <3>3, <3>5
      <4>4. \A s, t \in Seq(T) : s \o t \in Seq(T) /\ (s \o t = << >> <=> s = << >> /\ t = << >>)
        OBVIOUS
      <4>5. (\A i \in 1..k : seqs[i] = << >>) <=> (\A i \in 1..(k - 1) : seqs[i] = << >>) /\ seqs[k] = << >>
        BY <1>1, <3>3
      <4>6. Fine(k)
        BY <1>1, <3>3, <4>2, <4>3, <4>4, <4>5
      <4> QED
        BY <3>3, <4>6
    <3> QED
      BY <3>4, <3>5
  <2> QED
    BY <1>1, <1>3, <2>1, <2>5
<1> QED
  BY <1>2, <1>3

\* Fans are listed up to the first gap, which is none if the first one is there.
LEMMA UpToTheGap ==
  ASSUME NEW fans \in Seq(Option(Nat))
  PROVE  /\ UpToGap(fans) \in Seq(Nat)
         /\ UpToGap(fans) = << >> <=> fans = << >> \/ fans[1] = Unset
<1> DEFINE gaps == {i \in 1..(Len(fans) + 1) : i > Len(fans) \/ fans[i] = Unset}
           gap == First(gaps)
<1>1. Len(fans) \in Nat /\ \A i \in 1..Len(fans) : fans[i] \in Option(Nat)
  OBVIOUS
<1>2. gap \in gaps /\ \A i \in gaps : gap <= i
  <2>1. gaps \in SUBSET Nat /\ Len(fans) + 1 \in gaps
    BY <1>1
  <2> HIDE DEF gaps
  <2> QED
    BY <2>1, FirstIsLeast
<1>3. gap \in 1..(Len(fans) + 1)
  BY <1>2
<1>4. \A i \in 1..(gap - 1) : fans[i] \in Nat
  <2> SUFFICES ASSUME NEW i \in 1..(gap - 1) PROVE fans[i] \in Nat
    OBVIOUS
  <2>1. i \in 1..Len(fans) /\ ~(gap <= i)
    BY <1>1, <1>3
  <2>2. i \notin gaps
    BY <1>2, <2>1
  <2>3. fans[i] # Unset
    BY <1>1, <2>1, <2>2
  <2> QED
    BY <1>1, <2>1, <2>3 DEF Option
<1>5. gap = 1 <=> fans = << >> \/ fans[1] = Unset
  <2>1. 1 \in gaps <=> fans = << >> \/ fans[1] = Unset
    BY <1>1
  <2> HIDE DEF gap, gaps
  <2>2. gap = 1 <=> 1 \in gaps
    BY <1>1, <1>2, <1>3
  <2> QED
    BY <2>1, <2>2
<1>6. UpToGap(fans) = SubSeq(fans, 1, gap - 1)
  BY DEF UpToGap
<1> HIDE DEF gap
<1>7. UpToGap(fans) \in Seq(Nat) /\ Len(UpToGap(fans)) = IF 1 <= gap - 1 THEN gap - 1 ELSE 0
  <2>1. gap - 1 \in Int
    BY <1>1, <1>3
  <2>2. /\ SubSeq(fans, 1, gap - 1) \in Seq(Nat)
        /\ Len(SubSeq(fans, 1, gap - 1)) = IF 1 <= gap - 1 THEN (gap - 1) - 1 + 1 ELSE 0
    BY <1>4, <2>1, SubSeqProperties
  <2> QED
    BY <1>6, <2>1, <2>2
<1> QED
  BY <1>1, <1>3, <1>5, <1>7

LEMMA FansListed ==
  ASSUME Typed(tree), state = Reported
  PROVE  Fans(state) = state.fan_rpm <=>
           \E chip \in Range(tree.chips) :
             /\ chip.fans # << >> /\ chip.fans[1] # Unset
             /\ machine.name = "msi-ec" => chip.name = "msi_wmi_platform"
<1> DEFINE Counts(chip) == chip.fans # << >> /\ chip.fans[1] # Unset
<1>1. state.fan_rpm = FanRpm(tree, machine)
  BY Readings DEF Reported
<1>2. Fans(state) = state.fan_rpm <=> state.fan_rpm # << >>
  <2>1. <<"no tachometer readings">> # << >>
    OBVIOUS
  <2> QED
    BY <2>1, Zenon DEF Fans
<1>3. /\ DOMAIN tree.chips = 1..Len(tree.chips) /\ Len(tree.chips) \in Nat
      /\ \A i \in DOMAIN tree.chips : tree.chips[i].fans \in Seq(Option(Nat))
  BY DEF Typed, Range
<1>4. \A i \in DOMAIN tree.chips :
        /\ UpToGap(tree.chips[i].fans) \in Seq(Nat)
        /\ UpToGap(tree.chips[i].fans) # << >> <=> Counts(tree.chips[i])
  BY <1>3, UpToTheGap
<1>5. CASE machine.name # "msi-ec"
  <2> DEFINE lists == [i \in DOMAIN tree.chips |-> UpToGap(tree.chips[i].fans)]
  <2>1. FanRpm(tree, machine) = FlattenSeq(lists)
    BY <1>5 DEF FanRpm
  <2>2. lists \in Seq(Seq(Nat)) /\ Len(lists) = Len(tree.chips)
    BY <1>3, <1>4
  <2>3. FlattenSeq(lists) = << >> <=> \A i \in 1..Len(lists) : lists[i] = << >>
    <3> HIDE DEF lists
    <3> QED
      BY <2>2, FlattenedIsEmpty
  <2>4. FanRpm(tree, machine) # << >> <=> \E i \in DOMAIN tree.chips : Counts(tree.chips[i])
    BY <1>3, <1>4, <2>1, <2>2, <2>3
  <2> HIDE DEF lists, Counts
  <2>5. (\E i \in DOMAIN tree.chips : Counts(tree.chips[i])) <=> \E chip \in Range(tree.chips) : Counts(chip)
    BY DEF Range
  <2> QED
    BY <1>1, <1>2, <1>5, <2>4, <2>5 DEF Counts
<1>6. CASE machine.name = "msi-ec"
  <2> DEFINE msi == Chips(tree, "msi_wmi_platform")
             chip == HwmonByName(tree, "msi_wmi_platform")
  <2>1. FanRpm(tree, machine) = IF msi = {} THEN << >> ELSE UpToGap(chip.fans)
    BY <1>6 DEF FanRpm
  <2>2. \A other : other \in msi <=> other \in Range(tree.chips) /\ other.name = "msi_wmi_platform"
    BY DEF Chips
  <2>3. msi # {} => chip \in msi /\ \A other \in msi : other = chip
    BY DEF HwmonByName, Typed
  <2> HIDE DEF msi, chip
  <2>4. msi # {} => (UpToGap(chip.fans) # << >> <=> Counts(chip))
    BY <1>4, <2>2, <2>3 DEF Range
  <2> HIDE DEF Counts
  <2>5. FanRpm(tree, machine) # << >> <=>
          \E other \in Range(tree.chips) : Counts(other) /\ other.name = "msi_wmi_platform"
    BY <2>1, <2>2, <2>3, <2>4
  <2> QED
    BY <1>1, <1>2, <1>6, <2>5 DEF Counts
<1> QED
  BY <1>5, <1>6

(* "Reads as such rather than as zero": what stands on a screen that is not  *)
(* stale is what the hardware reports in words the program writes, the      *)
(* preferred chip's temperature, the fans up to the first gap, and nothing  *)
(* else (read_state of the two backends, temp_from, hwmon_by_any_name).     *)
THEOREM ScreenHonest == Spec => []ScreenIsHonest
<1>1. DrawnInv => ScreenIsHonest
  <2> SUFFICES ASSUME DrawnInv, source # "none", state = Reported
               PROVE  /\ \A a \in Attrs :
                           LET row == Row(state, caps, a)
                           IN  IF a \in machine.caps /\ hw[a] # Unset /\ Known(a, hw[a])
                                 THEN row.word = "value" /\ hw[a] \in Words(a, row.value)
                                 ELSE row.word # "value"
                      /\ GaugeIsHonest(Gauges(state).cpu, "cpu_temp_c", CpuHwmon)
                      /\ GaugeIsHonest(Gauges(state).gpu, "gpu_temp_c", GpuHwmon)
                      /\ Fans(state) = state.fan_rpm <=>
                           \E chip \in Range(tree.chips) :
                             /\ chip.fans # << >> /\ chip.fans[1] # Unset
                             /\ machine.name = "msi-ec" => chip.name = "msi_wmi_platform"
    BY DEF ScreenIsHonest
  <2>1. /\ Typed(tree) /\ Hardware(hw) /\ caps = machine.caps
        /\ \A a \in Attrs \ machine.caps : hw[a] = Unset
    BY MachinesAreTyped DEF DrawnInv, ScreenInv, TuiInv, Detected, TypeOK
  <2>2. /\ Gauges(state).cpu = Gauge(state["cpu_temp_c"], state.cpu_fan_percent)
        /\ Gauges(state).gpu = Gauge(state["gpu_temp_c"], state.gpu_fan_percent)
    BY DEF Gauges
  <2> QED
    BY <2>1, <2>2, RowHonest, GaugeHonest, FansListed
<1> QED
  BY <1>1, DrawnInvariant, PTL

-----------------------------------------------------------------------------
(* Where the empty range of charge_start cannot be reached. *)

\* The lowest start a key can ask for fits below the end.
Apart(limits) ==
  limits["charge_start_threshold"] # Unset =>
    /\ limits["charge_start_threshold"] >= 20
    /\ limits["charge_end_threshold"] # Unset
         => limits["charge_start_threshold"] < limits["charge_end_threshold"]

\* No firmware that moves one threshold with the other, and no start threshold
\* below the range that the program writes itself.
LimitsStayApart ==
  /\ \A m \in Machines : DetectIn(m.tree).name # "msi-ec" /\ \A h \in m.boot : Apart(h)
  /\ \A write \in Others : write[1] = "charge_start_threshold" => write[2] >= 20

ApartInv ==
  /\ TuiInv
  /\ Apart(hw) /\ Apart(state)
  /\ pc # "panicked"

LEMMA TakesKeepsApart ==
  ASSUME Hardware(hw), Apart(hw), machine.name # "msi-ec", NEW a \in Attrs, NEW value, Takes(a, value),
         a = "charge_start_threshold" => value >= 20
  PROVE  Apart(hw')
<1>1. hw' = [hw EXCEPT ![a] = value] /\ DOMAIN hw = Attrs
  BY DEF Takes, B!KernelWrite, Hardware
<1>2. CASE a \notin Limits
  <2>1. \A b \in Limits : hw'[b] = hw[b]
    BY <1>1, <1>2
  <2> QED
    BY <2>1 DEF Apart, Limits
<1>3. CASE a \in Limits
  <2>1. hw'["charge_start_threshold"] # Unset /\ hw'["charge_end_threshold"] # Unset
          => hw'["charge_start_threshold"] < hw'["charge_end_threshold"]
    BY <1>3 DEF Takes, B!KernelTakes, B!Ordered, B!Thresholds, Limits
  <2>2. hw'["charge_start_threshold"] # Unset => hw'["charge_start_threshold"] >= 20
    BY <1>1 DEF Apart, Attrs
  <2> QED
    BY <2>1, <2>2 DEF Apart
<1> QED
  BY <1>2, <1>3

LEMMA ApartPreventsPanic ==
  ASSUME Apart(state), \A a \in Limits : Shown(a), NEW key
  PROVE  ForKey(key).kind # "Panic"
<1>1. ASSUME NEW delta PROVE ChargeStart(delta).kind # "Panic"
  <2> DEFINE ceiling == Ceiling(state.charge_end_threshold)
  <2>1. state.charge_start_threshold # Unset => ~(ceiling < 20)
    BY DEF Apart, Shown, Limits, Ceiling
  <2> HIDE DEF ceiling
  <2> QED
    BY <2>1 DEF ChargeStart, Set, Nothing, Unsupported, ceiling
<1> QED
  BY <1>1 DEF ForKey, Nothing, Gated, Set, Unsupported, Charge

LEMMA ApartStep ==
  ASSUME LimitsStayApart
  PROVE  ApartInv /\ [Next]_vars => ApartInv'
<1> SUFFICES ASSUME ApartInv, [Next]_vars PROVE ApartInv'
  OBVIOUS
<1>1. TuiInv /\ TuiInv'
  BY TuiStep DEF ApartInv
<1>2. machine.name # "msi-ec"
  BY <1>1 DEF TuiInv, Detected, LimitsStayApart
<1>3. Apart(hw)'
  <2>1. CASE Perform \/ PerformUnanswered
    <3>1. PICK a \in Attrs : Asks(a, action.asks) /\ Takes(a, Written(a))
      BY <1>1, <2>1, SetterWritesOne DEF Perform, PerformUnanswered
    <3>2. a = "charge_start_threshold" => Written(a) >= 20
      BY <3>1 DEF Asks, Allowed, Written
    <3> QED
      BY <1>1, <1>2, <3>1, <3>2, TakesKeepsApart DEF ApartInv, TuiInv
  <2>2. CASE \E write \in Others : OtherWrite(write[1], write[2])
    <3>1. PICK write \in Others : OtherWrite(write[1], write[2])
      BY <2>2
    <3>2. write[1] \in Attrs /\ (write[1] = "charge_start_threshold" => write[2] >= 20)
      BY OthersAreTyped DEF LimitsStayApart
    <3> QED
      BY <1>1, <1>2, <3>1, <3>2, TakesKeepsApart DEF ApartInv, TuiInv, OtherWrite
  <2>3. CASE UNCHANGED hw
    BY <2>3 DEF ApartInv
  <2> QED
    BY <2>1, <2>2, <2>3 DEF Next, vars, Connect, NothingDetected, Loop, Press, PollTimesOut,
       PerformFails, Snapshot, SnapshotFails, StatusAges, DaemonStartsOrStops
<1>4. Apart(state)'
  <2>1. CASE Snapshot
    <3>1. state' = Reported
      BY <1>1, <2>1, Arrives DEF Snapshot, TuiInv
    <3>2. \A a \in Limits : state'[a] = hw[a]
      BY <3>1, LimitsAreRead
    <3> QED
      BY <3>2 DEF ApartInv, Apart, Limits
  <2>2. CASE UNCHANGED state
    BY <2>2 DEF ApartInv
  <2> QED
    BY <2>1, <2>2 DEF Next, vars, Connect, NothingDetected, Loop, Press, PollTimesOut, Perform,
       PerformFails, PerformUnanswered, SnapshotFails, StatusAges, OtherWrite, DaemonStartsOrStops
<1>5. (pc # "panicked")'
  <2>1. ASSUME NEW key \in Keys, Press(key) PROVE pc' # "panicked"
    <3>1. ForKey(key).kind # "Panic"
      BY <1>1, ApartPreventsPanic DEF ApartInv, TuiInv
    <3> QED
      BY <2>1, <3>1 DEF Press, AfterKey
  <2> QED
    BY <2>1 DEF ApartInv, Next, vars, Connect, NothingDetected, Loop, PollTimesOut, Perform,
       PerformFails, PerformUnanswered, Snapshot, SnapshotFails, StatusAges, OtherWrite,
       DaemonStartsOrStops
<1> QED
  BY <1>1, <1>3, <1>4, <1>5 DEF ApartInv

(* The clamp of charge_start panics on no machine whose firmware leaves the  *)
(* other threshold alone and whose start threshold boots at 20 or more: the *)
(* kernel's order then keeps the end above 20 (actions.rs:82-100).          *)
THEOREM PanicNeedsLowStart ==
  ASSUME LimitsStayApart
  PROVE  Spec => []KeysNeverPanic
<1>1. Init => ApartInv
  <2> SUFFICES ASSUME Init PROVE ApartInv
    OBVIOUS
  <2>1. Apart(hw)
    BY DEF Init, LimitsStayApart
  <2>2. Apart(state)
    BY DEF Init, Apart, NoChange, Attrs
  <2> QED
    BY <2>1, <2>2, TuiInit DEF ApartInv, Init
<1>2. ApartInv /\ [Next]_vars => ApartInv'
  BY ApartStep
<1>3. ApartInv => KeysNeverPanic
  BY DEF ApartInv, KeysNeverPanic
<1> QED
  BY <1>1, <1>2, <1>3, PTL DEF Spec
=============================================================================
