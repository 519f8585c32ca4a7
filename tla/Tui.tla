--------------------------------- MODULE Tui ---------------------------------
(***************************************************************************)
(* The terminal client of crates/tui: the source it connects to at start    *)
(* and keeps (source.rs), the event loop over a snapshot that may be stale  *)
(* (main.rs), what a key means on that snapshot (actions.rs), what the      *)
(* daemon's setters make of it (iface.rs) and what is drawn (Screen).       *)
(* Meanwhile the daemon comes and goes, and the automation, other clients   *)
(* and the firmware's own hotkeys change the hardware.                     *)
(***************************************************************************)
EXTENDS Screen

CONSTANTS
  Machines,   \* sysfs trees, and how their attributes boot
  Keys,       \* the keys the user presses
  Others      \* what everyone else may write

\* Thresholds are percentages; the firmware's names are its own.
Holds(a, value) ==
  CASE a \in {"charge_end_threshold", "charge_start_threshold"} -> value \in 0..100
    [] a \in {"cooler_boost", "battery_saver"}                  -> value \in BOOLEAN
    [] OTHER                                                    -> TRUE

\* A file that is not there is Unset.
Hardware(h) == DOMAIN h = Attrs /\ \A a \in Attrs : h[a] = Unset \/ Holds(a, h[a])

\* Numbers are numbers, and MSI's driver registers one chip.
Typed(sysfs) ==
  /\ sysfs.supplies \in Seq(Range(sysfs.supplies))
  /\ sysfs.chips \in Seq(Range(sysfs.chips))
  /\ \A chip \in Range(sysfs.chips) : chip.temp1 \in Option(Int) /\ chip.fans \in Seq(Option(Nat))
  /\ \A chip, other \in Chips(sysfs, "msi_wmi_platform") : chip = other

\* The attributes there are files for.
Filed(sysfs, a) ==
  \/ a = "power_level"
  \/ a \in DOMAIN EcFile /\ {"shift_mode", EcFile[a]} \subseteq sysfs.msi_ec
  \/ a \in ChargeCaps(sysfs)

\* The kernel documents the names of a platform profile, and MSI's are not
\* among them.  A list of fans may be empty, and is never missing.
ASSUME MachinesAreTyped ==
  \A m \in Machines :
    /\ Typed(m.tree)
    /\ \/ DetectIn(m.tree).choices \subseteq PlatformNames
       \/ DetectIn(m.tree).choices = ShiftModes
    /\ FanRpm(m.tree, DetectIn(m.tree)) # Unset
    /\ \A h \in m.boot : Hardware(h) /\ \A a \in Attrs : h[a] # Unset => Filed(m.tree, a)

ASSUME OthersAreTyped == \A write \in Others : write[1] \in Attrs /\ Holds(write[1], write[2])

VARIABLES
  tree,       \* the sysfs tree of the machine this is, but for its attributes
  machine,    \* the backend that drives it, as daemon and client detect it
  hw,         \* the attributes; power level and fan mode by the firmware's names
  up,         \* omarchy-powerd is on the bus
  source,     \* where the client reads: the daemon, or sysfs without writing
  caps,       \* the capabilities it was told of
  state,      \* the snapshot on screen
  pc,         \* where the event loop is
  action,     \* what the last key meant
  footer      \* the outcome shown, and whether it has lingered long enough

vars == <<tree, machine, hw, up, source, caps, state, pc, action, footer>>

Reported == ReadState(tree, machine, hw)

B == INSTANCE Backend WITH
  Machine <- [ levels |-> {level \in PowerLevel : ValueFor(machine.choices, level) # Unset},
               caps   |-> machine.caps \ {"power_level"} ]

\* The key means nothing here, or the poll has timed out.
Nothing == [kind |-> "Ignored", asks |-> NoChange]

Footer(status) == [status |-> status, old |-> FALSE]

\* Detection depends on the tree only, and so comes to the same every time.
\* Where nothing is detected, neither the daemon nor the client comes up.
Init ==
  /\ \E m \in Machines : tree = m.tree /\ hw \in m.boot
  /\ machine = DetectIn(tree)
  /\ up \in {FALSE, machine # NoBackend}
  /\ source = "none"
  /\ caps = {}
  /\ state = NoChange
  /\ pc = "connect"
  /\ action = Nothing
  /\ footer = Footer("none")

-----------------------------------------------------------------------------
(* What a key means. *)

Set(attr, value) == [kind |-> "Set", asks |-> [NoChange EXCEPT ![attr] = value]]

Unsupported == [Nothing EXCEPT !.kind = "Unsupported"]

\* i16::clamp panics on an empty range.
Panic == [Nothing EXCEPT !.kind = "Panic"]

Gated(attr, value) == IF attr \in caps THEN Set(attr, value) ELSE Unsupported

\* The value after the current one; the first for one that is not known.
After(all, current) ==
  IF current \in Range(all)
    THEN all[((CHOOSE i \in DOMAIN all : all[i] = current) % Len(all)) + 1]
    ELSE all[1]

Flipped(switch) == switch # TRUE

Clamp(value, low, high) == IF value < low THEN low ELSE IF value > high THEN high ELSE value

Charge(delta) ==
  LET current == state.charge_end_threshold
  IN  IF "charge_end_threshold" \notin caps THEN Unsupported
      ELSE IF current = Unset               THEN Nothing
      ELSE Set("charge_end_threshold", Clamp(current + delta, 20, 100))

\* Mutated form of Ceiling: up to the end threshold itself.
CeilingAtEnd(end) == IF end = Unset THEN 100 ELSE end

Ceiling(end) == IF end = Unset THEN 100 ELSE end - 1

ChargeStart(delta) ==
  LET current == state.charge_start_threshold
      ceiling == Ceiling(state.charge_end_threshold)
  IN  IF "charge_start_threshold" \notin caps THEN Unsupported
      ELSE IF current = Unset                 THEN Nothing
      ELSE IF ceiling < 20                    THEN Panic
      ELSE Set("charge_start_threshold", Clamp(current + delta, 20, ceiling))

ForKey(key) ==
  CASE key = "q" -> [Nothing EXCEPT !.kind = "Quit"]
    [] key = "r" -> [Nothing EXCEPT !.kind = "Refresh"]
    [] key = "p" -> Gated("power_level",
                          After(<<"performance", "balanced", "power-saver">>, state.power_level))
    [] key = "f" -> Gated("fan_mode", After(<<"auto", "silent", "aggressive">>, state.fan_mode))
    [] key = "b" -> Gated("cooler_boost", Flipped(state.cooler_boost))
    [] key = "s" -> Gated("battery_saver", Flipped(state.battery_saver))
    [] key = "+" -> Charge(5)
    [] key = "-" -> Charge(-5)
    [] key = "]" -> ChargeStart(5)
    [] key = "[" -> ChargeStart(-5)
    [] OTHER     -> Nothing

-----------------------------------------------------------------------------
(* The event loop. *)

\* Prefers the daemon, and never changes its mind afterwards.
Connect ==
  /\ pc = "connect"
  /\ machine # NoBackend
  /\ source' = IF up THEN "daemon" ELSE "local"
  /\ caps' = IF up THEN CapsFromDict(CapsToDict(machine.caps)) ELSE machine.caps
  /\ pc' = "first"
  /\ UNCHANGED <<tree, machine, hw, up, state, action, footer>>

NothingDetected ==
  /\ pc = "connect"
  /\ machine = NoBackend
  /\ pc' = "quit"
  /\ UNCHANGED <<tree, machine, hw, up, source, caps, state, action, footer>>

\* Mutated form of AfterKey: only keys that write are followed by a snapshot.
AfterKeyIdle(kind) ==
  CASE kind = "Quit" -> "quit" [] kind = "Panic" -> "panicked" [] kind = "Set" -> "perform"
    [] OTHER -> "poll"

AfterKey(kind) ==
  CASE kind = "Quit" -> "quit" [] kind = "Panic" -> "panicked" [] kind = "Set" -> "perform"
    [] OTHER -> "snapshot"

Press(key) ==
  /\ pc = "poll"
  /\ action' = ForKey(key)
  /\ pc' = AfterKey(action'.kind)
  /\ footer' = IF action'.kind = "Unsupported" THEN Footer("failed") ELSE footer
  /\ UNCHANGED <<tree, machine, hw, up, source, caps, state>>

PollTimesOut ==
  /\ pc = "poll"
  /\ pc' = "snapshot"
  /\ action' = Nothing
  /\ UNCHANGED <<tree, machine, hw, up, source, caps, state, footer>>

\* What the setter and Backend::apply check before they write.
Accepted(profile) ==
  /\ \A a \in Attrs : profile[a] # Unset => B!Supports(a, profile[a])
  /\ B!AsksForThresholds(profile) => B!InRange(profile) /\ B!InOrder(profile, hw)

Written(a) ==
  CASE a = "power_level" -> ValueFor(machine.choices, action.asks.power_level)
    [] a = "fan_mode"    -> FanModeValue(action.asks.fan_mode)
    [] OTHER             -> action.asks[a]

\* MSI firmware couples the thresholds: the other one follows, ten points away.
Follow(h, a) ==
  CASE a = "charge_end_threshold" /\ h.charge_start_threshold # Unset ->
         [h EXCEPT !.charge_start_threshold = Clamp(h.charge_end_threshold - 10, 0, 100)]
    [] a = "charge_start_threshold" /\ h.charge_end_threshold # Unset ->
         [h EXCEPT !.charge_end_threshold = Clamp(h.charge_start_threshold + 10, 0, 100)]
    [] OTHER -> h

\* What the hardware comes to when it takes a value.
Takes(a, value) ==
  IF machine.name = "msi-ec" THEN hw' = Follow(B!KernelWrite(hw, a, value), a)
                             ELSE B!KernelTakes(hw, a, value) /\ hw' = B!KernelWrite(hw, a, value)

SetterRuns ==
  /\ source = "daemon" /\ up
  /\ Accepted(action.asks)
  /\ \E a \in {a \in Attrs : action.asks[a] # Unset} : Takes(a, Written(a))

Perform ==
  /\ pc = "perform"
  /\ SetterRuns
  /\ pc' = "snapshot"
  /\ action' = Nothing
  /\ footer' = Footer("ok")
  /\ UNCHANGED <<tree, machine, up, source, caps, state>>

\* Read-only, refused by polkit, refused by the backend, or failed in sysfs.
PerformFails ==
  /\ pc = "perform"
  /\ pc' = "snapshot"
  /\ action' = Nothing
  /\ footer' = Footer("failed")
  /\ UNCHANGED <<tree, machine, hw, up, source, caps, state>>

\* The daemon dies once it has written: done, and yet an error here.
PerformUnanswered ==
  /\ pc = "perform"
  /\ SetterRuns
  /\ up' = FALSE
  /\ pc' = "snapshot"
  /\ action' = Nothing
  /\ footer' = Footer("failed")
  /\ UNCHANGED <<tree, machine, source, caps, state>>

\* Mutated form of Expired: a message stays until there is another.
ExpiredNever(f) == f

Expired(f) == IF f.old THEN Footer("none") ELSE f

Readable == source = "local" \/ up

Snapshot ==
  /\ pc \in {"first", "snapshot"}
  /\ Readable
  /\ state' = IF source = "daemon" THEN StateFromDict(StateToDict(Reported)) ELSE Reported
  /\ pc' = "poll"
  /\ footer' = Expired(footer)
  /\ UNCHANGED <<tree, machine, hw, up, source, caps, action>>

\* Without a first snapshot there is nothing to show; later the last one stays.
SnapshotFails ==
  /\ pc \in {"first", "snapshot"}
  /\ ~Readable
  /\ pc' = IF pc = "first" THEN "quit" ELSE "poll"
  /\ footer' = Footer("failed")
  /\ UNCHANGED <<tree, machine, hw, up, source, caps, state, action>>

\* STATUS_LINGER has passed since the message was set.
StatusAges ==
  /\ footer.status # "none" /\ ~footer.old
  /\ footer' = [footer EXCEPT !.old = TRUE]
  /\ UNCHANGED <<tree, machine, hw, up, source, caps, state, pc, action>>

-----------------------------------------------------------------------------
(* Everyone else. *)

\* Whatever lands is something the machine and the kernel take.
OtherWrite(a, value) ==
  /\ a \in machine.caps
  /\ a = "power_level" => value \in machine.choices
  /\ Takes(a, value)
  /\ UNCHANGED <<tree, machine, up, source, caps, state, pc, action, footer>>

DaemonStartsOrStops ==
  /\ machine # NoBackend
  /\ up' = ~up
  /\ UNCHANGED <<tree, machine, hw, source, caps, state, pc, action, footer>>

Loop == (\E key \in Keys : Press(key)) \/ PollTimesOut

Next ==
  \/ Connect \/ NothingDetected \/ Loop
  \/ Perform \/ PerformFails \/ PerformUnanswered
  \/ Snapshot \/ SnapshotFails \/ StatusAges
  \/ \E write \in Others : OtherWrite(write[1], write[2])
  \/ DaemonStartsOrStops

Spec == Init /\ [][Next]_vars

\* The loop runs, every call over the bus returns, and time passes.  A user who types all
\* the time may keep the poll from ever timing out.
Fairness ==
  /\ WF_vars(Connect \/ NothingDetected)
  /\ WF_vars(Loop)
  /\ WF_vars(Perform \/ PerformFails \/ PerformUnanswered)
  /\ WF_vars(Snapshot \/ SnapshotFails)
  /\ WF_vars(StatusAges)

FairSpec == Spec /\ Fairness

-----------------------------------------------------------------------------
(* Type correctness; the client keeps the source it has. *)
TypeOK ==
  /\ \E m \in Machines : tree = m.tree
  /\ [a \in Attrs |-> Reported[a]] \in HwProfile
  /\ up \in BOOLEAN
  /\ source \in {"none", "daemon", "local"}
  /\ source # "none" => caps = machine.caps
  /\ [a \in Attrs |-> state[a]] \in HwProfile
  /\ pc \in {"connect", "first", "poll", "perform", "snapshot", "quit", "panicked"}
  /\ action.kind \in {"Ignored", "Quit", "Refresh", "Set", "Unsupported", "Panic"}
  /\ action.asks \in HwProfile
  /\ footer \in [status : {"none", "ok", "failed"}, old : BOOLEAN]

(* What a key asks for, the daemon takes.  Thresholds are always in range,  *)
(* and on a screen that is not stale a start threshold stays below the end, *)
(* and no attribute is asked for that the machine lacks.  (Lowering the end *)
(* onto the start is refused, and so is a level the firmware has no name    *)
(* for.)                                                                   *)
KeysAreTaken ==
  pc = "perform" =>
    /\ B!InRange(action.asks)
    /\ /\ state = Reported
       /\ action.asks.power_level = Unset
       /\ action.asks.charge_end_threshold = Unset
       => Accepted(action.asks)

(* A level set with a key is the level the next snapshot shows, on every    *)
(* firmware that has a name for it at all: no fallback is written instead.  *)
LevelsReadBack ==
  [][ \A level \in PowerLevel :
        Perform /\ action.asks.power_level = level
          /\ (\E name \in machine.choices : Parse(name) = level)
        => Reported'.power_level = level ]_vars

(* A snapshot arrives as it was read: on screen right after one is what the *)
(* machine reports, missing attributes missing.                             *)
SnapshotsAreFaithful ==
  [][ pc' = "poll" /\ state' # state => state' = Reported ]_vars

(* The screen catches up: once the hardware rests and the client can read   *)
(* it, the screen shows it for good, even if the user keeps typing.         *)
ScreenCatchesUp ==
  <>[][hw' = hw]_vars /\ <>[]Readable
    => <>[](pc \in {"quit", "panicked"} \/ state = Reported)

(* "Clamped one step below the end threshold": a key that cannot move the   *)
(* start threshold stops moving it, and the client goes on.                 *)
KeysNeverPanic == pc # "panicked"

\* What the program writes for a value, and whether it writes a word at all.
Words(a, value) ==
  CASE a = "power_level" -> Range(Candidates(value))
    [] a = "fan_mode"    -> {FanModeValue(value)}
    [] OTHER             -> {value}

Known(a, word) ==
  CASE a = "power_level" -> \E level \in PowerLevel : word \in Words(a, level)
    [] a = "fan_mode"    -> \E mode \in FanMode : word \in Words(a, mode)
    [] OTHER             -> TRUE

\* The chips there of these names, without any there that is preferred to them.
Preferred(names) ==
  {chip \in Range(tree.chips) :
     \E k \in DOMAIN names :
       /\ chip.name = names[k]
       /\ \A j \in 1..(k - 1) : \A other \in Range(tree.chips) : other.name # names[j]}

FitsByte(milli) == milli # Unset /\ milli > -1000 /\ milli < 256000

WithinADegree(milli, degrees) == milli - 1000 * degrees \in -999..999

GaugeIsHonest(gauge, reading, names) ==
  IF machine.name = "msi-ec"
    THEN IF reading \in DOMAIN tree.realtime /\ tree.realtime[reading] \in U8
           THEN gauge.word = "value" /\ gauge.temp = tree.realtime[reading]
           ELSE gauge.word = "unavailable"
    ELSE \/ Preferred(names) = {} /\ gauge.word = "unavailable"
         \/ \E chip \in Preferred(names) :
              IF FitsByte(chip.temp1)
                THEN gauge.word = "value" /\ WithinADegree(chip.temp1, gauge.temp)
                ELSE gauge.word = "unavailable"

(* "Reads as such rather than as zero": on a screen that is not stale, a row *)
(* has a value just where the hardware reports one in words the program     *)
(* itself would write, and it is one that the program writes so; a gauge    *)
(* has a temperature just where the chip asked, one of a name preferred to  *)
(* all others there, reports one that is neither below zero nor beyond a    *)
(* byte, and it is the chip's to within a degree; fans are listed, stopped  *)
(* ones too, unless no chip counts a first one.                            *)
ScreenIsHonest ==
  source # "none" /\ state = Reported =>
    /\ \A a \in Attrs :
         LET row == Row(state, caps, a)
         IN  IF a \in machine.caps /\ hw[a] # Unset /\ Known(a, hw[a])
               THEN row.word = "value" /\ hw[a] \in Words(a, row.value)
               ELSE row.word # "value"
    /\ GaugeIsHonest(Gauges(state).cpu, "cpu_temp_c", CpuHwmon)
    /\ GaugeIsHonest(Gauges(state).gpu, "gpu_temp_c", GpuHwmon)
    /\ Fans(state) = state.fan_rpm <=>
         \E chip \in Range(tree.chips) :
           /\ chip.fans # << >> /\ chip.fans[1] # Unset
           /\ machine.name = "msi-ec" => chip.name = "msi_wmi_platform"

(* A row is bold just where a key can reach a file: under the MSI driver's  *)
(* own directory if that is there, whatever the kernel offers beside it,    *)
(* and for each of the two thresholds by itself, of the first battery only. *)
RowsMatchTheMachine ==
  source # "none" =>
    \A a \in Attrs :
      ~Row(state, caps, a).muted <=>
        \/ a = "power_level"
        \/ a \in DOMAIN EcFile /\ {"shift_mode", EcFile[a]} \subseteq tree.msi_ec
        \/ \E i \in DOMAIN tree.supplies :
             /\ tree.supplies[i].type = "Battery" /\ a \in tree.supplies[i].files
             /\ \A j \in 1..(i - 1) : tree.supplies[j].type # "Battery"

(* Drawing never panics: a gauge stays within its scale, whatever a sensor  *)
(* reports, and is red at the end of it.                                    *)
GaugesFit ==
  source # "none" /\ state # NoChange =>
    \A g \in {"cpu", "gpu"} :
      LET gauge == Gauges(state)[g]
      IN  gauge.word = "value" =>
            gauge.percent \in 0..100 /\ (gauge.percent = 100 => gauge.colour = "red")

(* "A status clears itself after a while": once reads succeed and no key    *)
(* asks for anything, the key hints come back and stay.                     *)
FooterClears ==
  <>[]Readable /\ <>[][pc' # "perform" /\ action'.kind # "Unsupported"]_vars
    => <>[](pc \in {"quit", "panicked"} \/ FooterLine(footer.status, source) \in {"keys", "read-only"})
=============================================================================
