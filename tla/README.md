# omarchy-power in TLA+

A model of omarchy-power: `omarchy-powerd`, the root daemon that writes laptop
hardware through sysfs; `omarchy-power`, the terminal client; and
`omarchy-power autoprofile`, the watcher of the focused window. TLC checks the
modules on small machines; TLAPS proves the main safety properties for every
value of the constants.

    tlc -workers 2 -config daemon.cfg MCDaemon.tla
    tlapm DaemonProofs.tla

Paths below are relative to `src/crates/`.

## The system

| Component | State | Operations | What makes it correct |
|---|---|---|---|
| Decision: `core/src/types.rs`, `daemon/src/config.rs`, `decide`/`overlay` in `daemon/src/engine.rs` | none; the parsed configuration | profile name, power source and thermal verdict → one `HwProfile` | the overlay wins over the profile, the guard over both |
| Thermal guard: `daemon/src/engine.rs:65-122` | tripped, cool_since | `update(temp, now)` | no release before a full cool-down, release after one |
| Engine: `daemon/src/engine.rs:124-221` | inputs, guard, `applied`, all behind one mutex | `set_ppd_profile`, `set_on_battery`, `tick_thermal`, `apply_manual`, each automatic one ending in `reconcile` | `applied` tells the truth; errors are retried; manual changes survive; tripped fans are loud |
| Backends: `core/src/backends/*.rs`, `core/src/battery.rs`, `core/src/sysfs.rs` | the sysfs attributes | probe, `read_state`, `apply` | writes in an order the kernel accepts; a level reads back as it was written; an absence is no zero |
| Detection: `core/src/detect.rs` and the two probes | none | sysfs tree → backend, names, capabilities | the interface that reaches more is preferred |
| Daemon process: `daemon/src/main.rs` | how far start-up has come | ask polkit and systemd, publish, spawn; die and start again | what clients can read is there before they can call |
| Watchers: `daemon/src/watch.rs` | zbus proxies, caches and streams | follow PPD's profile and UPower's power source | no change is missed for good |
| D-Bus interface: `daemon/src/iface.rs`, `auth.rs`, `conflicts.rs` | polkit reachable or not, conflicting units | six setters, `snapshot`, properties | nothing is written without polkit's consent |
| GPU cache: `daemon/src/gpu.rs`, `core/src/gpu.rs` | the last reading and its time, behind a mutex | `read` | fresh answers, few questions to the driver, nobody waits for ever |
| Wire: `core/src/wire.rs` | none | encode, decode | absent stays absent |
| Terminal client: `tui/src/{main,actions,source}.rs` | the snapshot on screen, the source chosen at start, the footer | keys, snapshots, refresh | the screen catches up; keys ask for legal values; the client goes on |
| Drawing: `tui/src/ui.rs` | none | snapshot → rows, gauges, fans, footer | what is drawn is what is |
| Autoprofile: `tui/src/autoprofile.rs` | one PPD hold | follow the window | one hold at a time, for the window in focus, none lost |
| Dump: `tui/src/dump.rs` | none | copies sysfs files for a bug report | not modelled |

How they interact. power-profiles-daemon (PPD), UPower and the thermal
interval each drive a tokio task of the daemon. A task edits the inputs under
the mutex, releases it, takes it again to decide and to set `applied`, releases
it, and writes sysfs with no lock held; on an error it takes the mutex a third
time and forgets `applied`. D-Bus setters wait for polkit, then write through
the same backend, concurrently and with no lock at all. Snapshots share a cached
GPU reading whose mutex is held while `nvidia-smi` runs, on the threads the
thermal task needs too. The terminal client acts on a snapshot up to a second
old, or much older if the daemon has gone. The autoprofile watcher never talks
to the daemon: it holds a profile in PPD, which the daemon follows.

The hard parts are therefore the interleavings of the tasks with each other and
with clients, what crosses the start of a watcher, partial failures in the middle
of an apply, death between any two steps, state believed but not read back
(`applied`, the caches, the screen, the hold), the order of the two threshold
writes, and the boundaries of ranges. Every one is listed with its line under
`hazards` in PROJECT.json.

## Modules

    HwProfile -+- Thermal -+- ThermalGuard - MCThermalGuard, ThermalGuardProofs
               |           +- ThermalLemmas
               +- Backend --- Engine (with Thermal) - MCEngine
               |                |- EngineProofs - ThresholdProofs
               |                +- Daemon - MCDaemon, DaemonProofs (with EngineProofs)
               +- Firmware -- Detect -- Screen -- Tui (with Backend) - MCTui, TuiProofs
    ProfileHold --- AutoProfile - MCAutoProfile, AutoProfileProofs
    GpuCache - MCGpuCache, GpuCacheProofs

**HwProfile** holds the vocabulary (`HwProfile`, an attribute being `Unset` for
Rust's `None`), the pure decision (`ForProfile`, `Overlay`, `Decide`) and the
configuration that is built in (`DefaultConfig`). A configuration is a constant,
constrained only as serde constrains it: nothing says `low_c < high_c`.

**Thermal** is `ThermalGuard::update` as a function. The code keeps an `Instant`
and only ever compares its age with the cool-down; the model keeps the age,
capped at the cool-down. **ThermalGuard** feeds it readings (also missing ones)
after arbitrary gaps. A missing reading neither stops nor restarts the
cool-down in the code, so it counts towards it; the properties say as much.

**Backend** is `Backend::apply` as a list of steps, each one sysfs access:
`Todo` is the order of attributes, `"check"` the validation of the thresholds
against the hardware, `"order"` the reading that decides which threshold goes
first. The two backends differ only in the constant `Machine` (levels the
firmware has a name for, capabilities). The kernel is external: it refuses a
threshold write that would leave start at or above end, as the comment on
`battery::apply` says.

**Engine** is the daemon's core. Its variables `inputs`, `guard` and `applied`
are the `State` behind the mutex, `hw` the attributes, `jobs` where each task
and client is:

| Action | Code |
|---|---|
| `SetPpdProfile`, `SetOnBattery`, `TickThermal` | the three handlers up to the first unlock (`with_inputs`, `tick_thermal`) |
| `NothingToDo`, `StartApply` | `reconcile` under the mutex: early return, or `applied` is set |
| `Write`, `WriteFails`, `Unsupported`, `CheckThresholds`, `OrderThresholds` | one step of `apply`, no lock held |
| `Forget` | `reconcile` after an error: `applied = None` |
| `ApplyManual` | a D-Bus setter after polkit has agreed |
| `Crash` (if `MayCrash`) | the process dies between any two of these; the hardware keeps what was written, all else starts afresh |

What a watcher may report is arbitrary here (any name, any order, also nothing
at all). `author` (who wrote an attribute last), `overlapped` (the last
automatic apply was started while another was in flight) and `started` (the last profile an apply
started for) are history for the properties.

**Daemon** puts the process around the engine. `phase` is how far `main` has
come (`Start`, `AskPolkit`, `AskSystemd`, `Publish`, which stands for serving the
object, claiming the name and spawning the tasks; `Dies` anywhere). A watcher
is a record of where it is (`load`: the proxy asks for the current value;
`first`, `subscribe`, `listen`; `deaf` when no proxy could be made) and of what
zbus's property cache has for it. `world` is the property of the service it
follows, which is announced when it changes (`Announce`), and which may go and
come back unannounced (`Leave`, `Return`). A setter is `CallSetter`, then `Granted`
or `Denied` whenever polkit answers. What the engine is told is now what the cache
holds, not anything; that all of it is still an Engine is `ImplementsEngine`.

**GpuCache** is `GpuReader` and what it reads: `Arrive` (a call of `snapshot`),
`Begin` (a thread takes it up), `Hit`, or `Miss` with `DriverLooks` and `Store` while
the mutex is held; `Threads` bounds who can wait, and the thermal task needs a
thread as well (`ThermalRuns`). Time passes in whole seconds. `Parse`, the three
keys on the wire and the line that is drawn are functions.

**Firmware** has the names: `Candidates`, `Parse`, `ValueFor`, `Drivable` of
platform_profile with MSI's shift modes beside them, and the dictionary of
`wire.rs`. **Detect** goes from a sysfs tree (a record: the MSI driver's files, the
platform-profile devices, supplies, chips) to a backend, and from there to a
snapshot: `ProbeMsi`, `ProbePlatformProfile`, `DetectIn`, `ReadState` with every
sensor and what integer division, a byte and a gap in the numbering make of it.
**Screen** is what is drawn of a snapshot, as data. **Tui** is the client on top:
`machine` is `DetectIn(tree)`, `Connect` (the source is chosen once), `Press`
(`ForKey`), `PollTimesOut`, `Perform`/`PerformFails`/`PerformUnanswered` (the setter,
here atomic, since Engine has its steps; its reply may be lost after it wrote),
`Snapshot`/`SnapshotFails`, `StatusAges`; around it others write and the daemon comes
and goes. On MSI the firmware moves the other threshold along (`Follow`).

**ProfileHold** is the abstract promise of the autoprofile watcher: one slot,
emptied before it is filled, filled only with what the rules say of a window
that has had the focus. **AutoProfile** is the watcher: `Connect` (events
subscribed), `FirstWindow`/`NoFirstWindow` (the query), `ReadEvent`, `Follow`,
then the two blocking calls `Release` and `TakeHold`/`HoldRefused`, with window
switches and dropped holds between any two. It implements ProfileHold with
`held <- {h.profile : h \in holds}`. PPD is external: a hold lives until it is
released, until the user chooses by hand, until PPD restarts, or until its owner
leaves the bus; a cookie may be used again once its hold is gone. A class is
a sequence of pieces of text, a pattern one whose asterisk, if any, ends it.

## Runs

| Run | Expectation | Question |
|---|---|---|
| thermal_guard | pass | `CooldownIsHonest`, `NeverReleasedEarly`; `CoolMachineIsReleased` (liveness) |
| engine | pass | all tasks and a client in every interleaving, with a crash anywhere and a write that may fail: `BeliefIsCurrent`, `BeliefMatchesHardware`, `DaemonKeepsFansLoud`, `ManualChangeSurvives` |
| charge_pair | pass | every pair of thresholds over every pair in hardware: `KernelNeverRefuses`, `ValidPairsLand` |
| daemon | pass | start-up, a watcher and its service, polkit, failing writes, restarts: `NoWriteWithoutConsent`, `ConflictsAreKnown`, `InputsAreCurrent`, `SettledHardware`, refinement `ImplementsEngine`, and under fairness `EventuallyApplied` and `HardwareFollowsSystem` |
| gpu | pass | `NoStaleAnswer`, `DriverIsAskedRarely`, `FiguresAreTheDrivers`; `EveryCallEnds`, `ThermalLoopGoesOn` (liveness) |
| autoprofile | pass | `NoHoldIsLost`, `SettledOnFocus`, `SpecificRuleDecides`, refinement `OneHoldAtATime` |
| tui | pass | from the tree to the screen and back: `KeysAreTaken`, `LevelsReadBack`, `SnapshotsAreFaithful`, `ScreenIsHonest`, `RowsMatchTheMachine`, `GaugesFit`; `ScreenCatchesUp`, `FooterClears` (liveness) |
| engine_race, engine_hushed, engine_unsupported, engine_overlay, tui_panic | violation | see Findings |

Each run checks a type invariant too, save charge_pair and the violations.

### Bounds, and why they are enough

- *thermal_guard*: two degrees between the marks, readings below, on, between
  and above both, missing ones too; a cool-down of 10 s with gaps of 1, 2 and
  5 s, so a cool-down takes two to ten ticks and may overshoot.
- *engine*: three tasks (all there are) and one client. One profile is loud, one
  quiet, and the overlay touches only the level, so the decision differs in
  exactly the attributes the properties compare. The MSI machine lacks a cooler
  boost, which the client asks for, and its battery saver fails to be written at
  times, so a client meets both errors; no profile sets either. (Profiles whose
  writes fail are in daemon.) Cool-down of two ticks. More clients add nothing to
  a property about the daemon's own writes, which the proofs cover anyway for any
  number.
- *charge_pair*: thresholds 20, 50, 51, 80, 100 (bounds, neighbours, in between),
  out of range on either side (19, 101) and left alone, against each ordered
  pair the hardware may hold: every case of raising, lowering, overlapping, equal.
- *daemon*: PPD's watcher with PPD absent at times, the thermal loop with the guard
  switched off, so that it does nothing but retry, and one client asking for a
  limit or a fan mode, one request for each of polkit's two actions. The level may fail to be written at any
  time. The two watchers are the same code, and engine has all three tasks. Of
  three units systemd knows, one counts, one is not enabled, one is a stranger.
- *gpu*: three calls on two threads, so that callers fill them; a time to live of
  2 s, so a reading can be young, old and just in between; a driver that at times
  has no limit to report, at times nothing at all.
- *autoprofile*: a pattern, a class it also matches with a rule of its own, a class
  listed with an asterisk as well, whose profile PPD refuses, the empty class, no default; up to three waiting
  events (`MaxEvents`, a bound on switches) and two cookies, so one is reused
  while another is in use.
- *tui*: firmware offering each set of six of the kernel's seven names (`quiet`
  stands for `cool`, which is treated alike), also those that cannot be driven; an
  MSI machine with the kernel's interface beside its own, lacking a file and a
  sensor and reporting 101 degrees; class devices of which the first has no
  profile, with a sensor at each boundary of the conversion (missing, just below
  zero, at the colours' edge, past a hundred, past a byte), chips out of the order of
  preference and two of one name, a battery with fewer thresholds than the one after
  it, and an end threshold off the grid of fives; a machine with one level and both thresholds. All keys that
  are bound.
- The violations use the smallest instance that shows them: engine_unsupported is
  the built-in configuration on a bare platform profile with ticks of five
  seconds, tui_panic an MSI machine at 20/30.

`CHECK_DEADLOCK FALSE` is set where the system may really stop: in tui and
tui_panic the client quits. Every other run checks for deadlock.

### Fairness

- ThermalGuard: the tokio interval fires again and again (WF of a tick).
- Engine and Daemon: the same for the thermal task; every task that can run is
  polled (WF of `Reconcile`, `Apply`, and of what a watcher has to do); a write
  tried again and again succeeds in the end (SF of `Write` for attributes in
  `Faults`). The last is an assumption about hardware: without it no retry helps.
  Nothing makes polkit answer, a service report, a client call, or a daemon that
  is starting finish; `HardwareFollowsSystem` is about a daemon that goes on
  running.
- GpuCache: the runtime takes up ready tasks and the mutex its waiters in turn (SF:
  both are taken away again and again by others), `nvidia-smi` ends, the interval
  fires.
- Tui: the loop takes *some* turn (WF of key press or time-out together: a user
  who keeps typing prevents the time-out for ever), calls return, time passes.
- AutoProfile has only safety properties.

## Proofs

All in modules of their own, from the named assumptions of the modules they
extend (types of configuration and constants, `Unset`/`None` is no value). Where a
property needs more, the assumption stands in the theorem itself: those of
ThresholdProofs and those named below.

- `ThermalGuardProofs`: type correctness, `CooldownIsHonest`, `NeverReleasedEarly`,
  for every configuration, also with `low_c > high_c`, and every spacing of ticks.
  `CooldownIsHonest` is inductive together with the types; lemmas about `Aged`,
  `CoolDown` and `Update` are in `ThermalLemmas`.
- `EngineProofs`: type correctness, `BeliefIsCurrent`, `BeliefMatchesHardware`,
  `DaemonKeepsFansLoud`, for any machine, configuration, tasks and clients, crashes
  included. `BeliefMatchesHardware` speaks of moments with nothing in flight and is not
  inductive. `IInv` says what is true half way through an apply, once one was started
  alone: at most one automatic apply is in flight (`OneInFlight`); it carries
  the profile in `applied` (`CarriesBelief`); and each attribute of `applied` is in
  the hardware, still to come in that apply's list, or overwritten by a client
  (`Accounted`). That a list only shrinks from the front in the order of `Todo`
  (`WellOrdered`) makes "still to come" mean something. `DaemonKeepsFansLoud`
  then follows from `BeliefIsCurrent` and the last word `Decide` gives the guard.
  `ManualChangeSurvives` is false where an apply can fail (engine_unsupported), so
  its theorem assumes `DecisionsLand`: what the configuration can decide is
  supported, writes without failing and includes no threshold, whose check can
  refuse. The invariant `NothingForgotten` then has every automatic apply ask for
  nothing but writes that land, so `applied` is still what was last started and
  `reconcile` starts no apply for the same decision twice. Clients are free to fail.
  From it follows, with `AskInv` (a worker writes only what its profile asks for, so
  a client is the author only of what some request asks for), what finding 1 needs to
  happen: `TrippedNeedsOverlap` proves `TrippedFansAreLoud` for clients that leave the fans
  alone and decisions that land, unless the last apply was started into another.
  `OverlayLosesOnlyItsStart` does the same for finding 4: an overlay without a start
  threshold wins.
- `ThresholdProofs`: `KernelNeverRefuses` on hardware whose thresholds, where it has
  both, can be read and are in order at boot (`BootIsReadable`), for one writer
  (`NeverRefused`) and for all tasks with clients that leave the limits alone, unless the
  last automatic apply was started into another (`RefusalNeedsOverlap`). The property is
  about the next write; `PairInv` says of an apply in progress, while no two are at the
  thresholds (`Calm`), that either no threshold has been written and the check it has just
  passed still holds, or that every write left over is one the kernel takes in the order
  chosen (`Landing`); it also keeps the pair in order when there is no calm, so that a
  restart, or an apply that starts alone, can begin from it. The heart is the lemma
  `OrderLands`: raising writes the end first, lowering the start, and both halves fit. Two
  writers at once break it, which is a listed hazard.
  `ValidPairsLand` needs a machine that has, and writes without failing, what its decisions
  ask for (`DecisionsFit`). `LandInv` then says that an apply carries some decision, that it
  fails over a senseless pair alone, and that nothing but such a pair is left unapplied at
  rest; that what was applied is in the hardware is `BeliefMatchesHardware`. It is proved of
  all tasks outside an overlap (`LandingNeedsNoOverlap`) and of one task outright (`PairsLand`).
  If every decision sets both limits in order or neither (`LimitsMakeSense`), no apply fails:
  then `ManualChangeSurvives` and `TrippedFansAreLoud` hold of configurations with charge
  limits too, which `ManualSurvives` and `TrippedNeedsOverlap` exclude, again outside an
  overlap (`RepeatNeedsOverlap`, `LoudWithLimits`), or of one task (`LimitsSurvive`).
- `DaemonProofs`: type correctness of the process; `ImplementsEngine`, by mapping each
  step to a step of Engine or a stutter; `InputsAreCurrent`, from `WatchInv` (what a
  cache holds is what an audible service reports, and a stream without news has been
  followed); `NoWriteWithoutConsent`, from `ConsentInv` (what is asked of polkit is the
  action the change belongs to, and a call under way carries the consent to that
  very profile; before polkit has been asked nobody can call); `ConflictsAreKnown`,
  for any answer of systemd (`ConflictsAsked`: the question is put before the name is
  claimed). Because the daemon implements the engine, the engine's theorems are the
  daemon's (`DaemonBelief`), and with `InputsAreCurrent` they come to `SettledHardware`:
  a daemon at rest has the hardware in what PPD's profile and the power source call
  for, from the services through the cache, the lock scopes and the writes. That the
  daemon comes to rest is liveness and stays with TLC. `HardwareSettled` assumes an
  overlay without a start threshold, which `overlay` drops (finding 4). `SettledForGood`
  leaves out that something is believed applied: where decisions land and limits make
  sense, a daemon at rest has not given up. `DaemonLimits` carries the theorems about the
  thresholds over.
- `GpuCacheProofs`: type correctness with the mutex's exclusion, `NoStaleAnswer`,
  `DriverIsAskedRarely`, for any calls, threads, rows and time to live. The invariant
  compares ages: a reading in the cache, or on its way out of `nvidia-smi`, was true
  no longer ago than its own age and the second it may take to print.
  `FiguresAreTheDrivers` holds by computation, with no induction: the lemmas follow one
  figure through `Parse`, the rounding of watts, the three keys and the line drawn.
- `AutoProfileProofs`: type correctness, `NoHoldIsLost`, the refinement
  `OneHoldAtATime`, `SettledOnFocus`, `SpecificRuleDecides`, for any rules, classes and
  queue length. `NoHoldIsLost` needs to know that a profile is only asked for when no
  hold is kept (`AsksWhenFree`); the refinement also that what is asked for is what
  the rules say of a window that had the focus, also for events still waiting
  (`FollowsWindows`). `SettledOnFocus` speaks of a watcher at rest; `FocusInv` says of
  every other moment that the last event waiting, or else what is wanted, is the
  window in focus (`LastIsFocus`). `SpecificRuleDecides` says which
  rule that comes to without the code's `max_by_key`: every other rule that matches is
  shorter, the one exception being a class and the same text with an asterisk, which
  tie. That a best rule exists at all (`BestExists`) comes from the well-foundedness of
  the naturals, and that no others tie (`BeatenIsLess`) from both being beginnings of the
  class.
- `TuiProofs`: `KeysAreTaken`, `LevelsReadBack`, `SnapshotsAreFaithful`, for every sysfs
  tree whose thresholds are percentages and whose platform profile offers names the
  kernel documents. `TuiInv` carries from the key to the call what the key asked for
  (`Asks`: one attribute the client was told of, in its range, a start below the end
  on screen) and that the screen has only percentages for thresholds.
  `NamesReadBack` and `WireRoundTrip` are the lemmas about names and dictionary.
  `ScreenInv` adds the client's types and that a temperature on screen is missing or
  a byte, from which `TypeOK` and `GaugesFit` follow. `DrawnInv` adds that a client
  with a source has a machine, and that what detection has not found has no value;
  from it follow `RowsMatchTheMachine` and `ScreenIsHonest`, for any tree: any number of
  supplies, chips (also several of one name) and fans. Their lemmas say what the
  lookups of detection come to: `ChargeFiles` (the battery with none before it),
  `PreferredChip` (the search by names ends at a chip nothing there is preferred to),
  `MilliFits` (division towards zero and a byte), `UpToTheGap` and `FlattenedIsEmpty` (a
  list of fans is empty just if no chip counts a first one). The last is about a
  definition by recursion; it argues by a least counterexample, which
  `FirstIsLeast` provides from the well-foundedness of the naturals.
  `PanicNeedsLowStart` says where finding 5 cannot happen (`LimitsStayApart`): a start of
  20 or more, below the end, on hardware and screen (`ApartInv`) leaves the clamp a range.

Every safety invariant and action property of a passing run is a theorem, with the
assumptions named above. Only model-checked: the liveness properties
(`CoolMachineIsReleased`, `EventuallyApplied`, `HardwareFollowsSystem`, `EveryCallEnds`,
`ThermalLoopGoesOn`, `ScreenCatchesUp`, `FooterClears`), which rest on fairness, and so
on what is enabled, which the prover does not reason about.

## Findings

1. **engine_race**. `reconcile` applies with the mutex released, so two tasks can be
   in `apply` at once and the older decision may write last: tripped, quiet, and
   `applied` says loud, so no tick repairs it. Hence the proviso `~overlapped` in
   `BeliefMatchesHardware`, `DaemonKeepsFansLoud`, `SettledHardware` and
   `HardwareFollowsSystem`. Where clients leave the fans alone and decisions land, it takes
   such an overlap, and the next apply started alone mends it (`TrippedNeedsOverlap`,
   `LoudWithLimits`).
2. **engine_hushed**. `reconcile` compares with `applied`, not with the hardware. A
   client's quiet fan mode silences later trips whose decision equals the last one.
3. **engine_unsupported**. On a machine that lacks what a profile asks for (any
   without MSI's fan modes, under the built-in profiles), every apply ends in an
   error, `applied` is cleared, and the next tick starts over: the level a user
   set by hand is undone every five seconds. Where everything decided can be written,
   it does not happen (`ManualSurvives`); with charge limits that make sense it takes an
   overlap (`RepeatNeedsOverlap`).
4. **engine_overlay**. `overlay` forgets `charge_start_threshold`, and nothing else
   (`OverlayLosesOnlyItsStart`).
5. **tui_panic**. `charge_start` clamps to an empty range when the end threshold is
   20. `-` lowers the end that far, and firmware that keeps the pair ten apart
   (`core/src/backends/msi.rs:6-9`) moves the start along; the next `[` or `]` panics.
   Independent thresholds lead there too if the start boots below 20, where the kernel
   accepts an end of 20; otherwise nothing does (`PanicNeedsLowStart`).

Also met, without a run of its own:

- With no known profile the decision after a release is empty, and an empty
  decision is never applied: forced fans stay forced.
- `foo*` beats an exact rule `foo` for the class `foo` (both match, lengths tie,
  and `max_by_key` keeps the last), against the name of the test
  `an_exact_class_wins_over_the_pattern_that_also_matches`, which tries a shorter
  pattern. `SpecificRuleDecides` states the tie as the code decides it; by its
  theorem it is the only case.
- A hold dropped by a restart of PPD is not taken again while the rules want the
  same profile, and a refused one not before the next event; starting the watcher
  with nothing in focus holds no default.
- On a firmware without a low-power name the `p` key goes from balanced to
  balanced and never on; lowering the end threshold onto the start is a key press
  the daemon refuses.
- A backend writes earlier attributes before it finds a later one unsupported,
  although `types.rs:33-35` says every capability is checked before a write.
- A row says "unsupported" of a switch that merely cannot be read. The hint that
  the client is read-only stays when the daemon starts later: the source never
  changes.
- A class device all of whose names are unknown hides an ACPI file that could be
  driven. `hwmon_by_name` takes the first chip in the order the kernel lists them,
  which nothing sorts; `HwmonByName` is therefore some chip of the name, always the
  same one, and the proofs hold whichever it is.

## Not modelled

- zbus's property cache is external: that a change arrives in order, and that a
  stream begins with the cached value, is taken from how `watch.rs` uses it. The
  loss of the bus connection, which ends a stream for good, is left out, and so is an
  announced change whose value cannot be read, which `watch.rs` only logs.
- A threshold that cannot be read while the other can (the order of writes is then a
  guess by design), and one beyond a hundred.
- In Engine and Daemon, firmware that moves one threshold when the other is written;
  Tui has it. So `BeliefMatchesHardware` and `ValidPairsLand` speak of hardware that
  keeps what is written.
- An `nvidia-smi` that never ends (nothing in the code bounds it), and a panic while a
  mutex is held (the code recovers a poisoned lock).
- Text: TOML, rules and event lines, D-Bus signatures, messages, command lines, the
  choice of the bus with `--session`.
- Drawing beyond the data: layout, wording, the header, the line about conflicting
  units. `dump.rs`, which copies files once.
- Patterns with an asterisk anywhere but at the end; the order of the kernel's list
  of chips changing while the client runs.

## What could come next

A second writer in charge_pair, once the code promises something for it; the bus
connection lost and taken up again, once the daemon does.
