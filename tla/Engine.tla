------------------------------- MODULE Engine -------------------------------
(***************************************************************************)
(* The engine of crates/daemon/src/engine.rs and everyone who calls it.     *)
(*                                                                         *)
(* Three automatic tasks run in parallel on the daemon's thread pool: the  *)
(* watcher of power-profiles-daemon, the watcher of the power source and    *)
(* the thermal loop.  Each edits the inputs under the mutex, lets go of    *)
(* it, reconciles under the mutex, lets go again, and only then writes the *)
(* hardware, one sysfs file at a time.  D-Bus clients write through the    *)
(* same backend without touching the mutex at all.                         *)
(*                                                                         *)
(* author, overlapped and started are history, for the properties only.    *)
(***************************************************************************)
EXTENDS Backend, Thermal

CONSTANTS
  Tasks,        \* the automatic tasks that run
  Clients,      \* D-Bus calls that may be in progress at once
  Requests,     \* the changes clients ask for
  PpdProfiles,  \* what power-profiles-daemon may report; Unset while it is away
  Readings,     \* what the CPU sensor may report; Unset is a failed read
  Gaps,         \* seconds that may pass between two thermal ticks
  Faults,       \* attributes whose sysfs write may fail
  Boot,         \* states the hardware may be in when the daemon first starts
  MayCrash      \* whether the daemon may die and be started again

ASSUME TasksAreTheDaemons == Tasks \subseteq {"power_profiles", "power_source", "thermal_loop"}
ASSUME ClientsAreNotTasks == Clients \cap Tasks = {}
ASSUME RequestsAskSomething == Requests \subseteq HwProfile \ {NoChange}
ASSUME PpdProfilesAreNames == PpdProfiles \subseteq Option(Names)
ASSUME ReadingsAreOptionalU8 == Readings \subseteq Option(U8)
ASSUME GapsAreSeconds == Gaps \subseteq Nat
ASSUME BootIsHardware == Boot \subseteq HwProfile
ASSUME MayCrashIsBoolean == MayCrash \in BOOLEAN

VARIABLES
  inputs, guard, applied,  \* the State behind the mutex
  hw,                      \* what the sysfs attributes show
  jobs,                    \* where each task and client is
  author,                  \* who wrote each attribute last
  overlapped,              \* the last automatic apply was started into another
  started                  \* the profile of the last automatic apply

vars == <<inputs, guard, applied, hw, jobs, author, overlapped, started>>

Workers == Tasks \cup Clients

Authors == {"boot", "daemon", "client"}

\* reconcile: the inputs are edited and the mutex is free again.
\* apply: inside Backend::apply, with todo still to come.
\* forget: Backend::apply has failed and applied is about to be cleared.
Job ==
  [ at : {"idle", "reconcile", "apply", "forget"}, profile : HwProfile, todo : Seq(Steps) ]

Idle == [at |-> "idle", profile |-> NoChange, todo |-> << >>]

Applying(profile) == [at |-> "apply", profile |-> profile, todo |-> Todo(profile)]

\* Inputs::default(), before anyone has reported anything.
NewInputs == [ppd_profile |-> Unset, on_battery |-> FALSE, thermal_tripped |-> FALSE]

Init ==
  /\ inputs = NewInputs
  /\ guard = NewGuard
  /\ applied = Unset
  /\ hw \in Boot
  /\ jobs = [w \in Workers |-> Idle]
  /\ author = [a \in Attrs |-> "boot"]
  /\ overlapped = FALSE
  /\ started = Unset

-----------------------------------------------------------------------------
(* The three handlers, up to the point where they call reconcile. *)

GoReconcile(t) ==
  /\ t \in Tasks
  /\ jobs[t].at = "idle"
  /\ jobs' = [jobs EXCEPT ![t] = [Idle EXCEPT !.at = "reconcile"]]
  /\ UNCHANGED <<applied, hw, author, overlapped, started>>

SetPpdProfile(name) ==
  /\ GoReconcile("power_profiles")
  /\ inputs' = [inputs EXCEPT !.ppd_profile = name]
  /\ UNCHANGED guard

SetOnBattery(on_battery) ==
  /\ GoReconcile("power_source")
  /\ inputs' = [inputs EXCEPT !.on_battery = on_battery]
  /\ UNCHANGED guard

\* The sensor is read before the mutex is taken, but only this task reads it.
TickThermal(temp, elapsed) ==
  /\ GoReconcile("thermal_loop")
  /\ guard' = Update(Config.thermal, guard, temp, elapsed)
  /\ inputs' = [inputs EXCEPT !.thermal_tripped = guard'.tripped]

-----------------------------------------------------------------------------
(* reconcile, as far as the mutex is held. *)

InFlight(t) == jobs[t].at \in {"apply", "forget"}

\* Mutated forms of UpToDate: only the first decision is ever applied; a
\* decision is always applied again.
UpToDateOnceApplied(decision) == IsEmpty(decision) \/ applied # Unset
UpToDateNever(decision) == IsEmpty(decision)

UpToDate(decision) == IsEmpty(decision) \/ applied = decision

NothingToDo(t) ==
  /\ jobs[t].at = "reconcile"
  /\ UpToDate(Decide(inputs))
  /\ jobs' = [jobs EXCEPT ![t] = Idle]
  /\ UNCHANGED <<inputs, guard, applied, hw, author, overlapped, started>>

StartApply(t) ==
  /\ jobs[t].at = "reconcile"
  /\ ~UpToDate(Decide(inputs))
  /\ applied' = Decide(inputs)
  /\ jobs' = [jobs EXCEPT ![t] = Applying(Decide(inputs))]
  /\ overlapped' = (\E u \in Tasks : InFlight(u))
  /\ started' = Decide(inputs)
  /\ UNCHANGED <<inputs, guard, hw, author>>

\* A D-Bus setter, once polkit has agreed.
ApplyManual(c, profile) ==
  /\ jobs[c].at = "idle"
  /\ jobs' = [jobs EXCEPT ![c] = Applying(profile)]
  /\ UNCHANGED <<inputs, guard, applied, hw, author, overlapped, started>>

-----------------------------------------------------------------------------
(* Backend::apply, one sysfs access at a time and under no lock. *)

At(w, step) == jobs[w].at = "apply" /\ jobs[w].todo # << >> /\ Head(jobs[w].todo) = step

\* Goes on with rest; after the last write the call returns Ok.
Proceed(w, rest) ==
  jobs' = [jobs EXCEPT ![w] = IF rest = << >> THEN Idle ELSE [@ EXCEPT !.todo = rest]]

\* Returns Err at once: a client is told, reconcile goes on to forget.
Fail(w) ==
  jobs' = [jobs EXCEPT ![w] = IF w \in Tasks THEN [@ EXCEPT !.at = "forget"] ELSE Idle]

\* Thresholds are checked at "check", before either is written.
Supported(w, a) == a \in Thresholds \/ Supports(a, jobs[w].profile[a])

Write(w, a) ==
  /\ At(w, a)
  /\ Supported(w, a)
  /\ KernelTakes(hw, a, jobs[w].profile[a])
  /\ hw' = KernelWrite(hw, a, jobs[w].profile[a])
  /\ author' = [author EXCEPT ![a] = IF w \in Tasks THEN "daemon" ELSE "client"]
  /\ Proceed(w, Tail(jobs[w].todo))
  /\ UNCHANGED <<inputs, guard, applied, overlapped, started>>

WriteFails(w, a) ==
  /\ At(w, a)
  /\ Supported(w, a)
  /\ a \in Faults \/ ~KernelTakes(hw, a, jobs[w].profile[a])
  /\ Fail(w)
  /\ UNCHANGED <<inputs, guard, applied, hw, author, overlapped, started>>

Unsupported(w, a) ==
  /\ At(w, a)
  /\ ~Supported(w, a)
  /\ Fail(w)
  /\ UNCHANGED <<inputs, guard, applied, hw, author, overlapped, started>>

ThresholdsPass(profile) == SupportsThresholds(profile) /\ InRange(profile) /\ InOrder(profile, hw)

CheckThresholds(w) ==
  /\ At(w, "check")
  /\ IF ThresholdsPass(jobs[w].profile) THEN Proceed(w, Tail(jobs[w].todo)) ELSE Fail(w)
  /\ UNCHANGED <<inputs, guard, applied, hw, author, overlapped, started>>

OrderThresholds(w) ==
  /\ At(w, "order")
  /\ Proceed(w, ChargeWrites(jobs[w].profile, hw))
  /\ UNCHANGED <<inputs, guard, applied, hw, author, overlapped, started>>

\* Mutated form of Forget: the failure is logged and nothing else.
ForgetNothing(t) ==
  /\ jobs[t].at = "forget"
  /\ jobs' = [jobs EXCEPT ![t] = Idle]
  /\ UNCHANGED <<inputs, guard, applied, hw, author, overlapped, started>>

\* The tail of reconcile: the mutex is taken a second time.
Forget(t) ==
  /\ jobs[t].at = "forget"
  /\ applied' = Unset
  /\ jobs' = [jobs EXCEPT ![t] = Idle]
  /\ UNCHANGED <<inputs, guard, hw, author, overlapped, started>>

\* The process dies anywhere, with writes half done, and systemd starts it
\* again: what it knew is gone, what it wrote stays.  The properties that
\* speak of this run of the daemon start over.
Crash ==
  /\ MayCrash
  /\ inputs' = NewInputs
  /\ guard' = NewGuard
  /\ applied' = Unset
  /\ jobs' = [w \in Workers |-> Idle]
  /\ overlapped' = FALSE
  /\ started' = Unset
  /\ UNCHANGED <<hw, author>>

-----------------------------------------------------------------------------

Handler ==
  \/ \E name \in PpdProfiles : SetPpdProfile(name)
  \/ \E on_battery \in BOOLEAN : SetOnBattery(on_battery)
  \/ \E temp \in Readings, elapsed \in Gaps : TickThermal(temp, elapsed)

Reconcile(t) == NothingToDo(t) \/ StartApply(t) \/ Forget(t)

Apply(w) ==
  \/ \E a \in Attrs : Write(w, a) \/ WriteFails(w, a) \/ Unsupported(w, a)
  \/ CheckThresholds(w)
  \/ OrderThresholds(w)

Next ==
  \/ Handler
  \/ \E t \in Tasks : Reconcile(t)
  \/ \E c \in Clients, profile \in Requests : ApplyManual(c, profile)
  \/ \E w \in Workers : Apply(w)
  \/ Crash

Spec == Init /\ [][Next]_vars

\* The runtime polls every task that can run, the thermal interval keeps
\* firing, and a write that is tried again and again succeeds in the end.
Fairness ==
  /\ WF_vars(\E temp \in Readings, elapsed \in Gaps : TickThermal(temp, elapsed))
  /\ \A t \in Tasks : WF_vars(Reconcile(t))
  /\ \A w \in Workers : WF_vars(Apply(w)) /\ \A a \in Faults : SF_vars(Write(w, a))

FairSpec == Spec /\ Fairness

-----------------------------------------------------------------------------
(* Type correctness. *)
TypeOK ==
  /\ inputs \in Inputs
  /\ guard \in Guards
  /\ applied \in Option(HwProfile)
  /\ hw \in HwProfile
  /\ jobs \in [Workers -> Job]
  /\ author \in [Attrs -> Authors]
  /\ overlapped \in BOOLEAN
  /\ started \in Option(HwProfile)

NoneInFlight == \A t \in Tasks : ~InFlight(t)

Believed == IsEmpty(Decide(inputs)) \/ applied = Decide(inputs)

AllIdle == \A t \in Tasks : jobs[t].at = "idle"

(* No edit of the inputs is ever lost between the two lock scopes of       *)
(* with_inputs and reconcile: unless some task still has to reconcile, the *)
(* profile believed applied is the one the inputs call for, or is          *)
(* forgotten and due for a retry.                                          *)
BeliefIsCurrent ==
  (\A t \in Tasks : jobs[t].at # "reconcile") => applied = Unset \/ Believed

(* State::applied is what the hardware is in: unless the last automatic     *)
(* apply was started while another was in flight, every attribute of it is *)
(* in place except where a client has written since, whatever writes have  *)
(* failed and whatever applies ran into each other earlier.                *)
BeliefMatchesHardware ==
  ~overlapped /\ NoneInFlight /\ applied # Unset
    => \A a \in Attrs : applied[a] # Unset => hw[a] = applied[a] \/ author[a] = "client"

(* While the guard is tripped and a profile is believed applied, the       *)
(* daemon itself is never the one that left the fans quiet, under the same *)
(* proviso of the last automatic apply.                                    *)
DaemonKeepsFansLoud ==
  ~overlapped /\ AllIdle /\ inputs.thermal_tripped /\ applied # Unset
    => hw.fan_mode = "aggressive" \/ author["fan_mode"] = "client"

(* "No profile and no config setting may keep the fans quiet while the     *)
(* machine is overheating": decide's own claim, of the hardware, once the  *)
(* tasks have nothing left to do.                                          *)
TrippedFansAreLoud ==
  AllIdle /\ inputs.thermal_tripped => hw.fan_mode = "aggressive"

(* "Only writes if the decided profile has changed since it was last       *)
(* applied": the automation starts an apply only for another profile than  *)
(* the last it started, so a change made by hand is not undone meanwhile.  *)
ManualChangeSurvives ==
  [][\A t \in Tasks : jobs[t].at = "reconcile" /\ jobs'[t].at = "apply"
       => jobs'[t].profile # started]_vars

(* The thresholds' check and the order of the two writes anticipate the    *)
(* kernel: with one writer it never refuses a threshold that passed.       *)
KernelNeverRefuses ==
  \A w \in Workers, a \in Thresholds :
    At(w, a) => KernelTakes(hw, a, jobs[w].profile[a])

(* A pair of thresholds in range and in order lands, whatever pair the     *)
(* hardware holds before: raising and lowering, overlapping or not.        *)
ValidPairsLand ==
  LET decision == Decide(inputs)
      wanted   == {a \in Thresholds : decision[a] # Unset}
  IN  AllIdle /\ wanted = Thresholds /\ InRange(decision) /\ Ordered(decision)
        => \A a \in wanted : hw[a] = decision[a]

(* "Copy every field the overlay sets, leaving the rest alone": on battery,  *)
(* at rest and with nobody else writing, what [on-battery] sets is in place *)
(* (but for the fan mode of a guard that has tripped).                      *)
BatteryOverlayWins ==
  AllIdle /\ inputs.on_battery /\ ~inputs.thermal_tripped /\ applied # Unset
    => \A a \in Attrs :
         Config.on_battery[a] # Unset /\ author[a] # "client" => hw[a] = Config.on_battery[a]

(* Errors are retried: if the inputs come to rest on a decision, it is     *)
(* applied for good, whatever writes fail on the way.                      *)
EventuallyApplied ==
  <>[][inputs' = inputs]_vars
    => <>[](NoneInFlight /\ Believed)

(* The fans go up when the guard trips: once the clients have stopped      *)
(* changing things, a guard that keeps tripping and releasing makes the    *)
(* fans loud again and again, whatever a client left them at before.       *)
TripsRaiseFans ==
  /\ <>[](\A c \in Clients : jobs[c].at = "idle")
  /\ []<>(inputs.thermal_tripped)
  /\ []<>(~inputs.thermal_tripped)
  => []<>(inputs.thermal_tripped /\ hw.fan_mode = "aggressive")
=============================================================================
