------------------------------- MODULE Daemon -------------------------------
(***************************************************************************)
(* omarchy-powerd as one process among others: the start-up of              *)
(* crates/daemon/src/main.rs, the two watchers of watch.rs with the         *)
(* services they follow, polkit and systemd being asked (auth.rs,           *)
(* conflicts.rs), and death and restart, around the engine.                 *)
(*                                                                         *)
(* A watcher reads a property through zbus's cache: the cache subscribes to *)
(* the service's change signal and then asks for the current value, keeps   *)
(* the latest value it was told, and offers it to a new stream at once and  *)
(* after every change.  A stream that is slow sees only the last change.    *)
(* The bus keeps the order of what a service sends, so a signal that is     *)
(* still on its way is the same as a change that is still to come.          *)
(*                                                                         *)
(* consent and silent are history, for the properties only.                 *)
(***************************************************************************)
EXTENDS Engine

CONSTANTS
  Absent,     \* watchers whose service may be away
  UnitFiles   \* systemd's answer: pairs of a unit and its state; Unset is none

VARIABLES
  phase,      \* how far main has come; "dead" while no process runs
  polkit,     \* Authority::available, decided once
  conflicts,  \* Power::charge_conflicts, as the object serves them
  calls,      \* setters waiting for polkit: what they want, and may they
  watchers,   \* where each watcher is, and what zbus has cached for it
  world,      \* the property of the service a watcher follows; Unset if away
  consent,    \* the action polkit has agreed to for a client's call
  silent      \* services that came back unannounced, or were away when read

daemon == <<phase, polkit, conflicts, calls, watchers, world, consent, silent>>

allVars == <<vars, daemon>>

Watched == Tasks \ {"thermal_loop"}

ASSUME AbsentAreWatched == Absent \subseteq Watched

ASSUME UnitFilesArePairs ==
  UnitFiles # Unset => \A file \in UnitFiles : file = <<file[1], file[2]>>

\* What the service of a watcher may report.
Values(w) == IF w = "power_profiles" THEN PpdProfiles \ {Unset} ELSE BOOLEAN

Actions == {"set-profile", "set-charge-threshold"}

NoCall == [profile |-> NoChange, action |-> Unset]

\* load: the cache asks for the current value; first: it has it; subscribe:
\* the value has been reported; listen: in the stream; deaf: nothing is heard.
Watcher(at, heard, news) == [at |-> at, heard |-> heard, news |-> news]

Off == Watcher("off", Unset, FALSE)

Cached == {"first", "subscribe", "listen"}

DaemonInit ==
  /\ Init
  /\ phase = "dead"
  /\ polkit = FALSE
  /\ conflicts = {}
  /\ calls = [c \in Clients |-> NoCall]
  /\ watchers = [w \in Watched |-> Off]
  /\ world = [w \in Watched |-> CHOOSE value \in Values(w) : TRUE]
  /\ consent = [c \in Clients |-> Unset]
  /\ silent = {}

-----------------------------------------------------------------------------
(* main, up to the point where everything runs. *)

\* Hardware found, on the bus, configuration read.  (Any failure here or in
\* the next steps ends the process: Dies.)
Start ==
  /\ phase = "dead"
  /\ phase' = "polkit"
  /\ UNCHANGED <<vars, polkit, conflicts, calls, watchers, world, consent, silent>>

\* Authority::new: whether polkit answers is found out once.
AskPolkit ==
  /\ phase = "polkit"
  /\ phase' = "conflicts"
  /\ polkit' \in BOOLEAN
  /\ UNCHANGED <<vars, conflicts, calls, watchers, world, consent, silent>>

KnownWriters == {"battery-charge-threshold.service", "tlp.service"}

\* Units in the other states are installed and never pulled in by anything.
ActiveStates == {"enabled", "enabled-runtime", "linked", "linked-runtime"}

\* Mutated form of EnabledWriters: every unit that is installed.
InstalledWriters(files) == {file[1] : file \in files} \cap KnownWriters

EnabledWriters(files) == {file[1] : file \in {f \in files : f[2] \in ActiveStates}} \cap KnownWriters

\* Asked before anyone can call; if systemd does not answer, nobody can tell.
AskSystemd ==
  /\ phase = "conflicts"
  /\ phase' = "publish"
  /\ conflicts' = IF UnitFiles = Unset THEN {} ELSE EnabledWriters(UnitFiles)
  /\ UNCHANGED <<vars, polkit, calls, watchers, world, consent, silent>>

\* The object is published, the name claimed, the tasks spawned.
Publish ==
  /\ phase = "publish"
  /\ phase' = "running"
  /\ watchers' = [w \in Watched |-> Watcher("load", Unset, FALSE)]
  /\ UNCHANGED <<vars, polkit, conflicts, calls, world, consent, silent>>

\* A crash, an error while starting, or the end of the session: systemd
\* starts the daemon again.
Dies ==
  /\ phase # "dead"
  /\ Crash
  /\ phase' = "dead"
  /\ polkit' = FALSE
  /\ conflicts' = {}
  /\ calls' = [c \in Clients |-> NoCall]
  /\ watchers' = [w \in Watched |-> Off]
  /\ consent' = [c \in Clients |-> Unset]
  /\ UNCHANGED <<world, silent>>

-----------------------------------------------------------------------------
(* The watchers. *)

\* Mutated form of Load: an error taken for a value.
LoadAnything(w) ==
  /\ watchers[w].at = "load"
  /\ watchers' = [watchers EXCEPT ![w] = Watcher("first", world[w], FALSE)]
  /\ silent' = silent \ {w}
  /\ UNCHANGED <<vars, phase, polkit, conflicts, calls, world, consent>>

\* The proxy is there and its cache has the current value.
Load(w) ==
  /\ watchers[w].at = "load"
  /\ world[w] # Unset
  /\ watchers' = [watchers EXCEPT ![w] = Watcher("first", world[w], FALSE)]
  /\ silent' = silent \ {w}
  /\ UNCHANGED <<vars, phase, polkit, conflicts, calls, world, consent>>

\* Not fatal: the service may well show up later, if the proxy hears of it.
LoadFails(w) ==
  /\ watchers[w].at = "load"
  /\ w \in Absent
  /\ \E at \in {"subscribe", "deaf"} : watchers' = [watchers EXCEPT ![w] = Watcher(at, Unset, FALSE)]
  /\ silent' = silent \cup {w}
  /\ UNCHANGED <<vars, phase, polkit, conflicts, calls, world, consent>>

\* set_ppd_profile or set_on_battery, with the value in the cache by now.
Tell(w) ==
  IF w = "power_profiles" THEN SetPpdProfile(watchers[w].heard) ELSE SetOnBattery(watchers[w].heard)

FirstReport(w) ==
  /\ watchers[w].at = "first"
  /\ Tell(w)
  /\ watchers' = [watchers EXCEPT ![w] = Watcher("subscribe", @.heard, FALSE)]
  /\ UNCHANGED <<phase, polkit, conflicts, calls, world, consent, silent>>

\* Mutated form of Subscribe: a stream of what changes from now on.
SubscribeQuietly(w) ==
  /\ watchers[w].at = "subscribe"
  /\ jobs[w].at = "idle"
  /\ watchers' = [watchers EXCEPT ![w] = Watcher("listen", @.heard, FALSE)]
  /\ UNCHANGED <<vars, phase, polkit, conflicts, calls, world, consent, silent>>

\* Once reconcile has returned.  The stream begins with a value that is cached.
Subscribe(w) ==
  /\ watchers[w].at = "subscribe"
  /\ jobs[w].at = "idle"
  /\ watchers' = [watchers EXCEPT ![w] = Watcher("listen", @.heard, @.heard # Unset)]
  /\ UNCHANGED <<vars, phase, polkit, conflicts, calls, world, consent, silent>>

\* Mutated form of Follow: the value is taken and the engine not told.
FollowUntold(w) ==
  /\ watchers[w].at = "listen" /\ watchers[w].news
  /\ watchers' = [watchers EXCEPT ![w] = Watcher("listen", @.heard, FALSE)]
  /\ inputs' = IF w = "power_profiles" THEN [inputs EXCEPT !.ppd_profile = watchers[w].heard]
                                       ELSE [inputs EXCEPT !.on_battery = watchers[w].heard]
  /\ UNCHANGED <<guard, applied, hw, jobs, author, overlapped, started>>
  /\ UNCHANGED <<phase, polkit, conflicts, calls, world, consent, silent>>

\* One turn of the loop over the stream.
Follow(w) ==
  /\ watchers[w].at = "listen" /\ watchers[w].news
  /\ Tell(w)
  /\ watchers' = [watchers EXCEPT ![w] = Watcher("listen", @.heard, FALSE)]
  /\ UNCHANGED <<phase, polkit, conflicts, calls, world, consent, silent>>

-----------------------------------------------------------------------------
(* The services the watchers follow. *)

Announce(w, value) ==
  /\ world[w] # Unset /\ world[w] # value
  /\ world' = [world EXCEPT ![w] = value]
  /\ watchers' = IF watchers[w].at \in Cached
                   THEN [watchers EXCEPT ![w] = Watcher(@.at, value, @.at = "listen")]
                   ELSE watchers
  /\ silent' = silent \ {w}
  /\ UNCHANGED <<vars, phase, polkit, conflicts, calls, consent>>

Leave(w) ==
  /\ w \in Absent /\ world[w] # Unset
  /\ world' = [world EXCEPT ![w] = Unset]
  /\ UNCHANGED <<vars, phase, polkit, conflicts, calls, watchers, consent, silent>>

\* A service that starts announces nothing until its property changes.
Return(w, value) ==
  /\ world[w] = Unset
  /\ world' = [world EXCEPT ![w] = value]
  /\ silent' = silent \cup {w}
  /\ UNCHANGED <<vars, phase, polkit, conflicts, calls, watchers, consent>>

-----------------------------------------------------------------------------
(* The setters of the interface. *)

\* Mutated form of ActionFor: one action for everything.
ActionForAll(profile) == "set-profile"

\* Limits outlive the session and have a polkit action of their own.
ActionFor(profile) == IF AsksForThresholds(profile) THEN "set-charge-threshold" ELSE "set-profile"

Free(c) == phase = "running" /\ jobs[c].at = "idle" /\ calls[c] = NoCall

\* guarded_apply waits for polkit's answer; the tasks and other clients go on.
CallSetter(c, profile) ==
  /\ Free(c) /\ polkit
  /\ calls' = [calls EXCEPT ![c] = [profile |-> profile, action |-> ActionFor(profile)]]
  /\ consent' = [consent EXCEPT ![c] = Unset]
  /\ UNCHANGED <<vars, phase, polkit, conflicts, watchers, world, silent>>

Granted(c) ==
  /\ calls[c] # NoCall
  /\ ApplyManual(c, calls[c].profile)
  /\ consent' = [consent EXCEPT ![c] = calls[c].action]
  /\ calls' = [calls EXCEPT ![c] = NoCall]
  /\ UNCHANGED <<phase, polkit, conflicts, watchers, world, silent>>

\* Not authorized, not identified, or polkit has gone: an error either way.
Denied(c) ==
  /\ calls[c] # NoCall
  /\ calls' = [calls EXCEPT ![c] = NoCall]
  /\ UNCHANGED <<vars, phase, polkit, conflicts, watchers, world, consent, silent>>

\* Without polkit only the policy of the bus decides who may call.
CallUnchecked(c, profile) ==
  /\ Free(c) /\ ~polkit
  /\ ApplyManual(c, profile)
  /\ UNCHANGED daemon

-----------------------------------------------------------------------------

Startup == Start \/ AskPolkit \/ AskSystemd \/ Publish

Watch(w) == Load(w) \/ LoadFails(w) \/ FirstReport(w) \/ Subscribe(w) \/ Follow(w)

Services(w) == Leave(w) \/ \E value \in Values(w) : Announce(w, value) \/ Return(w, value)

Setter(c) ==
  \/ \E profile \in Requests : CallSetter(c, profile) \/ CallUnchecked(c, profile)
  \/ Granted(c)
  \/ Denied(c)

Tick ==
  /\ phase = "running"
  /\ \E temp \in Readings, elapsed \in Gaps : TickThermal(temp, elapsed)
  /\ UNCHANGED daemon

Engines == ((\E t \in Tasks : Reconcile(t)) \/ (\E w \in Workers : Apply(w))) /\ UNCHANGED daemon

DaemonNext ==
  \/ Startup \/ Dies
  \/ \E w \in Watched : Watch(w) \/ Services(w)
  \/ \E c \in Clients : Setter(c)
  \/ Tick
  \/ Engines

DaemonSpec == DaemonInit /\ [][DaemonNext]_allVars

\* What the engine is given, the bus delivering what was sent, and a watcher
\* being polled when there is something for it.  Nobody has to answer a
\* question of polkit's, and no service has to report anything.
DaemonFairness ==
  /\ WF_allVars(Tick)
  /\ \A t \in Tasks : WF_allVars(Reconcile(t) /\ UNCHANGED daemon)
  /\ \A w \in Workers :
       /\ WF_allVars(Apply(w) /\ UNCHANGED daemon)
       /\ \A a \in Faults : SF_allVars(Write(w, a) /\ UNCHANGED daemon)
  /\ \A w \in Watched : WF_allVars(Watch(w))

FairDaemonSpec == DaemonSpec /\ DaemonFairness

-----------------------------------------------------------------------------
\* The input a watcher's reports go to.
Given(w) == IF w = "power_profiles" THEN inputs.ppd_profile ELSE inputs.on_battery

(* Type correctness; a watcher has something to report when it reports. *)
DaemonTypeOK ==
  /\ TypeOK
  /\ phase \in {"dead", "polkit", "conflicts", "publish", "running"}
  /\ polkit \in BOOLEAN
  /\ conflicts \subseteq KnownWriters
  /\ calls \in [Clients -> {NoCall} \cup [profile : Requests, action : Actions]]
  /\ watchers = [w \in Watched |-> Watcher(watchers[w].at, watchers[w].heard, watchers[w].news)]
  /\ world = [w \in Watched |-> world[w]]
  /\ \A w \in Watched :
       /\ watchers[w].at \in {"off", "load", "deaf"} \cup Cached
       /\ watchers[w].heard \in Values(w) \cup {Unset}
       /\ watchers[w].news \in BOOLEAN
       /\ watchers[w].at = "first" \/ watchers[w].news => watchers[w].heard # Unset
       /\ world[w] \in Values(w) \cup {Unset}
  /\ consent \in [Clients -> Actions \cup {Unset}]
  /\ silent \subseteq Watched

(* "Writes go through polkit": where polkit answered at the start, a write  *)
(* for a client is under way only with consent to that very call, a charge *)
(* limit with consent to change charge limits, however late the answer came *)
(* and whatever died and started again meanwhile.                           *)
NoWriteWithoutConsent ==
  polkit => \A c \in Clients : jobs[c].at = "apply" =>
    consent[c] = IF \E a \in Thresholds : jobs[c].profile[a] # Unset
                   THEN "set-charge-threshold" ELSE "set-profile"

(* The daemon is an engine: every step of it is one the engine takes or no   *)
(* step of the engine's, so what is true of the engine under any reports is *)
(* true under those that zbus, polkit and systemd let through.              *)
ImplementsEngine == Spec

\* The service is there, and its value is one it has announced or been asked.
Audible(w) == world[w] # Unset /\ w \notin silent /\ watchers[w].at # "deaf"

(* No change is missed: a watcher that waits for the next one has given the *)
(* engine what its service reports now, though the first value was read     *)
(* before the stream was opened, and a burst shows up as its last change.   *)
InputsAreCurrent ==
  \A w \in Watched :
    watchers[w].at = "listen" /\ ~watchers[w].news /\ Audible(w) => Given(w) = world[w]

\* What profile, power source and configuration call for, attribute by
\* attribute, as README and config.toml say it.
Wanted(a) ==
  LET on_battery == "power_source" \in Watched /\ world["power_source"] = TRUE
      profile    == IF "power_profiles" \in Watched THEN ForProfile(world["power_profiles"]) ELSE NoChange
  IN  IF on_battery /\ Config.on_battery[a] # Unset THEN Config.on_battery[a] ELSE profile[a]

(* What HardwareFollowsSystem comes to rest in is right wherever the daemon *)
(* comes to rest: with every watcher waiting for the next change, no task   *)
(* busy and a profile believed applied, the hardware is in what profile and *)
(* power source call for now (the fans of a tripped guard apart), however   *)
(* the reports and the restarts before that were interleaved, unless the    *)
(* last automatic apply was started into another.                           *)
SettledHardware ==
  /\ ~overlapped /\ AllIdle /\ applied # Unset
  /\ \A w \in Watched : watchers[w].at = "listen" /\ ~watchers[w].news /\ Audible(w)
  => \A a \in Attrs :
       Wanted(a) # Unset /\ ~(a = "fan_mode" /\ inputs.thermal_tripped)
         => hw[a] = Wanted(a) \/ author[a] = "client"

(* The hardware follows the system: a daemon that keeps running brings it,  *)
(* whatever changes crossed its start, whatever changes came in a burst and *)
(* whatever writes failed, to what the profile and the power source call    *)
(* for, once they rest; but for what a client has set, and for a last apply *)
(* that was started into another.                                           *)
HardwareFollowsSystem ==
  /\ <>[](phase = "running" /\ \A w \in Watched : Audible(w))
  /\ <>[][world' = world]_world
  => <>[]( \/ overlapped
           \/ \A a \in Attrs : Wanted(a) # Unset => hw[a] = Wanted(a) \/ author[a] = "client" )

(* "The answer is on the bus from the first client read": whoever can call  *)
(* the daemon sees the units that write the threshold too, if systemd said. *)
ConflictsAreKnown ==
  phase = "running" /\ UnitFiles # Unset
    => \A unit \in KnownWriters :
         unit \in conflicts <=> \E state \in ActiveStates : <<unit, state>> \in UnitFiles
=============================================================================
