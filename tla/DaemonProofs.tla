---------------------------- MODULE DaemonProofs ----------------------------
(***************************************************************************)
(* The daemon's safety for every set of tasks, services, clients, requests *)
(* and machines, and however often it dies and is started again.           *)
(***************************************************************************)
EXTENDS Daemon, ThresholdProofs

\* Where the types of watchers and world are used.
WatcherOK(w) ==
  /\ watchers[w].at \in {"off", "load", "deaf"} \cup Cached
  /\ watchers[w].heard \in Values(w) \cup {Unset}
  /\ watchers[w].news \in BOOLEAN
  /\ watchers[w].at = "first" \/ watchers[w].news => watchers[w].heard # Unset

WatchersOK ==
  /\ watchers = [w \in Watched |-> Watcher(watchers[w].at, watchers[w].heard, watchers[w].news)]
  /\ \A w \in Watched : WatcherOK(w)

WorldOK ==
  /\ world = [w \in Watched |-> world[w]]
  /\ \A w \in Watched : world[w] \in Values(w) \cup {Unset}

MainOK ==
  /\ phase \in {"dead", "polkit", "conflicts", "publish", "running"}
  /\ polkit \in BOOLEAN
  /\ conflicts \subseteq KnownWriters

CallsOK ==
  /\ calls \in [Clients -> {NoCall} \cup [profile : Requests, action : Actions]]
  /\ consent \in [Clients -> Actions \cup {Unset}]

LEMMA TypeParts ==
  DaemonTypeOK <=> TypeOK /\ MainOK /\ CallsOK /\ WatchersOK /\ WorldOK /\ silent \subseteq Watched
BY DEF DaemonTypeOK, MainOK, CallsOK, WatchersOK, WatcherOK, WorldOK

-----------------------------------------------------------------------------
(* Every step of the daemon is one of the engine's, or none of its business. *)

\* What a watcher tells the engine is something its service may report.
LEMMA TellIsHandler ==
  ASSUME NEW w \in Watched, watchers[w].heard \in Values(w), Tell(w)
  PROVE  Handler
BY DEF Tell, Values, Handler

LEMMA WatchImplements ==
  ASSUME DaemonTypeOK, NEW w \in Watched, Watch(w)
  PROVE  [Next]_vars
<1>1. CASE FirstReport(w)
  <2>1. watchers[w].heard \in Values(w)
    BY <1>1 DEF FirstReport, DaemonTypeOK
  <2> QED
    BY <1>1, <2>1, TellIsHandler DEF FirstReport, Next
<1>2. CASE Follow(w)
  <2>1. watchers[w].heard \in Values(w)
    BY <1>2 DEF Follow, DaemonTypeOK
  <2> QED
    BY <1>2, <2>1, TellIsHandler DEF Follow, Next
<1>3. CASE Load(w) \/ LoadFails(w) \/ Subscribe(w)
  BY <1>3 DEF Load, LoadFails, Subscribe
<1> QED
  BY <1>1, <1>2, <1>3 DEF Watch

LEMMA SetterImplements ==
  ASSUME DaemonTypeOK, NEW c \in Clients, Setter(c)
  PROVE  [Next]_vars
<1>1. ASSUME NEW profile \in Requests, CallSetter(c, profile) PROVE [Next]_vars
  BY <1>1 DEF CallSetter
<1>2. ASSUME NEW profile \in Requests, CallUnchecked(c, profile) PROVE [Next]_vars
  BY <1>2 DEF CallUnchecked, Next
<1>3. CASE Granted(c)
  <2>1. calls[c].profile \in Requests
    BY <1>3 DEF Granted, DaemonTypeOK
  <2> QED
    BY <1>3, <2>1 DEF Granted, Next
<1>4. CASE Denied(c)
  BY <1>4 DEF Denied
<1> QED
  BY <1>1, <1>2, <1>3, <1>4 DEF Setter

LEMMA StepImplements == DaemonTypeOK /\ [DaemonNext]_allVars => [Next]_vars
<1> SUFFICES ASSUME DaemonTypeOK, [DaemonNext]_allVars PROVE [Next]_vars
  OBVIOUS
<1>1. CASE Startup
  BY <1>1 DEF Startup, Start, AskPolkit, AskSystemd, Publish
<1>2. CASE Dies
  BY <1>2 DEF Dies, Next
<1>3. ASSUME NEW w \in Watched, Watch(w) PROVE [Next]_vars
  BY <1>3, WatchImplements
<1>4. ASSUME NEW w \in Watched, Services(w) PROVE [Next]_vars
  BY <1>4 DEF Services, Leave, Announce, Return
<1>5. ASSUME NEW c \in Clients, Setter(c) PROVE [Next]_vars
  BY <1>5, SetterImplements
<1>6. CASE Tick
  BY <1>6 DEF Tick, Handler, Next
<1>7. CASE Engines
  BY <1>7 DEF Engines, Next
<1>8. CASE UNCHANGED allVars
  BY <1>8 DEF allVars
<1> QED
  BY <1>1, <1>2, <1>3, <1>4, <1>5, <1>6, <1>7, <1>8 DEF DaemonNext

-----------------------------------------------------------------------------
(* Type correctness. *)

LEMMA DaemonInitTypeOK == DaemonInit => DaemonTypeOK
<1> SUFFICES ASSUME DaemonInit PROVE DaemonTypeOK
  OBVIOUS
<1>1. TypeOK
  BY InitTypeOK DEF DaemonInit
<1>2. MainOK /\ CallsOK /\ silent \subseteq Watched
  BY DEF DaemonInit, MainOK, CallsOK
<1>3. WatchersOK
  BY DEF DaemonInit, WatchersOK, WatcherOK, Off, Watcher
<1>4. WorldOK
  BY DEF DaemonInit, WorldOK
<1> QED
  BY <1>1, <1>2, <1>3, <1>4, TypeParts

LEMMA StartupTypeOK ==
  ASSUME MainOK, CallsOK, WatchersOK, WorldOK, silent \subseteq Watched, Startup
  PROVE  MainOK' /\ CallsOK' /\ WatchersOK' /\ WorldOK' /\ silent' \subseteq Watched
<1>1. CASE Start \/ AskPolkit \/ AskSystemd
  <2>1. MainOK'
    BY <1>1 DEF Start, AskPolkit, AskSystemd, MainOK, EnabledWriters
  <2>2. UNCHANGED <<calls, watchers, world, consent, silent>>
    BY <1>1 DEF Start, AskPolkit, AskSystemd
  <2> QED
    BY <2>1, <2>2 DEF CallsOK, WatchersOK, WatcherOK, WorldOK
<1>2. CASE Publish
  <2>1. MainOK' /\ CallsOK' /\ WorldOK' /\ silent' \subseteq Watched
    BY <1>2 DEF Publish, MainOK, CallsOK, WorldOK
  <2>2. WatchersOK'
    BY <1>2 DEF Publish, WatchersOK, WatcherOK, Watcher
  <2> QED
    BY <2>1, <2>2
<1> QED
  BY <1>1, <1>2 DEF Startup

LEMMA DiesTypeOK ==
  ASSUME MainOK, CallsOK, WatchersOK, WorldOK, silent \subseteq Watched, Dies
  PROVE  MainOK' /\ CallsOK' /\ WatchersOK' /\ WorldOK' /\ silent' \subseteq Watched
<1>1. MainOK' /\ CallsOK' /\ WorldOK' /\ silent' \subseteq Watched
  BY DEF Dies, MainOK, CallsOK, WorldOK
<1>2. WatchersOK'
  BY DEF Dies, WatchersOK, WatcherOK, Off, Watcher
<1> QED
  BY <1>1, <1>2

\* One watcher moves; the others keep their types.
LEMMA MoveTypeOK ==
  ASSUME WatchersOK, NEW w \in Watched, NEW at, NEW heard, NEW news,
         watchers' = [watchers EXCEPT ![w] = Watcher(at, heard, news)],
         at \in {"off", "load", "deaf"} \cup Cached,
         heard \in Values(w) \cup {Unset}, news \in BOOLEAN,
         at = "first" \/ news => heard # Unset
  PROVE  WatchersOK'
<1>1. watchers = [u \in Watched |-> Watcher(watchers[u].at, watchers[u].heard, watchers[u].news)]
  BY DEF WatchersOK
<1>2. DOMAIN watchers = Watched
  BY <1>1
<1>3. /\ watchers'[w] = Watcher(at, heard, news)
      /\ \A u \in Watched \ {w} : watchers'[u] = watchers[u]
      /\ watchers' = [u \in Watched |-> watchers'[u]]
  BY <1>1, <1>2
<1>4. WatcherOK(w)'
  BY <1>3 DEF WatcherOK, Watcher, Values
<1>5. ASSUME NEW u \in Watched \ {w} PROVE WatcherOK(u)'
  BY <1>3 DEF WatchersOK, WatcherOK, Values
<1>6. \A u \in Watched : watchers'[u] = Watcher(watchers'[u].at, watchers'[u].heard, watchers'[u].news)
  BY <1>1, <1>3 DEF Watcher
<1>7. watchers' = [u \in Watched |-> Watcher(watchers'[u].at, watchers'[u].heard, watchers'[u].news)]
  BY <1>3, <1>6
<1> QED
  BY <1>4, <1>5, <1>7 DEF WatchersOK

LEMMA WatchTypeOK ==
  ASSUME WatchersOK, WorldOK, silent \subseteq Watched, NEW w \in Watched, Watch(w)
  PROVE  WatchersOK' /\ silent' \subseteq Watched /\ UNCHANGED <<phase, polkit, conflicts, calls, consent, world>>
<1>1. WatcherOK(w)
  BY DEF WatchersOK
<1>2. CASE Load(w)
  <2>1. WatchersOK'
    <3>1. watchers' = [watchers EXCEPT ![w] = Watcher("first", world[w], FALSE)]
      BY <1>2 DEF Load
    <3>2. world[w] \in Values(w) \cup {Unset} /\ world[w] # Unset
      BY <1>2 DEF Load, WorldOK
    <3> QED
      BY <1>1, <3>1, <3>2, MoveTypeOK DEF WatcherOK, Cached
  <2> QED
    BY <1>2, <2>1 DEF Load
<1>3. CASE LoadFails(w)
  <2>1. WatchersOK'
    <3>1. PICK at \in {"subscribe", "deaf"} : watchers' = [watchers EXCEPT ![w] = Watcher(at, Unset, FALSE)]
      BY <1>3 DEF LoadFails
    <3> QED
      BY <1>1, <3>1, MoveTypeOK DEF WatcherOK, Cached
  <2> QED
    BY <1>3, <2>1 DEF LoadFails
<1>4. CASE FirstReport(w)
  <2>1. WatchersOK'
    <3>1. watchers' = [watchers EXCEPT ![w] = Watcher("subscribe", watchers[w].heard, FALSE)]
      BY <1>4 DEF FirstReport
    <3> QED
      BY <1>1, <3>1, MoveTypeOK DEF WatcherOK, Cached
  <2> QED
    BY <1>4, <2>1 DEF FirstReport
<1>5. CASE Subscribe(w)
  <2>1. WatchersOK'
    <3>1. watchers' = [watchers EXCEPT ![w] = Watcher("listen", watchers[w].heard, watchers[w].heard # Unset)]
      BY <1>5 DEF Subscribe
    <3> QED
      BY <1>1, <3>1, MoveTypeOK DEF WatcherOK, Cached
  <2> QED
    BY <1>5, <2>1 DEF Subscribe
<1>6. CASE Follow(w)
  <2>1. WatchersOK'
    <3>1. watchers' = [watchers EXCEPT ![w] = Watcher("listen", watchers[w].heard, FALSE)]
      BY <1>6 DEF Follow
    <3> QED
      BY <1>1, <3>1, MoveTypeOK DEF WatcherOK, Cached
  <2> QED
    BY <1>6, <2>1 DEF Follow
<1> QED
  BY <1>2, <1>3, <1>4, <1>5, <1>6 DEF Watch

LEMMA ServicesTypeOK ==
  ASSUME WatchersOK, WorldOK, silent \subseteq Watched, NEW w \in Watched, Services(w)
  PROVE  /\ WatchersOK' /\ WorldOK' /\ silent' \subseteq Watched
         /\ UNCHANGED <<phase, polkit, conflicts, calls, consent>>
<1>1. ASSUME NEW value, value \in Values(w) \cup {Unset}, world' = [world EXCEPT ![w] = value]
      PROVE  WorldOK'
  BY <1>1 DEF WorldOK, Values
<1>2. ASSUME UNCHANGED watchers PROVE WatchersOK'
  BY <1>2 DEF WatchersOK, WatcherOK, Values
<1>3. CASE Leave(w)
  BY <1>1, <1>2, <1>3 DEF Leave
<1>4. ASSUME NEW value \in Values(w), Return(w, value)
      PROVE  WatchersOK' /\ WorldOK' /\ silent' \subseteq Watched /\ UNCHANGED <<phase, polkit, conflicts, calls, consent>>
  BY <1>1, <1>2, <1>4 DEF Return
<1>5. ASSUME NEW value \in Values(w), Announce(w, value)
      PROVE  WatchersOK' /\ WorldOK' /\ silent' \subseteq Watched /\ UNCHANGED <<phase, polkit, conflicts, calls, consent>>
  <2>1. WorldOK'
    BY <1>1, <1>5 DEF Announce
  <2>2. WatchersOK'
    <3>1. CASE watchers[w].at \in Cached
      <4>1. watchers' = [watchers EXCEPT ![w] = Watcher(watchers[w].at, value, watchers[w].at = "listen")]
        BY <1>5, <3>1 DEF Announce
      <4>2. value # Unset
        BY UnsetIsNoValue DEF Values
      <4>3. (watchers[w].at = "listen") \in BOOLEAN
        OBVIOUS
      <4> QED
        BY <3>1, <4>1, <4>2, <4>3, MoveTypeOK
    <3>2. CASE watchers[w].at \notin Cached
      BY <1>2, <1>5, <3>2 DEF Announce
    <3> QED
      BY <3>1, <3>2
  <2> QED
    BY <1>5, <2>1, <2>2 DEF Announce
<1> QED
  BY <1>3, <1>4, <1>5 DEF Services

LEMMA SetterTypeOK ==
  ASSUME CallsOK, NEW c \in Clients, Setter(c)
  PROVE  CallsOK' /\ UNCHANGED <<phase, polkit, conflicts, watchers, world, silent>>
<1>1. ASSUME NEW profile \in Requests, CallSetter(c, profile)
      PROVE  CallsOK' /\ UNCHANGED <<phase, polkit, conflicts, watchers, world, silent>>
  <2>1. ActionFor(profile) \in Actions
    BY DEF ActionFor, Actions
  <2> QED
    BY <1>1, <2>1 DEF CallSetter, CallsOK
<1>2. ASSUME NEW profile \in Requests, CallUnchecked(c, profile)
      PROVE  CallsOK' /\ UNCHANGED <<phase, polkit, conflicts, watchers, world, silent>>
  BY <1>2 DEF CallUnchecked, daemon, CallsOK
<1>3. CASE Granted(c)
  <2>1. calls[c].action \in Actions
    BY <1>3 DEF Granted, CallsOK
  <2> QED
    BY <1>3, <2>1 DEF Granted, CallsOK
<1>4. CASE Denied(c)
  BY <1>4 DEF Denied, CallsOK
<1> QED
  BY <1>1, <1>2, <1>3, <1>4 DEF Setter

LEMMA DaemonStepTypeOK == DaemonTypeOK /\ [DaemonNext]_allVars => DaemonTypeOK'
<1> SUFFICES ASSUME DaemonTypeOK, [DaemonNext]_allVars PROVE DaemonTypeOK'
  OBVIOUS
<1>1. TypeOK'
  BY StepImplements, StepTypeOK, TypeParts
<1>2. MainOK /\ CallsOK /\ WatchersOK /\ WorldOK /\ silent \subseteq Watched
  BY TypeParts
<1> DEFINE Rest == MainOK' /\ CallsOK' /\ WatchersOK' /\ WorldOK' /\ silent' \subseteq Watched
<1>3. ASSUME UNCHANGED <<phase, polkit, conflicts>> PROVE MainOK'
  BY <1>2, <1>3 DEF MainOK
<1>4. ASSUME UNCHANGED <<calls, consent>> PROVE CallsOK'
  BY <1>2, <1>4 DEF CallsOK
<1>5. ASSUME UNCHANGED watchers PROVE WatchersOK'
  BY <1>2, <1>5 DEF WatchersOK, WatcherOK, Values
<1>6. ASSUME UNCHANGED world PROVE WorldOK'
  BY <1>2, <1>6 DEF WorldOK, Values
<1>7. ASSUME Startup PROVE Rest
  BY <1>2, <1>7, StartupTypeOK
<1>8. ASSUME Dies PROVE Rest
  BY <1>2, <1>8, DiesTypeOK
<1>9. ASSUME NEW w \in Watched, Watch(w) PROVE Rest
  BY <1>2, <1>3, <1>4, <1>6, <1>9, WatchTypeOK
<1>10. ASSUME NEW w \in Watched, Services(w) PROVE Rest
  BY <1>2, <1>3, <1>4, <1>10, ServicesTypeOK
<1>11. ASSUME NEW c \in Clients, Setter(c) PROVE Rest
  BY <1>2, <1>3, <1>5, <1>6, <1>11, SetterTypeOK
<1>12. ASSUME Tick \/ Engines \/ UNCHANGED allVars PROVE Rest
  <2>1. UNCHANGED daemon
    BY <1>12 DEF Tick, Engines, allVars
  <2> QED
    BY <1>2, <1>3, <1>4, <1>5, <1>6, <2>1 DEF daemon
<1>13. Rest
  <2> HIDE DEF Rest
  <2> QED
    BY <1>7, <1>8, <1>9, <1>10, <1>11, <1>12 DEF DaemonNext
<1>14. DaemonTypeOK' <=> TypeOK' /\ Rest
  BY DEF DaemonTypeOK, MainOK, CallsOK, WatchersOK, WatcherOK, WorldOK
<1> QED
  BY <1>1, <1>13, <1>14

(* The daemon's own state keeps its types, and no watcher ever reports a     *)
(* value it does not have.                                                  *)
THEOREM DaemonTypeCorrect == DaemonSpec => []DaemonTypeOK
BY DaemonInitTypeOK, DaemonStepTypeOK, PTL DEF DaemonSpec

(* Start-up, watchers, polkit and restarts only ever drive the engine in     *)
(* ways the Engine module allows: the engine's theorems hold of the daemon.  *)
THEOREM DaemonIsEngine == DaemonSpec => ImplementsEngine
<1>1. DaemonInit => Init
  BY DEF DaemonInit
<1>2. DaemonTypeOK /\ [DaemonNext]_allVars => [Next]_vars
  BY StepImplements
<1> QED
  BY <1>1, <1>2, DaemonTypeCorrect, PTL DEF DaemonSpec, ImplementsEngine, Spec

-----------------------------------------------------------------------------
(* No change is missed. *)

\* A cache holds what its service reports, unless the service came back
\* without a word; and a stream with nothing in it has been followed.
CacheIsCurrent(w) ==
  watchers[w].at \in Cached /\ w \notin silent /\ world[w] # Unset => watchers[w].heard = world[w]

StreamIsFollowed(w) ==
  watchers[w].at = "listen" /\ ~watchers[w].news /\ watchers[w].heard # Unset
    => Given(w) = watchers[w].heard

WatchInv == \A w \in Watched : CacheIsCurrent(w) /\ StreamIsFollowed(w)

\* The engine edits the input of a watcher for that watcher alone.
LEMMA EngineKeepsGiven ==
  ASSUME TypeOK, NEW w \in Watched, (Tick \/ Engines \/ UNCHANGED allVars \/ \E c \in Clients : Setter(c))
  PROVE  Given(w)' = Given(w) /\ UNCHANGED <<watchers, world, silent>>
<1>1. CASE Tick
  <2>1. inputs'.ppd_profile = inputs.ppd_profile /\ inputs'.on_battery = inputs.on_battery
    BY <1>1 DEF Tick, TickThermal, TypeOK, Inputs
  <2> QED
    BY <1>1, <2>1 DEF Tick, daemon, Given
<1>2. CASE Engines
  <2>1. UNCHANGED inputs
    BY <1>2 DEF Engines, Reconcile, NothingToDo, StartApply, Forget, Apply, Write, WriteFails,
                Unsupported, CheckThresholds, OrderThresholds
  <2> QED
    BY <1>2, <2>1 DEF Engines, daemon, Given
<1>3. CASE UNCHANGED allVars
  BY <1>3 DEF allVars, vars, daemon, Given
<1>4. ASSUME NEW c \in Clients, Setter(c) PROVE UNCHANGED <<inputs, watchers, world, silent>>
  <2>1. ASSUME NEW profile \in Requests, CallSetter(c, profile) PROVE UNCHANGED <<inputs, watchers, world, silent>>
    BY <2>1 DEF CallSetter, vars
  <2>2. ASSUME NEW profile \in Requests, CallUnchecked(c, profile) PROVE UNCHANGED <<inputs, watchers, world, silent>>
    BY <2>2 DEF CallUnchecked, ApplyManual, daemon
  <2>3. CASE Granted(c) \/ Denied(c)
    BY <2>3 DEF Granted, ApplyManual, Denied, vars
  <2> QED
    BY <1>4, <2>1, <2>2, <2>3 DEF Setter
<1> QED
  BY <1>1, <1>2, <1>3, <1>4 DEF Given

\* What a report changes: the input of the watcher that reports.
LEMMA TellSetsGiven ==
  ASSUME TypeOK, NEW w \in Watched, Tell(w)
  PROVE  /\ Given(w)' = watchers[w].heard
         /\ \A u \in Watched \ {w} : Given(u)' = Given(u)
<1>1. Watched \subseteq {"power_profiles", "power_source"}
  BY TasksAreTheDaemons DEF Watched
<1>2. CASE w = "power_profiles"
  BY <1>1, <1>2 DEF Tell, SetPpdProfile, Given, TypeOK, Inputs
<1>3. CASE w # "power_profiles"
  BY <1>1, <1>3 DEF Tell, SetOnBattery, Given, TypeOK, Inputs
<1> QED
  BY <1>2, <1>3

\* A watcher whose record, service and input stay as they are stays current.
LEMMA StaysCurrent ==
  ASSUME NEW w, CacheIsCurrent(w), StreamIsFollowed(w),
         watchers'[w] = watchers[w], world'[w] = world[w], Given(w)' = Given(w),
         w \in silent' <=> w \in silent
  PROVE  CacheIsCurrent(w)' /\ StreamIsFollowed(w)'
BY DEF CacheIsCurrent, StreamIsFollowed

LEMMA WatchKeepsCurrent ==
  ASSUME DaemonTypeOK, WatchInv, NEW w \in Watched, Watch(w)
  PROVE  WatchInv'
<1>1. TypeOK /\ DOMAIN watchers = Watched
  BY DEF DaemonTypeOK
<1>2. UNCHANGED world
  BY DEF Watch, Load, LoadFails, FirstReport, Subscribe, Follow
<1>3. CacheIsCurrent(w) /\ StreamIsFollowed(w)
  BY DEF WatchInv
<1>4. ASSUME NEW u \in Watched \ {w} PROVE CacheIsCurrent(u)' /\ StreamIsFollowed(u)'
  <2>1. watchers'[u] = watchers[u]
    BY <1>1 DEF Watch, Load, LoadFails, FirstReport, Subscribe, Follow
  <2>2. u \in silent' <=> u \in silent
    BY DEF Watch, Load, LoadFails, FirstReport, Subscribe, Follow
  <2>3. Given(u)' = Given(u)
    <3>1. CASE Tell(w)
      BY <1>1, <3>1, TellSetsGiven
    <3>2. CASE UNCHANGED vars
      BY <3>2 DEF vars, Given
    <3> QED
      BY <3>1, <3>2 DEF Watch, Load, LoadFails, FirstReport, Subscribe, Follow
  <2> QED
    BY <1>2, <2>1, <2>2, <2>3, StaysCurrent DEF WatchInv
<1>5. CASE Load(w)
  BY <1>1, <1>4, <1>5 DEF Load, WatchInv, CacheIsCurrent, StreamIsFollowed, Watcher
<1>6. CASE LoadFails(w)
  <2>1. w \in silent' /\ watchers'[w].at # "listen"
    BY <1>1, <1>6 DEF LoadFails, Watcher
  <2> QED
    BY <1>4, <2>1 DEF WatchInv, CacheIsCurrent, StreamIsFollowed
<1>7. CASE FirstReport(w)
  <2>1. /\ watchers'[w].at = "subscribe" /\ watchers'[w].heard = watchers[w].heard
        /\ silent' = silent /\ watchers[w].at \in Cached
    BY <1>1, <1>7 DEF FirstReport, Watcher, Cached
  <2> QED
    BY <1>2, <1>3, <1>4, <2>1 DEF WatchInv, CacheIsCurrent, StreamIsFollowed
<1>8. CASE Subscribe(w)
  <2>1. /\ watchers'[w].news = (watchers'[w].heard # Unset) /\ watchers'[w].heard = watchers[w].heard
        /\ silent' = silent /\ watchers[w].at \in Cached
    BY <1>1, <1>8 DEF Subscribe, Watcher, Cached
  <2> QED
    BY <1>2, <1>3, <1>4, <2>1 DEF WatchInv, CacheIsCurrent, StreamIsFollowed
<1>9. CASE Follow(w)
  <2>1. /\ watchers'[w].heard = watchers[w].heard
        /\ silent' = silent /\ watchers[w].at \in Cached
    BY <1>1, <1>9 DEF Follow, Watcher, Cached
  <2>2. Given(w)' = watchers'[w].heard
    BY <1>1, <1>9, <2>1, TellSetsGiven DEF Follow
  <2> QED
    BY <1>2, <1>3, <1>4, <2>1, <2>2 DEF WatchInv, CacheIsCurrent, StreamIsFollowed
<1> QED
  BY <1>5, <1>6, <1>7, <1>8, <1>9 DEF Watch

LEMMA ServicesKeepCurrent ==
  ASSUME DaemonTypeOK, WatchInv, NEW w \in Watched, Services(w)
  PROVE  WatchInv'
<1>1. DOMAIN watchers = Watched /\ DOMAIN world = Watched
  BY DEF DaemonTypeOK
<1>2. UNCHANGED inputs
  BY DEF Services, Leave, Announce, Return, vars
<1>3. CacheIsCurrent(w) /\ StreamIsFollowed(w)
  BY DEF WatchInv
<1>4. ASSUME NEW u \in Watched \ {w} PROVE CacheIsCurrent(u)' /\ StreamIsFollowed(u)'
  <2>1. watchers'[u] = watchers[u] /\ world'[u] = world[u] /\ (u \in silent' <=> u \in silent)
    BY <1>1 DEF Services, Leave, Announce, Return
  <2>2. Given(u)' = Given(u)
    BY <1>2 DEF Given
  <2> QED
    BY <2>1, <2>2, StaysCurrent DEF WatchInv
<1>5. CASE Leave(w)
  <2>1. world'[w] = Unset /\ UNCHANGED watchers
    BY <1>1, <1>5 DEF Leave
  <2> QED
    BY <1>2, <1>3, <1>4, <2>1 DEF WatchInv, CacheIsCurrent, StreamIsFollowed, Given
<1>6. ASSUME NEW value \in Values(w), Return(w, value) PROVE WatchInv'
  <2>1. w \in silent' /\ UNCHANGED watchers
    BY <1>6 DEF Return
  <2> QED
    BY <1>2, <1>3, <1>4, <2>1 DEF WatchInv, CacheIsCurrent, StreamIsFollowed, Given
<1>7. ASSUME NEW value \in Values(w), Announce(w, value) PROVE WatchInv'
  <2>1. world'[w] = value
    BY <1>1, <1>7 DEF Announce
  <2>2. CASE watchers[w].at \in Cached
    <3>1. watchers'[w] = Watcher(watchers[w].at, value, watchers[w].at = "listen")
      BY <1>1, <1>7, <2>2 DEF Announce
    <3>2. watchers'[w].heard = value
      BY <3>1 DEF Watcher
    <3>3. watchers'[w].at = "listen" => watchers'[w].news
      <4>1. watchers'[w].at = watchers[w].at
        BY <3>1 DEF Watcher
      <4>2. watchers'[w].news = (watchers[w].at = "listen")
        BY <3>1 DEF Watcher
      <4> QED
        BY <4>1, <4>2, Zenon
    <3> QED
      BY <1>4, <2>1, <3>2, <3>3 DEF WatchInv, CacheIsCurrent, StreamIsFollowed
  <2>3. CASE watchers[w].at \notin Cached
    <3>1. UNCHANGED watchers
      BY <1>7, <2>3 DEF Announce
    <3> QED
      BY <1>2, <1>3, <1>4, <2>3, <3>1 DEF WatchInv, CacheIsCurrent, StreamIsFollowed, Given, Cached
  <2> QED
    BY <2>2, <2>3
<1> QED
  BY <1>5, <1>6, <1>7 DEF Services

LEMMA StepKeepsCurrent == DaemonTypeOK /\ WatchInv /\ [DaemonNext]_allVars => WatchInv'
<1> SUFFICES ASSUME DaemonTypeOK, WatchInv, [DaemonNext]_allVars PROVE WatchInv'
  OBVIOUS
<1>1. TypeOK
  BY DEF DaemonTypeOK
<1>2. CASE Start \/ AskPolkit \/ AskSystemd
  <2>1. UNCHANGED <<inputs, watchers, world, silent>>
    BY <1>2 DEF Start, AskPolkit, AskSystemd, vars
  <2> QED
    BY <2>1 DEF WatchInv, CacheIsCurrent, StreamIsFollowed, Given
<1>3. CASE Publish \/ Dies
  <2>1. \A w \in Watched : watchers'[w].at \notin Cached
    BY <1>3 DEF Publish, Dies, Off, Watcher, Cached
  <2> QED
    BY <2>1 DEF WatchInv, CacheIsCurrent, StreamIsFollowed, Cached
<1>4. ASSUME NEW w \in Watched, Watch(w) \/ Services(w) PROVE WatchInv'
  BY <1>4, WatchKeepsCurrent, ServicesKeepCurrent
<1>5. CASE Tick \/ Engines \/ UNCHANGED allVars \/ \E c \in Clients : Setter(c)
  BY <1>1, <1>5, EngineKeepsGiven, StaysCurrent DEF WatchInv
<1> QED
  BY <1>2, <1>3, <1>4, <1>5 DEF DaemonNext, Startup

(* Between the first reading and the stream, in a burst, across restarts:   *)
(* whatever the order, a watcher with nothing left to follow has given the  *)
(* engine what its service reports.                                         *)
THEOREM InputsCurrent == DaemonSpec => []InputsAreCurrent
<1>1. DaemonInit => WatchInv
  BY DEF DaemonInit, WatchInv, CacheIsCurrent, StreamIsFollowed, Off, Watcher, Cached
<1>2. WatchInv => InputsAreCurrent
  BY DEF WatchInv, CacheIsCurrent, StreamIsFollowed, InputsAreCurrent, Audible, Cached
<1> QED
  BY <1>1, <1>2, StepKeepsCurrent, DaemonTypeCorrect, PTL DEF DaemonSpec

-----------------------------------------------------------------------------
(* Nothing is written for a client without polkit's consent. *)

\* What is asked of polkit is the action the change belongs to.
CallsAskRight ==
  \A c \in Clients : calls[c] # NoCall => calls[c].action = ActionFor(calls[c].profile)

\* The calls under way are those consent was given for; while polkit is not
\* used nobody waits for it.
ConsentInv ==
  /\ CallsAskRight
  /\ ~polkit => \A c \in Clients : calls[c] = NoCall
  /\ phase # "running" => \A c \in Clients : jobs[c].at = "idle" /\ calls[c] = NoCall
  /\ \A c \in Clients : calls[c] # NoCall => jobs[c].at = "idle"
  /\ polkit => \A c \in Clients : jobs[c].at # "idle" => consent[c] = ActionFor(jobs[c].profile)
  /\ phase \in {"dead", "polkit"} => ~polkit

\* A client's call keeps its profile until it returns.
LEMMA ApplyKeepsProfile ==
  ASSUME TypeOK, NEW w \in Workers, Apply(w)
  PROVE  jobs'[w].at = "idle" \/ jobs'[w].profile = jobs[w].profile
<1>1. jobs \in [Workers -> Job]
  BY DEF TypeOK
<1>2. ASSUME NEW rest, Proceed(w, rest) PROVE jobs'[w].at = "idle" \/ jobs'[w].profile = jobs[w].profile
  <2>1. [jobs[w] EXCEPT !.todo = rest].profile = jobs[w].profile
    BY <1>1 DEF Job
  <2> QED
    BY <1>1, <1>2, <2>1 DEF Proceed, Idle
<1>3. ASSUME Fail(w) PROVE jobs'[w].at = "idle" \/ jobs'[w].profile = jobs[w].profile
  <2>1. [jobs[w] EXCEPT !.at = "forget"].profile = jobs[w].profile
    BY <1>1 DEF Job
  <2> QED
    BY <1>1, <1>3, <2>1 DEF Fail, Idle
<1>4. Fail(w) \/ \E rest : Proceed(w, rest)
  BY DEF Apply, Write, WriteFails, Unsupported, CheckThresholds, OrderThresholds
<1> QED
  BY <1>2, <1>3, <1>4

\* The engine's own steps leave a client alone, or bring its call forward.
LEMMA EngineKeepsConsent ==
  ASSUME DaemonTypeOK, ConsentInv, UNCHANGED <<phase, polkit, calls, consent>>,
         \A c \in Clients : \/ jobs'[c] = jobs[c]
                            \/ jobs[c].at # "idle" /\ (jobs'[c].at = "idle" \/ jobs'[c].profile = jobs[c].profile)
  PROVE  ConsentInv'
BY DEF ConsentInv, CallsAskRight

LEMMA TasksLeaveClients ==
  ASSUME DaemonTypeOK, NEW t \in Tasks, Reconcile(t) \/ GoReconcile(t)
  PROVE  \A c \in Clients : jobs'[c] = jobs[c]
<1>1. jobs \in [Workers -> Job] /\ t \notin Clients /\ Clients \subseteq Workers
  BY ClientsAreNotTasks DEF DaemonTypeOK, TypeOK, Workers
<1> QED
  BY <1>1 DEF Reconcile, NothingToDo, StartApply, Forget, GoReconcile

LEMMA EnginesKeepConsent == DaemonTypeOK /\ ConsentInv /\ Engines => ConsentInv'
<1> SUFFICES ASSUME DaemonTypeOK, ConsentInv, Engines PROVE ConsentInv'
  OBVIOUS
<1>1. UNCHANGED <<phase, polkit, calls, consent>>
  BY DEF Engines, daemon
<1>2. ASSUME NEW t \in Tasks, Reconcile(t) PROVE ConsentInv'
  BY <1>1, <1>2, TasksLeaveClients, EngineKeepsConsent
<1>3. ASSUME NEW w \in Workers, Apply(w) PROVE ConsentInv'
  <2>1. TypeOK /\ Clients \subseteq Workers
    BY DEF DaemonTypeOK, Workers
  <2>2. jobs[w].at = "apply" /\ \A u \in Workers \ {w} : jobs'[u] = jobs[u]
    BY <1>3, <2>1, ApplyKeepsBelief
  <2>3. jobs'[w].at = "idle" \/ jobs'[w].profile = jobs[w].profile
    BY <1>3, <2>1, ApplyKeepsProfile
  <2> QED
    BY <1>1, <2>1, <2>2, <2>3, EngineKeepsConsent
<1> QED
  BY <1>2, <1>3 DEF Engines

LEMMA SetterKeepsConsent ==
  ASSUME DaemonTypeOK, ConsentInv, NEW c \in Clients, Setter(c)
  PROVE  ConsentInv'
<1>1. /\ jobs \in [Workers -> Job] /\ Clients \subseteq Workers
      /\ calls \in [Clients -> {NoCall} \cup [profile : Requests, action : Actions]]
      /\ consent \in [Clients -> Actions \cup {Unset}]
  BY DEF DaemonTypeOK, TypeOK, Workers
<1>2. ASSUME NEW profile \in Requests, CallSetter(c, profile) PROVE ConsentInv'
  BY <1>1, <1>2 DEF CallSetter, Free, vars, ConsentInv, CallsAskRight
<1>3. ASSUME NEW profile, ApplyManual(c, profile)
      PROVE  /\ jobs'[c].at = "apply" /\ jobs'[c].profile = profile
             /\ \A b \in Clients \ {c} : jobs'[b] = jobs[b]
  BY <1>1, <1>3 DEF ApplyManual, Applying
<1>4. ASSUME NEW profile \in Requests, CallUnchecked(c, profile) PROVE ConsentInv'
  <2>1. phase = "running" /\ ~polkit /\ UNCHANGED <<phase, polkit, calls, consent>>
    BY <1>4 DEF CallUnchecked, Free, daemon
  <2>2. calls[c] = NoCall /\ ApplyManual(c, profile)
    BY <1>4 DEF CallUnchecked, Free
  <2> QED
    BY <1>3, <2>1, <2>2 DEF ConsentInv, CallsAskRight
<1>5. CASE Granted(c)
  <2>1. /\ calls[c] # NoCall /\ ApplyManual(c, calls[c].profile)
        /\ consent' = [consent EXCEPT ![c] = calls[c].action]
        /\ calls' = [calls EXCEPT ![c] = NoCall]
        /\ UNCHANGED <<phase, polkit>>
    BY <1>5 DEF Granted
  <2>2. phase = "running" /\ calls[c].action = ActionFor(calls[c].profile)
    BY <2>1 DEF ConsentInv, CallsAskRight
  <2>3. consent'[c] = ActionFor(jobs'[c].profile)
    BY <1>1, <1>3, <2>1, <2>2
  <2> QED
    BY <1>1, <1>3, <2>1, <2>2, <2>3 DEF ConsentInv, CallsAskRight
<1>6. CASE Denied(c)
  BY <1>1, <1>6 DEF Denied, vars, ConsentInv, CallsAskRight
<1> QED
  BY <1>2, <1>4, <1>5, <1>6 DEF Setter

LEMMA StepKeepsConsent == DaemonTypeOK /\ ConsentInv /\ [DaemonNext]_allVars => ConsentInv'
<1> SUFFICES ASSUME DaemonTypeOK, ConsentInv, [DaemonNext]_allVars PROVE ConsentInv'
  OBVIOUS
<1>1. ASSUME UNCHANGED <<phase, polkit, calls, consent, jobs>> PROVE ConsentInv'
  BY <1>1, EngineKeepsConsent
<1>2. CASE Startup
  <2>1. UNCHANGED <<calls, consent, jobs>> /\ phase # "running" /\ phase' # "dead"
    BY <1>2 DEF Startup, Start, AskPolkit, AskSystemd, Publish, vars
  <2>2. phase' \in {"dead", "polkit"} => ~polkit'
    BY <1>2 DEF Startup, Start, AskPolkit, AskSystemd, Publish, ConsentInv
  <2> QED
    BY <2>1, <2>2 DEF ConsentInv, CallsAskRight
<1>3. CASE Dies
  <2>1. \A c \in Clients : jobs'[c].at = "idle"
    BY <1>3 DEF Dies, Crash, Workers, Idle
  <2>2. \A c \in Clients : calls'[c] = NoCall
    BY <1>3 DEF Dies
  <2>3. phase' = "dead" /\ ~polkit'
    BY <1>3 DEF Dies
  <2> QED
    BY <2>1, <2>2, <2>3 DEF ConsentInv, CallsAskRight
<1>4. ASSUME NEW w \in Watched, Watch(w) PROVE ConsentInv'
  <2>1. UNCHANGED <<phase, polkit, calls, consent>>
    BY <1>4 DEF Watch, Load, LoadFails, FirstReport, Subscribe, Follow
  <2>2. CASE UNCHANGED vars
    BY <1>1, <2>1, <2>2 DEF vars
  <2>3. CASE Tell(w)
    <3>1. \E t \in Tasks : GoReconcile(t)
      BY <2>3 DEF Tell, SetPpdProfile, SetOnBattery, GoReconcile
    <3> QED
      BY <2>1, <3>1, TasksLeaveClients, EngineKeepsConsent
  <2> QED
    BY <1>4, <2>2, <2>3 DEF Watch, Load, LoadFails, FirstReport, Subscribe, Follow
<1>5. ASSUME NEW w \in Watched, Services(w) PROVE ConsentInv'
  BY <1>1, <1>5 DEF Services, Leave, Announce, Return, vars
<1>6. ASSUME NEW c \in Clients, Setter(c) PROVE ConsentInv'
  BY <1>6, SetterKeepsConsent
<1>7. CASE Tick
  <2>1. UNCHANGED <<phase, polkit, calls, consent>>
    BY <1>7 DEF Tick, daemon
  <2>2. \E t \in Tasks : GoReconcile(t)
    BY <1>7 DEF Tick, TickThermal, GoReconcile
  <2> QED
    BY <2>1, <2>2, TasksLeaveClients, EngineKeepsConsent
<1>8. CASE Engines
  BY <1>8, EnginesKeepConsent
<1>9. CASE UNCHANGED allVars
  BY <1>1, <1>9 DEF allVars, vars, daemon
<1> QED
  BY <1>2, <1>3, <1>4, <1>5, <1>6, <1>7, <1>8, <1>9 DEF DaemonNext

(* However late polkit answers, whatever happens meanwhile and however many  *)
(* clients call: where polkit is in use, what is written for a client is     *)
(* what consent was given for.                                              *)
THEOREM Consented == DaemonSpec => []NoWriteWithoutConsent
<1>1. DaemonInit => ConsentInv
  BY DEF DaemonInit, Init, ConsentInv, CallsAskRight, Idle, Workers
<1>2. ConsentInv => NoWriteWithoutConsent
  BY DEF ConsentInv, NoWriteWithoutConsent, ActionFor, AsksForThresholds
<1> QED
  BY <1>1, <1>2, StepKeepsConsent, DaemonTypeCorrect, PTL DEF DaemonSpec

-----------------------------------------------------------------------------
(* The units that write the threshold too are known to whoever can call. *)

ConflictsAsked ==
  phase \in {"publish", "running"}
    => conflicts = IF UnitFiles = Unset THEN {} ELSE EnabledWriters(UnitFiles)

LEMMA StepKeepsConflicts == ConflictsAsked /\ [DaemonNext]_allVars => ConflictsAsked'
<1> SUFFICES ASSUME ConflictsAsked, [DaemonNext]_allVars PROVE ConflictsAsked'
  OBVIOUS
<1>1. CASE Startup
  BY <1>1 DEF Startup, Start, AskPolkit, AskSystemd, Publish, ConflictsAsked
<1>2. CASE Dies
  BY <1>2 DEF Dies, ConflictsAsked
<1>3. ASSUME UNCHANGED <<phase, conflicts>> PROVE ConflictsAsked'
  BY <1>3 DEF ConflictsAsked
<1>4. ASSUME NEW w \in Watched, Watch(w) \/ Services(w) PROVE UNCHANGED <<phase, conflicts>>
  BY <1>4 DEF Watch, Load, LoadFails, FirstReport, Subscribe, Follow, Services, Leave, Announce, Return
<1>5. ASSUME NEW c \in Clients, Setter(c) PROVE UNCHANGED <<phase, conflicts>>
  BY <1>5 DEF Setter, CallSetter, CallUnchecked, Granted, Denied, daemon
<1>6. CASE Tick \/ Engines \/ UNCHANGED allVars
  BY <1>3, <1>6 DEF Tick, Engines, allVars, daemon
<1> QED
  BY <1>1, <1>2, <1>3, <1>4, <1>5, <1>6 DEF DaemonNext

(* conflicts.rs:39-66 is asked before the name is claimed (main.rs:74-107): *)
(* no client ever reads the answer of before, nor one unit too few or many. *)
THEOREM ConflictsKnown == DaemonSpec => []ConflictsAreKnown
<1>1. DaemonInit => ConflictsAsked
  BY DEF DaemonInit, ConflictsAsked
<1>2. ConflictsAsked => ConflictsAreKnown
  <2> SUFFICES ASSUME ConflictsAsked, phase = "running", UnitFiles # Unset, NEW unit \in KnownWriters
               PROVE  unit \in conflicts <=> \E state \in ActiveStates : <<unit, state>> \in UnitFiles
    BY DEF ConflictsAreKnown
  <2>1. unit \in conflicts <=> \E file \in UnitFiles : file[2] \in ActiveStates /\ file[1] = unit
    BY DEF ConflictsAsked, EnabledWriters
  <2>2. ASSUME NEW file \in UnitFiles, file[2] \in ActiveStates, file[1] = unit
        PROVE  <<unit, file[2]>> \in UnitFiles
    BY <2>2, UnitFilesArePairs
  <2>3. ASSUME NEW state \in ActiveStates, <<unit, state>> \in UnitFiles
        PROVE  \E file \in UnitFiles : file[2] \in ActiveStates /\ file[1] = unit
    BY <2>3
  <2> QED
    BY <2>1, <2>2, <2>3
<1> QED
  BY <1>1, <1>2, StepKeepsConflicts, PTL DEF DaemonSpec

-----------------------------------------------------------------------------
(* From what the services report to what the hardware is in. *)

(* What has been proved of the engine under any reports holds of the daemon, *)
(* whose reports come from zbus and whose clients have been let through by   *)
(* polkit: no edit is lost, the belief is what the hardware is in, and the  *)
(* fans of a tripped guard are loud.                                        *)
THEOREM DaemonBelief ==
  DaemonSpec => [](BeliefIsCurrent /\ BeliefMatchesHardware /\ DaemonKeepsFansLoud)
BY DaemonIsEngine, BeliefCurrent, BeliefMatches, FansLoud, PTL DEF ImplementsEngine

\* What nobody watches stays as Inputs::default() has it.
UntoldIsDefault ==
  /\ "power_profiles" \notin Tasks => inputs.ppd_profile = Unset
  /\ "power_source" \notin Tasks => inputs.on_battery = FALSE

LEMMA StepKeepsUntold == TypeOK /\ UntoldIsDefault /\ [Next]_vars => UntoldIsDefault'
<1> SUFFICES ASSUME TypeOK, UntoldIsDefault, [Next]_vars PROVE UntoldIsDefault'
  OBVIOUS
<1>1. ASSUME NEW name, SetPpdProfile(name) PROVE UntoldIsDefault'
  BY <1>1 DEF SetPpdProfile, GoReconcile, UntoldIsDefault, TypeOK, Inputs
<1>2. ASSUME NEW on_battery, SetOnBattery(on_battery) PROVE UntoldIsDefault'
  BY <1>2 DEF SetOnBattery, GoReconcile, UntoldIsDefault, TypeOK, Inputs
<1>3. ASSUME NEW temp, NEW elapsed, TickThermal(temp, elapsed) PROVE UntoldIsDefault'
  <2>1. inputs'.ppd_profile = inputs.ppd_profile /\ inputs'.on_battery = inputs.on_battery
    BY <1>3 DEF TickThermal, TypeOK, Inputs
  <2> QED
    BY <2>1 DEF UntoldIsDefault
<1>4. ASSUME UNCHANGED inputs PROVE UntoldIsDefault'
  BY <1>4 DEF UntoldIsDefault
<1>5. ASSUME NEW t \in Tasks, Reconcile(t) PROVE UNCHANGED inputs
  BY <1>5 DEF Reconcile, NothingToDo, StartApply, Forget
<1>6. ASSUME NEW w \in Workers, Apply(w) PROVE UNCHANGED inputs
  BY <1>6 DEF Apply, Write, WriteFails, Unsupported, CheckThresholds, OrderThresholds
<1>7. ASSUME NEW c \in Clients, NEW profile \in Requests, ApplyManual(c, profile) PROVE UNCHANGED inputs
  BY <1>7 DEF ApplyManual
<1>8. CASE Crash
  BY <1>8 DEF Crash, NewInputs, UntoldIsDefault
<1>9. CASE UNCHANGED vars
  BY <1>4, <1>9 DEF vars
<1> QED
  BY <1>1, <1>2, <1>3, <1>4, <1>5, <1>6, <1>7, <1>8, <1>9 DEF Next, Handler

LEMMA UntoldDefault == DaemonSpec => []UntoldIsDefault
<1>1. Init => UntoldIsDefault
  BY DEF Init, NewInputs, UntoldIsDefault
<1>2. Spec => []UntoldIsDefault
  BY <1>1, StepKeepsUntold, TypeCorrect, PTL DEF Spec
<1> QED
  BY <1>2, DaemonIsEngine, PTL DEF ImplementsEngine

\* With the services' values for inputs, decide is what is wanted.
LEMMA DecideIsWanted ==
  ASSUME TypeOK, UntoldIsDefault, Config.on_battery["charge_start_threshold"] = Unset,
         \A w \in Watched : Given(w) = world[w],
         NEW a \in Attrs, ~(a = "fan_mode" /\ inputs.thermal_tripped)
  PROVE  Decide(inputs)[a] = Wanted(a)
<1> DEFINE profile == ForProfile(inputs.ppd_profile)
           powered == IF inputs.on_battery THEN Overlay(profile, Config.on_battery) ELSE profile
<1>1. profile \in HwProfile /\ Config.on_battery \in HwProfile
  BY ForProfileIsProfile, ConfigIsTyped
<1>2. powered[a] = IF inputs.on_battery /\ Config.on_battery[a] # Unset THEN Config.on_battery[a] ELSE profile[a]
  <2>1. CASE inputs.on_battery
    <3> HIDE DEF profile
    <3>1. Overlay(profile, Config.on_battery)[a] = OrElse(Config.on_battery[a], profile[a])
      BY <1>1, OverlayFields
    <3> QED
      BY <2>1, <3>1 DEF OrElse
  <2>2. CASE ~inputs.on_battery
    BY <2>2
  <2> QED
    BY <2>1, <2>2
<1>3. Decide(inputs)[a] = powered[a]
  <2>1. powered \in HwProfile
    BY <1>1, OverlayIsProfile
  <2>2. Decide(inputs) = IF inputs.thermal_tripped THEN [powered EXCEPT !.fan_mode = "aggressive"] ELSE powered
    BY DEF Decide
  <2> HIDE DEF powered
  <2>3. CASE a # "fan_mode"
    <3>1. a \in DOMAIN powered
      BY <2>1 DEF HwProfile, Attrs
    <3> QED
      BY <2>2, <2>3, <3>1
  <2>4. CASE a = "fan_mode"
    BY <2>2, <2>4
  <2> QED
    BY <2>3, <2>4
<1>4. inputs.on_battery <=> "power_source" \in Watched /\ world["power_source"] = TRUE
  <2>1. "power_source" \in Watched <=> "power_source" \in Tasks
    BY DEF Watched
  <2>2. inputs.on_battery \in BOOLEAN
    BY DEF TypeOK, Inputs
  <2>3. "power_source" \in Watched => inputs.on_battery = world["power_source"]
    BY DEF Given
  <2> QED
    BY <2>1, <2>2, <2>3 DEF UntoldIsDefault
<1>5. profile = IF "power_profiles" \in Watched THEN ForProfile(world["power_profiles"]) ELSE NoChange
  <2>1. "power_profiles" \in Watched <=> "power_profiles" \in Tasks
    BY DEF Watched
  <2>2. "power_profiles" \in Watched => inputs.ppd_profile = world["power_profiles"]
    BY DEF Given
  <2>3. ForProfile(Unset) = NoChange
    BY ConfigIsTyped, UnsetIsNoValue DEF ForProfile
  <2> QED
    BY <2>1, <2>2, <2>3 DEF UntoldIsDefault
<1> HIDE DEF profile, powered
<1> QED
  BY <1>2, <1>3, <1>4, <1>5 DEF Wanted

(* A daemon at rest that believes a profile applied has the hardware in what *)
(* the services call for, through zbus's cache, the two lock scopes and the *)
(* writes, unless the last automatic apply was started into another; the    *)
(* fans of a tripped guard and what a client wrote last excepted; for an    *)
(* overlay that says nothing about the start threshold, which it would drop. *)
THEOREM HardwareSettled ==
  ASSUME Config.on_battery["charge_start_threshold"] = Unset
  PROVE  DaemonSpec => []SettledHardware
<1>1. DaemonTypeOK /\ InputsAreCurrent /\ UntoldIsDefault /\ BeliefIsCurrent /\ BeliefMatchesHardware
      => SettledHardware
  <2> SUFFICES ASSUME DaemonTypeOK, InputsAreCurrent, UntoldIsDefault, BeliefIsCurrent, BeliefMatchesHardware,
                      ~overlapped, AllIdle, applied # Unset,
                      \A w \in Watched : watchers[w].at = "listen" /\ ~watchers[w].news /\ Audible(w),
                      NEW a \in Attrs, Wanted(a) # Unset, ~(a = "fan_mode" /\ inputs.thermal_tripped)
               PROVE  hw[a] = Wanted(a) \/ author[a] = "client"
    BY DEF SettledHardware
  <2>1. TypeOK
    BY DEF DaemonTypeOK
  <2>2. \A w \in Watched : Given(w) = world[w]
    BY DEF InputsAreCurrent
  <2>3. Decide(inputs)[a] = Wanted(a)
    BY <2>1, <2>2, DecideIsWanted
  <2>4. ~IsEmpty(Decide(inputs))
    BY <2>3 DEF IsEmpty, NoChange
  <2>5. NoneInFlight /\ \A t \in Tasks : jobs[t].at # "reconcile"
    BY DEF AllIdle, NoneInFlight, InFlight
  <2>6. applied = Decide(inputs)
    BY <2>4, <2>5 DEF BeliefIsCurrent, Believed
  <2> QED
    BY <2>3, <2>5, <2>6 DEF BeliefMatchesHardware
<1> QED
  BY <1>1, DaemonTypeCorrect, InputsCurrent, UntoldDefault, DaemonBelief, PTL

-----------------------------------------------------------------------------
(* Where what is decided can be written, and the charge limits make sense. *)

\* The watchers wait for the next change, and the tasks have nothing to do.
AtRest ==
  AllIdle /\ \A w \in Watched : watchers[w].at = "listen" /\ ~watchers[w].news /\ Audible(w)

InPlace ==
  \A a \in Attrs :
    Wanted(a) # Unset /\ ~(a = "fan_mode" /\ inputs.thermal_tripped)
      => hw[a] = Wanted(a) \/ author[a] = "client"

(* Through zbus, polkit and restarts, for whatever the services report: if   *)
(* clients leave the charge limits alone, the kernel refuses no threshold   *)
(* that passed the check, and a pair that makes sense is in place at rest,  *)
(* unless the last automatic apply was started into another.                *)
THEOREM DaemonLimits ==
  ASSUME ClientsLeaveLimits, DecisionsFit, BootIsReadable
  PROVE  DaemonSpec => [](~overlapped => KernelNeverRefuses /\ ValidPairsLand)
BY DaemonIsEngine, RefusalNeedsOverlap, LandingNeedsNoOverlap, PTL DEF ImplementsEngine

(* HardwareSettled, and that a daemon at rest has not given up on a decision *)
(* (which HardwareSettled takes for granted): where decisions can be        *)
(* written, limits make sense and clients leave them alone, whatever the    *)
(* services reported and however often it was started again, unless the     *)
(* last automatic apply was started into another.                           *)
THEOREM SettledForGood ==
  ASSUME ClientsLeaveLimits, DecisionsFit, LimitsMakeSense, BootIsReadable,
         Config.on_battery["charge_start_threshold"] = Unset
  PROVE  DaemonSpec => [](~overlapped /\ AtRest => InPlace)
<1>1. /\ DaemonTypeOK /\ InputsAreCurrent /\ UntoldIsDefault /\ SettledHardware /\ LandInv
      => (~overlapped /\ AtRest => InPlace)
  <2> SUFFICES ASSUME DaemonTypeOK, InputsAreCurrent, UntoldIsDefault, SettledHardware, LandInv,
                      ~overlapped, AtRest,
                      NEW a \in Attrs, Wanted(a) # Unset, ~(a = "fan_mode" /\ inputs.thermal_tripped)
               PROVE  hw[a] = Wanted(a) \/ author[a] = "client"
    BY DEF InPlace
  <2>1. TypeOK /\ inputs \in Inputs
    BY DEF DaemonTypeOK, TypeOK
  <2>2. \A w \in Watched : Given(w) = world[w]
    BY DEF InputsAreCurrent, AtRest
  <2>3. Decide(inputs)[a] = Wanted(a)
    BY <2>1, <2>2, DecideIsWanted
  <2>4. ~IsEmpty(Decide(inputs))
    BY <2>3 DEF IsEmpty, NoChange
  <2>5. \A t \in Tasks : jobs[t].at # "reconcile"
    BY DEF AtRest, AllIdle
  <2>6. applied # Unset
    BY <2>1, <2>4, <2>5 DEF LandInv, LimitsMakeSense
  <2> QED
    BY <2>6 DEF SettledHardware, AtRest
<1>2. DaemonSpec => []LandInv
  BY DaemonIsEngine, LandHolds, PTL DEF ImplementsEngine
<1> QED
  BY <1>1, <1>2, DaemonTypeCorrect, InputsCurrent, UntoldDefault, HardwareSettled, PTL
=============================================================================
