---------------------------- MODULE EngineProofs ----------------------------
(***************************************************************************)
(* The engine's safety properties for every configuration, machine, set of *)
(* tasks and number of clients, whatever writes fail.                      *)
(***************************************************************************)
EXTENDS Engine, ThermalLemmas

-----------------------------------------------------------------------------
(* Types of the operators the engine is built from. *)

LEMMA NoChangeIsProfile == NoChange \in HwProfile
BY DEF NoChange, HwProfile, Attrs, Option

LEMMA OverlayIsProfile ==
  ASSUME NEW base \in HwProfile, NEW over \in HwProfile
  PROVE  Overlay(base, over) \in HwProfile
<1>1. /\ OrElse(over.power_level, base.power_level) \in Option(PowerLevel)
      /\ OrElse(over.fan_mode, base.fan_mode) \in Option(FanMode)
      /\ OrElse(over.cooler_boost, base.cooler_boost) \in Option(BOOLEAN)
      /\ OrElse(over.battery_saver, base.battery_saver) \in Option(BOOLEAN)
      /\ OrElse(over.charge_end_threshold, base.charge_end_threshold) \in Option(U8)
  BY DEF OrElse, HwProfile
<1> QED
  BY <1>1 DEF Overlay, HwProfile

LEMMA ForProfileIsProfile ==
  ASSUME NEW name
  PROVE  ForProfile(name) \in HwProfile
BY ConfigIsTyped, NoChangeIsProfile DEF ForProfile

\* decide always yields a profile, whatever the inputs.
LEMMA DecideIsProfile ==
  ASSUME NEW i \in Inputs
  PROVE  Decide(i) \in HwProfile
<1> DEFINE profile == ForProfile(i.ppd_profile)
           powered == IF i.on_battery THEN Overlay(profile, Config.on_battery) ELSE profile
<1>1. profile \in HwProfile
  BY ForProfileIsProfile
<1>2. powered \in HwProfile
  BY <1>1, OverlayIsProfile, ConfigIsTyped
<1>3. [powered EXCEPT !.fan_mode = "aggressive"] \in HwProfile
  <2> HIDE DEF powered
  <2> QED
    BY <1>2 DEF HwProfile, Option, FanMode
<1> QED
  BY <1>2, <1>3 DEF Decide

LEMMA AskedIsSeq ==
  ASSUME NEW profile, NEW a \in Attrs
  PROVE  Asked(profile, a) \in Seq(Steps)
<1>1. a \in Steps
  BY DEF Steps
<1>2. <<a>> \in Seq(Steps) /\ << >> \in Seq(Steps)
  BY <1>1
<1> QED
  BY <1>2 DEF Asked

LEMMA TodoIsSeq ==
  ASSUME NEW profile
  PROVE  Todo(profile) \in Seq(Steps)
<1>1. /\ Asked(profile, "power_level") \in Seq(Steps)
      /\ Asked(profile, "fan_mode") \in Seq(Steps)
      /\ Asked(profile, "cooler_boost") \in Seq(Steps)
      /\ Asked(profile, "battery_saver") \in Seq(Steps)
  BY AskedIsSeq DEF Attrs
<1>2. (IF AsksForThresholds(profile) THEN <<"check", "order">> ELSE << >>) \in Seq(Steps)
  <2>1. "check" \in Steps /\ "order" \in Steps
    BY DEF Steps
  <2>2. <<"check", "order">> \in Seq(Steps) /\ << >> \in Seq(Steps)
    BY <2>1
  <2> QED
    BY <2>2
<1> QED
  BY <1>1, <1>2 DEF Todo

LEMMA ChargeWritesIsSeq ==
  ASSUME NEW profile, NEW hardware
  PROVE  ChargeWrites(profile, hardware) \in Seq(Steps)
<1>1. /\ Asked(profile, "charge_end_threshold") \in Seq(Steps)
      /\ Asked(profile, "charge_start_threshold") \in Seq(Steps)
  BY AskedIsSeq DEF Attrs
<1> QED
  BY <1>1 DEF ChargeWrites

\* A write leaves the hardware in a state the types allow, with the attribute
\* written in place and the others as they were.
LEMMA KernelWriteIsHardware ==
  ASSUME NEW hardware \in HwProfile, NEW profile \in HwProfile, NEW a \in Attrs
  PROVE  /\ KernelWrite(hardware, a, profile[a]) \in HwProfile
         /\ KernelWrite(hardware, a, profile[a])[a] = profile[a]
         /\ \A b \in Attrs \ {a} : KernelWrite(hardware, a, profile[a])[b] = hardware[b]
BY DEF KernelWrite, HwProfile, Attrs

LEMMA IdleIsJob == Idle \in Job /\ [Idle EXCEPT !.at = "reconcile"] \in Job
<1>1. << >> \in Seq(Steps)
  OBVIOUS
<1> QED
  BY <1>1, NoChangeIsProfile DEF Idle, Job

LEMMA ApplyingIsJob ==
  ASSUME NEW profile \in HwProfile
  PROVE  Applying(profile) \in Job
BY TodoIsSeq DEF Applying, Job

-----------------------------------------------------------------------------
(* Type correctness. *)

LEMMA InitTypeOK == Init => TypeOK
<1> SUFFICES ASSUME Init PROVE TypeOK
  OBVIOUS
<1>1. inputs \in Inputs
  BY DEF Init, NewInputs, Inputs, Option
<1>2. guard \in Guards
  BY NewGuardIsGuard DEF Init
<1>3. hw \in HwProfile
  BY BootIsHardware DEF Init
<1>4. jobs \in [Workers -> Job]
  BY IdleIsJob DEF Init
<1>5. author \in [Attrs -> Authors]
  BY DEF Init, Authors
<1> QED
  BY <1>1, <1>2, <1>3, <1>4, <1>5 DEF Init, TypeOK, Option

LEMMA GoReconcileIsTyped ==
  ASSUME TypeOK, NEW t, GoReconcile(t)
  PROVE  jobs' \in [Workers -> Job]
BY IdleIsJob DEF TypeOK, GoReconcile

LEMMA ProceedIsTyped ==
  ASSUME TypeOK, NEW w \in Workers, NEW rest \in Seq(Steps), Proceed(w, rest)
  PROVE  jobs' \in [Workers -> Job]
<1>1. [jobs[w] EXCEPT !.todo = rest] \in Job
  BY DEF TypeOK, Job
<1> QED
  BY <1>1, IdleIsJob DEF TypeOK, Proceed

LEMMA FailIsTyped ==
  ASSUME TypeOK, NEW w \in Workers, Fail(w)
  PROVE  jobs' \in [Workers -> Job]
<1>1. [jobs[w] EXCEPT !.at = "forget"] \in Job
  BY DEF TypeOK, Job
<1> QED
  BY <1>1, IdleIsJob DEF TypeOK, Fail

\* What is left of a call after its next step.
LEMMA TailIsTyped ==
  ASSUME TypeOK, NEW w \in Workers, NEW step, At(w, step)
  PROVE  /\ jobs[w] \in Job
         /\ jobs[w].profile \in HwProfile
         /\ jobs[w].todo \in Seq(Steps)
         /\ Tail(jobs[w].todo) \in Seq(Steps)
<1>1. jobs[w] \in Job
  BY DEF TypeOK
<1>2. jobs[w].todo \in Seq(Steps) /\ jobs[w].todo # << >>
  BY <1>1 DEF At, Job
<1>3. Tail(jobs[w].todo) \in Seq(Steps)
  BY <1>2
<1> QED
  BY <1>1, <1>2, <1>3 DEF Job

LEMMA HandlerTypeOK == TypeOK /\ Handler => TypeOK'
<1> SUFFICES ASSUME TypeOK, Handler PROVE TypeOK'
  OBVIOUS
<1>1. ASSUME NEW name \in PpdProfiles, SetPpdProfile(name) PROVE TypeOK'
  <2>1. jobs' \in [Workers -> Job]
    BY <1>1, GoReconcileIsTyped DEF SetPpdProfile
  <2>2. inputs' \in Inputs
    BY <1>1, PpdProfilesAreNames DEF SetPpdProfile, TypeOK, Inputs
  <2> QED
    BY <1>1, <2>1, <2>2 DEF SetPpdProfile, GoReconcile, TypeOK
<1>2. ASSUME NEW on_battery \in BOOLEAN, SetOnBattery(on_battery) PROVE TypeOK'
  <2>1. jobs' \in [Workers -> Job]
    BY <1>2, GoReconcileIsTyped DEF SetOnBattery
  <2>2. inputs' \in Inputs
    BY <1>2 DEF SetOnBattery, TypeOK, Inputs
  <2> QED
    BY <1>2, <2>1, <2>2 DEF SetOnBattery, GoReconcile, TypeOK
<1>3. ASSUME NEW temp \in Readings, NEW elapsed \in Gaps, TickThermal(temp, elapsed)
      PROVE  TypeOK'
  <2>1. jobs' \in [Workers -> Job]
    BY <1>3, GoReconcileIsTyped DEF TickThermal
  <2>2. guard' \in Guards
    <3>1. temp \in Option(U8) /\ elapsed \in Nat
      BY ReadingsAreOptionalU8, GapsAreSeconds
    <3>2. Config.thermal \in ThermalConfig
      BY ConfigIsTyped
    <3> QED
      BY <1>3, <3>1, <3>2, UpdateIsGuard DEF TickThermal, TypeOK
  <2>3. inputs' \in Inputs
    BY <1>3, <2>2, GuardFields DEF TickThermal, TypeOK, Inputs
  <2> QED
    BY <1>3, <2>1, <2>2, <2>3 DEF TickThermal, GoReconcile, TypeOK
<1> QED
  BY <1>1, <1>2, <1>3 DEF Handler

LEMMA ReconcileTypeOK ==
  ASSUME TypeOK, NEW t \in Tasks, Reconcile(t)
  PROVE  TypeOK'
<1>1. CASE NothingToDo(t)
  BY <1>1, IdleIsJob DEF NothingToDo, TypeOK
<1>2. CASE StartApply(t)
  <2>1. Decide(inputs) \in HwProfile
    BY DecideIsProfile DEF TypeOK
  <2>2. Applying(Decide(inputs)) \in Job
    BY <2>1, ApplyingIsJob
  <2>3. jobs' \in [Workers -> Job]
    BY <1>2, <2>2 DEF StartApply, TypeOK
  <2>4. overlapped' \in BOOLEAN
    BY <1>2 DEF StartApply, TypeOK
  <2> QED
    BY <1>2, <2>1, <2>3, <2>4 DEF StartApply, TypeOK, Option
<1>3. CASE Forget(t)
  BY <1>3, IdleIsJob DEF Forget, TypeOK, Option
<1> QED
  BY <1>1, <1>2, <1>3 DEF Reconcile

LEMMA ApplyTypeOK ==
  ASSUME TypeOK, NEW w \in Workers, Apply(w)
  PROVE  TypeOK'
<1>1. ASSUME NEW a \in Attrs, Write(w, a) PROVE TypeOK'
  <2>1. jobs[w].profile \in HwProfile /\ Tail(jobs[w].todo) \in Seq(Steps)
    BY <1>1, TailIsTyped DEF Write
  <2>2. jobs' \in [Workers -> Job]
    BY <1>1, <2>1, ProceedIsTyped DEF Write
  <2>3. hw' \in HwProfile
    BY <1>1, <2>1, KernelWriteIsHardware DEF Write, TypeOK
  <2>4. author' \in [Attrs -> Authors]
    BY <1>1 DEF Write, TypeOK, Authors
  <2> QED
    BY <1>1, <2>2, <2>3, <2>4 DEF Write, TypeOK
<1>2. ASSUME NEW a \in Attrs, WriteFails(w, a) PROVE TypeOK'
  BY <1>2, FailIsTyped DEF WriteFails, TypeOK
<1>3. ASSUME NEW a \in Attrs, Unsupported(w, a) PROVE TypeOK'
  BY <1>3, FailIsTyped DEF Unsupported, TypeOK
<1>4. CASE CheckThresholds(w)
  <2>1. Tail(jobs[w].todo) \in Seq(Steps)
    BY <1>4, TailIsTyped DEF CheckThresholds
  <2>2. jobs' \in [Workers -> Job]
    BY <1>4, <2>1, ProceedIsTyped, FailIsTyped DEF CheckThresholds
  <2> QED
    BY <1>4, <2>2 DEF CheckThresholds, TypeOK
<1>5. CASE OrderThresholds(w)
  <2>1. jobs' \in [Workers -> Job]
    BY <1>5, ChargeWritesIsSeq, ProceedIsTyped DEF OrderThresholds
  <2> QED
    BY <1>5, <2>1 DEF OrderThresholds, TypeOK
<1> QED
  BY <1>1, <1>2, <1>3, <1>4, <1>5 DEF Apply

LEMMA CrashTypeOK == TypeOK /\ Crash => TypeOK'
<1> SUFFICES ASSUME TypeOK, Crash PROVE TypeOK'
  OBVIOUS
<1>1. inputs' \in Inputs
  BY DEF Crash, NewInputs, Inputs, Option
<1>2. guard' \in Guards
  BY NewGuardIsGuard DEF Crash
<1>3. jobs' \in [Workers -> Job]
  BY IdleIsJob DEF Crash
<1> QED
  BY <1>1, <1>2, <1>3 DEF Crash, TypeOK, Option

LEMMA StepTypeOK == TypeOK /\ [Next]_vars => TypeOK'
<1> SUFFICES ASSUME TypeOK, [Next]_vars PROVE TypeOK'
  OBVIOUS
<1>1. CASE Handler
  BY <1>1, HandlerTypeOK
<1>2. ASSUME NEW t \in Tasks, Reconcile(t) PROVE TypeOK'
  BY <1>2, ReconcileTypeOK
<1>3. ASSUME NEW c \in Clients, NEW profile \in Requests, ApplyManual(c, profile)
      PROVE  TypeOK'
  <2>1. Applying(profile) \in Job
    BY RequestsAskSomething, ApplyingIsJob
  <2> QED
    BY <1>3, <2>1 DEF ApplyManual, TypeOK
<1>4. ASSUME NEW w \in Workers, Apply(w) PROVE TypeOK'
  BY <1>4, ApplyTypeOK
<1>5. CASE Crash
  BY <1>5, CrashTypeOK
<1>6. CASE UNCHANGED vars
  BY <1>6 DEF vars, TypeOK
<1> QED
  BY <1>1, <1>2, <1>3, <1>4, <1>5, <1>6 DEF Next

(* The mutex-protected State, the sysfs values and the calls in progress    *)
(* keep their types: no step writes a value the attribute cannot hold.     *)
THEOREM TypeCorrect == Spec => []TypeOK
BY InitTypeOK, StepTypeOK, PTL DEF Spec

-----------------------------------------------------------------------------
(* The belief is current: nothing but the two lock scopes is involved.     *)

\* A step of Backend::apply leaves the reconciling tasks and the mutex alone.
LEMMA ApplyKeepsBelief ==
  ASSUME TypeOK, NEW w \in Workers, Apply(w)
  PROVE  /\ UNCHANGED <<inputs, guard, applied, overlapped, started>>
         /\ jobs[w].at = "apply"
         /\ \A u \in Workers \ {w} : jobs'[u] = jobs[u]
         /\ \A u \in Workers : jobs'[u].at = "reconcile" <=> jobs[u].at = "reconcile"
<1>1. jobs \in [Workers -> Job]
  BY DEF TypeOK
<1>2. ASSUME NEW rest, Proceed(w, rest), jobs[w].at = "apply"
      PROVE  /\ \A u \in Workers \ {w} : jobs'[u] = jobs[u]
             /\ jobs'[w].at # "reconcile"
  <2>1. [jobs[w] EXCEPT !.todo = rest].at = "apply"
    BY <1>1, <1>2 DEF Job
  <2> QED
    BY <1>1, <1>2, <2>1 DEF Proceed, Idle
<1>3. ASSUME Fail(w), jobs[w].at = "apply"
      PROVE  /\ \A u \in Workers \ {w} : jobs'[u] = jobs[u]
             /\ jobs'[w].at # "reconcile"
  <2>1. [jobs[w] EXCEPT !.at = "forget"].at = "forget"
    BY <1>1 DEF Job
  <2> QED
    BY <1>1, <1>3, <2>1 DEF Fail, Idle
<1>4. ASSUME NEW a \in Attrs, Write(w, a) \/ WriteFails(w, a) \/ Unsupported(w, a)
      PROVE  /\ UNCHANGED <<inputs, guard, applied, overlapped, started>>
             /\ jobs[w].at = "apply"
             /\ Fail(w) \/ \E rest : Proceed(w, rest)
  BY <1>4 DEF Write, WriteFails, Unsupported, At
<1>5. ASSUME CheckThresholds(w) \/ OrderThresholds(w)
      PROVE  /\ UNCHANGED <<inputs, guard, applied, overlapped, started>>
             /\ jobs[w].at = "apply"
             /\ Fail(w) \/ \E rest : Proceed(w, rest)
  BY <1>5 DEF CheckThresholds, OrderThresholds, At
<1>6. /\ UNCHANGED <<inputs, guard, applied, overlapped, started>>
      /\ jobs[w].at = "apply"
      /\ Fail(w) \/ \E rest : Proceed(w, rest)
  BY <1>4, <1>5 DEF Apply
<1> QED
  BY <1>2, <1>3, <1>6

LEMMA InitBeliefIsCurrent == Init => BeliefIsCurrent
BY DEF Init, BeliefIsCurrent

LEMMA StepBeliefIsCurrent == TypeOK /\ BeliefIsCurrent /\ [Next]_vars => BeliefIsCurrent'
<1> SUFFICES ASSUME TypeOK, BeliefIsCurrent, [Next]_vars PROVE BeliefIsCurrent'
  OBVIOUS
<1>1. jobs \in [Workers -> Job] /\ Tasks \subseteq Workers
  BY DEF TypeOK, Workers
<1>2. ASSUME NEW t, GoReconcile(t) PROVE BeliefIsCurrent'
  <2>1. t \in Tasks /\ jobs'[t].at = "reconcile"
    BY <1>1, <1>2 DEF GoReconcile, Idle
  <2> QED
    BY <2>1 DEF BeliefIsCurrent
<1>3. CASE Handler
  BY <1>2, <1>3 DEF Handler, SetPpdProfile, SetOnBattery, TickThermal
<1>4. ASSUME NEW t \in Tasks, NothingToDo(t) PROVE BeliefIsCurrent'
  BY <1>4 DEF NothingToDo, UpToDate, BeliefIsCurrent, Believed
<1>5. ASSUME NEW t \in Tasks, StartApply(t) PROVE BeliefIsCurrent'
  BY <1>5 DEF StartApply, BeliefIsCurrent, Believed
<1>6. ASSUME NEW t \in Tasks, Forget(t) PROVE BeliefIsCurrent'
  BY <1>6 DEF Forget, BeliefIsCurrent
<1>7. ASSUME NEW c \in Clients, NEW profile \in Requests, ApplyManual(c, profile)
      PROVE  BeliefIsCurrent'
  <2>1. \A t \in Tasks : jobs'[t].at # "reconcile" => jobs[t].at # "reconcile"
    BY <1>1, <1>7 DEF ApplyManual, Workers
  <2> QED
    BY <1>7, <2>1 DEF ApplyManual, BeliefIsCurrent, Believed
<1>8. ASSUME NEW w \in Workers, Apply(w) PROVE BeliefIsCurrent'
  BY <1>1, <1>8, ApplyKeepsBelief DEF BeliefIsCurrent, Believed
<1>9. CASE Crash
  BY <1>9 DEF Crash, BeliefIsCurrent
<1>10. CASE UNCHANGED vars
  BY <1>10 DEF vars, BeliefIsCurrent, Believed
<1> QED
  BY <1>3, <1>4, <1>5, <1>6, <1>7, <1>8, <1>9, <1>10 DEF Next, Reconcile

(* The edit of the inputs and the decision are two critical sections, and  *)
(* no interleaving of the tasks loses an edit between them.                *)
THEOREM BeliefCurrent == Spec => []BeliefIsCurrent
<1>1. Init => TypeOK /\ BeliefIsCurrent
  BY InitTypeOK, InitBeliefIsCurrent
<1>2. TypeOK /\ BeliefIsCurrent /\ [Next]_vars => (TypeOK /\ BeliefIsCurrent)'
  BY StepTypeOK, StepBeliefIsCurrent
<1> QED
  BY <1>1, <1>2, PTL DEF Spec

-----------------------------------------------------------------------------
(* What is still to come of an apply. *)

Has(todo, step) == \E i \in 1..Len(todo) : todo[i] = step

\* The attribute is written before the call returns, if nothing fails.
StillTo(todo, a) == Has(todo, a) \/ (a \in Thresholds /\ Has(todo, "order"))

\* Nothing comes after the order of the thresholds has been chosen, which
\* happens right after they are checked: replacing the rest of todo by the
\* two writes loses nothing.
WellOrdered(todo) ==
  \A i \in 1..Len(todo) :
    /\ todo[i] = "order" => i = Len(todo)
    /\ todo[i] = "check" => i + 1 = Len(todo) /\ todo[i + 1] = "order"

LEMMA TailHas ==
  ASSUME NEW todo \in Seq(Steps), NEW x, todo # << >>, Has(todo, x), Head(todo) # x
  PROVE  Has(Tail(todo), x) /\ Tail(todo) # << >>
<1>1. PICK i \in 1..Len(todo) : todo[i] = x
  BY DEF Has
<1>2. i > 1 /\ i - 1 \in 1..Len(Tail(todo)) /\ Tail(todo)[i - 1] = x
  BY <1>1
<1>3. Has(Tail(todo), x)
  BY <1>2 DEF Has
<1>4. Tail(todo) # << >>
  <2>1. Len(Tail(todo)) # 0 /\ Len(<< >>) = 0
    BY <1>2
  <2> QED
    BY <2>1, Zenon
<1> QED
  BY <1>3, <1>4

LEMMA TailWellOrdered ==
  ASSUME NEW todo \in Seq(Steps), todo # << >>, WellOrdered(todo)
  PROVE  WellOrdered(Tail(todo))
<1> SUFFICES ASSUME NEW i \in 1..Len(Tail(todo))
             PROVE  /\ Tail(todo)[i] = "order" => i = Len(Tail(todo))
                    /\ Tail(todo)[i] = "check"
                         => i + 1 = Len(Tail(todo)) /\ Tail(todo)[i + 1] = "order"
  BY DEF WellOrdered
<1> DEFINE j == i + 1
<1>1. /\ j \in 1..Len(todo)
      /\ Len(todo) \in Nat
      /\ Len(Tail(todo)) = Len(todo) - 1
      /\ Tail(todo)[i] = todo[j]
      /\ j + 1 \in 1..Len(todo) => Tail(todo)[i + 1] = todo[j + 1]
  OBVIOUS
<1> HIDE DEF j
<1>2. /\ todo[j] = "order" => j = Len(todo)
      /\ todo[j] = "check" => j + 1 = Len(todo) /\ todo[j + 1] = "order"
  BY <1>1 DEF WellOrdered
<1>3. i \in Int /\ j \in Int /\ i = j - 1 /\ i + 1 = j
  BY DEF j
<1>4. CASE todo[j] = "order"
  BY <1>1, <1>2, <1>3, <1>4
<1>5. CASE todo[j] = "check"
  <2>1. j + 1 = Len(todo) /\ todo[j + 1] = "order"
    BY <1>2, <1>5
  <2>2. j + 1 \in 1..Len(todo)
    BY <1>1, <1>3, <2>1
  <2>3. Tail(todo)[i + 1] = "order"
    BY <1>1, <2>1, <2>2
  <2>4. i + 1 = Len(Tail(todo))
    <3>1. j + 1 = Len(todo)
      BY <2>1, Zenon
    <3>2. j = Len(todo) - 1
      BY <1>3, <3>1
    <3> QED
      BY <1>1, <1>3, <3>2
  <2> QED
    BY <1>1, <1>5, <2>3, <2>4
<1> QED
  BY <1>1, <1>4, <1>5

LEMMA WellOrderedHead ==
  ASSUME NEW todo \in Seq(Steps), todo # << >>, WellOrdered(todo)
  PROVE  /\ Head(todo) = "order" => Len(todo) = 1
         /\ Head(todo) = "check" => Len(todo) = 2 /\ todo[2] = "order"
<1>1. 1 \in 1..Len(todo) /\ todo[1] = Head(todo)
  OBVIOUS
<1>2. /\ todo[1] = "order" => 1 = Len(todo)
      /\ todo[1] = "check" => 1 + 1 = Len(todo) /\ todo[1 + 1] = "order"
  BY <1>1 DEF WellOrdered
<1>3. 1 + 1 = 2
  OBVIOUS
<1> QED
  BY <1>1, <1>2, <1>3

LEMMA AskedHas ==
  ASSUME NEW profile, NEW a \in Attrs
  PROVE  /\ Asked(profile, a) \in Seq(Attrs)
         /\ profile[a] # Unset => Has(Asked(profile, a), a)
<1>1. <<a>> \in Seq(Attrs) /\ << >> \in Seq(Attrs) /\ Has(<<a>>, a)
  BY DEF Has
<1> QED
  BY <1>1 DEF Asked

LEMMA ConcatHas ==
  ASSUME NEW S, NEW s \in Seq(S), NEW t \in Seq(S), NEW x, Has(s, x) \/ Has(t, x)
  PROVE  Has(s \o t, x)
<1>1. CASE Has(s, x)
  <2>1. PICK i \in 1..Len(s) : s[i] = x
    BY <1>1 DEF Has
  <2>2. i \in 1..Len(s \o t) /\ (s \o t)[i] = x
    BY <2>1
  <2> QED
    BY <2>2 DEF Has
<1>2. CASE Has(t, x)
  <2>1. PICK i \in 1..Len(t) : t[i] = x
    BY <1>2 DEF Has
  <2>2. i + Len(s) \in 1..Len(s \o t) /\ (s \o t)[i + Len(s)] = x
    BY <2>1
  <2> QED
    BY <2>2 DEF Has
<1> QED
  BY <1>1, <1>2

\* Attributes in any order, perhaps with the thresholds at the end, are well ordered.
LEMMA AttrsWellOrdered ==
  ASSUME NEW s \in Seq(Attrs)
  PROVE  WellOrdered(s) /\ WellOrdered(s \o <<"check", "order">>)
<1>1. \A i \in 1..Len(s) : s[i] # "order" /\ s[i] # "check"
  <2> SUFFICES ASSUME NEW i \in 1..Len(s) PROVE s[i] # "order" /\ s[i] # "check"
    OBVIOUS
  <2>1. s[i] \in Attrs
    OBVIOUS
  <2> QED
    BY <2>1 DEF Attrs
<1> DEFINE t == s \o <<"check", "order">>
<1>2. /\ Len(t) = Len(s) + 2
      /\ \A i \in 1..Len(s) : t[i] = s[i]
      /\ t[Len(s) + 1] = "check" /\ t[Len(s) + 2] = "order"
  OBVIOUS
<1>3. \A i \in 1..Len(t) : i \in 1..Len(s) \/ i = Len(s) + 1 \/ i = Len(s) + 2
  BY <1>2
<1>4. WellOrdered(s)
  BY <1>1 DEF WellOrdered
<1>5. WellOrdered(t)
  <2> HIDE DEF t
  <2> QED
    BY <1>1, <1>2, <1>3 DEF WellOrdered
<1> QED
  BY <1>4, <1>5

\* Backend::apply goes through every attribute the profile sets.
LEMMA TodoCovers ==
  ASSUME NEW profile
  PROVE  /\ WellOrdered(Todo(profile))
         /\ \A a \in Attrs : profile[a] # Unset => StillTo(Todo(profile), a)
<1> DEFINE p == Asked(profile, "power_level")
           f == Asked(profile, "fan_mode")
           c == Asked(profile, "cooler_boost")
           b == Asked(profile, "battery_saver")
           s == p \o f \o c \o b
           t == IF AsksForThresholds(profile) THEN <<"check", "order">> ELSE << >>
<1>1. /\ p \in Seq(Attrs) /\ f \in Seq(Attrs) /\ c \in Seq(Attrs) /\ b \in Seq(Attrs)
      /\ profile["power_level"] # Unset => Has(p, "power_level")
      /\ profile["fan_mode"] # Unset => Has(f, "fan_mode")
      /\ profile["cooler_boost"] # Unset => Has(c, "cooler_boost")
      /\ profile["battery_saver"] # Unset => Has(b, "battery_saver")
  BY AskedHas DEF Attrs
<1>2. p \o f \in Seq(Attrs) /\ p \o f \o c \in Seq(Attrs) /\ s \in Seq(Attrs)
  <2> HIDE DEF p, f, c, b
  <2> QED
    BY <1>1
<1>3. Todo(profile) = s \o t
  BY DEF Todo
<1>4. WellOrdered(Todo(profile))
  <2>1. CASE AsksForThresholds(profile)
    BY <1>2, <1>3, <2>1, AttrsWellOrdered
  <2>2. CASE ~AsksForThresholds(profile)
    <3>1. Todo(profile) = s
      BY <1>2, <1>3, <2>2
    <3> QED
      BY <1>2, <3>1, AttrsWellOrdered
  <2> QED
    BY <2>1, <2>2
<1>5. ASSUME NEW a \in Attrs \ Thresholds, profile[a] # Unset PROVE Has(s, a)
  <2> HIDE DEF p, f, c, b
  <2>1. Has(p, a) \/ Has(f, a) \/ Has(c, a) \/ Has(b, a)
    BY <1>1, <1>5 DEF Attrs, Thresholds
  <2>2. Has(p, a) \/ Has(f, a) => Has(p \o f, a)
    BY <1>1, ConcatHas
  <2>3. Has(p \o f, a) \/ Has(c, a) => Has(p \o f \o c, a)
    BY <1>1, <1>2, ConcatHas
  <2>4. Has(p \o f \o c, a) \/ Has(b, a) => Has(s, a)
    BY <1>1, <1>2, ConcatHas
  <2> QED
    BY <2>1, <2>2, <2>3, <2>4
<1>6. ASSUME NEW a \in Attrs \ Thresholds, profile[a] # Unset PROVE Has(Todo(profile), a)
  <2>1. t \in Seq(Steps) /\ s \in Seq(Steps)
    <3>1. Attrs \subseteq Steps /\ "check" \in Steps /\ "order" \in Steps
      BY DEF Steps
    <3>2. <<"check", "order">> \in Seq(Steps) /\ << >> \in Seq(Steps)
      BY <3>1
    <3>3. s \in Seq(Steps)
      <4> HIDE DEF s
      <4> QED
        BY <1>2, <3>1
    <3> QED
      BY <3>2, <3>3
  <2> HIDE DEF s, t
  <2> QED
    BY <1>3, <1>5, <1>6, <2>1, ConcatHas
<1>7. ASSUME NEW a \in Thresholds, profile[a] # Unset PROVE Has(Todo(profile), "order")
  <2>1. Todo(profile) = s \o <<"check", "order">>
    BY <1>3, <1>7 DEF AsksForThresholds
  <2> HIDE DEF s
  <2>2. Len(s) + 2 \in 1..Len(Todo(profile)) /\ Todo(profile)[Len(s) + 2] = "order"
    BY <1>2, <2>1
  <2> QED
    BY <2>2 DEF Has
<1> QED
  BY <1>4, <1>6, <1>7 DEF StillTo

\* Whichever way round, battery::apply writes both thresholds asked for.
LEMMA ChargeWritesCovers ==
  ASSUME NEW profile, NEW hardware
  PROVE  /\ WellOrdered(ChargeWrites(profile, hardware))
         /\ \A a \in Thresholds : profile[a] # Unset => Has(ChargeWrites(profile, hardware), a)
<1> DEFINE e == Asked(profile, "charge_end_threshold")
           s == Asked(profile, "charge_start_threshold")
<1>1. /\ e \in Seq(Attrs) /\ s \in Seq(Attrs)
      /\ profile["charge_end_threshold"] # Unset => Has(e, "charge_end_threshold")
      /\ profile["charge_start_threshold"] # Unset => Has(s, "charge_start_threshold")
  BY AskedHas DEF Attrs
<1>2. ChargeWrites(profile, hardware) \in {e \o s, s \o e}
  BY DEF ChargeWrites
<1> HIDE DEF e, s
<1>3. e \o s \in Seq(Attrs) /\ s \o e \in Seq(Attrs)
  BY <1>1
<1>4. ASSUME NEW a \in Thresholds, profile[a] # Unset
      PROVE  Has(e \o s, a) /\ Has(s \o e, a)
  <2>1. Has(e, a) \/ Has(s, a)
    BY <1>1, <1>4 DEF Thresholds
  <2> QED
    BY <1>1, <2>1, ConcatHas
<1> QED
  BY <1>2, <1>3, <1>4, AttrsWellOrdered

-----------------------------------------------------------------------------
(***************************************************************************)
(* The belief matches the hardware.  The invariant says who is responsible *)
(* for each attribute of the belief that is not in place: since an apply   *)
(* was started alone there is at most one call in flight, it carries the   *)
(* belief, and it has failed or still has the attribute to write.          *)
(***************************************************************************)

Landed(a) == hw[a] = applied[a] \/ author[a] = "client"

Owes(t, a) ==
  \/ jobs[t].at = "forget"
  \/ jobs[t].at = "apply" /\ StillTo(jobs[t].todo, a)

OneInFlight == \A t, u \in Tasks : InFlight(t) /\ InFlight(u) => t = u

CarriesBelief == \A t \in Tasks : InFlight(t) => applied = jobs[t].profile

Accounted ==
  applied # Unset
    => \A a \in Attrs : applied[a] # Unset => Landed(a) \/ \E t \in Tasks : Owes(t, a)

IInv ==
  /\ TypeOK
  /\ \A w \in Workers : WellOrdered(jobs[w].todo)
  /\ ~overlapped => OneInFlight /\ CarriesBelief /\ Accounted

LEMMA NothingIsWellOrdered == WellOrdered(<< >>)
BY DEF WellOrdered

LEMMA IdleOwesNothing ==
  /\ WellOrdered(Idle.todo) /\ Idle.at = "idle"
  /\ WellOrdered([Idle EXCEPT !.at = "reconcile"].todo)
  /\ [Idle EXCEPT !.at = "reconcile"].at = "reconcile"
BY NothingIsWellOrdered DEF Idle

LEMMA InitIsInductive == Init => IInv
<1> SUFFICES ASSUME Init PROVE IInv
  OBVIOUS
<1>1. \A w \in Workers : jobs[w] = Idle
  BY DEF Init
<1>2. \A w \in Workers : WellOrdered(jobs[w].todo)
  BY <1>1, IdleOwesNothing
<1>3. \A t \in Tasks : ~InFlight(t)
  BY <1>1, IdleOwesNothing DEF InFlight, Workers
<1> QED
  BY <1>2, <1>3, InitTypeOK DEF Init, IInv, OneInFlight, CarriesBelief, Accounted

\* A task that is not in flight before or after leaves everyone else's account.
LEMMA OutOfFlightKeepsInv ==
  ASSUME IInv, TypeOK', NEW t \in Tasks, ~InFlight(t), ~InFlight(t)',
         WellOrdered(jobs'[t].todo),
         \A u \in Workers \ {t} : jobs'[u] = jobs[u],
         UNCHANGED <<applied, hw, author, overlapped>>
  PROVE  IInv'
<1>1. \A w \in Workers : WellOrdered(jobs'[w].todo)
  BY DEF IInv
<1>2. \A u \in Tasks : InFlight(u)' => u # t /\ InFlight(u) /\ jobs'[u] = jobs[u]
  BY DEF InFlight, Workers
<1>3. ASSUME ~overlapped PROVE (OneInFlight /\ CarriesBelief /\ Accounted)'
  <2>1. OneInFlight' /\ CarriesBelief'
    BY <1>2, <1>3 DEF IInv, OneInFlight, CarriesBelief
  <2>2. \A u \in Tasks, a \in Attrs : Owes(u, a) => Owes(u, a)'
    BY DEF Owes, InFlight, Workers
  <2>3. Accounted'
    BY <1>3, <2>2 DEF IInv, Accounted, Landed
  <2> QED
    BY <2>1, <2>3
<1> QED
  BY <1>1, <1>3 DEF IInv

LEMMA HandlerKeepsInv == IInv /\ TypeOK' /\ Handler => IInv'
<1>1. ASSUME IInv, TypeOK', NEW t, GoReconcile(t) PROVE IInv'
  <2>1. /\ t \in Tasks /\ t \in Workers
        /\ jobs'[t] = [Idle EXCEPT !.at = "reconcile"]
        /\ \A u \in Workers \ {t} : jobs'[u] = jobs[u]
        /\ jobs[t].at = "idle"
    BY <1>1 DEF GoReconcile, IInv, TypeOK, Workers
  <2>2. ~InFlight(t) /\ ~InFlight(t)' /\ WellOrdered(jobs'[t].todo)
    BY <2>1, IdleOwesNothing DEF InFlight
  <2> QED
    BY <1>1, <2>1, <2>2, OutOfFlightKeepsInv DEF GoReconcile
<1> QED
  BY <1>1 DEF Handler, SetPpdProfile, SetOnBattery, TickThermal

LEMMA NothingToDoKeepsInv ==
  ASSUME IInv, TypeOK', NEW t \in Tasks, NothingToDo(t)
  PROVE  IInv'
<1>1. /\ t \in Workers
      /\ jobs'[t] = Idle
      /\ \A u \in Workers \ {t} : jobs'[u] = jobs[u]
      /\ jobs[t].at = "reconcile"
  BY DEF NothingToDo, IInv, TypeOK, Workers
<1>2. ~InFlight(t) /\ ~InFlight(t)' /\ WellOrdered(jobs'[t].todo)
  BY <1>1, IdleOwesNothing DEF InFlight
<1> QED
  BY <1>1, <1>2, OutOfFlightKeepsInv DEF NothingToDo

LEMMA StartApplyKeepsInv ==
  ASSUME IInv, TypeOK', NEW t \in Tasks, StartApply(t)
  PROVE  IInv'
<1> DEFINE decision == Decide(inputs)
<1>1. /\ jobs'[t] = Applying(decision)
      /\ \A u \in Workers \ {t} : jobs'[u] = jobs[u]
      /\ applied' = decision
      /\ t \in Workers
  BY DEF StartApply, IInv, TypeOK, Workers
<1>2. /\ jobs'[t].at = "apply"
      /\ jobs'[t].profile = decision
      /\ jobs'[t].todo = Todo(decision)
  BY <1>1 DEF Applying
<1>3. \A w \in Workers : WellOrdered(jobs'[w].todo)
  BY <1>1, <1>2, TodoCovers DEF IInv
<1>4. ASSUME ~overlapped' PROVE (OneInFlight /\ CarriesBelief /\ Accounted)'
  <2>1. \A u \in Tasks : ~InFlight(u)
    BY <1>4 DEF StartApply
  <2>2. \A u \in Tasks : InFlight(u)' => u = t
    BY <1>1, <2>1 DEF InFlight, Workers
  <2>3. OneInFlight' /\ CarriesBelief'
    BY <1>1, <1>2, <2>2 DEF OneInFlight, CarriesBelief
  <2>4. \A a \in Attrs : decision[a] # Unset => Owes(t, a)'
    BY <1>2, TodoCovers DEF Owes
  <2>5. Accounted'
    BY <1>1, <2>4 DEF Accounted
  <2> QED
    BY <2>3, <2>5
<1> QED
  BY <1>3, <1>4 DEF IInv

LEMMA ForgetKeepsInv ==
  ASSUME IInv, TypeOK', NEW t \in Tasks, Forget(t)
  PROVE  IInv'
<1>1. /\ jobs'[t] = Idle
      /\ \A u \in Workers \ {t} : jobs'[u] = jobs[u]
      /\ jobs[t].at = "forget"
      /\ t \in Workers
      /\ applied' = Unset
      /\ overlapped' = overlapped
  BY DEF Forget, IInv, TypeOK, Workers
<1>2. \A w \in Workers : WellOrdered(jobs'[w].todo)
  BY <1>1, IdleOwesNothing DEF IInv
<1>3. ASSUME ~overlapped PROVE \A u \in Tasks : ~InFlight(u)'
  <2> SUFFICES ASSUME NEW u \in Tasks PROVE ~InFlight(u)'
    OBVIOUS
  <2>1. CASE u = t
    BY <1>1, <2>1, IdleOwesNothing DEF InFlight
  <2>2. CASE u # t
    <3>1. InFlight(t) /\ ~InFlight(u)
      BY <1>1, <1>3, <2>2 DEF IInv, OneInFlight, InFlight
    <3> QED
      BY <1>1, <2>2, <3>1 DEF InFlight, Workers
  <2> QED
    BY <2>1, <2>2
<1> QED
  BY <1>1, <1>2, <1>3 DEF IInv, OneInFlight, CarriesBelief, Accounted

LEMMA ApplyManualKeepsInv ==
  ASSUME IInv, TypeOK', NEW c \in Clients, NEW profile \in Requests, ApplyManual(c, profile)
  PROVE  IInv'
<1>1. /\ c \in Workers /\ c \notin Tasks
      /\ jobs'[c] = Applying(profile)
      /\ \A u \in Workers \ {c} : jobs'[u] = jobs[u]
  BY ClientsAreNotTasks DEF ApplyManual, IInv, TypeOK, Workers
<1>2. \A w \in Workers : WellOrdered(jobs'[w].todo)
  BY <1>1, TodoCovers DEF IInv, Applying
<1>3. \A u \in Tasks : jobs'[u] = jobs[u]
  BY <1>1 DEF Workers
<1>4. UNCHANGED <<applied, hw, author, overlapped>>
  BY DEF ApplyManual
<1> QED
  BY <1>2, <1>3, <1>4
  DEF IInv, OneInFlight, CarriesBelief, Accounted, InFlight, Landed, Owes

-----------------------------------------------------------------------------
(* The steps of Backend::apply. *)

LEMMA FailKeepsInv ==
  ASSUME IInv, TypeOK', NEW w \in Workers, jobs[w].at = "apply", Fail(w),
         UNCHANGED <<applied, hw, author, overlapped>>
  PROVE  IInv'
<1>1. /\ \A u \in Workers \ {w} : jobs'[u] = jobs[u]
      /\ w \in Tasks => /\ jobs'[w].at = "forget"
                        /\ jobs'[w].profile = jobs[w].profile
                        /\ jobs'[w].todo = jobs[w].todo
      /\ w \notin Tasks => jobs'[w] = Idle
  <2>1. jobs \in [Workers -> Job] /\ jobs[w] \in Job
    BY DEF IInv, TypeOK
  <2> QED
    BY <2>1 DEF Fail, Job
<1>2. \A u \in Workers : WellOrdered(jobs'[u].todo)
  BY <1>1, IdleOwesNothing DEF IInv
<1>3. \A t \in Tasks : /\ InFlight(t)' <=> InFlight(t)
                       /\ InFlight(t) => jobs'[t].profile = jobs[t].profile
                       /\ \A a \in Attrs : Owes(t, a) => Owes(t, a)'
  <2> SUFFICES ASSUME NEW t \in Tasks
               PROVE  /\ InFlight(t)' <=> InFlight(t)
                      /\ InFlight(t) => jobs'[t].profile = jobs[t].profile
                      /\ \A a \in Attrs : Owes(t, a) => Owes(t, a)'
    OBVIOUS
  <2>1. CASE t = w
    BY <1>1, <2>1 DEF InFlight, Owes
  <2>2. CASE t # w
    <3>1. jobs'[t] = jobs[t]
      BY <1>1, <2>2 DEF Workers
    <3> QED
      BY <3>1 DEF InFlight, Owes
  <2> QED
    BY <2>1, <2>2
<1>4. ASSUME ~overlapped PROVE (OneInFlight /\ CarriesBelief /\ Accounted)'
  <2>1. OneInFlight' /\ CarriesBelief'
    BY <1>3, <1>4 DEF IInv, OneInFlight, CarriesBelief
  <2>2. Accounted'
    BY <1>3, <1>4 DEF IInv, Accounted, Landed
  <2> QED
    BY <2>1, <2>2
<1> QED
  BY <1>2, <1>4 DEF IInv

\* A call that goes on with rest has either put an attribute in place or kept
\* it in rest, and has undone nobody else's.
LEMMA ProceedKeepsInv ==
  ASSUME IInv, TypeOK', NEW w \in Workers, jobs[w].at = "apply",
         NEW rest, WellOrdered(rest), Proceed(w, rest),
         UNCHANGED <<applied, overlapped>>,
         ~overlapped => \A a \in Attrs :
           applied # Unset /\ applied[a] # Unset =>
             /\ Landed(a) => Landed(a)'
             /\ w \in Tasks /\ StillTo(jobs[w].todo, a)
                  => Landed(a)' \/ (rest # << >> /\ StillTo(rest, a))
  PROVE  IInv'
<1>1. /\ \A u \in Workers \ {w} : jobs'[u] = jobs[u]
      /\ rest = << >> => jobs'[w] = Idle
      /\ rest # << >> => /\ jobs'[w].at = "apply"
                         /\ jobs'[w].profile = jobs[w].profile
                         /\ jobs'[w].todo = rest
  <2>1. jobs \in [Workers -> Job] /\ jobs[w] \in Job
    BY DEF IInv, TypeOK
  <2> QED
    BY <2>1 DEF Proceed, Job
<1>2. \A u \in Workers : WellOrdered(jobs'[u].todo)
  BY <1>1, IdleOwesNothing DEF IInv
<1>3. \A t \in Tasks : InFlight(t)' => InFlight(t) /\ jobs'[t].profile = jobs[t].profile
  <2> SUFFICES ASSUME NEW t \in Tasks, InFlight(t)'
               PROVE  InFlight(t) /\ jobs'[t].profile = jobs[t].profile
    OBVIOUS
  <2>1. CASE t = w
    BY <1>1, <2>1, IdleOwesNothing DEF InFlight
  <2>2. CASE t # w
    <3>1. jobs'[t] = jobs[t]
      BY <1>1, <2>2 DEF Workers
    <3> QED
      BY <3>1 DEF InFlight
  <2> QED
    BY <2>1, <2>2
<1>4. ASSUME ~overlapped PROVE (OneInFlight /\ CarriesBelief /\ Accounted)'
  <2>1. OneInFlight' /\ CarriesBelief'
    BY <1>3, <1>4 DEF IInv, OneInFlight, CarriesBelief
  <2>2. ASSUME NEW a \in Attrs, applied # Unset, applied[a] # Unset,
               NEW t \in Tasks, Owes(t, a)
        PROVE  Landed(a)' \/ Owes(t, a)'
    <3>1. CASE t = w
      <4>1. StillTo(jobs[w].todo, a)
        BY <2>2, <3>1 DEF Owes
      <4>2. Landed(a)' \/ (rest # << >> /\ StillTo(rest, a))
        BY <1>4, <2>2, <3>1, <4>1
      <4> QED
        BY <1>1, <3>1, <4>2 DEF Owes
    <3>2. CASE t # w
      <4>1. jobs'[t] = jobs[t]
        BY <1>1, <3>2 DEF Workers
      <4> QED
        BY <2>2, <4>1 DEF Owes
    <3> QED
      BY <3>1, <3>2
  <2>3. Accounted'
    <3> SUFFICES ASSUME applied # Unset, NEW a \in Attrs, applied[a] # Unset
                 PROVE  Landed(a)' \/ \E t \in Tasks : Owes(t, a)'
      BY DEF Accounted
    <3>1. CASE Landed(a)
      BY <1>4, <3>1
    <3>2. CASE \E t \in Tasks : Owes(t, a)
      BY <2>2, <3>2
    <3> QED
      BY <1>4, <3>1, <3>2 DEF IInv, Accounted
  <2> QED
    BY <2>1, <2>3
<1> QED
  BY <1>2, <1>4 DEF IInv

LEMMA WriteKeepsInv ==
  ASSUME IInv, TypeOK', NEW w \in Workers, NEW a \in Attrs, Write(w, a)
  PROVE  IInv'
<1> DEFINE todo == jobs[w].todo
           rest == Tail(jobs[w].todo)
<1>1. /\ jobs[w].at = "apply" /\ todo # << >> /\ Head(todo) = a
      /\ todo \in Seq(Steps) /\ jobs[w].profile \in HwProfile
      /\ Proceed(w, rest)
      /\ UNCHANGED <<applied, overlapped>>
  BY TailIsTyped DEF Write, At, IInv
<1>2. WellOrdered(rest)
  BY <1>1, TailWellOrdered DEF IInv
<1>3. /\ hw'[a] = jobs[w].profile[a]
      /\ \A b \in Attrs \ {a} : hw'[b] = hw[b]
  <2>1. hw' = KernelWrite(hw, a, jobs[w].profile[a]) /\ hw \in HwProfile
    BY DEF Write, IInv, TypeOK
  <2>2. jobs[w].profile \in HwProfile
    BY <1>1
  <2> QED
    BY <2>1, <2>2, KernelWriteIsHardware
<1>4. /\ w \notin Tasks => author'[a] = "client"
      /\ \A b \in Attrs \ {a} : author'[b] = author[b]
  BY DEF Write, IInv, TypeOK
<1>5. ASSUME ~overlapped, w \in Tasks PROVE applied = jobs[w].profile
  BY <1>1, <1>5 DEF IInv, CarriesBelief, InFlight
<1>6. ASSUME NEW b \in Attrs, b # a, StillTo(todo, b)
      PROVE  rest # << >> /\ StillTo(rest, b)
  <2>1. Head(todo) # "order"
    BY <1>1 DEF Attrs
  <2> QED
    BY <1>1, <1>6, <2>1, TailHas DEF StillTo
<1>7. ASSUME ~overlapped, NEW b \in Attrs, applied # Unset, applied[b] # Unset
      PROVE  /\ Landed(b) => Landed(b)'
             /\ w \in Tasks /\ StillTo(todo, b)
                  => Landed(b)' \/ (rest # << >> /\ StillTo(rest, b))
  <2>1. CASE b = a
    <3>1. Landed(a)'
      BY <1>1, <1>3, <1>4, <1>5, <1>7 DEF Landed
    <3> QED
      BY <2>1, <3>1
  <2>2. CASE b # a
    <3>1. Landed(b) => Landed(b)'
      BY <1>1, <1>3, <1>4, <2>2 DEF Landed
    <3> QED
      BY <1>6, <2>2, <3>1
  <2> QED
    BY <2>1, <2>2
<1> HIDE DEF rest
<1> QED
  BY <1>1, <1>2, <1>7, ProceedKeepsInv

LEMMA CheckThresholdsKeepsInv ==
  ASSUME IInv, TypeOK', NEW w \in Workers, CheckThresholds(w)
  PROVE  IInv'
<1> DEFINE todo == jobs[w].todo
           rest == Tail(jobs[w].todo)
<1>1. /\ jobs[w].at = "apply" /\ todo # << >> /\ Head(todo) = "check"
      /\ todo \in Seq(Steps)
      /\ Fail(w) \/ Proceed(w, rest)
      /\ UNCHANGED <<applied, hw, author, overlapped>>
  BY TailIsTyped DEF CheckThresholds, At, IInv
<1>2. WellOrdered(rest)
  BY <1>1, TailWellOrdered DEF IInv
<1>3. ASSUME NEW b \in Attrs, StillTo(todo, b)
      PROVE  rest # << >> /\ StillTo(rest, b)
  <2>1. Head(todo) # "order" /\ Head(todo) # b
    BY <1>1 DEF Attrs
  <2> QED
    BY <1>1, <1>3, <2>1, TailHas DEF StillTo
<1>4. \A b \in Attrs : Landed(b) => Landed(b)'
  BY <1>1 DEF Landed
<1>5. CASE Fail(w)
  BY <1>1, <1>5, FailKeepsInv
<1>6. CASE Proceed(w, rest)
  <2> HIDE DEF rest
  <2> QED
    BY <1>1, <1>2, <1>3, <1>4, <1>6, ProceedKeepsInv
<1> QED
  BY <1>1, <1>5, <1>6

LEMMA OrderThresholdsKeepsInv ==
  ASSUME IInv, TypeOK', NEW w \in Workers, OrderThresholds(w)
  PROVE  IInv'
<1> DEFINE todo == jobs[w].todo
           rest == ChargeWrites(jobs[w].profile, hw)
<1>1. /\ jobs[w].at = "apply" /\ todo # << >> /\ Head(todo) = "order"
      /\ todo \in Seq(Steps)
      /\ Proceed(w, rest)
      /\ UNCHANGED <<applied, hw, author, overlapped>>
  BY TailIsTyped DEF OrderThresholds, At, IInv
<1>2. WellOrdered(rest)
  BY ChargeWritesCovers
<1>3. Len(todo) = 1 /\ todo[1] = "order"
  BY <1>1, WellOrderedHead DEF IInv
<1>4. ASSUME ~overlapped, w \in Tasks, NEW b \in Attrs, applied[b] # Unset, StillTo(todo, b)
      PROVE  rest # << >> /\ StillTo(rest, b)
  <2>1. ~Has(todo, b)
    BY <1>3 DEF Has, Attrs
  <2>2. b \in Thresholds /\ applied = jobs[w].profile
    BY <1>1, <1>4, <2>1 DEF StillTo, IInv, CarriesBelief, InFlight
  <2>3. Has(rest, b)
    BY <1>4, <2>2, ChargeWritesCovers
  <2>4. rest # << >>
    BY <2>3 DEF Has
  <2> QED
    BY <2>3, <2>4 DEF StillTo
<1>5. \A b \in Attrs : Landed(b) => Landed(b)'
  BY <1>1 DEF Landed
<1> HIDE DEF rest
<1> QED
  BY <1>1, <1>2, <1>4, <1>5, ProceedKeepsInv

LEMMA ApplyKeepsInv ==
  ASSUME IInv, TypeOK', NEW w \in Workers, Apply(w)
  PROVE  IInv'
<1>1. ASSUME NEW a \in Attrs, Write(w, a) PROVE IInv'
  BY <1>1, WriteKeepsInv
<1>2. ASSUME NEW a \in Attrs, WriteFails(w, a) PROVE IInv'
  BY <1>2, FailKeepsInv DEF WriteFails, At
<1>3. ASSUME NEW a \in Attrs, Unsupported(w, a) PROVE IInv'
  BY <1>3, FailKeepsInv DEF Unsupported, At
<1>4. CASE CheckThresholds(w)
  BY <1>4, CheckThresholdsKeepsInv
<1>5. CASE OrderThresholds(w)
  BY <1>5, OrderThresholdsKeepsInv
<1> QED
  BY <1>1, <1>2, <1>3, <1>4, <1>5 DEF Apply

\* A restart owes nothing, as it believes nothing applied.
LEMMA CrashKeepsInv ==
  ASSUME IInv, TypeOK', Crash
  PROVE  IInv'
<1>1. \A w \in Workers : jobs'[w] = Idle
  BY DEF Crash
<1>2. \A w \in Workers : WellOrdered(jobs'[w].todo)
  BY <1>1, IdleOwesNothing
<1>3. \A t \in Tasks : ~InFlight(t)'
  BY <1>1, IdleOwesNothing DEF InFlight, Workers
<1> QED
  BY <1>2, <1>3 DEF Crash, IInv, OneInFlight, CarriesBelief, Accounted

LEMMA StepIsInductive == IInv /\ [Next]_vars => IInv'
<1> SUFFICES ASSUME IInv, [Next]_vars PROVE IInv'
  OBVIOUS
<1>1. TypeOK'
  BY StepTypeOK DEF IInv
<1>2. CASE Handler
  BY <1>1, <1>2, HandlerKeepsInv
<1>3. ASSUME NEW t \in Tasks, Reconcile(t) PROVE IInv'
  BY <1>1, <1>3, NothingToDoKeepsInv, StartApplyKeepsInv, ForgetKeepsInv DEF Reconcile
<1>4. ASSUME NEW c \in Clients, NEW profile \in Requests, ApplyManual(c, profile) PROVE IInv'
  BY <1>1, <1>4, ApplyManualKeepsInv
<1>5. ASSUME NEW w \in Workers, Apply(w) PROVE IInv'
  BY <1>1, <1>5, ApplyKeepsInv
<1>6. CASE Crash
  BY <1>1, <1>6, CrashKeepsInv
<1>7. CASE UNCHANGED vars
  BY <1>1, <1>7
  DEF vars, IInv, OneInFlight, CarriesBelief, Accounted, InFlight, Landed, Owes
<1> QED
  BY <1>2, <1>3, <1>4, <1>5, <1>6, <1>7 DEF Next

LEMMA InvImpliesMatch == IInv => BeliefMatchesHardware
BY DEF IInv, BeliefMatchesHardware, Accounted, Landed, Owes, NoneInFlight, InFlight

(* Unless the last automatic apply was started into another, State::applied *)
(* is what the hardware is in wherever no client has written since, however *)
(* many writes failed: forgetting on error is enough, and an apply started  *)
(* alone mends what an overlap has left.                                   *)
THEOREM BeliefMatches == Spec => []BeliefMatchesHardware
BY InitIsInductive, StepIsInductive, InvImpliesMatch, PTL DEF Spec

(* decide's last word reaches the hardware: under the same proviso, while    *)
(* the guard is tripped, the tasks rest and a profile is believed applied,  *)
(* it is not the daemon that left the fans quiet.                           *)
THEOREM FansLoud == Spec => []DaemonKeepsFansLoud
<1>1. TypeOK /\ BeliefIsCurrent /\ BeliefMatchesHardware => DaemonKeepsFansLoud
  <2> SUFFICES ASSUME TypeOK, BeliefIsCurrent, BeliefMatchesHardware,
                      ~overlapped, AllIdle, inputs.thermal_tripped, applied # Unset
               PROVE  hw.fan_mode = "aggressive" \/ author["fan_mode"] = "client"
    BY DEF DaemonKeepsFansLoud
  <2>1. Decide(inputs).fan_mode = "aggressive"
    <3> DEFINE powered == IF inputs.on_battery
                            THEN Overlay(ForProfile(inputs.ppd_profile), Config.on_battery)
                            ELSE ForProfile(inputs.ppd_profile)
    <3>1. powered \in HwProfile
      BY ForProfileIsProfile, OverlayIsProfile, ConfigIsTyped
    <3>2. [powered EXCEPT !.fan_mode = "aggressive"].fan_mode = "aggressive"
      <4> HIDE DEF powered
      <4> QED
        BY <3>1 DEF HwProfile
    <3> QED
      BY <3>2 DEF Decide
  <2>2. NoneInFlight /\ \A t \in Tasks : jobs[t].at # "reconcile"
    BY DEF AllIdle, NoneInFlight, InFlight
  <2>3. applied = Decide(inputs)
    <3>1. NoChange.fan_mode = Unset
      BY DEF NoChange, Attrs
    <3>2. ~IsEmpty(Decide(inputs))
      BY <2>1, <3>1, UnsetIsNoValue DEF IsEmpty, FanMode
    <3> QED
      BY <2>2, <3>2 DEF BeliefIsCurrent, Believed
  <2>4. applied["fan_mode"] # Unset
    BY <2>1, <2>3, UnsetIsNoValue DEF FanMode
  <2> QED
    BY <2>1, <2>2, <2>3, <2>4 DEF BeliefMatchesHardware, Attrs
<1> QED
  BY TypeCorrect, BeliefCurrent, BeliefMatches, <1>1, PTL

-----------------------------------------------------------------------------
(* An apply asks for nothing its profile leaves alone. *)

AskedOnly(profile, todo) ==
  \A i \in 1..Len(todo) : todo[i] \in Attrs => profile[todo[i]] # Unset

LEMMA AskedAsks ==
  ASSUME NEW profile, NEW a \in Attrs
  PROVE  Asked(profile, a) \in Seq(Steps) /\ AskedOnly(profile, Asked(profile, a))
<1>1. <<a>> \in Seq(Steps) /\ << >> \in Seq(Steps) /\ Len(<<a>>) = 1 /\ <<a>>[1] = a /\ Len(<< >>) = 0
  BY DEF Steps
<1>2. CASE profile[a] = Unset
  BY <1>1, <1>2 DEF Asked, AskedOnly
<1>3. CASE profile[a] # Unset
  BY <1>1, <1>3 DEF Asked, AskedOnly
<1> QED
  BY <1>2, <1>3

LEMMA ConcatAsks ==
  ASSUME NEW profile, NEW s \in Seq(Steps), NEW t \in Seq(Steps),
         AskedOnly(profile, s), AskedOnly(profile, t)
  PROVE  s \o t \in Seq(Steps) /\ AskedOnly(profile, s \o t)
<1>1. s \o t \in Seq(Steps) /\ Len(s \o t) = Len(s) + Len(t) /\ Len(s) \in Nat /\ Len(t) \in Nat
  OBVIOUS
<1>2. ASSUME NEW i \in 1..Len(s \o t), (s \o t)[i] \in Attrs PROVE profile[(s \o t)[i]] # Unset
  <2>1. CASE i <= Len(s)
    <3>1. (s \o t)[i] = s[i] /\ i \in 1..Len(s)
      BY <1>1, <2>1
    <3> QED
      BY <1>2, <3>1 DEF AskedOnly
  <2>2. CASE i > Len(s)
    <3>1. (s \o t)[i] = t[i - Len(s)] /\ i - Len(s) \in 1..Len(t)
      BY <1>1, <2>2
    <3> QED
      BY <1>2, <3>1 DEF AskedOnly
  <2> QED
    BY <1>1, <2>1, <2>2
<1> QED
  BY <1>1, <1>2 DEF AskedOnly

LEMMA TodoAsks ==
  ASSUME NEW profile
  PROVE  AskedOnly(profile, Todo(profile))
<1> DEFINE p == Asked(profile, "power_level")
           f == Asked(profile, "fan_mode")
           c == Asked(profile, "cooler_boost")
           b == Asked(profile, "battery_saver")
           t == IF AsksForThresholds(profile) THEN <<"check", "order">> ELSE << >>
<1>1. /\ p \in Seq(Steps) /\ AskedOnly(profile, p) /\ f \in Seq(Steps) /\ AskedOnly(profile, f)
      /\ c \in Seq(Steps) /\ AskedOnly(profile, c) /\ b \in Seq(Steps) /\ AskedOnly(profile, b)
  BY AskedAsks DEF Attrs
<1>2. t \in Seq(Steps) /\ AskedOnly(profile, t)
  <2>1. <<"check", "order">> \in Seq(Steps) /\ << >> \in Seq(Steps)
    BY DEF Steps
  <2>2. AskedOnly(profile, <<"check", "order">>) /\ AskedOnly(profile, << >>)
    BY DEF AskedOnly, Attrs
  <2> QED
    BY <2>1, <2>2
<1>3. Todo(profile) = p \o f \o c \o b \o t
  BY DEF Todo
<1> HIDE DEF p, f, c, b, t
<1>4. p \o f \in Seq(Steps) /\ AskedOnly(profile, p \o f)
  BY <1>1, ConcatAsks
<1>5. (p \o f) \o c \in Seq(Steps) /\ AskedOnly(profile, (p \o f) \o c)
  BY <1>1, <1>4, ConcatAsks
<1>6. ((p \o f) \o c) \o b \in Seq(Steps) /\ AskedOnly(profile, ((p \o f) \o c) \o b)
  BY <1>1, <1>5, ConcatAsks
<1>7. AskedOnly(profile, (((p \o f) \o c) \o b) \o t)
  BY <1>2, <1>6, ConcatAsks
<1> QED
  BY <1>3, <1>7

LEMMA ChargeAsks ==
  ASSUME NEW profile, NEW h
  PROVE  AskedOnly(profile, ChargeWrites(profile, h))
BY AskedAsks, ConcatAsks DEF ChargeWrites, Attrs

LEMMA TailAsks ==
  ASSUME NEW profile, NEW todo \in Seq(Steps), todo # << >>, AskedOnly(profile, todo)
  PROVE  /\ AskedOnly(profile, Tail(todo))
         /\ Head(todo) \in Attrs => profile[Head(todo)] # Unset
<1>1. /\ Len(Tail(todo)) = Len(todo) - 1 /\ Len(todo) \in Nat
      /\ \A i \in 1..Len(Tail(todo)) : Tail(todo)[i] = todo[i + 1] /\ i + 1 \in 1..Len(todo)
      /\ Head(todo) = todo[1] /\ 1 \in 1..Len(todo)
  OBVIOUS
<1> QED
  BY <1>1 DEF AskedOnly

-----------------------------------------------------------------------------
(* Who has written what. *)

\* Calls write what their profiles ask for, clients ask for what was requested,
\* and so no client has written what none of them requests.
AskInv ==
  /\ TypeOK
  /\ \A w \in Workers : jobs[w].at = "apply" => AskedOnly(jobs[w].profile, jobs[w].todo)
  /\ \A c \in Clients : jobs[c].at = "apply" => jobs[c].profile \in Requests
  /\ \A a \in Attrs : author[a] = "client" => Clients # {} /\ \E profile \in Requests : profile[a] # Unset

\* After a step of its call a worker is done, has failed, or has less to do.
LEMMA ApplyMoves ==
  ASSUME TypeOK, NEW w \in Workers, Apply(w), AskedOnly(jobs[w].profile, jobs[w].todo)
  PROVE  \/ jobs'[w].at # "apply"
         \/ /\ jobs'[w].at = "apply" /\ jobs'[w].profile = jobs[w].profile
            /\ AskedOnly(jobs[w].profile, jobs'[w].todo)
<1> DEFINE profile == jobs[w].profile
           todo == jobs[w].todo
<1>1. /\ jobs \in [Workers -> Job] /\ jobs[w] \in Job /\ jobs[w].at = "apply"
      /\ todo \in Seq(Steps) /\ todo # << >>
  <2>1. PICK step : At(w, step)
    BY DEF Apply, Write, WriteFails, Unsupported, CheckThresholds, OrderThresholds
  <2> QED
    BY <2>1, TailIsTyped DEF At, TypeOK
<1>2. AskedOnly(profile, Tail(todo)) /\ AskedOnly(profile, ChargeWrites(profile, hw))
  BY <1>1, TailAsks, ChargeAsks
<1>3. ASSUME Fail(w) PROVE jobs'[w].at # "apply"
  <2>1. [jobs[w] EXCEPT !.at = "forget"].at = "forget"
    BY <1>1 DEF Job
  <2> QED
    BY <1>1, <1>3, <2>1 DEF Fail, Idle
<1>4. ASSUME NEW rest, Proceed(w, rest), AskedOnly(profile, rest)
      PROVE  \/ jobs'[w].at # "apply"
             \/ /\ jobs'[w].at = "apply" /\ jobs'[w].profile = profile
                /\ AskedOnly(profile, jobs'[w].todo)
  <2>1. /\ [jobs[w] EXCEPT !.todo = rest].at = "apply"
        /\ [jobs[w] EXCEPT !.todo = rest].profile = profile
        /\ [jobs[w] EXCEPT !.todo = rest].todo = rest
    BY <1>1 DEF Job
  <2>2. jobs'[w] = Idle \/ jobs'[w] = [jobs[w] EXCEPT !.todo = rest]
    BY <1>1, <1>4 DEF Proceed
  <2>3. Idle.at # "apply"
    BY DEF Idle
  <2> HIDE DEF profile, todo
  <2> QED
    BY <1>1, <1>4, <2>1, <2>2, <2>3
<1>5. \/ Fail(w)
      \/ Proceed(w, Tail(todo))
      \/ Proceed(w, ChargeWrites(profile, hw))
  BY DEF Apply, Write, WriteFails, Unsupported, CheckThresholds, OrderThresholds
<1> QED
  BY <1>2, <1>3, <1>4, <1>5

\* Who does not apply asks for nothing.
LEMMA RestKeepsAsking ==
  ASSUME AskInv, TypeOK', UNCHANGED author,
         \A w \in Workers : jobs'[w] = jobs[w] \/ jobs'[w].at # "apply"
  PROVE  AskInv'
BY DEF AskInv, Workers

LEMMA StartKeepsAsking ==
  ASSUME AskInv, TypeOK', UNCHANGED author, NEW w \in Workers, NEW profile,
         w \in Clients => profile \in Requests,
         jobs' = [jobs EXCEPT ![w] = Applying(profile)]
  PROVE  AskInv'
<1>1. /\ jobs'[w].profile = profile /\ jobs'[w].todo = Todo(profile)
      /\ \A u \in Workers \ {w} : jobs'[u] = jobs[u]
  BY DEF AskInv, TypeOK, Applying
<1>2. AskedOnly(profile, Todo(profile))
  BY TodoAsks
<1> QED
  BY <1>1, <1>2 DEF AskInv, Workers

LEMMA ApplyKeepsAsking ==
  ASSUME AskInv, TypeOK', NEW w \in Workers, Apply(w)
  PROVE  AskInv'
<1>1. TypeOK /\ jobs[w].at = "apply" /\ \A u \in Workers \ {w} : jobs'[u] = jobs[u]
  BY ApplyKeepsBelief DEF AskInv
<1>2. AskedOnly(jobs[w].profile, jobs[w].todo)
  BY <1>1 DEF AskInv
<1>3. \/ jobs'[w].at # "apply"
      \/ /\ jobs'[w].at = "apply" /\ jobs'[w].profile = jobs[w].profile
         /\ AskedOnly(jobs[w].profile, jobs'[w].todo)
  BY <1>1, <1>2, ApplyMoves
<1>4. ASSUME NEW a \in Attrs, author'[a] = "client"
      PROVE  Clients # {} /\ \E profile \in Requests : profile[a] # Unset
  <2>1. CASE author'[a] = author[a]
    BY <1>4, <2>1 DEF AskInv
  <2>2. CASE author'[a] # author[a]
    <3>1. PICK b \in Attrs : Write(w, b)
      BY <2>2 DEF Apply, WriteFails, Unsupported, CheckThresholds, OrderThresholds
    <3>2. author' = [author EXCEPT ![b] = IF w \in Tasks THEN "daemon" ELSE "client"] /\ At(w, b)
      BY <3>1 DEF Write
    <3>3. a = b /\ w \in Clients
      BY <1>1, <1>4, <2>2, <3>2 DEF TypeOK, Workers
    <3>4. jobs[w].profile[b] # Unset
      BY <1>1, <1>2, <3>2, TailIsTyped, TailAsks DEF At
    <3> QED
      BY <1>1, <3>3, <3>4 DEF AskInv
  <2> QED
    BY <2>1, <2>2
<1> QED
  BY <1>1, <1>3, <1>4 DEF AskInv, Workers

LEMMA AskStep == AskInv /\ [Next]_vars => AskInv'
<1> SUFFICES ASSUME AskInv, [Next]_vars PROVE AskInv'
  OBVIOUS
<1>0. TypeOK' /\ jobs \in [Workers -> Job] /\ Tasks \subseteq Workers
  BY StepTypeOK DEF AskInv, TypeOK, Workers
<1>1. CASE Handler
  <2>1. PICK t \in Tasks : GoReconcile(t)
    BY <1>1 DEF Handler, SetPpdProfile, SetOnBattery, TickThermal, GoReconcile
  <2>2. \A u \in Workers : jobs'[u] = jobs[u] \/ jobs'[u].at # "apply"
    BY <1>0, <2>1 DEF GoReconcile, Idle
  <2> QED
    BY <1>0, <2>1, <2>2, RestKeepsAsking DEF GoReconcile
<1>2. ASSUME NEW t \in Tasks, NothingToDo(t) \/ Forget(t) PROVE AskInv'
  <2>1. \A u \in Workers : jobs'[u] = jobs[u] \/ jobs'[u].at # "apply"
    BY <1>0, <1>2 DEF NothingToDo, Forget, Idle
  <2> QED
    BY <1>0, <1>2, <2>1, RestKeepsAsking DEF NothingToDo, Forget
<1>3. ASSUME NEW t \in Tasks, StartApply(t) PROVE AskInv'
  BY <1>0, <1>3, ClientsAreNotTasks, StartKeepsAsking DEF StartApply
<1>4. ASSUME NEW c \in Clients, NEW profile \in Requests, ApplyManual(c, profile) PROVE AskInv'
  BY <1>0, <1>4, StartKeepsAsking DEF ApplyManual, Workers
<1>5. ASSUME NEW w \in Workers, Apply(w) PROVE AskInv'
  BY <1>0, <1>5, ApplyKeepsAsking
<1>6. CASE Crash
  <2>1. \A u \in Workers : jobs'[u].at # "apply"
    BY <1>6 DEF Crash, Idle
  <2> QED
    BY <1>0, <1>6, <2>1, RestKeepsAsking DEF Crash
<1>7. CASE UNCHANGED vars
  BY <1>0, <1>7, RestKeepsAsking DEF vars
<1> QED
  BY <1>1, <1>2, <1>3, <1>4, <1>5, <1>6, <1>7 DEF Next, Reconcile

LEMMA AskInit == Init => AskInv
<1> SUFFICES ASSUME Init PROVE AskInv
  OBVIOUS
<1>1. \A w \in Workers : jobs[w].at # "apply"
  BY DEF Init, Idle
<1> QED
  BY <1>1, InitTypeOK DEF Init, AskInv, Workers

LEMMA AskHolds == Spec => []AskInv
BY AskInit, AskStep, PTL DEF Spec

-----------------------------------------------------------------------------
(* A change made by hand is not undone by a decision that has not changed. *)

\* Nothing the configuration can come to decide is of a kind that can fail: no
\* faulty attribute, none the machine lacks, and no threshold, which may be in
\* or out of order with what a client has set.
DecisionsLand ==
  \A in \in Inputs : \A a \in Attrs :
    Decide(in)[a] # Unset => a \notin Faults \cup Thresholds /\ Supports(a, Decide(in)[a])

Safe(profile) ==
  \A a \in Attrs : profile[a] # Unset => a \notin Faults \cup Thresholds /\ Supports(a, profile[a])

\* What is believed applied is what was started last, as nothing is forgotten:
\* an apply of the automation's has only writes to come that succeed.
NothingForgotten ==
  /\ applied = started
  /\ \A t \in Tasks :
       /\ jobs[t].at # "forget"
       /\ jobs[t].at = "apply" => /\ Safe(jobs[t].profile)
                                 /\ jobs[t].todo \in Seq(Attrs)
                                 /\ AskedOnly(jobs[t].profile, jobs[t].todo)

\* Without thresholds there is nothing to check or to order.
LEMMA TodoWithoutThresholds ==
  ASSUME NEW profile, ~AsksForThresholds(profile)
  PROVE  Todo(profile) \in Seq(Attrs)
<1> DEFINE p == Asked(profile, "power_level")
           f == Asked(profile, "fan_mode")
           c == Asked(profile, "cooler_boost")
           b == Asked(profile, "battery_saver")
<1>1. p \in Seq(Attrs) /\ f \in Seq(Attrs) /\ c \in Seq(Attrs) /\ b \in Seq(Attrs)
  BY AskedHas DEF Attrs
<1>2. Todo(profile) = p \o f \o c \o b \o << >>
  BY DEF Todo
<1> HIDE DEF p, f, c, b
<1> QED
  BY <1>1, <1>2

LEMMA StartNothingForgotten ==
  ASSUME DecisionsLand, TypeOK, NothingForgotten, NEW t \in Tasks, StartApply(t)
  PROVE  NothingForgotten'
<1> DEFINE decision == Decide(inputs)
<1>1. t \in Workers /\ Tasks \subseteq Workers /\ jobs \in [Workers -> Job]
  BY DEF TypeOK, Workers
<1>2. Safe(decision)
  BY DEF DecisionsLand, Safe, TypeOK
<1>3. ~AsksForThresholds(decision)
  BY <1>2 DEF Safe, AsksForThresholds, Thresholds, Attrs
<1>4. /\ jobs'[t].at = "apply" /\ jobs'[t].profile = decision /\ jobs'[t].todo = Todo(decision)
      /\ \A u \in Tasks \ {t} : jobs'[u] = jobs[u]
  BY <1>1 DEF StartApply, Applying
<1>5. Todo(decision) \in Seq(Attrs) /\ AskedOnly(decision, Todo(decision))
  BY <1>3, TodoWithoutThresholds, TodoAsks
<1>6. applied' = started'
  BY DEF StartApply
<1> HIDE DEF decision
<1> QED
  BY <1>2, <1>4, <1>5, <1>6 DEF NothingForgotten

\* The next write of a task succeeds, and what it leaves to come will too.
LEMMA ApplyNothingForgotten ==
  ASSUME TypeOK, NothingForgotten, NEW t \in Tasks, Apply(t)
  PROVE  NothingForgotten'
<1> DEFINE profile == jobs[t].profile
           todo == jobs[t].todo
<1>1. /\ t \in Workers /\ jobs \in [Workers -> Job] /\ jobs[t] \in Job
      /\ jobs[t].at = "apply" /\ \A u \in Tasks \ {t} : jobs'[u] = jobs[u]
      /\ UNCHANGED <<applied, started>>
  BY ApplyKeepsBelief DEF TypeOK, Workers
<1>2. Safe(profile) /\ todo \in Seq(Attrs) /\ AskedOnly(profile, todo) /\ todo \in Seq(Steps)
  BY <1>1 DEF NothingForgotten, Job
<1>3. todo # << >> => Head(todo) \in Attrs /\ Tail(todo) \in Seq(Attrs)
  BY <1>2
<1>4. ~CheckThresholds(t) /\ ~OrderThresholds(t)
  BY <1>3 DEF CheckThresholds, OrderThresholds, At, Attrs
<1>5. ASSUME NEW a \in Attrs, WriteFails(t, a) \/ Unsupported(t, a) PROVE FALSE
  <2>1. todo # << >> /\ Head(todo) = a
    BY <1>5 DEF WriteFails, Unsupported, At
  <2>2. profile[a] # Unset
    BY <1>2, <2>1, TailAsks
  <2>3. a \notin Faults /\ a \notin Thresholds /\ Supports(a, profile[a])
    BY <1>2, <2>2 DEF Safe
  <2> QED
    BY <1>5, <2>3 DEF WriteFails, Unsupported, Supported, KernelTakes
<1>6. PICK a \in Attrs : Write(t, a)
  BY <1>4, <1>5 DEF Apply
<1>7. todo # << >> /\ Proceed(t, Tail(todo))
  BY <1>6 DEF Write, At
<1>8. AskedOnly(profile, Tail(todo))
  BY <1>2, <1>7, TailAsks
<1>9. CASE Tail(todo) = << >>
  <2>1. jobs'[t].at = "idle"
    BY <1>1, <1>7, <1>9 DEF Proceed, Idle
  <2> QED
    BY <1>1, <2>1 DEF NothingForgotten
<1>10. CASE Tail(todo) # << >>
  <2>1. jobs'[t] = [jobs[t] EXCEPT !.todo = Tail(todo)]
    BY <1>1, <1>7, <1>10 DEF Proceed
  <2>2. jobs'[t].at = "apply" /\ jobs'[t].profile = profile /\ jobs'[t].todo = Tail(todo)
    BY <1>1, <2>1 DEF Job
  <2> HIDE DEF profile, todo
  <2> QED
    BY <1>1, <1>2, <1>3, <1>7, <1>8, <2>2 DEF NothingForgotten
<1> QED
  BY <1>9, <1>10

LEMMA StepNothingForgotten ==
  ASSUME DecisionsLand, TypeOK, NothingForgotten, [Next]_vars
  PROVE  NothingForgotten'
<1>1. jobs \in [Workers -> Job] /\ Tasks \subseteq Workers
  BY DEF TypeOK, Workers
<1>2. ASSUME UNCHANGED <<applied, started>>, NEW w \in Workers, jobs'[w].at \in {"idle", "reconcile"},
             \A u \in Workers \ {w} : jobs'[u] = jobs[u]
      PROVE  NothingForgotten'
  BY <1>1, <1>2 DEF NothingForgotten
<1>3. CASE Handler
  <2>1. PICK t \in Tasks : GoReconcile(t)
    BY <1>3 DEF Handler, SetPpdProfile, SetOnBattery, TickThermal, GoReconcile
  <2>2. jobs'[t].at = "reconcile" /\ \A u \in Workers \ {t} : jobs'[u] = jobs[u]
    BY <1>1, <2>1 DEF GoReconcile, Idle
  <2> QED
    BY <1>1, <1>2, <2>1, <2>2 DEF GoReconcile
<1>4. ASSUME NEW t \in Tasks, NothingToDo(t) PROVE NothingForgotten'
  <2>1. jobs'[t].at = "idle" /\ \A u \in Workers \ {t} : jobs'[u] = jobs[u]
    BY <1>1, <1>4 DEF NothingToDo, Idle
  <2> QED
    BY <1>1, <1>2, <1>4, <2>1 DEF NothingToDo
<1>5. ASSUME NEW t \in Tasks, StartApply(t) PROVE NothingForgotten'
  BY <1>5, StartNothingForgotten
<1>6. ASSUME NEW t \in Tasks, Forget(t) PROVE NothingForgotten'
  BY <1>6 DEF Forget, NothingForgotten
<1>7. ASSUME NEW c \in Clients, NEW profile \in Requests, ApplyManual(c, profile) PROVE NothingForgotten'
  <2>1. \A t \in Tasks : jobs'[t] = jobs[t]
    BY <1>1, <1>7, ClientsAreNotTasks DEF ApplyManual
  <2> QED
    BY <1>7, <2>1 DEF ApplyManual, NothingForgotten
<1>8. ASSUME NEW t \in Tasks, Apply(t) PROVE NothingForgotten'
  BY <1>8, ApplyNothingForgotten
<1>9. ASSUME NEW c \in Clients, Apply(c) PROVE NothingForgotten'
  <2>1. UNCHANGED <<applied, started>> /\ \A u \in Workers \ {c} : jobs'[u] = jobs[u]
    BY <1>9, ApplyKeepsBelief DEF Workers
  <2>2. \A t \in Tasks : jobs'[t] = jobs[t]
    BY <1>1, <2>1, ClientsAreNotTasks
  <2> QED
    BY <2>1, <2>2 DEF NothingForgotten
<1>10. CASE Crash
  <2>1. \A t \in Tasks : jobs'[t].at = "idle"
    BY <1>10 DEF Crash, Idle, Workers
  <2> QED
    BY <1>10, <2>1 DEF Crash, NothingForgotten
<1>11. CASE UNCHANGED vars
  BY <1>11 DEF vars, NothingForgotten
<1> QED
  BY <1>3, <1>4, <1>5, <1>6, <1>7, <1>8, <1>9, <1>10, <1>11 DEF Next, Reconcile, Workers

\* Only StartApply takes a task from its decision to its apply.
LEMMA OnlyStartApplies ==
  ASSUME TypeOK, Next, NEW t \in Tasks, jobs[t].at = "reconcile", jobs'[t].at = "apply"
  PROVE  StartApply(t)
<1>1. jobs \in [Workers -> Job] /\ t \in Workers
  BY DEF TypeOK, Workers
<1>2. ASSUME Handler PROVE FALSE
  <2>1. PICK u \in Tasks : GoReconcile(u)
    BY <1>2 DEF Handler, SetPpdProfile, SetOnBattery, TickThermal, GoReconcile
  <2> QED
    BY <1>1, <2>1 DEF GoReconcile
<1>3. ASSUME NEW u \in Tasks, NothingToDo(u) \/ Forget(u) PROVE FALSE
  BY <1>1, <1>3 DEF NothingToDo, Forget, Idle
<1>4. ASSUME NEW u \in Tasks, StartApply(u) PROVE u = t
  BY <1>1, <1>4 DEF StartApply
<1>5. ASSUME NEW c \in Clients, NEW profile \in Requests, ApplyManual(c, profile) PROVE FALSE
  BY <1>1, <1>5, ClientsAreNotTasks DEF ApplyManual
<1>6. ASSUME NEW w \in Workers, Apply(w) PROVE FALSE
  BY <1>1, <1>6, ApplyKeepsBelief
<1>7. ASSUME Crash PROVE FALSE
  BY <1>1, <1>7 DEF Crash, Idle
<1> QED
  BY <1>2, <1>3, <1>4, <1>5, <1>6, <1>7 DEF Next, Reconcile

(* ManualChangeSurvives: where what is decided can be written, the automation *)
(* starts an apply only for another decision than the last, whatever clients *)
(* write, fail to write and ask for, and however often the inputs are edited. *)
THEOREM ManualSurvives ==
  ASSUME DecisionsLand
  PROVE  Spec => ManualChangeSurvives
<1>1. Init => NothingForgotten
  BY DEF Init, NothingForgotten, Idle, Workers
<1>2. TypeOK /\ NothingForgotten /\ [Next]_vars => NothingForgotten'
  BY StepNothingForgotten
<1>3. TypeOK /\ NothingForgotten /\ [Next]_vars
      => [\A t \in Tasks : jobs[t].at = "reconcile" /\ jobs'[t].at = "apply"
           => jobs'[t].profile # started]_vars
  <2> SUFFICES ASSUME TypeOK, NothingForgotten, Next,
                      NEW t \in Tasks, jobs[t].at = "reconcile", jobs'[t].at = "apply"
               PROVE  jobs'[t].profile # started
    OBVIOUS
  <2>1. StartApply(t)
    BY OnlyStartApplies
  <2>2. jobs'[t].profile = Decide(inputs)
    BY <2>1 DEF StartApply, Applying, TypeOK, Workers
  <2>3. applied # Decide(inputs)
    BY <2>1 DEF StartApply, UpToDate
  <2> QED
    BY <2>2, <2>3 DEF NothingForgotten
<1> QED
  BY <1>1, <1>2, <1>3, TypeCorrect, PTL DEF Spec, ManualChangeSurvives
-----------------------------------------------------------------------------
(* Where two things that decide's documentation promises do hold. *)

\* Nobody has anything to reconcile only if what is believed is decided.
Settled == (\A t \in Tasks : jobs[t].at # "reconcile") => Believed

\* BeliefIsCurrent without its way out: applied is not forgotten.
LEMMA SettledStep ==
  ASSUME TypeOK, Settled, NothingForgotten, [Next]_vars
  PROVE  Settled'
<1>1. jobs \in [Workers -> Job] /\ Tasks \subseteq Workers
  BY DEF TypeOK, Workers
<1>2. CASE Handler
  <2>1. PICK t \in Tasks : GoReconcile(t)
    BY <1>2 DEF Handler, SetPpdProfile, SetOnBattery, TickThermal, GoReconcile
  <2>2. jobs'[t].at = "reconcile"
    BY <1>1, <2>1 DEF GoReconcile, Idle
  <2> QED
    BY <2>2 DEF Settled
<1>3. ASSUME NEW t \in Tasks, NothingToDo(t) \/ StartApply(t) PROVE Settled'
  <2>1. CASE NothingToDo(t)
    BY <2>1 DEF NothingToDo, UpToDate, Settled, Believed
  <2>2. CASE StartApply(t)
    BY <2>2 DEF StartApply, Settled, Believed
  <2> QED
    BY <1>3, <2>1, <2>2
<1>4. ASSUME NEW t \in Tasks, Forget(t) PROVE FALSE
  BY <1>4 DEF Forget, NothingForgotten
<1>5. ASSUME NEW c \in Clients, NEW profile \in Requests, ApplyManual(c, profile) PROVE Settled'
  <2>1. \A t \in Tasks : jobs'[t] = jobs[t]
    BY <1>1, <1>5, ClientsAreNotTasks DEF ApplyManual
  <2> QED
    BY <1>5, <2>1 DEF ApplyManual, Settled, Believed
<1>6. ASSUME NEW w \in Workers, Apply(w) PROVE Settled'
  BY <1>1, <1>6, ApplyKeepsBelief DEF Settled, Believed
<1>7. CASE Crash
  <2>1. Decide(NewInputs) = NoChange
    BY UnsetIsNoValue, ConfigIsTyped DEF Decide, NewInputs, ForProfile
  <2> QED
    BY <1>7, <2>1 DEF Crash, Settled, Believed, IsEmpty
<1>8. CASE UNCHANGED vars
  BY <1>8 DEF vars, Settled, Believed
<1> QED
  BY <1>2, <1>3, <1>4, <1>5, <1>6, <1>7, <1>8 DEF Next, Reconcile

\* The guard has the last word on the fan mode.
LEMMA TrippedDecidesLoud ==
  ASSUME TypeOK, inputs.thermal_tripped
  PROVE  Decide(inputs).fan_mode = "aggressive" /\ ~IsEmpty(Decide(inputs))
<1> DEFINE powered == IF inputs.on_battery
                        THEN Overlay(ForProfile(inputs.ppd_profile), Config.on_battery)
                        ELSE ForProfile(inputs.ppd_profile)
<1>1. powered \in HwProfile
  BY ForProfileIsProfile, OverlayIsProfile, ConfigIsTyped
<1>2. [powered EXCEPT !.fan_mode = "aggressive"].fan_mode = "aggressive"
  <2> HIDE DEF powered
  <2> QED
    BY <1>1 DEF HwProfile
<1>3. Decide(inputs).fan_mode = "aggressive"
  BY <1>2 DEF Decide
<1>4. NoChange.fan_mode = Unset
  BY DEF NoChange, Attrs
<1> QED
  BY <1>3, <1>4, UnsetIsNoValue DEF IsEmpty, FanMode

(* "No profile and no config setting may keep the fans quiet while the      *)
(* machine is overheating" (TrippedFansAreLoud): what takes that away is a  *)
(* client that sets the fans, a decision that cannot be written, or a last  *)
(* automatic apply started into another, and nothing else does, whatever    *)
(* the configuration, the readings and the restarts.                        *)
THEOREM TrippedNeedsOverlap ==
  ASSUME DecisionsLand, \A profile \in Requests : profile["fan_mode"] = Unset
  PROVE  Spec => [](~overlapped => TrippedFansAreLoud)
<1>1. Init => NothingForgotten /\ Settled
  <2>1. Decide(NewInputs) = NoChange
    BY UnsetIsNoValue, ConfigIsTyped DEF Decide, NewInputs, ForProfile
  <2> QED
    BY <2>1 DEF Init, NothingForgotten, Idle, Workers, Settled, Believed, IsEmpty
<1>2. TypeOK /\ NothingForgotten /\ Settled /\ [Next]_vars => NothingForgotten' /\ Settled'
  BY StepNothingForgotten, SettledStep
<1>3. AskInv => author["fan_mode"] # "client"
  BY DEF AskInv, Attrs
<1>4. TypeOK /\ Settled /\ BeliefMatchesHardware /\ author["fan_mode"] # "client"
      => (~overlapped => TrippedFansAreLoud)
  <2> SUFFICES ASSUME TypeOK, Settled, BeliefMatchesHardware, author["fan_mode"] # "client",
                      ~overlapped, AllIdle, inputs.thermal_tripped
               PROVE  hw.fan_mode = "aggressive"
    BY DEF TrippedFansAreLoud
  <2>1. Decide(inputs).fan_mode = "aggressive" /\ ~IsEmpty(Decide(inputs))
    BY TrippedDecidesLoud
  <2>2. NoneInFlight /\ applied = Decide(inputs)
    BY <2>1 DEF AllIdle, NoneInFlight, InFlight, Settled, Believed
  <2>3. Decide(inputs) # Unset /\ "aggressive" # Unset
    BY DecideIsProfile, UnsetIsNoValue DEF TypeOK, FanMode
  <2> QED
    BY <2>1, <2>2, <2>3 DEF BeliefMatchesHardware, Attrs
<1> QED
  BY <1>1, <1>2, <1>3, <1>4, AskHolds, TypeCorrect, BeliefMatches, PTL DEF Spec

\* The overlay attribute by attribute; it has no line for the start threshold.
LEMMA OverlayFields ==
  ASSUME NEW base \in HwProfile, NEW over \in HwProfile, over["charge_start_threshold"] = Unset, NEW a \in Attrs
  PROVE  Overlay(base, over)[a] = OrElse(over[a], base[a])
<1>1. CASE a = "charge_start_threshold"
  BY <1>1 DEF Overlay, OrElse, HwProfile
<1>2. CASE a # "charge_start_threshold"
  BY <1>2 DEF Overlay, OrElse, HwProfile, Attrs
<1> QED
  BY <1>1, <1>2

(* "Copy every field the overlay sets, leaving the rest alone"              *)
(* (BatteryOverlayWins): the start threshold is the only field of which     *)
(* that fails; where the overlay sets none, what it does set is in place on *)
(* battery, unless the last automatic apply was started into another.       *)
THEOREM OverlayLosesOnlyItsStart ==
  ASSUME Config.on_battery["charge_start_threshold"] = Unset
  PROVE  Spec => [](~overlapped => BatteryOverlayWins)
<1>1. TypeOK /\ BeliefIsCurrent /\ BeliefMatchesHardware => (~overlapped => BatteryOverlayWins)
  <2> SUFFICES ASSUME TypeOK, BeliefIsCurrent, BeliefMatchesHardware, ~overlapped,
                      AllIdle, inputs.on_battery, ~inputs.thermal_tripped, applied # Unset,
                      NEW a \in Attrs, Config.on_battery[a] # Unset, author[a] # "client"
               PROVE  hw[a] = Config.on_battery[a]
    BY DEF BatteryOverlayWins
  <2>1. Decide(inputs) = Overlay(ForProfile(inputs.ppd_profile), Config.on_battery)
    BY DEF Decide
  <2>2. Decide(inputs)[a] = Config.on_battery[a]
    BY <2>1, ForProfileIsProfile, ConfigIsTyped, OverlayFields DEF OrElse
  <2>3. NoneInFlight /\ \A t \in Tasks : jobs[t].at # "reconcile"
    BY DEF AllIdle, NoneInFlight, InFlight
  <2>4. ~IsEmpty(Decide(inputs))
    BY <2>2 DEF IsEmpty, NoChange
  <2>5. applied = Decide(inputs)
    BY <2>3, <2>4 DEF BeliefIsCurrent, Believed
  <2> QED
    BY <2>2, <2>3, <2>5 DEF BeliefMatchesHardware
<1> QED
  BY <1>1, TypeCorrect, BeliefCurrent, BeliefMatches, PTL

\* One task alone never has two applies in flight.
LEMMA OneTaskNeverOverlaps ==
  ASSUME \A t, u \in Tasks : t = u
  PROVE  Spec => []~overlapped
<1>1. Init => ~overlapped
  BY DEF Init
<1>2. ~overlapped /\ [Next]_vars => ~overlapped'
  <2> SUFFICES ASSUME ~overlapped, [Next]_vars, overlapped' PROVE FALSE
    OBVIOUS
  <2>1. PICK t \in Tasks : StartApply(t)
    BY DEF Next, vars, Handler, SetPpdProfile, SetOnBattery, TickThermal, GoReconcile, Reconcile,
           NothingToDo, Forget, ApplyManual, Apply, Write, WriteFails, Unsupported,
           CheckThresholds, OrderThresholds, Crash
  <2>2. \E u \in Tasks : InFlight(u)
    BY <2>1 DEF StartApply
  <2> QED
    BY <2>1, <2>2 DEF StartApply, InFlight
<1> QED
  BY <1>1, <1>2, PTL DEF Spec
=============================================================================
