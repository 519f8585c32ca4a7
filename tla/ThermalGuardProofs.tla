------------------------- MODULE ThermalGuardProofs -------------------------
(***************************************************************************)
(* The safety properties of ThermalGuard for every configuration, every    *)
(* set of readings and every spacing of the ticks.                         *)
(***************************************************************************)
EXTENDS ThermalGuard, ThermalLemmas

\* A disabled guard never leaves its initial state; without this conjunct the
\* clock of a guard that was disabled while cooling would run on.
IInv ==
  /\ TypeOK
  /\ CooldownIsHonest
  /\ thermal.enabled \/ guard = NewGuard

LEMMA ThermalIsTyped ==
  /\ thermal \in ThermalConfig
  /\ thermal.enabled \in BOOLEAN
  /\ thermal.high_c \in Int
  /\ thermal.low_c \in Int
  /\ thermal.cooldown_s \in Nat
BY ConfigIsTyped DEF thermal, ThermalConfig, U8

LEMMA CappedIsMonotone ==
  ASSUME NEW limit \in Nat, NEW a \in Nat, NEW b \in Nat, a <= b
  PROVE  Capped(limit, a) <= Capped(limit, b)
BY DEF Capped

LEMMA InitIsInductive == Init => IInv
BY DEF Init, IInv, TypeOK, CooldownIsHonest, NewGuard, Guards, Option

\* Ageing keeps the clock honest against warm_ago aged the same way.
LEMMA AgedIsHonest ==
  ASSUME IInv, NEW elapsed \in Nat
  PROVE  LET aged == Aged(thermal, guard, elapsed)
         IN  /\ aged \in Guards
             /\ aged.tripped = guard.tripped
             /\ aged.cool_for # Unset
                  => /\ guard.tripped
                     /\ aged.cool_for \in Nat
                     /\ aged.cool_for <= Capped(thermal.cooldown_s, warm_ago + elapsed)
<1> USE ThermalIsTyped
<1>1. guard \in Guards /\ warm_ago \in Nat
  BY DEF IInv, TypeOK
<1>2. Aged(thermal, guard, elapsed) \in Guards
  BY <1>1, AgedIsGuard
<1>3. CASE guard.cool_for = Unset
  BY <1>1, <1>2, <1>3 DEF Aged
<1>4. CASE guard.cool_for # Unset
  <2>1. /\ guard.cool_for \in Nat
        /\ guard.cool_for <= warm_ago
        /\ guard.tripped
    BY <1>1, <1>4, GuardFields DEF IInv, CooldownIsHonest
  <2>2. Capped(thermal.cooldown_s, guard.cool_for + elapsed)
          <= Capped(thermal.cooldown_s, warm_ago + elapsed)
    BY <1>1, <2>1, CappedIsMonotone
  <2>3. Capped(thermal.cooldown_s, guard.cool_for + elapsed) \in Nat
    <3>1. guard.cool_for + elapsed \in Nat
      BY <2>1
    <3> QED
      BY <3>1, CappedIsNat
  <2>4. Aged(thermal, guard, elapsed)
          = [guard EXCEPT !.cool_for = Capped(thermal.cooldown_s, guard.cool_for + elapsed)]
    BY <1>4 DEF Aged
  <2>5. /\ Aged(thermal, guard, elapsed).cool_for
             = Capped(thermal.cooldown_s, guard.cool_for + elapsed)
        /\ Aged(thermal, guard, elapsed).tripped = guard.tripped
    BY <1>1, <2>4 DEF Guards
  <2> QED
    BY <1>2, <2>1, <2>2, <2>3, <2>5
<1> QED
  BY <1>3, <1>4

\* What a tick does to the guard, and what it may conclude when it releases.
LEMMA TickIsHonest ==
  ASSUME IInv, NEW r \in Readings, NEW elapsed \in Gaps, Tick(r, elapsed)
  PROVE  /\ IInv'
         /\ guard.tripped /\ ~guard'.tripped
              => Cool(temp') /\ warm_ago' >= thermal.cooldown_s
<1> USE ThermalIsTyped
<1> DEFINE aged == Aged(thermal, guard, elapsed)
           bound == Capped(thermal.cooldown_s, warm_ago + elapsed)
<1>1. r \in Option(U8) /\ elapsed \in Nat /\ guard \in Guards /\ warm_ago \in Nat
  BY ReadingsAreOptionalU8, GapsAreSeconds DEF IInv, TypeOK
<1>2. /\ aged \in Guards
      /\ aged.tripped = guard.tripped
      /\ aged.cool_for # Unset => guard.tripped /\ aged.cool_for \in Nat /\ aged.cool_for <= bound
  BY <1>1, AgedIsHonest
<1>3. bound \in Nat /\ bound <= thermal.cooldown_s
  <2>1. warm_ago + elapsed \in Nat
    BY <1>1
  <2> QED
    BY <2>1, CappedIsNat
<1>4. /\ guard' = Update(thermal, guard, r, elapsed)
      /\ temp' = r
      /\ warm_ago' = IF r = Unset \/ Cool(r) THEN bound ELSE 0
  BY DEF Tick
<1>5. TypeOK'
  BY <1>1, <1>3, <1>4, UpdateIsGuard DEF TypeOK
<1>6. CASE ~thermal.enabled
  <2>1. guard = NewGuard
    BY <1>6 DEF IInv
  <2>2. guard' = NewGuard
    BY <1>4, <1>6, <2>1 DEF Update, Aged, NewGuard
  <2> QED
    BY <1>5, <2>1, <2>2 DEF IInv, CooldownIsHonest, NewGuard
<1>7. CASE thermal.enabled /\ r = Unset
  <2>1. guard' = aged /\ warm_ago' = bound
    BY <1>4, <1>7 DEF Update
  <2> QED
    BY <1>2, <1>5, <1>7, <2>1 DEF IInv, CooldownIsHonest
<1>8. CASE thermal.enabled /\ r # Unset
  <2>1. r \in Int
    BY <1>1, <1>8 DEF Option, U8
  <2>2. CASE r >= thermal.high_c
    <3>1. guard' = [tripped |-> TRUE, cool_for |-> Unset]
      BY <1>4, <1>8, <2>2 DEF Update
    <3> QED
      BY <1>5, <1>8, <3>1 DEF IInv, CooldownIsHonest
  <2>3. CASE r < thermal.high_c /\ ~guard.tripped
    <3>1. guard' = aged
      BY <1>2, <1>4, <1>8, <2>1, <2>3 DEF Update
    <3> QED
      BY <1>2, <1>5, <1>8, <2>3, <3>1 DEF IInv, CooldownIsHonest
  <2>4. CASE r < thermal.high_c /\ guard.tripped /\ r > thermal.low_c
    <3>1. guard' = [aged EXCEPT !.cool_for = Unset]
      BY <1>2, <1>4, <1>8, <2>1, <2>4 DEF Update
    <3>2. guard'.cool_for = Unset /\ guard'.tripped
      BY <1>2, <2>4, <3>1 DEF Guards
    <3> QED
      BY <1>5, <1>8, <3>2 DEF IInv, CooldownIsHonest
  <2>5. CASE r < thermal.high_c /\ guard.tripped /\ r <= thermal.low_c
    <3>1. guard' = CoolDown(thermal, aged)
      BY <1>2, <1>4, <1>8, <2>1, <2>5 DEF Update
    <3>2. Cool(r) /\ warm_ago' = bound
      BY <1>4, <1>8, <2>5 DEF Cool
    <3> DEFINE cool_for == OrElse(aged.cool_for, 0)
    <3>3. cool_for \in Nat /\ cool_for <= bound
      BY <1>2, <1>3 DEF OrElse
    <3>4. CASE cool_for >= thermal.cooldown_s
      <4>1. guard' = NewGuard
        BY <3>1, <3>4 DEF CoolDown
      <4>2. bound >= thermal.cooldown_s
        BY <1>3, <3>3, <3>4
      <4> QED
        BY <1>4, <1>5, <1>8, <3>2, <4>1, <4>2 DEF IInv, CooldownIsHonest, NewGuard
    <3>5. CASE ~(cool_for >= thermal.cooldown_s)
      <4>1. guard' = [aged EXCEPT !.cool_for = cool_for]
        BY <3>1, <3>5 DEF CoolDown
      <4>2. guard'.cool_for = cool_for /\ guard'.tripped
        BY <1>2, <2>5, <4>1 DEF Guards
      <4> QED
        BY <1>5, <1>8, <3>2, <3>3, <4>2 DEF IInv, CooldownIsHonest
    <3> QED
      BY <3>4, <3>5
  <2> QED
    BY <2>1, <2>2, <2>3, <2>4, <2>5
<1> QED
  BY <1>6, <1>7, <1>8

LEMMA StepIsInductive == IInv /\ [Next]_vars => IInv'
<1> SUFFICES ASSUME IInv, [Next]_vars PROVE IInv'
  OBVIOUS
<1>1. ASSUME NEW r \in Readings, NEW elapsed \in Gaps, Tick(r, elapsed) PROVE IInv'
  BY <1>1, TickIsHonest
<1>2. CASE UNCHANGED vars
  BY <1>2 DEF vars, IInv, TypeOK, CooldownIsHonest
<1> QED
  BY <1>1, <1>2 DEF Next

(* The guard's bookkeeping stays well typed: ThermalGuard's fields.        *)
THEOREM TypeCorrect == Spec => []TypeOK
<1>1. IInv => TypeOK
  BY DEF IInv
<1> QED
  BY InitIsInductive, StepIsInductive, <1>1, PTL DEF Spec

(* The cooldown that ThermalGuard::update measures is never longer than    *)
(* the time for which no reading has been anything but cool.               *)
THEOREM CooldownHonest == Spec => []CooldownIsHonest
<1>1. IInv => CooldownIsHonest
  BY DEF IInv
<1> QED
  BY InitIsInductive, StepIsInductive, <1>1, PTL DEF Spec

(* ThermalGuard::update never releases before the machine has been cool    *)
(* for the whole cooldown, even when the low mark lies above the high one. *)
THEOREM NoEarlyRelease == Spec => NeverReleasedEarly
<1> DEFINE Release == guard.tripped /\ ~guard'.tripped
                        => Cool(temp') /\ warm_ago' >= thermal.cooldown_s
<1>1. IInv /\ [Next]_vars => [Release]_vars
  <2> SUFFICES ASSUME IInv, Next PROVE Release
    OBVIOUS
  <2>1. PICK r \in Readings, elapsed \in Gaps : Tick(r, elapsed)
    BY DEF Next
  <2> QED
    BY <2>1, TickIsHonest
<1> QED
  BY InitIsInductive, StepIsInductive, <1>1, PTL DEF Spec, NeverReleasedEarly
=============================================================================
