---------------------------- MODULE ThermalLemmas ----------------------------
(* What one call of ThermalGuard::update does, for every configuration.     *)
EXTENDS Thermal, TLAPS

\* A cool_for is a number of seconds once it is not None.
LEMMA GuardFields ==
  ASSUME NEW guard \in Guards
  PROVE  /\ guard.tripped \in BOOLEAN
         /\ guard.cool_for # Unset => guard.cool_for \in Nat
BY DEF Guards, Option

LEMMA NewGuardIsGuard == NewGuard \in Guards
BY DEF NewGuard, Guards, Option

LEMMA CappedIsNat ==
  ASSUME NEW limit \in Nat, NEW age \in Nat
  PROVE  Capped(limit, age) \in Nat /\ Capped(limit, age) <= limit /\ Capped(limit, age) <= age
BY DEF Capped

LEMMA AgedIsGuard ==
  ASSUME NEW config \in ThermalConfig, NEW guard \in Guards, NEW elapsed \in Nat
  PROVE  Aged(config, guard, elapsed) \in Guards
<1>1. config.cooldown_s \in Nat
  BY DEF ThermalConfig
<1>2. CASE guard.cool_for = Unset
  BY <1>2 DEF Aged
<1>3. CASE guard.cool_for # Unset
  <2>1. guard.cool_for + elapsed \in Nat
    BY <1>3, GuardFields
  <2>2. Capped(config.cooldown_s, guard.cool_for + elapsed) \in Nat
    BY <1>1, <2>1, CappedIsNat
  <2> QED
    BY <1>3, <2>2 DEF Aged, Guards, Option
<1> QED
  BY <1>2, <1>3

LEMMA CoolDownIsGuard ==
  ASSUME NEW config \in ThermalConfig, NEW guard \in Guards
  PROVE  CoolDown(config, guard) \in Guards
BY GuardFields, NewGuardIsGuard DEF CoolDown, OrElse, Guards, Option

\* ThermalGuard::update leaves the guard in a state the type allows.
LEMMA UpdateIsGuard ==
  ASSUME NEW config \in ThermalConfig, NEW guard \in Guards,
         NEW temp \in Option(U8), NEW elapsed \in Nat
  PROVE  Update(config, guard, temp, elapsed) \in Guards
<1> DEFINE aged == Aged(config, guard, elapsed)
<1>1. aged \in Guards
  BY AgedIsGuard
<1>2. CoolDown(config, aged) \in Guards
  BY <1>1, CoolDownIsGuard
<1>3. [tripped |-> TRUE, cool_for |-> Unset] \in Guards
  BY DEF Guards, Option
<1>4. [aged EXCEPT !.cool_for = Unset] \in Guards
  BY <1>1 DEF Guards, Option
<1> QED
  BY <1>1, <1>2, <1>3, <1>4 DEF Update
=============================================================================
