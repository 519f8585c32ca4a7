------------------------------- MODULE Thermal -------------------------------
(***************************************************************************)
(* ThermalGuard of crates/daemon/src/engine.rs as a function from one guard *)
(* state to the next.                                                      *)
(*                                                                         *)
(* The code keeps the Instant at which the machine was first cool and      *)
(* compares now - cool_since with the cooldown.  Only that difference is   *)
(* ever used, so the model keeps it instead: cool_for is the time since    *)
(* cool_since, Unset when cool_since is None, and stops growing at the     *)
(* cooldown, past which the comparison no longer changes.                  *)
(***************************************************************************)
EXTENDS HwProfile

Guards == [tripped : BOOLEAN, cool_for : Option(Nat)]

NewGuard == [tripped |-> FALSE, cool_for |-> Unset]

Capped(limit, age) == IF age > limit THEN limit ELSE age

\* Mutated form of Aged: the two instants subtracted the wrong way round.
AgedBackwards(config, guard, elapsed) ==
  IF guard.cool_for = Unset THEN guard
  ELSE [guard EXCEPT !.cool_for = @ - elapsed]

\* Time passes for a cooldown that has begun, whatever the sensor says.
Aged(config, guard, elapsed) ==
  IF guard.cool_for = Unset THEN guard
  ELSE [guard EXCEPT !.cool_for = Capped(config.cooldown_s, @ + elapsed)]

\* Mutated form of CoolDown: every cool reading stamps the clock afresh.
CoolDownRestarted(config, guard) ==
  IF config.cooldown_s = 0 THEN NewGuard ELSE [guard EXCEPT !.cool_for = 0]

\* Below the low mark: start the clock if it is not running, and release once
\* it has run for the cooldown.
CoolDown(config, guard) ==
  LET cool_for == OrElse(guard.cool_for, 0)
  IN  IF cool_for >= config.cooldown_s
        THEN NewGuard
        ELSE [guard EXCEPT !.cool_for = cool_for]

\* Mutated form of Update: a reading between the marks leaves the clock alone.
UpdateWithoutHysteresis(config, guard, temp, elapsed) ==
  LET aged == Aged(config, guard, elapsed)
  IN  CASE ~config.enabled \/ temp = Unset -> aged
        [] config.enabled /\ temp # Unset /\ temp >= config.high_c ->
             [tripped |-> TRUE, cool_for |-> Unset]
        [] config.enabled /\ temp # Unset /\ temp < config.high_c /\ aged.tripped
             /\ temp <= config.low_c -> CoolDown(config, aged)
        [] OTHER -> aged

\* Mutated form of Update: a missing reading counts as a cold one.
UpdateMissingIsCold(config, guard, temp, elapsed) ==
  LET aged == Aged(config, guard, elapsed)
  IN  IF temp = Unset /\ aged.tripped THEN CoolDown(config, aged)
      ELSE UpdateWithoutHysteresis(config, guard, temp, elapsed)

\* One reading, taken elapsed seconds after the previous one.
Update(config, guard, temp, elapsed) ==
  LET aged == Aged(config, guard, elapsed)
  IN  IF ~config.enabled \/ temp = Unset THEN aged
      ELSE IF temp >= config.high_c THEN [tripped |-> TRUE, cool_for |-> Unset]
      ELSE IF ~aged.tripped THEN aged
      ELSE IF temp <= config.low_c THEN CoolDown(config, aged)
      ELSE [aged EXCEPT !.cool_for = Unset]
=============================================================================
