---------------------------- MODULE ThermalGuard ----------------------------
(***************************************************************************)
(* The thermal guard driven by the thermal loop: every tick feeds one      *)
(* reading, possibly a missing one, some time after the previous tick.     *)
(*                                                                         *)
(* warm_ago is history: it restates from the readings alone what the       *)
(* guard's own bookkeeping is supposed to know.  A missing reading neither *)
(* stops nor restarts the cooldown, in the code and here: time spent       *)
(* without readings counts towards it, and only a cool reading ends it.    *)
(***************************************************************************)
EXTENDS Thermal

CONSTANTS
  Readings,  \* temperatures the sensor may report; Unset is a failed read
  Gaps       \* seconds that may pass between two ticks

VARIABLES
  guard,
  temp,      \* the reading fed last
  warm_ago   \* seconds since a reading last contradicted "cool", up to the cooldown

vars == <<guard, temp, warm_ago>>

thermal == Config.thermal

ASSUME ReadingsAreOptionalU8 == Readings \subseteq Option(U8)
ASSUME GapsAreSeconds == Gaps \subseteq Nat

\* A reading the guard may count as cool.
Cool(r) == r # Unset /\ r <= thermal.low_c /\ r < thermal.high_c

Init ==
  /\ guard = NewGuard
  /\ temp = Unset
  /\ warm_ago = 0

Tick(r, elapsed) ==
  /\ guard' = Update(thermal, guard, r, elapsed)
  /\ temp' = r
  /\ warm_ago' = IF r = Unset \/ Cool(r)
                   THEN Capped(thermal.cooldown_s, warm_ago + elapsed)
                   ELSE 0

Next == \E r \in Readings, elapsed \in Gaps : Tick(r, elapsed)

Spec == Init /\ [][Next]_vars

\* The tick of a tokio interval fires again and again.
FairSpec == Spec /\ WF_vars(Next)

-----------------------------------------------------------------------------
(* Type correctness. *)
TypeOK ==
  /\ guard \in Guards
  /\ temp \in Option(U8)
  /\ warm_ago \in Nat

(* The cooldown the guard measures never claims more than the readings     *)
(* support, and it runs only while the guard is tripped: a cool_since left *)
(* over from an earlier trip would release the next one too soon.          *)
CooldownIsHonest ==
  guard.cool_for # Unset => guard.tripped /\ guard.cool_for <= warm_ago

(* ThermalGuard::update releases only on a cool reading, and only when no  *)
(* reading has been anything but cool for the whole cooldown.              *)
NeverReleasedEarly ==
  [][guard.tripped /\ ~guard'.tripped
       => Cool(temp') /\ warm_ago' >= thermal.cooldown_s]_vars

(* A machine that keeps reporting cool temperatures gets its fans back.    *)
CoolMachineIsReleased == <>[]Cool(temp) => <>[]~guard.tripped
=============================================================================
