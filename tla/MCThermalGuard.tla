--------------------------- MODULE MCThermalGuard ---------------------------
(* The thermal guard on a small scale: two degrees between the marks and    *)
(* a cooldown of ten seconds, readings at, above and below each mark.      *)
EXTENDS ThermalGuard

MCNames == {"balanced"}

MCConfig ==
  [ profiles   |-> [name \in {} |-> NoChange],
    on_battery |-> NoChange,
    thermal    |-> [enabled |-> TRUE, high_c |-> 6, low_c |-> 4, cooldown_s |-> 10] ]

MCReadings == {3, 4, 5, 6, 7, Unset}
MCGaps == {1, 2, 5}
=============================================================================
