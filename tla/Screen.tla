------------------------------- MODULE Screen -------------------------------
(***************************************************************************)
(* What the terminal client draws of a snapshot (crates/tui/src/ui.rs),     *)
(* as data: which value or which word stands in a row, whether the row is   *)
(* muted, how long and in which colour a gauge is, what the footer says.    *)
(* Layout and wording are left out.                                        *)
(***************************************************************************)
EXTENDS Detect

\* The value as it is, or the word for its absence.
Word(state, a) ==
  IF state[a] # Unset                       THEN "value"
  ELSE IF a \in {"power_level", "fan_mode"} THEN "unknown"
  ELSE "unsupported"

\* One row of the state panel for each attribute; what the laptop cannot do
\* stays visible but muted.
Row(state, caps, a) == [word |-> Word(state, a), value |-> state[a], muted |-> a \notin caps]

WARM_C == 75
HOT_C  == 88

Colour(temp) == IF temp >= HOT_C THEN "red" ELSE IF temp >= WARM_C THEN "yellow" ELSE "green"

\* Mutated form of Percent: of a temperature that is never above a hundred.
PercentUnclamped(temp) == temp

\* Of a scale of a hundred degrees.  Gauge::percent panics above a hundred.
Percent(temp) == IF temp > 100 THEN 100 ELSE temp

Gauge(temp, fan) ==
  IF temp = Unset THEN [word |-> "unavailable"]
  ELSE [word |-> "value", temp |-> temp, colour |-> Colour(temp), percent |-> Percent(temp), fan |-> fan]

Gauges(state) ==
  [ cpu |-> Gauge(state.cpu_temp_c, state.cpu_fan_percent),
    gpu |-> Gauge(state.gpu_temp_c, state.gpu_fan_percent) ]

\* fan1, fan2 ... as they were listed, or a word for none.
Fans(state) == IF state.fan_rpm = << >> THEN <<"no tachometer readings">> ELSE state.fan_rpm

\* The last outcome while it lasts, then the keys, or why they do nothing.
FooterLine(status, source) ==
  IF status # "none" THEN status ELSE IF source = "local" THEN "read-only" ELSE "keys"
=============================================================================
