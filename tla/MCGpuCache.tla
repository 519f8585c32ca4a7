----------------------------- MODULE MCGpuCache -----------------------------
(* Three callers on two threads, and a GPU of the Dynamic Boost kind that    *)
(* reports no limit at times, falls asleep, and comes back.                  *)
EXTENDS GpuCache

Printed(power, limit, clock) ==
  [f \in Fields |-> CASE f = "power_w" -> power [] f = "power_limit_w" -> limit [] OTHER -> clock]

MCCalls == {"one", "two", "three"}
MCRows == {None, Printed(131, None, 1057)}
=============================================================================
