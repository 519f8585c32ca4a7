----------------------------- MODULE ProfileHold -----------------------------
(***************************************************************************)
(* What the autoprofile watcher promises power-profiles-daemon: it owns    *)
(* one hold, which it lets go of before it takes another, and it only ever *)
(* holds what the rules say of a window that has had the focus.            *)
(***************************************************************************)
CONSTANTS
  Nothing,        \* no profile is held
  Classes,        \* the window classes
  Wanted(_)       \* what the rules say of a class

VARIABLES
  held,           \* the profile held, or Nothing
  visited         \* the classes that have had the focus

vars == <<held, visited>>

Init == held = Nothing /\ visited \in {{class} : class \in Classes}

Focus(class) == visited' = visited \cup {class} /\ UNCHANGED held

Take ==
  /\ held = Nothing
  /\ held' \in {Wanted(class) : class \in visited}
  /\ UNCHANGED visited

LetGo == held' = Nothing /\ UNCHANGED visited

Next == (\E class \in Classes : Focus(class)) \/ Take \/ LetGo

Spec == Init /\ [][Next]_vars
=============================================================================
