----------------------------- MODULE AutoProfile -----------------------------
(***************************************************************************)
(* The autoprofile watcher of crates/tui/src/autoprofile.rs, between the    *)
(* compositor, whose focus it follows through two sockets, and              *)
(* power-profiles-daemon, where it holds a profile to match.  Its calls to  *)
(* power-profiles-daemon block: windows are switched, and holds dropped,    *)
(* between any two of them.                                                 *)
(*                                                                         *)
(* visited, heard and dropped are history, for the properties only.         *)
(***************************************************************************)
EXTENDS SequencesExt

CONSTANTS
  None,         \* Rust's None
  Rules,        \* the parsed rules: default, and a profile for each pattern
  Classes,      \* the window classes, a prefix of another where it is one
  Holdable,     \* the profiles power-profiles-daemon agrees to hold
  Cookies,      \* what it names holds with
  MaxEvents     \* bound on the events waiting in the socket

\* Stems are sequences so that one may start with another.  The desktop with
\* no window in focus is the empty class.
Stems == {pattern.stem : pattern \in DOMAIN Rules.classes}
Profiles == {Rules.classes[pattern] : pattern \in DOMAIN Rules.classes}
              \cup ({Rules.default} \ {None})

\* A pattern is its text without the asterisk, and whether it had one.
ASSUME RulesAreTyped ==
  \A pattern \in DOMAIN Rules.classes :
    pattern = [stem |-> pattern.stem, star |-> pattern.star] /\ pattern.star \in BOOLEAN
ASSUME TextsAreSequences == \A text \in Stems \cup Classes : text \in Seq(Range(text))
ASSUME MaxEventsIsNat == MaxEvents \in Nat
ASSUME NoneIsNoProfile == None \notin Profiles
ASSUME NoneIsNoHold ==
  \A cookie \in Cookies, profile \in Holdable :
    None # [cookie |-> cookie, profile |-> profile]
ASSUME EmptyClassExists == << >> \in Classes

Option(S) == S \cup {None}

Matches(pattern, class) ==
  IF pattern.star THEN IsPrefix(pattern.stem, class) ELSE pattern.stem = class

\* Mutated form of Beats: the first line of the table wins, whatever its length.
BeatsInOrder(pattern, other) ==
  Len(pattern.stem) < Len(other.stem) \/ pattern.stem = other.stem

\* max_by_key keeps the last of equals, and in the order of the table "foo*"
\* comes after "foo".
Beats(pattern, other) ==
  \/ Len(pattern.stem) > Len(other.stem)
  \/ Len(pattern.stem) = Len(other.stem) /\ (pattern.star \/ ~other.star)

ProfileFor(class) ==
  LET matching == {pattern \in DOMAIN Rules.classes : Matches(pattern, class)}
      best     == CHOOSE p \in matching : \A q \in matching : Beats(p, q)
  IN  IF matching = {} THEN Rules.default ELSE Rules.classes[best]

-----------------------------------------------------------------------------

VARIABLES
  focus,     \* the class of the window in focus
  events,    \* activewindow events the watcher has yet to read
  pc,        \* where the watcher is
  wanted,    \* the argument of follow, once it has been called
  current,   \* the hold it believes to have: its cookie and its profile
  holds,     \* its holds in power-profiles-daemon
  visited,   \* classes that have had the focus
  heard,     \* the watcher has heard of a window
  dropped    \* a hold was dropped, or refused, since one was last asked for

vars == <<focus, events, pc, wanted, current, holds, visited, heard, dropped>>

Hold == [cookie : Cookies, profile : Profiles]

Init ==
  /\ focus \in Classes
  /\ events = << >>
  /\ pc = "connect"
  /\ wanted = None
  /\ current = None
  /\ holds = {}
  /\ visited = {focus}
  /\ heard = FALSE
  /\ dropped = FALSE

\* Mutated form of Subscribed: events are asked for once the first window is known.
SubscribedLate == heard /\ pc # "dead"

Subscribed == pc \notin {"connect", "dead"}

-----------------------------------------------------------------------------
(* The compositor and power-profiles-daemon. *)

Switch(class) ==
  /\ class # focus
  /\ Len(events) < MaxEvents
  /\ focus' = class
  /\ events' = IF Subscribed THEN Append(events, class) ELSE events
  /\ visited' = visited \cup {class}
  /\ UNCHANGED <<pc, wanted, current, holds, heard, dropped>>

\* The user chooses a profile by hand, power-profiles-daemon restarts, or the
\* watcher has died and its name has left the bus.
DropHolds ==
  /\ holds # {}
  /\ holds' = {}
  /\ dropped' = TRUE
  /\ UNCHANGED <<focus, events, pc, wanted, current, visited, heard>>

-----------------------------------------------------------------------------
(* The watcher. *)

Connect ==
  /\ pc = "connect"
  /\ pc' = "first"
  /\ UNCHANGED <<focus, events, wanted, current, holds, visited, heard, dropped>>

\* Without a window in focus there is no class in the reply, and no follow.
FirstWindow ==
  /\ pc = "first"
  /\ focus # << >>
  /\ wanted' = ProfileFor(focus)
  /\ pc' = "follow"
  /\ UNCHANGED <<focus, events, current, holds, visited, heard, dropped>>

NoFirstWindow ==
  /\ pc = "first"
  /\ pc' = "read"
  /\ UNCHANGED <<focus, events, wanted, current, holds, visited, heard, dropped>>

ReadEvent ==
  /\ pc = "read"
  /\ events # << >>
  /\ wanted' = ProfileFor(Head(events))
  /\ events' = Tail(events)
  /\ pc' = "follow"
  /\ UNCHANGED <<focus, current, holds, visited, heard, dropped>>

Held == IF current = None THEN None ELSE current.profile

\* Mutated form of NextCall: the new hold is taken before the old one is released.
NextCallHolds(profile) ==
  IF profile = Held       THEN "read"
  ELSE IF profile # None  THEN "hold"
  ELSE "release"

\* Mutated form of NextCall: without the early return.
NextCallAlways(profile) == IF current # None THEN "release" ELSE "hold"

\* The next call to power-profiles-daemon, if any.
NextCall(profile) ==
  IF profile = Held       THEN "read"
  ELSE IF current # None  THEN "release"
  ELSE "hold"

Follow ==
  /\ pc = "follow"
  /\ pc' = NextCall(wanted)
  /\ heard' = TRUE
  /\ UNCHANGED <<focus, events, wanted, current, holds, visited, dropped>>

\* Mutated form of Release: only a change of profile releases, None does not.
ReleaseOnChange ==
  /\ pc = "release"
  /\ current' = None
  /\ holds' = IF wanted = None THEN holds ELSE holds \ {current}
  /\ pc' = IF wanted = None THEN "read" ELSE "hold"
  /\ UNCHANGED <<focus, events, wanted, visited, heard, dropped>>

\* A cookie that power-profiles-daemon no longer knows is an error, which is
\* reported and changes nothing.
Release ==
  /\ pc = "release"
  /\ current' = None
  /\ holds' = holds \ {current}
  /\ pc' = IF wanted = None THEN "read" ELSE "hold"
  /\ UNCHANGED <<focus, events, wanted, visited, heard, dropped>>

TakeHold ==
  /\ pc = "hold"
  /\ wanted \in Holdable
  /\ \E cookie \in Cookies :
       /\ cookie \notin {h.cookie : h \in holds}
       /\ current' = [cookie |-> cookie, profile |-> wanted]
       /\ holds' = holds \cup {current'}
  /\ pc' = "read"
  /\ dropped' = FALSE
  /\ UNCHANGED <<focus, events, wanted, visited, heard>>

\* The machine lacks the profile, or power-profiles-daemon is away.
HoldRefused ==
  /\ pc = "hold"
  /\ pc' = "read"
  /\ dropped' = TRUE
  /\ UNCHANGED <<focus, events, wanted, current, holds, visited, heard>>

\* Killed, or the compositor has closed the socket.
Die ==
  /\ pc # "dead"
  /\ pc' = "dead"
  /\ events' = << >>
  /\ UNCHANGED <<focus, wanted, current, holds, visited, heard, dropped>>

Watcher == Connect \/ FirstWindow \/ NoFirstWindow \/ ReadEvent \/ Follow
             \/ Release \/ TakeHold \/ HoldRefused

Next == (\E class \in Classes : Switch(class)) \/ DropHolds \/ Watcher \/ Die

Spec == Init /\ [][Next]_vars

-----------------------------------------------------------------------------

(* Type correctness, and what the calls to power-profiles-daemon take: a     *)
(* cookie to release, a profile to hold and no other hold beside it.        *)
TypeOK ==
  /\ focus \in Classes
  /\ events \in Seq(Classes) /\ Len(events) <= MaxEvents
  /\ pc \in {"connect", "first", "follow", "read", "release", "hold", "dead"}
  /\ wanted \in Option(Profiles)
  /\ current \in Option(Hold)
  /\ holds \subseteq Hold
  /\ visited \subseteq Classes
  /\ heard \in BOOLEAN
  /\ dropped \in BOOLEAN
  /\ pc = "release" => current # None
  /\ pc = "hold" => current = None /\ wanted # None

(* Every hold power-profiles-daemon still has is the one whose cookie the  *)
(* watcher keeps, so that it can be released: no change of window, no       *)
(* refusal and no error on the way leaves a hold behind.                    *)
NoHoldIsLost == holds \subseteq {current}

\* The watcher has heard of a window and has nothing left to do or read.
Settled == pc = "read" /\ events = << >> /\ heard

(* Subscribing before asking for the first window misses no switch, and     *)
(* none is applied out of order: a settled watcher holds what the rules say *)
(* of the window in focus now, unless power-profiles-daemon has dropped or  *)
(* refused that hold.                                                       *)
SettledOnFocus ==
  Settled =>
    /\ wanted = ProfileFor(focus)
    /\ IF wanted = None THEN holds = {}
       ELSE dropped \/ (Held = wanted /\ holds = {current})

\* Every other rule that matches is shorter.  The one exception: of a class and
\* the same text with an asterisk, which are as long, the asterisk has it.
MostSpecific(rule, class) ==
  /\ Matches(rule, class)
  /\ \A other \in DOMAIN Rules.classes \ {rule} :
       Matches(other, class)
         => \/ Len(other.stem) < Len(rule.stem)
            \/ rule.stem = other.stem /\ rule.star /\ ~other.star

(* "The longest match wins", and the default where nothing matches: a       *)
(* settled watcher wants what the most specific rule for the window in      *)
(* focus says, whatever order the rules sit in.  A rule for just this class *)
(* is the longest there can be, so it decides, but for the same text listed *)
(* with an asterisk as well, which the code prefers.                        *)
SpecificRuleDecides ==
  LET Decides(rule) == MostSpecific(rule, focus) /\ wanted = Rules.classes[rule]
  IN  Settled =>
        \/ \E rule \in DOMAIN Rules.classes : Decides(rule)
        \/ wanted = Rules.default /\ \A rule \in DOMAIN Rules.classes : ~Matches(rule, focus)

\* The holds in power-profiles-daemon are the one slot of ProfileHold.
SlotFor(class) == {ProfileFor(class)} \ {None}

Slot == INSTANCE ProfileHold WITH
  Nothing <- {}, Wanted <- SlotFor, held <- {h.profile : h \in holds}

(* The watcher implements the one slot: never two holds at once, and only   *)
(* profiles the rules give for windows that have had the focus.             *)
OneHoldAtATime == Slot!Spec
=============================================================================
