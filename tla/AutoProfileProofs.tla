-------------------------- MODULE AutoProfileProofs --------------------------
(***************************************************************************)
(* The watcher of AutoProfile never loses a hold, implements the one slot   *)
(* of ProfileHold and ends up on the window in focus, by the rule that is   *)
(* most specific, whatever the rules, the classes and the number of events  *)
(* that may wait.                                                          *)
(***************************************************************************)
EXTENDS AutoProfile, WellFoundedInduction, TLAPS

\* The watcher only hears of windows that have had the focus, and what it asks
\* for is what the rules say of one of them.
FollowsWindows ==
  /\ focus \in visited
  /\ events \in Seq(visited)
  /\ pc \in {"follow", "release", "hold"} =>
       \E class \in visited : wanted = ProfileFor(class)

\* A profile is asked for only when none is held; None is not taken for a hold.
AsksWhenFree ==
  /\ pc = "hold" => current = None /\ wanted # None
  /\ None \notin holds

\* NoHoldIsLost is not inductive on its own: TakeHold would add a second hold
\* without AsksWhenFree.
IInv == NoHoldIsLost /\ AsksWhenFree /\ FollowsWindows

LEMMA InvInit == Init => IInv
  BY DEF Init, IInv, NoHoldIsLost, AsksWhenFree, FollowsWindows

LEMMA InvStep == IInv /\ [Next]_vars => IInv'
<1> SUFFICES ASSUME IInv, [Next]_vars PROVE IInv'
  OBVIOUS
<1> USE DEF IInv, NoHoldIsLost, AsksWhenFree, FollowsWindows
<1>1. ASSUME NEW class \in Classes, Switch(class) PROVE IInv'
  <2>1. visited \subseteq visited' /\ focus' \in visited'
    BY <1>1 DEF Switch
  <2>2. events' \in Seq(visited')
    <3>1. events \in Seq(visited')
      BY <2>1
    <3>2. CASE Subscribed
      BY <1>1, <2>1, <3>1, <3>2 DEF Switch
    <3>3. CASE ~Subscribed
      BY <1>1, <3>1, <3>3 DEF Switch
    <3> QED BY <3>2, <3>3
  <2> QED BY <1>1, <2>1, <2>2 DEF Switch
<1>2. CASE DropHolds
  BY <1>2 DEF DropHolds
<1>3. CASE Connect
  BY <1>3 DEF Connect
<1>4. CASE FirstWindow
  BY <1>4 DEF FirstWindow
<1>5. CASE NoFirstWindow
  BY <1>5 DEF NoFirstWindow
<1>6. CASE ReadEvent
  <2>1. Head(events) \in visited /\ Tail(events) \in Seq(visited)
    BY <1>6 DEF ReadEvent
  <2> QED BY <1>6, <2>1 DEF ReadEvent
<1>7. CASE Follow
  BY <1>7 DEF Follow, NextCall, Held
<1>8. CASE Release
  BY <1>8 DEF Release
<1>9. CASE TakeHold
  <2>1. PICK cookie \in Cookies : current' = [cookie |-> cookie, profile |-> wanted]
    BY <1>9 DEF TakeHold
  <2>2. current' # None
    BY <1>9, <2>1, NoneIsNoHold DEF TakeHold
  <2>3. holds = {}
    BY <1>9 DEF TakeHold
  <2>4. holds' = {current'} /\ pc' = "read"
    BY <1>9, <2>3 DEF TakeHold
  <2> QED BY <1>9, <2>2, <2>4 DEF TakeHold
<1>10. CASE HoldRefused
  BY <1>10 DEF HoldRefused
<1>11. CASE Die
  BY <1>11 DEF Die
<1>12. CASE UNCHANGED vars
  BY <1>12 DEF vars
<1> QED
  BY <1>1, <1>2, <1>3, <1>4, <1>5, <1>6, <1>7, <1>8, <1>9, <1>10, <1>11, <1>12
  DEF Next, Watcher

LEMMA Invariant == Spec => []IInv
  BY InvInit, InvStep, PTL DEF Spec

(* NoHoldIsLost: the cookie of every hold that power-profiles-daemon still   *)
(* has is the one the watcher keeps.                                        *)
THEOREM NoHoldLost == Spec => []NoHoldIsLost
<1>1. IInv => NoHoldIsLost
  BY DEF IInv
<1> QED BY <1>1, Invariant, PTL

-----------------------------------------------------------------------------
(* The refinement.                                                          *)

LEMMA SlotInit == Init => Slot!Init
  BY DEF Init, Slot!Init

LEMMA SlotStep == IInv /\ [Next]_vars => [Slot!Next]_(Slot!vars)
<1> SUFFICES ASSUME IInv, [Next]_vars PROVE Slot!Next \/ UNCHANGED Slot!vars
  OBVIOUS
<1> USE DEF IInv, NoHoldIsLost, AsksWhenFree, FollowsWindows, Slot!Next, Slot!vars
<1>1. ASSUME NEW class \in Classes, Switch(class) PROVE Slot!Focus(class)
  BY <1>1 DEF Switch, Slot!Focus
<1>2. CASE DropHolds
  BY <1>2 DEF DropHolds, Slot!LetGo
<1>3. CASE Release
  <2>1. holds' = {}
    BY <1>3 DEF Release
  <2> QED BY <1>3, <2>1 DEF Release, Slot!LetGo
<1>4. CASE TakeHold
  <2>1. holds = {} /\ holds' = {current'} /\ current'.profile = wanted
    BY <1>4 DEF TakeHold
  <2>2. PICK class \in visited : wanted = ProfileFor(class)
    BY <1>4 DEF TakeHold
  <2>3. SlotFor(class) = {wanted}
    BY <1>4, <2>2 DEF TakeHold, SlotFor
  <2>4. {h.profile : h \in holds}' = {wanted}
    BY <2>1
  <2>5. Slot!Take
    BY <1>4, <2>1, <2>3, <2>4 DEF TakeHold, Slot!Take
  <2> QED BY <2>5
<1>5. CASE Connect \/ FirstWindow \/ NoFirstWindow \/ ReadEvent \/ Follow \/ HoldRefused \/ Die
  BY <1>5 DEF Connect, FirstWindow, NoFirstWindow, ReadEvent, Follow, HoldRefused, Die
<1>6. CASE UNCHANGED vars
  BY <1>6 DEF vars
<1> QED
  BY <1>1, <1>2, <1>3, <1>4, <1>5, <1>6 DEF Next, Watcher

(* OneHoldAtATime: the watcher implements ProfileHold.                      *)
THEOREM OneHold == Spec => OneHoldAtATime
  BY SlotInit, SlotStep, Invariant, PTL DEF Spec, OneHoldAtATime, Slot!Spec
-----------------------------------------------------------------------------
(* What the rules say.                                                      *)

LEMMA LeastNat ==
  ASSUME NEW S \in SUBSET Nat, S # {}
  PROVE  \E least \in S : \A n \in S : least <= n
<1> DEFINE R == OpToRel(<, Nat)
<1>1. IsWellFoundedOn(R, Nat)
  BY NatLessThanWellFounded
<1>2. \A m, n \in Nat : m < n => <<m, n>> \in R
  BY DEF OpToRel
<1> HIDE DEF R
<1>3. PICK least \in S : \A n \in S : ~(<<n, least>> \in R)
  BY <1>1, WFMin
<1>4. ASSUME NEW n \in S PROVE least <= n
  <2>1. least \in Nat /\ n \in Nat
    OBVIOUS
  <2>2. ~(n < least)
    BY <1>2, <1>3, <2>1
  <2> QED BY <2>1, <2>2
<1> QED BY <1>4

\* The text of a pattern that matches is no longer than the class.
LEMMA MatchesAreShort ==
  ASSUME NEW class \in Classes, NEW pattern \in DOMAIN Rules.classes, Matches(pattern, class)
  PROVE  Len(pattern.stem) \in Nat /\ Len(class) \in Nat /\ Len(pattern.stem) <= Len(class)
<1>1. class \in Seq(Range(class)) /\ pattern.stem \in Seq(Range(pattern.stem))
  BY TextsAreSequences DEF Stems
<1>2. Len(class) \in Nat /\ Len(pattern.stem) \in Nat
  BY <1>1
<1> QED BY <1>2 DEF Matches, IsPrefix

\* Of the patterns that match a class one beats all others.
LEMMA BestExists ==
  ASSUME NEW class \in Classes, NEW matching,
         matching = {pattern \in DOMAIN Rules.classes : Matches(pattern, class)}, matching # {}
  PROVE  \E best \in matching : \A pattern \in matching : Beats(best, pattern)
<1>1. \A pattern \in matching :
        Len(pattern.stem) \in Nat /\ Len(class) \in Nat /\ Len(pattern.stem) <= Len(class)
  BY MatchesAreShort
<1> DEFINE spare == {Len(class) - Len(pattern.stem) : pattern \in matching}
<1>2. PICK least \in spare : \A n \in spare : least <= n
  <2>1. spare \in SUBSET Nat /\ spare # {}
    BY <1>1
  <2> QED BY <2>1, LeastNat
<1>3. PICK longest \in matching : least = Len(class) - Len(longest.stem)
  OBVIOUS
<1>4. ASSUME NEW pattern \in matching PROVE Len(longest.stem) >= Len(pattern.stem)
  <2>1. Len(class) - Len(pattern.stem) \in spare
    OBVIOUS
  <2>2. Len(class) - Len(longest.stem) <= Len(class) - Len(pattern.stem)
    BY <1>2, <1>3, <2>1
  <2> HIDE DEF spare
  <2> QED BY <1>1, <2>2
<1>5. \A pattern \in matching : pattern.star \in BOOLEAN
  BY RulesAreTyped
<1>6. CASE \E pattern \in matching : pattern.star /\ Len(pattern.stem) = Len(longest.stem)
  <2>1. PICK best \in matching : best.star /\ Len(best.stem) = Len(longest.stem)
    BY <1>6
  <2>2. ASSUME NEW pattern \in matching PROVE Beats(best, pattern)
    BY <1>1, <1>4, <2>1 DEF Beats
  <2> QED BY <2>2
<1>7. CASE ~\E pattern \in matching : pattern.star /\ Len(pattern.stem) = Len(longest.stem)
  <2>1. ASSUME NEW pattern \in matching PROVE Beats(longest, pattern)
    BY <1>1, <1>4, <1>7 DEF Beats
  <2> QED BY <2>1
<1> QED BY <1>6, <1>7

LEMMA ProfileForType ==
  ASSUME NEW class \in Classes
  PROVE  ProfileFor(class) \in Option(Profiles)
<1> DEFINE matching == {pattern \in DOMAIN Rules.classes : Matches(pattern, class)}
<1> DEFINE best == CHOOSE p \in matching : \A q \in matching : Beats(p, q)
<1>1. CASE matching = {}
  <2>1. ProfileFor(class) = Rules.default
    BY <1>1 DEF ProfileFor
  <2> QED BY <2>1 DEF Profiles, Option
<1>2. CASE matching # {}
  <2>1. best \in matching
    <3> HIDE DEF matching
    <3>1. \E p \in matching : \A q \in matching : Beats(p, q)
      BY <1>2, BestExists DEF matching
    <3> QED BY <3>1
  <2>2. ProfileFor(class) = Rules.classes[best]
    BY <1>2 DEF ProfileFor
  <2> QED BY <2>1, <2>2 DEF Profiles, Option
<1> QED BY <1>1, <1>2

\* A pattern that matches is as much of the class as it is long.
LEMMA MatchesAreBeginnings ==
  ASSUME NEW class \in Classes, NEW pattern \in DOMAIN Rules.classes, Matches(pattern, class)
  PROVE  pattern.stem = SubSeq(class, 1, Len(pattern.stem))
<1>1. class \in Seq(Range(class)) /\ pattern.stem \in Seq(Range(pattern.stem))
  BY TextsAreSequences DEF Stems
<1>2. /\ SubSeq(class, 1, Len(class)) = class
      /\ SubSeq(pattern.stem, 1, Len(pattern.stem)) = pattern.stem
  BY <1>1
<1> QED BY <1>2 DEF Matches, IsPrefix

\* A pattern that beats another either is longer, or is the same text with the
\* asterisk the other lacks: two of a length that match are one text.
LEMMA BeatenIsLess ==
  ASSUME NEW class \in Classes,
         NEW best \in DOMAIN Rules.classes, Matches(best, class),
         NEW other \in DOMAIN Rules.classes, Matches(other, class),
         Beats(best, other), other # best
  PROVE  \/ Len(other.stem) < Len(best.stem)
         \/ best.stem = other.stem /\ best.star /\ ~other.star
<1>1. CASE Len(best.stem) > Len(other.stem)
  BY <1>1, MatchesAreShort
<1>2. CASE Len(best.stem) = Len(other.stem) /\ (best.star \/ ~other.star)
  <2>1. best.stem = other.stem
    BY <1>2, MatchesAreBeginnings
  <2>2. /\ best = [stem |-> best.stem, star |-> best.star] /\ best.star \in BOOLEAN
        /\ other = [stem |-> other.stem, star |-> other.star] /\ other.star \in BOOLEAN
    BY RulesAreTyped
  <2>3. best.star # other.star
    BY <2>1, <2>2
  <2> QED BY <1>2, <2>1, <2>2, <2>3
<1> QED BY <1>1, <1>2 DEF Beats

\* profile_for: the most specific rule that matches, or the default.
LEMMA MostSpecificWins ==
  ASSUME NEW class \in Classes
  PROVE  \/ \E rule \in DOMAIN Rules.classes :
              MostSpecific(rule, class) /\ ProfileFor(class) = Rules.classes[rule]
         \/ /\ ProfileFor(class) = Rules.default
            /\ \A rule \in DOMAIN Rules.classes : ~Matches(rule, class)
<1> DEFINE matching == {pattern \in DOMAIN Rules.classes : Matches(pattern, class)}
<1> DEFINE best == CHOOSE p \in matching : \A q \in matching : Beats(p, q)
<1>1. CASE matching = {}
  BY <1>1 DEF ProfileFor
<1>2. CASE matching # {}
  <2>1. best \in matching /\ \A q \in matching : Beats(best, q)
    <3> HIDE DEF matching
    <3>1. \E p \in matching : \A q \in matching : Beats(p, q)
      BY <1>2, BestExists DEF matching
    <3> QED BY <3>1
  <2>2. ProfileFor(class) = Rules.classes[best]
    BY <1>2 DEF ProfileFor
  <2> HIDE DEF best
  <2>3. MostSpecific(best, class)
    BY <2>1, BeatenIsLess DEF MostSpecific
  <2> QED BY <2>1, <2>2, <2>3
<1> QED BY <1>1, <1>2
-----------------------------------------------------------------------------
(* Types, and where the watcher ends up.                                    *)

LEMMA TypeInit == Init => TypeOK
<1> SUFFICES ASSUME Init PROVE TypeOK
  OBVIOUS
<1>1. events \in Seq(Classes) /\ Len(events) <= MaxEvents
  BY MaxEventsIsNat DEF Init
<1>2. holds \subseteq Hold /\ visited \subseteq Classes /\ wanted \in Option(Profiles)
  BY DEF Init, Option
<1> QED BY <1>1, <1>2 DEF Init, TypeOK, Option

LEMMA TypeStep == TypeOK /\ [Next]_vars => TypeOK'
<1> SUFFICES ASSUME TypeOK, [Next]_vars PROVE TypeOK'
  OBVIOUS
<1> USE DEF TypeOK
<1>1. ASSUME NEW class \in Classes, Switch(class) PROVE TypeOK'
  <2>1. events' \in Seq(Classes) /\ Len(events') <= MaxEvents
    <3>1. Len(events) \in Nat /\ Len(Append(events, class)) = Len(events) + 1
      OBVIOUS
    <3> QED BY <1>1, <3>1, MaxEventsIsNat DEF Switch
  <2> QED BY <1>1, <2>1 DEF Switch
<1>2. CASE DropHolds
  BY <1>2 DEF DropHolds
<1>3. CASE Connect
  BY <1>3 DEF Connect
<1>4. CASE FirstWindow
  BY <1>4, ProfileForType DEF FirstWindow
<1>5. CASE NoFirstWindow
  BY <1>5 DEF NoFirstWindow
<1>6. CASE ReadEvent
  <2>1. Head(events) \in Classes /\ Tail(events) \in Seq(Classes)
    BY <1>6 DEF ReadEvent
  <2>2. Len(events') <= MaxEvents
    <3>1. Len(Tail(events)) = Len(events) - 1 /\ Len(events) \in Nat
      BY <1>6 DEF ReadEvent
    <3> QED BY <1>6, <3>1, MaxEventsIsNat DEF ReadEvent
  <2> QED BY <1>6, <2>1, <2>2, ProfileForType DEF ReadEvent
<1>7. CASE Follow
  BY <1>7 DEF Follow, NextCall, Held
<1>8. CASE Release
  BY <1>8 DEF Release, Option
<1>9. CASE TakeHold
  <2>1. wanted \in Profiles
    BY <1>9 DEF TakeHold, Option
  <2>2. PICK cookie \in Cookies : current' = [cookie |-> cookie, profile |-> wanted]
    BY <1>9 DEF TakeHold
  <2>3. current' \in Hold
    BY <2>1, <2>2 DEF Hold
  <2> QED BY <1>9, <2>3 DEF TakeHold, Option
<1>10. CASE HoldRefused
  BY <1>10 DEF HoldRefused
<1>11. CASE Die
  BY <1>11, MaxEventsIsNat DEF Die
<1>12. CASE UNCHANGED vars
  BY <1>12 DEF vars
<1> QED
  BY <1>1, <1>2, <1>3, <1>4, <1>5, <1>6, <1>7, <1>8, <1>9, <1>10, <1>11, <1>12
  DEF Next, Watcher

(* TypeOK: every state is well-typed, and no call to power-profiles-daemon   *)
(* lacks its argument.                                                      *)
THEOREM TypeCorrect == Spec => []TypeOK
  BY TypeInit, TypeStep, PTL DEF Spec

\* What has been read, or else is the last to be read, is the window in focus.
LastIsFocus ==
  /\ events # << >> => events[Len(events)] = focus
  /\ events = << >> /\ (pc \in {"follow", "release", "hold"} \/ (pc = "read" /\ heard))
       => wanted = ProfileFor(focus)

\* Nothing is heard before the events are subscribed to.
DeafAtFirst ==
  /\ pc \in {"connect", "first"} => ~heard
  /\ pc \in {"connect", "dead"} => events = << >>

\* The hold believed to stand does, and once follow has returned it is the one
\* that was wanted.
HoldsWhatIsWanted ==
  /\ current # None => dropped \/ holds = {current}
  /\ pc = "read" /\ heard => IF wanted = None THEN current = None ELSE dropped \/ Held = wanted

\* SettledOnFocus speaks of moments without anything to do; this of all others.
FocusInv == TypeOK /\ IInv /\ LastIsFocus /\ DeafAtFirst /\ HoldsWhatIsWanted

LEMMA FocusInit == Init => FocusInv
  BY TypeInit, InvInit DEF Init, FocusInv, LastIsFocus, DeafAtFirst, HoldsWhatIsWanted

LEMMA LastIsFocusStep == FocusInv /\ [Next]_vars => LastIsFocus' /\ DeafAtFirst'
<1> SUFFICES ASSUME FocusInv, [Next]_vars PROVE LastIsFocus' /\ DeafAtFirst'
  OBVIOUS
<1> USE DEF LastIsFocus, DeafAtFirst
<1>0. TypeOK /\ LastIsFocus /\ DeafAtFirst
  BY DEF FocusInv
<1>1. ASSUME NEW class \in Classes, Switch(class) PROVE LastIsFocus' /\ DeafAtFirst'
  <2>1. CASE Subscribed
    <3>1. events' = Append(events, class) /\ focus' = class
      BY <1>1, <2>1 DEF Switch
    <3>2. events' # << >> /\ events'[Len(events')] = class
      BY <1>0, <3>1 DEF TypeOK
    <3> QED BY <1>0, <1>1, <2>1, <3>1, <3>2 DEF Switch, Subscribed
  <2>2. CASE ~Subscribed
    BY <1>0, <1>1, <2>2 DEF Switch, Subscribed
  <2> QED BY <2>1, <2>2
<1>2. CASE DropHolds
  BY <1>0, <1>2 DEF DropHolds
<1>3. CASE Connect
  BY <1>0, <1>3 DEF Connect
<1>4. CASE FirstWindow
  BY <1>0, <1>4 DEF FirstWindow
<1>5. CASE NoFirstWindow
  BY <1>0, <1>5 DEF NoFirstWindow
<1>6. CASE ReadEvent
  <2>1. CASE Tail(events) = << >>
    <3>1. Len(events) = 1
      <4>1. events \in Seq(Classes) /\ events # << >>
        BY <1>0, <1>6 DEF ReadEvent, TypeOK
      <4>2. Len(Tail(events)) = Len(events) - 1 /\ Len(events) \in Nat
        BY <4>1
      <4>3. Len(Tail(events)) = Len(<< >>)
        BY <2>1, Zenon
      <4>4. Len(<< >>) = 0
        OBVIOUS
      <4> QED BY <4>2, <4>3, <4>4
    <3>2. Head(events) = focus
      BY <1>0, <1>6, <3>1 DEF ReadEvent, TypeOK
    <3> QED BY <1>0, <1>6, <2>1, <3>2 DEF ReadEvent
  <2>2. CASE Tail(events) # << >>
    <3>1. Tail(events)[Len(Tail(events))] = events[Len(events)]
      BY <1>0, <1>6, <2>2 DEF ReadEvent, TypeOK
    <3> QED BY <1>0, <1>6, <2>2, <3>1 DEF ReadEvent
  <2> QED BY <2>1, <2>2
<1>7. CASE Follow
  BY <1>0, <1>7 DEF Follow, NextCall
<1>8. CASE Release
  BY <1>0, <1>8 DEF Release
<1>9. CASE TakeHold
  BY <1>0, <1>9 DEF TakeHold
<1>10. CASE HoldRefused
  BY <1>0, <1>10 DEF HoldRefused
<1>11. CASE Die
  BY <1>0, <1>11 DEF Die
<1>12. CASE UNCHANGED vars
  BY <1>0, <1>12 DEF vars
<1> QED
  BY <1>1, <1>2, <1>3, <1>4, <1>5, <1>6, <1>7, <1>8, <1>9, <1>10, <1>11, <1>12
  DEF Next, Watcher

LEMMA HoldsStep == FocusInv /\ [Next]_vars => HoldsWhatIsWanted'
<1> SUFFICES ASSUME FocusInv, [Next]_vars PROVE HoldsWhatIsWanted'
  OBVIOUS
<1> USE DEF HoldsWhatIsWanted, Held
<1>0. TypeOK /\ IInv /\ DeafAtFirst /\ HoldsWhatIsWanted
  BY DEF FocusInv
<1>1. ASSUME NEW class \in Classes, Switch(class) PROVE HoldsWhatIsWanted'
  BY <1>0, <1>1 DEF Switch
<1>2. CASE DropHolds
  BY <1>0, <1>2 DEF DropHolds
<1>3. CASE Connect
  BY <1>0, <1>3 DEF Connect
<1>4. CASE FirstWindow
  BY <1>0, <1>4 DEF FirstWindow
<1>5. CASE NoFirstWindow
  BY <1>0, <1>5 DEF NoFirstWindow, DeafAtFirst
<1>6. CASE ReadEvent
  BY <1>0, <1>6 DEF ReadEvent
<1>7. CASE Follow
  <2>1. current # None => current.profile # None
    BY <1>0, NoneIsNoProfile DEF TypeOK, Option, Hold
  <2> QED BY <1>0, <1>7, <2>1 DEF Follow, NextCall
<1>8. CASE Release
  BY <1>0, <1>8 DEF Release
<1>9. CASE TakeHold
  <2>1. holds = {} /\ wanted # None
    BY <1>0, <1>9 DEF TakeHold, IInv, NoHoldIsLost, AsksWhenFree
  <2>2. PICK cookie \in Cookies : current' = [cookie |-> cookie, profile |-> wanted]
    BY <1>9 DEF TakeHold
  <2>3. holds' = {current'} /\ current' # None /\ current'.profile = wanted
    BY <1>9, <2>1, <2>2, NoneIsNoHold DEF TakeHold
  <2> QED BY <1>9, <2>1, <2>3 DEF TakeHold
<1>10. CASE HoldRefused
  BY <1>0, <1>10 DEF HoldRefused, IInv, AsksWhenFree
<1>11. CASE Die
  BY <1>0, <1>11 DEF Die
<1>12. CASE UNCHANGED vars
  BY <1>0, <1>12 DEF vars
<1> QED
  BY <1>1, <1>2, <1>3, <1>4, <1>5, <1>6, <1>7, <1>8, <1>9, <1>10, <1>11, <1>12
  DEF Next, Watcher

LEMMA FocusInvariant == Spec => []FocusInv
<1>1. FocusInv /\ [Next]_vars => FocusInv'
  BY TypeStep, InvStep, LastIsFocusStep, HoldsStep DEF FocusInv
<1> QED BY FocusInit, <1>1, PTL DEF Spec

LEMMA FocusInvSettles == FocusInv => SettledOnFocus
<1> SUFFICES ASSUME FocusInv, Settled
             PROVE  /\ wanted = ProfileFor(focus)
                    /\ IF wanted = None THEN holds = {}
                       ELSE dropped \/ (Held = wanted /\ holds = {current})
  BY DEF SettledOnFocus
<1>1. wanted = ProfileFor(focus)
  BY DEF FocusInv, LastIsFocus, Settled
<1>2. CASE wanted = None
  <2>1. current = None
    BY <1>2 DEF FocusInv, HoldsWhatIsWanted, Settled
  <2> QED BY <1>1, <1>2, <2>1 DEF FocusInv, IInv, NoHoldIsLost, AsksWhenFree
<1>3. CASE wanted # None
  <2>1. dropped \/ Held = wanted
    BY <1>3 DEF FocusInv, HoldsWhatIsWanted, Settled
  <2>2. Held = wanted => current # None
    BY <1>3 DEF Held
  <2> QED BY <1>1, <1>3, <2>1, <2>2 DEF FocusInv, HoldsWhatIsWanted
<1> QED BY <1>2, <1>3

(* SettledOnFocus: a watcher with nothing left to do holds what the rules    *)
(* say of the window in focus, unless that hold was dropped or refused.     *)
THEOREM Settles == Spec => []SettledOnFocus
  BY FocusInvariant, FocusInvSettles, PTL

(* SpecificRuleDecides: for any rules and classes, texts of any length and   *)
(* any order of events, a settled watcher wants what the longest rule that  *)
(* matches the window in focus says (of a class and the same text with an   *)
(* asterisk, the latter), and the default where none matches.               *)
THEOREM SpecificDecides == Spec => []SpecificRuleDecides
<1>1. FocusInv => SpecificRuleDecides
  <2> SUFFICES ASSUME FocusInv, Settled
               PROVE  \/ \E rule \in DOMAIN Rules.classes :
                           MostSpecific(rule, focus) /\ wanted = Rules.classes[rule]
                      \/ wanted = Rules.default /\ \A rule \in DOMAIN Rules.classes : ~Matches(rule, focus)
    BY DEF SpecificRuleDecides
  <2>1. wanted = ProfileFor(focus)
    BY DEF FocusInv, LastIsFocus, Settled
  <2>2. focus \in Classes
    BY DEF FocusInv, TypeOK
  <2> QED BY <2>1, <2>2, MostSpecificWins
<1> QED BY <1>1, FocusInvariant, PTL
=============================================================================
