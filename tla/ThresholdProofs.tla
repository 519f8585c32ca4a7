--------------------------- MODULE ThresholdProofs ---------------------------
(***************************************************************************)
(* The check and the order of battery::apply anticipate the kernel, for     *)
(* every pair asked for and every pair the hardware holds, as long as one   *)
(* worker at a time writes thresholds and those that are there can be read. *)
(* What a configuration with charge limits gives follows: pairs land, a     *)
(* decision is applied once, and the fans of a tripped guard are loud.      *)
(***************************************************************************)
EXTENDS EngineProofs, SequenceTheorems

Pair(h) == /\ h.charge_end_threshold # Unset
           /\ h.charge_start_threshold # Unset

OneWriter == \A u, v \in Workers : u = v

ClientsLeaveLimits == Clients = {} \/ \A profile \in Requests : ~AsksForThresholds(profile)

\* No two workers are at the thresholds at once.
Calm == OneWriter \/ (ClientsLeaveLimits /\ ~overlapped)

BootIsReadable ==
  \A h \in Boot : Ordered(h) /\ (Thresholds \subseteq Machine.caps => Pair(h))

\* Up to the choice of the order: no threshold is written, and the choice comes
\* last, right after the check.
Before(todo) ==
  \A i \in 1..Len(todo) :
    /\ todo[i] \notin Thresholds
    /\ todo[i] = "order" => i = Len(todo) /\ (i = 1 \/ todo[i - 1] = "check")

\* What the check has found out, when the order is about to be chosen.
Passed(profile, todo, h) ==
  Head(todo) = "order" => SupportsThresholds(profile) /\ InOrder(profile, h)

\* After the choice: the kernel takes what is left, in the order chosen.
Landing(profile, todo, h) ==
  \/ \E a \in Thresholds :
       /\ todo = <<a>>
       /\ profile[a] # Unset /\ KernelTakes(h, a, profile[a])
  \/ \E a, b \in Thresholds :
       /\ a # b /\ todo = <<a, b>>
       /\ profile[a] # Unset /\ KernelTakes(h, a, profile[a])
       /\ profile[b] # Unset /\ KernelTakes(KernelWrite(h, a, profile[a]), b, profile[b])

Stage(profile, todo, h) ==
  (Before(todo) /\ Passed(profile, todo, h)) \/ Landing(profile, todo, h)

\* KernelNeverRefuses speaks of the next write only; this of all that is to come.
Asks(w) == jobs[w].at = "apply" /\ AsksForThresholds(jobs[w].profile)

Staged ==
  \A w \in Workers : Asks(w) /\ jobs[w].todo # << >> => Stage(jobs[w].profile, jobs[w].todo, hw)

\* The kernel keeps the pair in order whoever writes; what the check found out
\* lasts while there is calm.  A restart brings the calm back, and so does an
\* automatic apply that starts alone.
PairInv ==
  /\ AskInv /\ IInv
  /\ Ordered(hw)
  /\ Thresholds \subseteq Machine.caps => Pair(hw)
  /\ Calm => Staged

-----------------------------------------------------------------------------
(* The choice of the order. *)

LEMMA ThresholdTypes ==
  ASSUME NEW h \in HwProfile
  PROVE  /\ h.charge_end_threshold = Unset \/ h.charge_end_threshold \in Int
         /\ h.charge_start_threshold = Unset \/ h.charge_start_threshold \in Int
BY DEF HwProfile, Option, U8

LEMMA WrittenPair ==
  ASSUME NEW h \in HwProfile, NEW value
  PROVE  /\ KernelWrite(h, "charge_end_threshold", value).charge_end_threshold = value
         /\ KernelWrite(h, "charge_end_threshold", value).charge_start_threshold = h.charge_start_threshold
         /\ KernelWrite(h, "charge_start_threshold", value).charge_start_threshold = value
         /\ KernelWrite(h, "charge_start_threshold", value).charge_end_threshold = h.charge_end_threshold
BY DEF KernelWrite, HwProfile

LEMMA OneAndOne ==
  ASSUME NEW a, NEW b
  PROVE  <<a>> \o <<b>> = <<a, b>>
<1> DEFINE S == {a, b}
           s == <<a>> \o <<b>>
           t == <<a, b>>
<1>1. s \in Seq(S) /\ t \in Seq(S)
  OBVIOUS
<1>2. Len(s) = 2 /\ Len(t) = 2
  OBVIOUS
<1>3. s[1] = a /\ s[2] = b /\ t[1] = a /\ t[2] = b
  OBVIOUS
<1>4. \A i \in 1..Len(s) : s[i] = t[i]
  <2> HIDE DEF s, t
  <2> QED
    BY <1>2, <1>3
<1>5. s = t
  <2> HIDE DEF s, t, S
  <2> QED
    BY <1>1, <1>2, <1>4, SeqEqual
<1> QED
  BY <1>5

\* The heart of battery::apply: whichever way the pair moves, both of its
\* writes are ones the kernel takes.
LEMMA OrderLands ==
  ASSUME NEW profile \in HwProfile, NEW h \in HwProfile,
         Ordered(h), InOrder(profile, h), SupportsThresholds(profile),
         Thresholds \subseteq Machine.caps => Pair(h),
         ChargeWrites(profile, h) # << >>
  PROVE  Landing(profile, ChargeWrites(profile, h), h)
<1> DEFINE E == profile.charge_end_threshold
           S == profile.charge_start_threshold
           e == h.charge_end_threshold
           s == h.charge_start_threshold
<1>1. /\ E # Unset => E \in Int
      /\ S # Unset => S \in Int
      /\ e # Unset => e \in Int
      /\ s # Unset => s \in Int
  BY ThresholdTypes
<1>2. profile["charge_end_threshold"] = E /\ profile["charge_start_threshold"] = S
  OBVIOUS
<1>3. /\ KernelTakes(h, "charge_end_threshold", E) <=> (s # Unset /\ E # Unset => s < E)
      /\ KernelTakes(h, "charge_start_threshold", S) <=> (S # Unset /\ e # Unset => S < e)
  BY WrittenPair DEF KernelTakes, Ordered, Thresholds
<1>4. CASE E # Unset /\ S = Unset
  <2>1. ChargeWrites(profile, h) = <<"charge_end_threshold">>
    BY <1>2, <1>4 DEF ChargeWrites, Asked
  <2>2. s # Unset => s < E
    BY <1>4 DEF InOrder, OrElse
  <2> QED
    BY <1>2, <1>3, <1>4, <2>1, <2>2 DEF Landing, Thresholds
<1>5. CASE E = Unset /\ S # Unset
  <2>1. ChargeWrites(profile, h) = <<"charge_start_threshold">>
    BY <1>2, <1>5 DEF ChargeWrites, Asked
  <2>2. e # Unset => S < e
    BY <1>5 DEF InOrder, OrElse
  <2> QED
    BY <1>2, <1>3, <1>5, <2>1, <2>2 DEF Landing, Thresholds
<1>6. CASE E # Unset /\ S # Unset
  <2>1. S < E
    BY <1>6 DEF InOrder, OrElse
  <2>2. e # Unset /\ s # Unset /\ s < e
    <3>1. Thresholds \subseteq Machine.caps
      BY <1>2, <1>6 DEF SupportsThresholds, Supports, Thresholds
    <3> QED
      BY <3>1 DEF Pair, Ordered
  <2>3. KernelTakes(KernelWrite(h, "charge_end_threshold", E), "charge_start_threshold", S)
    <3> DEFINE g == KernelWrite(h, "charge_end_threshold", E)
    <3>1. g \in HwProfile /\ g.charge_end_threshold = E
      BY <1>2, KernelWriteIsHardware, WrittenPair DEF Attrs
    <3>2. KernelTakes(g, "charge_start_threshold", S)
      <4> HIDE DEF g
      <4> QED
        BY <2>1, <3>1, WrittenPair DEF KernelTakes, Ordered
    <3> QED
      BY <3>2
  <2>4. KernelTakes(KernelWrite(h, "charge_start_threshold", S), "charge_end_threshold", E)
    <3> DEFINE g == KernelWrite(h, "charge_start_threshold", S)
    <3>1. g \in HwProfile /\ g.charge_start_threshold = S
      BY <1>2, KernelWriteIsHardware, WrittenPair DEF Attrs
    <3>2. KernelTakes(g, "charge_end_threshold", E)
      <4> HIDE DEF g
      <4> QED
        BY <2>1, <3>1, WrittenPair DEF KernelTakes, Ordered
    <3> QED
      BY <3>2
  <2>5. CASE Raising(profile, h)
    <3>1. s < E
      BY <1>1, <1>6, <2>2, <2>5 DEF Raising
    <3>2. ChargeWrites(profile, h) = <<"charge_end_threshold", "charge_start_threshold">>
      <4>1. ChargeWrites(profile, h) = <<"charge_end_threshold">> \o <<"charge_start_threshold">>
        BY <1>2, <1>6, <2>5, Zenon DEF ChargeWrites, Asked
      <4> QED
        BY <4>1, OneAndOne
    <3> QED
      BY <1>2, <1>3, <1>6, <2>3, <3>1, <3>2 DEF Landing, Thresholds
  <2>6. CASE ~Raising(profile, h)
    <3>1. S < e
      BY <1>1, <1>6, <2>1, <2>2, <2>6 DEF Raising
    <3>2. ChargeWrites(profile, h) = <<"charge_start_threshold", "charge_end_threshold">>
      <4>1. ChargeWrites(profile, h) = <<"charge_start_threshold">> \o <<"charge_end_threshold">>
        BY <1>2, <1>6, <2>6, Zenon DEF ChargeWrites, Asked
      <4> QED
        BY <4>1, OneAndOne
    <3> QED
      BY <1>2, <1>3, <1>6, <2>4, <3>1, <3>2 DEF Landing, Thresholds
  <2> QED
    BY <2>5, <2>6
<1>7. CASE E = Unset /\ S = Unset
  BY <1>2, <1>7 DEF ChargeWrites, Asked
<1> QED
  BY <1>4, <1>5, <1>6, <1>7

-----------------------------------------------------------------------------
(* The stages of an apply. *)

LEMMA TodoIsBefore ==
  ASSUME NEW profile
  PROVE  Before(Todo(profile)) /\ (Todo(profile) # << >> => Head(Todo(profile)) # "order")
<1> DEFINE Rest == Attrs \ Thresholds
           s == Asked(profile, "power_level") \o Asked(profile, "fan_mode")
                  \o Asked(profile, "cooler_boost") \o Asked(profile, "battery_saver")
           t == IF AsksForThresholds(profile) THEN <<"check", "order">> ELSE << >>
<1>1. s \in Seq(Rest)
  <2>1. ASSUME NEW a \in Rest PROVE Asked(profile, a) \in Seq(Rest)
    <3> HIDE DEF Rest
    <3>1. <<a>> \in Seq(Rest) /\ << >> \in Seq(Rest)
      OBVIOUS
    <3> QED
      BY <3>1 DEF Asked
  <2>2. {"power_level", "fan_mode", "cooler_boost", "battery_saver"} \subseteq Rest
    BY DEF Attrs, Thresholds
  <2> HIDE DEF Rest
  <2> QED
    BY <2>1, <2>2
<1>2. Todo(profile) = s \o t
  BY DEF Todo
<1>3. \A i \in 1..Len(s) : s[i] \notin Thresholds /\ s[i] # "order"
  <2> SUFFICES ASSUME NEW i \in 1..Len(s) PROVE s[i] \notin Thresholds /\ s[i] # "order"
    OBVIOUS
  <2>1. s[i] \in Rest
    <3> HIDE DEF s
    <3> QED
      BY <1>1
  <2> QED
    BY <2>1 DEF Attrs
<1> HIDE DEF s
<1>4. CASE ~AsksForThresholds(profile)
  <2>1. Todo(profile) = s
    BY <1>1, <1>2, <1>4
  <2>2. CASE s = << >>
    BY <2>1, <2>2 DEF Before
  <2>3. CASE s # << >>
    <3>1. Head(s) = s[1] /\ 1 \in 1..Len(s)
      BY <1>1, <2>3
    <3> QED
      BY <1>3, <2>1, <3>1 DEF Before
  <2> QED
    BY <2>2, <2>3
<1>5. CASE AsksForThresholds(profile)
  <2> DEFINE todo == s \o <<"check", "order">>
  <2>1. /\ Len(todo) = Len(s) + 2 /\ Len(s) \in Nat
        /\ \A i \in 1..Len(s) : todo[i] = s[i]
        /\ todo[Len(s) + 1] = "check" /\ todo[Len(s) + 2] = "order"
    BY <1>1
  <2>2. Head(todo) = todo[1]
    BY <1>1
  <2> HIDE DEF todo
  <2>3. \A i \in 1..Len(todo) : i \in 1..Len(s) \/ i = Len(s) + 1 \/ i = Len(s) + 2
    BY <2>1
  <2>4. Before(todo)
    <3> SUFFICES ASSUME NEW i \in 1..Len(todo)
                 PROVE  /\ todo[i] \notin Thresholds
                        /\ todo[i] = "order" => i = Len(todo) /\ (i = 1 \/ todo[i - 1] = "check")
      BY DEF Before
    <3>1. CASE i \in 1..Len(s)
      BY <1>3, <2>1, <3>1
    <3>2. CASE i = Len(s) + 1
      BY <2>1, <3>2 DEF Thresholds
    <3>3. CASE i = Len(s) + 2
      <4>1. i - 1 = Len(s) + 1
        BY <2>1, <3>3
      <4> QED
        BY <2>1, <3>3, <4>1 DEF Thresholds
    <3> QED
      BY <2>3, <3>1, <3>2, <3>3
  <2>5. todo[1] # "order"
    <3>1. CASE Len(s) = 0
      BY <2>1, <3>1
    <3>2. CASE Len(s) # 0
      BY <1>3, <2>1, <3>2
    <3> QED
      BY <3>1, <3>2
  <2> QED
    BY <1>2, <1>5, <2>2, <2>4, <2>5 DEF todo
<1> QED
  BY <1>4, <1>5

LEMMA TailIsBefore ==
  ASSUME NEW todo \in Seq(Steps), todo # << >>, Before(todo), Tail(todo) # << >>
  PROVE  Before(Tail(todo)) /\ (Head(Tail(todo)) = "order" => Head(todo) = "check")
<1> DEFINE rest == Tail(todo)
<1>1. /\ rest \in Seq(Steps) /\ Len(rest) = Len(todo) - 1 /\ Len(todo) \in Nat
      /\ \A i \in 1..Len(rest) : rest[i] = todo[i + 1]
  OBVIOUS
<1>2. /\ Head(rest) = rest[1] /\ Head(todo) = todo[1] /\ 1 \in 1..Len(rest)
  <2> HIDE DEF rest
  <2>1. rest # << >>
    BY DEF rest
  <2> QED
    BY <1>1, <2>1
<1> HIDE DEF rest
<1>3. Before(rest)
  <2> SUFFICES ASSUME NEW i \in 1..Len(rest)
               PROVE  /\ rest[i] \notin Thresholds
                      /\ rest[i] = "order" => i = Len(rest) /\ (i = 1 \/ rest[i - 1] = "check")
    BY DEF Before
  <2>1. i + 1 \in 1..Len(todo) /\ rest[i] = todo[i + 1] /\ (i + 1) - 1 = i /\ i + 1 # 1
    BY <1>1
  <2>2. /\ todo[i + 1] \notin Thresholds
        /\ todo[i + 1] = "order" => i + 1 = Len(todo) /\ todo[i] = "check"
    BY <2>1 DEF Before
  <2>3. i # 1 => rest[i - 1] = todo[i]
    <3>1. i # 1 => i - 1 \in 1..Len(rest) /\ (i - 1) + 1 = i
      BY <1>1
    <3> QED
      BY <1>1, <3>1
  <2>4. todo[i + 1] = "order" => i = Len(rest)
    BY <1>1, <2>2
  <2> QED
    BY <2>1, <2>2, <2>3, <2>4
<1>4. rest[1] = "order" => todo[1] = "check"
  <2>1. 1 + 1 \in 1..Len(todo) /\ rest[1] = todo[1 + 1] /\ (1 + 1) - 1 = 1 /\ 1 + 1 # 1
    BY <1>1, <1>2
  <2> QED
    BY <2>1 DEF Before
<1> QED
  BY <1>2, <1>3, <1>4 DEF rest

LEMMA LandingHead ==
  ASSUME NEW profile, NEW todo, NEW h, Landing(profile, todo, h)
  PROVE  /\ Head(todo) \in Thresholds
         /\ profile[Head(todo)] # Unset
         /\ KernelTakes(h, Head(todo), profile[Head(todo)])
         /\ Tail(todo) # << >> => Landing(profile, Tail(todo), KernelWrite(h, Head(todo), profile[Head(todo)]))
<1>1. CASE \E a \in Thresholds :
             todo = <<a>> /\ profile[a] # Unset /\ KernelTakes(h, a, profile[a])
  <2>1. PICK a \in Thresholds : todo = <<a>> /\ profile[a] # Unset /\ KernelTakes(h, a, profile[a])
    BY <1>1
  <2>2. Head(todo) = a /\ Tail(todo) = << >>
    BY <2>1
  <2> QED
    BY <2>1, <2>2
<1>2. CASE \E a, b \in Thresholds :
             /\ a # b /\ todo = <<a, b>>
             /\ profile[a] # Unset /\ KernelTakes(h, a, profile[a])
             /\ profile[b] # Unset /\ KernelTakes(KernelWrite(h, a, profile[a]), b, profile[b])
  <2>1. PICK a, b \in Thresholds :
             /\ a # b /\ todo = <<a, b>>
             /\ profile[a] # Unset /\ KernelTakes(h, a, profile[a])
             /\ profile[b] # Unset /\ KernelTakes(KernelWrite(h, a, profile[a]), b, profile[b])
    BY <1>2
  <2>2. Head(todo) = a /\ Tail(todo) = <<b>>
    BY <2>1
  <2> QED
    BY <2>1, <2>2 DEF Landing
<1> QED
  BY <1>1, <1>2 DEF Landing

-----------------------------------------------------------------------------
(* The invariant. *)

\* Of the hardware, the stage of an apply depends on the thresholds only.
LEMMA StageOfLimits ==
  ASSUME NEW g \in HwProfile, NEW h \in HwProfile,
         g.charge_end_threshold = h.charge_end_threshold,
         g.charge_start_threshold = h.charge_start_threshold,
         NEW profile, NEW todo, Stage(profile, todo, g)
  PROVE  Stage(profile, todo, h)
<1>1. ASSUME NEW f \in HwProfile
      PROVE  /\ KernelTakes(f, "charge_end_threshold", profile["charge_end_threshold"])
                  <=> (f.charge_start_threshold # Unset /\ profile["charge_end_threshold"] # Unset
                         => f.charge_start_threshold < profile["charge_end_threshold"])
             /\ KernelTakes(f, "charge_start_threshold", profile["charge_start_threshold"])
                  <=> (profile["charge_start_threshold"] # Unset /\ f.charge_end_threshold # Unset
                         => profile["charge_start_threshold"] < f.charge_end_threshold)
  BY WrittenPair DEF KernelTakes, Ordered, Thresholds
<1>2. ASSUME NEW a \in Thresholds
      PROVE  KernelTakes(g, a, profile[a]) <=> KernelTakes(h, a, profile[a])
  BY <1>1, <1>2 DEF Thresholds
<1>3. ASSUME NEW f \in HwProfile
      PROVE  /\ KernelTakes(KernelWrite(f, "charge_end_threshold", profile["charge_end_threshold"]),
                            "charge_start_threshold", profile["charge_start_threshold"])
                  <=> (profile["charge_start_threshold"] # Unset /\ profile["charge_end_threshold"] # Unset
                         => profile["charge_start_threshold"] < profile["charge_end_threshold"])
             /\ KernelTakes(KernelWrite(f, "charge_start_threshold", profile["charge_start_threshold"]),
                            "charge_end_threshold", profile["charge_end_threshold"])
                  <=> (profile["charge_start_threshold"] # Unset /\ profile["charge_end_threshold"] # Unset
                         => profile["charge_start_threshold"] < profile["charge_end_threshold"])
  BY DEF KernelTakes, KernelWrite, Ordered, Thresholds, HwProfile
<1>4. ASSUME NEW a \in Thresholds, NEW b \in Thresholds, a # b
      PROVE  KernelTakes(KernelWrite(g, a, profile[a]), b, profile[b])
               <=> KernelTakes(KernelWrite(h, a, profile[a]), b, profile[b])
  BY <1>3, <1>4 DEF Thresholds
<1>5. InOrder(profile, g) <=> InOrder(profile, h)
  BY DEF InOrder
<1>6. Passed(profile, todo, g) => Passed(profile, todo, h)
  BY <1>5 DEF Passed
<1>7. ASSUME Landing(profile, todo, g) PROVE Landing(profile, todo, h)
  <2>1. CASE \E a \in Thresholds : todo = <<a>> /\ profile[a] # Unset /\ KernelTakes(g, a, profile[a])
    BY <1>2, <2>1 DEF Landing
  <2>2. CASE \E a, b \in Thresholds :
               /\ a # b /\ todo = <<a, b>>
               /\ profile[a] # Unset /\ KernelTakes(g, a, profile[a])
               /\ profile[b] # Unset /\ KernelTakes(KernelWrite(g, a, profile[a]), b, profile[b])
    <3>1. PICK a, b \in Thresholds :
               /\ a # b /\ todo = <<a, b>>
               /\ profile[a] # Unset /\ KernelTakes(g, a, profile[a])
               /\ profile[b] # Unset /\ KernelTakes(KernelWrite(g, a, profile[a]), b, profile[b])
      BY <2>2
    <3>2. KernelTakes(h, a, profile[a]) /\ KernelTakes(KernelWrite(h, a, profile[a]), b, profile[b])
      BY <1>2, <1>4, <3>1
    <3> QED
      BY <3>1, <3>2 DEF Landing
  <2> QED
    BY <1>7, <2>1, <2>2 DEF Landing
<1> QED
  BY <1>6, <1>7 DEF Stage

LEMMA PairInit == BootIsReadable /\ Init => PairInv
<1> SUFFICES ASSUME BootIsReadable, Init PROVE PairInv
  OBVIOUS
<1>1. AskInv /\ IInv
  BY AskInit, InitIsInductive
<1>2. \A w \in Workers : jobs[w].at = "idle"
  BY DEF Init, Idle
<1>3. Ordered(hw) /\ (Thresholds \subseteq Machine.caps => Pair(hw))
  BY DEF BootIsReadable, Init
<1> QED
  BY <1>1, <1>2, <1>3 DEF PairInv, Staged, Asks

\* While there is calm one worker at most is at the thresholds.
LEMMA OneAsks ==
  ASSUME PairInv, Calm, NEW u \in Workers, NEW w \in Workers, Asks(u), Asks(w)
  PROVE  u = w
<1>1. CASE OneWriter
  BY <1>1 DEF OneWriter
<1>2. CASE ClientsLeaveLimits /\ ~overlapped
  <2>1. u \notin Clients /\ w \notin Clients
    BY <1>2 DEF PairInv, AskInv, Asks, ClientsLeaveLimits
  <2>2. InFlight(u) /\ InFlight(w)
    BY DEF Asks, InFlight
  <2> QED
    BY <1>2, <2>1, <2>2 DEF PairInv, IInv, OneInFlight, Workers
<1> QED
  BY <1>1, <1>2 DEF Calm

\* A call that starts has everything before it.
LEMMA StartKeepsStaged ==
  ASSUME TypeOK, UNCHANGED hw, NEW w \in Workers, NEW profile,
         jobs' = [jobs EXCEPT ![w] = Applying(profile)],
         Staged \/ \A u \in Workers \ {w} : ~Asks(u)
  PROVE  Staged'
<1>1. jobs'[w].profile = profile /\ jobs'[w].todo = Todo(profile)
  BY DEF TypeOK, Applying
<1>2. Todo(profile) # << >> => Stage(profile, Todo(profile), hw)
  BY TodoIsBefore DEF Stage, Passed
<1>3. \A u \in Workers \ {w} : jobs'[u] = jobs[u]
  BY DEF TypeOK
<1> QED
  BY <1>1, <1>2, <1>3 DEF Staged, Asks

\* So has one that does not apply.
LEMMA RestKeepsStaged ==
  ASSUME Staged, UNCHANGED hw,
         \A u \in Workers : jobs'[u] = jobs[u] \/ jobs'[u].at # "apply"
  PROVE  Staged'
BY DEF Staged, Asks

LEMMA FailKeepsStaged ==
  ASSUME TypeOK, Staged, UNCHANGED hw, NEW w \in Workers, Fail(w)
  PROVE  Staged'
<1>1. [jobs[w] EXCEPT !.at = "forget"].at = "forget"
  BY DEF TypeOK, Job
<1>2. \A u \in Workers : jobs'[u] = jobs[u] \/ jobs'[u].at # "apply"
  BY <1>1 DEF Fail, Idle, TypeOK
<1> QED
  BY <1>2, RestKeepsStaged

\* A worker goes on with the rest of its call, and nobody else's stage is
\* disturbed: nobody else is at the thresholds, or they stay as they are.
LEMMA ProceedKeepsStaged ==
  ASSUME TypeOK, TypeOK', Staged, NEW w \in Workers, jobs[w].at = "apply", NEW rest, Proceed(w, rest),
         AsksForThresholds(jobs[w].profile) /\ rest # << >> => Stage(jobs[w].profile, rest, hw'),
         \/ \A u \in Workers \ {w} : ~Asks(u)
         \/ /\ hw'.charge_end_threshold = hw.charge_end_threshold
            /\ hw'.charge_start_threshold = hw.charge_start_threshold
  PROVE  Staged'
<1>1. jobs \in [Workers -> Job] /\ jobs[w] \in Job /\ hw \in HwProfile /\ hw' \in HwProfile
  BY DEF TypeOK
<1>2. \A u \in Workers \ {w} : jobs'[u] = jobs[u]
  BY <1>1 DEF Proceed
<1>3. ASSUME NEW u \in Workers \ {w}, Asks(u), jobs[u].todo # << >>
      PROVE  Stage(jobs[u].profile, jobs[u].todo, hw')
  BY <1>1, <1>3, StageOfLimits DEF Staged
<1>4. CASE rest = << >>
  <2>1. jobs'[w].at # "apply"
    BY <1>1, <1>4 DEF Proceed, Idle
  <2> QED
    BY <1>2, <1>3, <2>1 DEF Staged, Asks
<1>5. CASE rest # << >>
  <2>1. jobs'[w] = [jobs[w] EXCEPT !.todo = rest]
    BY <1>1, <1>5 DEF Proceed
  <2>2. jobs'[w].profile = jobs[w].profile /\ jobs'[w].todo = rest
    BY <1>1, <2>1 DEF Job
  <2> QED
    BY <1>2, <1>3, <1>5, <2>2 DEF Staged, Asks
<1> QED
  BY <1>4, <1>5

\* What a write does to the pair, calm or not.
LEMMA WriteKeepsOrder ==
  ASSUME PairInv, NEW w \in Workers, NEW a \in Attrs, Write(w, a)
  PROVE  /\ Ordered(hw') /\ (Thresholds \subseteq Machine.caps => Pair(hw'))
         /\ a \notin Thresholds => /\ hw'.charge_end_threshold = hw.charge_end_threshold
                                  /\ hw'.charge_start_threshold = hw.charge_start_threshold
<1> DEFINE profile == jobs[w].profile
           todo == jobs[w].todo
<1>1. /\ todo \in Seq(Steps) /\ todo # << >> /\ Head(todo) = a /\ jobs[w].at = "apply"
      /\ profile \in HwProfile /\ hw \in HwProfile
  <2>1. TypeOK /\ At(w, a)
    BY DEF Write, PairInv, IInv
  <2> QED
    BY <2>1, TailIsTyped DEF At, TypeOK
<1>2. hw' = KernelWrite(hw, a, profile[a]) /\ KernelTakes(hw, a, profile[a])
  BY DEF Write
<1>3. profile[a] # Unset
  BY <1>1, TailAsks DEF PairInv, AskInv
<1> HIDE DEF profile, todo
<1>4. /\ KernelWrite(hw, a, profile[a])[a] = profile[a]
      /\ \A b \in Attrs \ {a} : KernelWrite(hw, a, profile[a])[b] = hw[b]
  BY <1>1, KernelWriteIsHardware
<1>5. /\ hw'[a] = profile[a]
      /\ \A b \in Attrs \ {a} : hw'[b] = hw[b]
  BY <1>2, <1>4
<1>6. /\ hw'.charge_end_threshold = hw'["charge_end_threshold"]
      /\ hw'.charge_start_threshold = hw'["charge_start_threshold"]
      /\ hw.charge_end_threshold = hw["charge_end_threshold"]
      /\ hw.charge_start_threshold = hw["charge_start_threshold"]
  OBVIOUS
<1>7. CASE a \in Thresholds
  <2>1. Ordered(hw')
    BY <1>2, <1>7 DEF KernelTakes
  <2>2. Thresholds \subseteq Machine.caps => Pair(hw')
    BY <1>3, <1>5, <1>6, <1>7 DEF Pair, PairInv, Attrs, Thresholds
  <2> QED
    BY <1>7, <2>1, <2>2
<1>8. CASE a \notin Thresholds
  <2>1. /\ hw'.charge_end_threshold = hw.charge_end_threshold
        /\ hw'.charge_start_threshold = hw.charge_start_threshold
    BY <1>5, <1>6, <1>8 DEF Attrs, Thresholds
  <2> QED
    BY <1>8, <2>1 DEF Ordered, Pair, PairInv
<1> QED
  BY <1>7, <1>8

LEMMA WriteKeepsStaged ==
  ASSUME PairInv, TypeOK', Calm, NEW w \in Workers, NEW a \in Attrs, Write(w, a)
  PROVE  Staged'
<1> DEFINE profile == jobs[w].profile
           todo == jobs[w].todo
<1>1. /\ todo \in Seq(Steps) /\ todo # << >> /\ Head(todo) = a /\ jobs[w].at = "apply"
      /\ profile \in HwProfile /\ TypeOK /\ Staged
  <2>1. TypeOK /\ At(w, a)
    BY DEF Write, PairInv, IInv
  <2> QED
    BY <2>1, TailIsTyped DEF At, PairInv
<1>2. hw' = KernelWrite(hw, a, profile[a]) /\ Proceed(w, Tail(todo))
  BY DEF Write
<1>3. profile[a] # Unset
  BY <1>1, TailAsks DEF PairInv, AskInv
<1>4. AsksForThresholds(profile) => Stage(profile, todo, hw)
  BY <1>1 DEF Staged, Asks
<1>5. CASE a \in Thresholds
  <2>1. AsksForThresholds(profile) /\ Asks(w)
    BY <1>1, <1>3, <1>5 DEF AsksForThresholds, Asks
  <2>2. ~Before(todo)
    <3>1. 1 \in 1..Len(todo) /\ todo[1] = a
      BY <1>1
    <3> QED
      BY <1>5, <3>1 DEF Before
  <2>3. Landing(profile, todo, hw)
    BY <1>4, <2>1, <2>2 DEF Stage
  <2>4. Tail(todo) # << >> => Stage(profile, Tail(todo), hw')
    BY <1>1, <1>2, <2>3, LandingHead DEF Stage
  <2>5. \A u \in Workers \ {w} : ~Asks(u)
    BY <2>1, OneAsks
  <2> QED
    BY <1>1, <1>2, <2>4, <2>5, ProceedKeepsStaged
<1>6. CASE a \notin Thresholds
  <2>1. /\ hw'.charge_end_threshold = hw.charge_end_threshold
        /\ hw'.charge_start_threshold = hw.charge_start_threshold
    BY <1>6, WriteKeepsOrder
  <2>2. AsksForThresholds(profile) /\ Tail(todo) # << >> => Stage(profile, Tail(todo), hw')
    <3> SUFFICES ASSUME AsksForThresholds(profile), Tail(todo) # << >>
                 PROVE  Stage(profile, Tail(todo), hw')
      OBVIOUS
    <3>1. ~Landing(profile, todo, hw)
      BY <1>1, <1>6, LandingHead
    <3>2. Before(todo)
      BY <1>4, <3>1 DEF Stage
    <3>3. a # "check"
      BY DEF Attrs
    <3> QED
      BY <1>1, <3>2, <3>3, TailIsBefore DEF Stage, Passed
  <2> QED
    BY <1>1, <1>2, <2>1, <2>2, ProceedKeepsStaged
<1> QED
  BY <1>5, <1>6

LEMMA ChecksKeepStaged ==
  ASSUME PairInv, TypeOK', Calm, NEW w \in Workers,
         CheckThresholds(w) \/ OrderThresholds(w)
  PROVE  Staged'
<1> DEFINE profile == jobs[w].profile
           todo == jobs[w].todo
<1>1. /\ todo \in Seq(Steps) /\ todo # << >> /\ Head(todo) \in {"check", "order"} /\ jobs[w].at = "apply"
      /\ profile \in HwProfile /\ hw \in HwProfile /\ TypeOK /\ Staged
  <2>1. PICK step \in {"check", "order"} : At(w, step)
    BY DEF CheckThresholds, OrderThresholds
  <2>2. TypeOK
    BY DEF PairInv, IInv
  <2> QED
    BY <2>1, <2>2, TailIsTyped DEF At, PairInv, TypeOK
<1>2. AsksForThresholds(profile) => Before(todo) /\ Passed(profile, todo, hw)
  BY <1>1, LandingHead DEF Staged, Asks, Stage, Thresholds
<1>3. UNCHANGED hw /\ Ordered(hw) /\ (Thresholds \subseteq Machine.caps => Pair(hw))
  BY DEF CheckThresholds, OrderThresholds, PairInv
<1>4. CASE CheckThresholds(w)
  <2>1. CASE ~ThresholdsPass(profile)
    BY <1>1, <1>3, <1>4, <2>1, FailKeepsStaged DEF CheckThresholds
  <2>2. CASE ThresholdsPass(profile)
    <3>1. AsksForThresholds(profile) /\ Tail(todo) # << >> => Stage(profile, Tail(todo), hw)
      BY <1>1, <1>2, <2>2, TailIsBefore DEF Stage, Passed, ThresholdsPass
    <3> QED
      BY <1>1, <1>3, <1>4, <2>2, <3>1, ProceedKeepsStaged DEF CheckThresholds
  <2> QED
    BY <2>1, <2>2
<1>5. CASE OrderThresholds(w)
  <2>1. Head(todo) = "order" /\ Proceed(w, ChargeWrites(profile, hw))
    BY <1>5 DEF OrderThresholds, At
  <2>2. AsksForThresholds(profile) => InOrder(profile, hw) /\ SupportsThresholds(profile)
    BY <1>2, <2>1 DEF Passed
  <2>3. AsksForThresholds(profile) /\ ChargeWrites(profile, hw) # << >>
        => Stage(profile, ChargeWrites(profile, hw), hw)
    BY <1>1, <1>3, <2>2, OrderLands DEF Stage
  <2> QED
    BY <1>1, <1>3, <2>1, <2>3, ProceedKeepsStaged
<1> QED
  BY <1>4, <1>5

\* The calm comes back with a restart, or with an apply that starts alone.
LEMMA CalmBefore ==
  ASSUME [Next]_vars, Calm'
  PROVE  Calm \/ Crash \/ \E t \in Tasks : StartApply(t)
<1>1. UNCHANGED overlapped \/ Crash \/ \E t \in Tasks : StartApply(t)
  BY DEF Next, vars, Handler, SetPpdProfile, SetOnBattery, TickThermal, GoReconcile, Reconcile,
         NothingToDo, Forget, ApplyManual, Apply, Write, WriteFails, Unsupported,
         CheckThresholds, OrderThresholds
<1> QED
  BY <1>1 DEF Calm

LEMMA PairStep == PairInv /\ [Next]_vars => PairInv'
<1> SUFFICES ASSUME PairInv, [Next]_vars PROVE PairInv'
  OBVIOUS
<1> DEFINE Calmer == Crash \/ \E t \in Tasks : StartApply(t)
<1>0. TypeOK /\ TypeOK' /\ AskInv' /\ IInv'
  BY AskStep, StepIsInductive DEF PairInv, AskInv
<1>1. Calm' => (Calm /\ Staged) \/ Calmer
  BY CalmBefore DEF PairInv
<1> HIDE DEF Calmer
<1>2. ASSUME UNCHANGED hw, Calm /\ Staged => Staged' PROVE PairInv' \/ Calmer
  BY <1>0, <1>1, <1>2 DEF PairInv
<1>3. ASSUME Handler PROVE PairInv' \/ Calmer
  <2>1. PICK t \in Tasks : GoReconcile(t)
    BY <1>3 DEF Handler, SetPpdProfile, SetOnBattery, TickThermal, GoReconcile
  <2>2. \A u \in Workers : jobs'[u] = jobs[u] \/ jobs'[u].at # "apply"
    BY <1>0, <2>1 DEF GoReconcile, Idle, TypeOK
  <2> QED
    BY <1>2, <2>1, <2>2, RestKeepsStaged DEF GoReconcile
<1>4. ASSUME NEW t \in Tasks, NothingToDo(t) \/ Forget(t) PROVE PairInv' \/ Calmer
  <2>1. \A u \in Workers : jobs'[u] = jobs[u] \/ jobs'[u].at # "apply"
    BY <1>0, <1>4 DEF NothingToDo, Forget, Idle, TypeOK
  <2> QED
    BY <1>2, <1>4, <2>1, RestKeepsStaged DEF NothingToDo, Forget
<1>5. ASSUME NEW t \in Tasks, StartApply(t) PROVE PairInv'
  <2>1. /\ jobs' = [jobs EXCEPT ![t] = Applying(Decide(inputs))] /\ UNCHANGED hw
        /\ t \in Workers
    BY <1>5 DEF StartApply, Workers
  <2>2. ASSUME Calm' PROVE Staged \/ \A u \in Workers \ {t} : ~Asks(u)
    <3>1. CASE OneWriter
      BY <3>1 DEF PairInv, Calm
    <3>2. CASE ClientsLeaveLimits /\ ~overlapped'
      <4>1. \A u \in Tasks : ~InFlight(u)
        BY <1>5, <3>2 DEF StartApply
      <4>2. \A u \in Tasks : ~Asks(u)
        BY <4>1 DEF Asks, InFlight
      <4>3. \A u \in Clients : ~Asks(u)
        BY <3>2 DEF PairInv, AskInv, Asks, ClientsLeaveLimits
      <4> QED
        BY <4>2, <4>3 DEF Workers
    <3> QED
      BY <2>2, <3>1, <3>2 DEF Calm
  <2>3. Calm' => Staged'
    BY <1>0, <2>1, <2>2, StartKeepsStaged
  <2> QED
    BY <1>0, <2>1, <2>3 DEF PairInv
<1>6. ASSUME NEW c \in Clients, NEW profile \in Requests, ApplyManual(c, profile) PROVE PairInv' \/ Calmer
  <2>1. /\ jobs' = [jobs EXCEPT ![c] = Applying(profile)] /\ UNCHANGED hw
        /\ c \in Workers
    BY <1>6 DEF ApplyManual, Workers
  <2>2. Staged => Staged'
    BY <1>0, <2>1, StartKeepsStaged
  <2> QED
    BY <1>2, <2>1, <2>2
<1>7. ASSUME NEW w \in Workers, NEW a \in Attrs, Write(w, a) PROVE PairInv' \/ Calmer
  BY <1>0, <1>1, <1>7, WriteKeepsOrder, WriteKeepsStaged DEF PairInv
<1>8. ASSUME NEW w \in Workers, NEW a \in Attrs, WriteFails(w, a) \/ Unsupported(w, a)
      PROVE  PairInv' \/ Calmer
  BY <1>0, <1>2, <1>8, FailKeepsStaged DEF WriteFails, Unsupported
<1>9. ASSUME NEW w \in Workers, CheckThresholds(w) \/ OrderThresholds(w) PROVE PairInv' \/ Calmer
  BY <1>0, <1>2, <1>9, ChecksKeepStaged DEF CheckThresholds, OrderThresholds
<1>10. CASE Crash
  <2>1. \A u \in Workers : jobs'[u].at # "apply"
    BY <1>10 DEF Crash, Idle
  <2>2. Staged'
    BY <2>1 DEF Staged, Asks
  <2> QED
    BY <1>0, <1>10, <2>2 DEF Crash, PairInv
<1>11. ASSUME UNCHANGED vars PROVE PairInv' \/ Calmer
  <2>1. UNCHANGED <<hw, jobs>>
    BY <1>11 DEF vars
  <2>2. Staged => Staged'
    BY <2>1, RestKeepsStaged
  <2> QED
    BY <1>2, <2>1, <2>2
<1>12. PairInv' \/ Calmer
  BY <1>3, <1>4, <1>5, <1>6, <1>7, <1>8, <1>9, <1>10, <1>11 DEF Next, Reconcile, Apply
<1> QED
  BY <1>5, <1>10, <1>12 DEF Calmer

LEMMA PairHolds ==
  ASSUME BootIsReadable
  PROVE  Spec => []PairInv
<1>1. Init => PairInv
  BY PairInit
<1> QED
  BY <1>1, PairStep, PTL DEF Spec

LEMMA PairMeansTaken == PairInv /\ Calm => KernelNeverRefuses
<1> SUFFICES ASSUME PairInv, Calm, NEW w \in Workers, NEW a \in Thresholds, At(w, a)
             PROVE  KernelTakes(hw, a, jobs[w].profile[a])
  BY DEF KernelNeverRefuses
<1>1. jobs[w].todo # << >> /\ Head(jobs[w].todo) = a /\ jobs[w].todo \in Seq(Steps) /\ jobs[w].at = "apply"
  BY TailIsTyped DEF At, PairInv, AskInv
<1>2. jobs[w].profile[a] # Unset
  BY <1>1, TailAsks DEF PairInv, AskInv, Attrs, Thresholds
<1>3. Asks(w)
  BY <1>1, <1>2 DEF Asks, AsksForThresholds
<1>4. ~Before(jobs[w].todo)
  <2>1. 1 \in 1..Len(jobs[w].todo) /\ jobs[w].todo[1] = a
    BY <1>1
  <2> QED
    BY <2>1 DEF Before
<1>5. Landing(jobs[w].profile, jobs[w].todo, hw)
  BY <1>1, <1>3, <1>4 DEF PairInv, Staged, Stage
<1> QED
  BY <1>1, <1>5, LandingHead

(* KernelNeverRefuses: with one writer, thresholds that can be read and in   *)
(* order at the start, the kernel never refuses a threshold that passed the *)
(* check, whatever is asked for and however often.                          *)
THEOREM NeverRefused ==
  ASSUME OneWriter, BootIsReadable
  PROVE  Spec => []KernelNeverRefuses
<1>1. PairInv => KernelNeverRefuses
  BY PairMeansTaken DEF Calm
<1> QED
  BY <1>1, PairHolds, PTL

(* The same of all the daemon's tasks and of clients that leave the charge   *)
(* limits alone, unless the last automatic apply was started into another:  *)
(* a restart in the middle of a pair does no harm either.                   *)
THEOREM RefusalNeedsOverlap ==
  ASSUME ClientsLeaveLimits, BootIsReadable
  PROVE  Spec => [](~overlapped => KernelNeverRefuses)
<1>1. PairInv => (~overlapped => KernelNeverRefuses)
  BY PairMeansTaken DEF Calm
<1> QED
  BY <1>1, PairHolds, PTL

-----------------------------------------------------------------------------
(* A pair that makes sense lands: on a machine that takes what the           *)
(* configuration asks for, nothing makes its apply fail.                    *)

\* Decisions ask for what the machine has, and what can be written.
DecisionsFit ==
  \A in \in Inputs : \A a \in Attrs :
    Decide(in)[a] # Unset => a \notin Faults /\ Supports(a, Decide(in)[a])

Fine(profile) ==
  (\A a \in Thresholds : profile[a] # Unset) /\ InRange(profile) /\ Ordered(profile)

\* Whatever the hardware holds, the check lets it through.
Sound(profile) == ~AsksForThresholds(profile) \/ Fine(profile)

\* Applies carry what was decided; they fail for no other reason than the
\* thresholds, and nothing else is left unapplied.
LandInv ==
  /\ PairInv /\ BeliefIsCurrent
  /\ \A t \in Tasks : InFlight(t) => \E in \in Inputs : jobs[t].profile = Decide(in)
  /\ ~overlapped =>
       /\ \A t \in Tasks : jobs[t].at = "forget" => ~Sound(jobs[t].profile)
       /\ applied = Unset /\ (\A t \in Tasks : jobs[t].at # "reconcile")
            => IsEmpty(Decide(inputs)) \/ ~Sound(Decide(inputs))

\* A daemon that has heard nothing decides nothing.
LEMMA NewInputsDecideNothing == IsEmpty(Decide(NewInputs))
BY UnsetIsNoValue, ConfigIsTyped DEF ForProfile, Decide, NewInputs, IsEmpty

\* The call of a task goes on, is done, or fails at the check.
LEMMA TaskMoves ==
  ASSUME LandInv, ClientsLeaveLimits, DecisionsFit, NEW t \in Tasks, Apply(t)
  PROVE  /\ jobs'[t].at \in {"idle", "apply", "forget"}
         /\ jobs'[t].at # "idle" => jobs'[t].profile = jobs[t].profile
         /\ ~overlapped /\ jobs'[t].at = "forget" => ~Sound(jobs[t].profile)
<1> DEFINE profile == jobs[t].profile
           todo == jobs[t].todo
<1>1. /\ jobs \in [Workers -> Job] /\ jobs[t] \in Job /\ jobs[t].at = "apply" /\ t \in Workers
      /\ todo # << >> /\ todo \in Seq(Steps) /\ profile \in HwProfile /\ AskedOnly(profile, todo)
  <2>1. PICK step : At(t, step)
    BY DEF Apply, Write, WriteFails, Unsupported, CheckThresholds, OrderThresholds
  <2> QED
    BY <2>1, TailIsTyped DEF At, LandInv, PairInv, AskInv, TypeOK, Workers
<1>2. \A a \in Attrs : profile[a] # Unset => a \notin Faults /\ Supports(a, profile[a])
  <2>1. PICK in \in Inputs : profile = Decide(in)
    BY <1>1 DEF LandInv, InFlight
  <2> QED
    BY <2>1 DEF DecisionsFit
<1>3. ASSUME Fail(t)
      PROVE  jobs'[t].at = "forget" /\ jobs'[t].profile = profile
  <2>1. jobs'[t] = [jobs[t] EXCEPT !.at = "forget"]
    BY <1>1, <1>3 DEF Fail
  <2> QED
    BY <1>1, <2>1 DEF Job
<1>4. ASSUME NEW rest, Proceed(t, rest)
      PROVE  jobs'[t].at = "idle" \/ (jobs'[t].at = "apply" /\ jobs'[t].profile = profile)
  <2>1. /\ [jobs[t] EXCEPT !.todo = rest].at = "apply"
        /\ [jobs[t] EXCEPT !.todo = rest].profile = profile
    BY <1>1 DEF Job
  <2>2. jobs'[t] = Idle \/ jobs'[t] = [jobs[t] EXCEPT !.todo = rest]
    BY <1>1, <1>4 DEF Proceed
  <2>3. Idle.at = "idle"
    BY DEF Idle
  <2> HIDE DEF profile, todo
  <2> QED
    BY <2>1, <2>2, <2>3
<1>5. ASSUME ~overlapped, NEW a \in Attrs, WriteFails(t, a) \/ Unsupported(t, a) PROVE FALSE
  <2>1. At(t, a) /\ Head(todo) = a
    BY <1>5 DEF WriteFails, Unsupported, At
  <2>2. profile[a] # Unset
    BY <1>1, <2>1, TailAsks
  <2>3. a \notin Faults /\ Supported(t, a)
    BY <1>2, <2>2 DEF Supported
  <2>4. KernelTakes(hw, a, profile[a])
    <3>1. CASE a \in Thresholds
      BY <1>1, <1>5, <2>1, <3>1, PairMeansTaken DEF LandInv, KernelNeverRefuses, Calm
    <3>2. CASE a \notin Thresholds
      BY <3>2 DEF KernelTakes
    <3> QED
      BY <3>1, <3>2
  <2> QED
    BY <1>5, <2>3, <2>4 DEF WriteFails, Unsupported
<1>6. ASSUME ~ThresholdsPass(profile) PROVE ~Sound(profile)
  <2>1. SupportsThresholds(profile) /\ Ordered(hw)
    BY <1>2 DEF SupportsThresholds, Thresholds, Attrs, LandInv, PairInv
  <2>2. CASE ~AsksForThresholds(profile)
    <3>1. /\ profile.charge_end_threshold = Unset /\ profile.charge_start_threshold = Unset
          /\ InRange(profile)
      BY <2>2 DEF AsksForThresholds, Thresholds, InRange
    <3>2. InOrder(profile, hw)
      BY <2>1, <3>1 DEF InOrder, OrElse, Ordered
    <3> QED
      BY <1>6, <2>1, <3>1, <3>2 DEF ThresholdsPass
  <2>3. CASE AsksForThresholds(profile)
    <3>1. Fine(profile) => InOrder(profile, hw)
      BY DEF Fine, InOrder, OrElse, Ordered, Thresholds
    <3> QED
      BY <1>6, <2>1, <2>3, <3>1 DEF ThresholdsPass, Fine, Sound
  <2> QED
    BY <2>2, <2>3
<1>7. \/ \E rest : Proceed(t, rest)
      \/ Fail(t) /\ (~ThresholdsPass(profile) \/ \E a \in Attrs : WriteFails(t, a) \/ Unsupported(t, a))
  BY DEF Apply, Write, WriteFails, Unsupported, CheckThresholds, OrderThresholds
<1> HIDE DEF profile, todo
<1>8. CASE \E rest : Proceed(t, rest)
  BY <1>4, <1>8 DEF profile
<1>9. CASE Fail(t) /\ (~ThresholdsPass(profile) \/ \E a \in Attrs : WriteFails(t, a) \/ Unsupported(t, a))
  BY <1>3, <1>5, <1>6, <1>9 DEF profile
<1> QED
  BY <1>7, <1>8, <1>9

LEMMA LandInit == BootIsReadable /\ Init => LandInv
<1> SUFFICES ASSUME BootIsReadable, Init PROVE LandInv
  OBVIOUS
<1>1. PairInv /\ BeliefIsCurrent
  BY PairInit, InitBeliefIsCurrent
<1>2. \A t \in Tasks : jobs[t].at = "idle"
  BY DEF Init, Idle, Workers
<1> QED
  BY <1>1, <1>2, NewInputsDecideNothing DEF LandInv, Init, InFlight

LEMMA LandStep ==
  ASSUME ClientsLeaveLimits, DecisionsFit, LandInv, [Next]_vars
  PROVE  LandInv'
<1>0. PairInv' /\ BeliefIsCurrent' /\ TypeOK /\ IInv
  BY PairStep, StepBeliefIsCurrent DEF LandInv, PairInv, AskInv
<1>1. jobs \in [Workers -> Job] /\ Tasks \subseteq Workers /\ inputs \in Inputs
  BY <1>0 DEF TypeOK, Workers
<1>2. CASE Handler
  <2>1. PICK t \in Tasks : GoReconcile(t)
    BY <1>2 DEF Handler, SetPpdProfile, SetOnBattery, TickThermal, GoReconcile
  <2>2. jobs'[t].at = "reconcile" /\ \A u \in Tasks \ {t} : jobs'[u] = jobs[u]
    BY <1>1, <2>1 DEF GoReconcile, Idle
  <2> QED
    BY <1>0, <2>1, <2>2 DEF LandInv, GoReconcile, InFlight
<1>3. ASSUME NEW t \in Tasks, NothingToDo(t) PROVE LandInv'
  <2>1. jobs'[t].at = "idle" /\ \A u \in Tasks \ {t} : jobs'[u] = jobs[u]
    BY <1>1, <1>3 DEF NothingToDo, Idle
  <2>2. applied = Unset => IsEmpty(Decide(inputs))
    BY <1>1, <1>3, DecideIsProfile, UnsetIsNoValue DEF NothingToDo, UpToDate
  <2> QED
    BY <1>0, <1>3, <2>1, <2>2 DEF LandInv, NothingToDo, InFlight
<1>4. ASSUME NEW t \in Tasks, StartApply(t) PROVE LandInv'
  <2>1. /\ jobs'[t].at = "apply" /\ jobs'[t].profile = Decide(inputs)
        /\ \A u \in Tasks \ {t} : jobs'[u] = jobs[u]
    BY <1>1, <1>4 DEF StartApply, Applying
  <2>2. applied' # Unset
    BY <1>1, <1>4, DecideIsProfile, UnsetIsNoValue DEF StartApply
  <2>3. UNCHANGED inputs /\ (~overlapped' => \A u \in Tasks : jobs[u].at # "forget")
    BY <1>4 DEF StartApply, InFlight
  <2> QED
    BY <1>0, <1>1, <2>1, <2>2, <2>3 DEF LandInv, InFlight
<1>5. ASSUME NEW t \in Tasks, Forget(t) PROVE LandInv'
  <2>1. /\ jobs'[t].at = "idle" /\ \A u \in Tasks \ {t} : jobs'[u] = jobs[u]
        /\ jobs[t].at = "forget" /\ UNCHANGED <<inputs, overlapped>>
    BY <1>1, <1>5 DEF Forget, Idle
  <2>2. ASSUME ~overlapped, \A u \in Tasks : jobs'[u].at # "reconcile"
        PROVE  IsEmpty(Decide(inputs)) \/ ~Sound(Decide(inputs))
    <3>1. ~Sound(jobs[t].profile) /\ applied = jobs[t].profile
      BY <1>0, <2>1, <2>2 DEF LandInv, IInv, CarriesBelief, InFlight
    <3>2. applied # Unset
      BY <1>1, <3>1, UnsetIsNoValue DEF Job
    <3>3. \A u \in Tasks : jobs[u].at # "reconcile"
      BY <2>1, <2>2
    <3> QED
      BY <3>1, <3>2, <3>3 DEF LandInv, BeliefIsCurrent, Believed
  <2> QED
    BY <1>0, <2>1, <2>2 DEF LandInv, InFlight
<1>6. ASSUME UNCHANGED <<inputs, applied, overlapped>>, \A t \in Tasks : jobs'[t] = jobs[t] PROVE LandInv'
  BY <1>0, <1>6 DEF LandInv, InFlight
<1>7. ASSUME NEW c \in Clients, NEW profile \in Requests, ApplyManual(c, profile) PROVE LandInv'
  <2>1. \A t \in Tasks : jobs'[t] = jobs[t]
    BY <1>1, <1>7, ClientsAreNotTasks DEF ApplyManual
  <2> QED
    BY <1>6, <1>7, <2>1 DEF ApplyManual
<1>8. ASSUME NEW c \in Clients, Apply(c) PROVE LandInv'
  <2>1. UNCHANGED <<inputs, applied, overlapped>> /\ \A t \in Tasks : jobs'[t] = jobs[t]
    BY <1>0, <1>1, <1>8, ApplyKeepsBelief, ClientsAreNotTasks DEF Workers
  <2> QED
    BY <1>6, <2>1
<1>9. ASSUME NEW t \in Tasks, Apply(t) PROVE LandInv'
  <2>1. /\ UNCHANGED <<inputs, applied, overlapped>> /\ jobs[t].at = "apply"
        /\ \A u \in Tasks \ {t} : jobs'[u] = jobs[u]
    BY <1>0, <1>1, <1>9, ApplyKeepsBelief
  <2>2. /\ jobs'[t].at \in {"idle", "apply", "forget"}
        /\ jobs'[t].at # "idle" => jobs'[t].profile = jobs[t].profile
        /\ ~overlapped /\ jobs'[t].at = "forget" => ~Sound(jobs[t].profile)
    BY <1>9, TaskMoves
  <2> QED
    BY <1>0, <2>1, <2>2 DEF LandInv, InFlight
<1>10. CASE Crash
  <2>1. \A t \in Tasks : jobs'[t].at = "idle"
    BY <1>10 DEF Crash, Idle, Workers
  <2> QED
    BY <1>0, <1>10, <2>1, NewInputsDecideNothing DEF LandInv, Crash, InFlight
<1>11. CASE UNCHANGED vars
  BY <1>6, <1>11 DEF vars
<1> QED
  BY <1>2, <1>3, <1>4, <1>5, <1>7, <1>8, <1>9, <1>10, <1>11 DEF Next, Reconcile, Workers

LEMMA LandHolds ==
  ASSUME ClientsLeaveLimits, DecisionsFit, BootIsReadable
  PROVE  Spec => []LandInv
<1>1. Init => LandInv
  BY LandInit
<1>2. LandInv /\ [Next]_vars => LandInv'
  BY LandStep
<1> QED
  BY <1>1, <1>2, PTL DEF Spec

(* ValidPairsLand, of all the daemon's tasks: on a machine that takes what   *)
(* the configuration asks for and with clients that leave the charge limits *)
(* alone, a pair in range and in order is in place whenever the tasks rest, *)
(* whatever pair was there, unless the last automatic apply was started     *)
(* into another.                                                            *)
THEOREM LandingNeedsNoOverlap ==
  ASSUME ClientsLeaveLimits, DecisionsFit, BootIsReadable
  PROVE  Spec => [](~overlapped => ValidPairsLand)
<1>1. LandInv => (~overlapped => ValidPairsLand)
  <2> SUFFICES ASSUME LandInv, ~overlapped, AllIdle, Fine(Decide(inputs)), NEW a \in Thresholds
               PROVE  hw[a] = Decide(inputs)[a]
    BY DEF ValidPairsLand, Fine
  <2>1. NoneInFlight /\ \A t \in Tasks : jobs[t].at # "reconcile"
    BY DEF AllIdle, NoneInFlight, InFlight
  <2>2. Decide(inputs)[a] # Unset /\ a \in Attrs
    BY DEF Fine, Thresholds, Attrs
  <2>3. ~IsEmpty(Decide(inputs)) /\ Sound(Decide(inputs))
    BY <2>2 DEF IsEmpty, NoChange, Sound
  <2>4. applied # Unset
    BY <2>1, <2>3 DEF LandInv
  <2>5. applied = Decide(inputs)
    BY <2>1, <2>3, <2>4 DEF LandInv, BeliefIsCurrent, Believed
  <2>6. author[a] # "client"
    <3>1. author[a] = "client" => Clients # {} /\ \E profile \in Requests : profile[a] # Unset
      BY <2>2 DEF LandInv, PairInv, AskInv
    <3> QED
      BY <3>1 DEF ClientsLeaveLimits, AsksForThresholds
  <2> QED
    BY <2>1, <2>2, <2>4, <2>5, <2>6, InvImpliesMatch DEF LandInv, PairInv, BeliefMatchesHardware
<1> QED
  BY <1>1, LandHolds, PTL

OneTask == \A t, u \in Tasks : t = u

(* ValidPairsLand: with one task no two applies ever overlap, and a pair of  *)
(* thresholds in range and in order is in place whenever the task rests,    *)
(* whatever pair was there and whatever else clients do.                    *)
THEOREM PairsLand ==
  ASSUME OneTask, ClientsLeaveLimits, DecisionsFit, BootIsReadable
  PROVE  Spec => []ValidPairsLand
<1>1. Spec => []~overlapped
  BY OneTaskNeverOverlaps DEF OneTask
<1> QED
  BY <1>1, LandingNeedsNoOverlap, PTL

-----------------------------------------------------------------------------
(* A configuration with charge limits that make sense is applied once. *)

\* Every decision leaves the limits alone or sets both, in range and in order.
LimitsMakeSense == \A in \in Inputs : Sound(Decide(in))

\* What ManualChangeSurvives asks of a step.
AppliesAnother ==
  \A t \in Tasks : jobs[t].at = "reconcile" /\ jobs'[t].at = "apply" => jobs'[t].profile # started

\* Nothing fails, so nothing is forgotten.
LEMMA LandFails == LimitsMakeSense /\ LandInv => \A t \in Tasks : jobs[t].at = "forget" => overlapped
<1> SUFFICES ASSUME LimitsMakeSense, LandInv, NEW t \in Tasks, jobs[t].at = "forget", ~overlapped
             PROVE  FALSE
  OBVIOUS
<1>1. \E in \in Inputs : jobs[t].profile = Decide(in)
  BY DEF LandInv, InFlight
<1> QED
  BY <1>1 DEF LandInv, LimitsMakeSense

LEMMA StartedStep ==
  ASSUME LimitsMakeSense, LandInv, ~overlapped => applied = started, [Next]_vars
  PROVE  ~overlapped' => applied' = started'
<1>1. \A t \in Tasks : jobs[t].at = "forget" => overlapped
  BY LandFails
<1>2. CASE UNCHANGED <<applied, started, overlapped>>
  BY <1>2
<1>3. ASSUME NEW t \in Tasks, StartApply(t) PROVE applied' = started'
  BY <1>3 DEF StartApply
<1>4. ASSUME NEW t \in Tasks, Forget(t) PROVE overlapped'
  BY <1>1, <1>4 DEF Forget
<1>5. CASE Crash
  BY <1>5 DEF Crash
<1>6. \/ UNCHANGED <<applied, started, overlapped>>
      \/ Crash
      \/ \E t \in Tasks : StartApply(t) \/ Forget(t)
  BY DEF Next, vars, Handler, SetPpdProfile, SetOnBattery, TickThermal, GoReconcile, Reconcile,
         NothingToDo, ApplyManual, Apply, Write, WriteFails, Unsupported, CheckThresholds, OrderThresholds
<1> QED
  BY <1>2, <1>3, <1>4, <1>5, <1>6

LEMMA StartedHolds ==
  ASSUME ClientsLeaveLimits, DecisionsFit, LimitsMakeSense, BootIsReadable
  PROVE  Spec => [](~overlapped => applied = started)
<1>1. Init => (~overlapped => applied = started)
  BY DEF Init
<1>2. LandInv /\ (~overlapped => applied = started) /\ [Next]_vars => (~overlapped => applied = started)'
  BY StartedStep
<1> QED
  BY <1>1, <1>2, LandHolds, PTL DEF Spec

(* ManualChangeSurvives, with charge limits among the decisions: unless the  *)
(* last automatic apply overlapped another, the automation starts an apply  *)
(* only for another decision than that one, and what a client has changed   *)
(* stays.                                                                   *)
THEOREM RepeatNeedsOverlap ==
  ASSUME ClientsLeaveLimits, DecisionsFit, LimitsMakeSense, BootIsReadable
  PROVE  Spec => [][~overlapped => AppliesAnother]_vars
<1>1. LandInv /\ (~overlapped => applied = started) /\ [Next]_vars
      => [~overlapped => AppliesAnother]_vars
  <2> SUFFICES ASSUME LandInv, ~overlapped => applied = started, Next, ~overlapped,
                      NEW t \in Tasks, jobs[t].at = "reconcile", jobs'[t].at = "apply"
               PROVE  jobs'[t].profile # started
    BY DEF AppliesAnother
  <2>1. TypeOK
    BY DEF LandInv, PairInv, AskInv
  <2>2. StartApply(t)
    BY <2>1, OnlyStartApplies
  <2>3. jobs'[t].profile = Decide(inputs) /\ applied # Decide(inputs)
    BY <2>1, <2>2 DEF StartApply, Applying, UpToDate, TypeOK, Workers
  <2> QED
    BY <2>3
<1> QED
  BY <1>1, LandHolds, StartedHolds, PTL DEF Spec

(* ManualChangeSurvives itself, of a daemon with one task.                  *)
THEOREM LimitsSurvive ==
  ASSUME OneTask, ClientsLeaveLimits, DecisionsFit, LimitsMakeSense, BootIsReadable
  PROVE  Spec => ManualChangeSurvives
<1>1. Spec => []~overlapped
  BY OneTaskNeverOverlaps DEF OneTask
<1>2. ~overlapped /\ [~overlapped => AppliesAnother]_vars
      => [\A t \in Tasks : jobs[t].at = "reconcile" /\ jobs'[t].at = "apply"
            => jobs'[t].profile # started]_vars
  BY DEF AppliesAnother
<1> QED
  BY <1>1, <1>2, RepeatNeedsOverlap, PTL DEF ManualChangeSurvives

(* TrippedFansAreLoud, with charge limits among the decisions: where they   *)
(* make sense and clients leave limits and fans alone, only a last automatic *)
(* apply started into another can keep the fans quiet while the guard is    *)
(* tripped and the tasks rest.                                              *)
THEOREM LoudWithLimits ==
  ASSUME ClientsLeaveLimits, DecisionsFit, LimitsMakeSense, BootIsReadable,
         \A profile \in Requests : profile["fan_mode"] = Unset
  PROVE  Spec => [](~overlapped => TrippedFansAreLoud)
<1>1. LandInv => (~overlapped => TrippedFansAreLoud)
  <2> SUFFICES ASSUME LandInv, ~overlapped, AllIdle, inputs.thermal_tripped
               PROVE  hw.fan_mode = "aggressive"
    BY DEF TrippedFansAreLoud
  <2>1. TypeOK /\ author["fan_mode"] # "client"
    BY DEF LandInv, PairInv, AskInv, Attrs
  <2>2. Decide(inputs).fan_mode = "aggressive" /\ ~IsEmpty(Decide(inputs)) /\ Sound(Decide(inputs))
    BY <2>1, TrippedDecidesLoud DEF LimitsMakeSense, TypeOK
  <2>3. NoneInFlight /\ \A t \in Tasks : jobs[t].at # "reconcile"
    BY DEF AllIdle, NoneInFlight, InFlight
  <2>4. applied # Unset
    BY <2>2, <2>3 DEF LandInv
  <2>5. applied = Decide(inputs) /\ BeliefMatchesHardware
    BY <2>2, <2>3, <2>4, InvImpliesMatch DEF LandInv, PairInv, BeliefIsCurrent, Believed
  <2>6. "aggressive" # Unset /\ "fan_mode" \in Attrs
    BY UnsetIsNoValue DEF FanMode, Attrs
  <2> QED
    BY <2>1, <2>2, <2>3, <2>4, <2>5, <2>6 DEF BeliefMatchesHardware
<1> QED
  BY <1>1, LandHolds, PTL

=============================================================================
