--------------------------- MODULE GpuCacheProofs ---------------------------
(***************************************************************************)
(* The GPU cache, for any number of callers and threads, any rows of        *)
(* nvidia-smi and any time to live: one caller at a time asks the driver,   *)
(* no answer is older than the time to live, and the driver is not asked    *)
(* again within it.                                                        *)
(***************************************************************************)
EXTENDS GpuCache, TLAPS

\* The cached reading is no older than its age and one second for printing it.
CachedIsRecent ==
  last # None => last.age = Ttl \/ since[last.gpu] <= last.age + 1

\* So is the reading of the call that asks.
LookedIsRecent ==
  \A c \in Calls :
    /\ at[c] = "asked" => since[answer[c]] = 0
    /\ at[c] = "late"  => since[answer[c]] <= 1

\* A call that has not come to a reading has none left from before.
Unanswered == \A c \in Calls : at[c] \in {"queued", "waiting", "asking"} => answer[c] = None

\* Between two askings, the driver has rested for as long as the cache is old.
RestsWithAge ==
  holder = None => IF last = None THEN quiet = Ttl ELSE quiet >= last.age

SaidNow == since[Read(row)] = 0

IInv == TypeOK /\ SaidNow /\ CachedIsRecent /\ LookedIsRecent /\ Unanswered /\ RestsWithAge

USE TtlIsPositive, ThreadsArePositive

(* A reading is a Gpu, whatever has been printed, and so is not None. *)
LEMMA ReadingsAreGpus == Readings \subseteq Gpu /\ None \notin Readings
<1>1. ASSUME NEW r \in Rows PROVE Read(r) \in Gpu
  <2>1. CASE r = None
    BY <2>1 DEF Read, Empty, Gpu
  <2>2. CASE r # None
    <3>1. r \in [Fields -> Int \cup {None}] /\ (r["clock_mhz"] # None => r["clock_mhz"] \in Nat)
      BY <2>2, RowsAreTyped
    <3>2. ASSUME NEW f \in Fields
          PROVE (IF r[f] = None \/ f = "clock_mhz" THEN r[f] ELSE RoundWatts(r[f])) \in Nat \cup {None}
      <4>1. CASE r[f] = None \/ f = "clock_mhz"
        BY <3>1, <4>1
      <4>2. CASE ~(r[f] = None \/ f = "clock_mhz")
        <5>1. r[f] \in Int
          BY <3>1, <4>2
        <5>2. RoundWatts(r[f]) \in Nat
          BY <5>1 DEF RoundWatts
        <5> QED BY <4>2, <5>2
      <4> QED BY <4>1, <4>2
    <3> QED BY <2>2, <3>2 DEF Read, Parse, Gpu
  <2> QED BY <2>1, <2>2
<1> QED BY <1>1, NoneIsNoReading DEF Readings

LEMMA SecondsAdd ==
  ASSUME NEW most \in Nat, NEW seconds \in 0..most
  PROVE  OneMore(seconds, most) \in 0..most
         /\ OneMore(seconds, most) <= seconds + 1 /\ OneMore(seconds, most) >= seconds
BY DEF OneMore

LEMMA Stored ==
  ASSUME NEW gpu \in Readings, NEW age \in 0..Ttl
  PROVE  [age |-> age, gpu |-> gpu] # None
BY ReadingsAreGpus, NoneIsNoReading

LEMMA InitHolds == Init => IInv
<1> SUFFICES ASSUME Init PROVE IInv
  OBVIOUS
<1>1. since \in [Readings -> 0..(Ttl + 1)] /\ Read(row) \in Readings
  BY DEF Init, Readings
<1> QED BY <1>1, ReadingsAreGpus DEF Init, IInv, TypeOK, SaidNow, Asking, CachedIsRecent, LookedIsRecent, Unanswered, RestsWithAge

LEMMA ArriveKeeps == ASSUME IInv, NEW c \in Calls, Arrive(c) PROVE IInv'
<1>1. TypeOK'
  BY DEF Arrive, IInv, TypeOK, Asking
<1> QED
  BY <1>1 DEF Arrive, IInv, TypeOK, SaidNow, Asking, CachedIsRecent, LookedIsRecent, Unanswered, RestsWithAge

LEMMA QueueKeeps == ASSUME IInv, NEW c \in Calls, Begin(c) \/ BackendFails(c) PROVE IInv'
BY DEF Begin, BackendFails, IInv, TypeOK, SaidNow, Asking, CachedIsRecent, LookedIsRecent, Unanswered, RestsWithAge

LEMMA HitKeeps == ASSUME IInv, NEW c \in Calls, Hit(c) PROVE IInv'
<1>1. last.gpu \in Readings
  BY DEF Hit, Fresh, IInv, TypeOK
<1>2. TypeOK'
  BY <1>1 DEF Hit, IInv, TypeOK, Asking
<1> QED
  BY <1>2 DEF Hit, IInv, TypeOK, SaidNow, Asking, CachedIsRecent, LookedIsRecent, Unanswered, RestsWithAge

LEMMA MissKeeps == ASSUME IInv, NEW c \in Calls, Miss(c) PROVE IInv'
<1>1. TypeOK'
  BY DEF Miss, IInv, TypeOK, Asking
<1> QED
  BY <1>1 DEF Miss, IInv, TypeOK, SaidNow, Asking, CachedIsRecent, LookedIsRecent, Unanswered, RestsWithAge

LEMMA DriverLooksKeeps == ASSUME IInv, NEW c \in Calls, DriverLooks(c) PROVE IInv'
<1>1. Read(row) \in Readings /\ Read(row) # None
  BY ReadingsAreGpus DEF IInv, TypeOK, Readings
<1>2. TypeOK'
  BY <1>1 DEF DriverLooks, IInv, TypeOK, Asking
<1>3. since[Read(row)] = 0
  BY DEF IInv, SaidNow
<1> QED
  BY <1>2, <1>3 DEF DriverLooks, IInv, TypeOK, SaidNow, Asking, CachedIsRecent, LookedIsRecent, Unanswered, RestsWithAge

LEMMA StoreKeeps == ASSUME IInv, NEW c \in Calls, Store(c) PROVE IInv'
<1>1. answer[c] \in Readings /\ since[answer[c]] <= 1
  BY DEF Store, IInv, TypeOK, LookedIsRecent
<1>2. last' = [age |-> 0, gpu |-> answer[c]] /\ last' # None
  BY <1>1, Stored DEF Store
<1>3. TypeOK'
  BY <1>1, <1>2 DEF Store, IInv, TypeOK, Asking
<1> QED
  BY <1>1, <1>2, <1>3
  DEF Store, IInv, TypeOK, SaidNow, Asking, CachedIsRecent, LookedIsRecent, Unanswered, RestsWithAge

LEMMA ThermalKeeps == ASSUME IInv, ThermalDue \/ ThermalRuns PROVE IInv'
BY DEF ThermalDue, ThermalRuns, IInv, TypeOK, SaidNow, Asking,
       CachedIsRecent, LookedIsRecent, Unanswered, RestsWithAge

LEMMA DriverChangesKeeps == ASSUME IInv, NEW r \in Rows, DriverChanges(r) PROVE IInv'
<1>1. Read(r) \in Readings
  BY DEF Readings
<1>2. since' = [since EXCEPT ![Read(r)] = 0] /\ row' = r /\ UNCHANGED <<last, holder, at, answer, ticker, quiet>>
  BY DEF DriverChanges
<1>3. since' \in [Readings -> 0..(Ttl + 1)] /\ since'[Read(r)] = 0
      /\ \A gpu \in Readings : since'[gpu] <= since[gpu]
  BY <1>1, <1>2 DEF IInv, TypeOK
<1>4. TypeOK'
  BY <1>2, <1>3 DEF IInv, TypeOK
<1>5. SaidNow'
  BY <1>2, <1>3 DEF SaidNow, Read
<1>6. CachedIsRecent'
  <2>1. CASE last = None
    BY <2>1, <1>2 DEF CachedIsRecent
  <2>2. CASE last # None
    BY <2>2, <1>2, <1>3 DEF IInv, TypeOK, CachedIsRecent
  <2> QED BY <2>1, <2>2
<1>7. LookedIsRecent'
  <2> SUFFICES ASSUME NEW c \in Calls
               PROVE /\ at[c] = "asked" => since'[answer[c]] = 0
                     /\ at[c] = "late"  => since'[answer[c]] <= 1
    BY <1>2 DEF LookedIsRecent
  <2>1. at[c] \in {"asked", "late"} => answer[c] \in Readings
    BY DEF IInv, TypeOK
  <2> QED BY <2>1, <1>3 DEF IInv, TypeOK, LookedIsRecent
<1>8. RestsWithAge' /\ Unanswered'
  BY <1>2 DEF IInv, RestsWithAge, Unanswered
<1> QED BY <1>4, <1>5, <1>6, <1>7, <1>8 DEF IInv

LEMMA SecondKeeps == ASSUME IInv, Second PROVE IInv'
<1>1. /\ \A c \in Calls : at[c] # "late"
      /\ last' = IF last = None THEN None ELSE [last EXCEPT !.age = OneMore(@, Ttl)]
      /\ at' = [c \in Calls |-> IF at[c] = "asked" THEN "late" ELSE at[c]]
      /\ since' = [gpu \in Readings |-> IF gpu = Read(row) THEN 0 ELSE OneMore(since[gpu], Ttl + 1)]
      /\ quiet' = OneMore(quiet, Ttl)
      /\ UNCHANGED <<row, holder, answer, ticker>>
  BY DEF Second
<1>2. \A gpu \in Readings : since'[gpu] \in 0..(Ttl + 1) /\ since'[gpu] <= since[gpu] + 1
  <2> SUFFICES ASSUME NEW gpu \in Readings
               PROVE  since'[gpu] \in 0..(Ttl + 1) /\ since'[gpu] <= since[gpu] + 1
    OBVIOUS
  <2>1. since[gpu] \in 0..(Ttl + 1) /\ Ttl + 1 \in Nat
    BY DEF IInv, TypeOK
  <2>2. since'[gpu] = IF gpu = Read(row) THEN 0 ELSE OneMore(since[gpu], Ttl + 1)
    BY <1>1
  <2> QED BY <2>1, <2>2 DEF OneMore
<1>3. Read(row) \in Readings
  BY DEF IInv, TypeOK, Readings
<1>4. quiet' \in 0..Ttl /\ quiet' >= quiet
  BY <1>1, SecondsAdd DEF IInv, TypeOK
<1>5. ASSUME last # None
      PROVE  /\ last' \in [age : 0..Ttl, gpu : Readings] /\ last' # None
             /\ last'.gpu = last.gpu /\ last'.age = OneMore(last.age, Ttl)
  <2>1. last \in [age : 0..Ttl, gpu : Readings]
    BY <1>5 DEF IInv, TypeOK
  <2>2. OneMore(last.age, Ttl) \in 0..Ttl
    BY <2>1, SecondsAdd
  <2>3. last' = [age |-> OneMore(last.age, Ttl), gpu |-> last.gpu]
    BY <1>1, <1>5, <2>1
  <2> QED BY <2>1, <2>2, <2>3, Stored
<1>6. TypeOK'
  <2>1. since' \in [Readings -> 0..(Ttl + 1)]
    BY <1>1, <1>2
  <2>2. last' \in {None} \cup [age : 0..Ttl, gpu : Readings]
    BY <1>1, <1>5
  <2>3. \A c \in Calls : at'[c] \in Asking <=> at[c] \in Asking
    BY <1>1 DEF Asking
  <2>4. at' \in [Calls -> {"idle", "queued", "waiting"} \cup Asking]
    BY <1>1 DEF IInv, TypeOK, Asking
  <2>5. \A c \in Calls : at'[c] \in {"asked", "late"} => at[c] = "asked"
    BY <1>1
  <2> QED BY <1>1, <1>4, <2>1, <2>2, <2>3, <2>4, <2>5 DEF IInv, TypeOK
<1>7. SaidNow'
  BY <1>1, <1>3 DEF SaidNow, Read
<1>8. CachedIsRecent'
  <2> SUFFICES ASSUME last # None PROVE last'.age = Ttl \/ since'[last'.gpu] <= last'.age + 1
    BY <1>1 DEF CachedIsRecent
  <2>1. last.gpu \in Readings /\ last.age \in 0..Ttl /\ since[last.gpu] \in 0..(Ttl + 1)
    BY DEF IInv, TypeOK
  <2>2. last.age = Ttl \/ since[last.gpu] <= last.age + 1
    BY DEF IInv, CachedIsRecent
  <2>3. last'.age = (IF last.age < Ttl THEN last.age + 1 ELSE Ttl) /\ last'.gpu = last.gpu
    BY <1>5 DEF OneMore
  <2>4. since'[last.gpu] \in 0..(Ttl + 1) /\ since'[last.gpu] <= since[last.gpu] + 1
    BY <1>2, <2>1
  <2> QED BY <2>1, <2>2, <2>3, <2>4
<1>9. LookedIsRecent'
  <2> SUFFICES ASSUME NEW c \in Calls
               PROVE /\ at'[c] = "asked" => since'[answer[c]] = 0
                     /\ at'[c] = "late"  => since'[answer[c]] <= 1
    BY <1>1 DEF LookedIsRecent
  <2>1. at'[c] # "asked" /\ (at'[c] = "late" => at[c] = "asked")
    BY <1>1
  <2>2. at[c] = "asked" => answer[c] \in Readings /\ since[answer[c]] = 0
    BY DEF IInv, TypeOK, LookedIsRecent
  <2> QED BY <2>1, <2>2, <1>2
<1>10. RestsWithAge'
  <2>1. CASE last = None
    BY <2>1, <1>1 DEF IInv, TypeOK, RestsWithAge, OneMore
  <2>2. CASE last # None
    <3>1. last.age \in 0..Ttl /\ quiet \in 0..Ttl
      BY <2>2 DEF IInv, TypeOK
    <3> QED BY <2>2, <3>1, <1>1, <1>5 DEF IInv, RestsWithAge, OneMore
  <2> QED BY <2>1, <2>2
<1>11. Unanswered'
  BY <1>1 DEF IInv, TypeOK, Unanswered
<1> QED BY <1>6, <1>7, <1>8, <1>9, <1>10, <1>11 DEF IInv

LEMMA StepHolds == IInv /\ [Next]_vars => IInv'
<1> SUFFICES ASSUME IInv, [Next]_vars PROVE IInv'
  OBVIOUS
<1>1. CASE \E c \in Calls : Call(c)
  BY <1>1, ArriveKeeps, QueueKeeps, HitKeeps, MissKeeps, DriverLooksKeeps, StoreKeeps DEF Call, Ask
<1>2. CASE \E r \in Rows : DriverChanges(r)
  BY <1>2, DriverChangesKeeps
<1>3. CASE ThermalDue \/ ThermalRuns
  BY <1>3, ThermalKeeps
<1>4. CASE Second
  BY <1>4, SecondKeeps
<1>5. CASE UNCHANGED vars
  BY <1>5 DEF vars, IInv, TypeOK, SaidNow, CachedIsRecent, LookedIsRecent, Unanswered, RestsWithAge
<1> QED BY <1>1, <1>2, <1>3, <1>4, <1>5 DEF Next

LEMMA Invariance == Spec => []IInv
BY InitHolds, StepHolds, PTL DEF Spec

(* The state keeps its types, and whoever runs nvidia-smi holds the mutex   *)
(* of gpu.rs:32-48.                                                        *)
THEOREM GpuTypeCorrect == Spec => []TypeOK
<1>1. IInv => TypeOK
  BY DEF IInv
<1> QED BY <1>1, Invariance, PTL

(* What a call answers with, cached or just asked for, is what the driver   *)
(* said within the time to live (gpu.rs:39-45).                            *)
THEOREM AnswersAreFresh == Spec => NoStaleAnswer
<1>1. IInv /\ [Next]_vars
      => [\A c \in Calls : answer'[c] # None /\ at[c] # "idle" /\ at'[c] = "idle"
           => since[answer'[c]] <= Ttl]_vars
  <2> SUFFICES ASSUME IInv, Next, NEW c \in Calls,
                      answer'[c] # None, at[c] # "idle", at'[c] = "idle"
               PROVE  since[answer'[c]] <= Ttl
    OBVIOUS
  <2>1. CASE \E d \in Calls : Hit(d)
    <3>1. Hit(c)
      BY <2>1 DEF Hit, IInv, TypeOK
    <3>2. last # None /\ last.age \in 0..Ttl /\ last.age < Ttl /\ since[last.gpu] \in 0..(Ttl + 1)
      BY <3>1 DEF Hit, Fresh, IInv, TypeOK
    <3> QED BY <3>1, <3>2 DEF Hit, IInv, TypeOK, CachedIsRecent
  <2>2. CASE \E d \in Calls : Store(d)
    BY <2>2 DEF Store, IInv, TypeOK, LookedIsRecent
  <2>3. CASE \E d \in Calls : BackendFails(d)
    <3>1. at[c] = "queued" /\ answer'[c] = answer[c]
      BY <2>3 DEF BackendFails, IInv, TypeOK
    <3> QED BY <3>1 DEF IInv, Unanswered
  <2>4. CASE \E d \in Calls : Arrive(d) \/ Begin(d) \/ Miss(d) \/ DriverLooks(d)
    BY <2>4 DEF Arrive, Begin, Miss, DriverLooks, IInv, TypeOK
  <2>5. CASE ThermalDue \/ ThermalRuns \/ Second \/ \E r \in Rows : DriverChanges(r)
    BY <2>5 DEF ThermalDue, ThermalRuns, Second, DriverChanges, IInv, TypeOK
  <2> QED BY <2>1, <2>2, <2>3, <2>4, <2>5 DEF Next, Call, Ask
<1> QED BY <1>1, Invariance, PTL DEF Spec, NoStaleAnswer

(* nvidia-smi runs at most once within the time to live, and never twice at *)
(* a time (gpu.rs:39-44).                                                   *)
THEOREM DriverAskedRarely == Spec => DriverIsAskedRarely
<1>1. IInv /\ [Next]_vars
      => [\A c \in Calls : at[c] = "waiting" /\ at'[c] = "asking"
           => quiet = Ttl /\ \A d \in Calls : at[d] \notin Asking]_vars
  <2> SUFFICES ASSUME IInv, Next, NEW c \in Calls, at[c] = "waiting", at'[c] = "asking"
               PROVE  quiet = Ttl /\ \A d \in Calls : at[d] \notin Asking
    OBVIOUS
  <2>1. Miss(c)
    BY DEF Next, Call, Ask, Arrive, Begin, BackendFails, Hit, Miss, DriverLooks, Store,
           ThermalDue, ThermalRuns, Second, DriverChanges, IInv, TypeOK
  <2>2. holder = None /\ ~Fresh
    BY <2>1 DEF Miss
  <2>3. \A d \in Calls : at[d] \notin Asking
    BY <2>2 DEF IInv, TypeOK
  <2>4. CASE last = None
    BY <2>2, <2>3, <2>4 DEF IInv, RestsWithAge
  <2>5. CASE last # None
    BY <2>2, <2>3, <2>5 DEF IInv, TypeOK, RestsWithAge, Fresh
  <2> QED BY <2>3, <2>4, <2>5
<1> QED BY <1>1, Invariance, PTL DEF Spec, DriverIsAskedRarely

(* Watts are off by half a watt at most, but for what no u16 can hold. *)
LEMMA WattsRounded == ASSUME NEW tenths \in Int PROVE IsRounded(RoundWatts(tenths), tenths)
<1> DEFINE watts == (tenths + 5) \div 10
<1>1. watts \in Int /\ 10 * watts <= tenths + 5 /\ tenths + 5 < 10 * watts + 10
  BY SMT
<1>2. RoundWatts(tenths) = IF watts < 0 THEN 0 ELSE IF watts > 65535 THEN 65535 ELSE watts
  BY SMT DEF RoundWatts
<1> HIDE DEF watts
<1> QED BY <1>1, <1>2, SMT DEF IsRounded

(* Nothing is lost on the way through the dictionary. *)
LEMMA DictKeepsGpu == ASSUME NEW gpu \in Gpu PROVE GpuFromDict(GpuIntoDict(gpu)) = gpu
BY DEF Gpu, GpuFromDict, GpuIntoDict

\* What stands in a line, in whatever order.
Entries(line) == {line[i] : i \in DOMAIN line}

LEMMA EntriesConcat ==
  ASSUME NEW S, NEW s \in Seq(S), NEW t \in Seq(S)
  PROVE  s \o t \in Seq(S) /\ Entries(s \o t) = Entries(s) \cup Entries(t)
<1>1. s \o t \in Seq(S) /\ Len(s \o t) = Len(s) + Len(t)
  OBVIOUS
<1>2. \A i \in 1..Len(s) : (s \o t)[i] = s[i]
  OBVIOUS
<1>3. \A i \in 1..Len(t) : (s \o t)[Len(s) + i] = t[i]
  OBVIOUS
<1>4. \A i \in (Len(s) + 1)..(Len(s) + Len(t)) : (s \o t)[i] = t[i - Len(s)]
  OBVIOUS
<1>5. ASSUME NEW i \in DOMAIN (s \o t) PROVE (s \o t)[i] \in Entries(s) \cup Entries(t)
  <2>1. CASE i \in 1..Len(s)
    BY <1>2, <2>1 DEF Entries
  <2>2. CASE i \in (Len(s) + 1)..(Len(s) + Len(t))
    <3>1. i - Len(s) \in 1..Len(t)
      BY <2>2
    <3> QED BY <1>4, <2>2, <3>1 DEF Entries
  <2> QED BY <1>1, <2>1, <2>2
<1>6. ASSUME NEW i \in DOMAIN s PROVE s[i] \in Entries(s \o t)
  BY <1>1, <1>2 DEF Entries
<1>7. ASSUME NEW i \in DOMAIN t PROVE t[i] \in Entries(s \o t)
  <2>1. Len(s) + i \in DOMAIN (s \o t) /\ (s \o t)[Len(s) + i] = t[i]
    BY <1>1, <1>3
  <2> QED BY <2>1 DEF Entries
<1> QED BY <1>1, <1>5, <1>6, <1>7 DEF Entries

LEMMA FigureEntries ==
  ASSUME NEW gpu \in Gpu, NEW f \in Fields
  PROVE  /\ Figure(gpu, f) \in Seq([field : Fields, value : Nat \cup {None}])
         /\ Entries(Figure(gpu, f)) = IF gpu[f] = None THEN {} ELSE {[field |-> f, value |-> gpu[f]]}
<1>1. CASE gpu[f] = None
  BY <1>1 DEF Figure, Entries
<1>2. CASE gpu[f] # None
  <2>1. Figure(gpu, f) = <<[field |-> f, value |-> gpu[f]]>>
    BY <1>2 DEF Figure
  <2>2. [field |-> f, value |-> gpu[f]] \in [field : Fields, value : Nat \cup {None}]
    BY DEF Gpu
  <2> QED BY <1>2, <2>1, <2>2 DEF Entries
<1> QED BY <1>1, <1>2

(* The line under the gauge has the figures of the reading, and only these. *)
LEMMA LineIsTheReading ==
  ASSUME NEW gpu \in Gpu
  PROVE  Entries(Drawn(gpu)) = {[field |-> f, value |-> gpu[f]] : f \in {f \in Fields : gpu[f] # None}}
<1>1. Drawn(gpu) = (Figure(gpu, "power_w") \o Figure(gpu, "power_limit_w")) \o Figure(gpu, "clock_mhz")
  BY DictKeepsGpu DEF Drawn, GpuDrawText
<1>2. "power_w" \in Fields /\ "power_limit_w" \in Fields /\ "clock_mhz" \in Fields
  BY DEF Fields
<1> DEFINE S == [field : Fields, value : Nat \cup {None}]
           power == Figure(gpu, "power_w")
           limit == Figure(gpu, "power_limit_w")
           clock == Figure(gpu, "clock_mhz")
<1>3. Entries(Drawn(gpu)) = Entries(power) \cup Entries(limit) \cup Entries(clock)
  <2>1. power \in Seq(S) /\ limit \in Seq(S) /\ clock \in Seq(S)
    BY <1>2, FigureEntries
  <2> HIDE DEF S, power, limit, clock
  <2>2. power \o limit \in Seq(S) /\ Entries(power \o limit) = Entries(power) \cup Entries(limit)
    BY <2>1, EntriesConcat
  <2>3. Entries((power \o limit) \o clock) = Entries(power \o limit) \cup Entries(clock)
    <3> DEFINE both == power \o limit
    <3>1. both \in Seq(S) /\ clock \in Seq(S)
      BY <2>1, <2>2
    <3> HIDE DEF both
    <3>2. Entries(both \o clock) = Entries(both) \cup Entries(clock)
      BY <3>1, EntriesConcat
    <3> QED
      BY <3>2 DEF both
  <2> QED BY <1>1, <2>2, <2>3 DEF power, limit, clock
<1>4. Fields = {"power_w", "power_limit_w", "clock_mhz"}
  BY DEF Fields
<1> QED BY <1>2, <1>3, <1>4, FigureEntries

(* Every figure a client draws is one the driver gave, rounded, and every   *)
(* figure the driver gave is drawn (gpu.rs:44-122, ui.rs:299-322).          *)
THEOREM FiguresDrawn == Spec => []FiguresAreTheDrivers
<1>1. IInv => FiguresAreTheDrivers
  <2> SUFFICES ASSUME IInv, NEW c \in Calls, answer[c] # None, NEW r \in Rows, answer[c] = Read(r)
               PROVE  LET given == IF r = None THEN {} ELSE {f \in Fields : r[f] # None}
                          line  == Drawn(answer[c])
                      IN  /\ {line[i].field : i \in DOMAIN line} = given
                          /\ \A i \in DOMAIN line :
                               IF line[i].field = "clock_mhz" THEN line[i].value = r["clock_mhz"]
                                 ELSE IsRounded(line[i].value, r[line[i].field])
    BY DEF FiguresAreTheDrivers, IInv, TypeOK, Readings
  <2> DEFINE given == IF r = None THEN {} ELSE {f \in Fields : r[f] # None}
             line  == Drawn(answer[c])
  <2>1. answer[c] \in Gpu
    BY ReadingsAreGpus DEF IInv, TypeOK
  <2>2. Entries(line) = {[field |-> f, value |-> answer[c][f]] : f \in {f \in Fields : answer[c][f] # None}}
    BY <2>1, LineIsTheReading
  <2>3. \A f \in given : /\ r # None /\ r[f] # None /\ answer[c][f] # None
                         /\ IF f = "clock_mhz" THEN answer[c][f] = r[f] ELSE IsRounded(answer[c][f], r[f])
    <3> SUFFICES ASSUME NEW f \in Fields, r # None, r[f] # None
                 PROVE  /\ answer[c][f] # None
                        /\ IF f = "clock_mhz" THEN answer[c][f] = r[f] ELSE IsRounded(answer[c][f], r[f])
      OBVIOUS
    <3>1. r[f] \in Int /\ RoundWatts(r[f]) \in Int /\ RoundWatts(r[f]) # None
      BY RowsAreTyped, SMT DEF RoundWatts
    <3>2. answer[c][f] = IF f = "clock_mhz" THEN r[f] ELSE RoundWatts(r[f])
      BY DEF Read, Parse
    <3> QED BY <3>1, <3>2, WattsRounded, SMT
  <2>4. {f \in Fields : answer[c][f] # None} = given
    <3>1. ASSUME NEW f \in Fields, f \notin given PROVE answer[c][f] = None
      BY <3>1 DEF Read, Parse, Empty
    <3> QED BY <2>3, <3>1
  <2>5. \A i \in DOMAIN line : \E f \in given : line[i] = [field |-> f, value |-> answer[c][f]]
    <3> SUFFICES ASSUME NEW i \in DOMAIN line
                 PROVE  \E f \in given : line[i] = [field |-> f, value |-> answer[c][f]]
      OBVIOUS
    <3>1. line[i] \in Entries(line)
      BY DEF Entries
    <3> QED BY <2>2, <2>4, <3>1
  <2>6. \A f \in given : \E i \in DOMAIN line : line[i] = [field |-> f, value |-> answer[c][f]]
    BY <2>2, <2>4 DEF Entries
  <2> HIDE DEF line
  <2>7. {line[i].field : i \in DOMAIN line} = given
    BY <2>5, <2>6
  <2> QED BY <2>3, <2>5, <2>7 DEF line
<1> QED BY <1>1, Invariance, PTL
=============================================================================
