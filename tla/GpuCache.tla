------------------------------ MODULE GpuCache ------------------------------
(***************************************************************************)
(* The reading of the discrete GPU: what the driver prints and what is made *)
(* of it (crates/core/src/gpu.rs), and the cache that all calls of snapshot *)
(* share (crates/daemon/src/gpu.rs).  The cache's mutex is held while       *)
(* nvidia-smi runs, and whoever waits for it keeps a thread of the runtime, *)
(* of which there are only so many and which the thermal loop needs too.    *)
(*                                                                         *)
(* An Instant is kept as the whole seconds since it.  since and quiet are   *)
(* history, for the properties only.                                        *)
(***************************************************************************)
EXTENDS Integers, FiniteSets, Sequences

CONSTANTS
  None,      \* Rust's None
  Calls,     \* calls of snapshot that may be under way
  Threads,   \* threads of the runtime
  Rows,      \* the first rows nvidia-smi may print, None where it fails
  Ttl        \* seconds for which a reading is shared

VARIABLES
  row,       \* what nvidia-smi would print now
  last,      \* GpuReader::last
  holder,    \* the call that has its mutex
  at,        \* where each call is
  answer,    \* the reading a call answers with
  ticker,    \* the thermal loop: asleep, or due to run
  since,     \* for each reading, the seconds since nvidia-smi would give it
  quiet      \* seconds since nvidia-smi was last asked

vars == <<row, last, holder, at, answer, ticker, since, quiet>>

Fields == {"power_w", "power_limit_w", "clock_mhz"}

Gpu == [Fields -> Nat \cup {None}]

\* Gpu::default(), how a machine without one looks.
Empty == [f \in Fields |-> None]

\* A field that is missing, "[N/A]" or not a number is None.  Watts are
\* printed with decimals and kept here in tenths; the clock is whole.
ASSUME RowsAreTyped ==
  /\ None \notin Int
  /\ Rows # {} /\ \A r \in Rows : r # None => r \in [Fields -> Int \cup {None}]
  /\ \A r \in Rows \ {None} : r["clock_mhz"] # None => r["clock_mhz"] \in Nat

ASSUME NoneIsNoReading == None \notin Gpu /\ None \notin [age : Nat, gpu : Gpu]

ASSUME TtlIsPositive == Ttl \in Nat \ {0}

ASSUME ThreadsArePositive == Threads \in Nat \ {0} /\ None \notin Calls

-----------------------------------------------------------------------------
(* What the driver prints. *)

\* To the nearest, and into u16.
RoundWatts(tenths) ==
  LET watts == (tenths + 5) \div 10
  IN  IF watts < 0 THEN 0 ELSE IF watts > 65535 THEN 65535 ELSE watts

\* Mutated form of Parse: a field that says nothing says zero.
ParseAsZero(r) ==
  [f \in Fields |-> IF r[f] = None THEN 0 ELSE IF f = "clock_mhz" THEN r[f] ELSE RoundWatts(r[f])]

Parse(r) ==
  [f \in Fields |-> IF r[f] = None \/ f = "clock_mhz" THEN r[f] ELSE RoundWatts(r[f])]

\* Every failure, and a row that says nothing, is the same absence.
Read(r) == IF r = None THEN Empty ELSE Parse(r)

Readings == {Read(r) : r \in Rows}

-----------------------------------------------------------------------------
(* What a client is sent and draws. *)

\* The dictionary has a key for what is reported and for nothing else.
GpuIntoDict(gpu) == [f \in {f \in Fields : gpu[f] # None} |-> gpu[f]]

GpuFromDict(dict) == [f \in Fields |-> IF f \in DOMAIN dict THEN dict[f] ELSE None]

Figure(gpu, f) == IF gpu[f] = None THEN << >> ELSE <<[field |-> f, value |-> gpu[f]]>>

\* The line under the GPU's gauge; none at all without a figure.
GpuDrawText(gpu) ==
  Figure(gpu, "power_w") \o Figure(gpu, "power_limit_w") \o Figure(gpu, "clock_mhz")

Drawn(gpu) == GpuDrawText(GpuFromDict(GpuIntoDict(gpu)))

-----------------------------------------------------------------------------

Init ==
  /\ row \in Rows
  /\ last = None
  /\ holder = None
  /\ at = [c \in Calls |-> "idle"]
  /\ answer = [c \in Calls |-> None]
  /\ ticker = "asleep"
  /\ since = [gpu \in Readings |-> IF gpu = Read(row) THEN 0 ELSE Ttl + 1]
  /\ quiet = Ttl

\* asked: nvidia-smi has looked; late: and taken its time to say so.
Asking == {"asking", "asked", "late"}

Busy == {c \in Calls : at[c] \in {"waiting"} \cup Asking}

FreeThread == Cardinality(Busy) < Threads

Arrive(c) ==
  /\ at[c] = "idle"
  /\ at' = [at EXCEPT ![c] = "queued"]
  /\ answer' = [answer EXCEPT ![c] = None]
  /\ UNCHANGED <<row, last, holder, ticker, since, quiet>>

\* The backend's state has been read, and the GPU is next.
Begin(c) ==
  /\ at[c] = "queued" /\ FreeThread
  /\ at' = [at EXCEPT ![c] = "waiting"]
  /\ UNCHANGED <<row, last, holder, answer, ticker, since, quiet>>

\* The backend's state cannot be read: an error, and nobody asks the GPU.
BackendFails(c) ==
  /\ at[c] = "queued" /\ FreeThread
  /\ at' = [at EXCEPT ![c] = "idle"]
  /\ UNCHANGED <<row, last, holder, answer, ticker, since, quiet>>

\* Mutated form of Fresh: what has been read once is good for ever.
FreshForEver == last # None

Fresh == last # None /\ last.age < Ttl

Hit(c) ==
  /\ at[c] = "waiting" /\ holder = None
  /\ Fresh
  /\ answer' = [answer EXCEPT ![c] = last.gpu]
  /\ at' = [at EXCEPT ![c] = "idle"]
  /\ UNCHANGED <<row, last, holder, ticker, since, quiet>>

\* Mutated form of Miss: the mutex is let go while nvidia-smi runs.
MissUnlocked(c) ==
  /\ at[c] = "waiting" /\ holder = None
  /\ ~Fresh
  /\ quiet' = 0
  /\ at' = [at EXCEPT ![c] = "asking"]
  /\ UNCHANGED <<row, last, holder, answer, ticker, since>>

Miss(c) ==
  /\ at[c] = "waiting" /\ holder = None
  /\ ~Fresh
  /\ holder' = c
  /\ quiet' = 0
  /\ at' = [at EXCEPT ![c] = "asking"]
  /\ UNCHANGED <<row, last, answer, ticker, since>>

DriverLooks(c) ==
  /\ at[c] = "asking"
  /\ answer' = [answer EXCEPT ![c] = Read(row)]
  /\ at' = [at EXCEPT ![c] = "asked"]
  /\ UNCHANGED <<row, last, holder, ticker, since, quiet>>

\* Mutated form of Store: an absent GPU is not worth remembering.
StoreUnlessEmpty(c) ==
  /\ at[c] \in {"asked", "late"}
  /\ last' = IF answer[c] = Empty THEN last ELSE [age |-> 0, gpu |-> answer[c]]
  /\ holder' = None
  /\ at' = [at EXCEPT ![c] = "idle"]
  /\ UNCHANGED <<row, answer, ticker, since, quiet>>

\* Mutated form of Store: the mutex, which is held, is taken again.
StoreRelocking(c) ==
  /\ at[c] \in {"asked", "late"}
  /\ holder = None
  /\ last' = [age |-> 0, gpu |-> answer[c]]
  /\ at' = [at EXCEPT ![c] = "idle"]
  /\ UNCHANGED <<row, holder, answer, ticker, since, quiet>>

\* The time is taken once the answer is there.
Store(c) ==
  /\ at[c] \in {"asked", "late"}
  /\ last' = [age |-> 0, gpu |-> answer[c]]
  /\ holder' = None
  /\ at' = [at EXCEPT ![c] = "idle"]
  /\ UNCHANGED <<row, answer, ticker, since, quiet>>

-----------------------------------------------------------------------------

ThermalDue ==
  /\ ticker = "asleep"
  /\ ticker' = "due"
  /\ UNCHANGED <<row, last, holder, at, answer, since, quiet>>

ThermalRuns ==
  /\ ticker = "due" /\ FreeThread
  /\ ticker' = "asleep"
  /\ UNCHANGED <<row, last, holder, at, answer, since, quiet>>

DriverChanges(r) ==
  /\ row' = r
  /\ since' = [since EXCEPT ![Read(r)] = 0]
  /\ UNCHANGED <<last, holder, at, answer, ticker, quiet>>

OneMore(seconds, most) == IF seconds < most THEN seconds + 1 ELSE most

\* "The call costs about 20 ms": at most one second ends while it prints.
Second ==
  /\ \A c \in Calls : at[c] # "late"
  /\ last' = IF last = None THEN None ELSE [last EXCEPT !.age = OneMore(@, Ttl)]
  /\ at' = [c \in Calls |-> IF at[c] = "asked" THEN "late" ELSE at[c]]
  /\ since' = [gpu \in Readings |-> IF gpu = Read(row) THEN 0 ELSE OneMore(since[gpu], Ttl + 1)]
  /\ quiet' = OneMore(quiet, Ttl)
  /\ UNCHANGED <<row, holder, answer, ticker>>

Ask(c) == Hit(c) \/ Miss(c)

Call(c) == Arrive(c) \/ Begin(c) \/ BackendFails(c) \/ Ask(c) \/ DriverLooks(c) \/ Store(c)

Next ==
  \/ \E c \in Calls : Call(c)
  \/ \E r \in Rows : DriverChanges(r)
  \/ ThermalDue \/ ThermalRuns
  \/ Second

Spec == Init /\ [][Next]_vars

\* The runtime takes what is ready in turn and the mutex whoever waits for it,
\* nvidia-smi ends, and the thermal interval fires.
Fairness ==
  /\ WF_vars(ThermalDue) /\ SF_vars(ThermalRuns)
  /\ \A c \in Calls :
       /\ SF_vars(Begin(c) \/ BackendFails(c))
       /\ SF_vars(Ask(c))
       /\ WF_vars(DriverLooks(c))
       /\ WF_vars(Store(c))

FairSpec == Spec /\ Fairness

-----------------------------------------------------------------------------
(* Type correctness; who runs nvidia-smi holds the mutex, and nobody else.  *)
TypeOK ==
  /\ row \in Rows
  /\ last \in {None} \cup [age : 0..Ttl, gpu : Readings]
  /\ at \in [Calls -> {"idle", "queued", "waiting"} \cup Asking]
  /\ holder \in Calls \cup {None}
  /\ \A c \in Calls : holder = c <=> at[c] \in Asking
  /\ answer \in [Calls -> Readings \cup {None}]
  /\ \A c \in Calls : at[c] \in {"asked", "late"} => answer[c] # None
  /\ ticker \in {"asleep", "due"}
  /\ since \in [Readings -> 0..(Ttl + 1)]
  /\ quiet \in 0..Ttl

(* "How long a reading is reused": however long a call has waited for a     *)
(* thread and for the mutex, what it answers is what the driver said within *)
(* the time to live, and a GPU that has gone is not shown for longer.       *)
NoStaleAnswer ==
  [][\A c \in Calls : answer'[c] # None /\ at[c] # "idle" /\ at'[c] = "idle"
       => since[answer'[c]] <= Ttl]_vars

(* "Asking the driver every time would mean spawning a process per client   *)
(* per second": nvidia-smi is never run twice within the time to live nor   *)
(* twice at once, whoever calls, also where there is no GPU to find.        *)
DriverIsAskedRarely ==
  [][\A c \in Calls : at[c] = "waiting" /\ at'[c] = "asking"
       => quiet = Ttl /\ \A d \in Calls : at[d] \notin Asking]_vars

\* To the nearest watt or, beyond what a u16 holds, the end of it.
IsRounded(value, tenths) ==
  \/ tenths - 10 * value \in -5..5
  \/ tenths < 0 /\ value = 0
  \/ tenths > 655350 /\ value = 65535

(* "[N/A] and friends are absences, not values": whatever the cache, the    *)
(* dictionary and the client do with a reading, a figure on the screen is   *)
(* one the driver gave, rounded, and a GPU without a figure has no line.    *)
FiguresAreTheDrivers ==
  \A c \in Calls : answer[c] # None =>
    \E r \in Rows :
      LET given == IF r = None THEN {} ELSE {f \in Fields : r[f] # None}
          line  == Drawn(answer[c])
      IN  /\ {line[i].field : i \in DOMAIN line} = given
          /\ \A i \in DOMAIN line :
               IF line[i].field = "clock_mhz" THEN line[i].value = r["clock_mhz"]
                 ELSE IsRounded(line[i].value, r[line[i].field])

(* Every call is answered, though each may wait for a thread, for the mutex *)
(* and for nvidia-smi, and others keep coming.                              *)
EveryCallEnds == \A c \in Calls : at[c] # "idle" ~> at[c] = "idle"

(* The guard goes on: callers that fill the runtime's threads, waiting for  *)
(* one nvidia-smi, hold the thermal loop up but never stop it.              *)
ThermalLoopGoesOn == ticker = "due" ~> ticker = "asleep"
=============================================================================
