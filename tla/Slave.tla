------------------------------- MODULE Slave --------------------------------
(***************************************************************************)
(* The real-time thread in slave mode: a tempo estimator and a free-running *)
(* oscillator that follow the clock bytes of an external source.  Times    *)
(* are relative to now and in whole units; the filter rounds down to them. *)
(* Time passes only while the thread sleeps.  The clock bytes come from    *)
(* one input port, stamped by a clock of its callback which began before   *)
(* that of the thread, so that a stamp reads Skew more than the thread's   *)
(* clock did at the time.  The musical position, which the timing does not *)
(* depend on, is that of Passthrough, and the world's side of the queues   *)
(* that of RtMaster.                                                       *)
(***************************************************************************)
EXTENDS Integers, Sequences

CONSTANTS
  Gaps,            \* times from one clock byte to the next
  Timeout,         \* timeout_ns
  Skew,            \* how much earlier the callback's clock began than the thread's
  InputCapacity,   \* bytes the input queue holds
  MaxAge,          \* no transport message waits for longer in it: a bound
  MaxLag,          \* a schedule older than this is kept as this old: a bound
  MaxLead          \* the lead of the ticks is counted up to this: a bound

LongestGap == CHOOSE g \in Gaps : \A h \in Gaps : h <= g

SlaveAssumption ==
  /\ Gaps \subseteq Nat \ {0} /\ \E g \in Gaps : \A h \in Gaps : h <= g
  /\ Timeout \in Nat /\ Skew \in Nat /\ MaxAge \in Nat /\ InputCapacity \in Nat \ {0}
  /\ MaxLag \in Nat /\ MaxLead \in Nat

VARIABLES
  count,         \* TempoEstimator::count, up to the four it takes to lock
  filtered,      \* filtered_interval_ns; 0 when there is none
  since,         \* age of the byte of last_tick_ns; -1 when there is none
  ticking,       \* is there a next_tick_ns?
  due,           \* and how far off it is: negative when it has passed
  is_running,    \* SlaveClock::is_running
  thread,        \* where the loop is: inputs, sleep, nap, ended
  bytes,         \* ages of the clock bytes in the input queue
  wire,          \* time to the next clock byte
  lead,          \* history: ticks sent less bytes taken, since lock or transport
  slept,         \* history: time since the inputs were last drained, up to MaxAge
  free           \* history: ticks waited for since the source was last heard

estimatorVars == <<count, filtered, since>>
oscillatorVars == <<ticking, due>>
sourceVars == <<bytes, wire>>
historyVars == <<lead, slept, free>>
vars == <<estimatorVars, oscillatorVars, is_running, thread, sourceVars, historyVars>>

Init ==
  /\ count = 0 /\ filtered = 0 /\ since = -1
  /\ ticking = FALSE /\ due = 0 /\ is_running = TRUE
  /\ thread = "inputs"
  /\ bytes = <<>> /\ wire \in Gaps
  /\ lead = 0 /\ slept = 0 /\ free = 0

Locked == count >= 4

(* How far the stamp of what is this old lies ahead of the thread's clock. *)
Ahead(age) == Skew - age
-----------------------------------------------------------------------------
(* TempoEstimator *)

Jump(gap) == filtered > 0 /\ (gap > 3 * filtered \/ 3 * gap < filtered)

\* Mutant: after a jump the filter keeps the old tempo.
SmoothedStale(gap) ==
  IF filtered = 0 THEN gap ELSE IF Jump(gap) THEN filtered ELSE (2 * gap + 7 * filtered) \div 9
(* The moving average over a window of eight: alpha is 2/9.                *)
Smoothed(gap) ==
  IF filtered = 0 \/ Jump(gap) THEN gap ELSE (2 * gap + 7 * filtered) \div 9

CountAfter(gap) ==
  IF Jump(gap) THEN 2 ELSE IF Locked THEN count ELSE count + 1

(* feed_tick: a byte of this age has come in. *)
FeedTick(age) ==
  /\ since' = age
  /\ IF since = -1
     THEN count' = (IF Locked THEN count ELSE count + 1) /\ UNCHANGED filtered
     ELSE count' = CountAfter(since - age) /\ filtered' = Smoothed(since - age)

(* now_ns.saturating_sub(last): between the thread's clock and a stamp.    *)
Elapsed == IF Ahead(since) >= 0 THEN 0 ELSE 0 - Ahead(since)

\* Mutant: only the configured timeout is looked at.
TempoDropoutNever == FALSE
TempoDropout == since # -1 /\ filtered > 0 /\ Elapsed > 4 * filtered
-----------------------------------------------------------------------------
(* SlaveOscillator *)

(* A fifth of the error, towards zero. *)
Correction(error) == IF error >= 0 THEN error \div 5 ELSE 0 - ((0 - error) \div 5)

(* sync_to_external: the stamp becomes a schedule for the thread's clock.  *)
Sync(ahead, interval) ==
  /\ ticking' = TRUE
  /\ due' = IF ticking THEN due + Correction(ahead - due) ELSE ahead + interval

(* resume, from a time that lies this far ahead of the thread's clock.     *)
Resume(ahead, interval) ==
  /\ ticking' = TRUE
  /\ due' = IF ticking THEN due ELSE ahead + interval

TickingAfterDropout == FALSE
-----------------------------------------------------------------------------
(* SlaveClock and the loop *)

(* feed_clock_byte: the oscillator starts with the first interval, before  *)
(* lock, and whether or not the transport runs.                            *)
TakeByte ==
  /\ thread = "inputs" /\ bytes # <<>>
  /\ FeedTick(Head(bytes))
  /\ IF filtered' > 0 THEN Sync(Ahead(Head(bytes)), filtered') ELSE UNCHANGED oscillatorVars
  /\ bytes' = Tail(bytes)
  /\ lead' = IF Locked /\ count' = 4 /\ is_running /\ lead > 0 - MaxLead THEN lead - 1
             ELSE IF Locked /\ count' = 4 THEN lead ELSE 0
  /\ free' = 0
  /\ UNCHANGED <<is_running, thread, wire, slept>>

(* feed_transport *)
Start ==
  /\ is_running' = TRUE
  /\ UNCHANGED oscillatorVars

Stop ==
  /\ is_running' = FALSE
  /\ ticking' = FALSE /\ due' = 0

Continue(ahead) ==
  /\ is_running' = TRUE
  /\ IF filtered > 0 THEN Resume(ahead, filtered) ELSE UNCHANGED oscillatorVars

(* A command of the world, at the time of the thread's clock.              *)
TakeCommand ==
  /\ thread = "inputs"
  /\ Start \/ Stop \/ Continue(0)
  /\ lead' = 0
  /\ UNCHANGED <<estimatorVars, thread, sourceVars, slept, free>>

(* A message of the source, at the time of its stamp: it came after the    *)
(* byte taken last, before the one to be taken next, and since the inputs  *)
(* were drained.                                                           *)
MessageAges ==
  {age \in 0 .. slept : /\ since # -1 => age <= since
                        /\ bytes # <<>> => age >= Head(bytes)}
TakeMessage ==
  /\ thread = "inputs"
  /\ \E age \in MessageAges : Start \/ Stop \/ Continue(Ahead(age))
  /\ lead' = 0 /\ free' = 0
  /\ UNCHANGED <<estimatorVars, thread, sourceVars, slept>>

TakeTransport == TakeCommand \/ TakeMessage

TimedOut == since # -1 /\ Elapsed > Timeout

(* check_dropout: of the estimator, or of the configured timeout.          *)
CheckDropout ==
  \/ /\ TempoDropout
     /\ count' = 0 /\ filtered' = 0 /\ since' = -1
     /\ ticking' = TickingAfterDropout /\ due' = 0
  \/ /\ ~TempoDropout
     /\ TimedOut
     /\ ticking' = FALSE /\ due' = 0
     /\ UNCHANGED estimatorVars
  \/ /\ ~TempoDropout
     /\ ~TimedOut
     /\ UNCHANGED <<estimatorVars, oscillatorVars>>

(* The queue is empty; the loop sleeps until the next tick, or briefly.    *)
InputsDrained ==
  /\ thread = "inputs" /\ bytes = <<>>
  /\ CheckDropout
  /\ thread' = IF is_running /\ count' >= 4 /\ ticking' THEN "sleep" ELSE "nap"
  /\ free' = IF thread' = "sleep" /\ due' > 0 THEN free + 1 ELSE free
  /\ slept' = 0
  /\ UNCHANGED <<is_running, sourceVars, lead>>

(* A tick goes to the world, and the schedule moves on from where it was.  *)
Pulse ==
  /\ thread = "sleep" /\ due <= 0
  /\ due' = due + filtered
  /\ lead' = IF lead < MaxLead THEN lead + 1 ELSE lead
  /\ thread' = "inputs"
  /\ UNCHANGED <<estimatorVars, ticking, is_running, sourceVars, slept, free>>

(* The shutdown flag or command. *)
Shutdown ==
  /\ thread = "inputs"
  /\ thread' = "ended"
  /\ UNCHANGED <<estimatorVars, oscillatorVars, is_running, sourceVars, historyVars>>
-----------------------------------------------------------------------------
(* The source and time *)

Room == Len(bytes) < InputCapacity

(* The midir callback stamps the byte; a full queue drops it.              *)
Arrive ==
  /\ wire = 0
  /\ wire' \in Gaps
  /\ bytes' = IF Room THEN Append(bytes, 0) ELSE bytes
  /\ UNCHANGED <<estimatorVars, oscillatorVars, is_running, thread, historyVars>>

TimePasses ==
  /\ wire > 0
  /\ \/ thread = "sleep" /\ due > 0 /\ UNCHANGED thread
     \/ thread = "nap" /\ thread' = "inputs"
  /\ wire' = wire - 1
  /\ bytes' = [i \in DOMAIN bytes |-> bytes[i] + 1]
  /\ since' = IF since = -1 THEN since ELSE since + 1
  /\ due' = IF ticking /\ due > 0 - MaxLag THEN due - 1 ELSE due
  /\ slept' = IF slept < MaxAge THEN slept + 1 ELSE slept
  /\ UNCHANGED <<count, filtered, ticking, is_running, lead, free>>

LoopStep == TakeByte \/ InputsDrained \/ Pulse
Next == LoopStep \/ TakeTransport \/ Shutdown \/ Arrive \/ TimePasses

Spec == Init /\ [][Next]_vars

(* The loop does not rest except to sleep, and clocks do not stand still.  *)
FairSpec == Spec /\ WF_vars(LoopStep) /\ WF_vars(Arrive) /\ WF_vars(TimePasses)
-----------------------------------------------------------------------------
(* Properties. *)

(* The types of the state. *)
TypeOK ==
  /\ count \in 0 .. 4
  /\ filtered \in Nat
  /\ since \in Int /\ since >= -1 /\ due \in Int
  /\ ticking \in BOOLEAN /\ is_running \in BOOLEAN
  /\ thread \in {"inputs", "sleep", "nap", "ended"}
  /\ bytes \in Seq(Nat) /\ Len(bytes) <= InputCapacity
  /\ wire \in 0 .. LongestGap
  /\ lead \in 0 - MaxLead .. MaxLead /\ slept \in 0 .. MaxAge /\ free \in Nat

(* A source that falls silent is followed for five ticks at most, apart    *)
(* from those that were overdue when it was last heard, and for the ticks  *)
(* that fit into the time by which its stamps run ahead: that much later   *)
(* does the thread, which judges them by its own clock, see a dropout.     *)
FreeRunIsBounded == Locked => free <= 5 \/ (free - 6) * filtered < Skew

(* A dropout is reported once the estimator is reset: "the estimator is    *)
(* reset and the oscillator is stopped".                                   *)
DropoutResets ==
  [][InputsDrained /\ TimedOut => count' = 0 /\ ~ticking']_vars

(* "Returns `true` if the time since the last tick exceeds 4x the estimated *)
(* interval."                                                              *)
DropoutIsPrompt ==
  [][InputsDrained /\ filtered > 0 /\ since > 4 * filtered => count' = 0]_vars

(* A stopped oscillator has no next tick: Continue schedules the first one *)
(* an interval away.                                                       *)
ContinueIsTimely ==
  [][TakeTransport /\ ~is_running /\ is_running' /\ ticking' => due' > 0 - filtered]_vars

(* The ticks keep pace with the source: at the filtered tempo, with phase  *)
(* corrections, they are never a whole beat ahead of it.                   *)
KeepsPace == lead < MaxLead

(* From some time on every byte comes after the same gap. *)
Settles(g) == <>[][wire = 0 => wire' = g]_wire

(* A source that settles on a tempo within the timeout is found again,     *)
(* whatever came before: ticks keep coming while the transport runs.       *)
LocksOn ==
  \A g \in Gaps : g <= Timeout =>
    (Settles(g) /\ <>[]is_running => []<>(thread = "sleep") \/ <>(thread = "ended"))
=============================================================================
