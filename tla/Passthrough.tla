---------------------------- MODULE Passthrough -----------------------------
(***************************************************************************)
(* The real-time thread in passthrough mode: an external clock comes in,   *)
(* is multiplied and divided, and goes out, with the transport messages of *)
(* the wire and of the world.  The world's side of the queues is that of   *)
(* RtMaster; here a loop turn takes any messages that may have arrived.    *)
(* Time passes only while the thread sleeps.                               *)
(***************************************************************************)
EXTENDS Integers

CONSTANTS
  Multiply, Divide,   \* ClockMode::Passthrough, after the clamp to one
  Timeout,            \* timeout_ns, in idle sleeps
  Skew,               \* how much earlier the callback's clock began than the thread's
  Ppqn,               \* clock pulses per beat: 24
  Beats,              \* the beat count is kept modulo Beats: a bound
  Positions           \* 14-bit song positions, in sixteenths

PassthroughAssumption ==
  /\ Multiply \in Nat \ {0} /\ Divide \in Nat \ {0}
  /\ Timeout \in Nat /\ Skew \in Nat
  /\ Ppqn \in Nat \ {0} /\ Ppqn % 4 = 0 /\ Beats \in Nat \ {0}
  /\ Positions \subseteq 0 .. 16383
ASSUME PassthroughAssumption

VARIABLES
  thread,        \* where the loop is: commands, inputs, emit, check, nap, ended
  is_running,    \* PassthroughClock::is_running
  input_count,   \* its input_count, modulo Divide
  output_subdivision, output_beat,   \* its output position
  age,           \* age of the byte of last_tick_ns, up to LongestAge; -1 when there is none
  owed,          \* output ticks of the current clock byte still to come
  any_tick,      \* has this turn sent a tick?
  sent,          \* history: ticks sent since Start, less Multiply per Divide bytes
  silence,       \* history: time since a clock byte came in, up to LongestAge
  reported,      \* history: a dropout was reported since the last clock byte
  follower       \* history: the position of a device that follows the wire

positionVars == <<output_subdivision, output_beat, follower>>
countVars == <<input_count, owed, sent>>
watchVars == <<age, silence, reported>>
vars == <<thread, is_running, any_tick, positionVars, countVars, watchVars>>

Frames == Ppqn * Beats
LongestAge == Timeout + Skew + 1
OutputFrame == output_beat * Ppqn + output_subdivision

Init ==
  /\ thread = "commands" /\ is_running = TRUE /\ any_tick = FALSE
  /\ input_count = 0 /\ owed = 0 /\ sent = 0
  /\ output_subdivision = 0 /\ output_beat = 0 /\ follower = 0
  /\ age = -1 /\ silence = 0 /\ reported = FALSE
-----------------------------------------------------------------------------
(* PassthroughClock *)

(* The ticks that n bytes since Start are worth. *)
TotalTicks(n) == (n * Multiply) \div Divide

\* Mutant: the ticks of a byte are counted on their own.
OwedPerByte(n) == Multiply \div Divide
(* feed_clock: what the n-th byte adds to the ticks of all bytes so far.   *)
OwedBy(n) == TotalTicks(n) - TotalTicks(n - 1)

(* After Divide bytes and Multiply ticks the ratio starts over.            *)
FeedClock ==
  /\ age' = 0
  /\ owed' = OwedBy(input_count + 1)
  /\ IF input_count + 1 = Divide
     THEN input_count' = 0 /\ sent' = sent - Multiply
     ELSE input_count' = input_count + 1 /\ UNCHANGED sent

\* Mutant: Start keeps the count of the bytes.
CountAfterStartKept == input_count
CountAfterStart == 0
Reset ==
  /\ input_count' = CountAfterStart
  /\ sent' = 0
  /\ output_subdivision' = 0 /\ output_beat' = 0

\* Mutant: a song position is taken as a number of beats.
PositionInBeats(p) == <<p % Beats, 0>>
PositionAt(p) == <<(p \div 4) % Beats, (p % 4) * (Ppqn \div 4)>>
SetPosition(p) ==
  /\ output_beat' = PositionAt(p)[1]
  /\ output_subdivision' = PositionAt(p)[2]

(* now_ns - last: the stamp is of the callback's clock, now of the thread's. *)
CheckDropout == age - Skew > Timeout
-----------------------------------------------------------------------------
(* Transport and position messages: of the world or of the wire, they do   *)
(* the same to the clock and go on to the output ports.                    *)

Transport(what) ==
  /\ is_running' = (what # "Stop")
  /\ IF what = "Start" THEN Reset /\ follower' = 0
                       ELSE UNCHANGED <<positionVars, input_count, sent>>
  /\ UNCHANGED <<thread, any_tick, owed, watchVars>>

(* On the wire a position is two data bytes of seven bits. *)
SongPosition(p) ==
  /\ SetPosition(p)
  /\ follower' = ((p \div 4) % Beats) * Ppqn + (p % 4) * (Ppqn \div 4)
  /\ UNCHANGED <<thread, is_running, any_tick, countVars, watchVars>>

(* Messages of the world and of the wire, clock bytes apart.               *)
TakeMessage ==
  /\ thread \in {"commands", "inputs"}
  /\ \/ \E what \in {"Start", "Stop", "Continue"} : Transport(what)
     \/ \E p \in Positions : SongPosition(p)

(* The shutdown flag and the Shutdown command end the loop before any input *)
(* is looked at.                                                            *)
Shutdown ==
  /\ thread = "commands"
  /\ thread' = "ended"
  /\ UNCHANGED <<is_running, any_tick, positionVars, countVars, watchVars>>

CommandsDrained ==
  /\ thread = "commands"
  /\ thread' = "inputs" /\ any_tick' = FALSE
  /\ UNCHANGED <<is_running, positionVars, countVars, watchVars>>

(* A stopped clock does not even look at the byte.                         *)
TakeClock ==
  /\ thread = "inputs"
  /\ silence' = 0 /\ reported' = FALSE
  /\ IF is_running
     THEN FeedClock /\ thread' = "emit"
     ELSE UNCHANGED <<thread, age, countVars>>
  /\ UNCHANGED <<is_running, any_tick, positionVars>>

(* advance_output *)
Advanced ==
  IF output_subdivision + 1 >= Ppqn THEN <<(output_beat + 1) % Beats, 0>>
                                    ELSE <<output_beat, output_subdivision + 1>>

Emit ==
  /\ thread = "emit" /\ owed > 0
  /\ owed' = owed - 1 /\ sent' = sent + 1
  /\ follower' = (follower + 1) % Frames
  /\ output_beat' = Advanced[1] /\ output_subdivision' = Advanced[2]
  /\ any_tick' = TRUE
  /\ UNCHANGED <<thread, is_running, input_count, watchVars>>

Emitted ==
  /\ thread = "emit" /\ owed = 0
  /\ thread' = "inputs"
  /\ UNCHANGED <<is_running, any_tick, positionVars, countVars, watchVars>>

InputsDrained ==
  /\ thread = "inputs"
  /\ thread' = "check"
  /\ UNCHANGED <<is_running, any_tick, positionVars, countVars, watchVars>>

Check ==
  /\ thread = "check"
  /\ reported' = (reported \/ CheckDropout)
  /\ thread' = IF any_tick THEN "commands" ELSE "nap"
  /\ UNCHANGED <<is_running, any_tick, positionVars, countVars, age, silence>>

Older(t) == IF t = LongestAge THEN t ELSE t + 1
Nap ==
  /\ thread = "nap"
  /\ thread' = "commands"
  /\ age' = IF age = -1 THEN age ELSE Older(age)
  /\ silence' = Older(silence)
  /\ UNCHANGED <<is_running, any_tick, positionVars, countVars, reported>>

Next ==
  \/ TakeMessage \/ Shutdown \/ CommandsDrained \/ TakeClock \/ Emit \/ Emitted
  \/ InputsDrained \/ Check \/ Nap

Spec == Init /\ [][Next]_vars
-----------------------------------------------------------------------------
(* Properties. *)

(* The types of the state. *)
TypeOK ==
  /\ thread \in {"commands", "inputs", "emit", "check", "nap", "ended"}
  /\ is_running \in BOOLEAN /\ any_tick \in BOOLEAN /\ reported \in BOOLEAN
  /\ input_count \in 0 .. Divide - 1
  /\ owed \in Nat /\ sent \in Int
  /\ output_subdivision \in 0 .. Ppqn - 1 /\ output_beat \in 0 .. Beats - 1
  /\ age \in -1 .. LongestAge /\ silence \in 0 .. LongestAge
  /\ follower \in 0 .. Frames - 1

(* After n clock bytes since Start exactly n * multiply / divide ticks,    *)
(* rounded down, have gone out: no tick is lost or doubled by a Stop, a    *)
(* Continue or a song position, and none is left over by a Start.          *)
RatioKept ==
  /\ sent + owed = TotalTicks(input_count)
  /\ thread # "emit" => owed = 0

(* A device that counts the ticks on the wire and obeys the messages there *)
(* is where the world is told the clock is.                                *)
FollowersInStep == follower = OutputFrame

(* A dropout is reported only when no clock byte came for the timeout.     *)
DropoutIsReal == [][thread = "check" /\ CheckDropout /\ thread' # "check" => silence > Timeout]_vars

(* One silence is reported once: a dropout event. *)
OneReportPerSilence == [][thread = "check" /\ CheckDropout /\ thread' # "check" => ~reported]_vars
=============================================================================
