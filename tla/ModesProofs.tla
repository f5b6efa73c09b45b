----------------------------- MODULE ModesProofs ----------------------------
(***************************************************************************)
(* What holds in any mode of the real-time thread.  Passthrough: for every *)
(* ratio, timeout and pulse rate the output is exactly the input times     *)
(* Multiply / Divide, and devices on the wire are where the clock is.      *)
(* Slave: however the clock bytes come, and by however much their stamps   *)
(* are ahead, only so many ticks pass without one.  Messages: for every number of ports, every capacity of the queues *)
(* and every channel message, none overtakes another, is doubled or        *)
(* disappears, and what comes out of an output port means to a receiver    *)
(* what was played.                                                        *)
(***************************************************************************)
EXTENDS MCModes, SequenceTheorems, TLAPS

-----------------------------------------------------------------------------
(* Passthrough. *)

(* Ticks still owed are owed by the byte in hand, and the count of bytes   *)
(* stays below the divisor.                                                *)
RatioInv ==
  /\ thread \in {"commands", "inputs", "emit", "check", "nap", "ended"}
  /\ input_count \in 0 .. Divide - 1
  /\ owed \in Nat /\ sent \in Int
  /\ RatioKept

(* Multiply and divide are clamped to at least one. *)
LEMMA RatioTypes == Multiply \in Nat \ {0} /\ Divide \in Nat \ {0}
  BY PassthroughAssumption DEF PassthroughAssumption

(* The integer arithmetic of feed_clock: a whole round divides exactly.    *)
LEMMA WholeRound == TotalTicks(0) = 0 /\ TotalTicks(Divide) = Multiply
  <1>1. ASSUME NEW M \in Nat \ {0}, NEW D \in Nat \ {0}
        PROVE  (0 * M) \div D = 0 /\ (D * M) \div D = M
    OBVIOUS
  <1> QED
    BY <1>1, RatioTypes DEF TotalTicks

(* More bytes never make fewer ticks.                                      *)
LEMMA TotalGrows ==
  ASSUME NEW n \in Nat
  PROVE  /\ TotalTicks(n) \in Nat /\ TotalTicks(n + 1) \in Nat
         /\ TotalTicks(n) <= TotalTicks(n + 1)
  <1>1. ASSUME NEW M \in Nat \ {0}, NEW D \in Nat \ {0}
        PROVE  /\ (n * M) \div D \in Nat /\ ((n + 1) * M) \div D \in Nat
               /\ (n * M) \div D <= ((n + 1) * M) \div D
    OBVIOUS
  <1> QED
    BY <1>1, RatioTypes DEF TotalTicks

(* The first byte after a Start finds an empty account.                    *)
LEMMA RatioInit == Init => RatioInv
  <1> SUFFICES ASSUME Init PROVE RatioInv
    OBVIOUS
  <1> QED
    BY WholeRound, RatioTypes DEF Init, RatioInv, RatioKept

(* A clock byte owes what brings the running total up to date; Divide      *)
(* bytes are a whole round.                                                *)
LEMMA ClockKeepsRatio == RatioInv /\ TakeClock => RatioInv'
  <1> SUFFICES ASSUME RatioInv, TakeClock PROVE RatioInv'
    OBVIOUS
  <1>1. input_count \in 0 .. Divide - 1 /\ sent \in Int /\ owed = 0 /\ sent = TotalTicks(input_count)
    BY DEF RatioInv, RatioKept, TakeClock
  <1>2. CASE ~is_running
    BY <1>2 DEF RatioInv, RatioKept, TakeClock, countVars
  <1>3. CASE is_running
    <2>1. /\ TotalTicks(input_count) \in Nat /\ TotalTicks(input_count + 1) \in Nat
          /\ TotalTicks(input_count) <= TotalTicks(input_count + 1)
      BY <1>1, TotalGrows
    <2>2. FeedClock /\ thread' = "emit"
      BY <1>3 DEF TakeClock
    <2>3. owed' = TotalTicks(input_count + 1) - TotalTicks(input_count)
      BY <1>1, <2>2 DEF FeedClock, OwedBy
    <2>4. CASE input_count + 1 = Divide
      <3>1. TotalTicks(input_count + 1) = Multiply /\ TotalTicks(0) = 0
        BY <2>4, WholeRound
      <3>2. input_count' = 0 /\ sent' = sent - Multiply
        BY <2>2, <2>4 DEF FeedClock
      <3>3. sent' + owed' = TotalTicks(input_count') /\ owed' \in Nat /\ sent' \in Int
        BY <1>1, <2>1, <2>3, <3>1, <3>2, RatioTypes
      <3> QED
        BY <2>2, <3>2, <3>3, RatioTypes DEF RatioInv, RatioKept
    <2>5. CASE input_count + 1 # Divide
      <3>1. input_count' = input_count + 1 /\ sent' = sent
        BY <2>2, <2>5 DEF FeedClock
      <3>2. input_count' \in 0 .. Divide - 1
        BY <1>1, <2>5, <3>1, RatioTypes, SMTT(30)
      <3>3. sent' + owed' = TotalTicks(input_count') /\ owed' \in Nat /\ sent' \in Int
        BY <1>1, <2>1, <2>3, <3>1
      <3> QED
        BY <2>2, <3>2, <3>3 DEF RatioInv, RatioKept
    <2> QED
      BY <2>4, <2>5
  <1> QED
    BY <1>2, <1>3

(* Every other step sends a tick that was owed, starts over, or leaves the *)
(* account alone.                                                          *)
LEMMA StepKeepsRatio == RatioInv /\ [Next]_vars => RatioInv'
  <1> SUFFICES ASSUME RatioInv, [Next]_vars PROVE RatioInv'
    OBVIOUS
  <1> USE DEF RatioInv, RatioKept
  <1>1. CASE TakeClock
    BY <1>1, ClockKeepsRatio
  <1>2. CASE TakeMessage
    <2>1. CASE \E what \in {"Start", "Stop", "Continue"} : Transport(what)
      <3>1. PICK what \in {"Start", "Stop", "Continue"} : Transport(what)
        BY <2>1
      <3>2. thread' = thread /\ owed' = owed /\ thread # "emit"
        BY <1>2, <3>1 DEF TakeMessage, Transport
      <3>3. CASE what = "Start"
        <4>1. input_count' = 0 /\ sent' = 0 /\ owed = 0
          BY <3>1, <3>2, <3>3 DEF Transport, Reset, CountAfterStart
        <4> QED
          BY <3>2, <4>1, WholeRound, RatioTypes
      <3>4. CASE what # "Start"
        BY <3>1, <3>2, <3>4 DEF Transport
      <3> QED
        BY <3>3, <3>4
    <2>2. CASE \E p \in Positions : SongPosition(p)
      BY <2>2 DEF SongPosition, countVars
    <2> QED
      BY <1>2, <2>1, <2>2 DEF TakeMessage
  <1>3. CASE Emit
    <2>1. owed' = owed - 1 /\ sent' = sent + 1 /\ owed > 0 /\ UNCHANGED <<thread, input_count>>
      BY <1>3 DEF Emit
    <2>2. owed' \in Nat /\ sent' \in Int /\ sent' + owed' = sent + owed
      BY <2>1
    <2> QED
      BY <2>1, <2>2, <1>3 DEF Emit
  <1>4. CASE Shutdown \/ CommandsDrained \/ Emitted \/ InputsDrained
    BY <1>4 DEF Shutdown, CommandsDrained, Emitted, InputsDrained, countVars
  <1>5. CASE Check \/ Nap
    BY <1>5 DEF Check, Nap, countVars
  <1>6. CASE UNCHANGED vars
    BY <1>6 DEF vars, countVars
  <1> QED
    BY <1>1, <1>2, <1>3, <1>4, <1>5, <1>6 DEF Next

(* Whatever the ratio and however often the world or the wire starts,      *)
(* stops, continues or moves the song position: after n bytes since Start  *)
(* exactly n * multiply / divide ticks, rounded down, have gone out.       *)
THEOREM RatioIsKept == Spec => []RatioKept
  <1>1. RatioInv => RatioKept
    BY DEF RatioInv
  <1> QED
    BY <1>1, RatioInit, StepKeepsRatio, PTL DEF Spec

(* The position of a clock, as one number, moves on by one.                *)
LEMMA FrameBounds ==
  ASSUME NEW b \in 0 .. Beats - 1
  PROVE  /\ b * Ppqn \in Nat /\ b * Ppqn + Ppqn <= Frames
         /\ Frames \in Nat \ {0}
         /\ b = Beats - 1 => b * Ppqn + Ppqn = Frames
         /\ (b + 1) * Ppqn = b * Ppqn + Ppqn
  <1>1. Ppqn \in Nat \ {0} /\ Beats \in Nat \ {0}
    BY PassthroughAssumption DEF PassthroughAssumption
  <1>2. ASSUME NEW P \in Nat \ {0}, NEW B \in Nat \ {0}, NEW x \in 0 .. B - 1
        PROVE  /\ x * P \in Nat /\ x * P + P <= P * B /\ P * B \in Nat /\ P * B > 0
               /\ x = B - 1 => x * P + P = P * B
               /\ (x + 1) * P = x * P + P
    <2>1. (x + 1) * P = x * P + P /\ x * P \in Nat /\ P * B \in Nat
      BY SMTT(30)
    <2>2. PICK d \in Nat : B = x + 1 + d
      <3>1. B - (x + 1) \in Nat /\ B = x + 1 + (B - (x + 1))
        OBVIOUS
      <3> QED
        BY <3>1
    <2>3. P * B = (x + 1) * P + P * d /\ P * d \in Nat
      BY <2>2, SMTT(30)
    <2>4. x = B - 1 => P * B = (x + 1) * P
      BY SMTT(30)
    <2>5. P * B > 0
      BY SMTT(30)
    <2> QED
      BY <2>1, <2>3, <2>4, <2>5
  <1> QED
    BY <1>1, <1>2 DEF Frames

LEMMA Remainders ==
  ASSUME NEW n \in Nat \ {0}
  PROVE  n % n = 0 /\ \A k \in 0 .. n - 1 : k % n = k
  OBVIOUS
LEMMA RemainderRange ==
  ASSUME NEW n \in Nat \ {0}, NEW k \in Nat
  PROVE  k % n \in 0 .. n - 1
  OBVIOUS

(* Where the output stands, and the follower with it.                      *)
PlaceInv ==
  /\ output_beat \in 0 .. Beats - 1 /\ output_subdivision \in 0 .. Ppqn - 1
  /\ FollowersInStep

(* advance_output carries into the beat where the follower wraps.          *)
LEMMA EmitKeepsPlace == PlaceInv /\ Emit => PlaceInv'
  <1> SUFFICES ASSUME PlaceInv, Emit PROVE PlaceInv'
    OBVIOUS
  <1> DEFINE x == output_beat * Ppqn
  <1>1. Ppqn \in Nat \ {0} /\ Beats \in Nat \ {0}
    BY PassthroughAssumption DEF PassthroughAssumption
  <1>2. /\ output_beat \in 0 .. Beats - 1 /\ output_subdivision \in 0 .. Ppqn - 1
        /\ follower = x + output_subdivision
    BY DEF PlaceInv, FollowersInStep, OutputFrame
  <1>3. /\ x \in Nat /\ x + Ppqn <= Frames /\ Frames \in Nat \ {0}
        /\ output_beat = Beats - 1 => x + Ppqn = Frames
        /\ (output_beat + 1) * Ppqn = x + Ppqn
    BY <1>2, FrameBounds
  <1>4. /\ follower' = (follower + 1) % Frames
        /\ output_beat' = Advanced[1] /\ output_subdivision' = Advanced[2]
    BY DEF Emit
  <1>5. CASE output_subdivision + 1 < Ppqn
    <2>1. output_beat' = output_beat /\ output_subdivision' = output_subdivision + 1
      BY <1>1, <1>2, <1>4, <1>5 DEF Advanced
    <2> HIDE DEF x
    <2>2. follower + 1 \in 0 .. Frames - 1
      BY <1>1, <1>2, <1>3, <1>5
    <2>3. (follower + 1) % Frames = follower + 1
      BY <1>3, <2>2, Remainders
    <2>4. follower' = x + (output_subdivision + 1)
      BY <1>1, <1>2, <1>3, <1>4, <2>3
    <2> QED
      BY <1>1, <1>2, <1>5, <2>1, <2>4 DEF PlaceInv, FollowersInStep, OutputFrame, x
  <1>6. CASE output_subdivision + 1 = Ppqn /\ output_beat + 1 < Beats
    <2>1. (output_beat + 1) % Beats = output_beat + 1
      BY <1>1, <1>2, <1>6, Remainders
    <2>2. output_beat' = output_beat + 1 /\ output_subdivision' = 0
      BY <1>1, <1>2, <1>4, <1>6, <2>1 DEF Advanced
    <2>3. (output_beat + 1) * Ppqn + Ppqn <= Frames
      <3>1. output_beat + 1 \in 0 .. Beats - 1
        BY <1>1, <1>2, <1>6
      <3> QED
        BY <3>1, FrameBounds
    <2> HIDE DEF x
    <2>4. follower + 1 = x + Ppqn /\ follower + 1 \in 0 .. Frames - 1
      BY <1>1, <1>2, <1>3, <1>6, <2>3
    <2>5. follower' = (output_beat + 1) * Ppqn
      BY <1>3, <1>4, <2>4, Remainders
    <2>6. (output_beat + 1) * Ppqn + 0 = (output_beat + 1) * Ppqn
      BY <1>1, <1>2
    <2> QED
      BY <1>1, <1>2, <1>6, <2>2, <2>5, <2>6 DEF PlaceInv, FollowersInStep, OutputFrame
  <1>7. CASE output_subdivision + 1 = Ppqn /\ output_beat + 1 = Beats
    <2>1. (output_beat + 1) % Beats = 0
      BY <1>1, <1>7, Remainders
    <2>2. output_beat' = 0 /\ output_subdivision' = 0
      BY <1>1, <1>2, <1>4, <1>7, <2>1 DEF Advanced
    <2> HIDE DEF x
    <2>3. follower + 1 = Frames
      BY <1>1, <1>2, <1>3, <1>7
    <2>4. follower' = 0
      BY <1>3, <1>4, <2>3, Remainders
    <2>5. 0 * Ppqn + 0 = 0
      BY <1>1
    <2> QED
      BY <1>1, <2>2, <2>4, <2>5 DEF PlaceInv, FollowersInStep, OutputFrame
  <1> QED
    BY <1>1, <1>2, <1>5, <1>6, <1>7

(* Song positions are fourteen bits; a beat is a number of whole quarters.  *)
LEMMA PositionTypes ==
  /\ Ppqn \in Nat \ {0} /\ Ppqn % 4 = 0 /\ Beats \in Nat \ {0}
  /\ Positions \subseteq Nat
  <1>1. Ppqn \in Nat \ {0} /\ Beats \in Nat \ {0}
    BY PassthroughAssumption DEF PassthroughAssumption
  <1>2. Ppqn % 4 = 0
    BY PassthroughAssumption DEF PassthroughAssumption
  <1>3. \A p \in Positions : p \in 0 .. 16383
    BY PassthroughAssumption, SMTT(30) DEF PassthroughAssumption
  <1>4. ASSUME NEW p \in Positions PROVE p \in Nat
    <2>1. p \in 0 .. 16383
      BY <1>3
    <2> QED
      BY <2>1
  <1> QED
    BY <1>1, <1>2, <1>4

(* A song position counts sixteenths, four to the beat.                    *)
LEMMA PositionKeepsPlace ==
  ASSUME NEW p \in Positions, SongPosition(p)
  PROVE  PlaceInv'
  <1>1. Ppqn \in Nat \ {0} /\ Ppqn % 4 = 0 /\ Beats \in Nat \ {0} /\ p \in Nat
    BY PositionTypes
  <1>2. p \div 4 \in Nat /\ p % 4 \in 0 .. 3
    BY <1>1
  <1>3. (p \div 4) % Beats \in 0 .. Beats - 1
    BY <1>1, <1>2, RemainderRange
  <1>4. (p % 4) * (Ppqn \div 4) \in 0 .. Ppqn - 1
    <2>1. ASSUME NEW P \in Nat \ {0}, P % 4 = 0, NEW k \in 0 .. 3
          PROVE  k * (P \div 4) \in 0 .. P - 1
      <3>1. PICK q \in Nat : P = 4 * q /\ q = P \div 4 /\ q > 0
        BY <2>1
      <3>2. k = 0 \/ k = 1 \/ k = 2 \/ k = 3
        OBVIOUS
      <3> QED
        BY <3>1, <3>2
    <2> QED
      BY <1>1, <1>2, <2>1
  <1>5. /\ output_beat' = (p \div 4) % Beats
        /\ output_subdivision' = (p % 4) * (Ppqn \div 4)
        /\ follower' = ((p \div 4) % Beats) * Ppqn + (p % 4) * (Ppqn \div 4)
    BY DEF SongPosition, SetPosition, PositionAt
  <1> QED
    BY <1>3, <1>4, <1>5 DEF PlaceInv, FollowersInStep, OutputFrame

(* Ticks, Start and song positions move the clock, the world's picture and *)
(* the devices on the wire alike; nothing else moves any of them.          *)
THEOREM FollowersKeepStep == Spec => []FollowersInStep
  <1>1. Ppqn \in Nat \ {0} /\ Beats \in Nat \ {0} /\ 0 * Ppqn + 0 = 0
    BY PassthroughAssumption DEF PassthroughAssumption
  <1>2. Init => PlaceInv
    BY <1>1 DEF Init, PlaceInv, FollowersInStep, OutputFrame
  <1>3. PlaceInv /\ [Next]_vars => PlaceInv'
    <2> SUFFICES ASSUME PlaceInv, [Next]_vars PROVE PlaceInv'
      OBVIOUS
    <2>1. CASE UNCHANGED positionVars
      BY <2>1 DEF positionVars, PlaceInv, FollowersInStep, OutputFrame
    <2>2. CASE TakeMessage
      <3>1. CASE \E what \in {"Start", "Stop", "Continue"} : Transport(what)
        <4>1. CASE output_beat' = 0 /\ output_subdivision' = 0 /\ follower' = 0
          BY <1>1, <4>1 DEF PlaceInv, FollowersInStep, OutputFrame
        <4>2. \/ UNCHANGED positionVars
              \/ output_beat' = 0 /\ output_subdivision' = 0 /\ follower' = 0
          BY <3>1 DEF Transport, Reset
        <4> QED
          BY <2>1, <4>1, <4>2
      <3>2. CASE \E p \in Positions : SongPosition(p)
        BY <3>2, PositionKeepsPlace
      <3> QED
        BY <2>2, <3>1, <3>2 DEF TakeMessage
    <2>3. CASE Emit
      BY <2>3, EmitKeepsPlace
    <2>4. Shutdown \/ CommandsDrained \/ TakeClock \/ Emitted \/ InputsDrained \/ Check \/ Nap
          \/ UNCHANGED vars => UNCHANGED positionVars
      BY DEF Shutdown, CommandsDrained, TakeClock, Emitted, InputsDrained, Check, Nap, vars
    <2> QED
      BY <2>1, <2>2, <2>3, <2>4 DEF Next
  <1>4. PlaceInv => FollowersInStep
    BY DEF PlaceInv
  <1> QED
    BY <1>2, <1>3, <1>4, PTL DEF Spec

-----------------------------------------------------------------------------
(* The slave clock. *)

(* Clock bytes come one after the other, so that every gap between two of  *)
(* them is at least one unit and a clock that has an interval has one that *)
(* is not zero.                                                            *)
SourceInv ==
  /\ slave_bytes \in Seq(Nat) /\ slave_wire \in Nat
  /\ \A i \in 1 .. Len(slave_bytes) :
       /\ slave_bytes[i] = 0 => slave_wire > 0
       /\ since # -1 => slave_bytes[i] < since
       /\ \A j \in 1 .. Len(slave_bytes) : i < j => slave_bytes[j] < slave_bytes[i]
  /\ since = 0 => slave_wire > 0

EstimatorInv ==
  /\ since \in Int /\ since >= -1 /\ filtered \in Nat /\ count \in Nat /\ due \in Int
  /\ since = -1 => count = 0 /\ filtered = 0
  /\ count >= 2 => filtered > 0

(* When the k-th wait without a byte begins, k - 1 intervals and at least  *)
(* one unit have passed since the last one.                                *)
Waited(k, interval) == (k - 1) * interval + 1
Bounded(k, interval) == k <= 5 \/ (k - 6) * interval < SlaveSkew
FreeInv ==
  /\ free \in Nat
  /\ free > 0 /\ filtered > 0 =>
       /\ count >= 4 /\ Bounded(free, filtered)
       /\ ticking => slave_running
       /\ slave_thread = "sleep" => ticking /\ due >= 0 /\ since + due >= Waited(free, filtered)
       /\ slave_thread \in {"inputs", "nap"} => since >= Waited(free, filtered)
       /\ slave_thread = "inputs" /\ ticking => due = filtered
       /\ slave_thread = "nap" => ~ticking

SlaveInv == SourceInv /\ EstimatorInv /\ FreeInv

(* What the configuration of a slave clock grants. *)
LEMMA SlaveTypes == Gaps \subseteq Nat \ {0} /\ MaxLag \in Nat /\ SlaveSkew \in Nat
  BY SlaveClockAssumption DEF S!SlaveAssumption

LEMMA SlaveStarts == S!Init => SlaveInv
  <1> SUFFICES ASSUME S!Init PROVE SlaveInv
    OBVIOUS
  <1>1. /\ slave_bytes = <<>> /\ slave_wire \in Gaps /\ since = -1
        /\ count = 0 /\ filtered = 0 /\ due = 0 /\ free = 0
    BY DEF S!Init
  <1>2. slave_wire \in Nat /\ slave_wire > 0
    BY <1>1, SlaveTypes
  <1> QED
    BY <1>1, <1>2 DEF SlaveInv, SourceInv, EstimatorInv, FreeInv

(* The bytes that stay in the queue came after the one that is taken.      *)
LEMMA TakenBytes ==
  ASSUME SourceInv, slave_bytes # <<>>,
         slave_bytes' = Tail(slave_bytes), since' = Head(slave_bytes), slave_wire' = slave_wire
  PROVE  SourceInv' /\ since' \in Nat /\ (since # -1 => since' < since)
  <1> DEFINE n == Len(slave_bytes)
  <1>1. /\ n \in Nat /\ n > 0 /\ Head(slave_bytes) = slave_bytes[1]
        /\ Tail(slave_bytes) \in Seq(Nat) /\ Len(Tail(slave_bytes)) = n - 1
        /\ \A i \in 1 .. n - 1 : Tail(slave_bytes)[i] = slave_bytes[i + 1]
    BY DEF SourceInv
  <1>2. \A i \in 1 .. n : slave_bytes[i] \in Nat
    BY DEF SourceInv
  <1>3. 1 \in 1 .. n /\ \A i \in 1 .. n - 1 : i + 1 \in 1 .. n /\ 1 < i + 1
    BY <1>1
  <1>4. \A i \in 1 .. n - 1 :
          /\ slave_bytes'[i] = slave_bytes[i + 1]
          /\ slave_bytes'[i] = 0 => slave_wire > 0
          /\ slave_bytes'[i] < since'
    BY <1>1, <1>2, <1>3 DEF SourceInv
  <1>5. ASSUME NEW i \in 1 .. n - 1, NEW j \in 1 .. n - 1, i < j
        PROVE  slave_bytes'[j] < slave_bytes'[i]
    <2>1. i + 1 \in 1 .. n /\ j + 1 \in 1 .. n /\ i + 1 < j + 1
      BY <1>1, <1>5
    <2> QED
      BY <1>4, <2>1 DEF SourceInv
  <1>6. since' \in Nat /\ (since' = 0 => slave_wire > 0) /\ (since # -1 => since' < since)
    BY <1>1, <1>2, <1>3 DEF SourceInv
  <1> HIDE DEF n
  <1> QED
    BY <1>1, <1>4, <1>5, <1>6 DEF SourceInv, n

(* An interval of the filter is never zero: an average of positive numbers *)
(* rounded down.                                                           *)
LEMMA SmoothedIsPositive ==
  ASSUME NEW gap \in Nat \ {0}, filtered \in Nat
  PROVE  S!Smoothed(gap) \in Nat \ {0}
  <1>1. CASE filtered = 0 \/ S!Jump(gap)
    BY <1>1 DEF S!Smoothed
  <1>2. CASE filtered > 0 /\ ~S!Jump(gap)
    <2>1. (2 * gap + 7 * filtered) \div 9 \in Nat \ {0}
      BY <1>2, SMTT(30)
    <2> QED
      BY <1>2, <2>1 DEF S!Smoothed
  <1> QED
    BY <1>1, <1>2

LEMMA TakeByteKeepsSlave == SlaveInv /\ S!TakeByte => SlaveInv'
  <1> SUFFICES ASSUME SlaveInv, S!TakeByte PROVE SlaveInv'
    OBVIOUS
  <1>1. SourceInv /\ EstimatorInv
    BY DEF SlaveInv
  <1>2. /\ slave_bytes # <<>> /\ slave_bytes' = Tail(slave_bytes)
        /\ since' = Head(slave_bytes) /\ slave_wire' = slave_wire /\ free' = 0
        /\ S!FeedTick(Head(slave_bytes))
        /\ IF filtered' > 0 THEN S!Sync(S!Ahead(Head(slave_bytes)), filtered')
                            ELSE UNCHANGED <<ticking, due>>
    BY DEF S!TakeByte, S!FeedTick, S!oscillatorVars
  <1>3. SourceInv' /\ since' \in Nat /\ (since # -1 => since' < since)
    BY <1>1, <1>2, TakenBytes
  <1>4. /\ filtered' \in Nat /\ count' \in Nat
        /\ count' >= 2 => filtered' > 0
    <2>1. CASE since = -1
      BY <1>1, <1>2, <2>1 DEF EstimatorInv, S!FeedTick, S!Locked
    <2>2. CASE since # -1
      <3>1. since - since' \in Nat \ {0}
        <4>1. since \in Int /\ since' \in Nat /\ since' < since
          BY <1>1, <1>3, <2>2 DEF EstimatorInv
        <4>2. \A a \in Int, b \in Nat : b < a => a - b \in Nat \ {0}
          OBVIOUS
        <4> QED
          BY <4>1, <4>2
      <3>2. S!Smoothed(since - since') \in Nat \ {0}
        BY <1>1, <3>1, SmoothedIsPositive DEF EstimatorInv
      <3>3. S!CountAfter(since - since') \in Nat
        BY <1>1 DEF EstimatorInv, S!CountAfter
      <3> QED
        BY <1>2, <2>2, <3>2, <3>3 DEF S!FeedTick
    <2> QED
      BY <2>1, <2>2
  <1>5. due' \in Int
    <2>1. \A e \in Int : S!Correction(e) \in Int
      BY SMTT(30) DEF S!Correction
    <2>2. CASE filtered' > 0
      <3>1. S!Ahead(since') \in Int /\ S!Ahead(since') - due \in Int
        BY <1>1, <1>3, SlaveTypes DEF EstimatorInv, S!Ahead
      <3>2. S!Correction(S!Ahead(since') - due) \in Int
        BY <2>1, <3>1
      <3> QED
        BY <1>1, <1>2, <1>3, <1>4, <2>2, <3>1, <3>2 DEF EstimatorInv, S!Sync
    <2>3. CASE ~(filtered' > 0)
      BY <1>1, <1>2, <2>3 DEF EstimatorInv
    <2> QED
      BY <2>2, <2>3
  <1>6. EstimatorInv'
    BY <1>3, <1>4, <1>5 DEF EstimatorInv
  <1>7. FreeInv'
    BY <1>2 DEF FreeInv
  <1> QED
    BY <1>3, <1>6, <1>7 DEF SlaveInv

(* The wait in hand, in numbers: k waits take k - 1 whole intervals.       *)
LEMMA WaitedIs ==
  ASSUME filtered \in Nat
  PROVE  /\ \A k \in Nat : Waited(k, filtered) \in Int
         /\ Waited(1, filtered) = 1
         /\ \A k \in Nat : Waited(k + 1, filtered) = Waited(k, filtered) + filtered
  <1>1. ASSUME NEW f \in Nat, NEW k \in Nat
        PROVE  (k - 1) * f \in Int /\ ((k + 1) - 1) * f = (k - 1) * f + f
    OBVIOUS
  <1>2. ASSUME NEW k \in Nat
        PROVE  Waited(k, filtered) \in Int /\ Waited(k + 1, filtered) = Waited(k, filtered) + filtered
    BY <1>1 DEF Waited
  <1>3. Waited(1, filtered) = 1
    BY DEF Waited
  <1> QED
    BY <1>2, <1>3

(* A stamp that is older than four intervals and the skew is a dropout, so *)
(* that whoever begins one more wait has a bounded number behind it.       *)
LEMMA WaitFits ==
  ASSUME NEW k \in Nat, filtered \in Nat \ {0}, since \in Nat,
         ~S!TempoDropout, since >= Waited(k, filtered)
  PROVE  Bounded(k + 1, filtered)
  <1>1. SlaveSkew \in Nat
    BY SlaveTypes
  <1>2. since - SlaveSkew <= 4 * filtered
    <2>1. ~(S!Elapsed > 4 * filtered)
      BY DEF S!TempoDropout
    <2> QED
      BY <1>1, <2>1 DEF S!Elapsed, S!Ahead
  <1>3. ASSUME NEW f \in Nat, NEW d \in Nat, NEW a \in Nat, a - d <= 4 * f, a >= (k - 1) * f + 1
        PROVE  ((k + 1) - 6) * f < d
    <2>1. (k - 1) * f \in Int /\ ((k + 1) - 6) * f = (k - 1) * f - 4 * f
      OBVIOUS
    <2> QED
      BY <1>3, <2>1
  <1>4. since >= (k - 1) * filtered + 1
    BY DEF Waited
  <1>5. ((k + 1) - 6) * filtered < SlaveSkew
    BY <1>1, <1>2, <1>3, <1>4
  <1> QED
    BY <1>5 DEF Bounded

(* A wait begins: the first one at any time, the next ones an interval     *)
(* after the last.                                                         *)
LEMMA InputsDrainedKeepsSlave == SlaveInv /\ S!InputsDrained => SlaveInv'
  <1> SUFFICES ASSUME SlaveInv, S!InputsDrained PROVE SlaveInv'
    OBVIOUS
  <1>1. SourceInv /\ EstimatorInv /\ FreeInv
    BY DEF SlaveInv
  <1>2. /\ slave_thread = "inputs" /\ slave_bytes = <<>> /\ S!CheckDropout
        /\ slave_bytes' = slave_bytes /\ slave_wire' = slave_wire
        /\ slave_running' = slave_running
        /\ slave_thread' = IF slave_running /\ count' >= 4 /\ ticking' THEN "sleep" ELSE "nap"
        /\ free' = IF slave_thread' = "sleep" /\ due' > 0 THEN free + 1 ELSE free
    BY DEF S!InputsDrained, S!sourceVars
  <1>3. CASE S!TempoDropout
    <2>1. count' = 0 /\ filtered' = 0 /\ since' = -1 /\ due' = 0
      BY <1>2, <1>3 DEF S!CheckDropout
    <2>2. slave_thread' = "nap" /\ free' = free
      BY <1>2, <2>1
    <2> QED
      BY <1>1, <1>2, <2>1, <2>2 DEF SlaveInv, SourceInv, EstimatorInv, FreeInv
  <1>4. CASE ~S!TempoDropout
    <2>1. count' = count /\ filtered' = filtered /\ since' = since
      BY <1>2, <1>4 DEF S!CheckDropout, S!estimatorVars
    <2>2. \/ ~ticking' /\ due' = 0
          \/ ticking' = ticking /\ due' = due
      BY <1>2, <1>4 DEF S!CheckDropout, S!oscillatorVars
    <2>3. SourceInv' /\ EstimatorInv'
      BY <1>1, <1>2, <2>1, <2>2 DEF SourceInv, EstimatorInv
    <2>4. FreeInv'
      <3>1. CASE slave_thread' = "nap"
        <4>1. free' = free /\ ~(slave_running /\ count >= 4 /\ ticking')
          BY <1>2, <2>1, <3>1
        <4>2. Waited(free', filtered') = Waited(free, filtered)
          BY <2>1, <4>1
        <4> QED
          BY <1>1, <1>2, <2>1, <2>2, <3>1, <4>1, <4>2 DEF FreeInv, Bounded
      <3>2. CASE slave_thread' = "sleep" /\ due' > 0
        <4>1. free' = free + 1 /\ slave_running' /\ count >= 4 /\ ticking' /\ ticking /\ due' = due
          BY <1>2, <2>1, <2>2, <3>2
        <4>2. filtered \in Nat /\ filtered > 0 /\ since \in Nat /\ due \in Int /\ free \in Nat
          BY <1>1, <4>1 DEF EstimatorInv, FreeInv
        <4>4. Waited(free', filtered') = Waited(free + 1, filtered)
          BY <2>1, <4>1
        <4>5. CASE free = 0
          <5>1. Waited(free + 1, filtered) = 1
            BY <4>2, <4>5, WaitedIs
          <5>2. Bounded(free', filtered')
            BY <4>1, <4>5 DEF Bounded
          <5> QED
            BY <1>2, <2>1, <3>2, <4>1, <4>2, <4>4, <4>5, <5>1, <5>2 DEF FreeInv
        <4>6. CASE free > 0
          <5>1. since >= Waited(free, filtered) /\ due = filtered
            BY <1>1, <1>2, <4>1, <4>2, <4>6 DEF FreeInv
          <5>2. Bounded(free + 1, filtered)
            BY <1>4, <4>2, <5>1, WaitFits
          <5>3. Waited(free + 1, filtered) = Waited(free, filtered) + filtered /\ Waited(free, filtered) \in Int
            BY <4>2, <4>6, WaitedIs
          <5>4. since + due >= Waited(free + 1, filtered)
            BY <4>2, <5>1, <5>3
          <5>5. free' \in Nat /\ Bounded(free', filtered')
            BY <2>1, <4>1, <4>2, <5>2
          <5>6. since' + due' >= Waited(free', filtered')
            BY <2>1, <4>1, <4>4, <5>4
          <5> QED
            BY <1>2, <2>1, <3>2, <4>1, <4>2, <5>5, <5>6 DEF FreeInv
        <4> QED
          BY <4>2, <4>5, <4>6
      <3>3. CASE slave_thread' = "sleep" /\ ~(due' > 0)
        <4>1. free' = free /\ slave_running' /\ count >= 4 /\ ticking' /\ ticking /\ due' = due
          BY <1>2, <2>1, <2>2, <3>3
        <4>2. filtered \in Nat /\ filtered > 0 /\ due \in Int /\ free \in Nat
          BY <1>1, <4>1 DEF EstimatorInv, FreeInv
        <4>3. free = 0
          BY <1>1, <1>2, <3>3, <4>1, <4>2 DEF FreeInv
        <4> QED
          BY <4>1, <4>3 DEF FreeInv
      <3> QED
        BY <1>2, <3>1, <3>2, <3>3
    <2> QED
      BY <2>3, <2>4 DEF SlaveInv
  <1> QED
    BY <1>3, <1>4

(* The wait is over when the tick is due, not before.                      *)
LEMMA PulseKeepsSlave == SlaveInv /\ S!Pulse => SlaveInv'
  <1> SUFFICES ASSUME SlaveInv, S!Pulse PROVE SlaveInv'
    OBVIOUS
  <1>1. SourceInv /\ EstimatorInv /\ FreeInv
    BY DEF SlaveInv
  <1>2. /\ slave_thread = "sleep" /\ due <= 0 /\ due' = due + filtered
        /\ slave_thread' = "inputs" /\ ticking' = ticking /\ slave_running' = slave_running
        /\ count' = count /\ filtered' = filtered /\ since' = since /\ free' = free
        /\ slave_bytes' = slave_bytes /\ slave_wire' = slave_wire
    BY DEF S!Pulse, S!estimatorVars, S!sourceVars
  <1>3. SourceInv' /\ EstimatorInv'
    BY <1>1, <1>2 DEF SourceInv, EstimatorInv
  <1>4. FreeInv'
    <2>1. CASE free > 0 /\ filtered > 0
      <3>1. filtered \in Nat /\ since \in Int /\ free \in Nat /\ due = 0
            /\ since + due >= Waited(free, filtered)
        BY <1>1, <1>2, <2>1 DEF EstimatorInv, FreeInv
      <3>2. since >= Waited(free, filtered) /\ due' = filtered
        BY <1>2, <3>1
      <3> QED
        BY <1>1, <1>2, <2>1, <3>2 DEF FreeInv
    <2>2. CASE ~(free > 0 /\ filtered > 0)
      BY <1>1, <1>2, <2>2 DEF FreeInv
    <2> QED
      BY <2>1, <2>2
  <1> QED
    BY <1>3, <1>4 DEF SlaveInv

(* A command stops the oscillator or leaves a whole interval to its next   *)
(* tick; with a message of the source the waits start over.                *)
LEMMA TransportKeepsSlave == SlaveInv /\ S!TakeTransport => SlaveInv'
  <1> SUFFICES ASSUME SlaveInv, S!TakeTransport PROVE SlaveInv'
    OBVIOUS
  <1>1. SourceInv /\ EstimatorInv /\ FreeInv
    BY DEF SlaveInv
  <1>2. /\ slave_thread = "inputs" /\ slave_thread' = slave_thread
        /\ count' = count /\ filtered' = filtered /\ since' = since
        /\ slave_bytes' = slave_bytes /\ slave_wire' = slave_wire
    BY DEF S!TakeTransport, S!TakeCommand, S!TakeMessage, S!estimatorVars, S!sourceVars
  <1>3. CASE S!TakeCommand
    <2>1. /\ free' = free
          /\ \/ ~ticking' /\ due' = 0
             \/ slave_running' /\ ticking' = ticking /\ due' = due
             \/ slave_running' /\ filtered > 0 /\ ticking' /\ due' = IF ticking THEN due ELSE 0 + filtered
      BY <1>3 DEF S!TakeCommand, S!Start, S!Stop, S!Continue, S!Resume, S!oscillatorVars
    <2>2. SourceInv' /\ EstimatorInv'
      BY <1>1, <1>2, <2>1 DEF SourceInv, EstimatorInv
    <2>3. FreeInv'
      BY <1>1, <1>2, <2>1 DEF FreeInv, EstimatorInv, Bounded
    <2> QED
      BY <2>2, <2>3 DEF SlaveInv
  <1>4. CASE S!TakeMessage
    <2>1. free' = 0 /\ \E a \in S!MessageAges : S!Start \/ S!Stop \/ S!Continue(S!Ahead(a))
      BY <1>4 DEF S!TakeMessage
    <2>2. PICK a \in S!MessageAges : S!Start \/ S!Stop \/ S!Continue(S!Ahead(a))
      BY <2>1
    <2>3. S!Ahead(a) + filtered \in Int
      BY <1>1, SlaveTypes DEF S!MessageAges, S!Ahead, EstimatorInv
    <2>4. due' \in Int
      BY <1>1, <2>2, <2>3 DEF S!Start, S!Stop, S!Continue, S!Resume, S!oscillatorVars, EstimatorInv
    <2> QED
      BY <1>1, <1>2, <2>1, <2>4 DEF SlaveInv, SourceInv, EstimatorInv, FreeInv
  <1> QED
    BY <1>3, <1>4 DEF S!TakeTransport

(* A new byte is younger than all others, and the next one is a gap away.  *)
LEMMA ArriveKeepsSlave == SlaveInv /\ S!Arrive => SlaveInv'
  <1> SUFFICES ASSUME SlaveInv, S!Arrive PROVE SlaveInv'
    OBVIOUS
  <1> DEFINE n == Len(slave_bytes)
  <1>1. SourceInv /\ EstimatorInv /\ FreeInv
    BY DEF SlaveInv
  <1>2. /\ slave_wire = 0 /\ slave_wire' \in Nat /\ slave_wire' > 0
        /\ slave_bytes' = Append(slave_bytes, 0) \/ slave_bytes' = slave_bytes
        /\ UNCHANGED <<count, filtered, since, ticking, due, slave_running, slave_thread, free>>
    BY SlaveTypes DEF S!Arrive, S!estimatorVars, S!oscillatorVars, S!historyVars
  <1>3. slave_bytes \in Seq(Nat) /\ n \in Nat /\ \A i \in 1 .. n : slave_bytes[i] \in Nat
    BY <1>1 DEF SourceInv
  <1>4. since # -1 => since > 0
    BY <1>1, <1>2 DEF SourceInv, EstimatorInv
  <1>5. SourceInv'
    <2>1. CASE slave_bytes' = slave_bytes
      BY <1>1, <1>2, <2>1 DEF SourceInv
    <2>2. CASE slave_bytes' = Append(slave_bytes, 0)
      <3>1. /\ slave_bytes' \in Seq(Nat) /\ Len(slave_bytes') = n + 1 /\ slave_bytes'[n + 1] = 0
            /\ \A i \in 1 .. n : slave_bytes'[i] = slave_bytes[i]
        BY <1>3, <2>2
      <3>2. \A i \in 1 .. n : slave_bytes[i] > 0
        BY <1>1, <1>2, <1>3 DEF SourceInv
      <3>3. \A i \in 1 .. n + 1 : i \in 1 .. n \/ i = n + 1
        BY <1>3
      <3>4. ASSUME NEW i \in 1 .. n + 1, NEW j \in 1 .. n + 1, i < j
            PROVE  slave_bytes'[j] < slave_bytes'[i]
        <4>1. i \in 1 .. n
          BY <1>3, <3>4
        <4>2. CASE j \in 1 .. n
          BY <1>1, <3>1, <3>4, <4>1, <4>2 DEF SourceInv
        <4>3. CASE j = n + 1
          BY <3>1, <3>2, <4>1, <4>3
        <4> QED
          BY <3>3, <4>2, <4>3
      <3>5. ASSUME NEW i \in 1 .. n + 1, since # -1 PROVE slave_bytes'[i] < since
        BY <1>1, <1>3, <1>4, <3>1, <3>3, <3>5 DEF SourceInv
      <3> HIDE DEF n
      <3> QED
        BY <1>2, <3>1, <3>4, <3>5 DEF SourceInv
    <2> QED
      BY <1>2, <2>1, <2>2
  <1>6. EstimatorInv' /\ FreeInv'
    BY <1>1, <1>2 DEF EstimatorInv, FreeInv
  <1> QED
    BY <1>5, <1>6 DEF SlaveInv

(* Time makes every byte and the last one older, and brings the next tick  *)
(* as much nearer.                                                         *)
LEMMA TimeKeepsSlave == SlaveInv /\ S!TimePasses => SlaveInv'
  <1> SUFFICES ASSUME SlaveInv, S!TimePasses PROVE SlaveInv'
    OBVIOUS
  <1> DEFINE n == Len(slave_bytes)
  <1>1. SourceInv /\ EstimatorInv /\ FreeInv
    BY DEF SlaveInv
  <1>2. /\ slave_wire > 0 /\ slave_wire' = slave_wire - 1
        /\ slave_bytes' = [i \in DOMAIN slave_bytes |-> slave_bytes[i] + 1]
        /\ since' = IF since = -1 THEN since ELSE since + 1
        /\ due' = IF ticking /\ due > 0 - MaxLag THEN due - 1 ELSE due
        /\ UNCHANGED <<count, filtered, ticking, slave_running, free>>
        /\ \/ slave_thread = "sleep" /\ due > 0 /\ slave_thread' = slave_thread
           \/ slave_thread = "nap" /\ slave_thread' = "inputs"
    BY DEF S!TimePasses, S!historyVars
  <1>3. slave_bytes \in Seq(Nat) /\ n \in Nat /\ \A i \in 1 .. n : slave_bytes[i] \in Nat
    BY <1>1 DEF SourceInv
  <1>4. /\ slave_bytes' \in Seq(Nat) /\ Len(slave_bytes') = n
        /\ \A i \in 1 .. n : slave_bytes'[i] = slave_bytes[i] + 1
    <2>1. DOMAIN slave_bytes = 1 .. n
      BY <1>3
    <2>2. slave_bytes' = [i \in 1 .. n |-> slave_bytes[i] + 1]
      BY <1>2, <2>1
    <2>3. \A i \in 1 .. n : slave_bytes[i] + 1 \in Nat
      BY <1>3
    <2>4. \A s : (\E m \in Nat : s \in [1 .. m -> Nat]) => s \in Seq(Nat)
      BY SeqDef
    <2>5. slave_bytes' \in [1 .. n -> Nat]
      BY <2>2, <2>3
    <2> HIDE DEF n
    <2>6. slave_bytes' \in Seq(Nat)
      BY <1>3, <2>4, <2>5
    <2>7. Len(slave_bytes') = n
      BY <1>3, <2>5, <2>6
    <2> QED
      BY <2>2, <2>6, <2>7
  <1>5. since' \in Int /\ since' >= -1 /\ since' # 0 /\ (since' # -1 <=> since # -1)
        /\ (since # -1 => since' = since + 1)
    BY <1>1, <1>2 DEF EstimatorInv
  <1>6. SourceInv'
    <2>1. ASSUME NEW i \in 1 .. n
          PROVE  slave_bytes'[i] # 0 /\ (since' # -1 => slave_bytes'[i] < since')
      <3>1. /\ slave_bytes'[i] = slave_bytes[i] + 1 /\ slave_bytes[i] \in Nat
            /\ since \in Int /\ (since # -1 => slave_bytes[i] < since)
        BY <1>1, <1>3, <1>4 DEF SourceInv, EstimatorInv
      <3> QED
        BY <1>5, <3>1
    <2>2. ASSUME NEW i \in 1 .. n, NEW j \in 1 .. n, i < j
          PROVE  slave_bytes'[j] < slave_bytes'[i]
      <3>1. slave_bytes[j] < slave_bytes[i] /\ slave_bytes[i] \in Nat /\ slave_bytes[j] \in Nat
        BY <1>1, <1>3, <2>2 DEF SourceInv
      <3> QED
        BY <1>4, <3>1
    <2>3. slave_wire' \in Nat
      BY <1>1, <1>2 DEF SourceInv
    <2> HIDE DEF n
    <2> QED
      BY <1>4, <1>5, <2>1, <2>2, <2>3 DEF SourceInv
  <1>7. EstimatorInv'
    BY <1>1, <1>2, <1>5 DEF EstimatorInv
  <1>8. FreeInv'
    <2>1. CASE free > 0 /\ filtered > 0
      <3>1. /\ filtered \in Nat /\ free \in Nat /\ since \in Nat /\ due \in Int
            /\ Waited(free, filtered) \in Int /\ since' = since + 1
        BY <1>1, <1>5, <2>1, WaitedIs DEF EstimatorInv, FreeInv
      <3>2. CASE slave_thread = "sleep" /\ due > 0 /\ slave_thread' = slave_thread
        <4>1. ticking /\ since + due >= Waited(free, filtered)
          BY <1>1, <2>1, <3>2 DEF FreeInv
        <4>2. due' = due - 1
          BY <1>2, <3>1, <3>2, <4>1, SlaveTypes
        <4>3. due' >= 0 /\ since' + due' >= Waited(free, filtered)
          BY <3>1, <3>2, <4>1, <4>2
        <4> QED
          BY <1>1, <1>2, <2>1, <3>2, <4>1, <4>3 DEF FreeInv
      <3>3. CASE slave_thread = "nap" /\ slave_thread' = "inputs"
        <4>1. ~ticking /\ since >= Waited(free, filtered)
          BY <1>1, <2>1, <3>3 DEF FreeInv
        <4>2. since' >= Waited(free, filtered)
          BY <3>1, <4>1
        <4> QED
          BY <1>1, <1>2, <2>1, <3>3, <4>1, <4>2 DEF FreeInv
      <3> QED
        BY <1>2, <3>2, <3>3
    <2>2. CASE ~(free > 0 /\ filtered > 0)
      BY <1>1, <1>2, <2>2 DEF FreeInv
    <2> QED
      BY <2>1, <2>2
  <1> QED
    BY <1>6, <1>7, <1>8 DEF SlaveInv

(* Whatever the gaps between the bytes, the timeout, the queue and the     *)
(* lead of the callback's clock: when the source falls silent the loop     *)
(* waits for five ticks at most, and those that fit into the lead, before  *)
(* it reports a dropout and stops sending ticks.                           *)
THEOREM FreeRunAlwaysBounded == ModesSpec => []FreeRunIsBounded
  <1>1. ModesInit => SlaveInv
    BY SlaveStarts DEF ModesInit
  <1>2. SlaveInv /\ [ModesNext]_modesVars => SlaveInv'
    <2> SUFFICES ASSUME SlaveInv, [ModesNext]_modesVars PROVE SlaveInv'
      OBVIOUS
    <2>1. CASE SlaveLoop
      BY <2>1, TakeByteKeepsSlave, InputsDrainedKeepsSlave, PulseKeepsSlave
         DEF SlaveLoop, S!LoopStep
    <2>2. CASE SlaveArrive
      BY <2>2, ArriveKeepsSlave DEF SlaveArrive
    <2>3. CASE SlaveTime
      BY <2>3, TimeKeepsSlave DEF SlaveTime
    <2>4. CASE SlaveEvent
      <3>1. CASE S!TakeTransport
        BY <3>1, TransportKeepsSlave
      <3>2. CASE S!Shutdown
        BY <3>2 DEF S!Shutdown, S!estimatorVars, S!oscillatorVars, S!sourceVars, S!historyVars,
                    SlaveInv, SourceInv, EstimatorInv, FreeInv
      <3> QED
        BY <2>4, <3>1, <3>2 DEF SlaveEvent
    <2>5. CASE UNCHANGED slaveVars
      BY <2>5 DEF slaveVars, SlaveInv, SourceInv, EstimatorInv, FreeInv
    <2>6. PassthroughStep \/ MidiStep \/ UNCHANGED modesVars => UNCHANGED slaveVars
      BY DEF PassthroughStep, MidiStep, modesVars
    <2> QED
      BY <2>1, <2>2, <2>3, <2>4, <2>5, <2>6 DEF ModesNext
  <1>3. SlaveInv => FreeRunIsBounded
    <2> SUFFICES ASSUME SlaveInv, count >= 4
                 PROVE  Bounded(free, filtered)
      BY DEF FreeRunIsBounded, S!FreeRunIsBounded, S!Locked, Bounded
    <2>1. filtered > 0 /\ free \in Nat
      BY DEF SlaveInv, EstimatorInv, FreeInv
    <2>2. CASE free = 0
      BY <2>2 DEF Bounded
    <2> QED
      BY <2>1, <2>2 DEF SlaveInv, FreeInv
  <1> QED
    BY <1>1, <1>2, <1>3, PTL DEF ModesSpec

-----------------------------------------------------------------------------
(* The codec. *)

(* The upper halves of status bytes tell the kinds of messages apart.      *)
LEMMA NibblesDiffer ==
  /\ \A kind \in VoiceKinds : Nibble[kind] \in 8 .. 14
  /\ \A k, l \in VoiceKinds : Nibble[k] = Nibble[l] => k = l
  BY DEF VoiceKinds, Nibble

(* A status byte of a channel message has a kind.                          *)
LEMMA KindIs ==
  ASSUME NEW status \in 128 .. 239
  PROVE  KindOf(status) \in VoiceKinds /\ Nibble[KindOf(status)] = status \div 16
  <1>1. status \div 16 \in 8 .. 14
    OBVIOUS
  <1>2. \E kind \in VoiceKinds : Nibble[kind] = status \div 16
    BY <1>1 DEF VoiceKinds, Nibble
  <1> QED
    BY <1>2 DEF KindOf

(* The status byte that is put together again has the kind and the channel *)
(* it was made of.                                                         *)
LEMMA StatusKeeps ==
  ASSUME NEW kind \in VoiceKinds, NEW channel \in 0 .. 15
  PROVE  LET status == 16 * Nibble[kind] + (channel % 16) IN
         /\ status \in 128 .. 239 /\ status % 16 = channel
         /\ KindOf(status) = kind
  <1> DEFINE status == 16 * Nibble[kind] + (channel % 16)
  <1>1. Nibble[kind] \in 8 .. 14
    BY NibblesDiffer
  <1>2. status \in 128 .. 239 /\ status % 16 = channel /\ status \div 16 = Nibble[kind]
    <2>1. \A n \in 8 .. 14 : LET s == 16 * n + (channel % 16) IN
            s \in 128 .. 239 /\ s % 16 = channel /\ s \div 16 = n
      OBVIOUS
    <2> QED
      BY <1>1, <2>1
  <1>3. KindOf(status) \in VoiceKinds /\ Nibble[KindOf(status)] = status \div 16
    BY <1>2, KindIs
  <1>4. KindOf(status) = kind
    BY <1>2, <1>3, NibblesDiffer
  <1> QED
    BY <1>2, <1>4

(* The masks of seven bits leave a data byte alone.                        *)
LEMMA ByteKeeps == \A n \in Byte : n % 128 = n
  BY DEF Byte

(* A bend survives its sign and its bias.                                  *)
LEMMA BendKeeps ==
  ASSUME NEW a \in Byte, NEW b \in Byte
  PROVE  /\ Biased(Bend(a, b)) % 128 = a
         /\ (Biased(Bend(a, b)) \div 128) % 128 = b
  <1>1. Biased(Bend(a, b)) = 128 * b + a
    BY DEF Biased, Bend, Byte
  <1>2. (128 * b + a) % 128 = a /\ (128 * b + a) \div 128 = b /\ b % 128 = b
    BY DEF Byte
  <1> QED
    BY <1>1, <1>2

(* A message that is converted to the world's form and back means what it  *)
(* meant: all of it is kept, but for a Note On of velocity zero.           *)
Recoded(bytes) == SentBytes(ToWire(ToMessage(FromBytes(bytes))))
LEMMA RoundTrip ==
  ASSUME NEW bytes \in Seq(0 .. 255), IsChannel(bytes), WellFormed(bytes)
  PROVE  Meaning(Recoded(bytes)) = Meaning(bytes)
  <1> DEFINE kind == KindOf(bytes[1])
             channel == bytes[1] % 16
             wire == FromBytes(bytes)
             message == ToMessage(wire)
             back == ToWire(message)
  <1>1. /\ bytes[1] \in 128 .. 239 /\ channel \in 0 .. 15
        /\ kind \in VoiceKinds /\ bytes[1] = 16 * Nibble[kind] + (channel % 16)
    <2>1. bytes[1] \in 128 .. 239 /\ channel \in 0 .. 15 /\ channel % 16 = channel
      <3>1. bytes[1] \in 128 .. 239
        BY DEF IsChannel
      <3>2. \A n \in 128 .. 239 : n % 16 \in 0 .. 15 /\ (n % 16) % 16 = n % 16
        OBVIOUS
      <3> QED
        BY <3>1, <3>2
    <2>2. kind \in VoiceKinds /\ Nibble[kind] = bytes[1] \div 16
      BY <2>1, KindIs
    <2>3. bytes[1] = 16 * (bytes[1] \div 16) + channel
      <3>1. \A n \in 128 .. 239 : n = 16 * (n \div 16) + (n % 16)
        OBVIOUS
      <3> QED
        BY <2>1, <3>1
    <2> QED
      BY <2>1, <2>2, <2>3
  <1>2. /\ Short(kind) => bytes = <<bytes[1], bytes[2]>>
        /\ ~Short(kind) => bytes = <<bytes[1], bytes[2], bytes[3]>> /\ bytes[3] \in Byte
        /\ bytes[2] \in Byte
        /\ Len(bytes) = IF Short(kind) THEN 2 ELSE 3
    BY DEF WellFormed
  <1>3. /\ wire.status = bytes[1] /\ wire.data1 = bytes[2]
        /\ wire.data2 = IF Short(kind) THEN 0 ELSE bytes[3]
    BY <1>2 DEF FromBytes
  <1>4. /\ message.kind = IF kind = "NoteOn" /\ wire.data2 = 0 THEN "NoteOff" ELSE kind
        /\ message.channel = channel
        /\ kind = "PitchBend" => message.value = <<Bend(bytes[2], bytes[3])>>
        /\ Short(kind) => message.value = <<bytes[2]>>
        /\ kind # "PitchBend" /\ ~Short(kind) => message.value = <<bytes[2], bytes[3]>>
    BY <1>3 DEF ToMessage, Short
  <1>5. message.kind \in VoiceKinds /\ (Short(message.kind) <=> Short(kind))
        /\ (message.kind = "PitchBend" <=> kind = "PitchBend")
    BY <1>1, <1>4 DEF VoiceKinds, Short
  <1>6. /\ back.status = 16 * Nibble[message.kind] + (message.channel % 16)
        /\ back.data1 = IF message.kind = "PitchBend" THEN Biased(message.value[1]) % 128
                        ELSE message.value[1] % 128
        /\ message.kind = "PitchBend" => back.data2 = (Biased(message.value[1]) \div 128) % 128
        /\ Short(message.kind) => back.data2 = 0
        /\ message.kind # "PitchBend" /\ ~Short(message.kind) => back.data2 = message.value[2] % 128
        /\ back.length = IF Short(message.kind) THEN 2 ELSE 3
    BY DEF ToWire, Short
  <1> HIDE DEF kind, channel, wire, message, back
  <1>7. /\ back.data1 = bytes[2]
        /\ ~Short(kind) => back.data2 = bytes[3]
    <2>1. CASE kind = "PitchBend"
      <3>1. bytes[2] \in Byte /\ bytes[3] \in Byte /\ message.value[1] = Bend(bytes[2], bytes[3])
        BY <2>1, <1>2, <1>4 DEF Short
      <3> QED
        BY <3>1, <2>1, <1>5, <1>6, BendKeeps
    <2>2. CASE Short(kind)
      <3>1. message.value[1] = bytes[2]
        BY <2>2, <1>4
      <3> QED
        BY <3>1, <2>2, <1>2, <1>5, <1>6, ByteKeeps DEF Short
    <2>3. CASE kind # "PitchBend" /\ ~Short(kind)
      <3>1. message.value[1] = bytes[2] /\ message.value[2] = bytes[3]
        BY <2>3, <1>4
      <3> QED
        BY <3>1, <2>3, <1>2, <1>5, <1>6, ByteKeeps
    <2> QED
      BY <2>1, <2>2, <2>3
  <1>8. /\ back.status = 16 * Nibble[message.kind] + (channel % 16)
        /\ back.status % 16 = channel
        /\ KindOf(back.status) = message.kind
        /\ Recoded(bytes) = IF Short(kind) THEN <<back.status, bytes[2]>>
                            ELSE <<back.status, bytes[2], bytes[3]>>
    <2>1. back.status = 16 * Nibble[message.kind] + (channel % 16)
      BY <1>4, <1>6
    <2>2. back.status % 16 = channel /\ KindOf(back.status) = message.kind
      <3>1. message.kind \in VoiceKinds /\ channel \in 0 .. 15
        BY <1>1, <1>5
      <3>2. LET status == 16 * Nibble[message.kind] + (channel % 16) IN
              status % 16 = channel /\ KindOf(status) = message.kind
        BY <3>1, StatusKeeps
      <3> QED
        BY <2>1, <3>2
    <2>3. Recoded(bytes) = SentBytes(back)
      BY DEF Recoded, back, message, wire
    <2> QED
      BY <2>1, <2>2, <2>3, <1>5, <1>6, <1>7 DEF SentBytes
  <1>9. CASE message.kind = kind
    <2>1. Recoded(bytes) = bytes
      BY <1>1, <1>2, <1>8, <1>9
    <2> QED
      BY <2>1
  <1>10. CASE message.kind # kind
    <2>1. kind = "NoteOn" /\ bytes[3] = 0 /\ message.kind = "NoteOff" /\ ~Short(kind)
      BY <1>3, <1>4, <1>10 DEF Short
    <2>2. Recoded(bytes) = <<back.status, bytes[2], 0>>
      BY <1>8, <2>1
    <2>3. Meaning(Recoded(bytes)) = <<"NoteOff", channel>> \o <<bytes[2]>>
      BY <1>8, <2>1, <2>2 DEF Meaning
    <2>4. Meaning(bytes) = <<"NoteOff", channel>> \o <<bytes[2]>>
      BY <2>1 DEF Meaning, kind, channel
    <2> QED
      BY <2>3, <2>4
  <1> QED
    BY <1>9, <1>10
-----------------------------------------------------------------------------
(* The path.  Whatever is on its way is what was played, recoded as far as *)
(* it has come.                                                            *)

(* The messages played so far, by port and number. *)
Tags == {tag \in InPorts \X (Nat \ {0}) : tag[2] \in DOMAIN played[tag[1]]}
Original(tag) == played[tag[1]][tag[2]]
ChannelTags == {tag \in Tags : IsChannel(Original(tag))}

Raws(p) ==
  {[port |-> tag[1], nth |-> tag[2], bytes |-> FirstThree(Original(tag))] :
     tag \in {t \in Tags : t[1] = p}}
Events ==
  {[type |-> "midi", port |-> tag[1], nth |-> tag[2], wire |-> FromBytes(Original(tag))] :
     tag \in ChannelTags}
  \cup {OtherEvent, Overflow}
Mails ==
  {[port |-> tag[1], nth |-> tag[2], message |-> ToMessage(FromBytes(Original(tag)))] :
     tag \in ChannelTags}
Commands ==
  {[port |-> tag[1], nth |-> tag[2], out |-> q,
    wire |-> ToWire(ToMessage(FromBytes(Original(tag))))] :
     tag \in ChannelTags, q \in Outputs}
Arrivals(q) ==
  {[port |-> tag[1], nth |-> tag[2], out |-> q, bytes |-> Recoded(Original(tag))] :
     tag \in ChannelTags}

Delivered == [InPorts -> Seq({bytes \in Seq(0 .. 255) : WellFormed(bytes)})]

PathInv ==
  /\ played \in Delivered
  /\ DOMAIN inputs = InPorts /\ \A p \in InPorts : inputs[p] \in Seq(Raws(p))
  /\ events \in Seq(Events)
  /\ mail \in Seq(Mails)
  /\ outbox \in Seq(Commands)
  /\ commands \in Seq(Commands)
  /\ DOMAIN arrived = Outputs /\ \A q \in Outputs : arrived[q] \in Seq(Arrivals(q))
  /\ cursor \in Nat

(* A channel message is not cut off: it has three bytes at most.           *)
LEMMA NothingCut ==
  ASSUME NEW bytes \in Seq(0 .. 255), WellFormed(bytes), IsChannel(bytes)
  PROVE  FirstThree(bytes) = bytes
  <1>1. Len(bytes) \in {2, 3}
    BY DEF WellFormed
  <1>2. (IF Len(bytes) < 3 THEN Len(bytes) ELSE 3) = Len(bytes)
    <2>1. \A k \in {2, 3} : (IF k < 3 THEN k ELSE 3) = k
      OBVIOUS
    <2> QED
      BY <1>1, <2>1
  <1>3. SubSeq(bytes, 1, Len(bytes)) = bytes
    BY SubSeqFull
  <1> QED
    BY <1>2, <1>3 DEF FirstThree

(* The first three bytes decide whether a message is one of a channel.     *)
LEMMA CutKeepsKind ==
  ASSUME NEW bytes \in Seq(0 .. 255)
  PROVE  IsChannel(FirstThree(bytes)) <=> IsChannel(bytes)
  <1>1. CASE bytes = <<>>
    BY <1>1 DEF FirstThree, IsChannel
  <1>2. CASE bytes # <<>>
    <2> DEFINE n == IF Len(bytes) < 3 THEN Len(bytes) ELSE 3
    <2>1. n \in 1 .. 3 /\ n \in 1 .. Len(bytes)
      <3>1. Len(bytes) \in Nat /\ Len(bytes) # 0
        BY <1>2
      <3>2. \A k \in Nat \ {0} : LET m == IF k < 3 THEN k ELSE 3 IN m \in 1 .. 3 /\ m \in 1 .. k
        OBVIOUS
      <3> QED
        BY <3>1, <3>2
    <2>2. FirstThree(bytes) = SubSeq(bytes, 1, n)
      BY DEF FirstThree
    <2> HIDE DEF n
    <2>3. FirstThree(bytes) # <<>> /\ FirstThree(bytes)[1] = bytes[1]
      BY <2>1, <2>2
    <2> QED
      BY <1>2, <2>3 DEF IsChannel
  <1> QED
    BY <1>1, <1>2

(* What arrived means what was played. *)
LEMMA ArrivedIsFaithful == PathInv => Faithful
  <1> SUFFICES ASSUME PathInv, NEW q \in Outputs, NEW i \in DOMAIN arrived[q]
               PROVE  LET item == arrived[q][i]
                          original == played[item.port][item.nth] IN
                      IsChannel(original) /\ Meaning(item.bytes) = Meaning(original)
    BY DEF Faithful
  <1>1. arrived[q] \in Seq(Arrivals(q))
    BY DEF PathInv
  <1>2. arrived[q][i] \in Arrivals(q)
    BY <1>1
  <1>3. PICK tag \in ChannelTags :
          arrived[q][i] = [port |-> tag[1], nth |-> tag[2], out |-> q,
                           bytes |-> Recoded(Original(tag))]
    BY <1>2 DEF Arrivals
  <1>4. /\ tag \in InPorts \X (Nat \ {0}) /\ tag[2] \in DOMAIN played[tag[1]]
        /\ IsChannel(Original(tag))
    BY DEF ChannelTags, Tags
  <1>5. Original(tag) \in Seq(0 .. 255) /\ WellFormed(Original(tag))
    <2>1. played[tag[1]] \in Seq({bytes \in Seq(0 .. 255) : WellFormed(bytes)})
      BY <1>4 DEF PathInv, Delivered
    <2> QED
      BY <2>1, <1>4 DEF Original
  <1>6. Meaning(Recoded(Original(tag))) = Meaning(Original(tag))
    BY <1>4, <1>5, RoundTrip
  <1> QED
    BY <1>3, <1>4, <1>6 DEF Original

(* What is on its way stays what it is when more is played.                *)
LEMMA TagsGrow ==
  ASSUME PathInv, NEW p \in InPorts, NEW bytes \in Seq(0 .. 255), WellFormed(bytes),
         played' = [played EXCEPT ![p] = Append(@, bytes)],
         NEW n, n = Len(played[p]) + 1
  PROVE  /\ played' \in Delivered
         /\ Tags \subseteq Tags' /\ \A tag \in Tags : Original(tag)' = Original(tag)
         /\ <<p, n>> \in Tags' /\ Original(<<p, n>>)' = bytes
  <1> DEFINE W == {b \in Seq(0 .. 255) : WellFormed(b)}
  <1>1. /\ played \in [InPorts -> Seq(W)] /\ bytes \in W
        /\ played'[p] = Append(played[p], bytes)
        /\ \A o \in InPorts : o # p => played'[o] = played[o]
    BY DEF PathInv, Delivered
  <1> HIDE DEF W
  <1>2. /\ Append(played[p], bytes) \in Seq(W)
        /\ DOMAIN Append(played[p], bytes) = 1 .. Len(played[p]) + 1
        /\ \A m \in DOMAIN played[p] : Append(played[p], bytes)[m] = played[p][m]
        /\ Append(played[p], bytes)[Len(played[p]) + 1] = bytes
        /\ Len(played[p]) \in Nat /\ DOMAIN played[p] = 1 .. Len(played[p])
    BY <1>1
  <1>3. played' \in Delivered
    BY <1>1, <1>2 DEF Delivered, W
  <1>4. ASSUME NEW tag \in Tags PROVE tag \in Tags' /\ Original(tag)' = Original(tag)
    <2>1. tag \in InPorts \X (Nat \ {0}) /\ tag[2] \in DOMAIN played[tag[1]]
      BY DEF Tags
    <2>2. tag[2] \in DOMAIN played'[tag[1]] /\ played'[tag[1]][tag[2]] = played[tag[1]][tag[2]]
      BY <2>1, <1>1, <1>2
    <2> QED
      BY <2>1, <2>2 DEF Tags, Original, InPorts
  <1>5. <<p, n>> \in Tags' /\ Original(<<p, n>>)' = bytes
    BY <1>1, <1>2 DEF Tags, Original, InPorts
  <1> QED
    BY <1>3, <1>4, <1>5

(* So do the sets that what is on its way is taken from.                   *)
LEMMA SetsGrow ==
  ASSUME Tags \subseteq Tags', \A tag \in Tags : Original(tag)' = Original(tag)
  PROVE  /\ \A p \in InPorts : Raws(p) \subseteq Raws(p)'
         /\ Events \subseteq Events' /\ Mails \subseteq Mails' /\ Commands \subseteq Commands'
         /\ \A q \in Outputs : Arrivals(q) \subseteq Arrivals(q)'
  <1>1. ChannelTags \subseteq ChannelTags'
    BY DEF ChannelTags
  <1>2. \A tag \in ChannelTags : Original(tag)' = Original(tag)
    BY DEF ChannelTags
  <1>3. \A p \in InPorts : Raws(p) \subseteq Raws(p)'
    BY DEF Raws
  <1>4. Events \subseteq Events'
    BY <1>1, <1>2 DEF Events, OtherEvent, Overflow
  <1>5. Mails \subseteq Mails'
    BY <1>1, <1>2 DEF Mails
  <1>6. Commands \subseteq Commands'
    BY <1>1, <1>2 DEF Commands
  <1>7. \A q \in Outputs : Arrivals(q) \subseteq Arrivals(q)'
    BY <1>1, <1>2 DEF Arrivals
  <1> QED
    BY <1>3, <1>4, <1>5, <1>6, <1>7

(* When nothing is played these sets are what they were.                   *)
LEMMA SetsStay ==
  ASSUME UNCHANGED played
  PROVE  /\ \A p \in InPorts : Raws(p)' = Raws(p)
         /\ Events' = Events /\ Mails' = Mails /\ Commands' = Commands
         /\ \A q \in Outputs : Arrivals(q)' = Arrivals(q)
  <1>1. Tags' = Tags /\ \A tag \in Tags : Original(tag)' = Original(tag)
    BY DEF Tags, Original
  <1>2. ChannelTags' = ChannelTags /\ \A tag \in ChannelTags : Original(tag)' = Original(tag)
    BY <1>1 DEF ChannelTags
  <1> QED
    BY <1>1, <1>2 DEF Raws, Events, Mails, Commands, Arrivals

(* The queues only pass on what they were given.                           *)
LEMMA Queues ==
  ASSUME NEW K, NEW q \in Seq(K)
  PROVE  /\ \A x \in K : Append(q, x) \in Seq(K)
         /\ q # <<>> => Tail(q) \in Seq(K) /\ Head(q) \in K
         /\ \A r \in Seq(K) : q \o r \in Seq(K)
         /\ \A T : K \subseteq T => q \in Seq(T)
  OBVIOUS

(* The event queue takes what is pushed, or nothing.                       *)
LEMMA Pushes ==
  ASSUME events \in Seq(Events), NEW event \in Events, PushEvent(event)
  PROVE  events' \in Seq(Events)
  BY Queues DEF PushEvent, Accept

(* The path begins empty. *)
LEMMA PathBegins == PathInit => PathInv
  <1> SUFFICES ASSUME PathInit PROVE PathInv
    OBVIOUS
  <1>1. \A K : <<>> \in Seq(K)
    OBVIOUS
  <1>2. played \in Delivered
    BY <1>1 DEF PathInit, Delivered
  <1> QED
    BY <1>1, <1>2 DEF PathInit, InitQueue, PathInv

(* What is played joins the others in its ring buffer, or is dropped.      *)
LEMMA PlayKeeps ==
  ASSUME PathInv, NEW p \in InPorts, NEW bytes \in Playable[p], Play(p, bytes)
  PROVE  PathInv'
  <1> DEFINE n == Len(played[p]) + 1
  <1>1. bytes \in Seq(0 .. 255) /\ WellFormed(bytes)
    BY PathAssumption DEF PathAssumption
  <1>2. played' = [played EXCEPT ![p] = Append(@, bytes)]
    BY DEF Play
  <1>3. PICK m : m = n
    OBVIOUS
  <1> HIDE DEF n
  <1>4. /\ played' \in Delivered
        /\ Tags \subseteq Tags' /\ \A tag \in Tags : Original(tag)' = Original(tag)
        /\ <<p, m>> \in Tags' /\ Original(<<p, m>>)' = bytes
    BY <1>1, <1>2, <1>3, TagsGrow DEF n
  <1>5. /\ \A o \in InPorts : Raws(o) \subseteq Raws(o)'
        /\ Events \subseteq Events' /\ Mails \subseteq Mails' /\ Commands \subseteq Commands'
        /\ \A q \in Outputs : Arrivals(q) \subseteq Arrivals(q)'
    BY <1>4, SetsGrow
  <1>6. Raw(p, bytes) \in Raws(p)'
    BY <1>3, <1>4 DEF Raw, Raws, n
  <1>7. DOMAIN inputs' = InPorts /\ \A o \in InPorts : inputs'[o] \in Seq(Raws(o)')
    <2>1. DOMAIN inputs = InPorts /\ \A o \in InPorts : inputs[o] \in Seq(Raws(o)')
      BY <1>5, Queues DEF PathInv
    <2>2. CASE UNCHANGED inputs
      BY <2>1, <2>2
    <2>3. CASE inputs' = [inputs EXCEPT ![p] = Append(@, Raw(p, bytes))]
      <3>1. Append(inputs[p], Raw(p, bytes)) \in Seq(Raws(p)')
        BY <2>1, <1>6, Queues
      <3> QED
        BY <2>1, <2>3, <3>1
    <2> QED
      BY <2>2, <2>3 DEF Play
  <1>8. events' \in Seq(Events') /\ mail' \in Seq(Mails') /\ outbox' \in Seq(Commands')
        /\ commands' \in Seq(Commands') /\ cursor' \in Nat
    <2>1. events' = events /\ mail' = mail /\ outbox' = outbox /\ commands' = commands
          /\ cursor' = cursor
      BY DEF Play, queueVars, worldVars, threadVars
    <2> QED
      BY <2>1, <1>5, Queues DEF PathInv
  <1>9. DOMAIN arrived' = Outputs /\ \A q \in Outputs : arrived'[q] \in Seq(Arrivals(q)')
    BY <1>5, Queues DEF PathInv, Play
  <1> QED
    BY <1>4, <1>7, <1>8, <1>9 DEF PathInv, InPorts

(* The thread takes a message from a ring buffer, to the world's queue.    *)
LEMMA TakeKeeps == ASSUME PathInv, TakeInput PROVE PathInv'
  <1> DEFINE raw == Head(inputs[cursor])
  <1>1. cursor \in InPorts /\ inputs[cursor] \in Seq(Raws(cursor)) /\ inputs[cursor] # <<>>
    <2>1. cursor \in Nat /\ Inputs \in Nat /\ cursor < Inputs
      BY PathAssumption DEF PathAssumption, PathInv, TakeInput
    <2>2. cursor \in InPorts
      BY <2>1 DEF InPorts
    <2> QED
      BY <2>2 DEF PathInv, TakeInput
  <1>2. raw \in Raws(cursor) /\ Tail(inputs[cursor]) \in Seq(Raws(cursor))
    BY <1>1, Queues
  <1>3. inputs' = [inputs EXCEPT ![cursor] = Tail(inputs[cursor])]
    BY DEF TakeInput, NextInput
  <1>4. ASSUME IsChannel(raw.bytes) PROVE InputEvent(raw) \in Events
    <2>1. PICK tag \in Tags :
            raw = [port |-> tag[1], nth |-> tag[2], bytes |-> FirstThree(Original(tag))]
      BY <1>2 DEF Raws
    <2>2. tag \in InPorts \X (Nat \ {0}) /\ tag[2] \in DOMAIN played[tag[1]]
      BY DEF Tags
    <2>3. Original(tag) \in Seq(0 .. 255) /\ WellFormed(Original(tag))
      <3>1. played[tag[1]] \in Seq({bytes \in Seq(0 .. 255) : WellFormed(bytes)})
        BY <2>2 DEF PathInv, Delivered
      <3> QED
        BY <3>1, <2>2 DEF Original
    <2>4. tag \in ChannelTags /\ raw.bytes = Original(tag)
      BY <1>4, <2>1, <2>3, CutKeepsKind, NothingCut DEF ChannelTags
    <2> QED
      BY <2>1, <2>4 DEF InputEvent, Events
  <1>5. events' \in Seq(Events)
    <2>1. OtherEvent \in Events /\ events \in Seq(Events)
      BY DEF Events, PathInv
    <2>2. CASE IsChannel(raw.bytes) /\ PushEvent(InputEvent(raw))
      BY <2>1, <2>2, <1>4, Pushes
    <2>3. CASE PushEvent(OtherEvent)
      BY <2>1, <2>3, Pushes
    <2>4. CASE UNCHANGED queueVars
      BY <2>1, <2>4 DEF queueVars
    <2> QED
      BY <2>2, <2>3, <2>4 DEF TakeInput, NextInput
  <1>6. UNCHANGED <<mail, outbox, commands, played, arrived, cursor>>
    BY DEF TakeInput, worldVars, portVars, threadVars
  <1> HIDE DEF raw
  <1>7. DOMAIN inputs' = InPorts /\ \A p \in InPorts : inputs'[p] \in Seq(Raws(p))
    BY <1>1, <1>2, <1>3 DEF PathInv
  <1> QED
    BY <1>5, <1>6, <1>7, SetsStay DEF PathInv, InPorts

(* A command goes out, or its port is lost. *)
LEMMA SendKeeps == ASSUME PathInv, SendCommand PROVE PathInv'
  <1> DEFINE c == Head(commands)
  <1>1. c \in Commands /\ commands' \in Seq(Commands)
    BY Queues DEF PathInv, SendCommand
  <1>2. PICK tag \in ChannelTags, q \in Outputs :
          c = [port |-> tag[1], nth |-> tag[2], out |-> q,
               wire |-> ToWire(ToMessage(FromBytes(Original(tag))))]
    <2> HIDE DEF c
    <2> QED
      BY <1>1 DEF Commands
  <1>3. Outgoing(c) \in Arrivals(q) /\ c.out = q
    BY <1>2 DEF Outgoing, Arrivals, Recoded
  <1>4. UNCHANGED <<events, inputs, mail, outbox, played, cursor>>
    BY DEF SendCommand, queueVars, worldVars, threadVars
  <1>5. DOMAIN arrived' = Outputs /\ \A o \in Outputs : arrived'[o] \in Seq(Arrivals(o))
    <2>1. CASE UNCHANGED arrived
      BY <2>1 DEF PathInv
    <2>2. CASE arrived' = [arrived EXCEPT ![q] = Append(@, Outgoing(c))]
      <3>1. Append(arrived[q], Outgoing(c)) \in Seq(Arrivals(q))
        BY <1>3, Queues DEF PathInv
      <3> QED
        BY <2>2, <3>1 DEF PathInv
    <2> QED
      BY <1>3, <2>1, <2>2 DEF SendCommand
  <1> QED
    BY <1>1, <1>4, <1>5, SetsStay DEF PathInv, InPorts

(* The bridge unpacks an event. *)
LEMMA DrainKeeps == ASSUME PathInv, DrainEvent PROVE PathInv'
  <1> DEFINE event == Head(events)
  <1>1. event \in Events /\ events' \in Seq(Events)
    BY Queues DEF PathInv, DrainEvent, PopEvent
  <1>2. ASSUME event.type = "midi" PROVE Received(event) \in Mails
    <2>1. PICK tag \in ChannelTags :
            event = [type |-> "midi", port |-> tag[1], nth |-> tag[2],
                     wire |-> FromBytes(Original(tag))]
      BY <1>1, <1>2 DEF Events, OtherEvent, Overflow
    <2> QED
      BY <2>1 DEF Received, Mails
  <1>3. mail' \in Seq(Mails)
    BY <1>2, Queues DEF PathInv, DrainEvent
  <1>4. UNCHANGED <<inputs, outbox, commands, played, arrived, cursor>>
    BY DEF DrainEvent, portVars, threadVars
  <1> QED
    BY <1>1, <1>3, <1>4, SetsStay DEF PathInv, InPorts

(* The world makes commands of a message. *)
LEMMA ForwardKeeps == ASSUME PathInv, Forward PROVE PathInv'
  <1> DEFINE got == Head(mail)
  <1>1. got \in Mails /\ mail' \in Seq(Mails)
    BY Queues DEF PathInv, Forward
  <1>2. PICK tag \in ChannelTags :
          got = [port |-> tag[1], nth |-> tag[2], message |-> ToMessage(FromBytes(Original(tag)))]
    BY <1>1 DEF Mails
  <1>3. tag[1] \in InPorts
    BY DEF ChannelTags, Tags
  <1>4. Routes[tag[1]] \in Seq(Outputs)
    BY <1>3, PathAssumption DEF PathAssumption
  <1>5. \A q \in Outputs : SendMidi(got, q) \in Commands
    BY <1>2 DEF SendMidi, Commands
  <1>6. Forwarded(got) \in Seq(Commands)
    BY <1>2, <1>4, <1>5 DEF Forwarded
  <1>7. outbox' \in Seq(Commands)
    BY <1>6, Queues DEF PathInv, Forward
  <1>8. UNCHANGED <<events, inputs, commands, played, arrived, cursor>>
    BY DEF Forward, queueVars, portVars, threadVars
  <1> QED
    BY <1>1, <1>7, <1>8, SetsStay DEF PathInv, InPorts

(* A command joins the queue, or is dropped. *)
LEMMA FlushKeeps == ASSUME PathInv, FlushCommand PROVE PathInv'
  <1>1. Head(outbox) \in Commands /\ Tail(outbox) \in Seq(Commands)
    BY Queues DEF PathInv, FlushCommand
  <1>2. outbox' \in Seq(Commands) /\ commands' \in Seq(Commands)
    BY <1>1, Queues DEF PathInv, FlushCommand, LeftAfterFull
  <1>3. UNCHANGED <<events, inputs, mail, played, arrived, cursor>>
    BY DEF FlushCommand, queueVars, portVars, threadVars
  <1> QED
    BY <1>2, <1>3, SetsStay DEF PathInv, InPorts

(* The other steps move no message; the report is no message. *)
LEMMA OthersKeep ==
  ASSUME PathInv,
         \/ StopRuntime \/ CommandsTaken \/ NextPort \/ InputsTaken \/ Report
         \/ NextSystem \/ Flushed \/ UNCHANGED pathVars
  PROVE  PathInv'
  <1>1. UNCHANGED <<inputs, mail, outbox, commands, played, arrived>>
    BY DEF StopRuntime, CommandsTaken, NextPort, InputsTaken, Report, NextSystem, Flushed,
           pathVars, worldVars, portVars
  <1>2. events' \in Seq(Events)
    <2>1. CASE UNCHANGED events
      BY <2>1 DEF PathInv
    <2>2. CASE events' = Append(events, Overflow)
      BY <2>2, Queues DEF PathInv, Events
    <2> QED
      BY <2>1, <2>2 DEF StopRuntime, CommandsTaken, NextPort, InputsTaken, Report, NextSystem,
           Flushed, pathVars, queueVars, PushReport, Accept
  <1>3. cursor' \in Nat
    BY DEF PathInv, StopRuntime, CommandsTaken, NextPort, InputsTaken, Report, NextSystem,
           Flushed, pathVars, threadVars
  <1> QED
    BY <1>1, <1>2, <1>3, SetsStay DEF PathInv, InPorts

(* What comes out of an output port means to a receiver what was played on *)
(* the input port, through the callback, the thread, the bridge, the world *)
(* and the thread again.                                                   *)
THEOREM PathIsFaithful == PathSpec => []Faithful
  <1>1. PathInv /\ [PathNext]_pathVars => PathInv'
    BY PlayKeeps, TakeKeeps, SendKeeps, DrainKeeps, ForwardKeeps, FlushKeeps, OthersKeep
       DEF PathNext
  <1> QED
    BY <1>1, PathBegins, ArrivedIsFaithful, PTL DEF PathSpec
-----------------------------------------------------------------------------
(* The lines.  A step takes the first item of a stage, if any, and puts    *)
(* what comes of it at the end of the next stage.                          *)

(* The stages, by number. *)
LEMMA StageIs ==
  ASSUME NEW p, NEW q
  PROVE  /\ Stages(p, q)[1] = arrived[q] /\ Stages(p, q)[2] = commands
         /\ Stages(p, q)[3] = outbox /\ Stages(p, q)[4] = mail
         /\ Stages(p, q)[5] = events /\ Stages(p, q)[6] = inputs[p]
         /\ \A k \in 1 .. 6 : k = 1 \/ k = 2 \/ k = 3 \/ k = 4 \/ k = 5 \/ k = 6
  BY DEF Stages

(* A message moves up from the head of stage k + 1: what comes of it,      *)
(* new, has at most one item on the line, and that is the message.         *)
MovesUp(G, H, k, new, p, q) ==
  /\ G[k + 1] # <<>>
  /\ H[k] = G[k] \o new /\ H[k + 1] = Tail(G[k + 1])
  /\ \A l \in 1 .. 6 : l # k /\ l # k + 1 => H[l] = G[l]
  /\ \A i \in DOMAIN new : OnLine(new[i], p, q) =>
       OnLine(Head(G[k + 1]), p, q) /\ new[i].nth = Head(G[k + 1]).nth
  /\ \A i, j \in DOMAIN new : OnLine(new[i], p, q) /\ OnLine(new[j], p, q) => i = j

(* Where the items of the stages come from, and where they are. *)
ItemsMoved(G, H, k, new) ==
  /\ \A i \in DOMAIN H[k] :
       /\ i \in Nat
       /\ i <= Len(G[k]) => i \in DOMAIN G[k] /\ H[k][i] = G[k][i]
       /\ i > Len(G[k]) => i - Len(G[k]) \in DOMAIN new /\ H[k][i] = new[i - Len(G[k])]
  /\ \A i \in DOMAIN G[k] : i \in DOMAIN H[k] /\ H[k][i] = G[k][i]
  /\ \A i \in DOMAIN new : Len(G[k]) + i \in DOMAIN H[k] /\ H[k][Len(G[k]) + i] = new[i]
  /\ \A i \in DOMAIN H[k + 1] :
       i \in Nat \ {0} /\ i + 1 \in DOMAIN G[k + 1] /\ H[k + 1][i] = G[k + 1][i + 1]
  /\ \A i \in DOMAIN G[k + 1] :
       i = 1 \/ (i - 1 \in DOMAIN H[k + 1] /\ H[k + 1][i - 1] = G[k + 1][i])
  /\ 1 \in DOMAIN G[k + 1] /\ Head(G[k + 1]) = G[k + 1][1]
  /\ DOMAIN G[k] = 1 .. Len(G[k]) /\ Len(G[k]) \in Nat

LEMMA MovedItems ==
  ASSUME NEW G, NEW H, NEW k \in 1 .. 5, NEW K, NEW T, NEW new \in Seq(K), NEW p, NEW q,
         G[k] \in Seq(K), G[k + 1] \in Seq(T), MovesUp(G, H, k, new, p, q)
  PROVE  ItemsMoved(G, H, k, new)
  <1> DEFINE a == G[k]
             b == G[k + 1]
             c == H[k]
             d == H[k + 1]
             n == Len(a)
  <1>1. a \in Seq(K) /\ b \in Seq(T) /\ b # <<>> /\ c = a \o new /\ d = Tail(b)
    BY DEF MovesUp
  <1> HIDE DEF a, b, c, d
  <1>2. /\ c \in Seq(K) /\ Len(c) = n + Len(new)
        /\ \A i \in 1 .. n + Len(new) : c[i] = IF i <= n THEN a[i] ELSE new[i - n]
    BY <1>1, ConcatProperties
  <1>3. /\ n \in Nat /\ Len(new) \in Nat /\ Len(b) \in Nat /\ Len(b) > 0
        /\ DOMAIN a = 1 .. n /\ DOMAIN new = 1 .. Len(new) /\ DOMAIN b = 1 .. Len(b)
        /\ DOMAIN c = 1 .. n + Len(new)
    BY <1>1, <1>2, LenProperties, EmptySeq
  <1>4. /\ d \in Seq(T) /\ Len(d) = Len(b) - 1 /\ DOMAIN d = 1 .. Len(b) - 1
        /\ \A i \in 1 .. Len(b) - 1 : d[i] = b[i + 1]
        /\ Head(b) = b[1]
    BY <1>1, <1>3, HeadTailProperties, LenProperties
  <1> HIDE DEF n
  <1>5. /\ \A i \in DOMAIN c : /\ i \in Nat
                               /\ i <= n => i \in DOMAIN a /\ c[i] = a[i]
                               /\ i > n => i - n \in DOMAIN new /\ c[i] = new[i - n]
        /\ \A i \in DOMAIN a : i \in DOMAIN c /\ c[i] = a[i]
    BY <1>2, <1>3
  <1>6. \A i \in DOMAIN new : n + i \in DOMAIN c /\ c[n + i] = new[i]
    <2> SUFFICES ASSUME NEW i \in DOMAIN new PROVE n + i \in DOMAIN c /\ c[n + i] = new[i]
      OBVIOUS
    <2>1. n + i \in 1 .. n + Len(new) /\ ~(n + i <= n) /\ (n + i) - n = i
      BY <1>3
    <2> QED
      BY <1>2, <1>3, <2>1
  <1>7. \A i \in DOMAIN d : i \in Nat \ {0} /\ i + 1 \in DOMAIN b /\ d[i] = b[i + 1]
    BY <1>3, <1>4
  <1>8. \A i \in DOMAIN b : i = 1 \/ (i - 1 \in DOMAIN d /\ d[i - 1] = b[i])
    <2> SUFFICES ASSUME NEW i \in DOMAIN b, i # 1
                 PROVE  i - 1 \in DOMAIN d /\ d[i - 1] = b[i]
      OBVIOUS
    <2>1. i - 1 \in 1 .. Len(b) - 1 /\ (i - 1) + 1 = i
      BY <1>3
    <2> QED
      BY <1>4, <2>1
  <1>9. 1 \in DOMAIN b
    BY <1>3
  <1> QED
    BY <1>3, <1>4, <1>5, <1>6, <1>7, <1>8, <1>9 DEF ItemsMoved, a, b, c, d, n

(* No message overtakes another by moving up. *)
LEMMA MoveKeepsOrder ==
  ASSUME NEW G, NEW H, NEW k \in 1 .. 5, NEW K, NEW T, NEW new \in Seq(K), NEW p, NEW q,
         G[k] \in Seq(K), G[k + 1] \in Seq(T), MovesUp(G, H, k, new, p, q),
         Ordered(G, p, q)
  PROVE  Ordered(H, p, q)
  <1> DEFINE n == Len(G[k])
             From(a, i, b, j) ==
               \/ b = a /\ j = i /\ a # k + 1 /\ (a = k => j <= n)
               \/ a = k /\ i > n /\ b = k + 1 /\ j = 1
               \/ a = k + 1 /\ b = a /\ j = i + 1
  <1>0. /\ \A i \in DOMAIN H[k] :
             /\ i \in Nat
             /\ i <= n => i \in DOMAIN G[k] /\ H[k][i] = G[k][i]
             /\ i > n => i - n \in DOMAIN new /\ H[k][i] = new[i - n]
        /\ \A i \in DOMAIN H[k + 1] :
             i \in Nat \ {0} /\ i + 1 \in DOMAIN G[k + 1] /\ H[k + 1][i] = G[k + 1][i + 1]
        /\ 1 \in DOMAIN G[k + 1] /\ Head(G[k + 1]) = G[k + 1][1]
        /\ DOMAIN G[k] = 1 .. n /\ n \in Nat
    <2>1. ItemsMoved(G, H, k, new)
      BY MovedItems
    <2> QED
      BY <2>1 DEF ItemsMoved
  <1> HIDE DEF n
  <1>1. ASSUME NEW a \in 1 .. 6, NEW i \in DOMAIN H[a], OnLine(H[a][i], p, q)
        PROVE  \E b \in 1 .. 6 : \E j \in DOMAIN G[b] :
                 /\ OnLine(G[b][j], p, q) /\ G[b][j].nth = H[a][i].nth
                 /\ From(a, i, b, j)
    <2>1. CASE a # k /\ a # k + 1
      <3>1. H[a] = G[a]
        BY <2>1 DEF MovesUp
      <3> QED
        BY <1>1, <2>1, <3>1
    <2>2. CASE a = k /\ i <= n
      <3>1. i \in DOMAIN G[k] /\ H[k][i] = G[k][i]
        BY <1>0, <2>2
      <3> QED
        BY <1>1, <2>2, <3>1
    <2>3. CASE a = k /\ i > n
      <3>1. i - n \in DOMAIN new /\ H[k][i] = new[i - n]
        BY <1>0, <2>3
      <3>2. OnLine(Head(G[k + 1]), p, q) /\ new[i - n].nth = Head(G[k + 1]).nth
        BY <1>1, <2>3, <3>1 DEF MovesUp
      <3>3. OnLine(G[k + 1][1], p, q) /\ G[k + 1][1].nth = H[a][i].nth
        BY <1>0, <2>3, <3>1, <3>2
      <3>4. k + 1 \in 1 .. 6 /\ 1 \in DOMAIN G[k + 1] /\ From(a, i, k + 1, 1)
        BY <1>0, <2>3
      <3> HIDE DEF From
      <3> QED
        BY <3>3, <3>4
    <2>4. CASE a = k + 1
      <3>1. i + 1 \in DOMAIN G[a] /\ H[a][i] = G[a][i + 1]
        BY <1>0, <2>4
      <3> QED
        BY <1>1, <2>4, <3>1
    <2>5. a = k => i <= n \/ i > n
      BY <1>0
    <2> QED
      BY <2>1, <2>2, <2>3, <2>4, <2>5
  <1>2. ASSUME NEW a \in 1 .. 6, NEW i \in DOMAIN H[a], NEW c \in a .. 6, NEW l \in DOMAIN H[c],
               OnLine(H[a][i], p, q), OnLine(H[c][l], p, q), a < c \/ i < l
        PROVE  H[a][i].nth < H[c][l].nth
    <2>1. PICK b \in 1 .. 6 : \E j \in DOMAIN G[b] :
            /\ OnLine(G[b][j], p, q) /\ G[b][j].nth = H[a][i].nth
            /\ From(a, i, b, j)
      BY <1>1, <1>2
    <2>2. PICK j \in DOMAIN G[b] :
            /\ OnLine(G[b][j], p, q) /\ G[b][j].nth = H[a][i].nth
            /\ From(a, i, b, j)
      BY <2>1
    <2>3. c \in 1 .. 6
      OBVIOUS
    <2>4. PICK d \in 1 .. 6 : \E m \in DOMAIN G[d] :
            /\ OnLine(G[d][m], p, q) /\ G[d][m].nth = H[c][l].nth
            /\ From(c, l, d, m)
      BY <1>1, <1>2, <2>3
    <2>5. PICK m \in DOMAIN G[d] :
            /\ OnLine(G[d][m], p, q) /\ G[d][m].nth = H[c][l].nth
            /\ From(c, l, d, m)
      BY <2>4
    <2>6. d \in b .. 6 /\ (b < d \/ j < m)
      <3>1. ~(a = k /\ i > n /\ c = k /\ l > n)
        <4> SUFFICES ASSUME a = k, i > n, c = k, l > n PROVE FALSE
          OBVIOUS
        <4>1. i - n \in DOMAIN new /\ H[k][i] = new[i - n] /\ i \in Nat
          BY <1>0
        <4>2. l - n \in DOMAIN new /\ H[k][l] = new[l - n] /\ l \in Nat
          BY <1>0
        <4>3. OnLine(new[i - n], p, q) /\ OnLine(new[l - n], p, q)
          BY <1>2, <4>1, <4>2
        <4>4. i - n = l - n
          BY <4>1, <4>2, <4>3 DEF MovesUp
        <4> QED
          BY <1>0, <1>2, <4>1, <4>2, <4>4
      <3>2. /\ a = k => i \in Nat /\ a + 1 = k + 1
            /\ c = k => l \in Nat
            /\ a = k + 1 => i \in Nat /\ i + 1 > 1
            /\ c = k + 1 => l \in Nat /\ l + 1 > 1
        BY <1>0
      <3>3. a < c \/ (a = c /\ i < l)
        BY <1>2
      <3> QED
        BY <1>0, <2>2, <2>5, <3>1, <3>2, <3>3
    <2> QED
      BY <2>2, <2>5, <2>6 DEF Ordered
  <1> QED
    BY <1>2 DEF Ordered

(* What moves up is still there, and so is what stays. *)
StillPresent(G, H, k, new, p, q) ==
  /\ \A n : Present(G, p, q, n) =>
       Present(H, p, q, n) \/ (OnLine(Head(G[k + 1]), p, q) /\ Head(G[k + 1]).nth = n)
  /\ \A i \in DOMAIN new : OnLine(new[i], p, q) => Present(H, p, q, new[i].nth)

LEMMA MoveKeepsPresence ==
  ASSUME NEW G, NEW H, NEW k \in 1 .. 5, NEW K, NEW T, NEW new \in Seq(K), NEW p, NEW q,
         G[k] \in Seq(K), G[k + 1] \in Seq(T), MovesUp(G, H, k, new, p, q)
  PROVE  StillPresent(G, H, k, new, p, q)
  <1>1. ItemsMoved(G, H, k, new)
    BY MovedItems
  <1>2. ASSUME NEW n, Present(G, p, q, n)
        PROVE  Present(H, p, q, n) \/ (OnLine(Head(G[k + 1]), p, q) /\ Head(G[k + 1]).nth = n)
    <2>1. PICK b \in 1 .. 6 : \E i \in DOMAIN G[b] : OnLine(G[b][i], p, q) /\ G[b][i].nth = n
      BY <1>2 DEF Present
    <2>2. PICK i \in DOMAIN G[b] : OnLine(G[b][i], p, q) /\ G[b][i].nth = n
      BY <2>1
    <2>3. CASE b # k /\ b # k + 1
      BY <2>2, <2>3 DEF MovesUp, Present
    <2>4. CASE b = k
      <3>1. i \in DOMAIN H[b] /\ H[b][i] = G[b][i]
        BY <1>1, <2>4 DEF ItemsMoved
      <3> QED
        BY <2>2, <3>1 DEF Present
    <2>5. CASE b = k + 1
      <3>1. i = 1 \/ (i - 1 \in DOMAIN H[b] /\ H[b][i - 1] = G[b][i])
        BY <1>1, <2>5 DEF ItemsMoved
      <3>2. Head(G[k + 1]) = G[b][1]
        BY <1>1, <2>5 DEF ItemsMoved
      <3> QED
        BY <2>2, <3>1, <3>2 DEF Present
    <2> QED
      BY <2>3, <2>4, <2>5
  <1>3. ASSUME NEW i \in DOMAIN new, OnLine(new[i], p, q)
        PROVE  Present(H, p, q, new[i].nth)
    <2>1. Len(G[k]) + i \in DOMAIN H[k] /\ H[k][Len(G[k]) + i] = new[i]
      BY <1>1 DEF ItemsMoved
    <2>2. k \in 1 .. 6
      OBVIOUS
    <2> QED
      BY <1>3, <2>1, <2>2 DEF Present
  <1> QED
    BY <1>2, <1>3 DEF StillPresent

(* The step of one item: it is put at the end of the next stage, or not.   *)
HeadMoves(G, H, k, j, head, x, p, q) ==
  /\ j = k + 1 /\ G[j] # <<>> /\ head = Head(G[j]) /\ H[j] = Tail(G[j])
  /\ H[k] = G[k] \/ H[k] = Append(G[k], x)
  /\ \A l \in 1 .. 6 : l # k /\ l # j => H[l] = G[l]
  /\ OnLine(x, p, q) => OnLine(head, p, q) /\ x.nth = head.nth

(* Then the order is kept, and so is what was there, but for the head when *)
(* it was not put there.                                                   *)
HeadMoved(G, H, k, head, x, p, q) ==
  /\ Ordered(G, p, q) => Ordered(H, p, q)
  /\ \A n : Present(G, p, q, n) =>
       \/ Present(H, p, q, n)
       \/ OnLine(head, p, q) /\ head.nth = n /\ (H[k] = Append(G[k], x) => ~OnLine(x, p, q))

LEMMA HeadKeepsLine ==
  ASSUME NEW G, NEW H, NEW k \in 1 .. 5, NEW j, NEW K, NEW T, NEW head, NEW x \in K,
         NEW p, NEW q, G[k] \in Seq(K), G[j] \in Seq(T), HeadMoves(G, H, k, j, head, x, p, q)
  PROVE  HeadMoved(G, H, k, head, x, p, q)
  <1> DEFINE new == IF H[k] = Append(G[k], x) THEN <<x>> ELSE <<>>
  <1>0. j = k + 1 /\ head = Head(G[k + 1]) /\ G[k + 1] \in Seq(T)
    BY DEF HeadMoves
  <1>1. new \in Seq(K) /\ \A i \in DOMAIN new : i = 1 /\ new[i] = x
    OBVIOUS
  <1>2. H[k] = G[k] \o new
    <2>1. CASE H[k] = Append(G[k], x)
      BY <2>1, AppendIsConcat
    <2>2. CASE H[k] # Append(G[k], x)
      BY <2>2, ConcatEmptySeq DEF HeadMoves
    <2> QED
      BY <2>1, <2>2
  <1>3. H[k] = Append(G[k], x) => 1 \in DOMAIN new /\ new[1] = x
    OBVIOUS
  <1> HIDE DEF new
  <1>4. MovesUp(G, H, k, new, p, q)
    BY <1>1, <1>2 DEF MovesUp, HeadMoves
  <1>5. Ordered(G, p, q) => Ordered(H, p, q)
    BY <1>0, <1>1, <1>4, MoveKeepsOrder
  <1>6. /\ \A n : Present(G, p, q, n) => Present(H, p, q, n) \/ (OnLine(head, p, q) /\ head.nth = n)
        /\ \A i \in DOMAIN new : OnLine(new[i], p, q) => Present(H, p, q, new[i].nth)
    <2>1. StillPresent(G, H, k, new, p, q)
      BY <1>0, <1>1, <1>4, MoveKeepsPresence
    <2>2. head = Head(G[k + 1])
      BY <1>0
    <2> QED
      BY <2>1, <2>2, Zenon DEF StillPresent
  <1>7. H[k] = Append(G[k], x) /\ OnLine(x, p, q) => Present(H, p, q, head.nth)
    <2> SUFFICES ASSUME H[k] = Append(G[k], x), OnLine(x, p, q) PROVE Present(H, p, q, head.nth)
      OBVIOUS
    <2>1. Present(H, p, q, x.nth)
      BY <1>3, <1>6
    <2>2. x.nth = head.nth
      BY DEF HeadMoves
    <2> QED
      BY <2>1, <2>2
  <1>8. \A n : Present(G, p, q, n) =>
          \/ Present(H, p, q, n)
          \/ /\ OnLine(head, p, q) /\ head.nth = n
             /\ H[k] = Append(G[k], x) => ~OnLine(x, p, q)
    BY <1>6, <1>7
  <1> QED
    BY <1>5, <1>8 DEF HeadMoved

(* An item joins a stage from without: one that is not of the line, or the *)
(* latest of the line behind all others.                                   *)
LEMMA JoinKeepsLine ==
  ASSUME NEW G, NEW H, NEW k \in 1 .. 6, NEW K, NEW x \in K, NEW p, NEW q,
         G[k] \in Seq(K), H[k] = Append(G[k], x),
         \A l \in 1 .. 6 : l # k => H[l] = G[l],
         OnLine(x, p, q) =>
           /\ k = 6
           /\ \A l \in 1 .. 6 : \A j \in DOMAIN G[l] :
                OnLine(G[l][j], p, q) => G[l][j].nth < x.nth
  PROVE  /\ Ordered(G, p, q) => Ordered(H, p, q)
         /\ \A n : Present(G, p, q, n) => Present(H, p, q, n)
         /\ OnLine(x, p, q) => Present(H, p, q, x.nth)
  <1> DEFINE m == Len(G[k]) + 1
  <1>1. /\ m \in Nat /\ m \in DOMAIN H[k] /\ H[k][m] = x
        /\ \A i \in DOMAIN G[k] : i \in DOMAIN H[k] /\ i \in Nat /\ i < m /\ H[k][i] = G[k][i]
        /\ \A i \in DOMAIN H[k] : i \in DOMAIN G[k] \/ i = m
    <2> DEFINE a == G[k]
               b == H[k]
    <2>1. a \in Seq(K) /\ b = Append(a, x)
      OBVIOUS
    <2> HIDE DEF a, b
    <2>2. /\ DOMAIN a = 1 .. Len(a) /\ Len(a) \in Nat /\ DOMAIN b = 1 .. Len(a) + 1
          /\ b[Len(a) + 1] = x /\ \A i \in 1 .. Len(a) : b[i] = a[i]
      BY <2>1
    <2>3. /\ Len(a) + 1 \in Nat /\ Len(a) + 1 \in DOMAIN b /\ b[Len(a) + 1] = x
          /\ \A i \in DOMAIN a : i \in DOMAIN b /\ i \in Nat /\ i < Len(a) + 1 /\ b[i] = a[i]
          /\ \A i \in DOMAIN b : i \in DOMAIN a \/ i = Len(a) + 1
      BY <2>2
    <2> QED
      BY <2>3 DEF a, b
  <1> HIDE DEF m
  <1>2. \A l \in 1 .. 6 : \A i \in DOMAIN G[l] : i \in DOMAIN H[l] /\ H[l][i] = G[l][i]
    BY <1>1
  <1>3. \A l \in 1 .. 6 : \A i \in DOMAIN H[l] :
          \/ i \in DOMAIN G[l] /\ H[l][i] = G[l][i]
          \/ l = k /\ i = m /\ H[l][i] = x
    BY <1>1
  <1>4. \A n : Present(G, p, q, n) => Present(H, p, q, n)
    BY <1>2 DEF Present
  <1>5. OnLine(x, p, q) => Present(H, p, q, x.nth)
    BY <1>1 DEF Present
  <1>6. ASSUME Ordered(G, p, q),
               NEW a \in 1 .. 6, NEW i \in DOMAIN H[a], NEW c \in a .. 6, NEW l \in DOMAIN H[c],
               OnLine(H[a][i], p, q), OnLine(H[c][l], p, q), a < c \/ i < l
        PROVE  H[a][i].nth < H[c][l].nth
    <2>1. c \in 1 .. 6
      OBVIOUS
    <2>2. CASE i \in DOMAIN G[a] /\ H[a][i] = G[a][i] /\ l \in DOMAIN G[c] /\ H[c][l] = G[c][l]
      BY <1>6, <2>1, <2>2 DEF Ordered
    <2>3. CASE i \in DOMAIN G[a] /\ H[a][i] = G[a][i] /\ c = k /\ l = m /\ H[c][l] = x
      BY <1>6, <2>3
    <2>4. CASE a = k /\ i = m /\ H[a][i] = x
      <3>1. k = 6 /\ c = 6
        BY <1>6, <2>1, <2>4
      <3>2. i < l
        BY <1>6, <2>4, <3>1
      <3> QED
        BY <1>1, <2>4, <3>1, <3>2
    <2> QED
      BY <1>3, <2>1, <2>2, <2>3, <2>4
  <1>7. Ordered(G, p, q) => Ordered(H, p, q)
    BY <1>6 DEF Ordered
  <1> QED
    BY <1>4, <1>5, <1>7

(* After a step. *)
LEMMA NextStageIs ==
  ASSUME NEW p, NEW q
  PROVE  /\ (Stages(p, q)')[1] = arrived'[q] /\ (Stages(p, q)')[2] = commands'
         /\ (Stages(p, q)')[3] = outbox' /\ (Stages(p, q)')[4] = mail'
         /\ (Stages(p, q)')[5] = events' /\ (Stages(p, q)')[6] = inputs'[p]
  BY DEF Stages

(* A step keeps one line, when nothing is played. *)
LineGoesOn(p, q) ==
  /\ Ordered(Stages(p, q), p, q) => Ordered(Stages(p, q)', p, q)
  /\ q \in Routed(p) =>
       \A n \in DOMAIN played[p] : IsChannel(played[p][n]) /\ Present(Stages(p, q), p, q, n) =>
         Present(Stages(p, q)', p, q, n) \/ <<p, n, q>> \in lost'

(* A step that keeps each line keeps all of them. *)
LEMMA LinesGoOn ==
  ASSUME LinesKept, UNCHANGED played, lost \subseteq lost',
         \A p \in InPorts, q \in Outputs : LineGoesOn(p, q)
  PROVE  LinesKept'
  <1>1. \A p \in InPorts, q \in Outputs : Ordered(Stages(p, q)', p, q)
    BY DEF LinesKept, InOrder, LineGoesOn
  <1>2. ASSUME NEW p \in InPorts, NEW q \in Routed(p), NEW n \in DOMAIN played[p],
               IsChannel(played[p][n])
        PROVE  <<p, n, q>> \in lost' \/ Present(Stages(p, q)', p, q, n)
    <2>1. q \in Outputs
      BY PathAssumption DEF PathAssumption, Routed
    <2>2. <<p, n, q>> \in lost \/ Present(Stages(p, q), p, q, n)
      BY <1>2 DEF LinesKept, NoneMissing
    <2> QED
      BY <1>2, <2>1, <2>2 DEF LineGoesOn
  <1>3. InOrder'
    BY <1>1 DEF InOrder, InPorts
  <1>4. NoneMissing'
    BY <1>2 DEF NoneMissing, InPorts, Routed
  <1> QED
    BY <1>3, <1>4 DEF LinesKept

(* What is of a line, stage by stage. *)
LineItems(p, q) ==
  /\ \A command \in Commands : OnLine(command, p, q) <=> command.port = p /\ command.out = q
  /\ \A got \in Mails : OnLine(got, p, q) <=> got.port = p
  /\ \A event \in Events : OnLine(event, p, q) <=> event.type = "midi" /\ event.port = p
  /\ \A o \in InPorts : \A raw \in Raws(o) : raw.port = o /\ (OnLine(raw, p, q) <=> p = o)
  /\ \A o \in Outputs : \A out \in Arrivals(o) : OnLine(out, p, q) <=> out.port = p /\ o = q

LEMMA OfTheLine == ASSUME NEW p, NEW q PROVE LineItems(p, q)
  <1>1. \A command \in Commands : OnLine(command, p, q) <=> command.port = p /\ command.out = q
    BY DEF OnLine, Commands
  <1>2. \A got \in Mails : OnLine(got, p, q) <=> got.port = p
    BY DEF OnLine, Mails
  <1>3. \A event \in Events : OnLine(event, p, q) <=> event.type = "midi" /\ event.port = p
    BY DEF OnLine, Events, OtherEvent, Overflow
  <1>4. \A o \in InPorts : \A raw \in Raws(o) : raw.port = o /\ (OnLine(raw, p, q) <=> p = o)
    BY DEF OnLine, Raws
  <1>5. \A o \in Outputs : \A out \in Arrivals(o) : OnLine(out, p, q) <=> out.port = p /\ o = q
    BY DEF OnLine, Arrivals
  <1> QED
    BY <1>1, <1>2, <1>3, <1>4, <1>5 DEF LineItems

(* A command goes out to its port, or is lost there. *)
LEMMA SendKeepsLines == ASSUME PathInv, LinesKept, SendCommand PROVE LinesKept'
  <1> DEFINE c == Head(commands)
             x == Outgoing(c)
  <1>1. c \in Commands /\ commands \in Seq(Commands) /\ commands # <<>> /\ commands' = Tail(commands)
    BY Queues DEF PathInv, SendCommand
  <1>2. PICK tag \in ChannelTags, o \in Outputs :
          c = [port |-> tag[1], nth |-> tag[2], out |-> o,
               wire |-> ToWire(ToMessage(FromBytes(Original(tag))))]
    <2> HIDE DEF c
    <2> QED
      BY <1>1 DEF Commands
  <1>3. x.port = c.port /\ x.nth = c.nth /\ x.out = c.out /\ x \in Arrivals(o) /\ c.out = o
    BY <1>2 DEF Outgoing, Arrivals, Recoded
  <1>4. \/ arrived' = [arrived EXCEPT ![o] = Append(@, x)] /\ UNCHANGED lost
        \/ UNCHANGED arrived /\ lost' = lost \cup {<<c.port, c.nth, o>>}
    BY <1>3 DEF SendCommand, Lose
  <1>5. UNCHANGED <<outbox, mail, events, inputs, played>>
    BY DEF SendCommand, queueVars, worldVars
  <1> HIDE DEF c, x
  <1>6. ASSUME NEW p \in InPorts, NEW q \in Outputs PROVE LineGoesOn(p, q)
    <2> DEFINE G == Stages(p, q)
               H == Stages(p, q)'
               K == Arrivals(q) \cup {x}
    <2>1. /\ G[1] = arrived[q] /\ G[2] = commands
          /\ H[1] = arrived'[q] /\ H[2] = Tail(commands)
          /\ \A l \in 1 .. 6 : l # 1 /\ l # 2 => H[l] = G[l]
      BY <1>1, <1>5, StageIs, NextStageIs
    <2>2. arrived[q] \in Seq(K) /\ x \in K
      <3>1. arrived[q] \in Seq(Arrivals(q))
        BY DEF PathInv
      <3> QED
        BY <3>1, Queues
    <2>3. OnLine(x, p, q) => OnLine(c, p, q) /\ x.nth = c.nth
      <3>1. LineItems(p, q)
        BY OfTheLine
      <3> QED
        BY <1>1, <1>3, <3>1 DEF LineItems
    <2>4. /\ H[1] = G[1] \/ H[1] = Append(G[1], x)
          /\ OnLine(c, p, q) => OnLine(x, p, q) /\ (H[1] = Append(G[1], x) \/ <<p, c.nth, q>> \in lost')
      <3>1. DOMAIN arrived = Outputs
        BY DEF PathInv
      <3>2. OnLine(c, p, q) => OnLine(x, p, q) /\ o = q /\ c.port = p
        <4>1. LineItems(p, q)
          BY OfTheLine
        <4> QED
          BY <1>1, <1>3, <4>1 DEF LineItems
      <3>3. \/ arrived'[q] = arrived[q] /\ o # q
            \/ arrived'[q] = Append(arrived[q], x) /\ o = q
            \/ arrived'[q] = arrived[q] /\ <<c.port, c.nth, o>> \in lost'
        BY <1>4, <3>1
      <3> QED
        BY <2>1, <3>2, <3>3
    <2> HIDE DEF G, H, K
    <2>5. HeadMoves(G, H, 1, 2, c, x, p, q)
      <3>1. G[2] # <<>> /\ c = Head(G[2]) /\ H[2] = Tail(G[2])
        BY <1>1, <2>1 DEF c
      <3> QED
        BY <2>1, <2>3, <2>4, <3>1 DEF HeadMoves
    <2>6. G[1] \in Seq(K) /\ G[2] \in Seq(Commands) /\ x \in K /\ 1 \in 1 .. 5
      BY <1>1, <2>1, <2>2
    <2>7. HeadMoved(G, H, 1, c, x, p, q)
      BY <2>5, <2>6, HeadKeepsLine
    <2>8. \A n : Present(G, p, q, n) => Present(H, p, q, n) \/ <<p, n, q>> \in lost'
      BY <2>4, <2>7 DEF HeadMoved
    <2> QED
      BY <2>7, <2>8 DEF LineGoesOn, HeadMoved, G, H
  <1> QED
    BY <1>4, <1>5, <1>6, LinesGoOn

(* A command joins the queue, or is lost before it. *)
LEMMA FlushKeepsLines == ASSUME PathInv, LinesKept, FlushCommand PROVE LinesKept'
  <1> DEFINE c == Head(outbox)
  <1>1. /\ c \in Commands /\ outbox \in Seq(Commands) /\ commands \in Seq(Commands)
        /\ outbox # <<>> /\ outbox' = Tail(outbox)
    BY Queues DEF PathInv, FlushCommand, LeftAfterFull
  <1>2. \/ commands' = Append(commands, c) /\ UNCHANGED lost
        \/ UNCHANGED commands /\ lost' = lost \cup {<<c.port, c.nth, c.out>>}
    BY DEF FlushCommand, Lose
  <1>3. UNCHANGED <<arrived, mail, events, inputs, played>>
    BY DEF FlushCommand, queueVars, portVars
  <1> HIDE DEF c
  <1>4. ASSUME NEW p \in InPorts, NEW q \in Outputs PROVE LineGoesOn(p, q)
    <2> DEFINE G == Stages(p, q)
               H == Stages(p, q)'
    <2>1. /\ G[2] = commands /\ G[3] = outbox /\ H[2] = commands' /\ H[3] = Tail(outbox)
          /\ \A l \in 1 .. 6 : l # 2 /\ l # 3 => H[l] = G[l]
      BY <1>1, <1>3, StageIs, NextStageIs
    <2>2. OnLine(c, p, q) => c.port = p /\ c.out = q
      <3>1. LineItems(p, q)
        BY OfTheLine
      <3> QED
        BY <1>1, <3>1 DEF LineItems
    <2> HIDE DEF G, H
    <2>3. HeadMoves(G, H, 2, 3, c, c, p, q)
      <3>1. G[3] # <<>> /\ c = Head(G[3]) /\ H[3] = Tail(G[3])
        BY <1>1, <2>1 DEF c
      <3> QED
        BY <1>2, <2>1, <3>1 DEF HeadMoves
    <2>4. G[2] \in Seq(Commands) /\ G[3] \in Seq(Commands) /\ 2 \in 1 .. 5
      BY <1>1, <2>1
    <2>5. HeadMoved(G, H, 2, c, c, p, q)
      BY <1>1, <2>3, <2>4, HeadKeepsLine
    <2>6. H[2] = Append(G[2], c) \/ (OnLine(c, p, q) => <<p, c.nth, q>> \in lost')
      BY <1>2, <2>1, <2>2
    <2>7. \A n : Present(G, p, q, n) => Present(H, p, q, n) \/ <<p, n, q>> \in lost'
      BY <2>5, <2>6 DEF HeadMoved
    <2> QED
      BY <2>5, <2>7 DEF LineGoesOn, HeadMoved, G, H
  <1> QED
    BY <1>2, <1>3, <1>4, LinesGoOn

(* The bridge unpacks an event of the line, or takes another from before it. *)
LEMMA DrainKeepsLines == ASSUME PathInv, LinesKept, DrainEvent PROVE LinesKept'
  <1> DEFINE event == Head(events)
             x == IF event.type = "midi" THEN Received(event) ELSE OtherEvent
             K == Mails \cup {x}
  <1>1. /\ event \in Events /\ events \in Seq(Events) /\ events # <<>> /\ events' = Tail(events)
        /\ mail \in Seq(Mails)
    BY Queues DEF PathInv, DrainEvent, PopEvent
  <1>2. mail' = IF event.type = "midi" THEN Append(mail, x) ELSE mail
    BY DEF DrainEvent
  <1>3. UNCHANGED <<arrived, commands, outbox, inputs, played, lost>>
    BY DEF DrainEvent, portVars
  <1>4. event.type = "midi" => x.port = event.port /\ x.nth = event.nth /\ "out" \notin DOMAIN x
                               /\ "port" \in DOMAIN x
    BY DEF Received
  <1>5. event.type # "midi" => "port" \notin DOMAIN x
    BY DEF OtherEvent
  <1> HIDE DEF event, x
  <1>6. ASSUME NEW p \in InPorts, NEW q \in Outputs PROVE LineGoesOn(p, q)
    <2> DEFINE G == Stages(p, q)
               H == Stages(p, q)'
    <2>1. /\ G[4] = mail /\ G[5] = events /\ H[4] = mail' /\ H[5] = Tail(events)
          /\ \A l \in 1 .. 6 : l # 4 /\ l # 5 => H[l] = G[l]
      BY <1>1, <1>3, StageIs, NextStageIs
    <2>2. /\ OnLine(x, p, q) <=> OnLine(event, p, q)
          /\ OnLine(x, p, q) => x.nth = event.nth /\ event.type = "midi"
      <3>1. LineItems(p, q)
        BY OfTheLine
      <3>2. OnLine(event, p, q) <=> event.type = "midi" /\ event.port = p
        BY <1>1, <3>1 DEF LineItems
      <3>3. OnLine(x, p, q) <=> event.type = "midi" /\ event.port = p
        BY <1>4, <1>5 DEF OnLine
      <3> QED
        BY <1>4, <3>2, <3>3
    <2> HIDE DEF G, H
    <2>3. HeadMoves(G, H, 4, 5, event, x, p, q)
      <3>1. G[5] # <<>> /\ event = Head(G[5]) /\ H[5] = Tail(G[5])
        BY <1>1, <2>1 DEF event
      <3>2. H[4] = G[4] \/ H[4] = Append(G[4], x)
        BY <1>2, <2>1
      <3> QED
        BY <2>1, <2>2, <3>1, <3>2 DEF HeadMoves
    <2>4. G[4] \in Seq(K) /\ G[5] \in Seq(Events) /\ x \in K /\ 4 \in 1 .. 5
      BY <1>1, <2>1, Queues
    <2>5. HeadMoved(G, H, 4, event, x, p, q)
      BY <2>3, <2>4, HeadKeepsLine
    <2>6. OnLine(event, p, q) => OnLine(x, p, q) /\ H[4] = Append(G[4], x)
      BY <1>2, <2>1, <2>2
    <2>7. \A n : Present(G, p, q, n) => Present(H, p, q, n)
      BY <2>5, <2>6 DEF HeadMoved
    <2> QED
      BY <2>5, <2>7 DEF LineGoesOn, HeadMoved, G, H
  <1> QED
    BY <1>3, <1>6, LinesGoOn

(* The world makes of a message a command for each output of its route.    *)
LEMMA ForwardKeepsLines == ASSUME PathInv, LinesKept, Forward PROVE LinesKept'
  <1> DEFINE got == Head(mail)
             new == Forwarded(got)
  <1>1. /\ got \in Mails /\ mail \in Seq(Mails) /\ mail # <<>> /\ mail' = Tail(mail)
        /\ outbox \in Seq(Commands) /\ outbox' = outbox \o new
    BY Queues DEF PathInv, Forward
  <1>2. PICK tag \in ChannelTags :
          got = [port |-> tag[1], nth |-> tag[2], message |-> ToMessage(FromBytes(Original(tag)))]
    BY <1>1 DEF Mails
  <1>3. /\ got.port \in InPorts /\ Routes[got.port] \in Seq(Outputs)
        /\ \A i, j \in DOMAIN Routes[got.port] : Routes[got.port][i] = Routes[got.port][j] => i = j
    BY <1>2, PathAssumption DEF ChannelTags, Tags, PathAssumption
  <1>4. \A q \in Outputs : SendMidi(got, q) \in Commands
    BY <1>2 DEF SendMidi, Commands
  <1>5. new \in Seq(Commands)
    BY <1>3, <1>4 DEF Forwarded
  <1>6. /\ DOMAIN new = DOMAIN Routes[got.port]
        /\ \A i \in DOMAIN new : /\ new[i].port = got.port /\ new[i].nth = got.nth
                                 /\ new[i].out = Routes[got.port][i]
                                 /\ new[i] \in Commands
    BY <1>3, <1>4 DEF Forwarded, SendMidi
  <1>7. UNCHANGED <<arrived, commands, events, inputs, played, lost>>
    BY DEF Forward, queueVars, portVars
  <1> HIDE DEF got, new
  <1>8. ASSUME NEW p \in InPorts, NEW q \in Outputs PROVE LineGoesOn(p, q)
    <2> DEFINE G == Stages(p, q)
               H == Stages(p, q)'
    <2>1. /\ G[3] = outbox /\ G[4] = mail /\ H[3] = outbox \o new /\ H[4] = Tail(mail)
          /\ \A l \in 1 .. 6 : l # 3 /\ l # 4 => H[l] = G[l]
      BY <1>1, <1>7, StageIs, NextStageIs
    <2>2. /\ OnLine(got, p, q) <=> got.port = p
          /\ \A i \in DOMAIN new : OnLine(new[i], p, q) <=> got.port = p /\ Routes[got.port][i] = q
      <3>1. LineItems(p, q)
        BY OfTheLine
      <3>2. OnLine(got, p, q) <=> got.port = p
        BY <1>1, <3>1 DEF LineItems
      <3>3. \A i \in DOMAIN new : OnLine(new[i], p, q) <=> new[i].port = p /\ new[i].out = q
        BY <1>6, <3>1 DEF LineItems
      <3> QED
        BY <1>6, <3>2, <3>3
    <2> HIDE DEF G, H
    <2>3. MovesUp(G, H, 3, new, p, q)
      <3>1. /\ G[3 + 1] # <<>> /\ got = Head(G[3 + 1]) /\ H[3 + 1] = Tail(G[3 + 1])
            /\ H[3] = G[3] \o new
        <4>1. 3 + 1 = 4
          OBVIOUS
        <4>2. G[4] # <<>> /\ got = Head(G[4]) /\ H[4] = Tail(G[4]) /\ H[3] = G[3] \o new
          BY <1>1, <2>1 DEF got
        <4> QED
          BY <4>1, <4>2, Zenon
      <3>2. \A l \in 1 .. 6 : l # 3 /\ l # 3 + 1 => H[l] = G[l]
        BY <2>1
      <3>3. \A i \in DOMAIN new : OnLine(new[i], p, q) => OnLine(got, p, q) /\ new[i].nth = got.nth
        BY <1>6, <2>2
      <3>4. \A i, j \in DOMAIN new : OnLine(new[i], p, q) /\ OnLine(new[j], p, q) => i = j
        BY <1>3, <1>6, <2>2
      <3> QED
        BY <3>1, <3>2, <3>3, <3>4 DEF MovesUp
    <2>4. G[3] \in Seq(Commands) /\ G[3 + 1] \in Seq(Mails) /\ 3 \in 1 .. 5
      BY <1>1, <2>1
    <2>5. Ordered(G, p, q) => Ordered(H, p, q)
      BY <1>5, <2>3, <2>4, MoveKeepsOrder
    <2>6. StillPresent(G, H, 3, new, p, q)
      BY <1>5, <2>3, <2>4, MoveKeepsPresence
    <2>7. Head(G[3 + 1]) = got
      BY <2>1 DEF got
    <2>8. ASSUME q \in Routed(p), NEW n, Present(G, p, q, n) PROVE Present(H, p, q, n)
      <3>1. Present(H, p, q, n) \/ (OnLine(got, p, q) /\ got.nth = n)
        BY <2>6, <2>7, <2>8 DEF StillPresent
      <3>2. ASSUME OnLine(got, p, q), got.nth = n PROVE Present(H, p, q, n)
        <4>1. got.port = p
          BY <2>2, <3>2
        <4>2. PICK i \in DOMAIN Routes[p] : Routes[p][i] = q
          BY <2>8 DEF Routed
        <4>3. i \in DOMAIN new /\ OnLine(new[i], p, q) /\ new[i].nth = n
          BY <1>6, <2>2, <3>2, <4>1, <4>2
        <4> QED
          BY <2>6, <4>3 DEF StillPresent
      <3> QED
        BY <3>1, <3>2
    <2> QED
      BY <2>5, <2>8 DEF LineGoesOn, G, H
  <1> QED
    BY <1>7, <1>8, LinesGoOn

(* A line stays as it was when no stage changes. *)
LineStays(G, H, p, q) ==
  /\ Ordered(G, p, q) => Ordered(H, p, q)
  /\ \A n : Present(G, p, q, n) => Present(H, p, q, n)

LEMMA SameKeepsLine ==
  ASSUME NEW G, NEW H, NEW p, NEW q, \A l \in 1 .. 6 : H[l] = G[l]
  PROVE  LineStays(G, H, p, q)
  <1>1. Ordered(G, p, q) => Ordered(H, p, q)
    <2>1. \A a \in 1 .. 6 : \A c \in a .. 6 : H[a] = G[a] /\ H[c] = G[c]
      OBVIOUS
    <2> QED
      BY <2>1, Zenon DEF Ordered
  <1>2. \A n : Present(G, p, q, n) => Present(H, p, q, n)
    BY DEF Present
  <1> QED
    BY <1>1, <1>2 DEF LineStays

(* What joins a stage and is not of the line leaves the line as it was.    *)
LEMMA OthersKeepLine ==
  ASSUME NEW G, NEW H, NEW k \in 1 .. 6, NEW K, NEW x \in K, NEW p, NEW q,
         G[k] \in Seq(K), H[k] = G[k] \/ H[k] = Append(G[k], x), ~OnLine(x, p, q),
         \A l \in 1 .. 6 : l # k => H[l] = G[l]
  PROVE  LineStays(G, H, p, q)
  <1>1. CASE H[k] = Append(G[k], x)
    BY <1>1, JoinKeepsLine DEF LineStays
  <1>2. CASE H[k] = G[k]
    <2>1. \A l \in 1 .. 6 : H[l] = G[l]
      BY <1>2
    <2> QED
      BY <2>1, SameKeepsLine
  <1> QED
    BY <1>1, <1>2

(* The thread passes a message on or, when the world's queue is full, it   *)
(* is lost for every output; what is no channel message has no line.       *)
LEMMA TakeKeepsLines == ASSUME PathInv, LinesKept, TakeInput PROVE LinesKept'
  <1> DEFINE raw == Head(inputs[cursor])
             x == IF IsChannel(raw.bytes) THEN InputEvent(raw) ELSE OtherEvent
             K == Events \cup {x}
  <1>1. cursor \in InPorts /\ inputs[cursor] \in Seq(Raws(cursor)) /\ inputs[cursor] # <<>>
    <2>1. cursor \in Nat /\ Inputs \in Nat /\ cursor < Inputs
      BY PathAssumption DEF PathAssumption, PathInv, TakeInput
    <2>2. cursor \in InPorts
      BY <2>1 DEF InPorts
    <2> QED
      BY <2>2 DEF PathInv, TakeInput
  <1>2. raw \in Raws(cursor)
    BY <1>1, Queues
  <1>3. inputs' = [inputs EXCEPT ![cursor] = Tail(inputs[cursor])] /\ DOMAIN inputs = InPorts
    BY DEF TakeInput, NextInput, PathInv
  <1>4. /\ events' = events \/ events' = Append(events, x)
        /\ lost \subseteq lost'
        /\ IsChannel(raw.bytes) =>
             \/ events' = Append(events, x)
             \/ \A q \in Outputs : <<raw.port, raw.nth, q>> \in lost'
    <2>1. CASE IsChannel(raw.bytes) /\ PushEvent(InputEvent(raw))
                 /\ IF HasRoom THEN UNCHANGED lost ELSE Lose(raw, Outputs)
      BY <2>1 DEF PushEvent, Accept, Lose
    <2>2. CASE IsTransport(raw.bytes) /\ PushEvent(OtherEvent) /\ UNCHANGED lost
      <3>1. \A n \in {242, 250, 251, 252} : n \notin 128 .. 239
        OBVIOUS
      <3>2. \A bytes : IsTransport(bytes) => ~IsChannel(bytes)
        <4> SUFFICES ASSUME NEW bytes, IsTransport(bytes) PROVE ~IsChannel(bytes)
          OBVIOUS
        <4>1. PICK n \in {242, 250, 251, 252} : bytes[1] = n
          BY DEF IsTransport
        <4> QED
          BY <3>1, <4>1 DEF IsChannel
      <3>3. ~IsChannel(raw.bytes)
        BY <2>2, <3>2
      <3> QED
        BY <2>2, <3>3 DEF PushEvent, Accept
    <2>3. CASE ~IsChannel(raw.bytes) /\ UNCHANGED <<queueVars, lost>>
      BY <2>3 DEF queueVars
    <2> QED
      BY <2>1, <2>2, <2>3 DEF TakeInput, NextInput
  <1>5. UNCHANGED <<arrived, commands, outbox, mail, played>>
    BY DEF TakeInput, worldVars, portVars
  <1>6. /\ raw.port = cursor
        /\ \A n \in DOMAIN played[cursor] :
             raw.nth = n /\ IsChannel(played[cursor][n]) => IsChannel(raw.bytes)
    <2>1. PICK tag \in Tags : tag[1] = cursor /\
            raw = [port |-> tag[1], nth |-> tag[2], bytes |-> FirstThree(Original(tag))]
      BY <1>2 DEF Raws
    <2>2. tag \in InPorts \X (Nat \ {0}) /\ tag[2] \in DOMAIN played[tag[1]]
      BY DEF Tags
    <2>3. Original(tag) \in Seq(0 .. 255)
      <3>1. played[tag[1]] \in Seq({bytes \in Seq(0 .. 255) : WellFormed(bytes)})
        BY <2>2 DEF PathInv, Delivered
      <3> QED
        BY <3>1, <2>2 DEF Original
    <2>4. raw.port = cursor /\ raw.nth = tag[2] /\ raw.bytes = FirstThree(Original(tag))
      BY <2>1
    <2>5. IsChannel(raw.bytes) <=> IsChannel(Original(tag))
      BY <2>3, <2>4, CutKeepsKind
    <2> QED
      BY <2>1, <2>4, <2>5 DEF Original
  <1>7. \A p, q : OnLine(x, p, q) =>
          IsChannel(raw.bytes) /\ raw.port = p /\ x.nth = raw.nth
    BY DEF OnLine, InputEvent, OtherEvent
  <1>8. \A p, q : IsChannel(raw.bytes) /\ raw.port = p => OnLine(x, p, q)
    BY DEF OnLine, InputEvent
  <1>9. events \in Seq(K) /\ x \in K
    <2>1. events \in Seq(Events)
      BY DEF PathInv
    <2> HIDE DEF x
    <2> QED
      BY <2>1, Queues
  <1> HIDE DEF raw, x, K
  <1>10. ASSUME NEW p \in InPorts, NEW q \in Outputs PROVE LineGoesOn(p, q)
    <2> DEFINE G == Stages(p, q)
               H == Stages(p, q)'
    <2>1. /\ G[5] = events /\ G[6] = inputs[p] /\ H[5] = events' /\ H[6] = inputs'[p]
          /\ \A l \in 1 .. 6 : l # 5 /\ l # 6 => H[l] = G[l]
      BY <1>5, StageIs, NextStageIs
    <2>2. /\ H[5] = G[5] \/ H[5] = Append(G[5], x)
          /\ G[5] \in Seq(K) /\ 5 \in 1 .. 6 /\ 5 \in 1 .. 5
      BY <1>4, <1>9, <2>1
    <2>3. CASE p # cursor
      <3>1. H[6] = G[6]
        BY <1>3, <2>1, <2>3
      <3>2. ~OnLine(x, p, q)
        BY <1>6, <1>7, <2>3
      <3>3. \A l \in 1 .. 6 : l # 5 => H[l] = G[l]
        BY <2>1, <3>1
      <3> HIDE DEF G, H
      <3>4. LineStays(G, H, p, q)
        BY <1>9, <2>2, <3>2, <3>3, OthersKeepLine
      <3> QED
        BY <3>4 DEF LineStays, LineGoesOn, G, H
    <2>4. CASE p = cursor
      <3>1. OnLine(raw, p, q)
        <4>1. LineItems(p, q)
          BY OfTheLine
        <4> QED
          BY <1>1, <1>2, <2>4, <4>1 DEF LineItems
      <3>2. G[6] # <<>> /\ raw = Head(G[6]) /\ H[6] = Tail(G[6]) /\ G[6] \in Seq(Raws(p))
        BY <1>1, <1>3, <2>1, <2>4 DEF raw
      <3> HIDE DEF G, H
      <3>3. HeadMoves(G, H, 5, 6, raw, x, p, q)
        BY <1>7, <2>1, <2>2, <3>1, <3>2 DEF HeadMoves
      <3>4. HeadMoved(G, H, 5, raw, x, p, q)
        BY <1>9, <2>2, <3>2, <3>3, HeadKeepsLine
      <3>5. ASSUME NEW n \in DOMAIN played[p], IsChannel(played[p][n]), Present(G, p, q, n)
            PROVE  Present(H, p, q, n) \/ <<p, n, q>> \in lost'
        <4>1. \/ Present(H, p, q, n)
              \/ raw.nth = n /\ (H[5] = Append(G[5], x) => ~OnLine(x, p, q))
          BY <3>4, <3>5 DEF HeadMoved
        <4>2. ASSUME raw.nth = n, H[5] = Append(G[5], x) => ~OnLine(x, p, q)
              PROVE  <<p, n, q>> \in lost'
          <5>1. IsChannel(raw.bytes) /\ raw.port = p
            BY <1>6, <2>4, <3>5, <4>2
          <5>2. OnLine(x, p, q)
            BY <1>8, <5>1
          <5>3. events' # Append(events, x)
            BY <2>1, <4>2, <5>2
          <5> QED
            BY <1>4, <4>2, <5>1, <5>3
        <4> QED
          BY <4>1, <4>2
      <3> QED
        BY <3>4, <3>5 DEF HeadMoved, LineGoesOn, G, H
    <2> QED
      BY <2>3, <2>4
  <1> QED
    BY <1>4, <1>5, <1>10, LinesGoOn

(* The other steps leave every line as it was. *)
LEMMA OthersKeepLines ==
  ASSUME PathInv, LinesKept,
         \/ StopRuntime \/ CommandsTaken \/ NextPort \/ InputsTaken \/ Report
         \/ NextSystem \/ Flushed \/ UNCHANGED pathVars
  PROVE  LinesKept'
  <1>1. UNCHANGED <<inputs, mail, outbox, commands, played, arrived, lost>>
    BY DEF StopRuntime, CommandsTaken, NextPort, InputsTaken, Report, NextSystem, Flushed,
           pathVars, worldVars, portVars
  <1>2. events' = events \/ events' = Append(events, Overflow)
    BY DEF StopRuntime, CommandsTaken, NextPort, InputsTaken, Report, NextSystem,
           Flushed, pathVars, queueVars, PushReport, Accept
  <1>3. events \in Seq(Events) /\ Overflow \in Events
    BY DEF PathInv, Events
  <1>4. ASSUME NEW p \in InPorts, NEW q \in Outputs PROVE LineGoesOn(p, q)
    <2> DEFINE G == Stages(p, q)
               H == Stages(p, q)'
    <2>1. /\ H[5] = G[5] \/ H[5] = Append(G[5], Overflow)
          /\ G[5] \in Seq(Events) /\ 5 \in 1 .. 6
          /\ \A l \in 1 .. 6 : l # 5 => H[l] = G[l]
      BY <1>1, <1>2, <1>3, StageIs, NextStageIs
    <2>2. ~OnLine(Overflow, p, q)
      BY DEF OnLine, Overflow
    <2> HIDE DEF G, H
    <2>3. LineStays(G, H, p, q)
      BY <1>3, <2>1, <2>2, OthersKeepLine
    <2> QED
      BY <2>3 DEF LineStays, LineGoesOn, G, H
  <1> QED
    BY <1>1, <1>4, LinesGoOn

(* Whatever is of a line was played on its input port. *)
LEMMA LineIsPlayed ==
  ASSUME PathInv, NEW p \in InPorts, NEW q \in Outputs, NEW l \in 1 .. 6,
         NEW j \in DOMAIN Stages(p, q)[l], OnLine(Stages(p, q)[l][j], p, q)
  PROVE  Stages(p, q)[l][j].nth \in DOMAIN played[p]
  <1> DEFINE item == Stages(p, q)[l][j]
  <1>1. \A tag \in Tags : tag[2] \in DOMAIN played[tag[1]]
    BY DEF Tags
  <1>2. \A tag \in ChannelTags : tag[2] \in DOMAIN played[tag[1]]
    BY <1>1 DEF ChannelTags
  <1>3. \/ item \in Arrivals(q) \/ item \in Commands \/ item \in Mails \/ item \in Events
        \/ item \in Raws(p)
    <2>1. /\ arrived[q] \in Seq(Arrivals(q)) /\ commands \in Seq(Commands)
          /\ outbox \in Seq(Commands) /\ mail \in Seq(Mails) /\ events \in Seq(Events)
          /\ inputs[p] \in Seq(Raws(p))
      BY DEF PathInv
    <2>2. \A T, s : s \in Seq(T) => \A i \in DOMAIN s : s[i] \in T
      OBVIOUS
    <2>3. Stages(p, q)[l] \in {arrived[q], commands, outbox, mail, events, inputs[p]}
      BY StageIs
    <2> QED
      BY <2>1, <2>2, <2>3
  <1>4. CASE item \in Arrivals(q)
    BY <1>2, <1>4 DEF Arrivals, OnLine
  <1>5. CASE item \in Commands
    BY <1>2, <1>5 DEF Commands, OnLine
  <1>6. CASE item \in Mails
    BY <1>2, <1>6 DEF Mails, OnLine
  <1>7. CASE item \in Events
    BY <1>2, <1>7 DEF Events, OnLine, OtherEvent, Overflow
  <1>8. CASE item \in Raws(p)
    BY <1>1, <1>8 DEF Raws, OnLine
  <1> QED
    BY <1>3, <1>4, <1>5, <1>6, <1>7, <1>8

(* What is played comes after all that was played on the port before, or   *)
(* is lost for every output.                                               *)
LEMMA PlayKeepsLines ==
  ASSUME PathInv, LinesKept, NEW o \in InPorts, NEW bytes \in Playable[o], Play(o, bytes)
  PROVE  LinesKept'
  <1> DEFINE x == Raw(o, bytes)
             m == Len(played[o]) + 1
             K == Raws(o) \cup {x}
  <1>1. x.port = o /\ x.nth = m /\ "port" \in DOMAIN x /\ "out" \notin DOMAIN x
    BY DEF Raw
  <1>2. /\ DOMAIN inputs = InPorts /\ inputs[o] \in Seq(K) /\ x \in K
        /\ \/ inputs' = [inputs EXCEPT ![o] = Append(@, x)] /\ UNCHANGED lost
           \/ UNCHANGED inputs /\ lost' = lost \cup {<<x.port, x.nth, q>> : q \in Outputs}
    <2>1. DOMAIN inputs = InPorts /\ inputs[o] \in Seq(Raws(o))
      BY DEF PathInv
    <2>2. inputs[o] \in Seq(K) /\ x \in K
      BY <2>1, Queues
    <2>3. \/ inputs' = [inputs EXCEPT ![o] = Append(@, x)] /\ UNCHANGED lost
          \/ UNCHANGED inputs /\ lost' = lost \cup {<<x.port, x.nth, q>> : q \in Outputs}
      BY DEF Play, Lose
    <2> QED
      BY <2>1, <2>2, <2>3
  <1>3. /\ m \in Nat /\ \A n \in DOMAIN played[o] : n < m
        /\ \A n \in DOMAIN played'[o] :
             n = m \/ (n \in DOMAIN played[o] /\ played'[o][n] = played[o][n])
        /\ \A p \in InPorts : p # o => played'[p] = played[p]
    <2> DEFINE W == {b \in Seq(0 .. 255) : WellFormed(b)}
    <2>1. /\ played \in [InPorts -> Seq(W)] /\ bytes \in W
          /\ played'[o] = Append(played[o], bytes)
          /\ \A p \in InPorts : p # o => played'[p] = played[p]
      BY PathAssumption DEF PathInv, Delivered, Play, PathAssumption
    <2> HIDE DEF W
    <2> QED
      BY <2>1
  <1>4. UNCHANGED <<arrived, commands, outbox, mail, events>>
    BY DEF Play, queueVars, worldVars
  <1> HIDE DEF x, m, K
  <1>5. ASSUME NEW p \in InPorts, NEW q \in Outputs
        PROVE  LineStays(Stages(p, q), Stages(p, q)', p, q)
               /\ (p = o => Present(Stages(p, q)', p, q, m) \/ <<p, m, q>> \in lost')
    <2> DEFINE G == Stages(p, q)
               H == Stages(p, q)'
    <2>1. /\ G[6] = inputs[p] /\ H[6] = inputs'[p] /\ 6 \in 1 .. 6
          /\ \A l \in 1 .. 6 : l # 6 => H[l] = G[l]
      BY <1>4, StageIs, NextStageIs
    <2>2. OnLine(x, p, q) <=> p = o
      BY <1>1 DEF OnLine
    <2>3. CASE p # o
      <3>1. \A l \in 1 .. 6 : H[l] = G[l]
        BY <1>2, <2>1, <2>3
      <3> HIDE DEF G, H
      <3>2. LineStays(G, H, p, q)
        BY <3>1, SameKeepsLine
      <3> QED
        BY <2>3, <3>2 DEF G, H
    <2>4. CASE p = o /\ inputs'[p] = Append(inputs[p], x)
      <3>1. \A l \in 1 .. 6 : \A j \in DOMAIN G[l] : OnLine(G[l][j], p, q) => G[l][j].nth < x.nth
        BY <1>1, <1>3, <2>4, LineIsPlayed
      <3>2. G[6] \in Seq(K) /\ H[6] = Append(G[6], x) /\ OnLine(x, p, q)
        BY <1>2, <2>1, <2>2, <2>4
      <3> HIDE DEF G, H
      <3>3. x \in K
        BY <1>2
      <3>4. /\ Ordered(G, p, q) => Ordered(H, p, q)
            /\ \A n : Present(G, p, q, n) => Present(H, p, q, n)
            /\ Present(H, p, q, x.nth)
        BY <2>1, <3>1, <3>2, <3>3, JoinKeepsLine, ZenonT(30)
      <3>5. LineStays(G, H, p, q) /\ Present(H, p, q, x.nth)
        BY <3>4 DEF LineStays
      <3> QED
        BY <1>1, <3>5 DEF G, H
    <2>5. CASE p = o /\ UNCHANGED inputs /\ <<p, m, q>> \in lost'
      <3>1. \A l \in 1 .. 6 : H[l] = G[l]
        BY <2>1, <2>5
      <3> HIDE DEF G, H
      <3>2. LineStays(G, H, p, q)
        BY <3>1, SameKeepsLine
      <3> QED
        BY <2>5, <3>2 DEF G, H
    <2>6. p = o => inputs'[p] = Append(inputs[p], x) \/ (UNCHANGED inputs /\ <<p, m, q>> \in lost')
      BY <1>1, <1>2
    <2> QED
      BY <2>3, <2>4, <2>5, <2>6
  <1>6. InOrder'
    <2>1. \A p \in InPorts, q \in Outputs : Ordered(Stages(p, q)', p, q)
      BY <1>5 DEF LinesKept, InOrder, LineStays
    <2> QED
      BY <2>1 DEF InOrder, InPorts
  <1>7. ASSUME NEW p \in InPorts, NEW q \in Routed(p), NEW n \in DOMAIN played'[p],
               IsChannel(played'[p][n])
        PROVE  <<p, n, q>> \in lost' \/ Present(Stages(p, q)', p, q, n)
    <2>1. q \in Outputs
      BY PathAssumption DEF PathAssumption, Routed
    <2>2. CASE p = o /\ n = m
      BY <1>5, <2>1, <2>2
    <2>3. CASE n \in DOMAIN played[p] /\ played'[p][n] = played[p][n]
      <3>1. <<p, n, q>> \in lost \/ Present(Stages(p, q), p, q, n)
        BY <1>7, <2>3 DEF LinesKept, NoneMissing
      <3>2. lost \subseteq lost'
        BY <1>2
      <3> QED
        BY <1>5, <2>1, <3>1, <3>2 DEF LineStays
    <2> QED
      BY <1>3, <2>2, <2>3
  <1>8. NoneMissing'
    BY <1>7 DEF NoneMissing, InPorts, Routed
  <1> QED
    BY <1>6, <1>8 DEF LinesKept

(* No line has anything at first. *)
LEMMA LinesBegin == PathInit => LinesKept
  <1> SUFFICES ASSUME PathInit PROVE LinesKept
    OBVIOUS
  <1>1. ASSUME NEW p \in InPorts, NEW q \in Outputs, NEW l \in 1 .. 6
        PROVE  Stages(p, q)[l] = <<>>
    BY StageIs DEF PathInit, InitQueue
  <1>2. InOrder
    BY <1>1 DEF InOrder, Ordered
  <1>3. \A p \in InPorts : played[p] = <<>>
    BY DEF PathInit
  <1>4. NoneMissing
    BY <1>3 DEF NoneMissing
  <1> QED
    BY <1>2, <1>4 DEF LinesKept

(* From an input port to an output port no message overtakes another or is *)
(* doubled, and a channel message that was played is on its way, has       *)
(* arrived, or was given up at a full queue or a lost port: whatever the   *)
(* sizes of the queues, the routes and the order in which the callbacks,   *)
(* the thread and the world take their turns.                              *)
THEOREM LinesAreKept == PathSpec => []LinesKept
  <1>1. PathInv /\ [PathNext]_pathVars => PathInv'
    BY PlayKeeps, TakeKeeps, SendKeeps, DrainKeeps, ForwardKeeps, FlushKeeps, OthersKeep
       DEF PathNext
  <1>2. PathInv /\ LinesKept /\ [PathNext]_pathVars => LinesKept'
    BY PlayKeepsLines, TakeKeepsLines, SendKeepsLines, DrainKeepsLines, ForwardKeepsLines,
       FlushKeepsLines, OthersKeepLines
       DEF PathNext
  <1> QED
    BY <1>1, <1>2, PathBegins, LinesBegin, PTL DEF PathSpec
=============================================================================
