--------------------------- MODULE RtMasterProofs ---------------------------
(***************************************************************************)
(* For every resolution, length of beat count, set of tempos and capacity  *)
(* of the queues: devices that follow the wire of the master clock are     *)
(* where it is, overflow reports are honest, and what the world is told of *)
(* the clock agrees with it.                                               *)
(***************************************************************************)
EXTENDS RtMaster, WellFoundedInduction, TLAPS

(* The position of the clock, as one number, moves on by one.              *)
LEMMA FrameBounds ==
  ASSUME NEW b \in 0 .. Beats - 1, NEW s \in 0 .. Ppqn - 1
  PROVE  /\ b * Ppqn \in Nat /\ b * Ppqn + Ppqn <= Frames
         /\ Frames \in Nat /\ Frames > 0
         /\ b = Beats - 1 => b * Ppqn + Ppqn = Frames
         /\ (b + 1) * Ppqn = b * Ppqn + Ppqn
  <1>1. Ppqn \in Nat \ {0} /\ Beats \in Nat \ {0}
    BY MasterAssumption DEF MasterAssumption
  <1>2. ASSUME NEW P \in Nat \ {0}, NEW B \in Nat \ {0}, NEW x \in 0 .. B - 1
        PROVE  /\ x * P \in Nat /\ x * P + P <= P * B /\ P * B \in Nat /\ P * B > 0
               /\ x = B - 1 => x * P + P = P * B
               /\ (x + 1) * P = x * P + P
    <2>1. (x + 1) * P = x * P + P /\ x * P \in Nat /\ P * B \in Nat
      BY SMTT(30)
    <2>2. PICK d \in Nat : B = x + 1 + d
      <3>1. B - (x + 1) \in Nat /\ B = x + 1 + (B - (x + 1))
        OBVIOUS
      <3> QED
        BY <3>1
    <2>3. P * B = (x + 1) * P + P * d /\ P * d \in Nat
      BY <2>2, SMTT(30)
    <2>4. x = B - 1 => P * B = (x + 1) * P
      BY SMTT(30)
    <2>5. P * B > 0
      BY SMTT(30)
    <2> QED
      BY <2>1, <2>3, <2>4, <2>5
  <1> QED
    BY <1>1, <1>2 DEF Frames

LEMMA Remainders ==
  ASSUME NEW n \in Nat \ {0}
  PROVE  n % n = 0 /\ \A k \in 0 .. n - 1 : k % n = k
  OBVIOUS

LEMMA FrameAdvances ==
  ASSUME beat \in 0 .. Beats - 1, subdivision \in 0 .. Ppqn - 1
  PROVE  /\ Frame \in AllFrames
         /\ Advanced[1] \in 0 .. Beats - 1 /\ Advanced[2] \in 0 .. Ppqn - 1
         /\ (Frame + 1) % Frames = Advanced[1] * Ppqn + Advanced[2]
  <1> DEFINE x == beat * Ppqn
  <1>1. /\ x \in Nat /\ x + Ppqn <= Frames /\ Frames \in Nat \ {0}
        /\ beat = Beats - 1 => x + Ppqn = Frames
        /\ (beat + 1) * Ppqn = x + Ppqn
    BY FrameBounds
  <1>2. Ppqn \in Nat \ {0} /\ Beats \in Nat \ {0}
    BY MasterAssumption DEF MasterAssumption
  <1>3. Frame = x + subdivision
    BY DEF Frame
  <1>4. CASE subdivision + 1 < Ppqn
    <2>1. Advanced = <<beat, subdivision + 1>>
      BY <1>2, <1>4 DEF Advanced
    <2> HIDE DEF x
    <2>2. Frame + 1 \in 0 .. Frames - 1
      BY <1>1, <1>2, <1>3, <1>4
    <2>3. (Frame + 1) % Frames = Frame + 1
      BY <1>1, <2>2, Remainders
    <2> QED
      BY <1>1, <1>2, <1>3, <1>4, <2>1, <2>3 DEF x, AllFrames
  <1>5. CASE subdivision + 1 = Ppqn /\ beat + 1 < Beats
    <2>1. (beat + 1) % Beats = beat + 1
      BY <1>2, <1>5, Remainders
    <2>2. Advanced = <<beat + 1, 0>>
      BY <1>2, <1>5, <2>1 DEF Advanced
    <2>3. (beat + 1) * Ppqn + Ppqn <= Frames
      <3>1. beat + 1 \in 0 .. Beats - 1
        BY <1>2, <1>5
      <3> QED
        BY <3>1, FrameBounds
    <2> HIDE DEF x
    <2>4. Frame + 1 = x + Ppqn /\ Frame + 1 \in 0 .. Frames - 1
      BY <1>1, <1>2, <1>3, <1>5, <2>3
    <2>5. (Frame + 1) % Frames = Frame + 1
      BY <1>1, <2>4, Remainders
    <2>6. Frame \in AllFrames
      BY <1>1, <1>3, <2>4 DEF AllFrames
    <2>7. Advanced[1] * Ppqn + Advanced[2] = x + Ppqn
      BY <1>1, <1>2, <2>2
    <2> QED
      BY <1>2, <1>5, <2>2, <2>4, <2>5, <2>6, <2>7
  <1>6. CASE subdivision + 1 = Ppqn /\ beat + 1 = Beats
    <2>1. (beat + 1) % Beats = 0
      BY <1>2, <1>6, Remainders
    <2>2. Advanced = <<0, 0>>
      BY <1>2, <1>6, <2>1 DEF Advanced
    <2> HIDE DEF x
    <2>3. Frame + 1 = Frames
      BY <1>1, <1>2, <1>3, <1>6
    <2>4. (Frame + 1) % Frames = 0
      BY <1>1, <2>3, Remainders
    <2>5. Frame \in AllFrames
      BY <1>1, <1>3, <2>3 DEF AllFrames
    <2>6. 0 * Ppqn + 0 = 0
      BY <1>2
    <2> QED
      BY <1>2, <2>2, <2>4, <2>5, <2>6
  <1> QED
    BY <1>2, <1>4, <1>5, <1>6
-----------------------------------------------------------------------------
(* The types of the queues and of the position. *)
QueueTypes ==
  /\ events \in Seq(Event) /\ gaps \in Seq(Nat) /\ Len(gaps) = Len(events)
  /\ missed \in Nat /\ overflows \in Nat /\ reporting \in BOOLEAN
LoopTypes ==
  /\ commands \in Seq(Command) /\ inputs \in Seq(Received)
  /\ beat \in 0 .. Beats - 1 /\ subdivision \in 0 .. Ppqn - 1
Types == QueueTypes /\ LoopTypes

LEMMA AcceptKeepsTypes ==
  ASSUME QueueTypes, NEW e \in Event, Accept(e)
  PROVE  /\ events' \in Seq(Event) /\ gaps' \in Seq(Nat) /\ Len(gaps') = Len(events')
         /\ missed' \in Nat
  <1>1. events' = Append(events, e) /\ gaps' = Append(gaps, missed) /\ missed' = 0
    BY DEF Accept
  <1>2. events' \in Seq(Event) /\ Len(events') = Len(events) + 1
    BY <1>1 DEF QueueTypes
  <1>3. gaps' \in Seq(Nat) /\ Len(gaps') = Len(gaps) + 1
    BY <1>1 DEF QueueTypes
  <1> QED
    BY <1>1, <1>2, <1>3 DEF QueueTypes

LEMMA PushKeepsTypes ==
  ASSUME QueueTypes, NEW e \in Event, PushEvent(e)
  PROVE  QueueTypes'
  <1>1. Threshold \in Nat \ {0}
    BY QueueAssumption DEF QueueAssumption
  <1>2. CASE HasRoom
    <2>1. Accept(e) /\ overflows' = 0 /\ reporting' = reporting
      BY <1>2 DEF PushEvent, AfterSuccess
    <2> QED
      BY <2>1, AcceptKeepsTypes DEF QueueTypes
  <1>3. CASE ~HasRoom
    <2>1. /\ overflows' = overflows + 1
          /\ missed' = IF missed < Threshold THEN missed + 1 ELSE missed
          /\ events' = events /\ gaps' = gaps
      BY <1>3 DEF PushEvent
    <2>2. reporting' \in BOOLEAN
      <3>1. reporting' = (overflows' >= Threshold)
        BY <1>3, Zenon DEF PushEvent
      <3>2. (overflows' >= Threshold) \in BOOLEAN
        OBVIOUS
      <3> QED
        BY <3>1, <3>2, Zenon
    <2> QED
      BY <1>1, <2>1, <2>2 DEF QueueTypes
  <1> QED
    BY <1>2, <1>3

LEMMA ReportKeepsTypes ==
  ASSUME QueueTypes, PushReport
  PROVE  QueueTypes'
  <1>1. Overflow \in Event
    BY DEF Event
  <1> QED
    <2>1. CASE HasRoom
      <3>1. Accept(Overflow) /\ overflows' = 0 /\ reporting' = FALSE
        BY <2>1 DEF PushReport
      <3> QED
        BY <1>1, <3>1, AcceptKeepsTypes DEF QueueTypes
    <2>2. CASE ~HasRoom
      BY <2>2 DEF PushReport, QueueTypes
    <2> QED
      BY <2>1, <2>2

LEMMA PopKeepsTypes ==
  ASSUME QueueTypes, PopEvent
  PROVE  QueueTypes'
  <1>1. Tail(events) \in Seq(Event) /\ Tail(gaps) \in Seq(Nat) /\ Len(Tail(gaps)) = Len(Tail(events))
    BY DEF QueueTypes, PopEvent
  <1> QED
    BY <1>1 DEF QueueTypes, PopEvent, producerVars

(* A position command leads to the frame of its position. *)
LEMMA PositionFrame ==
  ASSUME NEW p \in Positions
  PROVE  /\ PositionAt(p)[1] \in 0 .. Beats - 1 /\ PositionAt(p)[2] \in 0 .. Ppqn - 1
         /\ FrameOf(p) = PositionAt(p)[1] * Ppqn + PositionAt(p)[2]
         /\ FrameOf(p) \in AllFrames
         /\ WirePosition(p) = p
  <1>1. p \in 0 .. 16383 /\ Ppqn \in Nat \ {0} /\ Ppqn % 4 = 0 /\ Beats \in Nat \ {0}
    BY MasterAssumption, SMTT(30) DEF MasterAssumption
  <1>2. WirePosition(p) = p
    BY <1>1 DEF WirePosition
  <1>3. (p \div 4) % Beats \in 0 .. Beats - 1
    <2>1. ASSUME NEW B \in Nat \ {0}, NEW n \in Nat PROVE n % B \in 0 .. B - 1
      OBVIOUS
    <2>2. p \div 4 \in Nat
      BY <1>1
    <2> QED
      BY <1>1, <2>1, <2>2
  <1>4. (p % 4) * (Ppqn \div 4) \in 0 .. Ppqn - 1
    <2>1. PICK q \in Nat \ {0} : Ppqn = 4 * q /\ Ppqn \div 4 = q
      <3>1. Ppqn \div 4 \in Nat \ {0} /\ Ppqn = 4 * (Ppqn \div 4)
        BY <1>1
      <3> QED
        BY <3>1
    <2>2. p % 4 \in {0, 1, 2, 3}
      BY <1>1
    <2> QED
      BY <2>1, <2>2
  <1>5. PositionAt(p) = <<(p \div 4) % Beats, (p % 4) * (Ppqn \div 4)>>
    BY DEF PositionAt
  <1>6. FrameOf(p) = ((p \div 4) % Beats) * Ppqn + (p % 4) * (Ppqn \div 4)
    BY DEF FrameOf
  <1>7. ASSUME NEW b \in 0 .. Beats - 1, NEW u \in 0 .. Ppqn - 1
        PROVE  b * Ppqn + u \in AllFrames
    <2>1. b * Ppqn \in Nat /\ b * Ppqn + Ppqn <= Frames /\ Frames \in Nat
      BY FrameBounds
    <2> DEFINE x == b * Ppqn
    <2> HIDE DEF x
    <2>2. x \in Nat /\ x + Ppqn <= Frames => x + u \in 0 .. Frames - 1
      BY <1>1, <2>1
    <2> QED
      BY <2>1, <2>2 DEF x, AllFrames
  <1> QED
    BY <1>2, <1>3, <1>4, <1>5, <1>6, <1>7

LEMMA CommandFields ==
  ASSUME NEW c \in Command
  PROVE  /\ c.type = "position" => c.position \in Positions
         /\ c.type = "transport" => c.what \in {"Start", "Stop", "Continue"}
         /\ c.type = "tempo" => c.interval \in Intervals
  BY DEF Command

(* Every step keeps the types. *)
LEMMA CommandKeepsTypes ==
  ASSUME Types, TakeCommand
  PROVE  Types'
  <1> DEFINE c == Head(commands)
  <1>1. c \in Command /\ commands' \in Seq(Command) /\ inputs' \in Seq(Received)
    BY DEF Types, LoopTypes, TakeCommand
  <1>2. Ppqn \in Nat \ {0} /\ Beats \in Nat \ {0}
    BY MasterAssumption DEF MasterAssumption
  <1> HIDE DEF c
  <1>3. CASE TakeTransport(c)
    <2>1. Transport(c.what) \in Event /\ PushEvent(Transport(c.what))
      BY <1>1, <1>3, CommandFields DEF TakeTransport, Event
    <2>2. QueueTypes'
      BY <2>1, PushKeepsTypes DEF Types
    <2>3. beat' \in 0 .. Beats - 1 /\ subdivision' \in 0 .. Ppqn - 1
      BY <1>2, <1>3 DEF TakeTransport, StartPosition, Types, LoopTypes
    <2> QED
      BY <1>1, <2>2, <2>3 DEF Types, LoopTypes
  <1>4. CASE TakePosition(c)
    <2>1. c.position \in Positions
      BY <1>1, <1>4, CommandFields DEF TakePosition
    <2>2. SongPosition(c.position) \in Event /\ PushEvent(SongPosition(c.position))
      BY <1>4, <2>1 DEF TakePosition, Event
    <2>3. QueueTypes'
      BY <2>2, PushKeepsTypes DEF Types
    <2>4. beat' \in 0 .. Beats - 1 /\ subdivision' \in 0 .. Ppqn - 1
      BY <1>4, <2>1, PositionFrame DEF TakePosition
    <2> QED
      BY <1>1, <2>3, <2>4 DEF Types, LoopTypes
  <1>5. CASE TakeTempo(c) \/ TakeMidi(c) \/ TakeShutdown(c)
    BY <1>1, <1>5 DEF TakeTempo, TakeMidi, TakeShutdown, Types, LoopTypes, QueueTypes,
                      queueVars, producerVars
  <1> QED
    BY <1>3, <1>4, <1>5 DEF TakeCommand, c

LEMMA TypesHold == Types /\ [Next]_vars => Types'
  <1> SUFFICES ASSUME Types, [Next]_vars PROVE Types'
    OBVIOUS
  <1> USE DEF Types
  <1>1. CASE DrainEvent
    BY <1>1, PopKeepsTypes DEF DrainEvent, LoopTypes, clockVars
  <1>2. ASSUME NEW k \in Sent, SendCommand(k) PROVE Types'
    <2>1. k \in Command
      BY MasterAssumption DEF MasterAssumption
    <2> QED
      BY <1>2, <2>1 DEF SendCommand, LoopTypes, QueueTypes, queueVars, producerVars, clockVars
  <1>3. ASSUME NEW message \in Received, Receive(message) PROVE Types'
    BY <1>3 DEF Receive, LoopTypes, QueueTypes, queueVars, producerVars, clockVars
  <1>4. CASE PriorityRefused
    <2>1. PriorityWarning \in Event
      BY DEF Event
    <2>2. QueueTypes'
      BY <1>4, <2>1, PushKeepsTypes DEF PriorityRefused, QueueTypes, queueVars, producerVars
    <2> QED
      BY <1>4, <2>2 DEF PriorityRefused, LoopTypes, loopVars, clockVars
  <1>5. CASE Report
    BY <1>5, ReportKeepsTypes DEF Report, LoopTypes, loopVars, clockVars
  <1>6. CASE TakeCommand
    BY <1>6, CommandKeepsTypes
  <1>7. CASE Pulse
    <2>1. Frame \in AllFrames /\ Advanced[1] \in 0 .. Beats - 1 /\ Advanced[2] \in 0 .. Ppqn - 1
      BY FrameAdvances DEF LoopTypes
    <2>2. Tick(Frame) \in Event
      BY <2>1 DEF Event
    <2>3. QueueTypes'
      BY <1>7, <2>2, PushKeepsTypes DEF Pulse
    <2> QED
      BY <1>7, <2>1, <2>3 DEF Pulse, LoopTypes, loopVars
  <1>8. CASE TakeInput
    <2>1. Head(inputs) \in Received /\ inputs' \in Seq(Received)
      BY <1>8 DEF TakeInput, LoopTypes
    <2>2. Note \in Event /\ (\A p \in Positions : FromPort(SongPosition(p)) \in Event)
          /\ \A w \in {"Start", "Stop", "Continue"} : FromPort(Transport(w)) \in Event
      BY DEF Event, PortEvents
    <2>3. QueueTypes'
      <3>1. CASE UNCHANGED queueVars
        BY <3>1 DEF QueueTypes, queueVars, producerVars
      <3>2. CASE ~UNCHANGED queueVars
        <4>1. PICK e \in Event : PushEvent(e)
          BY <1>8, <2>2, <3>2 DEF TakeInput
        <4> QED
          BY <4>1, PushKeepsTypes
      <3> QED
        BY <3>1, <3>2
    <2> QED
      BY <1>8, <2>1, <2>3 DEF TakeInput, LoopTypes, clockVars
  <1>9. CASE StartRuntime \/ StartReturns \/ Stop \/ Join \/ ElevatePriority \/ OpenPorts
             \/ CheckShutdown \/ CommandsDrained \/ TimePasses \/ Wake \/ InputsDrained
             \/ UNCHANGED vars
    BY <1>9 DEF StartRuntime, StartReturns, Stop, Join, ElevatePriority, OpenPorts, CheckShutdown,
                CommandsDrained, TimePasses, Wake, InputsDrained, vars, QueueTypes, LoopTypes,
                queueVars, producerVars, clockVars, loopVars
  <1> QED
    BY <1>1, <1>2, <1>3, <1>4, <1>5, <1>6, <1>7, <1>8, <1>9 DEF Next, ThreadStep
-----------------------------------------------------------------------------
(* Followers: the byte of a transport command and the pulse move the clock *)
(* and those who follow it alike.                                          *)
FollowInv == Types /\ FollowersInStep

LEMMA FollowersKept == FollowInv /\ [Next]_vars => FollowInv'
  <1> SUFFICES ASSUME FollowInv, [Next]_vars, SendTransport PROVE follower' = Frame'
    BY TypesHold DEF FollowInv, FollowersInStep
  <1>0. Types /\ follower = Frame
    BY DEF FollowInv, FollowersInStep
  <1>1. CASE UNCHANGED <<beat, subdivision, follower>>
    BY <1>0, <1>1 DEF Frame
  <1>2. CASE TakeCommand
    <2> DEFINE c == Head(commands)
    <2>1. c \in Command
      BY <1>0, <1>2 DEF Types, LoopTypes, TakeCommand
    <2> HIDE DEF c
    <2>2. CASE TakeTransport(c)
      <3>1. CASE c.what = "Start"
        <4>1. beat' = 0 /\ subdivision' = 0 /\ follower' = 0
          BY <2>2, <3>1 DEF TakeTransport, StartPosition, Follow
        <4>2. 0 * Ppqn + 0 = 0
          BY MasterAssumption DEF MasterAssumption
        <4> QED
          BY <4>1, <4>2 DEF Frame
      <3>2. CASE c.what # "Start"
        BY <1>1, <2>2, <3>2 DEF TakeTransport
      <3> QED
        BY <3>1, <3>2
    <2>3. CASE TakePosition(c)
      <3>1. c.position \in Positions
        BY <2>1, <2>3, CommandFields DEF TakePosition
      <3>2. WirePosition(c.position) = c.position
            /\ FrameOf(c.position) = PositionAt(c.position)[1] * Ppqn + PositionAt(c.position)[2]
        BY <3>1, PositionFrame
      <3>3. follower' = FrameOf(WirePosition(c.position))
            /\ beat' = PositionAt(c.position)[1] /\ subdivision' = PositionAt(c.position)[2]
        BY <2>3 DEF TakePosition, Follow
      <3> QED
        BY <3>2, <3>3 DEF Frame
    <2>4. CASE TakeTempo(c) \/ TakeMidi(c) \/ TakeShutdown(c)
      BY <1>1, <2>4 DEF TakeTempo, TakeMidi, TakeShutdown
    <2> QED
      BY <1>2, <2>2, <2>3, <2>4 DEF TakeCommand, c
  <1>3. CASE Pulse
    <2>1. (Frame + 1) % Frames = Advanced[1] * Ppqn + Advanced[2]
      BY <1>0, FrameAdvances DEF Types, LoopTypes
    <2> QED
      BY <1>0, <1>3, <2>1 DEF Pulse, Frame
  <1>4. CASE ~TakeCommand /\ ~Pulse
    BY <1>1, <1>4 DEF Next, ThreadStep, StartRuntime, StartReturns, Stop, Join, DrainEvent,
                      SendCommand, Receive, ElevatePriority, PriorityRefused, OpenPorts, Report,
                      CheckShutdown, CommandsDrained, TimePasses, Wake, TakeInput, InputsDrained,
                      vars, clockVars, loopVars
  <1> QED
    BY <1>2, <1>3, <1>4

LEMMA TypesInit == Init => Types
  <1> SUFFICES ASSUME Init PROVE Types
    OBVIOUS
  <1>1. Ppqn \in Nat \ {0} /\ Beats \in Nat \ {0}
    BY MasterAssumption DEF MasterAssumption
  <1>2. QueueTypes
    <2>1. events = <<>> /\ gaps = <<>> /\ overflows = 0 /\ missed = 0 /\ reporting = FALSE
      BY DEF Init, InitQueue
    <2>2. events \in Seq(Event) /\ gaps \in Seq(Nat) /\ Len(gaps) = Len(events)
      BY <2>1
    <2> QED
      BY <2>1, <2>2 DEF QueueTypes
  <1>3. commands \in Seq(Command) /\ inputs \in Seq(Received)
    BY DEF Init
  <1>4. beat \in 0 .. Beats - 1 /\ subdivision \in 0 .. Ppqn - 1
    BY <1>1 DEF Init
  <1> QED
    BY <1>2, <1>3, <1>4 DEF Types, LoopTypes

(* A device on the wire that counts pulses and obeys Start, Continue, Stop *)
(* and song positions is always where the master clock is.                 *)
THEOREM FollowersStayInStep == Spec => []FollowersInStep
  <1>1. Init => FollowInv
    <2> SUFFICES ASSUME Init PROVE FollowersInStep
      BY TypesInit DEF FollowInv
    <2>1. 0 * Ppqn + 0 = 0
      BY MasterAssumption DEF MasterAssumption
    <2> QED
      BY <2>1 DEF Init, FollowersInStep, Frame
  <1>2. FollowInv => FollowersInStep
    BY DEF FollowInv
  <1> QED
    BY <1>1, <1>2, FollowersKept, PTL DEF Spec
-----------------------------------------------------------------------------
(* Reports: the failures counted since the last success are all lost       *)
(* events.                                                                 *)
CountInv ==
  /\ missed >= overflows \/ missed >= Threshold
  /\ reporting => missed >= Threshold
ReportInv == Types /\ CountInv /\ ReportsAreHonest

LEMMA PushIsHonest ==
  ASSUME QueueTypes, CountInv, ReportsAreHonest, NEW e \in Event, e # Overflow, PushEvent(e)
  PROVE  CountInv' /\ ReportsAreHonest'
  <1>1. Threshold \in Nat \ {0}
    BY QueueAssumption DEF QueueAssumption
  <1>2. CASE HasRoom
    <2>1. /\ events' = Append(events, e) /\ gaps' = Append(gaps, missed) /\ missed' = 0
          /\ overflows' = 0 /\ reporting' = FALSE
      BY <1>2 DEF PushEvent, AfterSuccess, Accept, QueueTypes
    <2>2. ReportsAreHonest'
      <3> SUFFICES ASSUME NEW i \in DOMAIN events', events'[i] = Overflow
                   PROVE  gaps'[i] >= Threshold
        BY DEF ReportsAreHonest
      <3>1. i \in DOMAIN events /\ events'[i] = events[i] /\ gaps'[i] = gaps[i]
        BY <2>1 DEF QueueTypes
      <3> QED
        BY <3>1 DEF ReportsAreHonest
    <2> QED
      BY <2>1, <2>2 DEF CountInv
  <1>3. CASE ~HasRoom
    <2>1. /\ overflows' = overflows + 1
          /\ missed' = IF missed < Threshold THEN missed + 1 ELSE missed
          /\ reporting' = (overflows' >= Threshold)
          /\ events' = events /\ gaps' = gaps
      BY <1>3, Zenon DEF PushEvent
    <2>2. missed' >= overflows' \/ missed' >= Threshold
      BY <1>1, <2>1 DEF QueueTypes, CountInv
    <2>3. reporting' => missed' >= Threshold
      <3> SUFFICES ASSUME overflows' >= Threshold PROVE missed' >= Threshold
        BY <2>1, Zenon
      <3>1. missed' \in Nat /\ overflows' \in Nat
        BY <1>1, <2>1 DEF QueueTypes
      <3> QED
        BY <1>1, <2>2, <3>1
    <2> QED
      BY <2>1, <2>2, <2>3 DEF CountInv, ReportsAreHonest
  <1> QED
    BY <1>2, <1>3

LEMMA QueueStep ==
  ASSUME Types, [Next]_vars
  PROVE  \/ UNCHANGED queueVars
         \/ PopEvent \/ PushReport
         \/ \E e \in Event : e # Overflow /\ PushEvent(e)
  <1>0. /\ \A f \in AllFrames : Tick(f) \in Event /\ Tick(f) # Overflow
        /\ \A p \in Positions : SongPosition(p) \in Event /\ SongPosition(p) # Overflow
        /\ \A w \in {"Start", "Stop", "Continue"} :
             Transport(w) \in Event /\ Transport(w) # Overflow
        /\ \A e \in PortEvents : e \in Event /\ e # Overflow
        /\ Note \in Event /\ Note # Overflow
        /\ PriorityWarning \in Event /\ PriorityWarning # Overflow
    <2>1. \A e \in PortEvents : e.type = "port" /\ e \in Event
      BY DEF PortEvents, FromPort, Event
    <2>2. Overflow.type # "port"
      BY DEF Overflow
    <2>3. \A e \in PortEvents : e \in Event /\ e # Overflow
      BY <2>1, <2>2
    <2> QED
      BY <2>3 DEF Event, Tick, SongPosition, Transport, Note, PriorityWarning, Overflow
  <1>1. CASE TakeCommand
    <2> DEFINE c == Head(commands)
    <2>1. c \in Command
      BY <1>1 DEF Types, LoopTypes, TakeCommand
    <2> HIDE DEF c
    <2>2. CASE TakeTransport(c)
      BY <1>0, <2>1, <2>2, CommandFields DEF TakeTransport
    <2>3. CASE TakePosition(c)
      BY <1>0, <2>1, <2>3, CommandFields DEF TakePosition
    <2>4. CASE TakeTempo(c) \/ TakeMidi(c) \/ TakeShutdown(c)
      BY <2>4 DEF TakeTempo, TakeMidi, TakeShutdown
    <2> QED
      BY <1>1, <2>2, <2>3, <2>4 DEF TakeCommand, c
  <1>2. CASE Pulse
    <2>1. Frame \in AllFrames
      BY FrameAdvances DEF Types, LoopTypes
    <2> QED
      BY <1>0, <1>2, <2>1 DEF Pulse
  <1>3. CASE TakeInput
    BY <1>0, <1>3 DEF TakeInput, PortEvents
  <1>4. CASE PriorityRefused
    BY <1>0, <1>4 DEF PriorityRefused
  <1>5. CASE DrainEvent \/ Report
    BY <1>5 DEF DrainEvent, Report
  <1>6. CASE ~(TakeCommand \/ Pulse \/ TakeInput \/ PriorityRefused \/ DrainEvent \/ Report)
    BY <1>6 DEF Next, ThreadStep, StartRuntime, StartReturns, Stop, Join, SendCommand, Receive,
                ElevatePriority, OpenPorts, CheckShutdown, CommandsDrained, TimePasses, Wake,
                InputsDrained, vars, clockVars, loopVars
  <1> QED
    BY <1>1, <1>2, <1>3, <1>4, <1>5, <1>6

(* An overflow report the world receives stands for at least Threshold     *)
(* events lost in a row, whatever the interleaving of push and pop.        *)
THEOREM ReportsStayHonest == Spec => []ReportsAreHonest
  <1>1. Init => ReportInv
    <2> SUFFICES ASSUME Init PROVE CountInv /\ ReportsAreHonest
      BY TypesInit DEF ReportInv
    <2> QED
      BY DEF Init, InitQueue, CountInv, ReportsAreHonest
  <1>2. ReportInv /\ [Next]_vars => ReportInv'
    <2> SUFFICES ASSUME ReportInv, [Next]_vars PROVE CountInv' /\ ReportsAreHonest'
      BY TypesHold DEF ReportInv
    <2>0. Types /\ QueueTypes /\ CountInv /\ ReportsAreHonest
      BY DEF ReportInv, Types
    <2>1. CASE UNCHANGED queueVars
      BY <2>0, <2>1 DEF queueVars, producerVars, CountInv, ReportsAreHonest
    <2>2. CASE PopEvent
      <3>1. /\ events' = Tail(events) /\ gaps' = Tail(gaps) /\ events # <<>>
            /\ UNCHANGED <<overflows, reporting, missed>>
        BY <2>2 DEF PopEvent, producerVars
      <3>2. ReportsAreHonest'
        <4> SUFFICES ASSUME NEW i \in DOMAIN events', events'[i] = Overflow
                     PROVE  gaps'[i] >= Threshold
          BY DEF ReportsAreHonest
        <4>1. i + 1 \in DOMAIN events /\ events'[i] = events[i + 1] /\ gaps'[i] = gaps[i + 1]
          BY <2>0, <3>1 DEF QueueTypes
        <4> QED
          BY <2>0, <4>1 DEF ReportsAreHonest
      <3> QED
        BY <2>0, <3>1, <3>2 DEF CountInv
    <2>3. CASE PushReport
      <3>1. CASE HasRoom
        <4>1. /\ events' = Append(events, Overflow) /\ gaps' = Append(gaps, missed)
              /\ missed' = 0 /\ overflows' = 0 /\ reporting' = FALSE /\ missed >= Threshold
          BY <2>0, <2>3, <3>1 DEF PushReport, Accept, CountInv
        <4>2. ReportsAreHonest'
          <5> SUFFICES ASSUME NEW i \in DOMAIN events', events'[i] = Overflow
                       PROVE  gaps'[i] >= Threshold
            BY DEF ReportsAreHonest
          <5>1. CASE i = Len(events) + 1
            BY <2>0, <4>1, <5>1 DEF QueueTypes
          <5>2. CASE i # Len(events) + 1
            <6>1. i \in DOMAIN events /\ events'[i] = events[i] /\ gaps'[i] = gaps[i]
              BY <2>0, <4>1, <5>2 DEF QueueTypes
            <6> QED
              BY <2>0, <6>1 DEF ReportsAreHonest
          <5> QED
            BY <5>1, <5>2
        <4> QED
          BY <4>1, <4>2 DEF CountInv
      <3>2. CASE ~HasRoom
        BY <2>0, <2>3, <3>2 DEF PushReport, CountInv, ReportsAreHonest, QueueTypes
      <3> QED
        BY <3>1, <3>2
    <2>4. CASE \E e \in Event : e # Overflow /\ PushEvent(e)
      BY <2>0, <2>4, PushIsHonest
    <2> QED
      BY <2>0, <2>1, <2>2, <2>3, <2>4, QueueStep
  <1>3. ReportInv => ReportsAreHonest
    BY DEF ReportInv
  <1> QED
    BY <1>1, <1>2, <1>3, PTL DEF Spec
-----------------------------------------------------------------------------
(* What the world will know, event by event, as it drains the queue: the   *)
(* chain K starts from what it knows now.  As long as nothing has been     *)
(* lost since the last queued event, the end of the chain knows where the  *)
(* clock is and that it may be playing.                                    *)
Knowledge == [frames : SUBSET AllFrames, playing : SUBSET BOOLEAN]

Chain(K) ==
  /\ K \in [0 .. Len(events) -> Knowledge]
  /\ K[0] = heard
  /\ \A k \in 1 .. Len(events) : K[k] = Heard(K[k - 1], events[k], gaps[k])
TicksExpected(K) ==
  \A k \in 1 .. Len(events) :
    events[k].type = "tick" /\ gaps[k] = 0 =>
      events[k].frame \in K[k - 1].frames /\ TRUE \in K[k - 1].playing
KnowsTheClock(know) == Frame \in know.frames /\ (is_running => TRUE \in know.playing)
EndIsCurrent(K) == missed = 0 => KnowsTheClock(K[Len(events)])
ChainInv == \E K : Chain(K) /\ TicksExpected(K) /\ EndIsCurrent(K)

(* What each event tells. *)
LEMMA HeardTypes ==
  ASSUME NEW know \in Knowledge, NEW e \in Event, NEW gap \in Nat
  PROVE  Heard(know, e, gap) \in Knowledge
  <1>1. Nothing \in Knowledge
    BY DEF Nothing, Knowledge
  <1> DEFINE sure == IF gap = 0 THEN know ELSE Nothing
  <1>2. sure \in Knowledge
    BY <1>1
  <1> HIDE DEF sure
  <1>3. CASE e \in {Tick(f) : f \in AllFrames}
    <2>1. e.type = "tick" /\ e.frame \in AllFrames
      BY <1>3 DEF Tick
    <2>2. Heard(know, e, gap) = [sure EXCEPT !.frames = {(e.frame + 1) % Frames}]
      BY <2>1 DEF Heard, sure, Transport
    <2>3. (e.frame + 1) % Frames \in AllFrames
      <3>1. Frames \in Nat \ {0}
        <4>1. 0 \in 0 .. Beats - 1 /\ 0 \in 0 .. Ppqn - 1
          BY MasterAssumption DEF MasterAssumption
        <4> QED
          BY <4>1, FrameBounds
      <3>2. ASSUME NEW n \in Nat \ {0}, NEW k \in Nat PROVE k % n \in 0 .. n - 1
        OBVIOUS
      <3>3. e.frame + 1 \in Nat
        BY <2>1, <3>1 DEF AllFrames
      <3> QED
        BY <3>1, <3>2, <3>3 DEF AllFrames
    <2> QED
      BY <1>2, <2>2, <2>3 DEF Knowledge
  <1>4. CASE e \in {SongPosition(p) : p \in Positions}
    <2>1. e.type = "position" /\ FrameOf(e.position) \in AllFrames
      BY <1>4, PositionFrame DEF SongPosition
    <2>2. Heard(know, e, gap) = [sure EXCEPT !.frames = {FrameOf(e.position)}]
      BY <2>1 DEF Heard, sure, Transport
    <2> QED
      BY <1>2, <2>1, <2>2 DEF Knowledge
  <1>5. CASE e \in {Transport(w) : w \in {"Start", "Stop", "Continue"}}
    <2>1. 0 \in AllFrames
      <3>1. 0 \in 0 .. Beats - 1 /\ 0 \in 0 .. Ppqn - 1
        BY MasterAssumption DEF MasterAssumption
      <3>2. Frames \in Nat /\ Frames > 0
        BY <3>1, FrameBounds
      <3> QED
        BY <3>2 DEF AllFrames
    <2>2. \/ Heard(know, e, gap) = [frames |-> {0}, playing |-> {TRUE}]
          \/ Heard(know, e, gap) = [sure EXCEPT !.playing = {FALSE}]
          \/ Heard(know, e, gap) = [sure EXCEPT !.playing = {TRUE}]
      BY <1>5 DEF Heard, sure, Transport
    <2>3. [frames |-> {0}, playing |-> {TRUE}] \in Knowledge
      BY <2>1 DEF Knowledge
    <2>4. \A b \in BOOLEAN : [sure EXCEPT !.playing = {b}] \in Knowledge
      BY <1>2 DEF Knowledge
    <2> QED
      BY <2>2, <2>3, <2>4
  <1>6. CASE e \in {Overflow, Note, PriorityWarning} \cup PortEvents
    <2>1. Heard(know, e, gap) = sure
      BY <1>6 DEF Heard, sure, Overflow, Note, PriorityWarning, PortEvents, FromPort, Transport
    <2> QED
      BY <1>2, <2>1
  <1> QED
    BY <1>3, <1>4, <1>5, <1>6 DEF Event

LEMMA HeardAfterLoss ==
  ASSUME NEW know, NEW e \in Event, NEW gap \in Nat \ {0}
  PROVE  Heard(know, e, gap) = Heard(Nothing, e, 0)
  BY DEF Heard

(* An accepted event is the last thing the world will learn, so the chain  *)
(* grows by it.                                                            *)
LEMMA AcceptKeepsChain ==
  ASSUME Types, ChainInv, NEW e \in Event, Accept(e), heard' = heard,
         e.type = "tick" => e.frame = Frame /\ is_running,
         \A know \in Knowledge : KnowsTheClock(know) => KnowsTheClock(Heard(know, e, 0))'
  PROVE  ChainInv'
  <1>1. PICK K : Chain(K) /\ TicksExpected(K) /\ EndIsCurrent(K)
    BY DEF ChainInv
  <1>2. PICK L \in Nat : L = Len(events)
    BY DEF Types, QueueTypes
  <1>3. PICK gap \in Nat : gap = missed
    BY DEF Types, QueueTypes
  <1>4. PICK last : last = Heard(K[L], e, gap)
    OBVIOUS
  <1>5. PICK M : M = [k \in 0 .. L + 1 |-> IF k = L + 1 THEN last ELSE K[k]]
    OBVIOUS
  <1>6. /\ events' = Append(events, e) /\ gaps' = Append(gaps, gap) /\ missed' = 0
        /\ Len(events') = L + 1
    BY <1>2, <1>3 DEF Accept, Types, QueueTypes
  <1>7. /\ K \in [0 .. L -> Knowledge] /\ K[0] = heard
        /\ \A k \in 1 .. L : K[k] = Heard(K[k - 1], events[k], gaps[k])
    BY <1>1, <1>2 DEF Chain
  <1>8. last \in Knowledge
    BY <1>2, <1>3, <1>4, <1>7, HeardTypes
  <1>9. /\ events'[L + 1] = e /\ gaps'[L + 1] = gap
        /\ \A k \in 1 .. L : events'[k] = events[k] /\ gaps'[k] = gaps[k]
    BY <1>2, <1>6 DEF Types, QueueTypes
  <1>10. M[L + 1] = last /\ \A k \in 0 .. L : M[k] = K[k]
    BY <1>2, <1>5
  <1>11. Chain(M)'
    <2>1. M \in [0 .. L + 1 -> Knowledge]
      <3>1. \A k \in 0 .. L + 1 : (IF k = L + 1 THEN last ELSE K[k]) \in Knowledge
        <4>1. \A k \in 0 .. L + 1 : k # L + 1 => k \in 0 .. L
          BY <1>2
        <4> QED
          BY <1>7, <1>8, <4>1
      <3> QED
        BY <1>5, <3>1
    <2>2. M[0] = heard'
      BY <1>2, <1>7, <1>10
    <2>3. ASSUME NEW k \in 1 .. L + 1
          PROVE  M[k] = Heard(M[k - 1], events'[k], gaps'[k])
      <3>1. CASE k = L + 1
        <4>1. k - 1 = L /\ L \in 0 .. L
          BY <1>2, <3>1
        <4>2. M[k] = last /\ M[k - 1] = K[L] /\ events'[k] = e /\ gaps'[k] = gap
          BY <1>9, <1>10, <3>1, <4>1
        <4> QED
          BY <1>4, <4>2
      <3>2. CASE k # L + 1
        <4>1. k \in 1 .. L /\ k \in 0 .. L /\ k - 1 \in 0 .. L
          BY <1>2, <3>2
        <4>2. M[k] = K[k] /\ M[k - 1] = K[k - 1] /\ events'[k] = events[k] /\ gaps'[k] = gaps[k]
          BY <1>9, <1>10, <4>1
        <4> QED
          BY <1>7, <4>1, <4>2
      <3> QED
        BY <3>1, <3>2
    <2> QED
      BY <1>6, <2>1, <2>2, <2>3 DEF Chain
  <1>12. gap = 0 => KnowsTheClock(K[L])
    BY <1>1, <1>2, <1>3 DEF EndIsCurrent
  <1>13. TicksExpected(M)'
    <2> SUFFICES ASSUME NEW k \in 1 .. L + 1, events'[k].type = "tick", gaps'[k] = 0
                 PROVE  events'[k].frame \in M[k - 1].frames /\ TRUE \in M[k - 1].playing
      BY <1>6 DEF TicksExpected
    <2>1. CASE k = L + 1
      <3>1. k - 1 = L /\ L \in 0 .. L
        BY <1>2, <2>1
      <3>2. M[k - 1] = K[L] /\ events'[k] = e /\ gap = 0
        BY <1>9, <1>10, <2>1, <3>1
      <3> QED
        BY <1>12, <3>2 DEF KnowsTheClock
    <2>2. CASE k # L + 1
      <3>1. k \in 1 .. L /\ k - 1 \in 0 .. L
        BY <1>2, <2>2
      <3>2. M[k - 1] = K[k - 1] /\ events'[k] = events[k] /\ gaps'[k] = gaps[k]
        BY <1>9, <1>10, <3>1
      <3> QED
        BY <1>1, <1>2, <3>1, <3>2 DEF TicksExpected
    <2> QED
      BY <2>1, <2>2
  <1>14. EndIsCurrent(M)'
    <2>1. KnowsTheClock(last)'
      <3>1. CASE gap = 0
        <4>1. K[L] \in Knowledge
          BY <1>2, <1>7
        <4> QED
          BY <1>4, <1>12, <3>1, <4>1
      <3>2. CASE gap # 0
        <4>1. last = Heard(Nothing, e, 0)
          BY <1>3, <1>4, <3>2, HeardAfterLoss
        <4>2. Nothing \in Knowledge /\ KnowsTheClock(Nothing)
          BY FrameAdvances DEF Nothing, Knowledge, KnowsTheClock, Types, LoopTypes
        <4> QED
          BY <4>1, <4>2
      <3> QED
        BY <3>1, <3>2
    <2> QED
      BY <1>6, <1>10, <2>1 DEF EndIsCurrent
  <1> QED
    BY <1>11, <1>13, <1>14 DEF ChainInv

(* A failed push leaves the chain as it is and a loss behind it.           *)
LEMMA PushKeepsChain ==
  ASSUME Types, ChainInv, NEW e \in Event, PushEvent(e), heard' = heard,
         e.type = "tick" => e.frame = Frame /\ is_running,
         \A know \in Knowledge : KnowsTheClock(know) => KnowsTheClock(Heard(know, e, 0))'
  PROVE  ChainInv'
  <1>1. CASE HasRoom
    <2>1. Accept(e)
      BY <1>1 DEF PushEvent
    <2> QED
      BY <2>1, AcceptKeepsChain
  <1>2. CASE ~HasRoom
    <2>1. PICK K : Chain(K) /\ TicksExpected(K)
      BY DEF ChainInv
    <2>2. events' = events /\ gaps' = gaps
          /\ missed' = IF missed < Threshold THEN missed + 1 ELSE missed
      BY <1>2 DEF PushEvent
    <2>3. missed' # 0
      BY <2>2, QueueAssumption DEF Types, QueueTypes, QueueAssumption
    <2>4. Chain(K)' /\ TicksExpected(K)'
      BY <2>1, <2>2 DEF Chain, TicksExpected
    <2> QED
      BY <2>3, <2>4 DEF ChainInv, EndIsCurrent
  <1> QED
    BY <1>1, <1>2

(* Nothing moves in the queue or on the clock. *)
LEMMA StillKeepsChain ==
  ASSUME ChainInv, UNCHANGED <<events, gaps, missed, heard, beat, subdivision, is_running>>
  PROVE  ChainInv'
  <1>1. PICK K : Chain(K) /\ TicksExpected(K) /\ EndIsCurrent(K)
    BY DEF ChainInv
  <1>2. Chain(K)' /\ TicksExpected(K)' /\ EndIsCurrent(K)'
    BY <1>1 DEF Chain, TicksExpected, EndIsCurrent, KnowsTheClock, Frame
  <1> QED
    BY <1>2 DEF ChainInv

(* The world takes the first event and knows what the chain said it would. *)
LEMMA DrainKeepsChain ==
  ASSUME Types, ChainInv, DrainEvent
  PROVE  ChainInv'
  <1>1. PICK K : Chain(K) /\ TicksExpected(K) /\ EndIsCurrent(K)
    BY DEF ChainInv
  <1>2. PICK L \in Nat \ {0} : L = Len(events)
    <2>1. events # <<>> /\ events \in Seq(Event)
      BY DEF Types, QueueTypes, DrainEvent, PopEvent
    <2>2. Len(events) \in Nat \ {0}
      BY <2>1
    <2> QED
      BY <2>2
  <1>3. /\ events' = Tail(events) /\ gaps' = Tail(gaps)
        /\ UNCHANGED <<missed, beat, subdivision, is_running>>
        /\ Len(events') = L - 1
    BY <1>2 DEF DrainEvent, PopEvent, producerVars, clockVars, Types, QueueTypes
  <1>4. \A k \in 1 .. L - 1 : events'[k] = events[k + 1] /\ gaps'[k] = gaps[k + 1]
    BY <1>2, <1>3 DEF Types, QueueTypes
  <1>5. /\ K \in [0 .. L -> Knowledge] /\ K[0] = heard
        /\ \A k \in 1 .. L : K[k] = Heard(K[k - 1], events[k], gaps[k])
    BY <1>1, <1>2 DEF Chain
  <1>6. CASE L = 1 /\ missed > 0
    <2>1. heard' = Nothing
      BY <1>2, <1>6 DEF DrainEvent
    <2>2. PICK M : M = [k \in 0 .. 0 |-> Nothing]
      OBVIOUS
    <2>3. Chain(M)' /\ TicksExpected(M)'
      BY <1>3, <1>6, <2>1, <2>2 DEF Chain, TicksExpected, Nothing, Knowledge
    <2>4. missed' # 0
      BY <1>3, <1>6
    <2> QED
      BY <2>3, <2>4 DEF ChainInv, EndIsCurrent
  <1>7. CASE ~(L = 1 /\ missed > 0)
    <2>1. heard' = K[1]
      <3>1. K[1] = Heard(heard, events[1], gaps[1])
        BY <1>2, <1>5
      <3>2. Head(events) = events[1] /\ Head(gaps) = gaps[1]
        BY <1>2 DEF Types, QueueTypes
      <3> QED
        BY <1>2, <1>7, <3>1, <3>2 DEF DrainEvent
    <2>2. PICK M : M = [k \in 0 .. L - 1 |-> K[k + 1]]
      OBVIOUS
    <2>3. M \in [0 .. L - 1 -> Knowledge] /\ \A k \in 0 .. L - 1 : M[k] = K[k + 1]
      BY <1>2, <1>5, <2>2
    <2>4. Chain(M)'
      <3>1. M[0] = heard'
        BY <1>2, <2>1, <2>3
      <3>2. ASSUME NEW k \in 1 .. L - 1
            PROVE  M[k] = Heard(M[k - 1], events'[k], gaps'[k])
        <4>1. k \in 0 .. L - 1 /\ k - 1 \in 0 .. L - 1 /\ k + 1 \in 1 .. L /\ k - 1 + 1 = k
              /\ k + 1 - 1 = k
          BY <1>2
        <4>2. M[k] = K[k + 1] /\ M[k - 1] = K[k]
          BY <2>3, <4>1
        <4>3. K[k + 1] = Heard(K[k], events[k + 1], gaps[k + 1])
          BY <1>5, <4>1
        <4> QED
          BY <1>4, <4>2, <4>3
      <3> QED
        BY <1>3, <2>3, <3>1, <3>2 DEF Chain
    <2>5. TicksExpected(M)'
      <3> SUFFICES ASSUME NEW k \in 1 .. L - 1, events'[k].type = "tick", gaps'[k] = 0
                   PROVE  events'[k].frame \in M[k - 1].frames /\ TRUE \in M[k - 1].playing
        BY <1>3 DEF TicksExpected
      <3>1. k - 1 \in 0 .. L - 1 /\ k + 1 \in 1 .. L /\ k - 1 + 1 = k /\ k + 1 - 1 = k
        BY <1>2
      <3>2. M[k - 1] = K[k] /\ events'[k] = events[k + 1] /\ gaps'[k] = gaps[k + 1]
        BY <1>4, <2>3, <3>1
      <3>3. events[k + 1].frame \in K[k].frames /\ TRUE \in K[k].playing
        <4>1. PICK j \in 1 .. L : j = k + 1 /\ j - 1 = k
          BY <3>1
        <4>2. events[j].frame \in K[j - 1].frames /\ TRUE \in K[j - 1].playing
          BY <1>1, <1>2, <3>2, <4>1 DEF TicksExpected
        <4> QED
          BY <4>1, <4>2
      <3> QED
        BY <3>2, <3>3
    <2>6. EndIsCurrent(M)'
      <3>1. M[L - 1] = K[L]
        BY <1>2, <2>3
      <3> QED
        BY <1>1, <1>2, <1>3, <3>1 DEF EndIsCurrent, KnowsTheClock, Frame
    <2> QED
      BY <2>4, <2>5, <2>6 DEF ChainInv
  <1> QED
    BY <1>6, <1>7

(* The loop plays only in the state of playing.                            *)
KnowInv == Types /\ ChainInv /\ (thread = "pulse" => is_running)

(* Events that tell nothing of the clock. *)
LEMMA HeardNothingNew ==
  ASSUME NEW know, NEW e \in {Note, PriorityWarning, Overflow} \cup PortEvents
  PROVE  Heard(know, e, 0) = know
  <1>1. e.type \notin {"tick", "position", "transport"}
    BY DEF Note, PriorityWarning, Overflow, PortEvents, FromPort
  <1>2. \A w : Transport(w).type = "transport"
    BY DEF Transport
  <1>3. \A w : e # Transport(w)
    BY <1>1, <1>2
  <1> QED
    BY <1>1, <1>3 DEF Heard

(* Who knows only frame 0 and that the clock plays knows a clock at 0. *)
Fresh == [frames |-> {0}, playing |-> {TRUE}]
LEMMA FreshKnowledge ==
  /\ Frame = 0 => KnowsTheClock(Fresh)
  /\ Frame' = 0 => KnowsTheClock(Fresh)'
  <1>1. Fresh.frames = {0} /\ Fresh.playing = {TRUE}
    BY DEF Fresh
  <1>2. 0 \in Fresh.frames /\ TRUE \in Fresh.playing
    BY <1>1
  <1>3. Frame = 0 => KnowsTheClock(Fresh)
    BY <1>2, Zenon DEF KnowsTheClock
  <1>4. Frame' = 0 => KnowsTheClock(Fresh)'
    BY <1>2, Zenon DEF KnowsTheClock
  <1> QED
    BY <1>3, <1>4

LEMMA CommandKeepsChain ==
  ASSUME Types, ChainInv, TakeCommand
  PROVE  ChainInv'
  <1>0. PICK c : c = Head(commands)
    OBVIOUS
  <1>1. c \in Command /\ heard' = heard
    BY <1>0 DEF Types, LoopTypes, TakeCommand
  <1>2. CASE TakeTransport(c)
    <2>0. PICK e : e = Transport(c.what)
      OBVIOUS
    <2>1. /\ c.what \in {"Start", "Stop", "Continue"} /\ PushEvent(e)
          /\ e \in Event /\ e.type # "tick" /\ e.type # "position"
      BY <1>1, <1>2, <2>0, CommandFields DEF TakeTransport, Event, Transport
    <2>2. ASSUME NEW know \in Knowledge, KnowsTheClock(know)
          PROVE  KnowsTheClock(Heard(know, e, 0))'
      <3>1. CASE c.what = "Start"
        <4>1. Heard(know, e, 0) = Fresh
          BY <2>0, <2>1, <3>1 DEF Heard, Transport, Fresh
        <4>2. beat' = 0 /\ subdivision' = 0 /\ 0 * Ppqn + 0 = 0
          BY <1>2, <3>1, MasterAssumption DEF TakeTransport, StartPosition, MasterAssumption
        <4>3. Frame' = 0
          BY <4>2 DEF Frame
        <4>4. KnowsTheClock(Fresh)'
          BY <4>3, FreshKnowledge
        <4> QED
          BY <4>1, <4>4
      <3>2. CASE c.what = "Stop"
        <4>1. Heard(know, e, 0) = [know EXCEPT !.playing = {FALSE}]
          BY <2>0, <2>1, <3>2 DEF Heard, Transport
        <4>2. Frame' = Frame /\ is_running' = FALSE
          BY <1>2, <3>2 DEF TakeTransport, Runs, Frame
        <4>3. [know EXCEPT !.playing = {FALSE}].frames = know.frames
          BY DEF Knowledge
        <4> QED
          BY <2>2, <4>1, <4>2, <4>3 DEF KnowsTheClock
      <3>3. CASE c.what = "Continue"
        <4>1. Heard(know, e, 0) = [know EXCEPT !.playing = {TRUE}]
          BY <2>0, <2>1, <3>3 DEF Heard, Transport
        <4>2. Frame' = Frame
          BY <1>2, <3>3 DEF TakeTransport, Frame
        <4>3. [know EXCEPT !.playing = {TRUE}].frames = know.frames
              /\ [know EXCEPT !.playing = {TRUE}].playing = {TRUE}
          BY DEF Knowledge
        <4> QED
          BY <2>2, <4>1, <4>2, <4>3 DEF KnowsTheClock
      <3> QED
        BY <2>1, <3>1, <3>2, <3>3
    <2> QED
      BY <1>1, <2>1, <2>2, PushKeepsChain
  <1>3. CASE TakePosition(c)
    <2>0. PICK e : e = SongPosition(c.position)
      OBVIOUS
    <2>1. c.position \in Positions /\ is_running' = is_running
      BY <1>1, <1>3, CommandFields DEF TakePosition
    <2>2. PushEvent(e) /\ e \in Event /\ e.type = "position" /\ e.position = c.position
      BY <1>3, <2>0, <2>1 DEF TakePosition, Event, SongPosition
    <2>3. Frame' = FrameOf(c.position)
      BY <1>3, <2>1, PositionFrame DEF TakePosition, Frame
    <2>4. ASSUME NEW know \in Knowledge, KnowsTheClock(know)
          PROVE  KnowsTheClock(Heard(know, e, 0))'
      <3>1. Heard(know, e, 0) = [know EXCEPT !.frames = {FrameOf(c.position)}]
        BY <2>2 DEF Heard, Transport
      <3>2. [know EXCEPT !.frames = {FrameOf(c.position)}].frames = {FrameOf(c.position)}
            /\ [know EXCEPT !.frames = {FrameOf(c.position)}].playing = know.playing
        BY DEF Knowledge
      <3> QED
        BY <2>1, <2>3, <2>4, <3>1, <3>2 DEF KnowsTheClock
    <2> QED
      BY <1>1, <2>2, <2>4, PushKeepsChain
  <1>4. CASE TakeTempo(c) \/ TakeMidi(c) \/ TakeShutdown(c)
    BY <1>1, <1>4, StillKeepsChain DEF TakeTempo, TakeMidi, TakeShutdown, queueVars, producerVars
  <1> QED
    BY <1>0, <1>2, <1>3, <1>4 DEF TakeCommand

LEMMA PulseKeepsChain ==
  ASSUME KnowInv, Pulse
  PROVE  ChainInv'
  <1> DEFINE e == Tick(Frame)
  <1>1. /\ Types /\ ChainInv /\ is_running /\ PushEvent(e)
        /\ heard' = heard /\ is_running' = is_running
    BY DEF KnowInv, Pulse, At, loopVars
  <1>2. PICK frame : frame = Frame
    OBVIOUS
  <1>3. frame \in AllFrames /\ Frame' = (frame + 1) % Frames
    BY <1>1, <1>2, FrameAdvances DEF Pulse, Frame, Types, LoopTypes
  <1>4. PICK f : f = Tick(frame)
    OBVIOUS
  <1>5. f \in Event /\ f.type = "tick" /\ f.frame = frame /\ PushEvent(f)
    BY <1>1, <1>2, <1>3, <1>4 DEF Event, Tick
  <1>6. ASSUME NEW know \in Knowledge, KnowsTheClock(know)
        PROVE  KnowsTheClock(Heard(know, f, 0))'
    <2>1. Heard(know, f, 0) = [know EXCEPT !.frames = {(frame + 1) % Frames}]
      BY <1>5 DEF Heard, Transport
    <2>2. [know EXCEPT !.frames = {(frame + 1) % Frames}].frames = {(frame + 1) % Frames}
          /\ [know EXCEPT !.frames = {(frame + 1) % Frames}].playing = know.playing
      BY DEF Knowledge
    <2> QED
      BY <1>1, <1>3, <1>6, <2>1, <2>2 DEF KnowsTheClock
  <1> QED
    BY <1>1, <1>2, <1>5, <1>6, PushKeepsChain

LEMMA QuietEventKeepsChain ==
  ASSUME Types, ChainInv, NEW e \in {Note, PriorityWarning, Overflow} \cup PortEvents,
         PushEvent(e) \/ Accept(e),
         UNCHANGED <<heard, beat, subdivision, is_running>>
  PROVE  ChainInv'
  <1>1. e \in Event /\ e.type # "tick"
    BY DEF Event, Note, PriorityWarning, Overflow, PortEvents, FromPort
  <1>2. ASSUME NEW know \in Knowledge, KnowsTheClock(know)
        PROVE  KnowsTheClock(Heard(know, e, 0))'
    BY <1>2, HeardNothingNew DEF KnowsTheClock, Frame
  <1> QED
    BY <1>1, <1>2, PushKeepsChain, AcceptKeepsChain

LEMMA ChainKept == KnowInv /\ [Next]_vars => KnowInv'
  <1> SUFFICES ASSUME KnowInv, [Next]_vars
               PROVE  ChainInv' /\ (thread' = "pulse" => is_running')
    BY TypesHold DEF KnowInv
  <1>0. Types /\ ChainInv
    BY DEF KnowInv
  <1>1. ChainInv'
    <2>1. CASE DrainEvent
      BY <1>0, <2>1, DrainKeepsChain
    <2>2. CASE TakeCommand
      BY <1>0, <2>2, CommandKeepsChain
    <2>3. CASE Pulse
      BY <2>3, PulseKeepsChain
    <2>4. CASE PriorityRefused
      <3>1. UNCHANGED <<heard, beat, subdivision, is_running>>
        BY <2>4 DEF PriorityRefused, clockVars, loopVars
      <3>2. CASE PushEvent(PriorityWarning)
        BY <1>0, <3>1, <3>2, QuietEventKeepsChain
      <3>3. CASE UNCHANGED queueVars
        BY <1>0, <3>1, <3>3, StillKeepsChain DEF queueVars, producerVars
      <3> QED
        BY <2>4, <3>2, <3>3 DEF PriorityRefused
    <2>5. CASE Report
      <3>1. UNCHANGED <<heard, beat, subdivision, is_running>>
        BY <2>5 DEF Report, clockVars, loopVars
      <3>2. CASE HasRoom
        BY <1>0, <2>5, <3>1, <3>2, QuietEventKeepsChain DEF Report, PushReport
      <3>3. CASE ~HasRoom
        BY <1>0, <2>5, <3>1, <3>3, StillKeepsChain DEF Report, PushReport
      <3> QED
        BY <3>2, <3>3
    <2>6. CASE TakeInput
      <3>1. UNCHANGED <<heard, beat, subdivision, is_running>>
        BY <2>6 DEF TakeInput, clockVars
      <3>2. Head(inputs) \in Received
        BY <1>0, <2>6 DEF TakeInput, Types, LoopTypes
      <3>3. UNCHANGED queueVars \/ \E e \in {Note} \cup PortEvents : PushEvent(e)
        BY <2>6, <3>2 DEF TakeInput, PortEvents
      <3> QED
        BY <1>0, <3>1, <3>3, QuietEventKeepsChain, StillKeepsChain DEF queueVars, producerVars
    <2>7. CASE ~(DrainEvent \/ TakeCommand \/ Pulse \/ PriorityRefused \/ Report \/ TakeInput)
      <3>1. UNCHANGED <<events, gaps, missed, heard, beat, subdivision, is_running>>
        BY <2>7 DEF Next, ThreadStep, StartRuntime, StartReturns, Stop, Join, SendCommand, Receive,
                    ElevatePriority, OpenPorts, CheckShutdown, CommandsDrained, TimePasses, Wake,
                    InputsDrained, vars, queueVars, producerVars, clockVars, loopVars
      <3> QED
        BY <1>0, <3>1, StillKeepsChain
    <2> QED
      BY <2>1, <2>2, <2>3, <2>4, <2>5, <2>6, <2>7
  <1>2. thread' = "pulse" => is_running'
    <2>1. CASE TakeCommand
      <3>1. thread = "commands" /\ thread' \in {"commands", "ended"}
        BY <2>1 DEF TakeCommand, At, TakeTransport, TakePosition, TakeTempo, TakeMidi, TakeShutdown
      <3> QED
        BY <3>1
    <2>2. CASE CommandsDrained
      BY <2>2 DEF CommandsDrained
    <2>3. CASE ~TakeCommand /\ ~CommandsDrained
      <3>1. is_running' = is_running /\ (thread' = thread \/ thread' # "pulse")
        BY <2>3 DEF Next, ThreadStep, StartRuntime, StartReturns, Stop, Join, DrainEvent,
                    SendCommand, Receive, ElevatePriority, PriorityRefused, OpenPorts, Report,
                    CheckShutdown, TimePasses, Pulse, Wake, TakeInput, InputsDrained,
                    AfterPortError, vars, ownerVars, clockVars, loopVars
      <3> QED
        BY <3>1 DEF KnowInv
    <2> QED
      BY <2>1, <2>2, <2>3
  <1> QED
    BY <1>1, <1>2

LEMMA ChainInit == Init => KnowInv
  <1> SUFFICES ASSUME Init PROVE ChainInv /\ (thread = "pulse" => is_running)
    BY TypesInit DEF KnowInv
  <1>1. PICK K : K = [k \in 0 .. 0 |-> heard]
    OBVIOUS
  <1>2. heard = [frames |-> {0}, playing |-> {TRUE}] /\ events = <<>> /\ gaps = <<>>
        /\ Len(events) = 0 /\ Frame = 0
    <2>1. 0 * Ppqn + 0 = 0
      BY MasterAssumption DEF MasterAssumption
    <2> QED
      BY <2>1 DEF Init, InitQueue, Frame
  <1>3. heard \in Knowledge
    <2>1. 0 \in 0 .. Beats - 1 /\ 0 \in 0 .. Ppqn - 1
      BY MasterAssumption DEF MasterAssumption
    <2>2. 0 \in AllFrames
      BY <2>1, FrameBounds DEF AllFrames
    <2> QED
      BY <1>2, <2>2 DEF Knowledge
  <1>4. Chain(K) /\ TicksExpected(K) /\ EndIsCurrent(K)
    <2>1. Chain(K)
      BY <1>1, <1>2, <1>3 DEF Chain
    <2>2. TicksExpected(K)
      BY <1>2 DEF TicksExpected
    <2>3. K[Len(events)] = Fresh
      BY <1>1, <1>2 DEF Fresh
    <2>4. KnowsTheClock(K[Len(events)])
      BY <1>2, <2>3, FreshKnowledge
    <2> QED
      BY <2>1, <2>2, <2>4 DEF EndIsCurrent
  <1> QED
    BY <1>4 DEF ChainInv, Init

(* The chain is the knowledge the properties speak of. *)
AreKnown(f) ==
  f = [k \in 0 .. Len(events) |-> IF k = 0 THEN heard ELSE Heard(f[k - 1], events[k], gaps[k])]

LEMMA LeastNatural ==
  ASSUME NEW T, T \subseteq Nat, T # {}
  PROVE  \E x \in T : \A y \in T : x <= y
  <1>1. PICK x \in T : \A y \in T : ~ (<<y, x>> \in OpToRel(<, Nat))
    BY NatLessThanWellFounded, WFMin
  <1>2. \A y \in T : ~ (y < x)
    BY <1>1 DEF OpToRel
  <1> QED
    BY <1>2

LEMMA ChainIsKnowing ==
  ASSUME Types, NEW K, Chain(K), NEW i \in 1 .. Len(events)
  PROVE  Knowing(i) = K[i - 1]
  <1> DEFINE f == CHOOSE g : AreKnown(g)
  <1>1. Len(events) \in Nat
    BY DEF Types, QueueTypes
  <1>2. AreKnown(K)
    BY <1>1 DEF Chain, AreKnown
  <1>3. AreKnown(f)
    BY <1>2, Zenon
  <1>4. Knowing(i) = f[i - 1]
    BY Zenon DEF Knowing, AreKnown
  <1> HIDE DEF f
  <1>5. \A k \in 0 .. Len(events) :
          f[k] = IF k = 0 THEN heard ELSE Heard(f[k - 1], events[k], gaps[k])
    <2>1. \A k \in 0 .. Len(events) :
            [j \in 0 .. Len(events) |->
               IF j = 0 THEN heard ELSE Heard(f[j - 1], events[j], gaps[j])][k]
              = IF k = 0 THEN heard ELSE Heard(f[k - 1], events[k], gaps[k])
      OBVIOUS
    <2> QED
      BY <1>3, <2>1, Zenon DEF AreKnown
  <1> DEFINE apart == {k \in 0 .. Len(events) : f[k] # K[k]}
  <1>6. apart = {}
    <2> SUFFICES ASSUME apart # {} PROVE FALSE
      OBVIOUS
    <2>1. PICK k \in apart : \A j \in apart : k <= j
      <3>1. apart \subseteq Nat
        BY <1>1
      <3> HIDE DEF apart
      <3> QED
        BY <3>1, LeastNatural
    <2>2. k # 0
      BY <1>1, <1>5, <2>1 DEF Chain
    <2>3. k \in 1 .. Len(events) /\ k - 1 \in 0 .. Len(events) /\ k - 1 \notin apart
      BY <1>1, <2>1, <2>2
    <2>4. f[k - 1] = K[k - 1]
      BY <2>3
    <2>5. f[k] = Heard(f[k - 1], events[k], gaps[k])
      BY <1>5, <2>1, <2>2
    <2>6. K[k] = Heard(K[k - 1], events[k], gaps[k])
      BY <2>3 DEF Chain
    <2> QED
      BY <2>1, <2>4, <2>5, <2>6
  <1>7. i - 1 \in 0 .. Len(events)
    BY <1>1
  <1> QED
    BY <1>4, <1>6, <1>7

LEMMA ChainTells == KnowInv => FramesFollow /\ StoppedIsSilent
  <1> SUFFICES ASSUME KnowInv, NEW i \in DOMAIN events, events[i].type = "tick", gaps[i] = 0
               PROVE  events[i].frame \in Knowing(i).frames /\ TRUE \in Knowing(i).playing
    BY DEF FramesFollow, StoppedIsSilent
  <1>1. i \in 1 .. Len(events)
    BY DEF KnowInv, Types, QueueTypes
  <1>2. PICK K : Chain(K) /\ TicksExpected(K)
    BY DEF KnowInv, ChainInv
  <1>3. Knowing(i) = K[i - 1]
    BY <1>1, <1>2, ChainIsKnowing DEF KnowInv
  <1> QED
    BY <1>1, <1>2, <1>3 DEF TicksExpected

(* Whatever input ports bring, every tick the world gets has the frame     *)
(* that what the clock announced before it lets expect, unless events were *)
(* lost in between.                                                        *)
THEOREM FramesAlwaysFollow == Spec => []FramesFollow
  <1>1. KnowInv => FramesFollow
    BY ChainTells
  <1> QED
    BY <1>1, ChainInit, ChainKept, PTL DEF Spec

(* Whatever input ports bring, no tick follows the event that announced    *)
(* that the clock was told to stop, until it is told to play again.        *)
THEOREM StoppedStaysSilent == Spec => []StoppedIsSilent
  <1>1. KnowInv => StoppedIsSilent
    BY ChainTells
  <1> QED
    BY <1>1, ChainInit, ChainKept, PTL DEF Spec
=============================================================================
