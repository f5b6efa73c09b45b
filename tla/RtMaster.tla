------------------------------ MODULE RtMaster ------------------------------
(***************************************************************************)
(* The real-time thread in master clock mode, between the thread that owns *)
(* the Runtime and the RtBridge, and the midir callback that feeds the     *)
(* input queue.  The thread is punctual: time passes only while it sleeps. *)
(***************************************************************************)
EXTENDS EventQueue

CONSTANTS
  Ppqn,               \* clock pulses per beat: 24
  Beats,              \* the beat count is kept modulo Beats: a bound
  Intervals,          \* nanoseconds between pulses, one per tempo, coarsened
  IdleSleep,          \* the sleep of a stopped clock
  MaxLag,             \* a schedule in the past is kept up to MaxLag: a bound
  Burst,              \* what wire and world send while no time passes: a bound
  Positions,          \* 14-bit song positions, in sixteenths
  CommandCapacity,    \* RuntimeConfig::command_queue_capacity
  InputCapacity,      \* the queue of an input port: 256
  Sent,               \* the commands the world may send
  Received,           \* the kinds of messages the input port may receive
  AllowNormalPriority, SendTransport   \* RuntimeConfig, ClockMode::Master

VARIABLES
  thread,       \* where the real-time thread is
  caller,       \* where the owner of the Runtime is
  ready,        \* the readiness channel
  shutdown,     \* the shared flag
  commands,     \* the ECS-to-RT ring buffer
  inputs,       \* the ring buffer of the input port
  is_running,   \* transport state of the loop
  interval,     \* MasterClock::interval_ns
  due,          \* MasterClock::next_tick_ns, seen from now
  subdivision, beat,   \* MasterClock's position
  napping,      \* what is left of the idle sleep
  burst,        \* arrivals since time last passed
  follower,     \* history: the position of a device that follows the wire
  heard         \* history: the frames that may come next, and whether the
                \* clock may be playing, by what the world was told so far

clockVars == <<interval, due, subdivision, beat>>
ownerVars == <<caller, ready, shutdown>>
vars == <<queueVars, clockVars, ownerVars, follower,
          thread, commands, inputs, is_running, napping, burst, heard>>

Longest == CHOOSE n \in Intervals : \A k \in Intervals : k <= n

(* Events and commands. *)
Tick(frame) == [type |-> "tick", frame |-> frame]
Transport(what) == [type |-> "transport", what |-> what]
SongPosition(p) == [type |-> "position", position |-> p]
Note == [type |-> "note"]
(* What an input port gave rise to.  The mark is history: the world cannot *)
(* tell such an event from one of the clock itself.                        *)
FromPort(event) == [type |-> "port", event |-> event]
PortEvents ==
  {FromPort(SongPosition(p)) : p \in Positions}
  \cup {FromPort(Transport(w)) : w \in {"Start", "Stop", "Continue"}}
Told(event) == IF event.type = "port" THEN event.event ELSE event
PriorityWarning == [type |-> "priority"]
Command ==
  [type : {"midi", "shutdown"}]
  \cup [type : {"tempo"}, interval : Intervals]
  \cup [type : {"transport"}, what : {"Start", "Stop", "Continue"}]
  \cup [type : {"position"}, position : Positions]

MasterAssumption ==
  /\ Ppqn \in Nat /\ Ppqn % 4 = 0 /\ Ppqn > 0
  /\ Beats \in Nat \ {0}
  /\ Intervals \subseteq Nat \ {0} /\ Intervals # {}
  /\ Burst \in Nat /\ IdleSleep \in Nat \ {0} /\ MaxLag \in Nat
  /\ Positions \subseteq 0 .. 16383
  /\ CommandCapacity \in Nat \ {0} /\ InputCapacity \in Nat \ {0}
  /\ Sent \subseteq Command
  /\ Received \subseteq {"note", "clock", "position", "Start", "Stop", "Continue"}
  /\ AllowNormalPriority \in BOOLEAN /\ SendTransport \in BOOLEAN
ASSUME MasterAssumption

Frames == Ppqn * Beats
AllFrames == 0 .. Frames - 1
Frame == beat * Ppqn + subdivision
FrameOf(p) == ((p \div 4) % Beats) * Ppqn + (p % 4) * (Ppqn \div 4)

Nothing == [frames |-> AllFrames, playing |-> BOOLEAN]

(* What follows for the clock from an event of its own, with so many lost  *)
(* before it.                                                              *)
Heard(known, event, gap) ==
  LET sure == IF gap = 0 THEN known ELSE Nothing IN
  CASE event.type = "tick" -> [sure EXCEPT !.frames = {(event.frame + 1) % Frames}]
    [] event.type = "position" -> [sure EXCEPT !.frames = {FrameOf(event.position)}]
    [] event = Transport("Start") -> [frames |-> {0}, playing |-> {TRUE}]
    [] event = Transport("Stop") -> [sure EXCEPT !.playing = {FALSE}]
    [] event = Transport("Continue") -> [sure EXCEPT !.playing = {TRUE}]
    [] OTHER -> sure

Init ==
  /\ InitQueue
  /\ thread = "none" /\ caller = "idle" /\ ready = "empty" /\ shutdown = FALSE
  /\ commands = <<>> /\ inputs = <<>>
  /\ is_running = TRUE
  /\ interval \in Intervals /\ due = 0 /\ subdivision = 0 /\ beat = 0
  /\ napping = 0 /\ burst = 0
  /\ follower = 0
  /\ heard = [frames |-> {0}, playing |-> {TRUE}]
-----------------------------------------------------------------------------
(* The owner: Runtime::start, stop and drop; the bridge systems. *)

StartRuntime ==
  /\ caller = "idle"
  /\ caller' = "starting"
  /\ thread' = "priority"
  /\ UNCHANGED <<queueVars, clockVars, follower, ready, shutdown, commands, inputs,
                 is_running, napping, burst, heard>>

(* recv of the readiness channel: a value, or an error when the thread is  *)
(* gone without one.                                                       *)
StartReturns ==
  /\ caller = "starting"
  /\ \/ ready = "ok" /\ caller' = "running"
     \/ ready = "error" /\ caller' = "failed"
     \/ ready = "empty" /\ thread = "ended" /\ caller' = "failed"
  /\ UNCHANGED <<queueVars, clockVars, follower, ready, shutdown, thread, commands, inputs,
                 is_running, napping, burst, heard>>

(* The thread is faster than a MIDI wire and than the frames of the world. *)
Arrival == burst < Burst /\ burst' = burst + 1

(* flush_midi_output_system and others that hold the producer: a command   *)
(* that finds the queue full is dropped.                                   *)
SendCommand(c) ==
  /\ caller = "running"
  /\ Arrival
  /\ Len(commands) < CommandCapacity
  /\ commands' = Append(commands, c)
  /\ UNCHANGED <<queueVars, clockVars, ownerVars, follower, thread, inputs,
                 is_running, napping, heard>>

(* drain_rt_events_system *)
DrainEvent ==
  /\ caller = "running"
  /\ PopEvent
  /\ heard' = IF Len(events) = 1 /\ missed > 0 THEN Nothing
              ELSE Heard(heard, Head(events), Head(gaps))
  /\ UNCHANGED <<clockVars, ownerVars, follower, thread, commands, inputs,
                 is_running, napping, burst>>

Stop ==
  /\ caller = "running"
  /\ caller' = "joining"
  /\ shutdown' = TRUE
  /\ UNCHANGED <<queueVars, clockVars, follower, ready, thread, commands, inputs,
                 is_running, napping, burst, heard>>

Join ==
  /\ caller = "joining"
  /\ thread = "ended"
  /\ caller' = "stopped"
  /\ UNCHANGED <<queueVars, clockVars, follower, ready, shutdown, thread, commands, inputs,
                 is_running, napping, burst, heard>>

(* The midir callback: the message is dropped when the queue is full.      *)
Receive(message) ==
  /\ thread \notin {"none", "priority", "ports", "ended"}
  /\ Arrival
  /\ Len(inputs) < InputCapacity
  /\ inputs' = Append(inputs, message)
  /\ UNCHANGED <<queueVars, clockVars, ownerVars, follower, thread, commands,
                 is_running, napping, heard>>
-----------------------------------------------------------------------------
(* The thread: startup. *)

loopVars == <<commands, inputs, is_running, napping, burst, heard>>

ElevatePriority ==
  /\ thread = "priority"
  /\ thread' = "ports"
  /\ UNCHANGED <<queueVars, clockVars, ownerVars, follower, loopVars>>

PriorityRefused ==
  /\ thread = "priority"
  /\ \/ /\ AllowNormalPriority
        /\ PushEvent(PriorityWarning)
        /\ thread' = "ports"
        /\ UNCHANGED ready
     \/ /\ ~AllowNormalPriority
        /\ ready' = "error"
        /\ thread' = "ended"
        /\ UNCHANGED queueVars
  /\ UNCHANGED <<clockVars, caller, shutdown, follower, loopVars>>

\* Mutant: the thread carries on without the ports and says nothing.
AfterPortErrorSilent == <<"empty", "top">>
AfterPortError == <<"error", "ended">>

OpenPorts ==
  /\ thread = "ports"
  /\ ~reporting
  /\ \/ ready' = "ok" /\ thread' = "top"
     \/ ready' = AfterPortError[1] /\ thread' = AfterPortError[2]
  /\ UNCHANGED <<queueVars, clockVars, caller, shutdown, follower, loopVars>>

(* The report of push_event comes before anything else the thread does.    *)
Report ==
  /\ PushReport
  /\ UNCHANGED <<clockVars, ownerVars, follower, loopVars, thread>>
-----------------------------------------------------------------------------
(* The thread: the master loop. *)

At(label) == thread = label /\ ~reporting

\* Mutant: the loop goes on until the world has taken every event.
LeavingWhenDrained == shutdown /\ events = <<>>
Leaving == shutdown

CheckShutdown ==
  /\ At("top")
  /\ thread' = IF Leaving THEN "ended" ELSE "commands"
  /\ UNCHANGED <<queueVars, clockVars, ownerVars, follower, loopVars>>

\* Mutant: Start forgets to go back to the first beat.
StartPositionKept == <<beat, subdivision>>
StartPosition == <<0, 0>>

\* Mutant: a song position is taken as a number of beats.
PositionInBeats(p) == <<p % Beats, 0>>
PositionAt(p) == <<(p \div 4) % Beats, (p % 4) * (Ppqn \div 4)>>

(* A song position on the wire has two data bytes of seven bits. *)
WirePosition(p) == p % 16384

(* The byte a transport command puts on the wire moves the follower.       *)
Follow(frame) == follower' = IF SendTransport THEN frame ELSE follower

\* Mutant: only Start and Continue change the state.
RunsOn(what) == is_running \/ what # "Stop"
Runs(what) == what # "Stop"

TakeTransport(c) ==
  /\ c.type = "transport"
  /\ IF c.what = "Start"
     THEN beat' = StartPosition[1] /\ subdivision' = StartPosition[2] /\ Follow(0)
     ELSE UNCHANGED <<beat, subdivision, follower>>
  /\ is_running' = Runs(c.what)
  /\ PushEvent(Transport(c.what))
  /\ UNCHANGED <<interval, shutdown, thread>>

TakePosition(c) ==
  /\ c.type = "position"
  /\ beat' = PositionAt(c.position)[1] /\ subdivision' = PositionAt(c.position)[2]
  /\ Follow(FrameOf(WirePosition(c.position)))
  /\ PushEvent(SongPosition(c.position))
  /\ UNCHANGED <<is_running, interval, shutdown, thread>>

TakeTempo(c) ==
  /\ c.type = "tempo"
  /\ interval' = c.interval
  /\ UNCHANGED <<queueVars, beat, subdivision, follower, is_running, shutdown, thread>>

TakeMidi(c) ==
  /\ c.type = "midi"
  /\ UNCHANGED <<queueVars, beat, subdivision, follower, is_running, interval, shutdown, thread>>

(* Shutdown leaves the drain loop at once, with the rest of the commands   *)
(* in the queue.                                                           *)
TakeShutdown(c) ==
  /\ c.type = "shutdown"
  /\ shutdown' = TRUE
  /\ thread' = "ended"
  /\ UNCHANGED <<queueVars, beat, subdivision, follower, is_running, interval>>

TakeCommand ==
  /\ At("commands")
  /\ commands # <<>>
  /\ commands' = Tail(commands)
  /\ LET c == Head(commands) IN
       TakeTransport(c) \/ TakePosition(c) \/ TakeTempo(c) \/ TakeMidi(c) \/ TakeShutdown(c)
  /\ UNCHANGED <<caller, ready, due, inputs, napping, burst, heard>>

CommandsDrained ==
  /\ At("commands")
  /\ commands = <<>>
  /\ thread' = IF Leaving THEN "ended" ELSE IF is_running THEN "pulse" ELSE "idle"
  /\ napping' = IdleSleep
  /\ UNCHANGED <<queueVars, clockVars, ownerVars, follower, commands, inputs, is_running,
                 burst, heard>>

(* precision_sleep, or the short sleep of a stopped clock.                 *)
TimePasses ==
  /\ \/ At("pulse") /\ due > 0 /\ UNCHANGED napping
     \/ At("idle") /\ napping > 0 /\ napping' = napping - 1
  /\ due' = IF due > 0 - MaxLag THEN due - 1 ELSE due
  /\ burst' = 0
  /\ UNCHANGED <<queueVars, interval, subdivision, beat, ownerVars, follower,
                 thread, commands, inputs, is_running, heard>>

Advanced ==
  IF subdivision + 1 >= Ppqn THEN <<(beat + 1) % Beats, 0>> ELSE <<beat, subdivision + 1>>

(* The pulse goes out, the world is told, and MasterClock::advance moves   *)
(* the schedule on from where it was.                                      *)
Pulse ==
  /\ At("pulse") /\ due <= 0
  /\ PushEvent(Tick(Frame))
  /\ due' = due + interval
  /\ beat' = Advanced[1] /\ subdivision' = Advanced[2]
  /\ follower' = (follower + 1) % Frames
  /\ thread' = "inputs"
  /\ UNCHANGED <<interval, ownerVars, loopVars>>

Wake ==
  /\ At("idle") /\ napping = 0
  /\ thread' = "inputs"
  /\ UNCHANGED <<queueVars, clockVars, ownerVars, follower, loopVars>>

(* drain_midi_input: notes and transport messages are handed to the world, *)
(* clock bytes are ignored.                                                *)
TakeInput ==
  /\ At("inputs")
  /\ inputs # <<>>
  /\ inputs' = Tail(inputs)
  /\ \/ Head(inputs) = "clock" /\ UNCHANGED queueVars
     \/ Head(inputs) = "note" /\ PushEvent(Note)
     \/ Head(inputs) = "position" /\ \E p \in Positions : PushEvent(FromPort(SongPosition(p)))
     \/ Head(inputs) \in {"Start", "Stop", "Continue"}
        /\ PushEvent(FromPort(Transport(Head(inputs))))
  /\ UNCHANGED <<clockVars, ownerVars, follower, thread, commands, is_running, napping, burst, heard>>

InputsDrained ==
  /\ At("inputs")
  /\ inputs = <<>>
  /\ thread' = "top"
  /\ UNCHANGED <<queueVars, clockVars, ownerVars, follower, loopVars>>
-----------------------------------------------------------------------------
ThreadStep ==
  \/ ElevatePriority \/ PriorityRefused \/ OpenPorts
  \/ Report \/ CheckShutdown \/ TakeCommand \/ CommandsDrained
  \/ TimePasses \/ Pulse \/ Wake \/ TakeInput \/ InputsDrained

Next ==
  \/ StartRuntime \/ StartReturns \/ Stop \/ Join \/ DrainEvent
  \/ \E c \in Sent : SendCommand(c)
  \/ \E message \in Received : Receive(message)
  \/ ThreadStep

(* The thread runs whenever it can, and the owner's blocking calls return. *)
Spec ==
  /\ Init /\ [][Next]_vars
  /\ WF_vars(ThreadStep)
  /\ WF_vars(StartReturns) /\ WF_vars(Join)
-----------------------------------------------------------------------------
(* Properties. *)

Event ==
  {Overflow, Note, PriorityWarning} \cup {Tick(f) : f \in AllFrames}
  \cup {Transport(w) : w \in {"Start", "Stop", "Continue"}}
  \cup {SongPosition(p) : p \in Positions} \cup PortEvents

(* The types of the state; the queues keep their capacities. *)
TypeOK ==
  /\ events \in Seq(Event) /\ Len(events) <= EventCapacity /\ Len(gaps) = Len(events)
  /\ commands \in Seq(Command) /\ Len(commands) <= CommandCapacity
  /\ inputs \in Seq(Received) /\ Len(inputs) <= InputCapacity
  /\ overflows \in 0 .. Threshold /\ reporting \in BOOLEAN /\ missed \in Nat
  /\ beat \in 0 .. Beats - 1 /\ subdivision \in 0 .. Ppqn - 1
  /\ interval \in Intervals /\ due \in 0 - MaxLag .. Longest
  /\ heard.frames \subseteq AllFrames /\ heard.playing \subseteq BOOLEAN

(* What is known of the clock just before event i of the queue. *)
Knowing(i) ==
  LET known[k \in 0 .. Len(events)] ==
        IF k = 0 THEN heard ELSE Heard(known[k - 1], events[k], gaps[k])
  IN  known[i - 1]

(* Every clock tick reaches the world with the frame that the ticks,       *)
(* starts and song positions of the clock before it let it expect, unless  *)
(* events were lost in between: nothing an input port brings moves it.     *)
FramesFollow ==
  \A i \in DOMAIN events :
    events[i].type = "tick" /\ gaps[i] = 0 => events[i].frame \in Knowing(i).frames

(* After the clock was told to stop, no tick reaches the world before the  *)
(* event that says that it starts or continues: an input port does not     *)
(* wake it.                                                                *)
StoppedIsSilent ==
  \A i \in DOMAIN events :
    events[i].type = "tick" /\ gaps[i] = 0 => TRUE \in Knowing(i).playing

(* The same as the world sees it, which takes a Stop for a Stop wherever   *)
(* it comes from: "transport stopped".                                     *)
SilentOnceToldToStop ==
  \A i, j \in DOMAIN events :
    /\ i < j /\ Told(events[i]) = Transport("Stop") /\ events[j].type = "tick"
    /\ \A k \in i + 1 .. j : gaps[k] = 0
    => \E k \in i + 1 .. j - 1 : Told(events[k]) \in {Transport("Start"), Transport("Continue")}

(* A device that counts the pulses on the wire and obeys the transport and *)
(* position messages there is where the master clock is.                   *)
FollowersInStep == SendTransport => follower = Frame

(* Runtime::start returns, whatever fails; Runtime::stop returns, also     *)
(* with the event queue full and nobody draining.                          *)
CallsReturn ==
  /\ caller = "starting" ~> caller \in {"running", "failed"}
  /\ caller = "joining" ~> caller = "stopped"

(* When a pulse has gone out the next one is still to come: a thread that  *)
(* is on time never sends pulses in a burst.                               *)
SteadyStream == [][thread = "pulse" /\ thread' = "inputs" => due' > 0]_vars
=============================================================================
