------------------------------ MODULE MidiPath ------------------------------
(***************************************************************************)
(* The way of a channel message through the runtime: the callback of an    *)
(* input port, the real-time thread, the event queue, the bridge, a world  *)
(* that forwards it, the command queue, and the thread again, to an output *)
(* port.  Every queue is bounded, a port may fail and the thread may end.  *)
(* The clock of the thread is the matter of RtMaster and is left out.      *)
(***************************************************************************)
EXTENDS EventQueue, MidiCodec

CONSTANTS
  Inputs,              \* how many input ports are open
  Outputs,             \* the output ports
  Playable,            \* the byte sequences that may come in on each port
  MaxPlayed,           \* how many do, on each port: a bound
  InputCapacity,       \* the ring buffer of an input port: 256
  CommandCapacity,     \* RuntimeConfig::command_queue_capacity
  Routes               \* the outputs to which the world forwards an input

InPorts == 0 .. Inputs - 1

PathAssumption ==
  /\ Inputs \in Nat \ {0}
  /\ \A p \in InPorts : Playable[p] \subseteq {bytes \in Seq(0 .. 255) : WellFormed(bytes)}
  /\ InputCapacity \in Nat \ {0} /\ CommandCapacity \in Nat \ {0}
  /\ Routes \in [InPorts -> Seq(Outputs)]
  /\ \A p \in InPorts : \A i, j \in DOMAIN Routes[p] : Routes[p][i] = Routes[p][j] => i = j
ASSUME PathAssumption

VARIABLES
  midi_thread, \* the part of the loop the real-time thread is in
  cursor,      \* the input port whose ring buffer it is draining
  shutdown,    \* the shared flag
  inputs,      \* the ring buffers of the input ports
  commands,    \* the ECS-to-RT ring buffer
  port_lost,   \* MidiPorts::port_lost
  update,      \* the part of an update the world is in
  mail,        \* the MidiInReceived messages of this update
  outbox,      \* MidiOutputQueue::commands
  dropped,     \* has this flush dropped a command?
  warned,      \* history: the world was told of a full command queue
  played,      \* history: what was played on each input port
  arrived,     \* history: what came out of each output port
  lost         \* history: what was given up at a full queue or a lost port

worldVars == <<update, mail, outbox, dropped, warned>>
portVars == <<played, arrived, port_lost>>
threadVars == <<midi_thread, cursor, shutdown>>
pathVars == <<queueVars, worldVars, portVars, threadVars, inputs, commands, lost>>

(* A message carries, as history, the port it comes from and which of      *)
(* those played there it is; a command also the port it goes to.           *)
Raw(p, bytes) == [port |-> p, nth |-> Len(played[p]) + 1, bytes |-> FirstThree(bytes)]
InputEvent(raw) ==
  [type |-> "midi", port |-> raw.port, nth |-> raw.nth, wire |-> FromBytes(raw.bytes)]
OtherEvent == [type |-> "other"]
Received(event) == [port |-> event.port, nth |-> event.nth, message |-> ToMessage(event.wire)]
SendMidi(got, q) ==
  [port |-> got.port, nth |-> got.nth, out |-> q, wire |-> ToWire(got.message)]
Outgoing(c) == [port |-> c.port, nth |-> c.nth, out |-> c.out, bytes |-> SentBytes(c.wire)]

(* What is lost is lost for one output or, before it is forwarded, for all.*)
Lose(item, outputs) == lost' = lost \cup {<<item.port, item.nth, q>> : q \in outputs}

PathInit ==
  /\ InitQueue
  /\ midi_thread = "commands" /\ cursor = 0 /\ shutdown = FALSE
  /\ inputs = [p \in InPorts |-> <<>>] /\ commands = <<>>
  /\ port_lost = [q \in Outputs |-> FALSE]
  /\ update = "drain" /\ mail = <<>> /\ outbox = <<>> /\ dropped = FALSE /\ warned = FALSE
  /\ played = [p \in InPorts |-> <<>>] /\ arrived = [q \in Outputs |-> <<>>]
  /\ lost = {}
-----------------------------------------------------------------------------
(* The callback of midir: three bytes at most, and what finds the buffer   *)
(* full is dropped.                                                        *)
Play(p, bytes) ==
  /\ Len(played[p]) < MaxPlayed
  /\ played' = [played EXCEPT ![p] = Append(@, bytes)]
  /\ \/ /\ Len(inputs[p]) < InputCapacity
        /\ inputs' = [inputs EXCEPT ![p] = Append(@, Raw(p, bytes))]
        /\ UNCHANGED lost
     \/ /\ Len(inputs[p]) >= InputCapacity
        /\ Lose(Raw(p, bytes), Outputs)
        /\ UNCHANGED inputs
  /\ UNCHANGED <<queueVars, worldVars, arrived, port_lost, threadVars, commands>>

(* Runtime::stop and drop. *)
StopRuntime ==
  /\ ~shutdown /\ shutdown' = TRUE
  /\ UNCHANGED <<queueVars, worldVars, portVars, midi_thread, cursor, inputs, commands, lost>>
-----------------------------------------------------------------------------
(* The thread. *)

At(part) == midi_thread = part /\ ~reporting

(* EcsCommand::SendMidi, by way of MidiPorts::send: a port that failed     *)
(* once is not tried again, and the loop does not look at the result.      *)
\* Mutant: the failure is not remembered.
LostAfterForgotten(q) == port_lost
LostAfter(q) == [port_lost EXCEPT ![q] = TRUE]

SendCommand ==
  /\ At("commands") /\ commands # <<>>
  /\ commands' = Tail(commands)
  /\ LET c == Head(commands) IN
       \/ /\ ~port_lost[c.out]
          /\ arrived' = [arrived EXCEPT ![c.out] = Append(@, Outgoing(c))]
          /\ UNCHANGED <<port_lost, lost>>
       \/ /\ ~port_lost[c.out]
          /\ port_lost' = LostAfter(c.out)
          /\ Lose(c, {c.out})
          /\ UNCHANGED arrived
       \/ /\ port_lost[c.out]
          /\ Lose(c, {c.out})
          /\ UNCHANGED <<arrived, port_lost>>
  /\ UNCHANGED <<queueVars, worldVars, played, threadVars, inputs>>

CommandsTaken ==
  /\ At("commands") /\ commands = <<>>
  /\ midi_thread' = IF shutdown THEN "ended" ELSE "inputs"
  /\ cursor' = 0
  /\ UNCHANGED <<queueVars, worldVars, portVars, shutdown, inputs, commands, lost>>

(* drain_midi_input: a channel message is passed on, transport and song    *)
(* positions are announced, and the rest is ignored.                       *)
\* Mutant: the newest message of a port first.
NextInputNewest(p) == [next |-> inputs[p][Len(inputs[p])],
                       left |-> SubSeq(inputs[p], 1, Len(inputs[p]) - 1)]
NextInput(p) == [next |-> Head(inputs[p]), left |-> Tail(inputs[p])]

TakeInput ==
  /\ At("inputs") /\ cursor < Inputs /\ inputs[cursor] # <<>>
  /\ inputs' = [inputs EXCEPT ![cursor] = NextInput(cursor).left]
  /\ LET raw == NextInput(cursor).next IN
       \/ /\ IsChannel(raw.bytes)
          /\ PushEvent(InputEvent(raw))
          /\ IF HasRoom THEN UNCHANGED lost ELSE Lose(raw, Outputs)
       \/ IsTransport(raw.bytes) /\ PushEvent(OtherEvent) /\ UNCHANGED lost
       \/ ~IsChannel(raw.bytes) /\ ~IsTransport(raw.bytes) /\ UNCHANGED <<queueVars, lost>>
  /\ UNCHANGED <<worldVars, portVars, threadVars, commands>>

(* drain_all visits the ports in turn and does not come back to one that   *)
(* fills again.                                                            *)
NextPort ==
  /\ At("inputs") /\ cursor < Inputs /\ inputs[cursor] = <<>>
  /\ cursor' = cursor + 1
  /\ UNCHANGED <<queueVars, worldVars, portVars, midi_thread, shutdown, inputs, commands, lost>>

InputsTaken ==
  /\ At("inputs") /\ cursor = Inputs
  /\ midi_thread' = IF shutdown THEN "ended" ELSE "commands"
  /\ UNCHANGED <<queueVars, worldVars, portVars, cursor, shutdown, inputs, commands, lost>>

Report ==
  /\ PushReport
  /\ UNCHANGED <<worldVars, portVars, threadVars, inputs, commands, lost>>
-----------------------------------------------------------------------------
(* An update of the world, beside the thread. *)

(* drain_rt_events_system: until the queue is seen empty.                  *)
DrainEvent ==
  /\ update = "drain" /\ PopEvent
  /\ mail' = IF Head(events).type = "midi" THEN Append(mail, Received(Head(events))) ELSE mail
  /\ UNCHANGED <<portVars, threadVars, inputs, commands, lost, update, outbox, dropped, warned>>

(* A system of the world that forwards what came, message by message, to   *)
(* the outputs of its route.                                               *)
Forwarded(got) == [i \in DOMAIN Routes[got.port] |-> SendMidi(got, Routes[got.port][i])]
Forward ==
  /\ update = "forward" /\ mail # <<>>
  /\ outbox' = outbox \o Forwarded(Head(mail))
  /\ mail' = Tail(mail)
  /\ UNCHANGED <<queueVars, portVars, threadVars, inputs, commands, lost, update, dropped, warned>>

(* The systems of an update run one after the other. *)
NextSystem ==
  /\ \/ update = "drain" /\ events = <<>> /\ update' = "forward"
     \/ update = "forward" /\ mail = <<>> /\ update' = "flush"
  /\ UNCHANGED <<queueVars, portVars, threadVars, inputs, commands, lost, mail, outbox,
                 dropped, warned>>

(* flush_midi_output_system: what finds the queue full is dropped, and the *)
(* rest is still tried.                                                    *)
\* Mutant: the flush gives up at the first command that finds no room.
LeftAfterFullGivenUp == <<>>
LeftAfterFull == Tail(outbox)

FlushCommand ==
  /\ update = "flush" /\ outbox # <<>>
  /\ \/ /\ Len(commands) < CommandCapacity
        /\ commands' = Append(commands, Head(outbox))
        /\ outbox' = Tail(outbox)
        /\ UNCHANGED <<dropped, lost>>
     \/ /\ Len(commands) >= CommandCapacity
        /\ outbox' = LeftAfterFull
        /\ dropped' = TRUE
        /\ Lose(Head(outbox), {Head(outbox).out})
        /\ UNCHANGED commands
  /\ UNCHANGED <<queueVars, portVars, threadVars, inputs, update, mail, warned>>

Flushed ==
  /\ update = "flush" /\ outbox = <<>>
  /\ update' = "drain"
  /\ warned' = (warned \/ dropped)
  /\ dropped' = FALSE
  /\ UNCHANGED <<queueVars, portVars, threadVars, inputs, commands, lost, mail, outbox>>
-----------------------------------------------------------------------------
PathNext ==
  \/ \E p \in InPorts : \E bytes \in Playable[p] : Play(p, bytes)
  \/ StopRuntime
  \/ SendCommand \/ CommandsTaken \/ TakeInput \/ NextPort \/ InputsTaken \/ Report
  \/ DrainEvent \/ NextSystem \/ Forward \/ FlushCommand \/ Flushed

PathSpec == PathInit /\ [][PathNext]_pathVars
-----------------------------------------------------------------------------
(* Properties. *)

Routed(p) == {Routes[p][i] : i \in DOMAIN Routes[p]}

(* Everything on its way from input p to output q, the furthest first, and *)
(* what of it belongs to that line.                                        *)
Stages(p, q) == <<arrived[q], commands, outbox, mail, events, inputs[p]>>
OnLine(item, p, q) ==
  "port" \in DOMAIN item /\ item.port = p /\ ("out" \in DOMAIN item => item.out = q)

Ordered(stages, p, q) ==
  \A k \in 1 .. 6 : \A i \in DOMAIN stages[k] : OnLine(stages[k][i], p, q) =>
    \A l \in k .. 6 : \A j \in DOMAIN stages[l] :
      (k < l \/ i < j) /\ OnLine(stages[l][j], p, q) => stages[k][i].nth < stages[l][j].nth
Present(stages, p, q, n) ==
  \E k \in 1 .. 6 : \E i \in DOMAIN stages[k] :
    OnLine(stages[k][i], p, q) /\ stages[k][i].nth = n

(* On its way from an input port to an output port no message overtakes    *)
(* another or is doubled, through callback, thread, bridge, world and back.*)
InOrder == \A p \in InPorts, q \in Outputs : Ordered(Stages(p, q), p, q)

(* A channel message that was played is on its way to each output of its   *)
(* route or has arrived, unless it found a queue full or a port lost.      *)
NoneMissing ==
  \A p \in InPorts : \A q \in Routed(p) : \A n \in DOMAIN played[p] :
    IsChannel(played[p][n]) => <<p, n, q>> \in lost \/ Present(Stages(p, q), p, q, n)

(* Messages of a line stay in order, and none is doubled or disappears.    *)
LinesKept == InOrder /\ NoneMissing

(* What comes out of an output port means to a receiver what was played on *)
(* the input port: three conversions on the way change nothing of note.    *)
Faithful ==
  \A q \in Outputs : \A i \in DOMAIN arrived[q] :
    LET item == arrived[q][i]
        original == played[item.port][item.nth] IN
    IsChannel(original) /\ Meaning(item.bytes) = Meaning(original)
=============================================================================
