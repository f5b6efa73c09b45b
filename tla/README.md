# A verification project for oxurack

oxurack is a modular synthesizer rack for MIDI: modules with ports are patched
together with cables inside a Bevy `App`, samples run at 1000 Hz, `midi_out`
modules turn port values into MIDI, and a real-time thread talks to MIDI ports
and keeps the clock. This directory holds TLA+ specifications of its core, the
TLC configurations that check them on small instances, and TLAPS proofs about
them for every value of their constants.

    tlc -workers 2 -config MCRack.cfg MCRack     # model-check
    tlapm RackProofs.tla                         # prove

Paths below are relative to `src/crates/`.

## 1. Inventory

| part | code | state | operations | what is hard | what makes it correct |
|---|---|---|---|---|---|
| sample execution | `oxurack/src/lib.rs`, `oxurack-core/src/tick.rs` | driver, `SimulationRunning`, the sample gate, sample time | `start`, `stop`, `set_driver_mode`, `advance_samples`, `step` | two drivers, a stop in the middle of a sample, faults in the middle of a request | one driver runs samples; a fault is terminal |
| MIDI output | `oxurack-mod-midiout/src/lib.rs` | tracked voice and configuration of each sink, `MidiOutputBuffer` with reservations, capacity and fault | consume a sample, reserve, silence, drain | fixed storage, cleanup that must always fit, voices that must not hang | what sounds is what is tracked; silence always succeeds |
| lifecycle | `oxurack/src/lifecycle.rs` | the App, install order, identity, lifetime and instance tokens | install, load, restart, unload, remove, reset | a candidate App is built beside the old one and swapped in | the facade agrees with the App; restart cannot be refused |
| commands | `oxurack/src/commands.rs` | slots, next id | enqueue, process, cancel | a queued Panic resets the queue that is running it | one outcome per command, in order; nothing from before a reset runs after it |
| handles | `oxurack/src/handles.rs` | lifetime and instance token per handle | bind, validate, use | names are reused by later modules, of other types | a handle reaches the instance it was bound to or nothing |
| scope | `oxurack/src/scope.rs` | capacity, selectors, bindings, records | configure, clear, disable, observe, copy MIDI | it holds entities that removals and replacements destroy | bound ports live; the newest records are kept; no sample is missed |
| patch graph | `oxurack-core/src/{cable,topology,patch,port,value}.rs` | cable entities with ordinals, `CableIndex`, cached propagation order, port values | connect, disconnect, remove, propagate, snapshot, load | a cache behind a dirty flag, indices maintained by hand, live edits and patch files with different rules | values meet as the cables say; no feedback; the index and order never go stale |
| master clock | `oxurack-rt/src/{thread,midi_io,queues}.rs`, `clock/master.rs` | schedule, position, transport, three queues | the loop, `Runtime::start`/`stop`, event drain | three threads, bounded queues, sleeping | ticks follow one another; a stopped clock is silent; start and stop complete |
| slave clock | `clock/slave.rs`, `thread.rs` | estimator, oscillator | bytes, transport, dropout, ticks | phase correction, lock and loss, two timeouts | it locks to a steady source, keeps its pace, leaves a silent one |
| passthrough clock | `clock/passthrough.rs`, `thread.rs` | ratio counter, position | bytes, transport, positions, dropout | integer ratio, positions from both sides | output is input times ratio; all three positions agree |
| runtime support | `oxurack-rt/src/{lib,timing,priority}.rs` | | thread start, clock, priority | operating system | not modelled |
| bridge | `oxurack-core/src/bridge.rs` | the ECS ends of two queues, the messages of an update, commands waiting | drain events, flush commands | full queues between two clocks | no message overtakes another, is doubled or disappears unseen |
| Turing machine | `oxurack-mod-turingmachine/src` | register, knob and held modulation, length, scales, dividers; a step waiting to be published; the last note of the MIDI host | tick, move, reset, set a parameter, restart; send, silence, set the channel | edges that compete, a modulation held between samples, sends that fail half way | a full knob locks the loop; the knob is never mistaken for what is in force; one note sounds, and it is tracked |
| clock, LFO | `oxurack-mod-clock`, `oxurack-mod-lfo` | phases, the pulse in progress, staged parameters, the last sync level | tick, set a parameter, synchronize, restart | a parameter that changes in the middle of a pulse; a pulse too short for its cable | an epoch has the pulses its tempo asks for; each restarts what follows it |
| graph view | `oxurack-graph/src/lib.rs` | a petgraph mirror of modules and cables with three maps | maintenance, queries | four queues of messages read out of order; indices of edges used again | with no message waiting the mirror is the world, and queries answer what the cables say |
| labels, events, parameters | `oxurack-core/src/{label,event,parameter,module}.rs` | labels, change messages, registries | set, get, load | who listens hears only of changes | the messages alone tell what is set |
| MIDI codec | `oxurack-midi/src` | none | bytes to wire form, wire form to messages and back | running lengths, the centred pitch bend | three conversions keep the meaning |

How they interact: every facade call has the rack to itself (`&mut self`), so
facade models interleave calls, and the steps inside a call follow one another.
The App's systems run inside a call, sample by sample. The real-time thread is
another matter: it shares three lock-free queues with the ECS world and with
the callbacks of the input ports, and everything may happen between two of its
steps.

## 2. Modules

| module | models | state against code |
|---|---|---|
| `MidiVoice` | a MIDI receiver | the voices that sound after a sequence of messages (external) |
| `Rack` | sample execution, `midi_out`, buffer, lifecycle with cleanup | `driver`, `running`, `fault`, `events`, ... are the fields of the same names; `pc` is the place inside a call: a sample visits its sinks one by one, a cleanup its channels |
| `CommandQueue` | `commands.rs` alone | `slots`, `next_id`; `processing` while `process_commands` runs |
| `Facade` | lifecycle, tokens, handles, and what queued commands do to them; extends `CommandQueue` | `installed` is `install_order`, `registry` what the App has, `modules` is `PatchHandle` |
| `Scope` | scope capture with the life of the App under it | `scope` is the `ScopeCapture` resource |
| `Jacks` | ports, kinds, transforms, merge policies | pure operators over the constants |
| `Cables` | the patch graph as the ECS holds it; extends `Jacks` | `by_source`/`by_target` are `CableIndex`, `order` and `dirty` the cached propagation order |
| `Patchbay` | what the patch graph promises: lines of cables from any port to any other (a patch file may draw them backwards), no entities, no index, no cache | abstract; `Cables` implements it |
| `RackGraph` | the petgraph mirror and its maintenance; extends `Cables` | `graph` holds the nodes, edges and maps of `RackGraph`, `mail` the messages the handlers have not read |
| `TickOrder` | Kahn's algorithm as `compute_tick_order` and `check_patch_cycles` have it, one with a heap, one with a queue | pure operators; wires are a sequence of pairs of modules, and a round takes one module |
| `CycleSearch` | Tarjan's search for the modules their errors name; extends `TickOrder` | pure operators; `visit` is a function on searches for each depth of calls, there being no more calls within calls than modules |
| `GraphView` | the queries of `GraphView`; extends `RackGraph` and `TickOrder` | operators over `graph` and the ports |
| `ClockModule` | the Clock of the rack | `config`, `phase`, `high_remaining` and `pulse` are its fields; `samples`, `pulses` are history |
| `LfoModule` | the LFO of the rack | sync edges, epoch, staged parameters; waves on the steps of a cycle |
| `Devices` | both in one rack with a cable between them, labels, restarts and loads, and a listener to their messages | `connected` is the cable; the listener's picture is history |
| `EventQueue` | the ring buffer to the ECS and `push_event` | `overflows` is `consecutive_overflows` |
| `RtMaster` | the whole master-clock thread, its start, its ports and its queues; uses `EventQueue` | `thread` is the place in the loop |
| `Slave` | estimator, oscillator and slave loop | times are relative to now |
| `Passthrough` | the ratio clock and its loop | `input_count`, `output_count`, `beat`, `subdivision` |
| `MidiCodec` | channel messages as bytes, wire form and structured form | pure operators; `Meaning` is what a receiver makes of bytes (external) |
| `MidiPath` | the way of a message: callback, input ring, thread, event queue, bridge, a forwarding world, command queue, output port; uses `EventQueue` and `MidiCodec` | `midi_thread`, `cursor`, `inputs`, `commands`, `port_lost` are the loop's; `update`, `mail`, `outbox` the world's; `played`, `arrived`, `lost` are history |
| `Quantizer` | from a byte to a note in a scale and range | pure operators |
| `TuringMachine` | the engine as a record, its operations as operators; extends `Quantizer` | the fields are those of `engine.rs`; a divider is its counter |
| `TuringModule` | the engine in the rack (`rack.rs`); extends `TuringMachine` | `engine`, `write_base`, `write_modulation`, `pending` are the fields of the same names; `kept` and `fresh` are history |
| `MidiTuring` | the engine behind a MIDI port (`midi_io.rs`); extends `TuringMachine` | `last_note`, `channel`; `sounding` is the receiver, `forgotten` is history |

A module `MCx` instantiates `x` for TLC, and `xProofs` proves about `x`:
`CablesProofs` about `Cables`, `RackGraph`, `GraphView` and `TickOrder`, `FacadeProofs` about
`CommandQueue` and `Facade`, `ModesProofs` about `Passthrough`, `Slave` and
`MidiPath`, `TuringProofs` about both hosts of the engine. `MCModes` composes `Slave`, `Passthrough` and `MidiPath` as
`rt_thread_main` does, which branches on its `ClockMode` once and stays there;
`MCTuring` gives one engine to either of its two hosts. A
definition whose comment says "Mutant" is not part of a specification: it is a
plausible mistake in the definition that follows, and stands beside it so that
each property can be seen to notice one.

## 3. What the runs show

| run | instance | shows |
|---|---|---|
| `rack` | two sinks, two channels, two notes, three patches, two samples, requests of two, two replacements | `VoicesAgree`: what sounds at the receiver is what the sinks track; `VoicesRecoverable`: a reset or replacement can always end it; `SilenceNeverRefused`: the fixed storage is enough for every cleanup; `FaultIsTerminal`: the first fault stays |
| `facade` | two names, three types for two kinds, three patch files, three replacements, three slots, four ids | `HandlesStayHome`: a handle reaches its instance or nothing; `FacadeAgreesWithApp`; `ExactlyOnce`: every command has one outcome; `ImplementsQueue`: with loads and resets in the middle of the queue it is still `CommandQueue` |
| `scope` | two modules, two selectors, capacities 0, 1, 3, two samples a life, two replacements | `NewestKept`, `NoPortDisappears`, `EverySampleOnce` |
| `cables` | three modules, six ports, five patch files, three cable entities a life | `OrderNeverStale`, `RemovalNeverRefused`, `RestartNeverRefused`, `GraphIsLegal`, `MergesOneKind`, and `ImplementsPatchbay` |
| `graph` | three modules, five ports, two patch files, three cable entities a life; beside it all sequences of up to four wires | `GraphFollows`: with no message waiting the mirror is the world; `AnswersAgree`: each query answers what the cables say; `DrawnCyclesNamed`: order and cycle report agree with reachability, on any wiring |
| `devices` | a minute of ten samples, a cycle of four steps, two of three tempi rounded, two patch files | `TempoHeld`: an epoch has the pulses its tempo asks for; `PulsesSeparated`: a low sample comes before each; `SyncAligns`: each restarts the LFO one sample later; `NoticesTell`: the messages alone tell every label and what every parameter was before it was rounded |
| `rt_master` | one-place queues, four pulses to the beat, two beats, Stop and song positions from the input port | `FramesFollow`, `StoppedIsSilent`: the ticks the world gets agree with what the clock itself announced, whatever the port brings; `FollowersInStep`: so does the wire; `ReportsAreHonest`: an overflow report stands for that many losses |
| `rt_master_live` | one beat, with fairness, notes, clock bytes and transport from input ports | `CallsReturn`: `Runtime::start` and `stop` return, whatever fails |
| `modes` | passthrough with three ticks for two bytes; a slave with gaps 2, 5 and 13, a timeout of 11 and stamps that run ahead of its clock by 2; two input and two output ports with two messages each and queues of one or two | `RatioKept`, `FollowersInStep` of the passthrough clock; `FreeRunIsBounded`, `LocksOn` of the slave; `LinesKept`, `Faithful` of the messages: none is doubled, overtaken or lost unseen, and each means what was played |
| `turing` | a register of four bits, loops of two and four, three-bit bytes, notes up to eight, one parameter change | `LoopRepeats`: a full knob locks the loop; `WriteIsEffective`, `ConfigSurvives`: modulation acts at once and is never saved as a setting; `OutputsFollow`: what is published is the latest step; `OneVoice`: of the notes not given up, the one that sounds is the one tracked |

Where the code does not do what its comments say, a run that ends in a
violation shows it. Each is also a finding in `PROJECT.json`, with the text it
disagrees with:

| run | property | what happens |
|---|---|---|
| `rt_master_burst` | `SteadyStream` | after a Stop the missed pulses go out at once |
| `slave_pace` | `KeepsPace` | phase correction runs ahead of a steady source |

Three more configurations end in a violation. They are kept for a reader to run
by hand and are not among the runs of `PROJECT.json`:

| configuration | property | what happens |
|---|---|---|
| `MCCablesMixed.cfg` | `MergesOneKind` | a patch file that `validate_patch` accepts may bring two kinds together in one mean, which `apply_merge` asserts away |
| `MCTuringSilence.cfg` | `AllNotesOffSilences` | a Note Off that failed, or a change of channel, leaves a note that `all_notes_off` no longer knows |
| `MCGraphBatch.cfg` | `MaintenanceNeverPanics` | a cable connected on the world itself, whose module is removed before the next Update, is looked up when it is gone (`handle_cable_connected`, `oxurack-graph/src/lib.rs`); a facade call maintains the graph before it returns and cannot do this |

The modules state more that the code refutes. Each is seen by putting the
property into a configuration in place of what it checks now:

| property | configuration | what happens |
|---|---|---|
| `OverflowIsReported` | `MCRtMasterSteady.cfg` | the report of a full event queue is lost in the full queue |
| `SilentOnceToldToStop` (an invariant) | `MCRtMasterSteady.cfg` with `Received = {"Stop"}`, `EventCapacity = 2` | a Stop from an input port is announced to the world like one of the clock (`thread.rs:652`), and the ticks go on |
| `NoticesAreExact` (an invariant) | `MCDevices.cfg` | `ParameterChanged.new`, "New value that was written" (`event.rs:211`), is the value that was asked for (`event.rs:464-471`); the Clock has written a rounded one |
| `CablesRunForward` | `MCCablesMixed.cfg` with `Patches <- BackwardPatches` | a patch file may wire an input to an output |
| `DropoutIsReal` | `MCModes.cfg`, for `LocksOn` | a stopped passthrough clock reports a dropout of a source that never stopped |
| `OneReportPerSilence` | `MCModes.cfg`, for `LocksOn` | one dropout is reported on every turn |
| `ContinueIsTimely` | `MCSlavePace.cfg` | a schedule grown stale while stopped is caught up at once |
| `DropoutResets` | `MCSlavePace.cfg` with `SPECIFICATION Spec`, `Gaps = {4, 9, 20}`, `Timeout = 15`, `InputCapacity = 4`, `MaxLead = 0` | the configured timeout leaves the estimator locked |
| `DropoutIsPrompt` | the same | a dropout is not seen when the time since the last byte exceeds four intervals (`slave.rs:155-157`), but later, by what the clock of the port runs ahead; with `Skew = 0` it holds |

On the clocks: every input callback makes a `MonotonicClock` of its own before the
port is connected (`oxurack-rt/src/midi_io.rs:271`), the thread makes one after all
ports are open (`thread.rs:100`), and each counts from its own beginning
(`timing.rs:25`). A stamp is therefore ahead of the thread's clock by the time
between the two, the constant `Skew` of `Slave` and `Passthrough`. Both clocks take
stamps for times of the thread: silence is noticed that much later, and the
schedule that `sync_to_external` makes of a stamp is slept on by the other clock,
although `timing.rs:84` asks for the same timescale. `Slave` follows one input port,
with one such difference; bytes of two ports would mix two.

Two further remarks from the reading: no code ever sends
`RtErrorCode::OutputPortLost` or `InputPortLost` (`oxurack-rt/src/messages.rs:183`),
so a lost port is silent, which is why `LinesKept` allows it; and
`oxurack-core/src/bridge.rs:161` calls commands that find the queue full
"silently dropped" where the system now writes a warning.

### Bounds

Every bound is a constant with "a bound" in its comment, used in a guard.
`rack`: a second sample after the first shows every change of a voice, and a
request of two shows a fault and a shared stop between samples; two
replacements let a cleanup be carried into a configuration that is itself
replaced. Sinks are treated alike except for order, so two are enough for
collisions; the proofs cover any number. `facade`: a handle can only go stale
by a removal or a replacement, and three replacements allow a name to come back
as another type and again as the first; three slots are the least in which a
reset has commands both before it and behind it. `scope`: four signal records overrun a
capacity of three, and two replacements are needed for a capture to be left
behind by one. `cables`, `graph`: three entities allow two parallel cables and a
cycle, and an index of petgraph that is used again; four wires among three modules
close every kind of cycle, two at once and one behind another among them.
`devices`: pulses are two to five samples apart, one tempo does not divide the
minute, and a pulse can be longer than half its cycle; the proofs cover every
minute and range. `modes`: two messages on one port are needed for one to
overtake the other and two ports for one to starve the other; with one place in
the event and command queues every push may fail, and with two in the input rings
a port may fill again while the next is read. `turing`: four bits and a loop of
two leave room for two turns of the loop in the register; the full knob is one
step above zero, so that a modulation takes it to full, lets it fall back, or pushes a
full one past the end, where it is clamped; one change reaches
every parameter, before and after a restart. Clock models bound lag, bursts and
lead, because a real backlog is unbounded: beyond the bound the states repeat.
`rt_master` lets one thing arrive per unit and keeps no backlog, so that all commands
and positions fit; `rt_master_live` and `rt_master_burst` keep both. The slave's `MaxAge` bounds how long a transport message has waited when it is taken. Its
`Skew` of two is an interval of the fastest tempo, so that a sixth tick is waited for;
the proof takes any.
Beats wrap after two where the code counts in a `u64`.

`CHECK_DEADLOCK FALSE` stands in the runs whose system may stop: a thread that
has ended, a bound on replacements, samples or messages that is used up.

### Fairness

`RtMaster` assumes that the thread's own steps and the two blocking calls of
the host are weakly fair: the loop has no lock and its sleeps are bounded, and
`start` and `join` block on it alone. Nothing is assumed of the ECS world, the
ports or the drain. The slave in `MCModes` assumes in addition that time passes
and that its source, when it is due, sends. No property outside `CallsReturn` and
`LocksOn` is a liveness property: facade calls are sequential code that ends.

## 4. Proofs

| theorem | module | says, for every value of the constants |
|---|---|---|
| `TypeCorrect` | `RackProofs` | type correctness |
| `NeverOutOfRoom` | `RackProofs` | no sample runs out of the slots reserved for its sinks |
| `SilencingSucceeds` | `RackProofs` | accounting always agrees and a cleanup batch always fits |
| `FaultTerminal` | `RackProofs` | the first fault stays, and no sample begins after it |
| `DriverOwnership` | `RackProofs` | samples run only for the owning driver |
| `VoicesAlwaysAgree` | `RackProofs` | what sounds at the receiver is what the sinks track |
| `VoicesAlwaysRecoverable` | `RackProofs` | a voice left hanging by discarded output has a dirty sink that will end it |
| `OrderIsNeverStale` | `CablesProofs` | a propagation order not marked dirty is the one the cables ask for |
| `RemovalIsNeverRefused` | `CablesProofs` | the index names the cables of every jack, so that no removal is refused |
| `GraphStaysLegal`, `GraphIsAlwaysLegal` | `CablesProofs` | no sequence of edits, loads and restarts closes a loop or overfills an input; with its inductive invariant |
| `RestartIsNeverRefused` | `CablesProofs` | what a snapshot of any reachable rack says passes `validate_patch` |
| `GraphImplementsPatchbay` | `CablesProofs` | `Cables` implements `Patchbay`: every sample delivers what is plugged in, in its order, and every edit does to the lines what it says |
| `OnlyFilesMixKinds` | `CablesProofs` | where values of two kinds meet in an input, a cable that a patch file draws brings the wrong one; no edit or restart mixes kinds |
| `ViewFollowsWorld` | `CablesProofs` | with no message waiting the mirror is the world |
| `ViewAnswersForWorld` | `CablesProofs` | whatever was edited or loaded, every query of the graph view answers what the cables say, and a tick order exists |
| `BothOrdersFound` | `CablesProofs` | on any finite wiring both of Kahn's algorithms resolve all modules exactly when none lies on a loop with another, and the tick order has the least names first |
| `CyclesAlwaysNamed`, `DrawnCyclesAreNamed` | `CablesProofs` | on any finite wiring the error names exactly the modules on loops with others, and none that are merely downstream |
| `FollowersStayInStep` | `RtMasterProofs` | a device on the wire is where the master clock is |
| `ReportsStayHonest` | `RtMasterProofs` | an overflow report stands for at least `Threshold` losses |
| `FramesAlwaysFollow`, `StoppedStaysSilent` | `RtMasterProofs` | whatever input ports send, the ticks the world gets agree with what the clock announced before them |
| `RatioIsKept` | `ModesProofs` | ticks are bytes times multiply over divide, rounded down |
| `FollowersKeepStep` | `ModesProofs` | the world and the wire are where the passthrough clock is |
| `FreeRunAlwaysBounded` | `ModesProofs` | a slave free-runs for five ticks at most, and those that fit into the time its stamps run ahead |
| `PathIsFaithful`, `RoundTrip` | `ModesProofs` | what arrives means what was played; the codec alone keeps the meaning of every channel message |
| `LinesAreKept` | `ModesProofs` | from port to port no message overtakes another, is doubled, or disappears but at a full queue or a lost port |
| `OutcomesExactlyOnce` | `FacadeProofs` | one outcome per accepted command, in order |
| `ResetParts` | `FacadeProofs` | a reset divides what may run from what is cancelled |
| `CapacityHolds` | `FacadeProofs` | the queue and the collected outcomes fit the capacity |
| `FacadeImplementsQueue` | `FacadeProofs` | `Facade` implements `CommandQueue`, with resets and replaced Apps in the middle of the queue |
| `FacadeAgrees` | `FacadeProofs` | what the facade keeps beside the App is what the App has |
| `HandlesReachTheirOwn` | `FacadeProofs` | a valid handle reaches the instance it was bound to |
| `NewestAreKept` | `ScopeProofs` | the capture holds the newest records, in order, and counts the rest |
| `NoPortIsGone` | `ScopeProofs` | a capture is bound to live ports, those its selectors name |
| `NoSampleIsMissed` | `ScopeProofs` | between its signal records no sample is missed or repeated |
| `LockedLoopRepeats` | `TuringProofs` | each step with a full knob makes one more place repeat the place a loop length on |
| `WriteInForce` | `TuringProofs` | the probability in force is the knob and the held modulation |
| `OutputsAlwaysFollow` | `TuringProofs` | what is published is the latest step of the register |
| `ConfigAlwaysSurvives` | `TuringProofs` | no sample and no restart changes a setting |
| `TypeCorrect` | `TuringProofs` | the engine and its settings stay well formed |
| `OneVoiceAlways` | `TuringProofs` | of the notes not given up, the one that sounds is the one tracked |
| `ClockIsAligned`, `TempoIsHeld` | `DevicesProofs` | phase, samples and pulses of an epoch stay aligned, so that it has the pulses its tempo asks for |
| `PulsesAreSeparated` | `DevicesProofs` | no pulse begins on a sample that follows a high one |
| `SyncAlwaysAligns` | `DevicesProofs` | every pulse restarts the LFO patched to the clock one sample later |
| `NoticesAlwaysTell` | `DevicesProofs` | whoever hears the messages alone knows every label and, but for the rounding, every parameter |

Assumptions: the named `ASSUME` of each module, which TLC evaluates in its
runs. No theorem has another hypothesis about messages or files.

*Rack.* The invariant is `TypeOK /\ ControlInv /\ AccountInv /\ BufferInv`.
That a cleanup fits is not inductive alone: it needs that the buffer never holds
more than five events for each sink visited (`BufferInv`), that the reservation
counts are those of the live sinks (`AccountInv`), and that an operation which
collects silence began on a rack in the right place (`ControlInv`). The maximum
sizes then add up to the fixed storage. `DriverOwnership` adds `DriverInv`:
a call holds the driver it was made for.
Voices need `VoiceInv`: what the receiver will hold after the buffer is what the
sinks of its channel track; the cleanup being collected turns nothing on and
covers every channel it was begun for; and wherever in the buffer the host may stop
reading, what sounds there is ended by a cleanup still to come, or a sink of the
channel is dirty. The last is stronger than `VoicesRecoverable`, which speaks of
the whole buffer only and is not inductive: a drain may be dropped half way. The
receiver folds over a sequence of messages, so the lemmas say what one message
appended, or a batch of them, does to that fold; TLC checked the conjunction as
an invariant of `rack` first.

*Cables.* Removal is a matter of the index: every jack's entry is the set of
cables that name it, and ids are below the next one. For legality the invariant
says that a proper path never returns to its module. The check of a live
connection, and that of a patch file, are rounds of a search: that they find a
cycle if there is one follows from a least counterexample over the rounds; that
they refuse nothing else, from the fact that in a graph without loops some
module is left with nothing to wait for. A restart then passes because the snapshot
has the cables of a legal rack in the order of their ordinals.

*Patchbay.* A step of `Cables` is the step of `Patchbay` of the same name, given
that the graph is legal and the order never stale. Four facts carry it. Sorted
lists are given by places: the place of an element is how many come before it,
every place is taken once (`PlaceTaken`), and two orders that a bijection carries
into each other list the same (`SameOrder`). A new cable has the greatest ordinal,
so it joins its line at the end (`ConnectedLine`), and one that goes lets those
behind it move up (`DisconnectedLine`); a snapshot numbers the cables anew in
propagation order, which within a line is age, so the lines stay
(`SnapshotKeepsLines`). The cables of the rebuilt order that reach an input and the
feeds of that input in the `Patchbay` correspond one to one and in order
(`AliveFeeds`, `FeedsRise`), so a sample delivers the same (`ArrivingIs`). And a loop
of lines would have a smallest ring of modules, whose first in the acyclic order
could be left out (`NoLoop`). `OnlyFilesMixKinds` reads
the kinds off the same list: every cable that was not drawn in a file has passed
`validate_transform`, which compares them, and a restart keeps its ends and its
transform. That a run holds of `MergesOneKind` is a matter of its files, and has no
theorem.

*Graph view.* The mirror lags behind the world by the messages in four queues, so
`GraphFollows` is not inductive. `FollowInv` says what the mirror will be when they
are read: the modules it has and those announced, less those removed, are the
modules of the world, and likewise for cables; edges and map agree whatever
waits. Each of the four handlers is a lemma, and that a cable may be announced
and withdrawn before the mirror has heard of it is why the queues may be read
one by one and not in the order they were written.
What the queries then say is proved of the cables. The search of a closure
adds something in every round until it is closed, and a rack of `N` modules has no
more than `N` rounds of that kind (`SearchFinds`); the search against the edges
finds what the one along them starts from, since what it leaves out is closed
(`ClosuresAre`). The k-th cable shown between two ports is occurrence k because
within two ports the order shown is age (`OccurrencesAre`). That a tick order
exists is legality once more, by way of the next paragraph.

*Tick order.* `KahnInv` holds before and after every round: the degree of a
module counts the cables into it from modules not yet taken, the queue has the
modules of degree zero that are not taken, no module comes twice, each taken one
has its feeders before it and, with the heap, none with a lesser name could
stand in its place. A round without a module to take is the last, and after as many
rounds as there are modules the queue is empty (`KahnEnds`). If all are taken, what
comes from a place on is closed along the cables (`NoWayBack`), so no taken module
is on a loop (`ResolvedHasNoLoop`). If some are not, each of those has a feeder among them. Take
one that the fewest of them reach: what reaches its feeder reaches it, so by count
the same modules reach both, it among them, and it reaches its feeder
(`StuckHasALoop`).

*Cycle search.* What an error names are the strongly connected components with more
than one member that Tarjan's search finds among the modules not taken. `SearchInv`
is what holds of the search between any two steps, for the set of *grey* modules,
those whose call has not returned (`Numbered`, `Stacked`, `Parted`): indices rise
up the stack; whoever lies lower reaches whoever lies higher, and each reaches a
grey module that is not above it; whoever was seen and left the stack is in a
component, each component is all that its members reach and are reached by, and no
cable leads out of the components; only a grey module may feed one not yet seen.
`VisitDone` is the contract of a call: the stack grew above the old top only and what
was below keeps its numbers, the low number it leaves is that of a module below which it
reaches or none that matters, and no cable from what it left on the stack leads to a
lower one. `Exploring` is the same in the middle of its loop: a dependent is new
(`VisitGoesOn`), on the stack (`StackGoesOn`) or gone (`GoneGoesOn`), and each case
keeps it. At the end the low number either leads below, and then all that was left on
the stack reaches a grey module (`StaysOnStack`), or it does not, and then nothing
leads out of the upper part of the stack but into components: it is one
(`ClosesLoop`). Since the call is entered with fewer unseen modules than its caller
(`FewerUnseen`), the contract holds for calls within any depth by a least
counterexample over the depths (`VisitsVisit`), and the outer loop leaves nothing
unseen (`AllSearched`). The unresolved modules are closed along the cables
(`ResolvedHasNoLoop`), so what they reach among themselves is what they reach at all
(`UnresolvedReach`). The order in which the search takes the modules, which is by
entity in one caller and by name in the other, is the order of their numbers; the
result does not depend on it, since it is stated without it.

*RtMaster.* What the world will know after the events in the queue is a fold
over them. `ChainInv` says of every event that it is one which the knowledge
before it expects, and of the last knowledge that the clock agrees with it; an
event lost widens what the world holds possible until the next one settles it.
Events that come of an input port bear a mark, which is history: they change neither
the clock nor what follows from its own events, whatever the port sends. The mark is
not in the code, so a world that believes every Stop is misled (`SilentOnceToldToStop`).

*Passthrough.* `RatioInv` says how many ticks the counted bytes have earned in
the present round of the ratio and that whole rounds divide exactly.
`FollowersInStep` is inductive once the position is known to stay in its range
(`PlaceInv`): both followers wrap where `advance_output` carries.

*Slave.* `SlaveInv` joins three things: clock bytes come one after the other
(`SourceInv`), so that an estimator that has an interval has one that is not zero
(`EstimatorInv`), and when the `k`-th wait without a byte begins, `k - 1` intervals
and a unit have passed since the last (`FreeInv`). Four intervals on the thread's
clock end it, which are four and the time by which the stamps run ahead; so a `k`-th
wait, beyond the fifth, is within that time. TLC checked the conjunction on `modes` first.

*MIDI.* `PathInv`: everything on its way is the original, recoded as far as it
has come. A queue only moves its members, so each action is a lemma about one
conversion, and at the output port all three together are `RoundTrip`: the
status byte is a kind and a channel, data bytes fit seven bits, and a pitch bend
centred and shifted back is itself.
`LinesKept` is inductive beside it. Everything between an input and an output
port is six stages in a row, and a step takes the head of one stage and puts what
comes of it at the end of the next, or gives it up: `MoveKeepsOrder` and
`MoveKeepsPresence` say once, for any stage, that this keeps the order and loses
nothing but the head. Each action is then a lemma that names its stage; forwarding
makes several commands of one message, of which one at most is of the line since
a route names no output twice; and a played message joins the last stage as the
latest of its port.

*Facade.* Each action of `Facade` is a step of `CommandQueue` or leaves the queue
alone; a load that replaces the App while the queue is processed is a step in
which one command runs. `FacadeInv` is `KindsInv`, the agreement of the facade with
the App, `InstancesInv`, that instances were born in the past and apart from each
other, and `HandleInv`, that a handle is of a lifetime and instance that have been
given out. A name may then come back as another type, and the old handle is told
from the new by its tokens.

*Scope.* `CaptureInv` relates records and log by the count of those overwritten,
one push at a time, and binds every selection to a module that is there: whatever
ends a module ends or disables the captures bound to it. `SampleInv` says of the log
that its signals follow one another and that the last of them ends the last
sample that was completed.

*CommandQueue.* `QueueTypeOK /\ ExactlyOnce /\ ResetCancelsPending /\
WithinCapacity`. The ids of outcomes and slots are one run of numbers; so what
cancelling leaves behind lies below the fence, and a new command above it.

*Turing machine.* `LoopInv` joins the types, the repetition and the probability
in force. The step that matters is `LockedStepRepeats`: a clocked register moves
every repetition one place up, and the tap at the end of the loop supplies the
one at place zero. Types are needed with it because a step takes its length from
a table, and a parameter change its values from decoders: `ParametersDecoded`
and `CandidateDecoded` say that what is asked for may be set again. For the host
with a MIDI port `OneVoice` is inductive once the engine is well formed and no note
it makes is taken for none (`PortInv`); `HostRunsModule` says that with either host
in the module `MCTuring` the other's theorems still hold.

*Devices.* `ClockInv`: the phase is what is left of samples times tempo after
whole pulses, and while a pulse is high the phase is so low that the next wrap
lies at least a sample beyond its end. `SyncInv` carries the level of the cable
and the edge the LFO has seen; For `NoticesTell`, the
Clock sets each parameter beside the others as it has stored them, and the listener
beside the others as they were asked for: since parameters are rounded apart from each other
(`RoundedApart`) and what was rounded stays (`RoundedOnce`), the two end at the same
configuration. That a message does not show the rounding stays so (`NoticesAreExact`).

Checked by TLC only: the liveness properties `CallsReturn` and `LocksOn`, since the
prover has no `ENABLED`; and `MergesOneKind`, which depends on the files. Every other
safety invariant and action property of a passing run has a theorem. Proved, and in no run of its own: `NeverOutOfRoom`,
`DriverOwnership`, `ResetParts` and `CapacityHolds`. Each module states its types as
`TypeOK`; those that a proof rests on are proved with it.

## 5. Abstractions and what is not modelled

Values of ports are abstracted to what a sink can tell apart in `Rack` (gate,
note, velocity, out of range) and to contributions with a kind in `Cables`. `MidiTuring`
leaves out a note range turned round (`set_note_range`), with which the next tick
panics; no property depends on it.
Numbers of channels, sinks, notes and capacities are constants. Time is in
units of the shortest sleep. Logging, wording, CSV, RON and file I/O are left
out; a patch file is the configuration it describes or one that is refused.
`Facade` does not follow voices: its `sounding` may be set by any call that
`Rack` shows may leave messages. User modules with hooks that panic are outside
the guarantees the code states and outside the models.
The write probability counts in whole steps from zero to full, where the code
rounds in `f32`: near full the rounding of `reconcile_write_probability` still
ends at one. The seed of an instance is any of a set of registers. Tempi of the
Clock are in half steps of the resolution the code rounds to, so that some are
rounded; waves of the LFO are taken on whole steps of a cycle. `MidiPath` takes
the loop of the master clock without its clock, which is the matter of
`RtMaster`; the system of the world that forwards what came is external, since
`src/` has only the queues on both its sides.

Not modelled, because nothing in it can be checked this way: starting and
naming the thread, raising its priority, the monotonic clock and the sleeping
itself (`oxurack-rt/src/{lib,timing,priority}.rs`), which are calls of the
operating system; `tempo_to_interval` of a float that is not a number; file and
CSV output; error wording; the tables of scales and the hashing of seeds, which
are data; the noise controller, whose byte is random. The components say so one by one in
`PROJECT.json`, and hazards without a property say why there.

The repository keeps its tests beside the code: of `oxurack-core/src/patch.rs`
the last 2364 of 3281 lines are tests, of `oxurack-graph/src/lib.rs` the last 2136
of 3169, and `oxurack/src/lib.rs` is tests from line 539 on. A map of definitions to
code therefore covers a small share of those files, although it covers most of
what they do: of the lines that are not tests, it names about two in five, and
the rest is schemas, accessors, error wording and documentation.

## 6. What is left

The liveness properties, which stay with the model checker;
values of merges as numbers, which `Cables` abstracts to what they are made of.
