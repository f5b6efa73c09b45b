-------------------------------- MODULE Rack --------------------------------
(***************************************************************************)
(* The oxurack facade as the host calls it: sample admission under the     *)
(* manual and the live driver, the bounded MIDI output buffer that the     *)
(* midi_out sinks fill, and the lifecycle operations that silence voices,  *)
(* remove sinks and replace the whole configuration.                       *)
(*                                                                         *)
(* Every facade call has exclusive access to the rack, so calls never      *)
(* interleave; what happens inside a call is a sequence of steps (pc),     *)
(* because a sample visits the sinks one by one and a cleanup visits the   *)
(* channels one by one.  The host may make any call between two calls, and *)
(* a user module may clear SimulationRunning in the middle of a sample.    *)
(***************************************************************************)
EXTENDS MidiVoice, FiniteSets

CONSTANTS
  Bad,           \* a Raw port value above 127
  Names,         \* instance names of midi_out modules, in name order
  NumChannels,   \* MIDI channels are 0 .. NumChannels - 1 (16 in the code)
  MaxSinks,      \* MAX_SINKS (16 in the code)
  Patches,       \* the patches the host loads
  MaxRequest,    \* samples one call may ask for: a bound
  MaxSamples,    \* completed samples of one lifetime: a bound
  MaxLives       \* configurations committed after the first: a bound

Channels == 0 .. NumChannels - 1
Routes == {"noise", "note", "velocity"}
Config == [channel : Channels, routes : SUBSET Routes]
Patch == [names : SUBSET Names, config : [Names -> Config]]

(* The most messages one sink sends in a sample and in a cleanup.          *)
NormalEventsPerSink == 5
CleanupPerSink == 3
\* Mutant: the fixed storage without its cleanup share.
TotalEventsNoCleanup == MaxSinks * NormalEventsPerSink
TotalEvents == MaxSinks * NormalEventsPerSink + MaxSinks * CleanupPerSink

Faults == {"backpressure", "invalid", "capacity"}

ASSUME RackAssumption ==
  /\ None \notin Nat \cup Faults
  /\ Bad \notin Notes \cup {None}
  /\ Names \subseteq Nat /\ IsFiniteSet(Names)
  /\ NumChannels \in Nat \ {0}
  /\ MaxSinks \in Nat \ {0}
  /\ Patches \subseteq Patch
  /\ MaxRequest \in Nat /\ MaxSamples \in Nat /\ MaxLives \in Nat

Drivers == {"Manual", "Live"}

VARIABLES
  running,      \* SimulationRunning
  driver,       \* who owns sample execution
  unpaused,     \* Time<Virtual> is not paused: app.update() runs samples
  loaded,       \* loaded_identity is some
  sinks,        \* names of the live midi_out modules
  config,       \* their MidiOutState::config
  active_note,  \* their MidiOutState::active_note
  dirty,        \* the sinks whose MidiOutState::dirty is set
  channels,     \* MidiOutputBuffer::channels
  sink_count,   \* MidiOutputBuffer::sink_count
  events,       \* MidiOutputBuffer::events
  fault,        \* MidiOutputBuffer::fault
  completed,    \* SampleTime::completed_samples
  last_index,   \* SampleTime::last_index
  pc,           \* where the current call stands; "idle" between calls
  caller,       \* the driver whose call is running samples
  left,         \* samples the call has still to run
  todo,         \* sinks the current sample has still to consume
  op,           \* the lifecycle operation in progress
  cursor,       \* next channel its cleanup looks at
  batch,        \* the SilenceBatch it has collected
  life,         \* lifetimes committed so far
  heard,        \* per channel, the notes that sound at the receiver
  lost,         \* channels with output the host discarded since their last cleanup
  abandoned     \* channels whose cleanup itself was discarded

timeVars == <<running, driver, unpaused>>
sinkVars == <<sinks, config, active_note, dirty>>
bufferVars == <<channels, sink_count, events, fault>>
sampleVars == <<completed, last_index>>
callVars == <<caller, left, todo>>
opVars == <<op, cursor, batch>>
hostVars == <<heard, lost, abandoned>>
vars == <<timeVars, loaded, sinkVars, bufferVars, sampleVars, pc, callVars,
          opVars, life, hostVars>>

NoConfig == [channel |-> 0, routes |-> {}]
NoOp == [kind |-> "none", name |-> None,
         patch |-> [names |-> {}, config |-> [n \in Names |-> NoConfig]]]

(* Oxurack::new(): a live, stopped, paused rack without a patch. *)
Init ==
  /\ running = FALSE /\ driver = "Live" /\ unpaused = FALSE
  /\ loaded = FALSE
  /\ sinks = {} /\ config = [n \in Names |-> NoConfig]
  /\ active_note = [n \in Names |-> None] /\ dirty = {}
  /\ channels = {} /\ sink_count = 0 /\ events = <<>> /\ fault = None
  /\ completed = 0 /\ last_index = None
  /\ pc = "idle" /\ caller = "Live" /\ left = 0 /\ todo = {}
  /\ op = NoOp /\ cursor = 0 /\ batch = <<>>
  /\ life = 0
  /\ heard = [c \in Channels |-> {}] /\ lost = {} /\ abandoned = {}
-----------------------------------------------------------------------------
(* Drivers and transport. *)

(* start(): the live driver resumes virtual time. *)
Start ==
  /\ pc = "idle"
  /\ running' = TRUE
  /\ unpaused' = (unpaused \/ driver = "Live")
  /\ UNCHANGED <<driver, loaded, sinkVars, bufferVars, sampleVars, pc,
                 callVars, opVars, life, hostVars>>

(* stop() *)
Stop ==
  /\ pc = "idle"
  /\ running' = FALSE
  /\ unpaused' = FALSE
  /\ UNCHANGED <<driver, loaded, sinkVars, bufferVars, sampleVars, pc,
                 callVars, opVars, life, hostVars>>

Resumes(d) == d = "Live" /\ running

(* set_driver_mode(): selecting the present driver leaves virtual time     *)
(* alone; a change pauses it, and a change to Live resumes it if running.  *)
SetDriverMode(d) ==
  /\ pc = "idle"
  /\ d # driver
  /\ driver' = d
  /\ unpaused' = Resumes(d)
  /\ UNCHANGED <<running, loaded, sinkVars, bufferVars, sampleVars, pc,
                 callVars, opVars, life, hostVars>>
-----------------------------------------------------------------------------
(* Sample execution. *)

(* latch_fault(): the first fault is retained. *)
\* Mutant: the last fault wins.
LatchedLast(f) == f
Latched(f) == IF fault = None THEN f ELSE fault

(* check_admission() *)
Admissible == fault = None /\ events = <<>>

BeginCall(who, n) ==
  /\ pc = "idle"
  /\ completed + n <= MaxSamples
  /\ pc' = "loop"
  /\ caller' = who
  /\ left' = n
  /\ UNCHANGED <<timeVars, loaded, sinkVars, bufferVars, sampleVars, todo,
                 opVars, life, hostVars>>

(* advance_samples(n), refused under the live driver. *)
AdvanceSamples(n) ==
  /\ driver = "Manual"
  /\ BeginCall("Manual", n)

(* step(): app.update() runs as many samples as virtual time has gained,   *)
(* which is none while virtual time is paused.                             *)
StepLive(n) ==
  /\ unpaused
  /\ BeginCall("Live", n)

(* The admission check of the next sample fails: the fault is latched and  *)
(* the rack stops, which also ends the call.                               *)
RefuseSample ==
  /\ pc = "loop" /\ left > 0 /\ running
  /\ ~Admissible
  /\ fault' = Latched("backpressure")
  /\ running' = FALSE
  /\ pc' = "idle"
  /\ left' = 0
  /\ UNCHANGED <<driver, unpaused, loaded, sinkVars, channels, sink_count,
                 events, sampleVars, caller, todo, opVars, life, hostVars>>

(* begin_sample_system: the gate is latched open for the whole sample. *)
BeginSample ==
  /\ pc = "loop" /\ left > 0 /\ running
  /\ Admissible
  /\ last_index' = completed
  /\ pc' = "consume"
  /\ todo' = sinks
  /\ UNCHANGED <<timeVars, loaded, sinkVars, bufferVars, completed, caller,
                 left, opVars, life, hostVars>>

(* A system of a user module stops the rack while a sample is under way. *)
SharedStop ==
  /\ pc = "consume" /\ running
  /\ running' = FALSE
  /\ UNCHANGED <<driver, unpaused, loaded, sinkVars, bufferVars, sampleVars,
                 pc, callVars, opVars, life, hostVars>>

(* The ports of a sink as it reads them: note, velocity and noise are Raw  *)
(* values (Bad above 127), the first two absent when their valid gate is   *)
(* low.  Of velocity and noise only what the code tells apart is kept.     *)
Inputs == [gate : BOOLEAN,
           note : Notes \cup {None, Bad},
           velocity : {"zero", "positive", "absent", "bad"},
           noise : {"ok", "bad"}]

Invalid(s, in) ==
  \/ in.note = Bad
  \/ in.velocity = "bad"
  \/ "noise" \in config[s].routes /\ in.noise = "bad"

(* An absent velocity plays at 64. *)
PlayVelocity(in) == IF in.velocity = "zero" THEN 0 ELSE 1

\* Mutant: velocity zero plays.
PlaysAtZero(in) == in.note # None /\ in.gate
Plays(in) == in.note # None /\ in.gate /\ PlayVelocity(in) > 0

When(condition, message) == IF condition THEN <<message>> ELSE <<>>

(* The messages of one sink: the old note ends before the new one starts,  *)
(* then the routed controllers.                                            *)
SinkMessages(s, in) ==
  LET c == config[s].channel IN
    When(active_note[s] # None, NoteOff(c, active_note[s]))
    \o When(Plays(in), NoteOn(c, in.note, PlayVelocity(in)))
    \o When("noise" \in config[s].routes, Control(c))
    \o When("note" \in config[s].routes /\ in.note # None, Control(c))
    \o When("velocity" \in config[s].routes /\ in.velocity # "absent", Control(c))

\* Mutant: a sink is dirty only while a note is on.
DirtyAfterNote(s, in) == IF Plays(in) THEN dirty \cup {s} ELSE dirty \ {s}
DirtyAfter(s, in) == IF SinkMessages(s, in) # <<>> THEN dirty \cup {s} ELSE dirty

Stamped(messages, index) ==
  [i \in 1 .. Len(messages) |->
     [message |-> messages[i], sample |-> index, life |-> life]]

(* ensure_room(5) against the logical capacity. *)
HasRoom == Len(events) + NormalEventsPerSink <= sink_count * NormalEventsPerSink

NextSink(s) == pc = "consume" /\ s \in todo /\ \A t \in todo : s <= t

(* A low step gate: the sink has nothing to say. *)
SkipSink(s) ==
  /\ NextSink(s)
  /\ todo' = todo \ {s}
  /\ UNCHANGED <<timeVars, loaded, sinkVars, bufferVars, sampleVars, pc,
                 caller, left, opVars, life, hostVars>>

(* A port that is out of range, or a full buffer, latches a fault, stops   *)
(* the rack and ends the Consume phase; what earlier sinks emitted stays.  *)
FailSink(s, in) ==
  /\ NextSink(s)
  /\ Invalid(s, in) \/ ~HasRoom
  /\ fault' = Latched(IF Invalid(s, in) THEN "invalid" ELSE "capacity")
  /\ running' = FALSE
  /\ todo' = {}
  /\ UNCHANGED <<driver, unpaused, loaded, sinkVars, channels, sink_count,
                 events, sampleVars, pc, caller, left, opVars, life, hostVars>>

PlaySink(s, in) ==
  /\ NextSink(s)
  /\ ~Invalid(s, in) /\ HasRoom
  /\ events' = events \o Stamped(SinkMessages(s, in), last_index)
  /\ dirty' = DirtyAfter(s, in)
  /\ active_note' = [active_note EXCEPT ![s] = IF Plays(in) THEN in.note ELSE None]
  /\ todo' = todo \ {s}
  /\ UNCHANGED <<timeVars, loaded, sinks, config, channels, sink_count, fault,
                 sampleVars, pc, caller, left, opVars, life, hostVars>>

(* finalize_sample_system: the sample counts even when a sink failed. *)
FinishSample ==
  /\ pc = "consume" /\ todo = {}
  /\ completed' = completed + 1
  /\ left' = left - 1
  /\ pc' = "loop"
  /\ UNCHANGED <<timeVars, loaded, sinkVars, bufferVars, last_index, caller,
                 todo, opVars, life, hostVars>>

EndCall ==
  /\ pc = "loop"
  /\ left = 0 \/ ~running
  /\ pc' = "idle"
  /\ left' = 0
  /\ UNCHANGED <<timeVars, loaded, sinkVars, bufferVars, sampleVars, caller,
                 todo, opVars, life, hostVars>>
-----------------------------------------------------------------------------
(* Lifecycle. *)

(* require_stopped_and_drained() *)
StoppedAndDrained == ~running /\ events = <<>>

(* The checks prepare_silence makes before it looks at any voice. *)
AccountingAgrees ==
  /\ sink_count = Cardinality(sinks)
  /\ sink_count = Cardinality(channels)
  /\ channels = {config[s].channel : s \in sinks}
  /\ \A s \in sinks : active_note[s] # None => s \in dirty

BeginOp(kind, name, patch) ==
  /\ pc = "idle"
  /\ AccountingAgrees
  /\ pc' = "collect"
  /\ op' = [kind |-> kind, name |-> name, patch |-> patch]
  /\ cursor' = 0
  /\ batch' = <<>>
  /\ UNCHANGED <<timeVars, loaded, sinkVars, bufferVars, sampleVars, callVars,
                 life, hostVars>>

(* reset(): allowed while running, pending output and a fault included. *)
Reset == BeginOp("reset", None, NoOp.patch)

(* remove_module(name) *)
RemoveModule(name) ==
  /\ name \in sinks
  /\ StoppedAndDrained
  /\ BeginOp("remove", name, NoOp.patch)

(* Spawning the sinks of a patch reserves their channels one after the     *)
(* other: it fails on a channel that is taken and on the 17th sink, and    *)
(* then the candidate App is dropped and nothing has happened.             *)
Reservable(patch) ==
  /\ \A s, t \in patch.names :
       patch.config[s].channel = patch.config[t].channel => s = t
  /\ Cardinality(patch.names) <= MaxSinks

LoadPatch(patch) ==
  /\ StoppedAndDrained
  /\ Reservable(patch)
  /\ life < MaxLives
  /\ BeginOp("replace", None, patch)

(* restart(): the live configuration is loaded again. *)
Restart ==
  /\ loaded
  /\ LoadPatch([names |-> sinks, config |-> config])

UnloadPatch ==
  /\ StoppedAndDrained
  /\ loaded
  /\ life < MaxLives
  /\ BeginOp("unload", None, NoOp.patch)

(* The sinks whose voices the operation retires: prepare_silence takes     *)
(* every dirty sink, prepare_silence_for only the removed one.             *)
Selected == IF op.kind = "remove" THEN dirty \cap {op.name} ELSE dirty

SilenceMessages(s) ==
  LET c == config[s].channel IN
    When(active_note[s] # None, NoteOff(c, active_note[s]))
    \o <<AllNotesOff(c), AllSoundOff(c)>>

(* One turn of the by_channel loop of prepare_silence_selected. *)
CollectSink(s) ==
  /\ pc = "collect"
  /\ s \in Selected /\ config[s].channel = cursor
  /\ batch' = batch \o Stamped(SilenceMessages(s), completed)
  /\ cursor' = cursor + 1
  /\ UNCHANGED <<timeVars, loaded, sinkVars, bufferVars, sampleVars, pc,
                 callVars, op, life, hostVars>>

ChannelLeft == cursor < NumChannels

SkipChannel ==
  /\ pc = "collect" /\ ChannelLeft
  /\ ~\E s \in Selected : config[s].channel = cursor
  /\ cursor' = cursor + 1
  /\ UNCHANGED <<timeVars, loaded, sinkVars, bufferVars, sampleVars, pc,
                 callVars, op, batch, life, hostVars>>

(* The channels the batch silences: once their cleanup is in the buffer    *)
(* they owe nothing to what was discarded before.                          *)
Retired == {config[s].channel : s \in Selected}

(* append_silence() is all or nothing against the fixed storage; when it   *)
(* refuses, the call fails and changes nothing.                            *)
BatchFits == Len(events) + Len(batch) <= TotalEvents

EndOp(kind) ==
  /\ pc = "collect" /\ cursor = NumChannels
  /\ op.kind = kind
  /\ BatchFits
  /\ pc' = "idle"
  /\ op' = NoOp /\ cursor' = 0 /\ batch' = <<>>
  /\ lost' = lost \ Retired
  /\ abandoned' = abandoned \ Retired
  /\ UNCHANGED <<callVars, heard>>

FinishReset ==
  /\ EndOp("reset")
  /\ events' = events \o batch
  /\ active_note' = [s \in Names |-> IF s \in Selected THEN None ELSE active_note[s]]
  /\ dirty' = dirty \ Selected
  /\ UNCHANGED <<timeVars, loaded, sinks, config, channels, sink_count, fault,
                 sampleVars, life>>

(* The removal hook releases the reservation of the sink. *)
FinishRemove ==
  /\ EndOp("remove")
  /\ events' = events \o batch
  /\ LET c == config[op.name].channel IN
       /\ channels' = channels \ {c}
       /\ sink_count' = IF c \in channels THEN sink_count - 1 ELSE sink_count
  /\ sinks' = sinks \ {op.name}
  /\ dirty' = dirty \ {op.name}
  /\ active_note' = [active_note EXCEPT ![op.name] = None]
  /\ config' = [config EXCEPT ![op.name] = NoConfig]
  /\ UNCHANGED <<timeVars, loaded, fault, sampleVars, life>>

(* commit(): a fresh App, stopped and paused at sample zero, whose buffer  *)
(* holds the cleanup of the old one and no fault.  The driver stays.       *)
Commit(kind, patch, identity) ==
  /\ EndOp(kind)
  /\ events' = batch
  /\ fault' = None
  /\ sinks' = patch.names
  /\ config' = [n \in Names |-> IF n \in patch.names THEN patch.config[n] ELSE NoConfig]
  /\ channels' = {patch.config[s].channel : s \in patch.names}
  /\ sink_count' = Cardinality(patch.names)
  /\ active_note' = [n \in Names |-> None]
  /\ dirty' = {}
  /\ completed' = 0 /\ last_index' = None
  /\ running' = FALSE /\ unpaused' = FALSE
  /\ loaded' = identity
  /\ life' = life + 1
  /\ UNCHANGED driver

FinishReplace == Commit("replace", op.patch, TRUE)
FinishUnload == Commit("unload", op.patch, FALSE)
-----------------------------------------------------------------------------
(* The host and its receiver. *)

(* drain_midi(): the host consumes the first k events; dropping the drain  *)
(* early discards the others.                                              *)
DrainMidi(k) ==
  /\ pc = "idle"
  /\ events # <<>>
  /\ LET taken == SubSeq(events, 1, k)
         dropped == {events[i].message : i \in (k + 1) .. Len(events)}
     IN  /\ heard' = [c \in Channels |-> Sounding(heard[c], c, taken)]
         /\ lost' = lost \cup {m.channel : m \in dropped}
         /\ abandoned' = abandoned \cup
              {m.channel : m \in {d \in dropped : d.kind \in {"AllNotesOff", "AllSoundOff"}}}
  /\ events' = <<>>
  /\ UNCHANGED <<timeVars, loaded, sinkVars, channels, sink_count, fault,
                 sampleVars, pc, callVars, opVars, life>>
-----------------------------------------------------------------------------
SampleStep ==
  \/ RefuseSample \/ BeginSample \/ SharedStop \/ FinishSample \/ EndCall
  \/ \E s \in sinks : SkipSink(s) \/ \E in \in Inputs : FailSink(s, in) \/ PlaySink(s, in)

OpStep ==
  \/ SkipChannel \/ FinishReset \/ FinishRemove \/ FinishReplace \/ FinishUnload
  \/ \E s \in sinks : CollectSink(s)

Next ==
  \/ Start \/ Stop
  \/ \E d \in Drivers : SetDriverMode(d)
  \/ \E n \in 1 .. MaxRequest : AdvanceSamples(n) \/ StepLive(n)
  \/ SampleStep
  \/ Reset \/ Restart \/ UnloadPatch
  \/ \E n \in Names : RemoveModule(n)
  \/ \E p \in Patches : LoadPatch(p)
  \/ OpStep
  \/ \E k \in 0 .. Len(events) : DrainMidi(k)

Spec == Init /\ [][Next]_vars
-----------------------------------------------------------------------------
(* Properties. *)

Event == [message : [kind : Kinds, channel : Channels, note : Notes \cup {None}, value : {0, 1}],
          sample : Nat, life : Nat]

Op == [kind : {"none", "reset", "remove", "replace", "unload"},
       name : Names \cup {None}, patch : Patch]

TimeTyped ==
  /\ running \in BOOLEAN /\ driver \in Drivers /\ unpaused \in BOOLEAN
  /\ loaded \in BOOLEAN /\ life \in Nat
  /\ completed \in Nat /\ last_index \in Nat \cup {None}
SinksTyped ==
  /\ sinks \subseteq Names
  /\ config \in [Names -> Config]
  /\ active_note \in [Names -> Notes \cup {None}]
  /\ dirty \subseteq sinks
BufferTyped ==
  /\ channels \subseteq Channels /\ sink_count \in Nat
  /\ events \in Seq(Event) /\ fault \in Faults \cup {None}
CallTyped ==
  /\ pc \in {"idle", "loop", "consume", "collect"}
  /\ caller \in Drivers /\ left \in Nat /\ todo \subseteq sinks
OpTyped ==
  /\ op \in Op /\ cursor \in 0 .. NumChannels /\ batch \in Seq(Event)
HostTyped ==
  /\ heard \in [Channels -> SUBSET Notes]
  /\ lost \subseteq Channels /\ abandoned \subseteq Channels

(* The types of the state; the dirty sinks and those a sample has still to *)
(* consume are among the live ones.                                        *)
TypeOK == TimeTyped /\ SinksTyped /\ BufferTyped /\ CallTyped /\ OpTyped /\ HostTyped

(* What will sound on channel c once the host has drained the buffer, and  *)
(* the note the sink on c believes it is playing.                          *)
Future(c) == Sounding(heard[c], c, events)
Voice(c) == {active_note[s] : s \in {t \in sinks : config[t].channel = c}} \ {None}

(* No stuck and no stolen note: as long as the host has discarded no       *)
(* output of a channel since its last cleanup, the receiver ends up with   *)
(* exactly the note the sink holds, and with silence where there is no     *)
(* sink, whatever samples, faults, resets, removals, restarts and loads    *)
(* happened in between.                                                    *)
VoicesAgree == \A c \in Channels : c \notin lost => Future(c) = Voice(c)

(* Ordinary output may be discarded (drain_midi dropped early) and the     *)
(* receiver may hang on a note, but then the sink is still marked dirty,   *)
(* so the next reset, removal or replacement silences the channel; only a  *)
(* host that discards the cleanup itself loses that.                       *)
VoicesRecoverable ==
  \A c \in Channels :
    c \notin abandoned /\ Future(c) # {} => \E s \in dirty : config[s].channel = c

(* Silencing never fails: the reservation accounting that prepare_silence  *)
(* checks always agrees, and the cleanup always fits the fixed storage,    *)
(* however many undrained samples, resets and removals came before.        *)
SilenceNeverRefused ==
  /\ AccountingAgrees
  /\ pc = "collect" => BatchFits

(* The five slots per sink are enough: the capacity fault that             *)
(* consume_midi_outputs guards against cannot be latched.                  *)
CapacityNeverExceeded == fault # "capacity"

(* A sample runs only for the driver that owns execution, and a running    *)
(* live rack never loses its clock: pausing and resuming virtual time in   *)
(* start, stop, set_driver_mode and commit keep step with the driver.      *)
DriverOwnsSamples ==
  /\ pc = "consume" => caller = driver
  /\ driver = "Manual" => ~unpaused
  /\ driver = "Live" /\ running => unpaused

(* A latched fault is terminal for its lifetime: no later fault replaces   *)
(* it, no further sample begins, and only a committed configuration clears *)
(* it; reset, drain, start and removal do not.                             *)
FaultIsTerminal ==
  [][fault # None /\ life' = life => fault' = fault /\ last_index' = last_index]_vars
=============================================================================
