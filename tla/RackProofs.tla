----------------------------- MODULE RackProofs -----------------------------
(***************************************************************************)
(* Proofs about Rack, for every number of sinks, channels, notes and       *)
(* patches: type correctness, that the output buffer never runs out of     *)
(* room, that silencing is never refused, that a latched fault is          *)
(* terminal, that only the owning driver runs samples, and that sink and   *)
(* sources agree on the voices that sound, or can be made to.              *)
(***************************************************************************)
EXTENDS Rack, FiniteSetTheorems, SequenceTheorems, TLAPS

Message == [kind : Kinds, channel : Channels, note : Notes \cup {None}, value : {0, 1}]

-----------------------------------------------------------------------------
(* Lemmas about the message sequences. *)

(* An optional message is a sequence of at most one message. *)
LEMMA WhenType ==
  ASSUME NEW b \in BOOLEAN, NEW m, b => m \in Message
  PROVE  When(b, m) \in Seq(Message) /\ Len(When(b, m)) <= 1
BY DEF When

(* Concatenation adds lengths. *)
LEMMA ConcatLen ==
  ASSUME NEW S, NEW s \in Seq(S), NEW t \in Seq(S)
  PROVE  s \o t \in Seq(S) /\ Len(s \o t) = Len(s) + Len(t)
BY ConcatProperties

(* The messages midi_out builds are well formed. *)
LEMMA MessageTypes ==
  ASSUME NEW c \in Channels, NEW n \in Notes, NEW v \in {0, 1}
  PROVE  /\ NoteOff(c, n) \in Message /\ NoteOn(c, n, v) \in Message
         /\ Control(c) \in Message
         /\ AllNotesOff(c) \in Message /\ AllSoundOff(c) \in Message
BY DEF Message, Kinds, NoteOff, NoteOn, Control, AllNotesOff, AllSoundOff

(* So are the control messages of a channel alone. *)
LEMMA ControlTypes ==
  ASSUME NEW c \in Channels
  PROVE  /\ Control(c) \in Message
         /\ AllNotesOff(c) \in Message /\ AllSoundOff(c) \in Message
BY DEF Message, Kinds, Control, AllNotesOff, AllSoundOff

(* A sink sends at most five messages in a sample, and at least one when   *)
(* it starts a note.                                                       *)
LEMMA SinkMessagesType ==
  ASSUME TypeOK, NEW s \in Names, NEW in \in Inputs, ~Invalid(s, in)
  PROVE  /\ SinkMessages(s, in) \in Seq(Message)
         /\ Len(SinkMessages(s, in)) <= NormalEventsPerSink
         /\ Plays(in) => Len(SinkMessages(s, in)) > 0
<1> DEFINE c == config[s].channel
           m1 == When(active_note[s] # None, NoteOff(c, active_note[s]))
           m2 == When(Plays(in), NoteOn(c, in.note, PlayVelocity(in)))
           m3 == When("noise" \in config[s].routes, Control(c))
           m4 == When("note" \in config[s].routes /\ in.note # None, Control(c))
           m5 == When("velocity" \in config[s].routes /\ in.velocity # "absent", Control(c))
<1>1. c \in Channels
  BY DEF TypeOK, SinksTyped, Config
<1>2. m1 \in Seq(Message) /\ Len(m1) <= 1
  <2>1. active_note[s] # None => NoteOff(c, active_note[s]) \in Message
    BY <1>1 DEF TypeOK, SinksTyped, Message, Kinds, NoteOff
  <2>2. QED
    BY <2>1, WhenType
<1>3. m2 \in Seq(Message) /\ Len(m2) <= 1 /\ (Plays(in) => Len(m2) = 1)
  <2>1. Plays(in) \in BOOLEAN
    BY DEF Plays, Inputs
  <2>2. Plays(in) => in.note \in Notes /\ PlayVelocity(in) \in {0, 1}
    BY DEF Plays, Inputs, Invalid, PlayVelocity
  <2>3. Plays(in) => NoteOn(c, in.note, PlayVelocity(in)) \in Message
    BY <1>1, <2>2 DEF Message, Kinds, NoteOn
  <2>4. Plays(in) => Len(m2) = 1
    BY DEF When
  <2>5. QED
    BY <2>1, <2>3, <2>4, WhenType
<1>4. /\ m3 \in Seq(Message) /\ Len(m3) <= 1
      /\ m4 \in Seq(Message) /\ Len(m4) <= 1
      /\ m5 \in Seq(Message) /\ Len(m5) <= 1
  BY <1>1, ControlTypes DEF When
<1>5. SinkMessages(s, in) = m1 \o m2 \o m3 \o m4 \o m5
  BY DEF SinkMessages
<1> HIDE DEF m1, m2, m3, m4, m5
<1>6. /\ m1 \o m2 \in Seq(Message) /\ Len(m1 \o m2) <= 2
      /\ Plays(in) => Len(m1 \o m2) > 0
  BY <1>2, <1>3, ConcatLen, LenProperties, SMTT(30)
<1>7. /\ m1 \o m2 \o m3 \in Seq(Message) /\ Len(m1 \o m2 \o m3) <= 3
      /\ Plays(in) => Len(m1 \o m2 \o m3) > 0
  BY <1>4, <1>6, ConcatLen, LenProperties
<1>8. /\ m1 \o m2 \o m3 \o m4 \in Seq(Message) /\ Len(m1 \o m2 \o m3 \o m4) <= 4
      /\ Plays(in) => Len(m1 \o m2 \o m3 \o m4) > 0
  BY <1>4, <1>7, ConcatLen, LenProperties
<1>9. /\ m1 \o m2 \o m3 \o m4 \o m5 \in Seq(Message)
      /\ Len(m1 \o m2 \o m3 \o m4 \o m5) <= 5
      /\ Plays(in) => Len(m1 \o m2 \o m3 \o m4 \o m5) > 0
  BY <1>4, <1>8, ConcatLen, LenProperties
<1>10. QED
  BY <1>5, <1>9 DEF NormalEventsPerSink

(* The cleanup of a sink is at most three messages. *)
LEMMA SilenceMessagesType ==
  ASSUME TypeOK, NEW s \in Names
  PROVE  /\ SilenceMessages(s) \in Seq(Message)
         /\ Len(SilenceMessages(s)) <= CleanupPerSink
<1> DEFINE c == config[s].channel
           m1 == When(active_note[s] # None, NoteOff(c, active_note[s]))
           m2 == <<AllNotesOff(c), AllSoundOff(c)>>
<1>1. c \in Channels
  BY DEF TypeOK, SinksTyped, Config
<1>2. m1 \in Seq(Message) /\ Len(m1) <= 1
  <2>1. active_note[s] # None => NoteOff(c, active_note[s]) \in Message
    BY <1>1 DEF TypeOK, SinksTyped, Message, Kinds, NoteOff
  <2>2. QED
    BY <2>1, WhenType
<1>3. m2 \in Seq(Message) /\ Len(m2) = 2
  BY <1>1, ControlTypes
<1>4. SilenceMessages(s) = m1 \o m2
  BY DEF SilenceMessages
<1> HIDE DEF m1, m2
<1>5. m1 \o m2 \in Seq(Message) /\ Len(m1 \o m2) = Len(m1) + Len(m2)
  BY <1>2, <1>3, ConcatLen
<1>6. QED
  BY <1>2, <1>3, <1>4, <1>5, LenProperties DEF CleanupPerSink

(* Stamping keeps the length and makes events of messages. *)
LEMMA StampedType ==
  ASSUME TypeOK, NEW m \in Seq(Message), NEW i \in Nat
  PROVE  Stamped(m, i) \in Seq(Event) /\ Len(Stamped(m, i)) = Len(m)
<1>1. \A k \in 1 .. Len(m) : m[k] \in Message
  BY ElementOfSeq
<1>2. \A k \in 1 .. Len(m) :
        [message |-> m[k], sample |-> i, life |-> life] \in Event
  BY <1>1 DEF TypeOK, TimeTyped, Event, Message
<1>3. Len(m) \in Nat
  BY LenProperties
<1>4. Stamped(m, i) \in [1 .. Len(m) -> Event]
  BY <1>2 DEF Stamped
<1>5. QED
  BY <1>3, <1>4, IsASeq, LenProperties
-----------------------------------------------------------------------------
(* The inductive invariant. *)

(* What the position in the current call says about the other variables.   *)
ControlInv ==
  /\ pc = "consume" => left > 0 /\ last_index = completed
  /\ pc # "consume" => todo = {}
  /\ pc = "collect" /\ op.kind = "remove" => op.name \in sinks
  /\ pc = "collect" /\ op.kind \in {"replace", "unload"} => Reservable(op.patch)

(* The reservations of the buffer are those of the sinks. *)
AccountInv ==
  /\ AccountingAgrees
  /\ sink_count <= MaxSinks
  /\ \A s, t \in sinks : config[s].channel = config[t].channel => s = t

(* The sinks whose cleanup the batch already holds. *)
Collected == {s \in Selected : config[s].channel < cursor}

(* Room is kept in advance.  Every dirty sink holds three slots of the      *)
(* fixed storage until its cleanup takes them, and in a sample every sink   *)
(* that is still to come holds five slots of the logical capacity.          *)
BufferInv ==
  /\ Len(events) + CleanupPerSink * Cardinality(dirty) <= TotalEvents
  /\ pc = "consume" =>
       Len(events) + NormalEventsPerSink * Cardinality(todo)
         <= NormalEventsPerSink * sink_count
  /\ pc = "collect" => Len(batch) <= CleanupPerSink * Cardinality(Collected)
  /\ fault # "capacity"

IInv == TypeOK /\ ControlInv /\ AccountInv /\ BufferInv

(* Initially the invariant holds. *)
LEMMA InitIInv == Init => IInv
<1> SUFFICES ASSUME Init PROVE IInv
  OBVIOUS
<1> USE RackAssumption
<1>1. NoConfig \in Config
  BY DEF NoConfig, Config, Channels
<1>2. NoOp \in Op
  BY <1>1 DEF NoOp, Op, Patch
<1>3. TypeOK
  <2>1. <<>> \in Seq(Event)
    BY EmptySeq
  <2>2. SinksTyped /\ HostTyped
    BY <1>1 DEF Init, SinksTyped, HostTyped
  <2>3. TimeTyped /\ BufferTyped /\ CallTyped
    BY <2>1 DEF Init, TimeTyped, BufferTyped, CallTyped, Drivers
  <2>4. OpTyped
    BY <1>2, <2>1 DEF Init, OpTyped
  <2>5. QED
    BY <2>2, <2>3, <2>4 DEF TypeOK
<1>4. ControlInv
  BY DEF Init, ControlInv
<1>5. AccountInv
  BY FS_EmptySet DEF Init, AccountInv, AccountingAgrees
<1>6. BufferInv
  BY FS_EmptySet DEF Init, BufferInv, TotalEvents, CleanupPerSink,
                     NormalEventsPerSink, Faults
<1>7. QED
  BY <1>3, <1>4, <1>5, <1>6 DEF IInv
-----------------------------------------------------------------------------
(* Preservation, action by action.  An action that leaves the sinks and    *)
(* their reservations alone keeps the accounting.                          *)
LEMMA AccountFrame ==
  ASSUME AccountInv, UNCHANGED <<sinkVars, channels, sink_count>>
  PROVE  AccountInv'
BY DEF AccountInv, AccountingAgrees, sinkVars

(* The transport changes neither a sink nor the buffer. *)
LEMMA TransportStep ==
  ASSUME IInv, Start \/ Stop \/ SharedStop \/ \E d \in Drivers : SetDriverMode(d)
  PROVE  IInv'
<1> USE DEF Start, Stop, SharedStop, SetDriverMode, Resumes, IInv,
            sinkVars, bufferVars, sampleVars, callVars, opVars, hostVars
<1>1. TypeOK'
  BY DEF TypeOK, TimeTyped, SinksTyped, BufferTyped, CallTyped, OpTyped, HostTyped
<1>2. ControlInv'
  BY DEF ControlInv, Reservable
<1>3. AccountInv'
  BY AccountFrame
<1>4. BufferInv'
  BY DEF BufferInv, Collected, Selected
<1>5. QED
  BY <1>1, <1>2, <1>3, <1>4

(* A call that starts, is refused or ends, and the gate of a sample. *)
LEMMA CallStep ==
  ASSUME IInv,
         \/ \E n \in 1 .. MaxRequest : AdvanceSamples(n) \/ StepLive(n)
         \/ RefuseSample \/ EndCall
  PROVE  IInv'
<1> USE RackAssumption DEF AdvanceSamples, StepLive, BeginCall, RefuseSample,
            EndCall, IInv, timeVars, sinkVars, bufferVars, sampleVars,
            callVars, opVars, hostVars
<1>1. TypeOK'
  <2>1. SinksTyped' /\ HostTyped' /\ OpTyped' /\ TimeTyped'
    BY DEF TypeOK, TimeTyped, SinksTyped, OpTyped, HostTyped
  <2>2. BufferTyped'
    BY DEF TypeOK, BufferTyped, Latched, Faults
  <2>3. CallTyped'
    BY DEF TypeOK, CallTyped, Drivers
  <2>4. QED
    BY <2>1, <2>2, <2>3 DEF TypeOK
<1>2. ControlInv'
  BY DEF ControlInv, Reservable
<1>3. AccountInv'
  BY AccountFrame
<1>4. BufferInv'
  BY DEF BufferInv, Collected, Selected, Latched
<1>5. QED
  BY <1>1, <1>2, <1>3, <1>4

(* An admitted sample finds the buffer empty and has every sink to visit. *)
LEMMA BeginSampleStep == ASSUME IInv, BeginSample PROVE IInv'
<1> USE RackAssumption DEF BeginSample, IInv, timeVars, sinkVars, bufferVars,
            sampleVars, callVars, opVars, hostVars
<1>1. TypeOK'
  BY DEF TypeOK, TimeTyped, SinksTyped, BufferTyped, CallTyped, OpTyped, HostTyped
<1>2. ControlInv'
  BY DEF ControlInv, Reservable
<1>3. AccountInv'
  BY AccountFrame
<1>4. BufferInv'
  <2>1. Len(events) = 0
    BY DEF Admissible
  <2>2. Cardinality(todo') = sink_count
    BY DEF AccountInv, AccountingAgrees
  <2>3. sink_count \in Nat
    BY DEF TypeOK, BufferTyped
  <2>4. QED
    BY <2>1, <2>2, <2>3 DEF BufferInv, NormalEventsPerSink
<1>5. QED
  BY <1>1, <1>2, <1>3, <1>4

(* A sample that ends leaves what its sinks have sent. *)
LEMMA FinishSampleStep == ASSUME IInv, FinishSample PROVE IInv'
<1> USE RackAssumption DEF FinishSample, IInv, timeVars, sinkVars, bufferVars,
            callVars, opVars, hostVars
<1>1. TypeOK'
  BY DEF TypeOK, TimeTyped, SinksTyped, BufferTyped, CallTyped, OpTyped,
         HostTyped, ControlInv
<1>2. ControlInv'
  BY DEF ControlInv, Reservable
<1>3. AccountInv'
  BY AccountFrame
<1>4. BufferInv'
  BY DEF BufferInv
<1>5. QED
  BY <1>1, <1>2, <1>3, <1>4

(* The live sinks, the dirty ones and those to come are finitely many. *)
LEMMA SinksFinite ==
  ASSUME TypeOK
  PROVE  /\ IsFiniteSet(sinks) /\ IsFiniteSet(dirty) /\ IsFiniteSet(todo)
         /\ Cardinality(sinks) \in Nat
         /\ Cardinality(dirty) \in Nat /\ Cardinality(dirty) <= Cardinality(sinks)
         /\ Cardinality(todo) \in Nat
<1>1. IsFiniteSet(sinks)
  BY RackAssumption, FS_Subset DEF TypeOK, SinksTyped
<1>2. dirty \in SUBSET sinks /\ todo \in SUBSET sinks
  BY DEF TypeOK, SinksTyped, CallTyped
<1>3. QED
  BY <1>1, <1>2, FS_Subset, FS_CardinalityType

(* A sink that has nothing to say or fails leaves its reserved room unused. *)
LEMMA QuietSinkStep ==
  ASSUME IInv, NEW s \in sinks, NEW in \in Inputs, SkipSink(s) \/ FailSink(s, in)
  PROVE  IInv'
<1> USE RackAssumption DEF SkipSink, FailSink, NextSink, IInv, timeVars,
            sinkVars, bufferVars, sampleVars, callVars, opVars, hostVars
<1>1. TypeOK'
  BY DEF TypeOK, TimeTyped, SinksTyped, BufferTyped, CallTyped, OpTyped,
         HostTyped, Latched, Faults
<1>2. ControlInv'
  BY DEF ControlInv, Reservable
<1>3. AccountInv'
  BY AccountFrame
<1>4. BufferInv'
  <2>1. /\ Cardinality(todo) \in Nat /\ Cardinality(todo) > 0
        /\ Cardinality(todo') \in Nat /\ Cardinality(todo') <= Cardinality(todo) - 1
    <3>1. IsFiniteSet(todo) /\ Cardinality(todo) \in Nat /\ s \in todo
      BY SinksFinite
    <3>2. Cardinality(todo) # 0
      BY <3>1, FS_EmptySet
    <3>3. Cardinality(todo \ {s}) = Cardinality(todo) - 1
      BY <3>1, FS_RemoveElement
    <3>4. todo' = {} \/ todo' = todo \ {s}
      OBVIOUS
    <3>5. QED
      BY <3>1, <3>2, <3>3, <3>4, FS_EmptySet
  <2>2. Len(events) \in Nat /\ sink_count \in Nat
    BY LenProperties DEF TypeOK, BufferTyped
  <2>3. HasRoom
    BY <2>1, <2>2 DEF HasRoom, BufferInv, NormalEventsPerSink
  <2>4. fault' # "capacity"
    BY <2>3 DEF Latched, BufferInv
  <2>5. QED
    BY <2>1, <2>2, <2>4 DEF BufferInv, NormalEventsPerSink
<1>5. QED
  BY <1>1, <1>2, <1>3, <1>4

(* A sink that plays uses at most the five slots reserved for it. *)
LEMMA PlaySinkStep ==
  ASSUME IInv, NEW s \in sinks, NEW in \in Inputs, PlaySink(s, in)
  PROVE  IInv'
<1> USE RackAssumption DEF PlaySink, NextSink, IInv, timeVars, sampleVars, opVars, hostVars
<1> DEFINE m == SinkMessages(s, in)
           e == Stamped(m, last_index)
<1>1. s \in Names /\ ~Invalid(s, in) /\ HasRoom
  BY DEF TypeOK, SinksTyped
<1>2. m \in Seq(Message) /\ Len(m) <= NormalEventsPerSink
  BY <1>1, SinkMessagesType
<1>3. last_index \in Nat
  BY DEF ControlInv, TypeOK, TimeTyped
<1>4. e \in Seq(Event) /\ Len(e) = Len(m)
  BY <1>2, <1>3, StampedType
<1>5. events \in Seq(Event)
  BY DEF TypeOK, BufferTyped
<1>6. events' \in Seq(Event) /\ Len(events') = Len(events) + Len(m)
  <2>1. events' = events \o e
    OBVIOUS
  <2> HIDE DEF m, e
  <2>2. events \o e \in Seq(Event) /\ Len(events \o e) = Len(events) + Len(e)
    BY <1>4, <1>5, ConcatLen
  <2> QED
    BY <1>4, <2>1, <2>2
<1> HIDE DEF m, e
<1>7. dirty' \subseteq sinks
  BY DEF DirtyAfter, TypeOK, SinksTyped
<1>8. active_note' \in [Names -> Notes \cup {None}]
  BY <1>1 DEF TypeOK, SinksTyped, Plays, Invalid, Inputs
<1>9. TypeOK'
  BY <1>6, <1>7, <1>8 DEF TypeOK, TimeTyped, SinksTyped, BufferTyped, CallTyped,
     OpTyped, HostTyped
<1>10. ControlInv'
  BY DEF ControlInv, Reservable
<1>11. AccountInv'
  <2>1. Plays(in) => m # <<>>
    BY <1>1, SinkMessagesType, EmptySeq DEF m
  <2>2. Plays(in) => s \in dirty'
    BY <2>1 DEF DirtyAfter, m
  <2>3. dirty \subseteq dirty'
    BY DEF DirtyAfter
  <2>4. \A t \in sinks : active_note'[t] # None => t \in dirty'
    BY <1>1, <2>2, <2>3 DEF AccountInv, AccountingAgrees, TypeOK, SinksTyped
  <2>5. QED
    BY <2>4 DEF AccountInv, AccountingAgrees
<1>12. BufferInv'
  <2>1. Cardinality(todo) \in Nat /\ Cardinality(todo') = Cardinality(todo) - 1
        /\ Cardinality(todo') \in Nat
    BY SinksFinite, FS_RemoveElement, FS_CardinalityType, <1>9
  <2>2. Len(events) \in Nat /\ Len(m) \in Nat /\ sink_count \in Nat /\ Len(events') \in Nat
    BY <1>2, <1>5, <1>6, LenProperties DEF TypeOK, BufferTyped
  <2>3. Len(events') + NormalEventsPerSink * Cardinality(todo') <= NormalEventsPerSink * sink_count
    BY <1>2, <1>6, <2>1, <2>2 DEF BufferInv, NormalEventsPerSink
  <2>4. Cardinality(dirty') \in Nat /\ Cardinality(dirty') <= sink_count'
    <3>1. dirty' \in SUBSET sinks /\ IsFiniteSet(sinks)
      BY <1>7, SinksFinite
    <3>2. IsFiniteSet(dirty') /\ Cardinality(dirty') <= Cardinality(sinks)
      BY <3>1, FS_Subset
    <3>3. Cardinality(dirty') \in Nat
      BY <3>2, FS_CardinalityType
    <3>4. sink_count' = Cardinality(sinks)
      BY DEF AccountInv, AccountingAgrees
    <3>5. QED
      BY <3>2, <3>3, <3>4
  <2>5. sink_count' = sink_count /\ sink_count <= MaxSinks
    BY DEF AccountInv
  <2>6. Len(events') + CleanupPerSink * Cardinality(dirty') <= TotalEvents
    BY <2>1, <2>2, <2>3, <2>4, <2>5, SMTT(30) DEF TotalEvents, NormalEventsPerSink, CleanupPerSink
  <2>7. QED
    BY <2>3, <2>5, <2>6 DEF BufferInv
<1>13. QED
  BY <1>9, <1>10, <1>11, <1>12

(* An operation that begins has collected nothing. *)
LEMMA BeginOpStep ==
  ASSUME IInv,
         \/ Reset \/ Restart \/ UnloadPatch
         \/ \E n \in Names : RemoveModule(n)
         \/ \E p \in Patches : LoadPatch(p)
  PROVE  IInv'
<1> USE RackAssumption DEF IInv
<1>1. PICK kind \in {"reset", "remove", "replace", "unload"},
           name \in Names \cup {None}, p \in Patch :
        /\ BeginOp(kind, name, p)
        /\ kind = "remove" => name \in sinks
        /\ kind \in {"replace", "unload"} => Reservable(p)
  <2>1. NoOp.patch \in Patch
    BY DEF NoOp, Patch, NoConfig, Config, Channels
  <2>2. [names |-> sinks, config |-> config] \in Patch
    BY DEF Patch, TypeOK, SinksTyped
  <2>3. Reservable(NoOp.patch)
    BY FS_EmptySet DEF NoOp, Reservable
  <2>4. QED
    BY <2>1, <2>2, <2>3 DEF Reset, Restart, UnloadPatch, RemoveModule, LoadPatch
<1> USE DEF BeginOp, timeVars, sinkVars, bufferVars, sampleVars, callVars, hostVars
<1>2. TypeOK'
  <2>1. <<>> \in Seq(Event)
    BY EmptySeq
  <2>2. op' \in Op
    BY <1>1 DEF Op
  <2>3. OpTyped' /\ CallTyped'
    BY <1>1, <2>1, <2>2 DEF OpTyped, CallTyped, TypeOK
  <2>4. SinksTyped' /\ TimeTyped' /\ BufferTyped' /\ HostTyped'
    BY <1>1 DEF TypeOK, TimeTyped, SinksTyped, BufferTyped, HostTyped
  <2>5. QED
    BY <2>3, <2>4 DEF TypeOK
<1>3. ControlInv'
  BY <1>1 DEF ControlInv, Reservable
<1>4. AccountInv'
  BY <1>1, AccountFrame
<1>5. BufferInv'
  <2>1. Collected' = {}
    <3>1. \A s \in sinks : config[s].channel \in Nat
      BY DEF TypeOK, SinksTyped, Config, Channels
    <3>2. Selected' \subseteq sinks /\ config' = config /\ cursor' = 0
      BY <1>1 DEF Selected, TypeOK, SinksTyped
    <3>3. \A s \in Selected' : ~(config'[s].channel < cursor')
      BY <3>1, <3>2
    <3>4. QED
      BY <3>3 DEF Collected
  <2>2. Len(batch') = 0
    BY <1>1
  <2>3. QED
    BY <1>1, <2>1, <2>2, FS_EmptySet DEF BufferInv, CleanupPerSink
<1>6. QED
  BY <1>2, <1>3, <1>4, <1>5

(* Every turn of the collecting loop adds at most three messages for one   *)
(* more sink, or nothing.                                                  *)
LEMMA CollectStep ==
  ASSUME IInv, SkipChannel \/ \E s \in sinks : CollectSink(s)
  PROVE  IInv'
<1> USE RackAssumption DEF IInv, timeVars, sinkVars, bufferVars, sampleVars,
            callVars, hostVars
<1>1. CASE SkipChannel
  <2> USE <1>1 DEF SkipChannel, ChannelLeft
  <2>1. TypeOK'
    BY DEF TypeOK, TimeTyped, SinksTyped, BufferTyped, CallTyped, OpTyped, HostTyped
  <2>2. ControlInv'
    BY DEF ControlInv, Reservable
  <2>3. AccountInv'
    BY AccountFrame
  <2>4. BufferInv'
    <3>1. Collected' = Collected
      <4>1. Selected' = Selected /\ config' = config /\ cursor' = cursor + 1
        BY DEF Selected
      <4>2. \A s \in Selected : config[s].channel \in Nat /\ config[s].channel # cursor
        BY DEF Selected, TypeOK, SinksTyped, Config, Channels
      <4>3. cursor \in Nat
        BY DEF TypeOK, OpTyped
      <4>4. \A s \in Selected : config[s].channel < cursor + 1 <=> config[s].channel < cursor
        BY <4>2, <4>3
      <4>5. QED
        BY <4>1, <4>4 DEF Collected
    <3>2. QED
      BY <3>1 DEF BufferInv
  <2>5. QED
    BY <2>1, <2>2, <2>3, <2>4
<1>2. ASSUME NEW s \in sinks, CollectSink(s)
      PROVE  IInv'
  <2> USE <1>2 DEF CollectSink
  <2> DEFINE m == SilenceMessages(s)
             e == Stamped(m, completed)
  <2>1. s \in Names /\ s \in dirty
    BY DEF TypeOK, SinksTyped, Selected
  <2>2. m \in Seq(Message) /\ Len(m) <= CleanupPerSink
    BY <2>1, SilenceMessagesType
  <2>3. e \in Seq(Event) /\ Len(e) = Len(m)
    BY <2>2, StampedType DEF TypeOK, TimeTyped
  <2>4. batch \in Seq(Event)
    BY DEF TypeOK, OpTyped
  <2>5. batch' \in Seq(Event) /\ Len(batch') = Len(batch) + Len(m)
    <3>1. batch' = batch \o e
      OBVIOUS
    <3> HIDE DEF m, e
    <3>2. batch \o e \in Seq(Event) /\ Len(batch \o e) = Len(batch) + Len(e)
      BY <2>3, <2>4, ConcatLen
    <3> QED
      BY <2>3, <3>1, <3>2
  <2>6. cursor \in Nat /\ cursor' = cursor + 1 /\ cursor' \in 0 .. NumChannels
    BY <2>1 DEF TypeOK, OpTyped, SinksTyped, Config, Channels
  <2> HIDE DEF m, e
  <2>7. TypeOK'
    BY <2>5, <2>6 DEF TypeOK, TimeTyped, SinksTyped, BufferTyped, CallTyped, OpTyped, HostTyped
  <2>8. ControlInv'
    BY DEF ControlInv, Reservable
  <2>9. AccountInv'
    BY AccountFrame
  <2>10. BufferInv'
    <3>1. Collected \cup {s} \subseteq Collected' /\ s \notin Collected
      <4>1. Selected' = Selected /\ config' = config
        BY DEF Selected
      <4>2. \A t \in Selected : config[t].channel \in Nat
        BY DEF Selected, TypeOK, SinksTyped, Config, Channels
      <4>3. QED
        BY <4>1, <4>2, <2>6 DEF Collected
    <3>2. IsFiniteSet(Collected) /\ IsFiniteSet(Collected')
      <4>1. Collected \subseteq sinks /\ Collected' \subseteq sinks
        BY DEF Collected, Selected, TypeOK, SinksTyped
      <4>2. QED
        BY <4>1, SinksFinite, FS_Subset
    <3>3. Cardinality(Collected \cup {s}) = Cardinality(Collected) + 1
      BY <3>1, <3>2, FS_AddElement
    <3>4. Cardinality(Collected \cup {s}) <= Cardinality(Collected')
      BY <3>1, <3>2, FS_Subset
    <3>5. Cardinality(Collected) \in Nat /\ Cardinality(Collected') \in Nat
      BY <3>2, FS_CardinalityType
    <3>6. Len(batch) \in Nat /\ Len(m) \in Nat
      BY <2>2, <2>4, LenProperties
    <3>7. Len(batch') <= CleanupPerSink * Cardinality(Collected')
      BY <2>2, <2>5, <3>3, <3>4, <3>5, <3>6 DEF BufferInv, CleanupPerSink
    <3>8. QED
      BY <3>7 DEF BufferInv
  <2>11. QED
    BY <2>7, <2>8, <2>9, <2>10
<1>3. QED
  BY <1>1, <1>2

(* When a batch is complete it is at most three messages per retired sink, *)
(* and those were kept free.                                               *)
LEMMA BatchRoom ==
  ASSUME IInv, pc = "collect"
  PROVE  /\ Len(batch) \in Nat /\ Len(events) \in Nat
         /\ IsFiniteSet(Selected) /\ Cardinality(Selected) \in Nat
         /\ Len(batch) <= CleanupPerSink * Cardinality(Selected)
         /\ Selected \subseteq dirty
         /\ Cardinality(dirty \ Selected) = Cardinality(dirty) - Cardinality(Selected)
         /\ Cardinality(dirty) \in Nat /\ Cardinality(Selected) <= Cardinality(dirty)
         /\ BatchFits
<1> USE DEF IInv
<1>1. Len(batch) \in Nat /\ Len(events) \in Nat
  BY LenProperties DEF TypeOK, OpTyped, BufferTyped
<1>2. Selected \in SUBSET dirty /\ Collected \in SUBSET Selected
  BY DEF Selected, Collected
<1>3. IsFiniteSet(dirty) /\ Cardinality(dirty) \in Nat
  BY SinksFinite
<1>4. /\ IsFiniteSet(Selected) /\ Cardinality(Selected) \in Nat
      /\ Cardinality(Selected) <= Cardinality(dirty)
  BY <1>2, <1>3, FS_Subset, FS_CardinalityType
<1>5. Cardinality(Collected) \in Nat /\ Cardinality(Collected) <= Cardinality(Selected)
  BY <1>2, <1>4, FS_Subset, FS_CardinalityType
<1>6. Len(batch) <= CleanupPerSink * Cardinality(Selected)
  BY <1>1, <1>4, <1>5 DEF BufferInv, CleanupPerSink
<1>7. dirty \cap Selected = Selected
  BY <1>2
<1>8. Cardinality(dirty \ Selected) = Cardinality(dirty) - Cardinality(Selected)
  BY <1>3, <1>7, FS_Difference
<1>9. BatchFits
  BY <1>1, <1>3, <1>4, <1>6, RackAssumption
     DEF BufferInv, BatchFits, CleanupPerSink, TotalEvents, NormalEventsPerSink
<1>10. QED
  BY <1>1, <1>2, <1>3, <1>4, <1>6, <1>8, <1>9

(* What every completed operation leaves behind. *)
LEMMA EndOpTyped ==
  ASSUME IInv, NEW kind, EndOp(kind)
  PROVE  OpTyped' /\ CallTyped' /\ HostTyped' /\ ControlInv' /\ pc' = "idle"
<1> USE DEF IInv, EndOp, callVars
<1>1. NoOp \in Op
  <2>1. NoConfig \in Config
    BY RackAssumption DEF NoConfig, Config, Channels
  <2>2. QED
    BY <2>1 DEF NoOp, Op, Patch
<1>2. <<>> \in Seq(Event)
  BY EmptySeq
<1>3. OpTyped' /\ HostTyped'
  BY <1>1, <1>2, RackAssumption DEF TypeOK, OpTyped, HostTyped
<1>4. todo = {}
  BY DEF ControlInv
<1>5. CallTyped'
  BY <1>4 DEF TypeOK, CallTyped
<1>6. ControlInv'
  BY <1>4 DEF ControlInv
<1>7. QED
  BY <1>3, <1>5, <1>6

(* A reset pays for its cleanup with the room of the sinks it cleans. *)
LEMMA FinishResetStep == ASSUME IInv, FinishReset PROVE IInv'
<1> USE DEF IInv, FinishReset, timeVars, sampleVars
<1>1. EndOp("reset") /\ pc = "collect" /\ Selected = dirty
  BY DEF EndOp, Selected
<1>2. OpTyped' /\ CallTyped' /\ HostTyped' /\ ControlInv' /\ pc' = "idle"
  BY <1>1, EndOpTyped
<1>3. /\ events' \in Seq(Event) /\ Len(events') = Len(events) + Len(batch)
  BY ConcatLen DEF TypeOK, BufferTyped, OpTyped
<1>4. TypeOK'
  <2>1. BufferTyped'
    BY <1>3 DEF TypeOK, BufferTyped
  <2>2. SinksTyped' /\ TimeTyped'
    BY DEF TypeOK, SinksTyped, TimeTyped
  <2>3. QED
    BY <1>2, <2>1, <2>2 DEF TypeOK
<1>5. AccountInv'
  BY <1>1 DEF AccountInv, AccountingAgrees, TypeOK, SinksTyped
<1>6. BufferInv'
  <2>1. dirty' = {} /\ Cardinality(dirty') = 0
    BY <1>1, FS_EmptySet
  <2>2. Len(events') + CleanupPerSink * Cardinality(dirty') <= TotalEvents
    BY <1>1, <1>3, <2>1, BatchRoom, RackAssumption
       DEF BatchFits, CleanupPerSink, TotalEvents, NormalEventsPerSink
  <2>3. QED
    BY <1>2, <2>2 DEF BufferInv
<1>7. QED
  BY <1>2, <1>4, <1>5, <1>6

(* Removing a sink releases exactly its own reservation. *)
LEMMA FinishRemoveStep == ASSUME IInv, FinishRemove PROVE IInv'
<1> USE DEF IInv, FinishRemove, timeVars, sampleVars
<1> DEFINE n == op.name
           c == config[n].channel
<1>1. EndOp("remove") /\ pc = "collect" /\ op.kind = "remove"
  BY DEF EndOp
<1>2. OpTyped' /\ CallTyped' /\ HostTyped' /\ ControlInv' /\ pc' = "idle"
  BY <1>1, EndOpTyped
<1>3. events' \in Seq(Event) /\ Len(events') = Len(events) + Len(batch)
  BY ConcatLen DEF TypeOK, BufferTyped, OpTyped
<1>4. n \in sinks /\ n \in Names
  BY <1>1 DEF ControlInv, TypeOK, SinksTyped
<1>5. c \in channels /\ channels' = channels \ {c} /\ sink_count' = sink_count - 1
  BY <1>4 DEF AccountInv, AccountingAgrees
<1>6. IsFiniteSet(sinks) /\ IsFiniteSet(channels)
  <2>1. IsFiniteSet(Channels)
    BY RackAssumption, FS_Interval DEF Channels
  <2>2. QED
    BY <2>1, SinksFinite, FS_Subset DEF TypeOK, BufferTyped
<1>7. Cardinality(sinks') = sink_count' /\ Cardinality(channels') = sink_count'
  <2>1. Cardinality(sinks \ {n}) = Cardinality(sinks) - 1
    BY <1>4, <1>6, FS_RemoveElement
  <2>2. Cardinality(channels \ {c}) = Cardinality(channels) - 1
    <3> HIDE DEF c
    <3>1. QED
      BY <1>5, <1>6, FS_RemoveElement
  <2>3. sinks' = sinks \ {n}
    OBVIOUS
  <2>4. QED
    BY <1>5, <2>1, <2>2, <2>3 DEF AccountInv, AccountingAgrees
<1>8. sink_count' \in Nat
  <2>1. IsFiniteSet(channels')
    BY <1>5, <1>6, FS_Subset
  <2>2. QED
    BY <1>7, <2>1, FS_CardinalityType
<1>9. TypeOK'
  <2>1. BufferTyped'
    BY <1>3, <1>5, <1>8 DEF TypeOK, BufferTyped
  <2>2. NoConfig \in Config
    BY RackAssumption DEF NoConfig, Config, Channels
  <2>3. SinksTyped' /\ TimeTyped'
    BY <1>4, <2>2 DEF TypeOK, SinksTyped, TimeTyped
  <2>4. QED
    BY <1>2, <2>1, <2>3 DEF TypeOK
<1>10. AccountInv'
  <2>1. \A s \in sinks' : s \in sinks /\ s # n /\ s \in Names /\ config'[s] = config[s]
                           /\ active_note'[s] = active_note[s]
    BY <1>4 DEF TypeOK, SinksTyped
  <2>2. channels' = {config'[s].channel : s \in sinks'}
    <3>1. \A s \in sinks' : config[s].channel # c
      BY <1>4, <2>1 DEF AccountInv
    <3>2. channels = {config[s].channel : s \in sinks}
      BY DEF AccountInv, AccountingAgrees
    <3>3. channels' = {config[s].channel : s \in sinks'}
      BY <1>4, <1>5, <3>1, <3>2
    <3>4. QED
      BY <2>1, <3>3, SMTT(30)
  <2>3. \A s \in sinks' : active_note'[s] # None => s \in dirty'
    BY <2>1 DEF AccountInv, AccountingAgrees
  <2>4. \A s, t \in sinks' : config'[s].channel = config'[t].channel => s = t
    BY <2>1 DEF AccountInv
  <2>5. sink_count' <= MaxSinks
    BY <1>5, RackAssumption DEF AccountInv, TypeOK, BufferTyped
  <2>6. QED
    BY <1>7, <2>2, <2>3, <2>4, <2>5 DEF AccountInv, AccountingAgrees
<1>11. BufferInv'
  <2>1. dirty' = dirty \ Selected
    BY <1>1 DEF Selected
  <2>2. Cardinality(dirty') = Cardinality(dirty) - Cardinality(Selected)
    BY <1>1, <2>1, BatchRoom
  <2>3. Len(events') + CleanupPerSink * Cardinality(dirty') <= TotalEvents
    <3>1. Len(events) + CleanupPerSink * Cardinality(dirty) <= TotalEvents
      BY DEF BufferInv
    <3>2. TotalEvents \in Nat
      BY RackAssumption DEF TotalEvents, NormalEventsPerSink, CleanupPerSink
    <3>3. QED
      BY <1>1, <1>3, <2>2, <3>1, <3>2, BatchRoom DEF CleanupPerSink
  <2>4. QED
    BY <1>2, <2>3 DEF BufferInv
<1>12. QED
  BY <1>2, <1>9, <1>10, <1>11

(* A patch whose channels are distinct reserves one channel per sink. *)
LEMMA PatchChannels ==
  ASSUME NEW p \in Patch,
         \A s, t \in p.names : p.config[s].channel = p.config[t].channel => s = t
  PROVE  /\ IsFiniteSet(p.names) /\ Cardinality(p.names) \in Nat
         /\ Cardinality({p.config[s].channel : s \in p.names}) = Cardinality(p.names)
<1> DEFINE C == {p.config[s].channel : s \in p.names}
           f == [s \in p.names |-> p.config[s].channel]
<1>1. IsFiniteSet(p.names)
  BY RackAssumption, FS_Subset DEF Patch
<1>2. f \in Bijection(p.names, C)
  <2>1. f \in [p.names -> C]
    OBVIOUS
  <2>2. \A s, t \in p.names : f[s] = f[t] => s = t
    OBVIOUS
  <2>3. \A c \in C : \E s \in p.names : f[s] = c
    OBVIOUS
  <2> HIDE DEF f, C
  <2>4. f \in Injection(p.names, C)
    BY <2>1, <2>2 DEF Injection, IsInjective
  <2>5. f \in Surjection(p.names, C)
    BY <2>1, <2>3 DEF Surjection
  <2>6. QED
    BY <2>4, <2>5 DEF Bijection
<1>3. QED
  BY <1>1, <1>2, FS_Bijection, FS_CardinalityType DEF ExistsBijection

(* The new buffer holds the cleanup only, and every voice is clean. *)
LEMMA CommitStep ==
  ASSUME IInv, NEW kind, NEW p \in Patch, NEW identity \in BOOLEAN,
         Reservable(p), Selected = dirty, Commit(kind, p, identity)
  PROVE  IInv'
<1> USE DEF IInv, Commit
<1>1. EndOp(kind) /\ pc = "collect"
  BY DEF EndOp
<1>2. OpTyped' /\ CallTyped' /\ HostTyped' /\ ControlInv' /\ pc' = "idle"
  BY <1>1, EndOpTyped
<1>3. /\ IsFiniteSet(p.names) /\ Cardinality(p.names) \in Nat
      /\ Cardinality(channels') = Cardinality(p.names)
  BY PatchChannels DEF Reservable
<1>4. p.names \subseteq Names /\ p.config \in [Names -> Config]
  BY DEF Patch
<1>5. \A s \in p.names : config'[s] = p.config[s]
  BY <1>4
<1>6. TypeOK'
  <2>1. BufferTyped'
    BY <1>3, <1>4 DEF TypeOK, BufferTyped, OpTyped, Config
  <2>2. NoConfig \in Config
    BY RackAssumption DEF NoConfig, Config, Channels
  <2>3. config' \in [Names -> Config]
    BY <1>4, <2>2
  <2>4. SinksTyped'
    BY <1>4, <2>3 DEF SinksTyped
  <2>5. TimeTyped'
    <3>1. loaded' \in BOOLEAN /\ running' = FALSE /\ unpaused' = FALSE
      BY Zenon
    <3>2. /\ driver' \in Drivers /\ life' \in Nat /\ completed' \in Nat
          /\ last_index' = None
      BY DEF TypeOK, TimeTyped
    <3>3. QED
      BY <3>1, <3>2 DEF TimeTyped
  <2>6. QED
    BY <1>2, <2>1, <2>4, <2>5 DEF TypeOK
<1>7. AccountInv'
  <2>1. channels' = {config'[s].channel : s \in sinks'}
    BY <1>5
  <2>2. \A s \in sinks' : active_note'[s] = None
    BY <1>4
  <2>3. QED
    BY <1>3, <1>5, <2>1, <2>2 DEF AccountInv, AccountingAgrees, Reservable
<1>8. BufferInv'
  <2>1. Cardinality(dirty') = 0
    BY FS_EmptySet
  <2>2. Len(events') + CleanupPerSink * Cardinality(dirty') <= TotalEvents
    BY <1>1, <2>1, BatchRoom, RackAssumption
       DEF BatchFits, CleanupPerSink, TotalEvents, NormalEventsPerSink
  <2>3. fault' # "capacity"
    BY RackAssumption DEF Faults
  <2>4. QED
    BY <1>2, <2>2, <2>3 DEF BufferInv
<1>9. QED
  BY <1>2, <1>6, <1>7, <1>8

(* Draining empties the buffer. *)
LEMMA DrainStep ==
  ASSUME IInv, NEW k \in 0 .. Len(events), DrainMidi(k)
  PROVE  IInv'
<1> USE DEF IInv, DrainMidi, timeVars, sinkVars, sampleVars, callVars, opVars
<1>1. events' \in Seq(Event) /\ Len(events') = 0
  BY EmptySeq
<1>2. HostTyped'
  <2>1. \A i \in 1 .. Len(events) : events[i].message.channel \in Channels
    <3>1. events \in Seq(Event)
      BY DEF TypeOK, BufferTyped
    <3>2. \A i \in 1 .. Len(events) : events[i] \in Event
      BY <3>1, ElementOfSeq
    <3>3. QED
      BY <3>2 DEF Event
  <2>2. Len(events) \in Nat
    BY LenProperties DEF TypeOK, BufferTyped
  <2>3. heard' \in [Channels -> SUBSET Notes]
    BY DEF Sounding
  <2>4. lost' \subseteq Channels /\ abandoned' \subseteq Channels
    BY <2>1, <2>2 DEF TypeOK, HostTyped
  <2>5. QED
    BY <2>3, <2>4 DEF HostTyped
<1>3. TypeOK'
  BY <1>1, <1>2 DEF TypeOK, TimeTyped, SinksTyped, BufferTyped, CallTyped, OpTyped
<1>4. ControlInv'
  BY DEF ControlInv
<1>5. AccountInv'
  BY AccountFrame DEF sinkVars
<1>6. BufferInv'
  <2>1. Cardinality(dirty) \in Nat /\ Len(events) \in Nat
    BY SinksFinite, LenProperties DEF TypeOK, BufferTyped
  <2>2. QED
    BY <1>1, <2>1, RackAssumption DEF BufferInv, CleanupPerSink, TotalEvents, NormalEventsPerSink
<1>7. QED
  BY <1>3, <1>4, <1>5, <1>6
-----------------------------------------------------------------------------
(* Every step preserves the invariant. *)
LEMMA NextIInv == IInv /\ [Next]_vars => IInv'
<1> SUFFICES ASSUME IInv, [Next]_vars PROVE IInv'
  OBVIOUS
<1>1. CASE Start \/ Stop \/ SharedStop \/ \E d \in Drivers : SetDriverMode(d)
  BY <1>1, TransportStep
<1>2. CASE \/ \E n \in 1 .. MaxRequest : AdvanceSamples(n) \/ StepLive(n)
           \/ RefuseSample \/ EndCall
  BY <1>2, CallStep
<1>3. CASE BeginSample
  BY <1>3, BeginSampleStep
<1>4. CASE FinishSample
  BY <1>4, FinishSampleStep
<1>5. ASSUME NEW s \in sinks, NEW in \in Inputs, SkipSink(s) \/ FailSink(s, in)
      PROVE  IInv'
  BY <1>5, QuietSinkStep
<1>6. ASSUME NEW s \in sinks, NEW in \in Inputs, PlaySink(s, in)
      PROVE  IInv'
  BY <1>6, PlaySinkStep
<1>7. CASE \/ Reset \/ Restart \/ UnloadPatch
           \/ \E n \in Names : RemoveModule(n)
           \/ \E p \in Patches : LoadPatch(p)
  BY <1>7, BeginOpStep
<1>8. CASE SkipChannel \/ \E s \in sinks : CollectSink(s)
  BY <1>8, CollectStep
<1>9. CASE FinishReset
  BY <1>9, FinishResetStep
<1>10. CASE FinishRemove
  BY <1>10, FinishRemoveStep
<1>11. CASE FinishReplace
  <2>1. /\ op.patch \in Patch /\ Reservable(op.patch)
        /\ Selected = dirty
    BY <1>11 DEF FinishReplace, Commit, EndOp, IInv, ControlInv, TypeOK, OpTyped,
                 Op, Selected
  <2>2. QED
    BY <1>11, <2>1, CommitStep DEF FinishReplace
<1>12. CASE FinishUnload
  <2>1. op.patch \in Patch /\ Selected = dirty
    BY <1>12 DEF FinishUnload, Commit, EndOp, IInv, TypeOK, OpTyped, Op, Selected
  <2>2. Reservable(op.patch)
    BY <1>12 DEF FinishUnload, Commit, EndOp, IInv, ControlInv
  <2>3. QED
    BY <1>12, <2>1, <2>2, CommitStep DEF FinishUnload
<1>13. ASSUME NEW k \in 0 .. Len(events), DrainMidi(k)
       PROVE  IInv'
  BY <1>13, DrainStep
<1>14. CASE UNCHANGED vars
  <2> USE <1>14 DEF vars, timeVars, sinkVars, bufferVars, sampleVars, callVars,
                    opVars, hostVars, IInv
  <2>1. TypeOK'
    BY DEF TypeOK, TimeTyped, SinksTyped, BufferTyped, CallTyped, OpTyped, HostTyped
  <2>2. ControlInv'
    BY DEF ControlInv, Reservable
  <2>3. AccountInv'
    BY AccountFrame
  <2>4. BufferInv'
    BY DEF BufferInv, Collected, Selected
  <2>5. QED
    BY <2>1, <2>2, <2>3, <2>4
<1>15. \E in \in Inputs : TRUE
  <2>1. [gate |-> FALSE, note |-> None, velocity |-> "zero", noise |-> "ok"] \in Inputs
    BY DEF Inputs
  <2>2. QED
    BY <2>1
<1>16. SampleStep => IInv'
  BY <1>1, <1>2, <1>3, <1>4, <1>5, <1>6, <1>15, Zenon DEF SampleStep
<1>17. OpStep => IInv'
  BY <1>8, <1>9, <1>10, <1>11, <1>12, Zenon DEF OpStep
<1>18. QED
  BY <1>1, <1>2, <1>7, <1>13, <1>14, <1>16, <1>17, Zenon DEF Next

(* The invariant holds in every reachable state. *)
THEOREM Invariant == Spec => []IInv
  BY InitIInv, NextIInv, PTL DEF Spec

(* The types of the rack's state hold in every reachable state, for every  *)
(* set of sinks, channels and patches.                                     *)
THEOREM TypeCorrect == Spec => []TypeOK
<1>1. IInv => TypeOK
  BY DEF IInv
<1>2. QED
  BY <1>1, Invariant, PTL

(* The five slots per sink suffice: consume_midi_outputs never latches a   *)
(* capacity fault.                                                         *)
THEOREM NeverOutOfRoom == Spec => []CapacityNeverExceeded
<1>1. IInv => CapacityNeverExceeded
  BY DEF IInv, BufferInv, CapacityNeverExceeded
<1>2. QED
  BY <1>1, Invariant, PTL

(* prepare_silence finds its accounting in agreement and append_silence    *)
(* finds room, whatever samples, resets and removals came before.          *)
THEOREM SilencingSucceeds == Spec => []SilenceNeverRefused
<1>1. IInv => SilenceNeverRefused
  <2>1. IInv => AccountingAgrees
    BY DEF IInv, AccountInv
  <2>2. IInv /\ pc = "collect" => BatchFits
    BY BatchRoom
  <2>3. QED
    BY <2>1, <2>2 DEF SilenceNeverRefused
<1>2. QED
  BY <1>1, Invariant, PTL

(* A latched fault is terminal: until a configuration is committed, no     *)
(* other fault replaces it and no sample begins.                           *)
THEOREM FaultTerminal == Spec => FaultIsTerminal
<1>1. ASSUME IInv, [Next]_vars, fault # None, life' = life
      PROVE  fault' = fault /\ last_index' = last_index
  <2> USE <1>1 DEF timeVars, sinkVars, bufferVars, sampleVars, callVars, opVars, hostVars
  <2>1. CASE Start \/ Stop \/ \E d \in Drivers : SetDriverMode(d)
    BY <2>1 DEF Start, Stop, SetDriverMode
  <2>2. CASE \E n \in 1 .. MaxRequest : AdvanceSamples(n) \/ StepLive(n)
    BY <2>2 DEF AdvanceSamples, StepLive, BeginCall
  <2>3. CASE RefuseSample \/ BeginSample \/ SharedStop \/ FinishSample \/ EndCall
    BY <2>3 DEF RefuseSample, BeginSample, SharedStop, FinishSample, EndCall,
                Admissible, Latched
  <2>4. ASSUME NEW s \in sinks, NEW in \in Inputs,
               SkipSink(s) \/ FailSink(s, in) \/ PlaySink(s, in)
        PROVE  fault' = fault /\ last_index' = last_index
    BY <2>4 DEF SkipSink, FailSink, PlaySink, Latched
  <2>5. CASE \/ Reset \/ Restart \/ UnloadPatch
             \/ \E n \in Names : RemoveModule(n)
             \/ \E p \in Patches : LoadPatch(p)
    BY <2>5 DEF Reset, Restart, UnloadPatch, RemoveModule, LoadPatch, BeginOp
  <2>6. CASE SkipChannel \/ \E s \in sinks : CollectSink(s)
    BY <2>6 DEF SkipChannel, CollectSink
  <2>7. CASE FinishReset \/ FinishRemove
    BY <2>7 DEF FinishReset, FinishRemove
  <2>8. CASE FinishReplace \/ FinishUnload
    <3>1. life' = life + 1 /\ life \in Nat
      BY <2>8 DEF FinishReplace, FinishUnload, Commit, IInv, TypeOK, TimeTyped
    <3>2. QED
      BY <3>1
  <2>9. CASE \E k \in 0 .. Len(events) : DrainMidi(k)
    BY <2>9 DEF DrainMidi
  <2>10. CASE UNCHANGED vars
    BY <2>10 DEF vars
  <2>11. SampleStep => fault' = fault /\ last_index' = last_index
    <3>1. [gate |-> FALSE, note |-> None, velocity |-> "zero", noise |-> "ok"] \in Inputs
      BY DEF Inputs
    <3>2. (\E s \in sinks : SkipSink(s) \/ \E in \in Inputs : FailSink(s, in) \/ PlaySink(s, in))
            => fault' = fault /\ last_index' = last_index
      BY <2>4, <3>1, Zenon
    <3>3. QED
      BY <2>1, <2>3, <3>2, Zenon DEF SampleStep
  <2>12. OpStep => fault' = fault /\ last_index' = last_index
    BY <2>6, <2>7, <2>8, Zenon DEF OpStep
  <2>13. QED
    BY <2>1, <2>2, <2>5, <2>9, <2>10, <2>11, <2>12, Zenon DEF Next
<1>2. QED
  BY <1>1, Invariant, PTL DEF Spec, FaultIsTerminal

(* Why samples run only for the owning driver: a call that is under way    *)
(* holds the driver it was made for, and virtual time runs exactly for a   *)
(* live driver.                                                            *)
DriverInv ==
  /\ pc \in {"loop", "consume"} => caller = driver
  /\ driver = "Manual" => ~unpaused
  /\ driver = "Live" /\ running => unpaused

(* Samples run only for the driver that owns execution (advance_samples,   *)
(* step), for every set of sinks, channels and patches.                    *)
THEOREM DriverOwnership == Spec => []DriverOwnsSamples
<1>1. Init => DriverInv
  BY DEF Init, DriverInv
<1>2. ASSUME IInv, DriverInv, [Next]_vars PROVE DriverInv'
  <2> USE <1>2 DEF DriverInv, timeVars, sinkVars, bufferVars, sampleVars, callVars, opVars, hostVars
  <2>0. driver \in Drivers
    BY DEF IInv, TypeOK, TimeTyped
  <2>1. CASE Start \/ Stop \/ \E d \in Drivers : SetDriverMode(d)
    <3>1. CASE Start \/ Stop
      BY <2>0, <3>1 DEF Start, Stop, Drivers
    <3>2. ASSUME NEW d \in Drivers, SetDriverMode(d) PROVE DriverInv'
      <4>1. pc' = "idle" /\ driver' = d /\ running' = running
        BY <3>2 DEF SetDriverMode
      <4>2. unpaused' = (d = "Live" /\ running)
        BY <3>2, Zenon DEF SetDriverMode, Resumes
      <4>3. d = "Manual" => ~unpaused'
        BY <4>2
      <4>4. d = "Live" /\ running => unpaused'
        BY <4>2, Zenon
      <4>5. QED
        BY <4>1, <4>3, <4>4
    <3>3. QED
      BY <2>1, <3>1, <3>2
  <2>2. CASE \E n \in 1 .. MaxRequest : AdvanceSamples(n) \/ StepLive(n)
    BY <2>0, <2>2 DEF AdvanceSamples, StepLive, BeginCall, Drivers
  <2>3. CASE RefuseSample \/ BeginSample \/ SharedStop \/ FinishSample \/ EndCall
    BY <2>3 DEF RefuseSample, BeginSample, SharedStop, FinishSample, EndCall
  <2>4. ASSUME NEW s \in sinks, NEW in \in Inputs,
               SkipSink(s) \/ FailSink(s, in) \/ PlaySink(s, in)
        PROVE  DriverInv'
    <3>1. /\ UNCHANGED <<pc, caller, driver, unpaused>>
          /\ running' = running \/ running' = FALSE
      BY <2>4 DEF SkipSink, FailSink, PlaySink
    <3>2. QED
      BY <3>1
  <2>5. CASE \/ Reset \/ Restart \/ UnloadPatch
             \/ \E n \in Names : RemoveModule(n)
             \/ \E p \in Patches : LoadPatch(p)
    BY <2>5 DEF Reset, Restart, UnloadPatch, RemoveModule, LoadPatch, BeginOp
  <2>6. CASE SkipChannel \/ \E s \in sinks : CollectSink(s)
    BY <2>6 DEF SkipChannel, CollectSink
  <2>7. CASE FinishReset \/ FinishRemove \/ FinishReplace \/ FinishUnload
    BY <2>7 DEF FinishReset, FinishRemove, FinishReplace, FinishUnload, Commit, EndOp
  <2>8. CASE \E k \in 0 .. Len(events) : DrainMidi(k)
    BY <2>8 DEF DrainMidi
  <2>9. CASE UNCHANGED vars
    BY <2>9 DEF vars
  <2>10. SampleStep => DriverInv'
    <3>1. [gate |-> FALSE, note |-> None, velocity |-> "zero", noise |-> "ok"] \in Inputs
      BY DEF Inputs
    <3>2. (\E s \in sinks : SkipSink(s) \/ \E in \in Inputs : FailSink(s, in) \/ PlaySink(s, in))
            => DriverInv'
      BY <2>4, <3>1, Zenon
    <3>3. QED
      BY <2>1, <2>3, <3>2, Zenon DEF SampleStep
  <2>11. OpStep => DriverInv'
    BY <2>6, <2>7, Zenon DEF OpStep
  <2>12. QED
    BY <2>1, <2>2, <2>5, <2>8, <2>9, <2>10, <2>11, Zenon DEF Next
<1>3. DriverInv => DriverOwnsSamples
  BY DEF DriverInv, DriverOwnsSamples
<1>4. QED
  BY <1>1, <1>2, <1>3, Invariant, PTL DEF Spec
-----------------------------------------------------------------------------
(* What a stream of events makes of the notes of a channel.  A stream that *)
(* follows another starts from what the first has left.                    *)
LEMMA SoundingConcat ==
  ASSUME NEW S, NEW s \in Seq(S), NEW t \in Seq(S), NEW X, NEW c
  PROVE  Sounding(X, c, s \o t) = Sounding(Sounding(X, c, s), c, t)
<1> DEFINE m == Len(s)
           l == Len(t)
           u == s \o t
           Ending(e, n) == Ends(e.message, c, n)
           Starting(e, n) == Starts(e.message, c, n)
<1>1. m \in Nat /\ l \in Nat /\ Len(u) = m + l
  BY ConcatProperties, LenProperties
<1>2. /\ \A i \in 1 .. m : u[i] = s[i]
      /\ \A i \in 1 .. l : u[m + i] = t[i]
      /\ \A i \in 1 .. m + l : i \in 1 .. m \/ (i - m \in 1 .. l /\ u[i] = t[i - m])
  <2>1. \A i \in 1 .. m + l : u[i] = IF i <= m THEN s[i] ELSE t[i - m]
    BY ConcatProperties
  <2> HIDE DEF u, m, l
  <2>2. ASSUME NEW i \in 1 .. l PROVE u[m + i] = t[i]
    <3>1. m + i \in 1 .. m + l /\ ~(m + i <= m) /\ (m + i) - m = i
      BY <1>1
    <3> QED
      BY <2>1, <3>1
  <2> QED
    BY <1>1, <2>1, <2>2
<1> HIDE DEF m, l, u
<1>3. ASSUME NEW n \in Notes
      PROVE  /\ n \in Sounding(X, c, u) <=>
                  \/ n \in X /\ \A i \in 1 .. m + l : ~Ending(u[i], n)
                  \/ \E i \in 1 .. m + l : /\ Starting(u[i], n)
                                          /\ \A j \in (i + 1) .. (m + l) : ~Ending(u[j], n)
             /\ n \in Sounding(X, c, s) <=>
                  \/ n \in X /\ \A i \in 1 .. m : ~Ending(s[i], n)
                  \/ \E i \in 1 .. m : /\ Starting(s[i], n)
                                      /\ \A j \in (i + 1) .. m : ~Ending(s[j], n)
             /\ n \in Sounding(Sounding(X, c, s), c, t) <=>
                  \/ n \in Sounding(X, c, s) /\ \A i \in 1 .. l : ~Ending(t[i], n)
                  \/ \E i \in 1 .. l : /\ Starting(t[i], n)
                                      /\ \A j \in (i + 1) .. l : ~Ending(t[j], n)
  BY <1>1 DEF Sounding, m, l
<1> HIDE DEF Ending, Starting
<1>4. ASSUME NEW n \in Notes, n \in Sounding(X, c, u)
      PROVE  n \in Sounding(Sounding(X, c, s), c, t)
  <2>1. CASE n \in X /\ \A i \in 1 .. m + l : ~Ending(u[i], n)
    <3>1. \A i \in 1 .. m : ~Ending(s[i], n)
      BY <1>1, <1>2, <2>1
    <3>2. \A i \in 1 .. l : ~Ending(t[i], n)
      BY <1>1, <1>2, <2>1
    <3> QED
      BY <1>3, <2>1, <3>1, <3>2
  <2>2. ASSUME NEW i \in 1 .. m + l, Starting(u[i], n),
               \A j \in (i + 1) .. (m + l) : ~Ending(u[j], n)
        PROVE  n \in Sounding(Sounding(X, c, s), c, t)
    <3>1. CASE i \in 1 .. m
      <4>1. Starting(s[i], n) /\ \A j \in (i + 1) .. m : ~Ending(s[j], n)
        BY <1>1, <1>2, <2>2, <3>1
      <4>2. \A j \in 1 .. l : ~Ending(t[j], n)
        BY <1>1, <1>2, <2>2, <3>1
      <4> QED
        BY <1>3, <3>1, <4>1, <4>2
    <3>2. CASE i \notin 1 .. m
      <4>1. i - m \in 1 .. l /\ Starting(t[i - m], n)
        BY <1>2, <2>2, <3>2
      <4>2. \A j \in ((i - m) + 1) .. l : ~Ending(t[j], n)
        BY <1>1, <1>2, <2>2, <4>1
      <4> QED
        BY <1>3, <4>1, <4>2
    <3> QED
      BY <3>1, <3>2
  <2> QED
    BY <1>3, <1>4, <2>1, <2>2
<1>5. ASSUME NEW n \in Notes, n \in Sounding(Sounding(X, c, s), c, t)
      PROVE  n \in Sounding(X, c, u)
  <2>1. ASSUME NEW i \in 1 .. l, Starting(t[i], n), \A j \in (i + 1) .. l : ~Ending(t[j], n)
        PROVE  n \in Sounding(X, c, u)
    <3>1. m + i \in 1 .. m + l /\ Starting(u[m + i], n)
      BY <1>1, <1>2, <2>1
    <3>2. \A j \in (m + i + 1) .. (m + l) : ~Ending(u[j], n)
      BY <1>1, <1>2, <2>1
    <3> QED
      BY <1>3, <3>1, <3>2
  <2>2. ASSUME n \in Sounding(X, c, s), \A i \in 1 .. l : ~Ending(t[i], n)
        PROVE  n \in Sounding(X, c, u)
    <3>1. CASE n \in X /\ \A i \in 1 .. m : ~Ending(s[i], n)
      <4>1. \A i \in 1 .. m + l : ~Ending(u[i], n)
        BY <1>2, <2>2, <3>1
      <4> QED
        BY <1>3, <3>1, <4>1
    <3>2. ASSUME NEW i \in 1 .. m, Starting(s[i], n), \A j \in (i + 1) .. m : ~Ending(s[j], n)
          PROVE  n \in Sounding(X, c, u)
      <4>1. i \in 1 .. m + l /\ Starting(u[i], n)
        BY <1>1, <1>2, <3>2
      <4>2. ASSUME NEW j \in (i + 1) .. (m + l) PROVE ~Ending(u[j], n)
        <5>1. j \in 1 .. m + l
          BY <1>1
        <5>2. CASE j \in 1 .. m
          <6>1. j \in (i + 1) .. m /\ u[j] = s[j]
            BY <1>1, <1>2, <5>2
          <6> QED
            BY <3>2, <6>1
        <5>3. CASE j - m \in 1 .. l /\ u[j] = t[j - m]
          BY <2>2, <5>3
        <5> QED
          BY <1>2, <5>1, <5>2, <5>3
      <4> QED
        BY <1>3, <4>1, <4>2
    <3> QED
      BY <1>3, <2>2, <3>1, <3>2
  <2> QED
    BY <1>3, <1>5, <2>1, <2>2
<1>6. Sounding(X, c, u) \subseteq Notes /\ Sounding(Sounding(X, c, s), c, t) \subseteq Notes
  BY DEF Sounding
<1> QED
  BY <1>4, <1>5, <1>6 DEF u

(* Neither does anything to the notes of a channel. *)
Inaudible(m, c) == \A n \in Notes : ~Starts(m, c, n) /\ ~Ends(m, c, n)

LEMMA SoundingUnheard ==
  ASSUME NEW S, NEW t \in Seq(S), NEW X \in SUBSET Notes, NEW c,
         \A i \in 1 .. Len(t) : Inaudible(t[i].message, c)
  PROVE  Sounding(X, c, t) = X
BY DEF Sounding, Inaudible

LEMMA ElsewhereInaudible ==
  ASSUME NEW m, NEW c, m.channel # c \/ m.kind = "Control"
  PROVE  Inaudible(m, c)
BY DEF Inaudible, Starts, Ends

(* CC 123 and CC 120 end every note of their channel. *)
Cleans(m, c) == m.channel = c /\ m.kind \in {"AllNotesOff", "AllSoundOff"}

LEMMA SoundingCleaned ==
  ASSUME NEW S, NEW t \in Seq(S), NEW X, NEW c, NEW i \in 1 .. Len(t), Cleans(t[i].message, c),
         \A j \in 1 .. Len(t) : t[j].message.kind # "NoteOn"
  PROVE  Sounding(X, c, t) = {}
BY DEF Sounding, Cleans, Starts, Ends

LEMMA SoundingNothing ==
  ASSUME NEW X \in SUBSET Notes, NEW c
  PROVE  Sounding(X, c, <<>>) = X
BY DEF Sounding

(* The first k events of a stream and the rest. *)
LEMMA PrefixSplit ==
  ASSUME NEW S, NEW e \in Seq(S), NEW k \in 0 .. Len(e)
  PROVE  /\ SubSeq(e, 1, k) \in Seq(S) /\ SubSeq(e, k + 1, Len(e)) \in Seq(S)
         /\ Len(SubSeq(e, 1, k)) = k /\ Len(SubSeq(e, k + 1, Len(e))) = Len(e) - k
         /\ \A i \in 1 .. k : SubSeq(e, 1, k)[i] = e[i]
         /\ \A i \in 1 .. Len(e) - k : SubSeq(e, k + 1, Len(e))[i] = e[k + i]
         /\ e = SubSeq(e, 1, k) \o SubSeq(e, k + 1, Len(e))
<1> DEFINE a == SubSeq(e, 1, k)
           b == SubSeq(e, k + 1, Len(e))
           n == Len(e)
<1>1. n \in Nat /\ \A i \in 1 .. n : e[i] \in S
  BY LenProperties, ElementOfSeq
<1>2. a \in Seq(S) /\ Len(a) = k /\ \A i \in 1 .. k : a[i] = e[i]
  BY <1>1, SubSeqProperties
<1>3. b \in Seq(S) /\ Len(b) = n - k /\ \A i \in 1 .. n - k : b[i] = e[k + i]
  BY <1>1, SubSeqProperties
<1> HIDE DEF a, b, n
<1>4. /\ a \o b \in Seq(S) /\ Len(a \o b) = k + (n - k)
      /\ \A i \in 1 .. k + (n - k) : (a \o b)[i] = IF i <= k THEN a[i] ELSE b[i - k]
  <2>1. /\ a \o b \in Seq(S) /\ Len(a \o b) = Len(a) + Len(b)
        /\ \A i \in 1 .. Len(a) + Len(b) :
             (a \o b)[i] = IF i <= Len(a) THEN a[i] ELSE b[i - Len(a)]
    BY <1>2, <1>3, ConcatProperties
  <2> QED
    BY <1>2, <1>3, <2>1, Zenon
<1>5. e \in Seq(S) /\ Len(e) = n /\ k \in 0 .. n
  BY DEF n
<1>6. \A i \in 1 .. n : e[i] = (a \o b)[i]
  <2> SUFFICES ASSUME NEW i \in 1 .. n PROVE e[i] = (a \o b)[i]
    OBVIOUS
  <2>1. CASE i <= k
    BY <1>1, <1>2, <1>4, <1>5, <2>1
  <2>2. CASE ~(i <= k)
    <3>1. i - k \in 1 .. n - k /\ k + (i - k) = i
      BY <1>1, <1>5, <2>2
    <3>2. b[i - k] = e[i]
      BY <1>3, <3>1
    <3> QED
      BY <1>1, <1>4, <1>5, <2>2, <3>2
  <2> QED
    BY <2>1, <2>2
<1>7. Len(a \o b) = n
  BY <1>1, <1>4, <1>5
<1>8. e = a \o b
  BY <1>4, <1>5, <1>6, <1>7, SeqEqual
<1> QED
  BY <1>2, <1>3, <1>8 DEF a, b, n

(* The prefixes of a stream that was appended to. *)
LEMMA PrefixAppended ==
  ASSUME NEW S, NEW e \in Seq(S), NEW b \in Seq(S), NEW k \in 0 .. Len(e) + Len(b)
  PROVE  /\ k <= Len(e) => SubSeq(e \o b, 1, k) = SubSeq(e, 1, k)
         /\ k > Len(e) => SubSeq(e \o b, 1, k) = e \o SubSeq(b, 1, k - Len(e))
<1> DEFINE n == Len(e)
           u == e \o b
           p == SubSeq(u, 1, k)
<1>1. /\ n \in Nat /\ Len(b) \in Nat /\ u \in Seq(S) /\ Len(u) = n + Len(b)
      /\ \A i \in 1 .. n + Len(b) : u[i] = IF i <= n THEN e[i] ELSE b[i - n]
  BY ConcatProperties, LenProperties
<1>2. p \in Seq(S) /\ Len(p) = k /\ \A i \in 1 .. k : p[i] = u[i]
  <2> HIDE DEF u, n
  <2>1. k \in 0 .. Len(u)
    BY <1>1 DEF n
  <2> QED
    BY <1>1, <2>1, PrefixSplit
<1>3. ASSUME k <= n PROVE p = SubSeq(e, 1, k)
  <2>1. k \in 0 .. Len(e)
    BY <1>1, <1>3
  <2>2. SubSeq(e, 1, k) \in Seq(S) /\ Len(SubSeq(e, 1, k)) = k
        /\ \A i \in 1 .. k : SubSeq(e, 1, k)[i] = e[i]
    BY <2>1, PrefixSplit
  <2> HIDE DEF p, u, n
  <2>3. \A i \in 1 .. Len(p) : p[i] = SubSeq(e, 1, k)[i]
    BY <1>1, <1>2, <1>3, <2>2
  <2> QED
    BY <1>2, <2>2, <2>3, SeqEqual
<1>4. ASSUME k > n PROVE p = e \o SubSeq(b, 1, k - n)
  <2> DEFINE q == SubSeq(b, 1, k - n)
  <2>1. k - n \in 0 .. Len(b)
    BY <1>1, <1>4
  <2>2. q \in Seq(S) /\ Len(q) = k - n /\ \A i \in 1 .. k - n : q[i] = b[i]
    BY <2>1, PrefixSplit
  <2> HIDE DEF p, u, q
  <2>3. /\ e \o q \in Seq(S) /\ Len(e \o q) = n + (k - n)
        /\ \A i \in 1 .. n + (k - n) : (e \o q)[i] = IF i <= n THEN e[i] ELSE q[i - n]
    BY <2>2, ConcatProperties
  <2> HIDE DEF n
  <2>4. Len(e \o q) = Len(p)
    BY <1>1, <1>2, <2>3
  <2>5. ASSUME NEW i \in 1 .. Len(p) PROVE p[i] = (e \o q)[i]
    <3>1. i \in 1 .. n + (k - n) /\ i \in 1 .. n + Len(b) /\ i \in 1 .. k
      BY <1>1, <1>2, <1>4, <2>1
    <3>2. CASE i <= n
      BY <1>1, <1>2, <2>3, <3>1, <3>2
    <3>3. CASE ~(i <= n)
      <4>1. i - n \in 1 .. k - n
        BY <1>1, <3>1, <3>3
      <4> QED
        BY <1>1, <1>2, <2>2, <2>3, <3>1, <3>3, <4>1
    <3> QED
      BY <3>2, <3>3
  <2>6. p = e \o q
    BY <1>2, <2>3, <2>4, <2>5, SeqEqual
  <2> QED
    BY <2>6 DEF q
<1> QED
  BY <1>3, <1>4 DEF n, u, p
-----------------------------------------------------------------------------
(* A channel owes a cleanup: wherever the host may stop reading the stream *)
(* e, what sounds there then, out of the notes X that sounded before, is   *)
(* ended by a cleanup that is still to come, or its sink is dirty.         *)
Owes(X, c, e, sinkIsDirty) ==
  \A k \in 0 .. Len(e) :
    Sounding(X, c, SubSeq(e, 1, k)) # {} =>
      sinkIsDirty \/ \E i \in (k + 1) .. Len(e) : Cleans(e[i].message, c)

(* Nothing that is appended breaks that: neither what is inaudible on the  *)
(* channel, nor its cleanup, nor what comes from a sink that is dirty then.*)
LEMMA OwesAppended ==
  ASSUME NEW S, NEW e \in Seq(S), NEW b \in Seq(S), NEW X \in SUBSET Notes, NEW c,
         NEW before, NEW after, Owes(X, c, e, before),
         \/ after
         \/ /\ before => after
            /\ \A i \in 1 .. Len(b) : Inaudible(b[i].message, c)
         \/ /\ \E i \in 1 .. Len(b) : Cleans(b[i].message, c)
            /\ \A i \in 1 .. Len(b) : b[i].message.kind # "NoteOn"
  PROVE  Owes(X, c, e \o b, after)
<1> DEFINE n == Len(e)
           u == e \o b
<1>1. /\ n \in Nat /\ Len(b) \in Nat /\ u \in Seq(S) /\ Len(u) = n + Len(b)
      /\ \A i \in 1 .. n + Len(b) : u[i] = IF i <= n THEN e[i] ELSE b[i - n]
  BY ConcatProperties, LenProperties
<1> SUFFICES ASSUME NEW k \in 0 .. Len(u), Sounding(X, c, SubSeq(u, 1, k)) # {}, ~after
             PROVE  \E i \in (k + 1) .. Len(u) : Cleans(u[i].message, c)
  BY DEF Owes
<1>2. /\ k <= n => SubSeq(u, 1, k) = SubSeq(e, 1, k)
      /\ k > n => SubSeq(u, 1, k) = e \o SubSeq(b, 1, k - n)
  <2>1. k \in 0 .. Len(e) + Len(b)
    BY <1>1
  <2> QED
    BY <2>1, PrefixAppended
<1>3. ASSUME k > n
      PROVE  /\ SubSeq(b, 1, k - n) \in Seq(S) /\ Len(SubSeq(b, 1, k - n)) = k - n
             /\ \A i \in 1 .. k - n : SubSeq(b, 1, k - n)[i] = b[i]
             /\ Sounding(X, c, SubSeq(u, 1, k))
                   = Sounding(Sounding(X, c, e), c, SubSeq(b, 1, k - n))
  <2> DEFINE q == SubSeq(b, 1, k - n)
  <2>1. k - n \in 0 .. Len(b)
    BY <1>1, <1>3
  <2>2. q \in Seq(S) /\ Len(q) = k - n /\ \A i \in 1 .. k - n : q[i] = b[i]
    BY <2>1, PrefixSplit
  <2> HIDE DEF q
  <2>3. Sounding(X, c, e \o q) = Sounding(Sounding(X, c, e), c, q)
    BY <2>2, SoundingConcat
  <2> QED
    BY <1>2, <1>3, <2>2, <2>3 DEF q
<1>4. CASE /\ before => after
           /\ \A i \in 1 .. Len(b) : Inaudible(b[i].message, c)
  <2>1. PICK j \in 0 .. n : j <= k /\ (j < n => j = k) /\ Sounding(X, c, SubSeq(e, 1, j)) # {}
    <3>1. CASE k <= n
      <4> HIDE DEF n, u
      <4>1. k \in 0 .. n
        BY <1>1, <3>1
      <4>2. Sounding(X, c, SubSeq(e, 1, k)) # {}
        BY <1>2, <3>1, Zenon
      <4> QED
        BY <1>1, <4>1, <4>2
    <3>2. CASE k > n
      <4> DEFINE q == SubSeq(b, 1, k - n)
      <4>1. q \in Seq(S) /\ Len(q) = k - n /\ \A i \in 1 .. k - n : q[i] = b[i]
        BY <1>3, <3>2
      <4>2. k - n \in 1 .. Len(b)
        BY <1>1, <3>2
      <4>3. Sounding(X, c, e) \in SUBSET Notes
        BY DEF Sounding
      <4>4. \A i \in 1 .. Len(q) : Inaudible(q[i].message, c)
        <5> HIDE DEF q, n
        <5> QED
          BY <1>1, <1>4, <4>1, <4>2, SMTT(30)
      <4> HIDE DEF q
      <4>5. Sounding(Sounding(X, c, e), c, q) = Sounding(X, c, e)
        BY <4>1, <4>3, <4>4, SoundingUnheard
      <4>6. SubSeq(e, 1, n) = e
        <5>1. n \in 0 .. Len(e)
          BY <1>1
        <5>2. SubSeq(e, 1, n) \in Seq(S) /\ Len(SubSeq(e, 1, n)) = n
              /\ \A i \in 1 .. n : SubSeq(e, 1, n)[i] = e[i]
          BY <5>1, PrefixSplit
        <5> QED
          BY <5>2, SeqEqual
      <4>7. Sounding(X, c, SubSeq(e, 1, n)) # {}
        BY <1>3, <3>2, <4>5, <4>6 DEF q
      <4> HIDE DEF n
      <4> QED
        BY <1>1, <3>2, <4>7
    <3> HIDE DEF n
    <3> QED
      BY <1>1, <3>1, <3>2
  <2>2. PICK i \in (j + 1) .. n : Cleans(e[i].message, c)
    BY <1>4, <2>1 DEF Owes
  <2> HIDE DEF n, u
  <2>3. i \in (k + 1) .. Len(u) /\ u[i] = e[i]
    BY <1>1, <2>1, <2>2
  <2> QED
    BY <2>2, <2>3
<1>5. CASE /\ \E i \in 1 .. Len(b) : Cleans(b[i].message, c)
           /\ \A i \in 1 .. Len(b) : b[i].message.kind # "NoteOn"
  <2>1. PICK j \in 1 .. Len(b) : Cleans(b[j].message, c)
    BY <1>5
  <2>2. u[n + j] = b[j] /\ n + j \in 1 .. Len(u)
    <3> HIDE DEF n, u
    <3>1. n + j \in 1 .. n + Len(b) /\ ~(n + j <= n) /\ (n + j) - n = j
      BY <1>1
    <3> QED
      BY <1>1, <3>1
  <2>3. CASE k < n + j
    <3> HIDE DEF n, u
    <3>1. n + j \in (k + 1) .. Len(u)
      BY <1>1, <2>2, <2>3
    <3> QED
      BY <2>1, <2>2, <3>1
  <2>4. CASE k >= n + j
    <3>1. k > n /\ j \in 1 .. k - n /\ k - n <= Len(b)
      <4> HIDE DEF n, u
      <4> QED
        BY <1>1, <2>4
    <3> DEFINE q == SubSeq(b, 1, k - n)
    <3>2. q \in Seq(S) /\ Len(q) = k - n /\ \A i \in 1 .. k - n : q[i] = b[i]
      BY <1>3, <3>1
    <3> HIDE DEF q
    <3>3. \A i \in 1 .. Len(q) : q[i].message.kind # "NoteOn"
      <4> HIDE DEF n, u
      <4>1. \A i \in 1 .. Len(q) : q[i] = b[i]
        BY <3>2
      <4>2. 1 .. Len(q) \subseteq 1 .. Len(b)
        BY <1>1, <3>1, <3>2
      <4> QED
        BY <1>5, <4>1, <4>2, Zenon
    <3>4. j \in 1 .. Len(q) /\ Cleans(q[j].message, c)
      BY <2>1, <3>1, <3>2
    <3>5. Sounding(Sounding(X, c, e), c, q) = {}
      BY <3>2, <3>3, <3>4, SoundingCleaned
    <3> QED
      BY <1>3, <3>1, <3>5 DEF q
  <2> HIDE DEF n, u
  <2> QED
    BY <1>1, <2>3, <2>4
<1> QED
  BY <1>4, <1>5

(* As long as a cleanup is collected, its batch starts no note, is for the *)
(* channels of the sinks it has collected, and cleans every one of them.   *)
BatchInv ==
  pc = "collect" =>
    /\ \A i \in 1 .. Len(batch) :
         /\ batch[i].message.kind # "NoteOn"
         /\ \E s \in Collected : batch[i].message.channel = config[s].channel
    /\ \A s \in Collected :
         \E i \in 1 .. Len(batch) : Cleans(batch[i].message, config[s].channel)

(* A configuration is replaced only when the host has drained the buffer.  *)
DrainedInv == pc = "collect" /\ op.kind \in {"replace", "unload"} => events = <<>>

DirtyOn(c) == \E s \in dirty : config[s].channel = c
OwedInv == \A c \in Channels \ abandoned : Owes(heard[c], c, events, DirtyOn(c))

VoiceInv == BatchInv /\ DrainedInv /\ VoicesAgree /\ OwedInv

(* Steps that leave the sinks, the stream and its reader alone. *)
LEMMA VoicesUntouched ==
  ASSUME IInv, VoiceInv,
         UNCHANGED <<sinks, config, active_note, dirty, events, heard, lost, abandoned>>,
         pc' = "collect" => UNCHANGED <<pc, op, cursor, batch>>
  PROVE  VoiceInv'
<1>1. BatchInv'
  BY DEF VoiceInv, BatchInv, Collected, Selected
<1>2. DrainedInv'
  BY DEF VoiceInv, DrainedInv
<1>3. VoicesAgree'
  BY DEF VoiceInv, VoicesAgree, Future, Voice
<1>4. OwedInv'
  BY DEF VoiceInv, OwedInv, DirtyOn
<1> QED
  BY <1>1, <1>2, <1>3, <1>4 DEF VoiceInv

(* The transport, the calls and the sinks that do not play. *)
LEMMA QuietVoices ==
  ASSUME IInv, VoiceInv,
         \/ Start \/ Stop \/ SharedStop \/ \E d \in Drivers : SetDriverMode(d)
         \/ \E n \in 1 .. MaxRequest : AdvanceSamples(n) \/ StepLive(n)
         \/ RefuseSample \/ EndCall \/ BeginSample \/ FinishSample
         \/ \E s \in sinks : SkipSink(s) \/ \E in \in Inputs : FailSink(s, in)
         \/ UNCHANGED vars
  PROVE  VoiceInv'
<1> USE DEF vars, timeVars, sinkVars, bufferVars, sampleVars, callVars, opVars, hostVars
<1>1. CASE Start \/ Stop \/ SharedStop \/ \E d \in Drivers : SetDriverMode(d)
  BY <1>1, VoicesUntouched DEF Start, Stop, SharedStop, SetDriverMode
<1>2. CASE \E n \in 1 .. MaxRequest : AdvanceSamples(n) \/ StepLive(n)
  BY <1>2, VoicesUntouched DEF AdvanceSamples, StepLive, BeginCall
<1>3. CASE RefuseSample \/ EndCall \/ BeginSample \/ FinishSample
  BY <1>3, VoicesUntouched DEF RefuseSample, EndCall, BeginSample, FinishSample
<1>4. CASE \E s \in sinks : SkipSink(s) \/ \E in \in Inputs : FailSink(s, in)
  BY <1>4, VoicesUntouched DEF SkipSink, FailSink, NextSink
<1>5. CASE UNCHANGED vars
  BY <1>5, VoicesUntouched
<1> QED
  BY <1>1, <1>2, <1>3, <1>4, <1>5

(* An operation that begins has collected nothing. *)
LEMMA BeginOpVoices ==
  ASSUME IInv, VoiceInv,
         \/ Reset \/ Restart \/ UnloadPatch
         \/ \E n \in Names : RemoveModule(n)
         \/ \E p \in Patches : LoadPatch(p)
  PROVE  VoiceInv'
<1> USE DEF timeVars, sinkVars, bufferVars, sampleVars, callVars, hostVars
<1>1. PICK kind, name, p : /\ BeginOp(kind, name, p)
                           /\ kind \in {"replace", "unload"} => events = <<>>
  BY DEF Reset, Restart, UnloadPatch, RemoveModule, LoadPatch, StoppedAndDrained
<1>2. /\ UNCHANGED <<sinks, config, active_note, dirty, events, heard, lost, abandoned>>
      /\ pc' = "collect" /\ op'.kind = kind /\ cursor' = 0 /\ batch' = <<>>
  BY <1>1 DEF BeginOp
<1>3. Collected' = {}
  <2>1. \A s \in sinks : config[s].channel \in Nat
    BY DEF IInv, TypeOK, SinksTyped, Config, Channels
  <2>2. Selected' \subseteq sinks
    BY <1>2 DEF Selected, IInv, TypeOK, SinksTyped
  <2>3. \A s \in Selected' : ~(config'[s].channel < cursor')
    BY <1>2, <2>1, <2>2
  <2> QED
    BY <2>3 DEF Collected
<1>4. BatchInv'
  BY <1>2, <1>3 DEF BatchInv
<1>5. DrainedInv'
  BY <1>1, <1>2 DEF DrainedInv
<1>6. VoicesAgree' /\ OwedInv'
  BY <1>2 DEF VoiceInv, VoicesAgree, Future, Voice, OwedInv, DirtyOn
<1> QED
  BY <1>4, <1>5, <1>6 DEF VoiceInv

(* The events of the concatenation of two streams are theirs. *)
LEMMA ConcatElements ==
  ASSUME NEW S, NEW s \in Seq(S), NEW t \in Seq(S)
  PROVE  /\ \A i \in 1 .. Len(s) : i \in 1 .. Len(s \o t) /\ (s \o t)[i] = s[i]
         /\ \A i \in 1 .. Len(t) : Len(s) + i \in 1 .. Len(s \o t) /\ (s \o t)[Len(s) + i] = t[i]
         /\ \A i \in 1 .. Len(s \o t) :
              \/ i \in 1 .. Len(s) /\ (s \o t)[i] = s[i]
              \/ i - Len(s) \in 1 .. Len(t) /\ (s \o t)[i] = t[i - Len(s)]
<1> DEFINE m == Len(s)
           l == Len(t)
           u == s \o t
<1>1. /\ m \in Nat /\ l \in Nat /\ Len(u) = m + l
      /\ \A i \in 1 .. m + l : u[i] = IF i <= m THEN s[i] ELSE t[i - m]
  BY ConcatProperties, LenProperties
<1> HIDE DEF m, l, u
<1>2. \A i \in 1 .. m : i \in 1 .. Len(u) /\ u[i] = s[i]
  BY <1>1
<1>3. \A i \in 1 .. l : m + i \in 1 .. Len(u) /\ u[m + i] = t[i]
  <2> SUFFICES ASSUME NEW i \in 1 .. l PROVE m + i \in 1 .. Len(u) /\ u[m + i] = t[i]
    OBVIOUS
  <2>1. m + i \in 1 .. m + l /\ ~(m + i <= m) /\ (m + i) - m = i
    BY <1>1
  <2> QED
    BY <1>1, <2>1
<1>4. \A i \in 1 .. Len(u) : \/ i \in 1 .. m /\ u[i] = s[i]
                             \/ i - m \in 1 .. l /\ u[i] = t[i - m]
  BY <1>1
<1> QED
  BY <1>2, <1>3, <1>4 DEF m, l, u

(* The cleanup of a sink starts no note, stays on its channel and cleans it.*)
LEMMA SilenceMessagesClean ==
  ASSUME TypeOK, NEW s \in Names
  PROVE  /\ \A i \in 1 .. Len(SilenceMessages(s)) :
              /\ SilenceMessages(s)[i].kind # "NoteOn"
              /\ SilenceMessages(s)[i].channel = config[s].channel
         /\ \E i \in 1 .. Len(SilenceMessages(s)) :
              Cleans(SilenceMessages(s)[i], config[s].channel)
<1> DEFINE c == config[s].channel
           m1 == When(active_note[s] # None, NoteOff(c, active_note[s]))
           m2 == <<AllNotesOff(c), AllSoundOff(c)>>
<1>1. /\ m1 \in Seq(Message) /\ m2 \in Seq(Message) /\ Len(m2) = 2 /\ m2[1] = AllNotesOff(c)
      /\ \A i \in 1 .. Len(m1) : m1[i] = NoteOff(c, active_note[s])
      /\ \A i \in 1 .. Len(m2) : m2[i] \in {AllNotesOff(c), AllSoundOff(c)}
  <2>1. c \in Channels /\ active_note[s] \in Notes \cup {None}
    BY DEF TypeOK, SinksTyped, Config
  <2>2. NoteOff(c, active_note[s]) \in Message
    BY <2>1 DEF Message, Kinds, NoteOff
  <2>3. AllNotesOff(c) \in Message /\ AllSoundOff(c) \in Message
    BY <2>1, ControlTypes
  <2> QED
    BY <2>2, <2>3 DEF When
<1>2. SilenceMessages(s) = m1 \o m2
  BY DEF SilenceMessages
<1>3. /\ NoteOff(c, active_note[s]).kind = "NoteOff" /\ NoteOff(c, active_note[s]).channel = c
      /\ AllNotesOff(c).kind = "AllNotesOff" /\ AllNotesOff(c).channel = c
      /\ AllSoundOff(c).kind = "AllSoundOff" /\ AllSoundOff(c).channel = c
  BY DEF NoteOff, AllNotesOff, AllSoundOff
<1> HIDE DEF m1, m2
<1>4. /\ \A i \in 1 .. Len(m1) : m1[i].kind # "NoteOn" /\ m1[i].channel = c
      /\ \A i \in 1 .. Len(m2) : m2[i].kind # "NoteOn" /\ m2[i].channel = c
      /\ 1 \in 1 .. Len(m2) /\ Cleans(m2[1], c)
  BY <1>1, <1>3 DEF Cleans
<1> DEFINE u == m1 \o m2
<1>5. /\ \A i \in 1 .. Len(m2) : Len(m1) + i \in 1 .. Len(u) /\ u[Len(m1) + i] = m2[i]
      /\ \A i \in 1 .. Len(u) :
           \/ i \in 1 .. Len(m1) /\ u[i] = m1[i]
           \/ i - Len(m1) \in 1 .. Len(m2) /\ u[i] = m2[i - Len(m1)]
  <2>1. m1 \in Seq(Message) /\ m2 \in Seq(Message)
    BY <1>1
  <2> QED
    BY <2>1, ConcatElements
<1>6. SilenceMessages(s) = u
  BY <1>2
<1> HIDE DEF u
<1>7. ASSUME NEW i \in 1 .. Len(u)
      PROVE  u[i].kind # "NoteOn" /\ u[i].channel = c
  <2>1. CASE i \in 1 .. Len(m1) /\ u[i] = m1[i]
    BY <1>4, <2>1
  <2>2. CASE i - Len(m1) \in 1 .. Len(m2) /\ u[i] = m2[i - Len(m1)]
    BY <1>4, <2>2
  <2> QED
    BY <1>5, <2>1, <2>2
<1>8. \E i \in 1 .. Len(u) : Cleans(u[i], c)
  BY <1>4, <1>5, Zenon
<1> QED
  BY <1>6, <1>7, <1>8 DEF c

(* The collecting loop turns from channel to channel. *)
LEMMA CollectVoices ==
  ASSUME IInv, VoiceInv, SkipChannel \/ \E s \in sinks : CollectSink(s)
  PROVE  VoiceInv'
<1> USE DEF timeVars, sinkVars, bufferVars, sampleVars, callVars, hostVars
<1>1. /\ UNCHANGED <<sinks, config, active_note, dirty, events, heard, lost, abandoned, op, pc>>
      /\ pc = "collect" /\ cursor' = cursor + 1 /\ Selected' = Selected
  BY DEF SkipChannel, CollectSink, Selected
<1>2. DrainedInv' /\ VoicesAgree' /\ OwedInv'
  BY <1>1 DEF VoiceInv, DrainedInv, VoicesAgree, Future, Voice, OwedInv, DirtyOn
<1>3. /\ cursor \in Nat
      /\ \A s \in Selected : s \in sinks /\ s \in Names /\ config[s].channel \in Nat
  BY DEF IInv, TypeOK, OpTyped, SinksTyped, Config, Channels, Selected
<1>4. CASE SkipChannel
  <2>1. Collected' = Collected /\ batch' = batch
    BY <1>1, <1>3, <1>4 DEF SkipChannel, Collected
  <2> QED
    BY <1>1, <1>2, <2>1 DEF VoiceInv, BatchInv
<1>5. ASSUME NEW s \in sinks, CollectSink(s)
      PROVE  VoiceInv'
  <2> DEFINE m == SilenceMessages(s)
             b == Stamped(m, completed)
  <2>1. s \in Selected /\ config[s].channel = cursor /\ batch' = batch \o b
    BY <1>5 DEF CollectSink
  <2>2. Collected' = Collected \cup {s}
    <3>1. \A t \in Selected : config[t].channel = cursor => t = s
      BY <1>3, <2>1 DEF IInv, AccountInv
    <3> QED
      BY <1>1, <1>3, <2>1, <3>1 DEF Collected
  <2>3. m \in Seq(Message) /\ b \in Seq(Event) /\ Len(b) = Len(m)
    BY <1>3, <2>1, SilenceMessagesType, StampedType DEF IInv, TypeOK, TimeTyped
  <2>4. \A i \in 1 .. Len(b) : b[i].message = m[i]
    BY <2>3 DEF Stamped
  <2>5. /\ \A i \in 1 .. Len(b) : /\ b[i].message.kind # "NoteOn"
                                 /\ b[i].message.channel = config[s].channel
        /\ \E i \in 1 .. Len(b) : Cleans(b[i].message, config[s].channel)
    BY <1>3, <2>1, <2>3, <2>4, SilenceMessagesClean, SMTT(30) DEF IInv
  <2>6. batch \in Seq(Event)
    BY DEF IInv, TypeOK, OpTyped
  <2> DEFINE u == batch \o b
  <2> HIDE DEF m, b
  <2>10. /\ \A i \in 1 .. Len(batch) : i \in 1 .. Len(u) /\ u[i] = batch[i]
         /\ \A i \in 1 .. Len(b) : Len(batch) + i \in 1 .. Len(u) /\ u[Len(batch) + i] = b[i]
         /\ \A i \in 1 .. Len(u) :
              \/ i \in 1 .. Len(batch) /\ u[i] = batch[i]
              \/ i - Len(batch) \in 1 .. Len(b) /\ u[i] = b[i - Len(batch)]
    BY <2>3, <2>6, ConcatElements
  <2> HIDE DEF u
  <2>7. \A i \in 1 .. Len(u) :
          /\ u[i].message.kind # "NoteOn"
          /\ \E t \in Collected' : u[i].message.channel = config[t].channel
    <3> SUFFICES ASSUME NEW i \in 1 .. Len(u)
                 PROVE  /\ u[i].message.kind # "NoteOn"
                        /\ \E t \in Collected' : u[i].message.channel = config[t].channel
      OBVIOUS
    <3>1. CASE i \in 1 .. Len(batch) /\ u[i] = batch[i]
      <4>1. /\ batch[i].message.kind # "NoteOn"
            /\ \E t \in Collected : batch[i].message.channel = config[t].channel
        BY <1>1, <3>1 DEF VoiceInv, BatchInv
      <4> QED
        BY <2>2, <3>1, <4>1
    <3>2. CASE i - Len(batch) \in 1 .. Len(b) /\ u[i] = b[i - Len(batch)]
      BY <2>2, <2>5, <3>2
    <3> QED
      BY <2>10, <3>1, <3>2
  <2>8. ASSUME NEW t \in Collected'
        PROVE  \E i \in 1 .. Len(u) : Cleans(u[i].message, config[t].channel)
    <3>1. CASE t \in Collected
      <4>1. PICK i \in 1 .. Len(batch) : Cleans(batch[i].message, config[t].channel)
        BY <1>1, <3>1 DEF VoiceInv, BatchInv
      <4> QED
        BY <2>10, <4>1, Zenon
    <3>2. CASE t = s
      <4>1. PICK i \in 1 .. Len(b) : Cleans(b[i].message, config[t].channel)
        BY <2>5, <3>2
      <4> QED
        BY <2>10, <4>1, Zenon
    <3> QED
      BY <2>2, <3>1, <3>2
  <2>11. batch' = u
    BY <2>1 DEF u
  <2>9. BatchInv'
    BY <1>1, <2>7, <2>8, <2>11 DEF BatchInv
  <2> QED
    BY <1>2, <2>9 DEF VoiceInv
<1> QED
  BY <1>4, <1>5

(* Once every channel has been turned to, the batch cleans the channels it *)
(* retires and is inaudible on the others.                                 *)
LEMMA BatchEffect ==
  ASSUME IInv, VoiceInv, pc = "collect", cursor = NumChannels, NEW c \in Channels
  PROVE  /\ batch \in Seq(Event)
         /\ c \in Retired =>
              /\ \E i \in 1 .. Len(batch) : Cleans(batch[i].message, c)
              /\ \A i \in 1 .. Len(batch) : batch[i].message.kind # "NoteOn"
         /\ c \notin Retired => \A i \in 1 .. Len(batch) : Inaudible(batch[i].message, c)
<1>1. \A s \in Selected : config[s].channel \in 0 .. NumChannels - 1
  BY DEF IInv, TypeOK, SinksTyped, Config, Channels, Selected
<1>2. Collected = Selected
  BY <1>1, RackAssumption DEF Collected
<1>3. batch \in Seq(Event)
  BY DEF IInv, TypeOK, OpTyped
<1>4. /\ \A i \in 1 .. Len(batch) :
           /\ batch[i].message.kind # "NoteOn"
           /\ \E s \in Selected : batch[i].message.channel = config[s].channel
      /\ \A s \in Selected :
           \E i \in 1 .. Len(batch) : Cleans(batch[i].message, config[s].channel)
  BY <1>2 DEF VoiceInv, BatchInv
<1>5. ASSUME c \notin Retired, NEW i \in 1 .. Len(batch)
      PROVE  Inaudible(batch[i].message, c)
  <2>1. batch[i].message.channel # c
    BY <1>4, <1>5 DEF Retired
  <2> QED
    BY <2>1, ElsewhereInaudible
<1>6. c \in Retired => \E i \in 1 .. Len(batch) : Cleans(batch[i].message, c)
  BY <1>4 DEF Retired
<1> QED
  BY <1>3, <1>4, <1>5, <1>6

(* What sounds on a channel when the batch has been read after the buffer. *)
LEMMA BatchSounding ==
  ASSUME IInv, VoiceInv, pc = "collect", cursor = NumChannels, NEW c \in Channels
  PROVE  Sounding(heard[c], c, events \o batch) = IF c \in Retired THEN {} ELSE Future(c)
<1>1. events \in Seq(Event) /\ batch \in Seq(Event)
  BY BatchEffect DEF IInv, TypeOK, BufferTyped
<1>2. Sounding(heard[c], c, events \o batch) = Sounding(Future(c), c, batch)
  BY <1>1, SoundingConcat DEF Future
<1>3. Future(c) \in SUBSET Notes
  BY DEF Future, Sounding
<1>4. CASE c \in Retired
  <2>1. PICK i \in 1 .. Len(batch) : Cleans(batch[i].message, c)
    BY <1>4, BatchEffect
  <2>2. \A j \in 1 .. Len(batch) : batch[j].message.kind # "NoteOn"
    BY <1>4, BatchEffect
  <2>3. Sounding(Future(c), c, batch) = {}
    BY <1>1, <2>1, <2>2, SoundingCleaned
  <2> QED
    BY <1>2, <1>4, <2>3
<1>5. CASE c \notin Retired
  <2>1. \A i \in 1 .. Len(batch) : Inaudible(batch[i].message, c)
    BY <1>5, BatchEffect
  <2>2. Sounding(Future(c), c, batch) = Future(c)
    BY <1>1, <1>3, <2>1, SoundingUnheard
  <2> QED
    BY <1>2, <1>5, <2>2
<1> QED
  BY <1>4, <1>5

(* An operation ends: its batch follows the buffer, the retired sinks are  *)
(* silent and clean, those that stay keep their channel and their note.    *)
LEMMA BatchAppended ==
  ASSUME IInv, VoiceInv, pc = "collect", cursor = NumChannels, pc' = "idle",
         events' = events \o batch, heard' = heard,
         lost' = lost \ Retired, abandoned' = abandoned \ Retired,
         \A c \in Channels : Voice(c)' = IF c \in Retired THEN {} ELSE Voice(c),
         \A c \in Channels \ Retired : DirtyOn(c) => DirtyOn(c)'
  PROVE  VoiceInv'
<1>1. BatchInv' /\ DrainedInv'
  BY DEF BatchInv, DrainedInv
<1>2. VoicesAgree'
  <2> SUFFICES ASSUME NEW c \in Channels, c \notin lost' PROVE Future(c)' = Voice(c)'
    BY DEF VoicesAgree
  <2>1. Future(c)' = IF c \in Retired THEN {} ELSE Future(c)
    BY BatchSounding DEF Future
  <2>2. c \notin Retired => Future(c) = Voice(c)
    BY DEF VoiceInv, VoicesAgree
  <2> QED
    BY <2>1, <2>2
<1>3. OwedInv'
  <2> SUFFICES ASSUME NEW c \in Channels, c \notin abandoned'
               PROVE  Owes(heard[c], c, events \o batch, DirtyOn(c)')
    BY DEF OwedInv
  <2>1. events \in Seq(Event) /\ batch \in Seq(Event) /\ heard[c] \in SUBSET Notes
    BY BatchEffect DEF IInv, TypeOK, BufferTyped, HostTyped
  <2>2. CASE c \notin Retired
    <3>1. Owes(heard[c], c, events, DirtyOn(c))
      BY <2>2 DEF VoiceInv, OwedInv
    <3>2. DirtyOn(c) => DirtyOn(c)'
      BY <2>2
    <3>3. \A i \in 1 .. Len(batch) : Inaudible(batch[i].message, c)
      BY <2>2, BatchEffect
    <3> QED
      BY <2>1, <3>1, <3>2, <3>3, OwesAppended
  <2>3. CASE c \in Retired
    <3>1. /\ \E i \in 1 .. Len(batch) : Cleans(batch[i].message, c)
          /\ \A i \in 1 .. Len(batch) : batch[i].message.kind # "NoteOn"
      BY <2>3, BatchEffect
    <3>2. Owes(heard[c], c, events, TRUE)
      BY DEF Owes
    <3> QED
      BY <2>1, <3>1, <3>2, OwesAppended
  <2> QED
    BY <2>2, <2>3
<1> QED
  BY <1>1, <1>2, <1>3 DEF VoiceInv

(* A sink alone has a note on its channel; a sink with a note is dirty.    *)
LEMMA VoiceOfSink ==
  ASSUME IInv, NEW c \in Channels
  PROVE  /\ \A s \in sinks : config[s].channel = c => Voice(c) = {active_note[s]} \ {None}
         /\ (\A s \in sinks : config[s].channel # c) => Voice(c) = {}
         /\ ~DirtyOn(c) => Voice(c) = {}
<1>1. \A s \in sinks : config[s].channel = c => Voice(c) = {active_note[s]} \ {None}
  BY DEF Voice, IInv, AccountInv
<1>2. (\A s \in sinks : config[s].channel # c) => Voice(c) = {}
  BY DEF Voice
<1>3. ~DirtyOn(c) => Voice(c) = {}
  BY DEF Voice, DirtyOn, IInv, AccountInv, AccountingAgrees
<1> QED
  BY <1>1, <1>2, <1>3

(* reset() silences every dirty sink. *)
LEMMA ResetVoices == ASSUME IInv, VoiceInv, FinishReset PROVE VoiceInv'
<1>1. /\ pc = "collect" /\ cursor = NumChannels /\ pc' = "idle"
      /\ events' = events \o batch /\ heard' = heard
      /\ lost' = lost \ Retired /\ abandoned' = abandoned \ Retired
      /\ Selected = dirty /\ Retired = {config[s].channel : s \in dirty}
      /\ active_note' = [s \in Names |-> IF s \in dirty THEN None ELSE active_note[s]]
      /\ sinks' = sinks /\ config' = config
  BY DEF FinishReset, EndOp, Selected, Retired
<1>2. \A c \in Channels \ Retired : ~DirtyOn(c)
  BY <1>1 DEF DirtyOn
<1>3. ASSUME NEW c \in Channels
      PROVE  Voice(c)' = IF c \in Retired THEN {} ELSE Voice(c)
  <2>1. \A s \in sinks : s \in Names
    BY DEF IInv, TypeOK, SinksTyped
  <2>2. CASE c \in Retired
    <3>1. \A s \in sinks : config[s].channel = c => s \in dirty
      BY <1>1, <2>2 DEF IInv, AccountInv, TypeOK, SinksTyped
    <3> QED
      BY <1>1, <2>1, <2>2, <3>1 DEF Voice
  <2>3. CASE c \notin Retired
    <3>1. \A s \in sinks : config[s].channel = c => active_note'[s] = active_note[s]
      BY <1>1, <2>1, <2>3
    <3> QED
      <4>1. {t \in sinks' : config'[t].channel = c} = {t \in sinks : config[t].channel = c}
        BY <1>1
      <4>2. Voice(c)' = Voice(c)
        BY <3>1, <4>1, Zenon DEF Voice
      <4> QED
        BY <2>3, <4>2
  <2> QED
    BY <2>2, <2>3
<1> QED
  BY <1>1, <1>2, <1>3, BatchAppended

(* remove_module() silences the sink it takes away. *)
LEMMA RemoveVoices == ASSUME IInv, VoiceInv, FinishRemove PROVE VoiceInv'
<1> DEFINE name == op.name
<1>1. /\ pc = "collect" /\ cursor = NumChannels /\ pc' = "idle" /\ name \in sinks
      /\ events' = events \o batch /\ heard' = heard
      /\ lost' = lost \ Retired /\ abandoned' = abandoned \ Retired
      /\ Retired = {config[s].channel : s \in dirty \cap {name}}
      /\ sinks' = sinks \ {name} /\ dirty' = dirty \ {name}
      /\ active_note' = [active_note EXCEPT ![name] = None]
      /\ config' = [config EXCEPT ![name] = NoConfig]
  BY DEF FinishRemove, EndOp, Selected, Retired, IInv, ControlInv
<1>2. \A s \in sinks : s # name => active_note'[s] = active_note[s] /\ config'[s] = config[s]
  BY <1>1 DEF IInv, TypeOK, SinksTyped
<1>3. \A s \in sinks : config[s].channel = config[name].channel => s = name
  BY <1>1 DEF IInv, AccountInv
<1>4. dirty \subseteq sinks
  BY DEF IInv, TypeOK, SinksTyped
<1>5. ASSUME NEW c \in Channels, c \notin Retired, DirtyOn(c)
      PROVE  DirtyOn(c)'
  <2>1. PICK s \in dirty : config[s].channel = c
    BY <1>5 DEF DirtyOn
  <2>2. s # name
    BY <1>1, <1>5, <2>1
  <2> QED
    BY <1>1, <1>2, <1>4, <2>1, <2>2 DEF DirtyOn
<1>6. ASSUME NEW c \in Channels
      PROVE  Voice(c)' = IF c \in Retired THEN {} ELSE Voice(c)
  <2>1. CASE c = config[name].channel
    <3>1. \A s \in sinks' : config'[s].channel # c
      BY <1>1, <1>2, <1>3, <2>1
    <3>2. Voice(c)' = {}
      BY <3>1 DEF Voice
    <3>3. c \notin Retired => active_note[name] = None
      BY <1>1, <2>1 DEF IInv, AccountInv, AccountingAgrees
    <3>4. c \notin Retired => Voice(c) = {}
      BY <1>1, <2>1, <3>3, VoiceOfSink
    <3> QED
      BY <3>2, <3>4
  <2>2. CASE c # config[name].channel
    <3>1. c \notin Retired
      BY <1>1, <2>2
    <3>2. {t \in sinks' : config'[t].channel = c} = {t \in sinks : config[t].channel = c}
      BY <1>1, <1>2, <2>2
    <3>3. \A t \in {u \in sinks : config[u].channel = c} : active_note'[t] = active_note[t]
      BY <1>2, <2>2
    <3> QED
      BY <3>1, <3>2, <3>3 DEF Voice
  <2> QED
    BY <2>1, <2>2
<1> HIDE DEF name
<1> QED
  BY <1>1, <1>5, <1>6, BatchAppended

(* A new configuration follows the cleanup of the old one. *)
LEMMA CommitVoices ==
  ASSUME IInv, VoiceInv, FinishReplace \/ FinishUnload
  PROVE  VoiceInv'
<1>1. /\ pc = "collect" /\ cursor = NumChannels /\ pc' = "idle"
      /\ op.kind \in {"replace", "unload"}
      /\ events' = batch /\ heard' = heard
      /\ lost' = lost \ Retired /\ abandoned' = abandoned \ Retired
      /\ Retired = {config[s].channel : s \in dirty}
      /\ active_note' = [n \in Names |-> None]
      /\ sinks' \subseteq Names
  <2>1. op.patch.names \subseteq Names
    BY DEF IInv, TypeOK, OpTyped, Op, Patch
  <2> QED
    BY <2>1 DEF FinishReplace, FinishUnload, Commit, EndOp, Retired, Selected
<1>2. events' = events \o batch
  <2>1. events = <<>> /\ batch \in Seq(Event)
    BY <1>1 DEF VoiceInv, DrainedInv, IInv, TypeOK, OpTyped
  <2> QED
    BY <1>1, <2>1, ConcatEmptySeq
<1>3. \A c \in Channels \ Retired : ~DirtyOn(c)
  BY <1>1 DEF DirtyOn
<1>4. ASSUME NEW c \in Channels
      PROVE  Voice(c)' = IF c \in Retired THEN {} ELSE Voice(c)
  <2>1. Voice(c)' = {}
    BY <1>1 DEF Voice
  <2>2. c \notin Retired => Voice(c) = {}
    BY <1>3, VoiceOfSink
  <2> QED
    BY <2>1, <2>2
<1> QED
  BY <1>1, <1>2, <1>3, <1>4, BatchAppended

(* Stamping the messages of one sink after the other stamps them all. *)
LEMMA StampedConcat ==
  ASSUME TypeOK, NEW m \in Seq(Message), NEW n \in Seq(Message), NEW i \in Nat
  PROVE  Stamped(m \o n, i) = Stamped(m, i) \o Stamped(n, i)
<1> DEFINE u == m \o n
           a == Stamped(m, i)
           b == Stamped(n, i)
           v == a \o b
           w == Stamped(u, i)
<1>1. u \in Seq(Message)
  BY ConcatProperties
<1>2. /\ a \in Seq(Event) /\ Len(a) = Len(m) /\ b \in Seq(Event) /\ Len(b) = Len(n)
      /\ w \in Seq(Event) /\ Len(w) = Len(u)
  <2> HIDE DEF u
  <2> QED
    BY <1>1, StampedType
<1>3. /\ \A j \in 1 .. Len(m) : a[j] = [message |-> m[j], sample |-> i, life |-> life]
      /\ \A j \in 1 .. Len(n) : b[j] = [message |-> n[j], sample |-> i, life |-> life]
      /\ \A j \in 1 .. Len(u) : w[j] = [message |-> u[j], sample |-> i, life |-> life]
  <2> HIDE DEF u
  <2> QED
    BY DEF Stamped
<1> HIDE DEF a, b, w
<1>4. /\ Len(u) = Len(m) + Len(n)
      /\ \A j \in 1 .. Len(m) + Len(n) : u[j] = IF j <= Len(m) THEN m[j] ELSE n[j - Len(m)]
  BY ConcatProperties
<1>5. /\ v \in Seq(Event) /\ Len(v) = Len(m) + Len(n)
      /\ \A j \in 1 .. Len(m) + Len(n) : v[j] = IF j <= Len(m) THEN a[j] ELSE b[j - Len(m)]
  <2>1. /\ v \in Seq(Event) /\ Len(v) = Len(a) + Len(b)
        /\ \A j \in 1 .. Len(a) + Len(b) : v[j] = IF j <= Len(a) THEN a[j] ELSE b[j - Len(a)]
    BY <1>2, ConcatProperties
  <2> HIDE DEF v
  <2> QED
    BY <1>2, <2>1, Zenon
<1> HIDE DEF u, v
<1>6. Len(m) \in Nat /\ Len(n) \in Nat
  BY LenProperties
<1>7. ASSUME NEW j \in 1 .. Len(w) PROVE w[j] = v[j]
  <2>1. j \in 1 .. Len(m) + Len(n) /\ j \in 1 .. Len(u)
    BY <1>2, <1>4
  <2>2. CASE j <= Len(m)
    <3>1. j \in 1 .. Len(m)
      BY <1>6, <2>1, <2>2
    <3> QED
      BY <1>3, <1>4, <1>5, <2>1, <2>2, <3>1
  <2>3. CASE ~(j <= Len(m))
    <3>1. j - Len(m) \in 1 .. Len(n)
      BY <1>6, <2>1, <2>3
    <3> QED
      BY <1>3, <1>4, <1>5, <2>1, <2>3, <3>1
  <2> QED
    BY <2>2, <2>3
<1>8. w = v
  BY <1>2, <1>4, <1>5, <1>7, SeqEqual
<1> QED
  BY <1>8 DEF u, v, w, a, b

(* What one more message list adds on a channel. *)
LEMMA SoundingMore ==
  ASSUME TypeOK, NEW m \in Seq(Message), NEW n \in Seq(Message), NEW i \in Nat, NEW X, NEW c
  PROVE  /\ m \o n \in Seq(Message)
         /\ Sounding(X, c, Stamped(m \o n, i))
              = Sounding(Sounding(X, c, Stamped(m, i)), c, Stamped(n, i))
<1> DEFINE a == Stamped(m, i)
           b == Stamped(n, i)
<1>1. a \in Seq(Event) /\ b \in Seq(Event)
  BY StampedType
<1>2. Stamped(m \o n, i) = a \o b
  BY StampedConcat
<1>3. m \o n \in Seq(Message)
  BY ConcatProperties
<1> HIDE DEF a, b
<1>4. Sounding(X, c, a \o b) = Sounding(Sounding(X, c, a), c, b)
  BY <1>1, SoundingConcat
<1>5. Sounding(X, c, Stamped(m \o n, i)) = Sounding(Sounding(X, c, a), c, b)
  BY <1>2, <1>4, Zenon
<1> QED
  BY <1>3, <1>5 DEF a, b

(* A message alone ends a note, starts one or is inaudible; none is heard. *)
LEMMA SoundingOne ==
  ASSUME NEW m, NEW i, NEW X \in SUBSET Notes, NEW c
  PROVE  /\ Sounding(X, c, Stamped(<<m>>, i)) =
              {n \in X : ~Ends(m, c, n)} \cup {n \in Notes : Starts(m, c, n)}
         /\ Sounding(X, c, Stamped(<<>>, i)) = X
<1>1. Sounding(X, c, Stamped(<<m>>, i)) =
        {n \in X : ~Ends(m, c, n)} \cup {n \in Notes : Starts(m, c, n)}
  <2> DEFINE s == Stamped(<<m>>, i)
  <2>1. Len(s) = 1 /\ s[1].message = m
    BY DEF Stamped
  <2> HIDE DEF s
  <2>2. Sounding(X, c, s) = {n \in X : ~Ends(m, c, n)} \cup {n \in Notes : Starts(m, c, n)}
    BY <2>1 DEF Sounding
  <2> QED
    BY <2>2 DEF s
<1>2. Stamped(<<>>, i) = <<>>
  BY DEF Stamped
<1> QED
  BY <1>1, <1>2, SoundingNothing

(* What the messages of a sink make of the note it holds on its channel,   *)
(* and of the notes of the other channels.                                 *)
LEMMA SinkSounding ==
  ASSUME TypeOK, NEW s \in Names, NEW in \in Inputs, ~Invalid(s, in), NEW i \in Nat,
         NEW X \in SUBSET Notes, NEW c
  PROVE  /\ c # config[s].channel =>
              Sounding(X, c, Stamped(SinkMessages(s, in), i)) = X
         /\ c = config[s].channel /\ X = {active_note[s]} \ {None} =>
              Sounding(X, c, Stamped(SinkMessages(s, in), i)) = IF Plays(in) THEN {in.note} ELSE {}
<1> DEFINE d == config[s].channel
           off == NoteOff(d, active_note[s])
           on == NoteOn(d, in.note, PlayVelocity(in))
           b3 == "noise" \in config[s].routes
           b4 == "note" \in config[s].routes /\ in.note # None
           b5 == "velocity" \in config[s].routes /\ in.velocity # "absent"
           m1 == When(active_note[s] # None, off)
           m2 == When(Plays(in), on)
           m3 == When(b3, Control(d))
           m4 == When(b4, Control(d))
           m5 == When(b5, Control(d))
           After(m) == Sounding(X, c, Stamped(m, i))
<1>1. d \in Channels /\ active_note[s] \in Notes \cup {None} /\ Plays(in) \in BOOLEAN
  BY DEF TypeOK, SinksTyped, Config, Plays, Inputs
<1>2. /\ active_note[s] # None => off \in Message
      /\ Plays(in) => on \in Message /\ in.note \in Notes
      /\ Control(d) \in Message
  <2>1. Plays(in) => in.note \in Notes /\ PlayVelocity(in) \in {0, 1}
    BY DEF Plays, Inputs, Invalid, PlayVelocity
  <2> QED
    BY <1>1, <2>1, ControlTypes DEF Message, Kinds, NoteOff, NoteOn
<1>3. /\ \A n \in Notes : /\ ~Starts(off, c, n)
                          /\ Ends(off, c, n) <=> d = c /\ n = active_note[s]
      /\ \A n \in Notes : ~Starts(Control(d), c, n) /\ ~Ends(Control(d), c, n)
  BY DEF NoteOff, NoteOn, Control, Starts, Ends
<1>3a. ASSUME Plays(in), NEW n \in Notes
       PROVE  ~Ends(on, c, n) /\ (Starts(on, c, n) <=> (d = c /\ n = in.note))
  BY <1>3a DEF NoteOn, Starts, Ends, Plays, PlayVelocity
<1> HIDE DEF off, on, b3, b4, b5
<1>4. b3 \in BOOLEAN /\ b4 \in BOOLEAN /\ b5 \in BOOLEAN
  BY DEF b3, b4, b5
<1>5. /\ m1 \in Seq(Message) /\ m2 \in Seq(Message) /\ m3 \in Seq(Message)
      /\ m4 \in Seq(Message) /\ m5 \in Seq(Message)
  BY <1>1, <1>2, <1>4, WhenType
<1>6. \A Y \in SUBSET Notes :
        /\ Sounding(Y, c, Stamped(m3, i)) = Y
        /\ Sounding(Y, c, Stamped(m4, i)) = Y
        /\ Sounding(Y, c, Stamped(m5, i)) = Y
  <2>1. ASSUME NEW Y \in SUBSET Notes
        PROVE  /\ Sounding(Y, c, Stamped(<<Control(d)>>, i)) = Y
               /\ Sounding(Y, c, Stamped(<<>>, i)) = Y
    <3>1. /\ Sounding(Y, c, Stamped(<<Control(d)>>, i)) =
               {n \in Y : ~Ends(Control(d), c, n)} \cup {n \in Notes : Starts(Control(d), c, n)}
          /\ Sounding(Y, c, Stamped(<<>>, i)) = Y
      BY SoundingOne
    <3> QED
      BY <1>3, <3>1
  <2>2. {m3, m4, m5} \subseteq {<<Control(d)>>, <<>>}
    BY DEF When
  <2> HIDE DEF m3, m4, m5
  <2> QED
    BY <2>1, <2>2
<1>7. After(m1) = {n \in X : ~(active_note[s] # None /\ d = c /\ n = active_note[s])}
  <2>1. /\ Sounding(X, c, Stamped(<<off>>, i)) =
             {n \in X : ~Ends(off, c, n)} \cup {n \in Notes : Starts(off, c, n)}
        /\ Sounding(X, c, Stamped(<<>>, i)) = X
    BY SoundingOne
  <2>2. CASE active_note[s] # None
    <3>1. m1 = <<off>>
      BY <2>2 DEF When
    <3> HIDE DEF m1
    <3> QED
      BY <1>3, <2>1, <2>2, <3>1
  <2>3. CASE active_note[s] = None
    <3>1. m1 = <<>>
      BY <2>3 DEF When
    <3> HIDE DEF m1
    <3> QED
      BY <2>1, <2>3, <3>1
  <2> QED
    BY <2>2, <2>3
<1>8. ASSUME NEW Y \in SUBSET Notes
      PROVE  Sounding(Y, c, Stamped(m2, i)) = IF Plays(in) /\ d = c THEN Y \cup {in.note} ELSE Y
  <2>1. /\ Sounding(Y, c, Stamped(<<on>>, i)) =
             {n \in Y : ~Ends(on, c, n)} \cup {n \in Notes : Starts(on, c, n)}
        /\ Sounding(Y, c, Stamped(<<>>, i)) = Y
    BY SoundingOne
  <2>2. CASE Plays(in)
    <3>1. m2 = <<on>>
      BY <2>2 DEF When
    <3> HIDE DEF m2
    <3>2. /\ {n \in Y : ~Ends(on, c, n)} = Y
          /\ {n \in Notes : Starts(on, c, n)} = IF d = c THEN {in.note} ELSE {}
      <4>1. \A n \in Notes : ~Ends(on, c, n)
        BY <1>3a, <2>2
      <4>2. in.note \in Notes
        BY <1>2, <2>2
      <4>3. \A n \in Notes : Starts(on, c, n) <=> (d = c /\ n = in.note)
        BY <1>3a, <2>2
      <4> HIDE DEF d
      <4> QED
        BY <4>1, <4>2, <4>3
    <3> QED
      BY <2>1, <2>2, <3>1, <3>2, Zenon
  <2>3. CASE ~Plays(in)
    <3>1. m2 = <<>>
      BY <2>3 DEF When
    <3> HIDE DEF m2
    <3> QED
      BY <2>1, <2>3, <3>1
  <2> QED
    BY <2>2, <2>3
<1> HIDE DEF m1, m2, m3, m4, m5
<1> DEFINE m12 == m1 \o m2
           m13 == m12 \o m3
           m14 == m13 \o m4
           m15 == m14 \o m5
<1>9. m12 \in Seq(Message) /\ After(m12) = Sounding(After(m1), c, Stamped(m2, i))
  BY <1>5, SoundingMore
<1> HIDE DEF m12
<1>10. \A m \in Seq(Message) : After(m) \in SUBSET Notes
  BY DEF Sounding
<1>11. m13 \in Seq(Message) /\ After(m13) = After(m12)
  <2>1. m13 \in Seq(Message) /\ After(m13) = Sounding(After(m12), c, Stamped(m3, i))
    BY <1>5, <1>9, SoundingMore
  <2> HIDE DEF m13
  <2> QED
    BY <1>6, <1>9, <1>10, <2>1, Zenon
<1> HIDE DEF m13
<1>12. m14 \in Seq(Message) /\ After(m14) = After(m12)
  <2>1. m14 \in Seq(Message) /\ After(m14) = Sounding(After(m13), c, Stamped(m4, i))
    BY <1>5, <1>11, SoundingMore
  <2> HIDE DEF m14
  <2> QED
    BY <1>6, <1>10, <1>11, <2>1, Zenon
<1> HIDE DEF m14
<1>13. After(m15) = After(m12)
  <2>1. After(m15) = Sounding(After(m14), c, Stamped(m5, i))
    BY <1>5, <1>12, SoundingMore
  <2> HIDE DEF m15
  <2> QED
    BY <1>6, <1>10, <1>12, <2>1, Zenon
<1>14. SinkMessages(s, in) = m15
  BY DEF SinkMessages, m1, m2, m3, m4, m5, m12, m13, m14, b3, b4, b5, off, on
<1> HIDE DEF m15
<1>15. After(SinkMessages(s, in)) =
         IF Plays(in) /\ d = c THEN After(m1) \cup {in.note} ELSE After(m1)
  BY <1>5, <1>8, <1>9, <1>10, <1>13, <1>14, Zenon
<1>16. d # c => After(m1) = X
  BY <1>7
<1>17. d = c /\ X = {active_note[s]} \ {None} => After(m1) = {}
  BY <1>7
<1> HIDE DEF After
<1>18. /\ c # d => After(SinkMessages(s, in)) = X
       /\ c = d /\ X = {active_note[s]} \ {None} =>
            After(SinkMessages(s, in)) = IF Plays(in) THEN {in.note} ELSE {}
  BY <1>15, <1>16, <1>17
<1> QED
  BY <1>18 DEF After, d

(* All messages of a list are for channel d. *)
OnChannel(m, d) == \A j \in 1 .. Len(m) : m[j].channel = d

LEMMA OnChannelMore ==
  ASSUME NEW m \in Seq(Message), NEW d, OnChannel(m, d), NEW b \in BOOLEAN, NEW x,
         b => x \in Message /\ x.channel = d
  PROVE  m \o When(b, x) \in Seq(Message) /\ OnChannel(m \o When(b, x), d)
<1> DEFINE w == When(b, x)
           u == m \o w
<1>1. w \in Seq(Message) /\ \A j \in 1 .. Len(w) : w[j].channel = d
  BY DEF When
<1> HIDE DEF w
<1>2. u \in Seq(Message)
  BY <1>1, ConcatProperties
<1>3. \A j \in 1 .. Len(u) : \/ j \in 1 .. Len(m) /\ u[j] = m[j]
                             \/ j - Len(m) \in 1 .. Len(w) /\ u[j] = w[j - Len(m)]
  BY <1>1, ConcatElements
<1> HIDE DEF u
<1>4. ASSUME NEW j \in 1 .. Len(u) PROVE u[j].channel = d
  <2>1. CASE j \in 1 .. Len(m) /\ u[j] = m[j]
    BY <2>1 DEF OnChannel
  <2>2. CASE j - Len(m) \in 1 .. Len(w) /\ u[j] = w[j - Len(m)]
    BY <1>1, <2>2
  <2> QED
    BY <1>3, <2>1, <2>2
<1>5. OnChannel(u, d)
  BY <1>4 DEF OnChannel
<1> QED
  BY <1>2, <1>5 DEF u, w

(* A sink sends on its own channel only. *)
LEMMA SinkMessagesOnChannel ==
  ASSUME TypeOK, NEW s \in Names, NEW in \in Inputs, ~Invalid(s, in)
  PROVE  OnChannel(SinkMessages(s, in), config[s].channel)
<1> DEFINE d == config[s].channel
           off == NoteOff(d, active_note[s])
           on == NoteOn(d, in.note, PlayVelocity(in))
           b1 == active_note[s] # None
           b2 == Plays(in)
           b3 == "noise" \in config[s].routes
           b4 == "note" \in config[s].routes /\ in.note # None
           b5 == "velocity" \in config[s].routes /\ in.velocity # "absent"
           m1 == When(b1, off)
           m2 == m1 \o When(b2, on)
           m3 == m2 \o When(b3, Control(d))
           m4 == m3 \o When(b4, Control(d))
           m5 == m4 \o When(b5, Control(d))
<1>1. d \in Channels /\ active_note[s] \in Notes \cup {None}
  BY DEF TypeOK, SinksTyped, Config
<1>2. /\ b1 => off \in Message /\ off.channel = d
      /\ b2 => on \in Message /\ on.channel = d
      /\ Control(d) \in Message /\ Control(d).channel = d
  <2>1. Plays(in) => in.note \in Notes /\ PlayVelocity(in) \in {0, 1}
    BY DEF Plays, Inputs, Invalid, PlayVelocity
  <2> QED
    BY <1>1, <2>1, ControlTypes DEF Message, Kinds, NoteOff, NoteOn, Control
<1>3. /\ b1 \in BOOLEAN /\ b2 \in BOOLEAN /\ b3 \in BOOLEAN
      /\ b4 \in BOOLEAN /\ b5 \in BOOLEAN
  BY DEF Plays, Inputs
<1>4. SinkMessages(s, in) = m5
  BY DEF SinkMessages
<1> HIDE DEF off, on, b1, b2, b3, b4, b5, d
<1>5. m1 \in Seq(Message) /\ OnChannel(m1, d)
  BY <1>2, <1>3 DEF When, OnChannel
<1> HIDE DEF m1
<1>6. m2 \in Seq(Message) /\ OnChannel(m2, d)
  BY <1>2, <1>3, <1>5, OnChannelMore
<1> HIDE DEF m2
<1>7. m3 \in Seq(Message) /\ OnChannel(m3, d)
  BY <1>2, <1>3, <1>6, OnChannelMore
<1> HIDE DEF m3
<1>8. m4 \in Seq(Message) /\ OnChannel(m4, d)
  BY <1>2, <1>3, <1>7, OnChannelMore
<1> HIDE DEF m4
<1>9. OnChannel(m5, d)
  BY <1>2, <1>3, <1>8, OnChannelMore
<1> HIDE DEF m5
<1> QED
  BY <1>4, <1>9 DEF d

(* A sink plays: its channel is left with the note it now holds, and it is *)
(* dirty if it has said anything.                                          *)
LEMMA PlayVoices ==
  ASSUME IInv, VoiceInv, NEW s \in sinks, NEW in \in Inputs, PlaySink(s, in)
  PROVE  VoiceInv'
<1> DEFINE m == SinkMessages(s, in)
           b == Stamped(m, last_index)
           d == config[s].channel
<1>1. /\ pc = "consume" /\ pc' = pc /\ ~Invalid(s, in)
      /\ events' = events \o b /\ dirty' = DirtyAfter(s, in)
      /\ active_note' = [active_note EXCEPT ![s] = IF Plays(in) THEN in.note ELSE None]
      /\ UNCHANGED <<sinks, config, heard, lost, abandoned>>
  BY DEF PlaySink, NextSink, sinkVars, hostVars
<1>2. /\ TypeOK /\ s \in Names /\ last_index \in Nat /\ d \in Channels
      /\ active_note[s] \in Notes \cup {None} /\ dirty \subseteq sinks
      /\ events \in Seq(Event) /\ heard \in [Channels -> SUBSET Notes]
  BY <1>1 DEF IInv, ControlInv, TypeOK, SinksTyped, TimeTyped, BufferTyped, HostTyped, Config
<1>3. /\ m \in Seq(Message)
      /\ OnChannel(m, d)
      /\ b \in Seq(Event) /\ Len(b) = Len(m)
  <2>1. m \in Seq(Message) /\ OnChannel(m, d)
    BY <1>1, <1>2, SinkMessagesType, SinkMessagesOnChannel
  <2> HIDE DEF m
  <2>2. b \in Seq(Event) /\ Len(b) = Len(m)
    BY <1>2, <2>1, StampedType
  <2> QED
    BY <2>1, <2>2
<1>4. \A j \in 1 .. Len(b) : b[j].message.channel = d
  <2> HIDE DEF m, d
  <2>1. \A j \in 1 .. Len(m) : b[j].message = m[j]
    BY DEF Stamped
  <2> QED
    BY <1>3, <2>1 DEF OnChannel
<1>5. BatchInv' /\ DrainedInv'
  BY <1>1 DEF BatchInv, DrainedInv
<1>6. ASSUME NEW c \in Channels
      PROVE  /\ c # d => Voice(c)' = Voice(c)
             /\ c = d => /\ Voice(c) = {active_note[s]} \ {None}
                         /\ Voice(c)' = IF Plays(in) THEN {in.note} ELSE {}
  <2>1. \A t \in sinks : config[t].channel = d => t = s
    BY DEF IInv, AccountInv
  <2>2. /\ \A t \in sinks : t # s => active_note'[t] = active_note[t]
        /\ active_note'[s] = IF Plays(in) THEN in.note ELSE None
    BY <1>1, <1>2 DEF IInv, TypeOK, SinksTyped
  <2>3. CASE c # d
    <3>1. \A t \in {u \in sinks : config[u].channel = c} : active_note'[t] = active_note[t]
      BY <2>2, <2>3
    <3> QED
      BY <1>1, <2>3, <3>1 DEF Voice
  <2>4. CASE c = d
    <3>1. {t \in sinks : config[t].channel = c} = {s}
      BY <2>1, <2>4
    <3>2. Voice(c) = {active_note[s]} \ {None} /\ Voice(c)' = {active_note'[s]} \ {None}
      BY <1>1, <3>1 DEF Voice
    <3>3. Plays(in) => in.note # None
      BY DEF Plays
    <3> QED
      BY <2>2, <2>4, <3>2, <3>3
  <2> QED
    BY <2>3, <2>4
<1>7. VoicesAgree'
  <2> SUFFICES ASSUME NEW c \in Channels, c \notin lost' PROVE Future(c)' = Voice(c)'
    BY DEF VoicesAgree
  <2>1. Future(c) = Voice(c) /\ Future(c) \in SUBSET Notes
    BY <1>1 DEF VoiceInv, VoicesAgree, Future, Sounding
  <2>2. Future(c)' = Sounding(Future(c), c, b)
    <3>1. Future(c)' = Sounding(heard[c], c, events \o b)
      BY <1>1 DEF Future
    <3> HIDE DEF b
    <3>2. Sounding(heard[c], c, events \o b) = Sounding(Sounding(heard[c], c, events), c, b)
      BY <1>2, <1>3, SoundingConcat
    <3> QED
      BY <3>1, <3>2 DEF Future
  <2>3. /\ c # d => Sounding(Future(c), c, b) = Future(c)
        /\ c = d /\ Future(c) = {active_note[s]} \ {None} =>
             Sounding(Future(c), c, b) = IF Plays(in) THEN {in.note} ELSE {}
    BY <1>1, <1>2, <2>1, SinkSounding
  <2> HIDE DEF b, d
  <2> QED
    BY <1>6, <2>1, <2>2, <2>3
<1>8. OwedInv'
  <2> SUFFICES ASSUME NEW c \in Channels, c \notin abandoned
               PROVE  Owes(heard[c], c, events \o b, DirtyOn(c)')
    BY <1>1 DEF OwedInv
  <2>1. Owes(heard[c], c, events, DirtyOn(c)) /\ heard[c] \in SUBSET Notes
    BY <1>2 DEF VoiceInv, OwedInv
  <2>2. DirtyOn(c) => DirtyOn(c)'
    BY <1>1 DEF DirtyOn, DirtyAfter
  <2>3. CASE c # d
    <3>1. \A j \in 1 .. Len(b) : Inaudible(b[j].message, c)
      BY <1>4, <2>3, ElsewhereInaudible
    <3> HIDE DEF b
    <3> QED
      BY <1>2, <1>3, <2>1, <2>2, <3>1, OwesAppended
  <2>4. CASE c = d /\ m # <<>>
    <3>1. s \in dirty'
      BY <1>1, <2>4 DEF DirtyAfter
    <3>2. DirtyOn(c)'
      BY <1>1, <2>4, <3>1 DEF DirtyOn
    <3> HIDE DEF b
    <3> QED
      BY <1>2, <1>3, <2>1, <3>2, OwesAppended
  <2>5. CASE m = <<>>
    <3>1. Len(b) = 0
      BY <1>3, <2>5, EmptySeq
    <3> HIDE DEF b
    <3>2. \A j \in 1 .. Len(b) : Inaudible(b[j].message, c)
      BY <3>1
    <3> QED
      BY <1>2, <1>3, <2>1, <2>2, <3>2, OwesAppended
  <2> QED
    BY <2>3, <2>4, <2>5
<1> QED
  BY <1>5, <1>7, <1>8 DEF VoiceInv

(* drain_midi() reads a part of the buffer and drops the rest. *)
LEMMA DrainVoices ==
  ASSUME IInv, VoiceInv, NEW k \in 0 .. Len(events), DrainMidi(k)
  PROVE  VoiceInv'
<1> DEFINE taken == SubSeq(events, 1, k)
           rest == SubSeq(events, k + 1, Len(events))
           dropped == {events[i].message : i \in (k + 1) .. Len(events)}
<1>1. /\ pc' = "idle" /\ events' = <<>>
      /\ heard' = [c \in Channels |-> Sounding(heard[c], c, taken)]
      /\ lost' = lost \cup {m.channel : m \in dropped}
      /\ abandoned' = abandoned \cup
           {m.channel : m \in {x \in dropped : x.kind \in {"AllNotesOff", "AllSoundOff"}}}
      /\ UNCHANGED <<sinks, config, active_note, dirty>>
  BY DEF DrainMidi, sinkVars
<1>2. /\ events \in Seq(Event) /\ Len(events) \in Nat
      /\ \A c \in Channels : heard[c] \in SUBSET Notes
  BY LenProperties DEF IInv, TypeOK, BufferTyped, HostTyped
<1>3. /\ taken \in Seq(Event) /\ rest \in Seq(Event)
      /\ Len(rest) = Len(events) - k
      /\ \A i \in 1 .. Len(events) - k : rest[i] = events[k + i]
      /\ events = taken \o rest
  BY <1>2, PrefixSplit
<1> HIDE DEF taken, rest
<1>4. BatchInv' /\ DrainedInv'
  BY <1>1 DEF BatchInv, DrainedInv
<1>5. ASSUME NEW c \in Channels
      PROVE  /\ heard'[c] = Sounding(heard[c], c, taken)
             /\ heard'[c] \in SUBSET Notes
             /\ Future(c)' = heard'[c]
  <2>1. heard'[c] = Sounding(heard[c], c, taken) /\ heard'[c] \in SUBSET Notes
    BY <1>1 DEF Sounding
  <2>2. Sounding(heard'[c], c, <<>>) = heard'[c]
    BY <2>1, SoundingNothing
  <2> QED
    BY <1>1, <2>1, <2>2 DEF Future
<1>6. VoicesAgree'
  <2> SUFFICES ASSUME NEW c \in Channels, c \notin lost' PROVE Future(c)' = Voice(c)'
    BY DEF VoicesAgree
  <2>1. \A i \in (k + 1) .. Len(events) : events[i].message.channel # c
    BY <1>1
  <2>2. \A i \in 1 .. Len(rest) : Inaudible(rest[i].message, c)
    <3> SUFFICES ASSUME NEW i \in 1 .. Len(rest) PROVE Inaudible(rest[i].message, c)
      OBVIOUS
    <3>1. k + i \in (k + 1) .. Len(events) /\ rest[i] = events[k + i]
      BY <1>2, <1>3
    <3>2. rest[i].message.channel # c
      BY <2>1, <3>1
    <3> QED
      BY <3>2, ElsewhereInaudible
  <2>3. Sounding(heard'[c], c, rest) = heard'[c]
    BY <1>3, <1>5, <2>2, SoundingUnheard
  <2>4. Sounding(heard[c], c, taken \o rest) = Sounding(Sounding(heard[c], c, taken), c, rest)
    BY <1>3, SoundingConcat
  <2>5. Future(c) = heard'[c]
    BY <1>3, <1>5, <2>3, <2>4, Zenon DEF Future
  <2>6. Future(c) = Voice(c) /\ Voice(c)' = Voice(c)
    BY <1>1 DEF VoiceInv, VoicesAgree, Voice
  <2> QED
    BY <1>5, <2>5, <2>6
<1>7. OwedInv'
  <2> SUFFICES ASSUME NEW c \in Channels, c \notin abandoned'
               PROVE  Owes(heard'[c], c, <<>>, DirtyOn(c))
    BY <1>1 DEF OwedInv, DirtyOn
  <2>1. SubSeq(<<>>, 1, 0) = <<>> /\ Len(<<>>) = 0
    OBVIOUS
  <2>2. Sounding(heard'[c], c, <<>>) = heard'[c]
    BY <1>5, SoundingNothing
  <2>3. heard'[c] # {} => DirtyOn(c)
    <3> SUFFICES ASSUME heard'[c] # {} PROVE DirtyOn(c)
      OBVIOUS
    <3>1. \/ DirtyOn(c)
          \/ \E i \in (k + 1) .. Len(events) : Cleans(events[i].message, c)
      BY <1>1, <1>5 DEF VoiceInv, OwedInv, Owes, taken
    <3>2. ASSUME NEW i \in (k + 1) .. Len(events), Cleans(events[i].message, c)
          PROVE  FALSE
      <4>1. events[i].message \in {x \in dropped : x.kind \in {"AllNotesOff", "AllSoundOff"}}
        BY <3>2 DEF Cleans
      <4>2. c \in abandoned'
        BY <1>1, <3>2, <4>1 DEF Cleans
      <4> QED
        BY <4>2
    <3> QED
      BY <3>1, <3>2
  <2> SUFFICES ASSUME NEW j \in 0 .. Len(<<>>),
                      Sounding(heard'[c], c, SubSeq(<<>>, 1, j)) # {}
               PROVE  DirtyOn(c)
    BY DEF Owes
  <2>4. j = 0
    BY <2>1
  <2> QED
    BY <2>1, <2>2, <2>3, <2>4
<1> QED
  BY <1>4, <1>6, <1>7 DEF VoiceInv

(* A new rack is silent and its buffer empty. *)
LEMMA VoicesAtFirst == Init => VoiceInv
<1> SUFFICES ASSUME Init PROVE VoiceInv
  OBVIOUS
<1>1. /\ pc = "idle" /\ events = <<>> /\ sinks = {}
      /\ heard = [c \in Channels |-> {}]
  BY DEF Init
<1>2. \A c \in Channels : Sounding(heard[c], c, <<>>) = {}
  BY <1>1, SoundingNothing
<1>3. BatchInv /\ DrainedInv
  BY <1>1 DEF BatchInv, DrainedInv
<1>4. VoicesAgree
  BY <1>1, <1>2 DEF VoicesAgree, Future, Voice
<1>5. OwedInv
  <2> SUFFICES ASSUME NEW c \in Channels, NEW j \in 0 .. Len(<<>>)
               PROVE  Sounding(heard[c], c, SubSeq(<<>>, 1, j)) = {}
    BY <1>1 DEF OwedInv, Owes
  <2>1. SubSeq(<<>>, 1, 0) = <<>> /\ Len(<<>>) = 0
    OBVIOUS
  <2>2. j = 0
    BY <2>1
  <2> QED
    BY <1>2, <2>1, <2>2
<1> QED
  BY <1>3, <1>4, <1>5 DEF VoiceInv

(* Every step keeps the voices. *)
LEMMA VoicesInEveryStep == IInv /\ VoiceInv /\ [Next]_vars => VoiceInv'
<1> SUFFICES ASSUME IInv, VoiceInv, [Next]_vars PROVE VoiceInv'
  OBVIOUS
<1>1. CASE Start \/ Stop \/ SharedStop \/ \E d \in Drivers : SetDriverMode(d)
  BY <1>1, QuietVoices
<1>2. CASE \/ \E n \in 1 .. MaxRequest : AdvanceSamples(n) \/ StepLive(n)
           \/ RefuseSample \/ EndCall \/ BeginSample \/ FinishSample
  BY <1>2, QuietVoices
<1>3. ASSUME NEW s \in sinks, NEW in \in Inputs, SkipSink(s) \/ FailSink(s, in)
      PROVE  VoiceInv'
  BY <1>3, QuietVoices
<1>4. ASSUME NEW s \in sinks, NEW in \in Inputs, PlaySink(s, in)
      PROVE  VoiceInv'
  BY <1>4, PlayVoices
<1>5. CASE \/ Reset \/ Restart \/ UnloadPatch
           \/ \E n \in Names : RemoveModule(n)
           \/ \E p \in Patches : LoadPatch(p)
  BY <1>5, BeginOpVoices
<1>6. CASE SkipChannel \/ \E s \in sinks : CollectSink(s)
  BY <1>6, CollectVoices
<1>7. CASE FinishReset
  BY <1>7, ResetVoices
<1>8. CASE FinishRemove
  BY <1>8, RemoveVoices
<1>9. CASE FinishReplace \/ FinishUnload
  BY <1>9, CommitVoices
<1>10. ASSUME NEW k \in 0 .. Len(events), DrainMidi(k)
       PROVE  VoiceInv'
  BY <1>10, DrainVoices
<1>11. CASE UNCHANGED vars
  BY <1>11, QuietVoices
<1>12. \E in \in Inputs : TRUE
  <2>1. [gate |-> FALSE, note |-> None, velocity |-> "zero", noise |-> "ok"] \in Inputs
    BY DEF Inputs
  <2> QED
    BY <2>1
<1>13. SampleStep => VoiceInv'
  BY <1>1, <1>2, <1>3, <1>4, <1>12, Zenon DEF SampleStep
<1>14. OpStep => VoiceInv'
  BY <1>6, <1>7, <1>8, <1>9, Zenon DEF OpStep
<1> QED
  BY <1>1, <1>2, <1>5, <1>10, <1>11, <1>13, <1>14, Zenon DEF Next

(* No stuck and no stolen note, for every set of sinks, channels, notes    *)
(* and patches: once the buffer has been read, a channel of which the host *)
(* has discarded nothing since its last cleanup sounds exactly the note    *)
(* its sink holds.                                                         *)
THEOREM VoicesAlwaysAgree == Spec => []VoicesAgree
<1>1. VoiceInv => VoicesAgree
  BY DEF VoiceInv
<1> QED
  BY <1>1, Invariant, VoicesAtFirst, VoicesInEveryStep, PTL DEF Spec

(* A note that a discarded message leaves behind is never out of reach: its*)
(* sink is dirty, so the next reset, removal or replacement silences it,   *)
(* unless the host has discarded the cleanup itself.                       *)
THEOREM VoicesAlwaysRecoverable == Spec => []VoicesRecoverable
<1>1. IInv /\ VoiceInv => VoicesRecoverable
  <2> SUFFICES ASSUME IInv, VoiceInv, NEW c \in Channels, c \notin abandoned, Future(c) # {}
               PROVE  \E s \in dirty : config[s].channel = c
    BY DEF VoicesRecoverable
  <2>1. events \in Seq(Event) /\ Len(events) \in Nat
    BY LenProperties DEF IInv, TypeOK, BufferTyped
  <2>2. SubSeq(events, 1, Len(events)) = events
    BY <2>1, SubSeqFull
  <2>3. Owes(heard[c], c, events, DirtyOn(c))
    BY DEF VoiceInv, OwedInv
  <2>4. Len(events) \in 0 .. Len(events) /\ (Len(events) + 1) .. Len(events) = {}
    BY <2>1
  <2>5. DirtyOn(c)
    BY <2>2, <2>3, <2>4 DEF Owes, Future
  <2> QED
    BY <2>5 DEF DirtyOn
<1> QED
  BY <1>1, Invariant, VoicesAtFirst, VoicesInEveryStep, PTL DEF Spec
=============================================================================
