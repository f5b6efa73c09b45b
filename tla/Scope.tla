------------------------------- MODULE Scope -------------------------------
(***************************************************************************)
(* Scope capture: a bounded FIFO that takes the selected ports' values in  *)
(* the Observe phase of every sample and the MIDI events the host copies   *)
(* into it.  It lives in the App and holds port entities, so it must not   *)
(* survive the modules they belong to.                                     *)
(***************************************************************************)
EXTENDS Integers, Sequences

CONSTANTS
  Names,          \* module instance names, every one with the same ports
  Scalars,        \* ports of a kind a scope records
  Others,         \* ports of a kind it refuses (Midi)
  Capacities,     \* record capacities the host asks for, zero among them
  MaxSelectors,   \* selectors of one request: a bound
  MaxSamples,     \* samples of one lifetime: a bound
  MaxLives,       \* configurations after the first: a bound
  None

ASSUME ScopeAssumption ==
  /\ Scalars \cap Others = {}
  /\ Capacities \subseteq Nat
  /\ \A L \in SUBSET Names : L # None
  /\ MaxSelectors \in Nat /\ MaxSamples \in Nat /\ MaxLives \in Nat

VARIABLES
  loaded,      \* the names in PatchHandle, or None
  life,        \* which App this is
  running,     \* SimulationRunning
  completed,   \* SampleTime::completed_samples
  pending,     \* the sample whose MIDI event is in the output buffer, or None
  copies,      \* samples of the drained events the host may still copy in
  scope,       \* ScopeCapture, or None
  log          \* history: every record pushed since configuration or clear

worldVars == <<loaded, life>>
timeVars == <<running, completed>>
midiVars == <<pending, copies>>
captureVars == <<scope, log>>
vars == <<worldVars, timeVars, midiVars, captureVars>>

Ports == Scalars \cup Others
Selector == Names \X Ports
Selections == UNION {[1 .. n -> Selector] : n \in 0 .. MaxSelectors}
Live == IF loaded = None THEN {} ELSE loaded

Signal(sample, i) == [record |-> "signal", sample |-> sample, selection |-> i]
Midi(sample) == [record |-> "midi", sample |-> sample, selection |-> 0]

(* A port entity: the port of a module of one App. *)
PortEntity(selector) == <<life, selector>>
Alive(entity) == entity[1] = life /\ entity[2][1] \in Live

Init ==
  /\ loaded = None /\ life = 0
  /\ running = FALSE /\ completed = 0
  /\ pending = None /\ copies = {}
  /\ scope = None /\ log = <<>>
-----------------------------------------------------------------------------
(* configure: the checks come in this order, and a refused request leaves  *)
(* an earlier capture alone.                                               *)
Distinct(selectors) ==
  \A i, j \in DOMAIN selectors : selectors[i] = selectors[j] => i = j
Selectable(selectors) ==
  \A i \in DOMAIN selectors : selectors[i][1] \in Live /\ selectors[i][2] \in Scalars

Configurable(selectors, capacity) ==
  /\ ~running
  /\ capacity # 0
  /\ loaded # None
  /\ Distinct(selectors) /\ Selectable(selectors)

Configure(selectors, capacity) ==
  /\ Configurable(selectors, capacity)
  /\ scope' = [capacity |-> capacity, overwritten |-> 0, selectors |-> selectors,
               bindings |-> [i \in DOMAIN selectors |-> PortEntity(selectors[i])],
               records |-> <<>>]
  /\ log' = <<>>
  /\ UNCHANGED <<worldVars, timeVars, midiVars>>

Clear ==
  /\ scope # None
  /\ scope' = [scope EXCEPT !.records = <<>>, !.overwritten = 0]
  /\ log' = <<>>
  /\ UNCHANGED <<worldVars, timeVars, midiVars>>

Disable ==
  /\ scope # None
  /\ scope' = None /\ log' = <<>>
  /\ UNCHANGED <<worldVars, timeVars, midiVars>>

\* Mutant: room is made only once the capture is beyond its capacity.
PushedLate(s, record) ==
  IF Len(s.records) > s.capacity
  THEN [s EXCEPT !.records = Append(Tail(s.records), record), !.overwritten = @ + 1]
  ELSE [s EXCEPT !.records = Append(s.records, record)]
(* push: the oldest record makes room. *)
Pushed(s, record) ==
  IF Len(s.records) = s.capacity
  THEN [s EXCEPT !.records = Append(Tail(s.records), record), !.overwritten = @ + 1]
  ELSE [s EXCEPT !.records = Append(s.records, record)]

(* observe_scope: the ports bound before selection i, pushed in order.     *)
Observed(sample) ==
  LET after[i \in 0 .. Len(scope.bindings)] ==
        IF i = 0 THEN scope ELSE Pushed(after[i - 1], Signal(sample, i))
  IN  after[Len(scope.bindings)]

SignalsOf(sample) == [i \in DOMAIN scope.bindings |-> Signal(sample, i)]

Observe(sample) ==
  IF scope = None
  THEN UNCHANGED captureVars
  ELSE /\ scope' = Observed(sample)
       /\ log' = log \o SignalsOf(sample)

\* Mutant: Observe is outside the sample gate.
GateOpen == TRUE
(* sample_is_running, latched by begin_sample_system. *)
Gate == running

(* One run of FixedUpdate: with the gate open, Consume may leave an event, *)
(* Observe records, and the sample is finalized; with it closed, nothing   *)
(* happens.  The facade admits a sample only with the output drained.      *)
FixedUpdate ==
  /\ pending = None
  /\ completed < MaxSamples
  /\ IF Gate THEN Observe(completed) ELSE UNCHANGED captureVars
  /\ IF running
     THEN completed' = completed + 1 /\ pending' \in {None, completed}
     ELSE UNCHANGED <<completed, pending>>
  /\ UNCHANGED <<worldVars, running, copies>>

DrainMidi ==
  /\ pending # None
  /\ pending' = None
  /\ copies' = copies \cup {pending}
  /\ UNCHANGED <<worldVars, timeVars, captureVars>>

RecordMidi(sample) ==
  /\ copies' = copies \ {sample}
  /\ IF scope = None
     THEN UNCHANGED captureVars
     ELSE /\ scope' = Pushed(scope, Midi(sample))
          /\ log' = Append(log, Midi(sample))
  /\ UNCHANGED <<worldVars, timeVars, pending>>
-----------------------------------------------------------------------------
Start ==
  /\ ~running
  /\ running' = TRUE
  /\ UNCHANGED <<worldVars, completed, midiVars, captureVars>>

Stop ==
  /\ running
  /\ running' = FALSE
  /\ UNCHANGED <<worldVars, completed, midiVars, captureVars>>

StoppedAndDrained == ~running /\ pending = None

(* The cleanup of a voice is stamped with the last sample of its lifetime  *)
(* and stays drainable in the next.                                        *)
Cleanup == {None} \cup {s \in {completed - 1} : s >= 0}

\* Mutant: only the first selector is looked at.
SelectedFirst(n) == scope # None /\ scope.selectors # <<>> /\ scope.selectors[1][1] = n
Selected(n) == scope # None /\ \E i \in DOMAIN scope.selectors : scope.selectors[i][1] = n

(* remove_module: a capture that selects the module is disabled first.     *)
RemoveModule(n) ==
  /\ StoppedAndDrained
  /\ n \in Live
  /\ IF Selected(n) THEN scope' = None /\ log' = <<>> ELSE UNCHANGED captureVars
  /\ loaded' = loaded \ {n}
  /\ pending' \in Cleanup
  /\ UNCHANGED <<life, timeVars, copies>>

(* A load, restart or unload: a new App, without a capture, at sample zero.*)
\* Mutant: the capture is carried over into the new App.
ReplaceKeeping ==
  /\ StoppedAndDrained
  /\ life < MaxLives
  /\ loaded' \in {None} \cup SUBSET Names
  /\ life' = life + 1
  /\ running' = FALSE /\ completed' = 0
  /\ pending' \in Cleanup
  /\ UNCHANGED <<copies, captureVars>>

Replace ==
  /\ StoppedAndDrained
  /\ life < MaxLives
  /\ loaded' \in {None} \cup SUBSET Names
  /\ life' = life + 1
  /\ running' = FALSE /\ completed' = 0
  /\ scope' = None /\ log' = <<>>
  /\ pending' \in Cleanup
  /\ UNCHANGED copies

Next ==
  \/ \E s \in Selections, c \in Capacities : Configure(s, c)
  \/ Clear \/ Disable
  \/ FixedUpdate \/ DrainMidi
  \/ \E s \in copies : RecordMidi(s)
  \/ Start \/ Stop
  \/ \E n \in Names : RemoveModule(n)
  \/ Replace

Spec == Init /\ [][Next]_vars
-----------------------------------------------------------------------------
Record == [record : {"signal", "midi"}, sample : Nat, selection : 0 .. MaxSelectors]

TypeOK ==
  /\ loaded = None \/ loaded \subseteq Names
  /\ life \in 0 .. MaxLives
  /\ running \in BOOLEAN
  /\ completed \in Nat
  /\ pending = None \/ pending \in Nat
  /\ copies \subseteq Nat
  /\ log \in Seq(Record)
  /\ scope # None =>
       /\ scope.capacity \in Capacities \ {0}
       /\ scope.overwritten \in Nat
       /\ scope.selectors \in Selections
       /\ DOMAIN scope.bindings = DOMAIN scope.selectors
       /\ scope.records \in Seq(Record)

(* A capture holds exactly the newest records, in the order they came, and *)
(* overwritten counts all it has let go (ScopeCapture::push, clear).       *)
NewestKept ==
  scope # None =>
    /\ scope.overwritten + Len(scope.records) = Len(log)
    /\ scope.overwritten > 0 => Len(scope.records) = scope.capacity
    /\ Len(scope.records) <= scope.capacity
    /\ scope.records = SubSeq(log, scope.overwritten + 1, Len(log))

(* Every port a capture is bound to is alive and is the one its selector   *)
(* names, so observe_scope never meets a port that has disappeared and     *)
(* never records another instance's port under the old label.              *)
NoPortDisappears ==
  scope # None =>
    \A i \in DOMAIN scope.bindings :
      /\ Alive(scope.bindings[i])
      /\ scope.bindings[i][2] = scope.selectors[i]

(* Signal records with nothing but MIDI records between them. *)
NextSignal(i, j) ==
  /\ i < j
  /\ log[i].record = "signal" /\ log[j].record = "signal"
  /\ \A k \in i + 1 .. j - 1 : log[k].record = "midi"

(* Between the records of its signals a capture misses no sample and       *)
(* repeats none: after a sample's last selection comes the first of the    *)
(* next sample, whatever was stopped, started or copied in between         *)
(* (observe_scope behind the sample gate).                                 *)
EverySampleOnce ==
  scope # None =>
    \A i, j \in DOMAIN log : NextSignal(i, j) =>
      IF log[i].selection = Len(scope.selectors)
      THEN log[j].selection = 1 /\ log[j].sample = log[i].sample + 1
      ELSE log[j].selection = log[i].selection + 1 /\ log[j].sample = log[i].sample
=============================================================================
