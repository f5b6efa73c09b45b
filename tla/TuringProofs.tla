---------------------------- MODULE TuringProofs ----------------------------
(***************************************************************************)
(* A full write knob locks the loop, the probability in force is the knob  *)
(* and the held modulation, what is published is the latest step, and no   *)
(* sample or restart changes a setting: for registers of every width,      *)
(* loops of every length and any parameters.  Behind a MIDI port of its    *)
(* own the engine keeps one voice.                                         *)
(***************************************************************************)
EXTENDS MCTuring, WellFoundedInduction, TLAPS

(* The first k places repeat the place a loop length further on.           *)
Repeats(register, len, k) ==
  \A i \in Places : i < k /\ i + len < Width => register[i] = register[i + len]

(* The engine and its knob are typed, the loop repeats as far as it was    *)
(* locked, and the probability is in force.                                *)
LoopInv == TypeOK /\ LoopRepeats /\ WriteIsEffective
-----------------------------------------------------------------------------
(* LengthSelector: every position has a length that the register holds.    *)
LEMMA LengthInRegister ==
  ASSUME NEW e \in Engine
  PROVE  LengthOf(e) \in 2 .. Width
  BY EngineAssumption DEF Engine, LengthOf, Positions

(* A set of naturals that is not empty has a least element.                *)
LEMMA LeastNatural ==
  ASSUME NEW T, T \subseteq Nat, T # {}
  PROVE  \E x \in T : \A y \in T : x <= y
  <1>1. PICK x \in T : \A y \in T : ~ (<<y, x>> \in OpToRel(<, Nat))
    BY NatLessThanWellFounded, WFMin
  <1>2. \A y \in T : ~ (y < x)
    BY <1>1 DEF OpToRel
  <1> QED BY <1>2

(* LengthSelector::set_length finds a position for every length asked for, *)
(* and none is nearer.                                                     *)
LEMMA NearestIsPosition ==
  ASSUME NEW len \in Nat
  PROVE  /\ NearestPosition(len) \in Positions
         /\ \A j \in Positions :
              LET Distance(i) == IF Lengths[i] > len THEN Lengths[i] - len ELSE len - Lengths[i]
              IN  Distance(NearestPosition(len)) <= Distance(j)
<1> DEFINE Distance(i) == IF Lengths[i] > len THEN Lengths[i] - len ELSE len - Lengths[i]
           Nearest(i) == \A j \in Positions :
             Distance(i) < Distance(j) \/ (Distance(i) = Distance(j) /\ i <= j)
<1>1. \A j \in Positions : Lengths[j] \in Nat
  BY EngineAssumption DEF Positions
<1>2. Positions \subseteq Nat /\ \A j \in Positions : Distance(j) \in Nat
  BY <1>1 DEF Positions
<1>3. NearestPosition(len) = CHOOSE i \in Positions : Nearest(i)
  BY DEF NearestPosition
<1> HIDE DEF Distance
<1> DEFINE D == {Distance(j) : j \in Positions}
<1>4. PICK d \in D : \A x \in D : d <= x
  <2>1. D \subseteq Nat
    BY <1>2
  <2>2. D # {}
    BY EngineAssumption DEF Positions
  <2> HIDE DEF D
  <2> QED BY <2>1, <2>2, LeastNatural
<1> DEFINE I == {j \in Positions : Distance(j) = d}
<1>5. PICK i \in I : \A j \in I : i <= j
  <2>1. I \subseteq Nat
    BY <1>2
  <2>2. I # {}
    BY <1>4
  <2> HIDE DEF I
  <2> QED BY <2>1, <2>2, LeastNatural
<1>6. i \in Positions /\ Nearest(i)
  BY <1>2, <1>4, <1>5
<1>7. NearestPosition(len) \in Positions /\ Nearest(NearestPosition(len))
  BY <1>3, <1>6
<1>8. \A j \in Positions : Distance(NearestPosition(len)) <= Distance(j)
  BY <1>2, <1>7
<1> QED BY <1>7, <1>8 DEF Distance

(* ShiftRegister::clock keeps the register a register.                     *)
LEMMA ClockedIsRegister ==
  ASSUME NEW register \in Registers, NEW bit \in Bits
  PROVE  Clocked(register, bit) \in Registers
  BY EngineAssumption DEF Registers, Clocked, Places

(* The knob lets in bits only.                                             *)
LEMMA NextBitsAreBits ==
  ASSUME NEW e \in Engine
  PROVE  NextBits(e) \subseteq Bits
<1>1. LengthOf(e) - 1 \in Places
  BY LengthInRegister, EngineAssumption DEF Places
<1>2. Feedback(e.register, LengthOf(e)) \in Bits
  BY <1>1 DEF Feedback, Engine, Registers
<1> QED BY <1>2 DEF NextBits, Resolved

(* Registers and counters are replaced by registers and counters.          *)
LEMMA EngineReplaced ==
  ASSUME NEW e \in Engine, NEW register \in Registers,
         NEW div2 \in 0 .. 1, NEW div4 \in 0 .. 3, NEW count \in 0 .. 3
  PROVE  [e EXCEPT !.register = register, !.div2 = div2, !.div4 = div4,
                   !.step_count = count] \in Engine
  BY DEF Engine

(* TuringMachine::tick, move_step and reset, and reconcile, keep the       *)
(* settings, and the engine an engine.                                     *)
LEMMA StepsKeepEngine ==
  ASSUME NEW e \in Engine, NEW bit \in Bits
  PROVE  /\ Moved(e, bit) \in Engine /\ Ticked(e, bit) \in Engine /\ Reset(e) \in Engine
         /\ Moved(e, bit).register = Clocked(e.register, bit)
         /\ Ticked(e, bit).register = Clocked(e.register, bit)
         /\ Reset(e).register = [i \in Places |-> 0]
         /\ \A f \in {Moved(e, bit), Ticked(e, bit), Reset(e)} :
              f.write = e.write /\ LengthOf(f) = LengthOf(e)
<1>1. Clocked(e.register, bit) \in Registers
  BY ClockedIsRegister DEF Engine
<1>2. [i \in Places |-> 0] \in Registers
  BY DEF Registers, Bits
<1>3. Moved(e, bit) \in Engine /\ Moved(e, bit).register = Clocked(e.register, bit)
      /\ Moved(e, bit).write = e.write /\ Moved(e, bit).position = e.position
  BY <1>1 DEF Moved, Stepped, Engine
<1>4. Ticked(e, bit) \in Engine /\ Ticked(e, bit).register = Clocked(e.register, bit)
      /\ Ticked(e, bit).write = e.write /\ Ticked(e, bit).position = e.position
  <2> DEFINE register == Clocked(e.register, bit)
             div2 == (e.div2 + 1) % 2
             div4 == (e.div4 + 1) % 4
             count == (e.step_count + 1) % 4
  <2>1. register \in Registers /\ div2 \in 0 .. 1 /\ div4 \in 0 .. 3 /\ count \in 0 .. 3
    BY <1>1 DEF Engine
  <2>2. Ticked(e, bit) = [e EXCEPT !.register = register, !.div2 = div2, !.div4 = div4,
                                   !.step_count = count]
    BY DEF Ticked, Stepped, Engine
  <2> HIDE DEF register, div2, div4, count
  <2>3. [e EXCEPT !.register = register, !.div2 = div2, !.div4 = div4,
                  !.step_count = count] \in Engine
    BY <2>1, EngineReplaced
  <2> QED BY <2>2, <2>3 DEF Engine, register
<1>5. Reset(e) \in Engine /\ Reset(e).register = [i \in Places |-> 0]
      /\ Reset(e).write = e.write /\ Reset(e).position = e.position
  <2> DEFINE cleared == [i \in Places |-> 0]
  <2>1. cleared \in Registers
    BY <1>2
  <2>2. Reset(e) = [e EXCEPT !.register = cleared, !.div2 = 0, !.div4 = 0, !.step_count = 0]
    BY DEF Reset
  <2> HIDE DEF cleared
  <2>3. [e EXCEPT !.register = cleared, !.div2 = 0, !.div4 = 0, !.step_count = 0] \in Engine
    <3>1. 0 \in 0 .. 1 /\ 0 \in 0 .. 3
      OBVIOUS
    <3> QED BY <2>1, <3>1, EngineReplaced
  <2> QED BY <2>2, <2>3 DEF Engine, cleared
<1> QED BY <1>3, <1>4, <1>5 DEF LengthOf

LEMMA ReconciledKeepsEngine ==
  ASSUME NEW e \in Engine, NEW base \in 0 .. Full, NEW modulation \in Int
  PROVE  /\ Reconciled(e, base, modulation) \in Engine
         /\ Reconciled(e, base, modulation).register = e.register
         /\ LengthOf(Reconciled(e, base, modulation)) = LengthOf(e)
         /\ Reconciled(e, base, modulation).write = Clamped(base + modulation, 0, Full)
<1>1. Clamped(base + modulation, 0, Full) \in 0 .. Full
  BY EngineAssumption DEF Clamped
<1> QED BY <1>1 DEF Reconciled, Engine, LengthOf

(* One step of a locked register repeats one place more.                   *)
LEMMA LockedStepRepeats ==
  ASSUME NEW register \in Registers, NEW len \in 2 .. Width, NEW k \in 0 .. Width,
         Repeats(register, len, k)
  PROVE  Repeats(Clocked(register, Feedback(register, len)), len, k + 1)
<1> SUFFICES ASSUME NEW i \in Places, i < k + 1, i + len < Width
             PROVE  Clocked(register, Feedback(register, len))[i]
                      = Clocked(register, Feedback(register, len))[i + len]
  BY DEF Repeats
<1>1. i + len \in Places /\ i + len # 0 /\ len - 1 \in Places
  BY EngineAssumption DEF Places
<1>2. Clocked(register, Feedback(register, len))[i + len] = register[i + len - 1]
  BY <1>1, EngineAssumption DEF Clocked, Places
<1>3. CASE i = 0
  BY <1>1, <1>2, <1>3 DEF Clocked, Feedback
<1>4. CASE i # 0
  <2>1. i - 1 \in Places /\ i - 1 < k /\ (i - 1) + len < Width
    BY <1>4, EngineAssumption DEF Places
  <2>2. register[i - 1] = register[(i - 1) + len]
    BY <2>1 DEF Repeats
  <2>3. Clocked(register, Feedback(register, len))[i] = register[i - 1]
    BY <1>4 DEF Clocked
  <2> QED BY <1>2, <2>2, <2>3, EngineAssumption DEF Places
<1> QED BY <1>3, <1>4
-----------------------------------------------------------------------------
(* Every parameter has a value its decoder lets through.                   *)
Decoded(c) ==
  /\ DOMAIN c = DOMAIN Decodable
  /\ c.write_probability \in 0 .. Full
  /\ c.length \in ValidLengths /\ c.length_position \in Positions
  /\ c.scale \in Scales /\ c.root \in Intervals
  /\ c.note_min \in MidiNotes /\ c.note_max \in MidiNotes
  /\ c.scale_output_scale \in Scales /\ c.scale_output_root \in Intervals

LEMMA ParametersDecoded ==
  ASSUME NEW e \in Engine, NEW base \in 0 .. Full
  PROVE  Decoded(Parameters(e, base)) /\ Accepted(Parameters(e, base))
<1>1. e.range \in MidiNotes \X MidiNotes /\ e.range[1] <= e.range[2]
  BY DEF Engine, Ranges
<1>2. e.position \in Positions /\ <<e.scale, e.root>> \in Scales /\ e.root \in Intervals
      /\ <<e.out_scale, e.out_root>> \in Scales /\ e.out_root \in Intervals
  BY DEF Engine, Scales
<1> QED BY <1>1, <1>2 DEF Decoded, Parameters, WriteOf, Accepted, Decodable, LengthOf, ValidLengths

LEMMA CandidateDecoded ==
  ASSUME NEW e \in Engine, NEW base \in 0 .. Full,
         NEW name \in DOMAIN Values, NEW value \in Values[name]
  PROVE  Decoded([Parameters(e, base) EXCEPT ![name] = value])
<1> DEFINE c == Parameters(e, base)
<1>1. Decoded(c)
  BY ParametersDecoded
<1>2. name \in DOMAIN Decodable /\ value \in Decodable[name]
  BY ModuleAssumption
<1> HIDE DEF c
<1>3. DOMAIN [c EXCEPT ![name] = value] = DOMAIN Decodable
  BY <1>1 DEF Decoded
<1>4. \A n \in DOMAIN Decodable :
        [c EXCEPT ![name] = value][n] = IF n = name THEN value ELSE c[n]
  BY <1>1 DEF Decoded
<1>5. \A n \in DOMAIN Decodable : c[n] \in Decodable[n]
  <2> SUFFICES ASSUME NEW n \in DOMAIN Decodable PROVE c[n] \in Decodable[n]
    OBVIOUS
  <2>1. n \in {"write_probability", "length", "length_position", "scale", "root", "note_min",
               "note_max", "scale_output_scale", "scale_output_root"}
    BY DEF Decodable
  <2>2. n \in {"length", "length_position"} => c[n] \in Decodable[n]
    BY <1>1 DEF Decoded, Decodable
  <2>5. n = "write_probability" => c[n] \in Decodable[n]
    BY <1>1 DEF Decoded, Decodable
  <2>3. n \in {"scale", "root", "scale_output_scale", "scale_output_root"} => c[n] \in Decodable[n]
    BY <1>1 DEF Decoded, Decodable
  <2>4. n \in {"note_min", "note_max"} => c[n] \in Decodable[n]
    BY <1>1 DEF Decoded, Decodable
  <2> QED BY <2>1, <2>2, <2>3, <2>4, <2>5
<1> DEFINE d == [c EXCEPT ![name] = value]
<1>6. DOMAIN d = DOMAIN Decodable /\ \A n \in DOMAIN Decodable : d[n] \in Decodable[n]
  BY <1>2, <1>3, <1>4, <1>5
<1> HIDE DEF d
<1>7. Decoded(d)
  BY <1>6 DEF Decoded, Decodable
<1> QED BY <1>7 DEF c, d

(* apply_candidate *)
LEMMA AppliedKeepsEngine ==
  ASSUME NEW e \in Engine, NEW c, Decoded(c), Accepted(c), NEW set
  PROVE  /\ Apply(e, c, set) \in Engine
         /\ Apply(e, c, set).register = e.register
         /\ Apply(e, c, set).write =
              IF "write_probability" \in set THEN c.write_probability ELSE e.write
<1> DEFINE write == IF "write_probability" \in set THEN c.write_probability ELSE e.write
           position == IF "length_position" \in set THEN c.length_position
                       ELSE IF "length" \in set THEN NearestPosition(c.length) ELSE e.position
           scale == IF "scale" \in set THEN c.scale[1] ELSE e.scale
           root == IF "root" \in set THEN c.root
                   ELSE IF "scale" \in set THEN c.scale[2] ELSE e.root
           range == IF set \cap {"note_min", "note_max"} = {} THEN e.range
                    ELSE <<c.note_min, c.note_max>>
           out_scale == IF "scale_output_scale" \in set THEN c.scale_output_scale[1]
                        ELSE e.out_scale
           out_root == IF "scale_output_root" \in set THEN c.scale_output_root
                       ELSE IF "scale_output_scale" \in set THEN c.scale_output_scale[2]
                       ELSE e.out_root
<1>1. write \in 0 .. Full
  BY DEF Decoded, Engine
<1>2. position \in Positions
  <2>1. NearestPosition(c.length) \in Positions
    <3>1. c.length \in Nat
      BY EngineAssumption DEF Decoded, ValidLengths, Positions
    <3> QED BY <3>1, NearestIsPosition
  <2> QED BY <2>1 DEF Decoded, Engine
<1>3. scale \in PitchSets /\ root \in Intervals
  BY DEF Decoded, Engine, Scales
<1>4. range \in Ranges
  BY DEF Decoded, Accepted, Engine, Ranges
<1>5. out_scale \in PitchSets /\ out_root \in Intervals
  BY DEF Decoded, Engine, Scales
<1>6. Apply(e, c, set) =
        [e EXCEPT !.write = write, !.position = position, !.scale = scale, !.root = root,
                  !.range = range, !.out_scale = out_scale, !.out_root = out_root]
  BY DEF Apply, Engine
<1> HIDE DEF write, position, scale, root, range, out_scale, out_root
<1> DEFINE applied ==
        [e EXCEPT !.write = write, !.position = position, !.scale = scale, !.root = root,
                  !.range = range, !.out_scale = out_scale, !.out_root = out_root]
<1>7. applied \in Engine
  BY <1>1, <1>2, <1>3, <1>4, <1>5, ZenonT(60) DEF Engine
<1>8. applied.register = e.register /\ applied.write = write
  BY DEF Engine
<1> QED BY <1>6, <1>7, <1>8 DEF write
-----------------------------------------------------------------------------
(* TuringMachine::with_seed *)
LEMMA NewIsEngine ==
  ASSUME NEW register \in Registers
  PROVE  NewEngine(register) \in Engine
<1>1. Full \div 2 \in 0 .. Full
  BY EngineAssumption
<1>2. Chromatic \in PitchSets /\ 0 \in Intervals
  <2>1. 0 \in Intervals
    BY QuantizerAssumption DEF Intervals
  <2> QED BY <2>1 DEF Chromatic, PitchSets
<1>3. MidRange \in Ranges /\ Len(Lengths) \in Positions
  BY EngineAssumption DEF Ranges, Positions
<1>4. 0 \in 0 .. 1 /\ 0 \in 0 .. 3
  OBVIOUS
<1> QED BY <1>1, <1>2, <1>3, <1>4 DEF NewEngine, Engine

(* Initially.                                                              *)
LEMMA LoopInvInit == Init => LoopInv
<1> SUFFICES ASSUME Init PROVE LoopInv
  OBVIOUS
<1>1. Full \div 2 \in 0 .. Full
  BY EngineAssumption
<1>2. PICK register \in Registers : engine = NewEngine(register)
  BY ModuleAssumption DEF Init
<1>3. NewEngine(register) \in Engine /\ NewEngine(register).write = Full \div 2
  BY NewIsEngine DEF NewEngine
<1>4. TypeOK
  <2>1. Low \in Levels
    BY DEF Low, Levels
  <2> QED BY <1>1, <1>2, <1>3, <2>1, EngineAssumption, ModuleAssumption DEF Init, TypeOK
<1>5. WriteIsEffective
  BY <1>1, <1>2, <1>3, EngineAssumption DEF Init, WriteIsEffective, Clamped
<1>6. LoopRepeats
  BY DEF Init, LoopRepeats, Places
<1> QED BY <1>4, <1>5, <1>6 DEF LoopInv

(* A step of the register, ticked or moved: what it repeats, it repeats    *)
(* one place further when the knob is full, and nowhere otherwise.         *)
LEMMA StepRepeats ==
  ASSUME TypeOK, NEW e \in Engine, e.register = engine.register,
         LengthOf(e) = LengthOf(engine), LoopRepeats,
         NEW bit \in NextBits(e)
  PROVE  /\ Counted(e) \in 0 .. Width
         /\ Repeats(Clocked(e.register, bit), LengthOf(e), Counted(e))
<1>1. kept \in 0 .. Width /\ Width \in Nat /\ LengthOf(e) \in 2 .. Width
  BY LengthInRegister, EngineAssumption DEF TypeOK
<1>2. Repeats(e.register, LengthOf(e), kept)
  BY DEF LoopRepeats, Repeats
<1>3. CASE e.write = Full
  <2>1. bit = Feedback(e.register, LengthOf(e))
    BY <1>3 DEF NextBits, Resolved
  <2>2. Repeats(Clocked(e.register, bit), LengthOf(e), kept + 1)
    BY <1>1, <1>2, <2>1, LockedStepRepeats DEF Engine
  <2> QED BY <1>1, <1>3, <2>2 DEF Counted, Repeats, Places
<1>4. CASE e.write # Full
  BY <1>1, <1>4 DEF Counted, Repeats, Places
<1> QED BY <1>3, <1>4

(* A sample. *)
LEMMA LoopInvSample == LoopInv /\ Sample => LoopInv'
<1> SUFFICES ASSUME LoopInv, Sample PROVE LoopInv'
  OBVIOUS
<1>1. PICK inputs \in Levels, modulation \in Modulations :
        Consume(inputs, modulation)
  BY DEF Sample
<1> DEFINE tuned == Reconciled(engine, write_base, modulation)
<1>2. engine \in Engine /\ write_base \in 0 .. Full /\ modulation \in Int
  BY ModuleAssumption DEF LoopInv, TypeOK
<1>3. /\ tuned \in Engine /\ tuned.register = engine.register
      /\ LengthOf(tuned) = LengthOf(engine)
      /\ tuned.write = Clamped(write_base + modulation, 0, Full)
  BY <1>2, ReconciledKeepsEngine
<1>4. /\ write_modulation' = modulation /\ previous' = inputs
      /\ write_base' = write_base /\ changes' = changes
  BY <1>1 DEF Sample, Consume
<1>5. NextBits(tuned) \subseteq Bits
  BY <1>3, NextBitsAreBits
<1> DEFINE Kept == /\ engine' \in Engine /\ engine'.write = tuned.write
                   /\ kept' \in 0 .. Width /\ fresh' \in BOOLEAN
                   /\ Repeats(engine'.register, LengthOf(engine'), kept')
<1>6. Kept
  <2>1. CASE engine' = Reset(tuned) /\ kept' = Width /\ fresh' = TRUE
    <3>1. 0 \in Bits
      BY DEF Bits
    <3>2. /\ Reset(tuned) \in Engine /\ Reset(tuned).register = [i \in Places |-> 0]
          /\ Reset(tuned).write = tuned.write /\ LengthOf(Reset(tuned)) = LengthOf(tuned)
      BY <1>3, <3>1, StepsKeepEngine
    <3>3. LengthOf(tuned) \in 2 .. Width /\ Width \in Nat
      BY <1>3, LengthInRegister, EngineAssumption
    <3> QED BY <2>1, <3>2, <3>3 DEF Repeats, Places
  <2>2. ASSUME NEW bit \in NextBits(tuned), engine' \in {Moved(tuned, bit), Ticked(tuned, bit)},
               kept' = Counted(tuned), fresh' = FALSE
        PROVE  Kept
    <3>1. bit \in Bits
      BY <1>5
    <3>2. /\ engine' \in Engine /\ engine'.register = Clocked(tuned.register, bit)
          /\ engine'.write = tuned.write /\ LengthOf(engine') = LengthOf(tuned)
      BY <1>3, <2>2, <3>1, StepsKeepEngine
    <3>3. /\ Counted(tuned) \in 0 .. Width
          /\ Repeats(Clocked(tuned.register, bit), LengthOf(tuned), Counted(tuned))
      BY <1>3, StepRepeats DEF LoopInv
    <3> QED BY <2>2, <3>2, <3>3
  <2>3. CASE engine' = tuned /\ UNCHANGED <<kept, fresh>>
    BY <1>3, <2>3 DEF LoopInv, TypeOK, LoopRepeats, Repeats
  <2> QED BY <1>1, <2>1, <2>2, <2>3 DEF Consume
<1>7. TypeOK'
  BY <1>1, <1>4, <1>6 DEF LoopInv, TypeOK
<1>8. LoopRepeats'
  BY <1>6 DEF LoopRepeats, Repeats
<1>9. WriteIsEffective'
  BY <1>3, <1>4, <1>6 DEF WriteIsEffective
<1> QED BY <1>7, <1>8, <1>9 DEF LoopInv

(* set_parameter: one that leaves the length keeps what repeats.           *)
LEMMA LoopInvSetParameter ==
  ASSUME LoopInv, NEW name \in DOMAIN Values, NEW value \in Values[name],
         SetParameter(name, value)
  PROVE  LoopInv'
<1> DEFINE candidate == [Parameters(engine, write_base) EXCEPT ![name] = value]
           applied == Apply(engine, candidate, {name})
<1>1. /\ engine \in Engine /\ write_base \in 0 .. Full /\ write_modulation \in Int
      /\ kept \in 0 .. Width /\ changes' \in 0 .. MaxChanges
  <2>1. /\ engine \in Engine /\ write_base \in 0 .. Full
        /\ kept \in 0 .. Width /\ changes \in 0 .. MaxChanges
        /\ write_modulation \in Modulations \cup {0}
    BY DEF LoopInv, TypeOK
  <2>2. write_modulation \in Int /\ MaxChanges \in Nat
    BY <2>1, ModuleAssumption
  <2>3. changes < MaxChanges /\ changes' = changes + 1
    BY DEF SetParameter
  <2> QED BY <2>1, <2>2, <2>3
<1>2. Decoded(candidate) /\ Accepted(candidate)
  BY <1>1, CandidateDecoded DEF SetParameter
<1>3. /\ applied \in Engine /\ applied.register = engine.register
      /\ applied.write = IF "write_probability" \in {name}
                         THEN candidate.write_probability ELSE engine.write
  <2> HIDE DEF candidate
  <2> QED BY <1>1, <1>2, AppliedKeepsEngine
<1>4. /\ engine' \in Engine /\ write_base' \in 0 .. Full /\ engine'.register = engine.register
      /\ engine'.write = Clamped(write_base' + write_modulation, 0, Full)
  <2>1. CASE name = "write_probability"
    <3>1. value \in 0 .. Full
      BY <2>1, ModuleAssumption DEF Decodable
    <3>2. engine' = Reconciled(applied, value, write_modulation) /\ write_base' = value
      BY <2>1 DEF SetParameter
    <3> HIDE DEF applied
    <3> QED BY <1>1, <1>3, <3>1, <3>2, ReconciledKeepsEngine
  <2>2. CASE name # "write_probability"
    <3>1. engine' = applied /\ write_base' = write_base
      BY <2>2 DEF SetParameter
    <3> QED BY <1>1, <1>3, <2>2, <3>1 DEF LoopInv, WriteIsEffective
  <2> QED BY <2>1, <2>2
<1>5. /\ kept' = IF LengthOf(engine') = LengthOf(engine) THEN kept ELSE 0
      /\ UNCHANGED <<write_modulation, previous, fresh>>
  BY DEF SetParameter
<1>6. TypeOK'
  BY <1>1, <1>4, <1>5, EngineAssumption DEF LoopInv, TypeOK
<1>7. LoopRepeats'
  BY <1>4, <1>5, EngineAssumption DEF LoopInv, LoopRepeats, Places
<1>8. WriteIsEffective'
  BY <1>4, <1>5 DEF WriteIsEffective
<1> QED BY <1>6, <1>7, <1>8 DEF LoopInv

(* A restart: the probability in force is the knob's.                      *)
LEMMA LoopInvRestart == LoopInv /\ Restart => LoopInv'
<1> SUFFICES ASSUME LoopInv, Restart PROVE LoopInv'
  OBVIOUS
<1> DEFINE parameters == Parameters(engine, write_base)
<1>1. engine \in Engine /\ write_base \in 0 .. Full
  BY DEF LoopInv, TypeOK
<1>2. Decoded(parameters) /\ Accepted(parameters)
  BY <1>1, ParametersDecoded
<1>3. PICK register \in Registers :
        engine' = Apply(NewEngine(register), parameters, DOMAIN parameters)
  BY ModuleAssumption DEF Restart
<1>4. NewEngine(register) \in Engine
  BY NewIsEngine
<1>5. "write_probability" \in DOMAIN parameters /\ parameters.write_probability = write_base
  BY DEF Parameters, WriteOf
<1> HIDE DEF parameters
<1>6. engine' \in Engine /\ engine'.write = write_base
  BY <1>2, <1>3, <1>4, <1>5, AppliedKeepsEngine
<1>7. /\ write_base' = write_base /\ write_modulation' = 0 /\ previous' = Low
      /\ kept' = 0 /\ fresh' = TRUE /\ changes' = changes
  BY <1>5 DEF Restart, parameters
<1>8. TypeOK'
  <2>1. Low \in Levels
    BY DEF Low, Levels
  <2> QED BY <1>1, <1>6, <1>7, <2>1, EngineAssumption DEF LoopInv, TypeOK
<1>9. LoopRepeats' /\ WriteIsEffective'
  BY <1>1, <1>6, <1>7, EngineAssumption DEF LoopRepeats, WriteIsEffective, Places, Clamped
<1> QED BY <1>8, <1>9 DEF LoopInv

LEMMA LoopInvNext == LoopInv /\ [Next]_vars => LoopInv'
<1> SUFFICES ASSUME LoopInv, [Next]_vars PROVE LoopInv'
  OBVIOUS
<1>1. CASE Sample
  BY <1>1, LoopInvSample
<1>2. ASSUME NEW name \in DOMAIN Values, NEW value \in Values[name], SetParameter(name, value)
      PROVE  LoopInv'
  BY <1>2, LoopInvSetParameter
<1>3. CASE Restart
  BY <1>3, LoopInvRestart
<1>4. CASE UNCHANGED vars
  BY <1>4 DEF LoopInv, TypeOK, LoopRepeats, WriteIsEffective, vars, state
<1> QED BY <1>1, <1>2, <1>3, <1>4 DEF Next

LEMMA LoopInvAlways == Spec => []LoopInv
  BY LoopInvInit, LoopInvNext, PTL DEF Spec

(* The engine, its knob and its inputs have their types: whatever the      *)
(* parameters set, register, counters and ranges stay well formed.         *)
THEOREM TypeCorrect == Spec => []TypeOK
<1>1. LoopInv => TypeOK
  BY DEF LoopInv
<1> QED BY <1>1, LoopInvAlways, PTL

(* A full knob locks the loop: as many places as it has been full for      *)
(* repeat the place a loop length further on (WriteKnob::resolve_bit and   *)
(* ShiftRegister::clock), whatever resets, moves and settings lie between. *)
THEOREM LockedLoopRepeats == Spec => []LoopRepeats
<1>1. LoopInv => LoopRepeats
  BY DEF LoopInv
<1> QED BY <1>1, LoopInvAlways, PTL

(* The write probability in force is the knob and the held modulation,     *)
(* clamped, in every state (reconcile_write_probability, set_parameter).   *)
THEOREM WriteInForce == Spec => []WriteIsEffective
<1>1. LoopInv => WriteIsEffective
  BY DEF LoopInv
<1> QED BY <1>1, LoopInvAlways, PTL
-----------------------------------------------------------------------------
(* What is published is the latest step: the outputs of a step are those   *)
(* of the register it left.                                                *)
FollowInv ==
  /\ LoopInv /\ OutputsFollow
  /\ ports = [step |-> ports.step, last |-> ports.last]

LEMMA OutputsOfRegister ==
  ASSUME NEW e \in Engine, NEW bit \in Bits
  PROVE  /\ MoveOutputs(e, bit).register = Clocked(e.register, bit)
         /\ TickOutputs(e, bit).register = Clocked(e.register, bit)
         /\ MoveOutputs(e, bit) # None /\ TickOutputs(e, bit) # None
<1>1. \A div2, div4 : /\ Outputs(Stepped(e, bit), div2, div4).register = Stepped(e, bit).register
                      /\ Outputs(Stepped(e, bit), div2, div4) # None
  <2>1. ASSUME NEW div2, NEW div4
        PROVE  "note" \in DOMAIN Outputs(Stepped(e, bit), div2, div4)
               /\ Outputs(Stepped(e, bit), div2, div4).register = Stepped(e, bit).register
    BY DEF Outputs
  <2>2. "note" \notin DOMAIN None
    BY DEF None
  <2> QED BY <2>1, <2>2
<1>2. Stepped(e, bit).register = Clocked(e.register, bit)
  BY DEF Stepped, Engine
<1> QED BY <1>1, <1>2, ZenonT(30) DEF MoveOutputs, TickOutputs

LEMMA FollowSample == FollowInv /\ Sample => FollowInv'
<1> SUFFICES ASSUME FollowInv, Sample PROVE OutputsFollow' /\ ports' = [step |-> ports'.step, last |-> ports'.last]
  BY LoopInvSample DEF FollowInv
<1>1. PICK inputs \in Levels, modulation \in Modulations :
        Consume(inputs, modulation)
  BY DEF Sample
<1> DEFINE tuned == Reconciled(engine, write_base, modulation)
<1>2. engine \in Engine /\ write_base \in 0 .. Full /\ modulation \in Int
  BY ModuleAssumption DEF FollowInv, LoopInv, TypeOK
<1>3. tuned \in Engine /\ tuned.register = engine.register /\ NextBits(tuned) \subseteq Bits
  BY <1>2, ReconciledKeepsEngine, NextBitsAreBits
<1> HIDE DEF tuned
<1>4. ports' = [step |-> ports'.step, last |-> ports'.last]
      /\ ports'.last = IF pending = None THEN ports.last ELSE pending
  <2>1. CASE pending = None
    <3>1. ports' = [ports EXCEPT !.step = FALSE]
      BY <2>1 DEF Sample, Produce
    <3>2. ports' = [step |-> FALSE, last |-> ports.last]
      BY <3>1 DEF FollowInv
    <3> QED BY <2>1, <3>2
  <2>2. CASE pending # None
    BY <2>2 DEF Sample, Produce
  <2> QED BY <2>1, <2>2
<1>5. OutputsFollow'
  <2>1. CASE pending' = None /\ fresh' = TRUE
    BY <2>1 DEF OutputsFollow
  <2>2. ASSUME NEW bit \in NextBits(tuned),
               \/ engine' = Moved(tuned, bit) /\ pending' = MoveOutputs(tuned, bit)
               \/ engine' = Ticked(tuned, bit) /\ pending' = TickOutputs(tuned, bit)
        PROVE  OutputsFollow'
    <3>1. bit \in Bits
      BY <1>3
    <3>2. engine'.register = Clocked(tuned.register, bit)
      BY <1>3, <2>2, <3>1, StepsKeepEngine
    <3>3. pending'.register = Clocked(tuned.register, bit) /\ pending' # None
      BY <1>3, <2>2, <3>1, OutputsOfRegister
    <3> QED BY <3>2, <3>3 DEF OutputsFollow
  <2>3. CASE engine' = tuned /\ pending' = None /\ UNCHANGED <<kept, fresh>>
    BY <1>3, <1>4, <2>3 DEF FollowInv, OutputsFollow
  <2> QED BY <1>1, <2>1, <2>2, <2>3 DEF Consume, tuned
<1> QED BY <1>4, <1>5

LEMMA FollowSetParameter ==
  ASSUME FollowInv, NEW name \in DOMAIN Values, NEW value \in Values[name],
         SetParameter(name, value)
  PROVE  FollowInv'
<1>1. LoopInv'
  BY LoopInvSetParameter DEF FollowInv
<1> DEFINE candidate == [Parameters(engine, write_base) EXCEPT ![name] = value]
           applied == Apply(engine, candidate, {name})
<1>2. engine \in Engine /\ write_base \in 0 .. Full
  BY DEF FollowInv, LoopInv, TypeOK
<1>3. Decoded(candidate) /\ Accepted(candidate)
  BY <1>2, CandidateDecoded DEF SetParameter
<1>4. applied \in Engine /\ applied.register = engine.register
  <2> HIDE DEF candidate
  <2> QED BY <1>2, <1>3, AppliedKeepsEngine
<1>5. engine' \in {applied, Reconciled(applied, value, write_modulation)}
      /\ UNCHANGED <<pending, ports, fresh>>
  BY DEF SetParameter
<1> HIDE DEF applied
<1>6. Reconciled(applied, value, write_modulation).register = applied.register
  BY <1>4 DEF Reconciled, Engine
<1>7. engine'.register = engine.register
  BY <1>4, <1>5, <1>6
<1> QED BY <1>1, <1>5, <1>7 DEF FollowInv, OutputsFollow

(* Every step is published in the next sample, and stays so until another, *)
(* whatever resets, moves, settings and restarts come in between.          *)
THEOREM OutputsAlwaysFollow == Spec => []OutputsFollow
<1>1. Init => FollowInv
  BY LoopInvInit DEF Init, FollowInv, OutputsFollow
<1>2. FollowInv /\ [Next]_vars => FollowInv'
  <2> SUFFICES ASSUME FollowInv, [Next]_vars PROVE FollowInv'
    OBVIOUS
  <2>1. CASE Sample
    BY <2>1, FollowSample
  <2>2. ASSUME NEW name \in DOMAIN Values, NEW value \in Values[name], SetParameter(name, value)
        PROVE  FollowInv'
    BY <2>2, FollowSetParameter
  <2>3. CASE Restart
    <3>1. LoopInv'
      BY <2>3, LoopInvRestart DEF FollowInv
    <3>2. pending' = None /\ fresh' = TRUE /\ ports' = [step |-> FALSE, last |-> None]
      BY <2>3 DEF Restart
    <3> QED BY <3>1, <3>2 DEF FollowInv, OutputsFollow
  <2>4. CASE UNCHANGED vars
    BY <2>4 DEF vars, state, FollowInv, LoopInv, TypeOK, LoopRepeats, WriteIsEffective,
                OutputsFollow
  <2> QED BY <2>1, <2>2, <2>3, <2>4 DEF Next
<1>3. FollowInv => OutputsFollow
  BY DEF FollowInv
<1> QED BY <1>1, <1>2, <1>3, PTL DEF Spec
-----------------------------------------------------------------------------
(* Parameters depend on the settings of the engine alone.                  *)
Settings(e) == <<e.position, e.scale, e.root, e.range, e.out_scale, e.out_root>>

LEMMA ParametersOfSettings ==
  ASSUME NEW e, NEW f, Settings(e) = Settings(f), NEW base
  PROVE  Parameters(e, base) = Parameters(f, base)
  BY DEF Settings, Parameters, WriteOf, LengthOf

LEMMA StepsKeepSettings ==
  ASSUME NEW e \in Engine, NEW bit, NEW base, NEW modulation
  PROVE  /\ Settings(Moved(e, bit)) = Settings(e) /\ Settings(Ticked(e, bit)) = Settings(e)
         /\ Settings(Reset(e)) = Settings(e)
         /\ Settings(Reconciled(e, base, modulation)) = Settings(e)
  BY DEF Settings, Moved, Ticked, Stepped, Reset, Reconciled, Engine

(* A module spawned from all its parameters answers with the same ones.    *)
LEMMA SpawnedAlike ==
  ASSUME NEW e \in Engine, NEW base, NEW f \in Engine
  PROVE  Settings(Apply(f, Parameters(e, base), DOMAIN Parameters(e, base))) = Settings(e)
<1> DEFINE c == Parameters(e, base)
<1>1. /\ c.length_position = e.position /\ c.scale = <<e.scale, e.root>> /\ c.root = e.root
      /\ c.note_min = e.range[1] /\ c.note_max = e.range[2]
      /\ c.scale_output_scale = <<e.out_scale, e.out_root>> /\ c.scale_output_root = e.out_root
      /\ {"length_position", "scale", "root", "note_min", "note_max",
          "scale_output_scale", "scale_output_root"} \subseteq DOMAIN c
  BY DEF Parameters
<1> HIDE DEF c
<1>2. e.range = <<e.range[1], e.range[2]>>
  BY DEF Engine, Ranges
<1>3. DOMAIN c \cap {"note_min", "note_max"} # {}
  BY <1>1
<1>4. /\ Apply(f, c, DOMAIN c).position = e.position
      /\ Apply(f, c, DOMAIN c).scale = e.scale
      /\ Apply(f, c, DOMAIN c).root = e.root
      /\ Apply(f, c, DOMAIN c).range = e.range
      /\ Apply(f, c, DOMAIN c).out_scale = e.out_scale
      /\ Apply(f, c, DOMAIN c).out_root = e.out_root
  BY <1>1, <1>2, <1>3 DEF Apply, Engine
<1> QED BY <1>4 DEF Settings, c

(* No sample and no restart changes what a getter answers: modulation is   *)
(* never taken for a setting of the knob.                                  *)
THEOREM ConfigAlwaysSurvives == Spec => ConfigSurvives
<1>1. LoopInv /\ [Next]_vars =>
        [changes' = changes =>
           Parameters(engine', write_base') = Parameters(engine, write_base)]_vars
  <2> SUFFICES ASSUME LoopInv, Next, changes' = changes
               PROVE  Parameters(engine', write_base') = Parameters(engine, write_base)
    OBVIOUS
  <2>0. engine \in Engine /\ write_base \in 0 .. Full
    BY DEF LoopInv, TypeOK
  <2>1. CASE Sample
    <3>1. PICK inputs \in Levels, modulation \in Modulations : Consume(inputs, modulation)
      BY <2>1 DEF Sample
    <3> DEFINE tuned == Reconciled(engine, write_base, modulation)
    <3>2. tuned \in Engine /\ Settings(tuned) = Settings(engine)
      <4>1. modulation \in Int
        BY ModuleAssumption
      <4>2. tuned \in Engine
        BY <2>0, <4>1, ReconciledKeepsEngine
      <4>3. Settings(tuned) = Settings(engine)
        BY <2>0, StepsKeepSettings
      <4> QED BY <4>2, <4>3
    <3>3. \/ engine' = tuned \/ engine' = Reset(tuned)
          \/ \E bit \in NextBits(tuned) : engine' \in {Moved(tuned, bit), Ticked(tuned, bit)}
      BY <3>1 DEF Consume
    <3> HIDE DEF tuned
    <3>4. Settings(engine') = Settings(engine)
      BY <3>2, <3>3, StepsKeepSettings
    <3>5. write_base' = write_base
      BY <2>1 DEF Sample
    <3> QED BY <3>4, <3>5, ParametersOfSettings
  <2>2. ASSUME NEW name \in DOMAIN Values, NEW value \in Values[name], SetParameter(name, value)
        PROVE  FALSE
    BY <2>2 DEF SetParameter, LoopInv, TypeOK
  <2>3. CASE Restart
    <3>1. PICK register \in Seeded :
            engine' = Apply(NewEngine(register), Parameters(engine, write_base),
                            DOMAIN Parameters(engine, write_base))
      BY <2>3 DEF Restart
    <3>2. NewEngine(register) \in Engine
      BY ModuleAssumption, NewIsEngine
    <3>3. Settings(engine') = Settings(engine)
      BY <2>0, <3>1, <3>2, SpawnedAlike
    <3>4. write_base' = write_base
      BY <2>3 DEF Restart, Parameters, WriteOf
    <3> QED BY <3>3, <3>4, ParametersOfSettings
  <2> QED BY <2>1, <2>2, <2>3 DEF Next
<1> QED BY <1>1, LoopInvAlways, PTL DEF Spec, ConfigSurvives
-----------------------------------------------------------------------------
(* The host with a MIDI port of its own.                                   *)

(* No byte of the register and no scale makes a note that is taken for no  *)
(* note at all.                                                            *)
LEMMA NoteIsSet ==
  ASSUME NEW dac, NEW scale, NEW root, NEW range \in Ranges
  PROVE  M!NoteFromDac(dac, scale, root, range) # M!Unset
  BY DEF M!NoteFromDac, M!Clamped, M!Unset, Ranges, MidiNotes

(* The engine of the port's host is an engine, and one voice sounds.       *)
PortInv == midi_engine \in Engine /\ OneVoice

LEMMA PortAtFirst == HostInit => PortInv
<1> SUFFICES ASSUME HostInit PROVE PortInv
  OBVIOUS
<1>1. PICK register \in Registers : midi_engine = M!NewEngine(register)
  BY ModuleAssumption DEF HostInit, M!MidiInit
<1>2. M!NewEngine(register) = NewEngine(register)
  BY DEF M!NewEngine, NewEngine, M!Chromatic, Chromatic, M!Intervals, Intervals
<1>3. midi_engine \in Engine
  BY <1>1, <1>2, NewIsEngine
<1>4. OneVoice
  BY DEF HostInit, M!MidiInit, OneVoice, M!OneVoice
<1> QED BY <1>3, <1>4 DEF PortInv

(* The operations of the port's engine are those of the rack's.            *)
LEMMA SameOperations ==
  ASSUME NEW e, NEW bit, NEW len
  PROVE  /\ M!NextBits(e) = NextBits(e)
         /\ M!Ticked(e, bit) = Ticked(e, bit) /\ M!Moved(e, bit) = Moved(e, bit)
         /\ M!Reset(e) = Reset(e) /\ M!NearestPosition(len) = NearestPosition(len)
<1>1. M!Places = Places /\ M!Positions = Positions
  BY DEF M!Places, Places, M!Positions, Positions
<1>2. M!NextBits(e) = NextBits(e)
  BY DEF M!NextBits, NextBits, M!Resolved, Resolved, M!Feedback, Feedback, M!LengthOf, LengthOf,
         M!Bits, Bits
<1>3. M!Stepped(e, bit) = Stepped(e, bit)
  BY <1>1 DEF M!Stepped, Stepped, M!Clocked, Clocked
<1>4. M!Ticked(e, bit) = Ticked(e, bit) /\ M!Moved(e, bit) = Moved(e, bit)
  BY <1>3 DEF M!Ticked, Ticked, M!Moved, Moved
<1>5. M!Reset(e) = Reset(e)
  BY <1>1 DEF M!Reset, Reset
<1>6. M!NearestPosition(len) = NearestPosition(len)
  BY <1>1 DEF M!NearestPosition, NearestPosition
<1> QED BY <1>2, <1>4, <1>5, <1>6

(* A tick: the old voice is ended before the new one is struck, and what   *)
(* could not be ended is still tracked.                                    *)
LEMMA TickKeepsOneVoice == PortInv /\ M!TickMidi => PortInv'
<1> SUFFICES ASSUME PortInv, M!TickMidi PROVE PortInv'
  OBVIOUS
<1>1. PICK bit \in NextBits(midi_engine) :
        /\ midi_engine' = Ticked(midi_engine, bit)
        /\ \/ M!Strike(M!TickOutputs(midi_engine, bit))
           \/ last_note' = last_note /\ UNCHANGED sounding
  BY SameOperations DEF M!TickMidi, M!AfterFailedOff
<1>2. midi_engine \in Engine /\ bit \in Bits
  BY NextBitsAreBits DEF PortInv
<1>3. midi_engine' \in Engine
  BY <1>1, <1>2, StepsKeepEngine
<1>4. M!TickOutputs(midi_engine, bit).note # M!Unset
  <2> DEFINE e == M!Stepped(midi_engine, bit)
             dac == M!DacByte(e.register, M!LengthOf(e))
  <2>1. e.range \in Ranges
    BY <1>2 DEF M!Stepped, Engine
  <2>2. M!TickOutputs(midi_engine, bit).note = M!NoteFromDac(dac, e.scale, e.root, e.range)
    BY DEF M!TickOutputs, M!Outputs
  <2> HIDE DEF e, dac
  <2>3. M!NoteFromDac(dac, e.scale, e.root, e.range) # M!Unset
    BY <2>1, NoteIsSet
  <2> QED BY <2>2, <2>3
<1>5. channel' = channel /\ forgotten' = forgotten \cap sounding'
  BY DEF M!TickMidi
<1>6. OneVoice'
  BY <1>1, <1>4, <1>5 DEF PortInv, OneVoice, M!OneVoice, M!Strike, M!Held, M!Voice
<1> QED BY <1>3, <1>6 DEF PortInv

(* Knobs, moves and resets between ticks keep the engine an engine.        *)
LEMMA KnobsKeepEngine == PortInv /\ M!EngineMut => PortInv'
<1> SUFFICES ASSUME PortInv, M!EngineMut PROVE PortInv'
  OBVIOUS
<1>1. midi_engine \in Engine
  BY DEF PortInv
<1>2. midi_engine' \in Engine
  <2>1. ASSUME NEW len \in 0 .. Width,
               midi_engine' = [midi_engine EXCEPT !.position = NearestPosition(len)]
        PROVE  midi_engine' \in Engine
    <3>1. NearestPosition(len) \in Positions
      BY NearestIsPosition, EngineAssumption
    <3> QED BY <1>1, <2>1, <3>1 DEF Engine
  <2>2. ASSUME NEW write \in 0 .. Full, midi_engine' = [midi_engine EXCEPT !.write = write]
        PROVE  midi_engine' \in Engine
    BY <1>1, <2>2 DEF Engine
  <2>3. ASSUME NEW bit \in NextBits(midi_engine), midi_engine' = Moved(midi_engine, bit)
        PROVE  midi_engine' \in Engine
    BY <1>1, <2>3, NextBitsAreBits, StepsKeepEngine
  <2>4. CASE midi_engine' = Reset(midi_engine)
    <3>1. 0 \in Bits
      BY DEF Bits
    <3> QED BY <1>1, <2>4, <3>1, StepsKeepEngine
  <2> QED BY <2>1, <2>2, <2>3, <2>4, SameOperations DEF M!EngineMut
<1>3. OneVoice'
  BY DEF PortInv, OneVoice, M!OneVoice, M!EngineMut, M!Held, M!Voice
<1> QED BY <1>2, <1>3 DEF PortInv

(* The MIDI host plays one voice at a time, and it is the tracked one, for *)
(* every register, loop, scale and range and wherever a send fails: a note *)
(* that could not be ended is ended by a later tick, unless a call that    *)
(* gives it up (set_channel, a failed all_notes_off) came in between.      *)
THEOREM OneVoiceAlways == HostSpec => []OneVoice
<1>1. PortInv /\ [HostNext]_allVars => PortInv'
  <2> SUFFICES ASSUME PortInv, [HostNext]_allVars PROVE PortInv'
    OBVIOUS
  <2>1. CASE M!TickMidi
    BY <2>1, TickKeepsOneVoice
  <2>2. CASE M!EngineMut
    BY <2>2, KnobsKeepEngine
  <2>3. CASE M!AllNotesOff
    BY <2>3 DEF PortInv, OneVoice, M!OneVoice, M!AllNotesOff, M!Held, M!Voice
  <2>4. ASSUME NEW c \in Channels, M!SetChannel(c)
        PROVE  PortInv'
    BY <2>4 DEF PortInv, OneVoice, M!OneVoice, M!SetChannel, M!Held, M!Voice
  <2>5. CASE UNCHANGED midi
    BY <2>5 DEF midi, PortInv, OneVoice, M!OneVoice, M!Held, M!Voice
  <2> QED BY <2>1, <2>2, <2>3, <2>4, <2>5 DEF HostNext, M!MidiNext, allVars
<1>2. PortInv => OneVoice
  BY DEF PortInv
<1> QED BY <1>1, <1>2, PortAtFirst, PTL DEF HostSpec

(* A run of either host is one of the module in the rack: what is proved   *)
(* of that holds beside the MIDI host as well.                             *)
THEOREM HostRunsModule == HostSpec => Spec
<1>1. HostInit => Init
  BY DEF HostInit
<1>2. [HostNext]_allVars => [Next]_vars
  BY DEF HostNext, allVars, rack, vars, state
<1> QED BY <1>1, <1>2, PTL DEF HostSpec, Spec
=============================================================================
