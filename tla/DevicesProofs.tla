----------------------------- MODULE DevicesProofs ---------------------------
(***************************************************************************)
(* For every tempo, width and resolution a Clock accepts: a low sample     *)
(* comes before every pulse, the number of pulses is what the tempo asks   *)
(* for, each of them restarts an LFO patched to the Clock, and what was    *)
(* heard in change messages rounds to what is set.                         *)
(***************************************************************************)
EXTENDS Devices, TLAPS

(* Configurations are accepted ones.  While a pulse is high, the phase is  *)
(* so low that the next wrap is at least one sample beyond its end.  The   *)
(* phase is what is left of the time of the epoch after its pulses.        *)
ConfigInv ==
  /\ config \in ClockConfigs /\ Fits(config)
  /\ fresh \in BOOLEAN /\ restart_pending \in BOOLEAN /\ pulse \in BOOLEAN /\ rose \in BOOLEAN
PhaseInv ==
  /\ phase \in Nat /\ high_remaining \in Nat
  /\ fresh => ~pulse /\ phase = 0 /\ samples = 0 /\ pulses = 0
  /\ samples \in 0 .. Minute /\ pulses \in Nat
Aligned ==
  /\ phase < Minute
  /\ pulse \/ high_remaining > 0 => phase + (high_remaining + 1) * Rate < Minute
  /\ phase + pulses * Minute = samples * Rate
ClockInv == ConfigInv /\ PhaseInv /\ (~restart_pending => Aligned)

(* What the assumption says of the constants. *)
LEMMA Constants ==
  /\ Minute \in Nat \ {0}
  /\ MinTempo \in Nat \ {0} /\ MaxTempo \in Nat /\ MaxPpqn \in Nat /\ MaxWidth \in Nat
  /\ DefaultConfig \in ClockConfigs /\ Fits(DefaultConfig)
  BY ClockAssumption DEF ClockAssumption

(* A rate is positive, and a pulse with a low sample fits between two.     *)
LEMMA RateFits ==
  ASSUME NEW c \in ClockConfigs, Fits(c)
  PROVE  /\ RateOf(c) \in Nat \ {0}
         /\ c.pulse_width_ms \in Nat \ {0}
         /\ (c.pulse_width_ms + 1) * RateOf(c) <= Minute
  <1>1. c.bpm \in Nat \ {0} /\ c.ppqn \in Nat \ {0} /\ c.pulse_width_ms \in Nat \ {0}
    <2>1. /\ c.bpm \in Resolved(MinTempo) .. Resolved(MaxTempo)
          /\ c.ppqn \in 1 .. MaxPpqn /\ c.pulse_width_ms \in 1 .. MaxWidth
      BY DEF ClockConfigs
    <2>2. Resolved(MinTempo) \in Nat \ {0} /\ Resolved(MaxTempo) \in Nat
      BY Constants DEF Resolved
    <2> QED
      BY <2>1, <2>2, Constants
  <1>2. ASSUME NEW a \in Nat \ {0}, NEW b \in Nat \ {0} PROVE a * b \in Nat \ {0}
    OBVIOUS
  <1>3. RateOf(c) \in Nat \ {0}
    BY <1>1, <1>2 DEF RateOf
  <1>4. ASSUME NEW M \in Nat, NEW r \in Nat \ {0}, NEW w \in Nat, M \div r >= w + 1
        PROVE  (w + 1) * r <= M
    <2>1. (M \div r) * r <= M /\ M \div r \in Nat
      BY <1>4, SMTT(30)
    <2>2. (w + 1) * r <= (M \div r) * r
      BY <1>4, <2>1, SMTT(30)
    <2> QED
      BY <2>1, <2>2, SMTT(30)
  <1>5. Minute \div RateOf(c) >= c.pulse_width_ms + 1
    BY DEF Fits
  <1> QED
    BY <1>1, <1>3, <1>4, <1>5, Constants

(* A new Clock has no past.                                                *)
LEMMA InitAligned == ClockInit => ClockInv
  <1> SUFFICES ASSUME ClockInit PROVE ClockInv
    OBVIOUS
  <1>1. ConfigInv
    BY Constants DEF ClockInit, ConfigInv
  <1>2. PhaseInv
    BY Constants DEF ClockInit, PhaseInv
  <1>3. Rate \in Nat
    BY <1>1, RateFits DEF ConfigInv, Rate
  <1>4. Aligned
    BY <1>3, Constants DEF ClockInit, Aligned
  <1> QED
    BY <1>1, <1>2, <1>4 DEF ClockInv

(* Only the tempo is rounded.                                              *)
LEMMA CanonicalRecord ==
  ASSUME NEW b, NEW q, NEW w
  PROVE  Canonical([bpm |-> b, ppqn |-> q, pulse_width_ms |-> w])
           = [bpm |-> Resolved(b), ppqn |-> q, pulse_width_ms |-> w]
  BY DEF Canonical

(* A raw configuration that is accepted becomes a configuration.           *)
LEMMA AcceptedIsConfig ==
  ASSUME NEW b, NEW q, NEW w,
         Accepted([bpm |-> b, ppqn |-> q, pulse_width_ms |-> w])
  PROVE  LET c == Canonical([bpm |-> b, ppqn |-> q, pulse_width_ms |-> w])
         IN  c \in ClockConfigs /\ Fits(c)
  <1> DEFINE raw == [bpm |-> b, ppqn |-> q, pulse_width_ms |-> w]
  <1>1. /\ b \in MinTempo .. MaxTempo /\ q \in 1 .. MaxPpqn /\ w \in 1 .. MaxWidth
        /\ Fits(Canonical(raw))
    BY DEF Accepted, InRange
  <1>2. Resolved(b) \in Resolved(MinTempo) .. Resolved(MaxTempo)
    BY <1>1, Constants DEF Resolved
  <1>3. Canonical(raw) = [bpm |-> Resolved(b), ppqn |-> q, pulse_width_ms |-> w]
    BY CanonicalRecord
  <1> QED
    BY <1>1, <1>2, <1>3 DEF ClockConfigs

(* What the getters say of a configuration.                                *)
LEMMA GivenRecord ==
  ASSUME NEW c \in ClockConfigs
  PROVE  AsGiven(c) = [bpm |-> 2 * c.bpm, ppqn |-> c.ppqn, pulse_width_ms |-> c.pulse_width_ms]
  <1>1. PICK b, q, w : c = [bpm |-> b, ppqn |-> q, pulse_width_ms |-> w]
    BY DEF ClockConfigs
  <1> QED
    BY <1>1 DEF AsGiven

(* A change is accepted, and makes a separator due unless it is none.      *)
LEMMA SetAligned ==
  ASSUME ClockInv, NEW p, NEW value, SetParameter(p, value)
  PROVE  ClockInv'
  <1> DEFINE raw == [AsGiven(config) EXCEPT ![p] = value]
  <1>1. Accepted(raw) /\ SetConfig(Canonical(raw))
    BY DEF SetParameter
  <1>2. Canonical(raw) \in ClockConfigs /\ Fits(Canonical(raw))
    <2>1. raw = [bpm |-> raw.bpm, ppqn |-> raw.ppqn, pulse_width_ms |-> raw.pulse_width_ms]
      BY GivenRecord DEF ClockInv, ConfigInv
    <2> HIDE DEF raw
    <2> QED
      BY <1>1, <2>1, AcceptedIsConfig
  <1> HIDE DEF raw
  <1>3. config' = Canonical(raw) /\ restart_pending' = (restart_pending \/ config # Canonical(raw))
        /\ UNCHANGED <<phase, high_remaining, fresh, pulse, historyVars>>
    BY <1>1 DEF SetConfig, PendingAfter
  <1>4. ConfigInv' /\ PhaseInv'
    <2>1. restart_pending' \in BOOLEAN
      BY <1>3 DEF ClockInv, ConfigInv
    <2> QED
      BY <1>2, <1>3, <2>1 DEF ClockInv, ConfigInv, PhaseInv, historyVars
  <1>5. ~restart_pending' => Aligned'
    BY <1>3 DEF ClockInv, Aligned, Rate, historyVars
  <1> QED
    BY <1>4, <1>5 DEF ClockInv

(* The separator begins a new epoch.                                       *)
LEMMA SeparatorAligned == ClockInv /\ SeparatorSample => ClockInv'
  <1> SUFFICES ASSUME ClockInv, SeparatorSample PROVE ClockInv'
    OBVIOUS
  <1>1. ConfigInv'
    BY DEF ClockInv, ConfigInv, SeparatorSample
  <1>4. PhaseInv'
    BY Constants DEF PhaseInv, SeparatorSample
  <1>2. Rate' \in Nat
    BY <1>1, RateFits DEF ConfigInv, Rate
  <1>3. Aligned'
    <2>1. ASSUME NEW R \in Nat PROVE 0 + 0 * Minute = 0 * R
      BY Constants
    <2>2. phase' = 0 /\ pulses' = 0 /\ samples' = 0 /\ ~pulse' /\ ~(high_remaining' > 0)
      BY DEF SeparatorSample
    <2>3. phase' + pulses' * Minute = samples' * Rate'
      BY <1>2, <2>1, <2>2
    <2> QED
      BY <2>2, <2>3, Constants DEF Aligned
  <1> QED
    BY <1>1, <1>3, <1>4 DEF ClockInv

(* The facts of a running sample, with the rate as a number.               *)
LEMMA RunningFacts ==
  ASSUME ClockInv, RunningSample
  PROVE  /\ ~restart_pending /\ Aligned
         /\ Rate \in Nat \ {0} /\ Rate' = Rate
         /\ config.pulse_width_ms \in Nat \ {0}
         /\ (config.pulse_width_ms + 1) * Rate <= Minute
  BY RateFits DEF ClockInv, ConfigInv, RunningSample, Separator, Rate

(* After a whole minute the phase is back at zero.                         *)
LEMMA WholeMinute ==
  ASSUME NEW M \in Nat \ {0}, NEW R \in Nat, NEW k \in Nat, NEW f \in Nat,
         f < M, f + k * M = M * R
  PROVE  f = 0
  <1>1. k * M <= R * M /\ R * M = M * R
    OBVIOUS
  <1>2. k <= R
    BY <1>1, SMTT(30)
  <1>3. (R - k) * M = f
    BY SMTT(30)
  <1>4. CASE R = k
    BY <1>3, <1>4
  <1>5. CASE R > k
    <2>1. (R - k) * M >= M
      BY <1>5, SMTT(30)
    <2> QED
      BY <1>3, <2>1
  <1> QED
    BY <1>2, <1>4, <1>5

(* One sample further on, the account of phase and pulses still balances.  *)
LEMMA AccountBalances ==
  ASSUME NEW M \in Nat \ {0}, NEW R \in Nat, NEW f \in Nat, NEW k \in Nat, NEW n \in Nat,
         f + k * M = n * R
  PROVE  /\ (f + R) + k * M = (n + 1) * R
         /\ (f + R - M) + (k + 1) * M = (n + 1) * R
  OBVIOUS

(* A running sample keeps phase, pulses and samples in balance.            *)
LEMMA RunningBalance ==
  ASSUME ClockInv, RunningSample
  PROVE  /\ phase' \in Nat /\ phase' < Minute
         /\ pulses' \in Nat /\ samples' \in 0 .. Minute
         /\ phase' + pulses' * Minute = samples' * Rate'
  <1>1. /\ phase \in Nat /\ phase < Minute /\ pulses \in Nat /\ samples \in 0 .. Minute
        /\ phase + pulses * Minute = samples * Rate
        /\ Rate \in Nat \ {0} /\ Rate' = Rate /\ Rate <= Minute
    <2>1. /\ Rate \in Nat \ {0} /\ config.pulse_width_ms \in Nat \ {0}
          /\ (config.pulse_width_ms + 1) * Rate <= Minute
      BY RunningFacts
    <2>2. ASSUME NEW R \in Nat \ {0}, NEW w \in Nat \ {0}, (w + 1) * R <= Minute
          PROVE  R <= Minute
      BY <2>2, Constants, SMTT(30)
    <2> QED
      BY <2>1, <2>2, RunningFacts DEF ClockInv, PhaseInv, Aligned
  <1>2. CASE fresh
    BY <1>1, <1>2, Constants DEF RunningSample, ClockInv, PhaseInv
  <1>3. CASE ~fresh
    <2>1. phase' = Advanced
      BY <1>3 DEF RunningSample
    <2> DEFINE n == IF samples = Minute THEN 0 ELSE samples
               k == IF samples = Minute THEN 0 ELSE pulses
    <2>2. samples' = n + 1 /\ n \in Nat /\ n + 1 \in 0 .. Minute /\ k \in Nat
          /\ pulses' = k + (IF Wraps THEN 1 ELSE 0)
      BY <1>1, <1>3, Constants DEF RunningSample
    <2>3. phase + k * Minute = n * Rate
      <3>1. CASE samples = Minute
        <4>1. phase = 0
          BY <1>1, <3>1, Constants, WholeMinute
        <4> QED
          BY <3>1, <4>1, <1>1, Constants
      <3>2. CASE samples # Minute
        BY <3>2, <1>1
      <3> QED
        BY <3>1, <3>2
    <2> HIDE DEF n, k
    <2>4. /\ (phase + Rate) + k * Minute = (n + 1) * Rate
          /\ (phase + Rate - Minute) + (k + 1) * Minute = (n + 1) * Rate
      BY <1>1, <2>2, <2>3, Constants, AccountBalances
    <2>5. CASE Wraps
      BY <1>1, <2>1, <2>2, <2>4, <2>5, Constants DEF Wraps, Advanced
    <2>6. CASE ~Wraps
      BY <1>1, <2>1, <2>2, <2>4, <2>6, Constants DEF Wraps, Advanced
    <2> QED
      BY <2>5, <2>6
  <1> QED
    BY <1>2, <1>3

(* While a pulse is high the next one stays at least a sample away.        *)
LEMMA RunningDistance ==
  ASSUME ClockInv, RunningSample
  PROVE  /\ high_remaining' \in Nat
         /\ pulse' \/ high_remaining' > 0
            => phase' + (high_remaining' + 1) * Rate' < Minute
  <1>1. /\ phase \in Nat /\ phase < Minute /\ high_remaining \in Nat
        /\ Rate \in Nat \ {0} /\ Rate' = Rate
        /\ config.pulse_width_ms \in Nat \ {0}
        /\ (config.pulse_width_ms + 1) * Rate <= Minute
        /\ (fresh => phase = 0)
        /\ (pulse \/ high_remaining > 0 => phase + (high_remaining + 1) * Rate < Minute)
    BY RunningFacts DEF ClockInv, PhaseInv, Aligned
  <1>2. /\ high_remaining' = (IF HighFor > 0 THEN HighFor - 1 ELSE 0)
        /\ pulse' = (HighFor > 0)
    BY DEF RunningSample
  <1>3. CASE Rising
    <2>1. HighFor = config.pulse_width_ms
      BY <1>3 DEF HighFor
    <2>2. high_remaining' \in Nat /\ high_remaining' + 1 = config.pulse_width_ms
      BY <1>1, <1>2, <2>1
    <2>3. phase' \in Nat /\ phase' < Rate
      <3>1. CASE fresh
        BY <1>1, <3>1 DEF RunningSample
      <3>2. CASE ~fresh
        BY <1>1, <1>3, <3>2, Constants DEF RunningSample, Rising, Wraps, Advanced
      <3> QED
        BY <3>1, <3>2
    <2>4. ASSUME NEW f \in Nat, NEW R \in Nat, NEW w \in Nat, f < R, (w + 1) * R <= Minute
          PROVE  f + w * R < Minute
      BY <2>4, Constants, SMTT(30)
    <2>5. phase' + config.pulse_width_ms * Rate < Minute
      BY <1>1, <2>3, <2>4
    <2> QED
      BY <1>1, <2>2, <2>5
  <1>4. CASE ~Rising
    <2>1. HighFor = high_remaining /\ ~fresh /\ phase' = phase + Rate
      BY <1>4 DEF HighFor, Rising, RunningSample, Advanced
    <2>2. high_remaining' \in Nat /\ (pulse' \/ high_remaining' > 0 => high_remaining > 0)
      <3>1. CASE high_remaining > 0
        BY <1>1, <1>2, <2>1, <3>1
      <3>2. CASE ~(high_remaining > 0)
        <4>1. high_remaining' = 0 /\ ~pulse'
          BY <1>2, <2>1, <3>2
        <4> QED
          BY <4>1
      <3> QED
        BY <3>1, <3>2
    <2>3. ASSUME NEW f \in Nat, NEW R \in Nat, NEW h \in Nat \ {0}, f + (h + 1) * R < Minute
          PROVE  f + R + (h - 1 + 1) * R < Minute
      BY <2>3, Constants, SMTT(30)
    <2>4. ASSUME high_remaining > 0
          PROVE  phase' + (high_remaining' + 1) * Rate' < Minute
      BY <1>1, <1>2, <2>1, <2>3, <2>4
    <2> QED
      BY <2>2, <2>4
  <1> QED
    BY <1>3, <1>4

(* A running sample keeps the invariant.                                   *)
LEMMA RunningAligned == ClockInv /\ RunningSample => ClockInv'
  <1> SUFFICES ASSUME ClockInv, RunningSample PROVE ClockInv'
    OBVIOUS
  <1>1. ConfigInv'
    <2>1. pulse' \in BOOLEAN /\ rose' \in BOOLEAN /\ fresh' = FALSE
      BY DEF RunningSample, Rising, Wraps, ClockInv, ConfigInv
    <2>2. config' = config /\ restart_pending' = restart_pending
      BY DEF RunningSample
    <2> QED
      BY <2>1, <2>2 DEF ClockInv, ConfigInv
  <1>2. PhaseInv'
    <2>1. fresh' = FALSE
      BY DEF RunningSample
    <2> QED
      BY <2>1, RunningBalance, RunningDistance DEF PhaseInv
  <1>3. Aligned'
    BY RunningBalance, RunningDistance DEF Aligned
  <1> QED
    BY <1>1, <1>2, <1>3 DEF ClockInv

(* A Clock spawned anew has no past either.                                *)
LEMMA FreshAligned ==
  ASSUME NEW c \in ClockConfigs, Fits(c), FreshClock(c)
  PROVE  ClockInv'
  <1>1. ConfigInv'
    BY DEF FreshClock, ConfigInv
  <1>2. PhaseInv'
    BY Constants DEF FreshClock, PhaseInv
  <1>3. Rate' \in Nat
    BY RateFits DEF FreshClock, Rate
  <1>4. Aligned'
    <2>1. /\ phase' = 0 /\ pulses' = 0 /\ samples' = 0
          /\ ~pulse' /\ high_remaining' = 0
      BY DEF FreshClock
    <2>2. ASSUME NEW M \in Nat, NEW R \in Nat PROVE 0 + 0 * M = 0 * R
      OBVIOUS
    <2>3. phase' + pulses' * Minute = samples' * Rate'
      BY <1>3, <2>1, <2>2, Constants
    <2>4. phase' < Minute
      BY <2>1, Constants
    <2>5. ~(pulse' \/ high_remaining' > 0)
      BY <2>1
    <2> QED
      BY <2>3, <2>4, <2>5 DEF Aligned
  <1> QED
    BY <1>1, <1>2, <1>4 DEF ClockInv

(* The parameters of a Clock that is loaded or restarted.                  *)
LEMMA AppliedConfig ==
  ASSUME NEW patch, Apply(patch)
  PROVE  LET raw == Completed(AsGiven(DefaultConfig), patch.clock) IN
         /\ Canonical(raw) \in ClockConfigs /\ Fits(Canonical(raw))
         /\ FreshClock(Canonical(raw)) /\ told_clock' = raw
         /\ \E b, q, w : told_clock' = [bpm |-> b, ppqn |-> q, pulse_width_ms |-> w]
  <1> DEFINE raw == Completed(AsGiven(DefaultConfig), patch.clock)
  <1>1. Accepted(raw) /\ FreshClock(Canonical(raw)) /\ told_clock' = raw
    BY DEF Apply, Heard, Completed
  <1>2. raw = [bpm |-> raw["bpm"], ppqn |-> raw["ppqn"], pulse_width_ms |-> raw["pulse_width_ms"]]
    <2>1. DOMAIN AsGiven(DefaultConfig) = {"bpm", "ppqn", "pulse_width_ms"}
      BY GivenRecord, Constants
    <2> QED
      BY <2>1 DEF Completed
  <1>3. Canonical(raw) \in ClockConfigs /\ Fits(Canonical(raw))
    <2> HIDE DEF raw
    <2> QED
      BY <1>1, <1>2, AcceptedIsConfig
  <1>4. \E b, q, w : told_clock' = [bpm |-> b, ppqn |-> q, pulse_width_ms |-> w]
    <2> HIDE DEF raw
    <2> QED
      BY <1>1, <1>2
  <1> QED
    BY <1>1, <1>3, <1>4

(* No step breaks the invariant.                                           *)
LEMMA StepAligned == ClockInv /\ [Next]_vars => ClockInv'
  <1> SUFFICES ASSUME ClockInv, [Next]_vars PROVE ClockInv'
    OBVIOUS
  <1>1. CASE Sample
    BY <1>1, SeparatorAligned, RunningAligned DEF Sample, ClockSample
  <1>2. CASE SetClockParameter
    BY <1>2, SetAligned DEF SetClockParameter
  <1>3. CASE UNCHANGED clockVars
    BY <1>3 DEF clockVars, historyVars, ClockInv, ConfigInv, PhaseInv, Aligned, Rate
  <1>4. CASE Load
    BY <1>4, AppliedConfig, FreshAligned DEF Load
  <1>5. CASE Restart
    BY <1>5, AppliedConfig, FreshAligned DEF Restart
  <1> QED
    BY <1>1, <1>2, <1>3, <1>4, <1>5
       DEF Next, SetLfoParameter, SetLabel, Repatch, vars

(* The phase, the samples and the pulses of an epoch stay aligned, through *)
(* parameters, loads and restarts.                                         *)
THEOREM ClockIsAligned == Spec => []ClockInv
  <1>1. Init => ClockInv
    BY InitAligned DEF Init
  <1> QED
    BY <1>1, StepAligned, PTL DEF Spec

(* The pulses of n samples of an epoch are n times the rate over a minute, *)
(* rounded down, for every accepted tempo and resolution.                  *)
THEOREM TempoIsHeld == Spec => []TempoHeld
  <1>1. ClockInv => TempoHeld
    <2> SUFFICES ASSUME ClockInv, ~restart_pending
                 PROVE  pulses = (samples * Rate) \div Minute
      BY DEF TempoHeld
    <2>1. /\ phase \in Nat /\ phase < Minute /\ pulses \in Nat
          /\ phase + pulses * Minute = samples * Rate
      BY DEF ClockInv, PhaseInv, Aligned
    <2>2. ASSUME NEW f \in Nat, NEW k \in Nat, NEW M \in Nat \ {0}, f < M
          PROVE  (f + k * M) \div M = k
      BY <2>2, SMTT(30)
    <2> QED
      BY <2>1, <2>2, Constants
  <1> QED
    BY <1>1, ClockIsAligned, PTL

(* A pulse never begins on the sample after a high one.                    *)
LEMMA LowBeforeRise ==
  ASSUME ClockInv, ClockSample, rose'
  PROVE  ~pulse
  <1> SUFFICES ASSUME pulse PROVE FALSE
    OBVIOUS
  <1>1. RunningSample
    BY DEF ClockSample, SeparatorSample
  <1>2. Rising
    BY <1>1 DEF RunningSample
  <1>3. ~fresh
    BY DEF ClockInv, PhaseInv
  <1>4. phase + Rate >= Minute
    BY <1>2, <1>3 DEF Rising, Wraps
  <1>5. /\ phase \in Nat /\ high_remaining \in Nat /\ Rate \in Nat \ {0}
        /\ phase + (high_remaining + 1) * Rate < Minute
    BY <1>1, RunningFacts DEF ClockInv, PhaseInv, Aligned
  <1>6. ASSUME NEW h \in Nat, NEW R \in Nat PROVE R <= (h + 1) * R
    BY SMTT(30)
  <1> QED
    BY <1>4, <1>5, <1>6, Constants

(* Between two pulses, and before the first after a change of parameters,  *)
(* comes a low sample, for every accepted width.                           *)
THEOREM PulsesAreSeparated == Spec => PulsesSeparated
  <1>1. ClockInv /\ [Next]_vars => [ClockSample /\ rose' => ~pulse]_clockVars
    BY LowBeforeRise
  <1> QED
    BY <1>1, ClockIsAligned, PTL DEF Spec, PulsesSeparated
-----------------------------------------------------------------------------
(* Once the cable has carried a sample, the LFO holds the last one of the  *)
(* Clock; a pulse that it can see is an edge to it.                        *)
SyncInv ==
  /\ lfo_config \in LfoConfigs
  /\ connected \in BOOLEAN /\ streak \in Nat
  /\ connected /\ streak > 0 => sync = pulse
  /\ struck => sync /\ ~previous_sync

(* A sample delivers the last value of the pulse, and after a low one.     *)
LEMMA SampleSyncs == ClockInv /\ SyncInv /\ Sample => SyncInv'
  <1> SUFFICES ASSUME ClockInv, SyncInv, Sample PROVE SyncInv'
    OBVIOUS
  <1>1. /\ lfo_config' = lfo_config /\ previous_sync' = sync
        /\ connected' = connected /\ sync' = (IF connected THEN pulse' ELSE sync_in)
        /\ struck' = (rose' /\ connected /\ streak > 0)
        /\ ClockSample /\ streak' \in Nat
    BY DEF Sample, ProduceLfo, ConsumeLfo, Delivered, SyncInv
  <1>2. rose' => ~pulse /\ pulse'
    <2>1. SUFFICES ASSUME rose' PROVE pulse'
      BY <1>1, LowBeforeRise
    <2>2. RunningSample
      BY <1>1, <2>1 DEF ClockSample, SeparatorSample
    <2>3. HighFor = config.pulse_width_ms
      BY <2>1, <2>2 DEF RunningSample, HighFor
    <2>4. config.pulse_width_ms > 0
      BY <2>2, RunningFacts
    <2> QED
      BY <2>2, <2>3, <2>4 DEF RunningSample
  <1>3. connected' /\ streak' > 0 => sync' = pulse'
    BY <1>1
  <1>4. struck' => sync' /\ ~previous_sync'
    <2> SUFFICES ASSUME struck' PROVE sync' /\ ~previous_sync'
      OBVIOUS
    <2>1. rose' /\ connected /\ streak > 0
      BY <1>1
    <2>2. sync = pulse
      BY <2>1 DEF SyncInv
    <2> QED
      BY <1>1, <1>2, <2>1, <2>2
  <1> QED
    BY <1>1, <1>3, <1>4 DEF SyncInv

(* No step breaks the agreement of sync input and pulse.                   *)
LEMMA StepSyncs == ClockInv /\ SyncInv /\ [Next]_vars => SyncInv'
  <1> SUFFICES ASSUME ClockInv, SyncInv, [Next]_vars PROVE SyncInv'
    OBVIOUS
  <1>1. CASE Sample
    BY <1>1, SampleSyncs
  <1>2. CASE SetClockParameter
    BY <1>2 DEF SetClockParameter, SetParameter, SetConfig, SyncInv, lfoVars, portVars
  <1>3. CASE SetLfoParameter
    <2>1. lfo_config' \in LfoConfigs
      BY <1>3 DEF SetLfoParameter, SetLfo
    <2> QED
      BY <1>3, <2>1 DEF SetLfoParameter, SetLfo, SyncInv, clockVars, portVars
  <1>4. CASE SetLabel
    BY <1>4 DEF SetLabel, SyncInv, clockVars, lfoVars, portVars
  <1>5. CASE Repatch
    <2>1. streak' = 0 /\ connected' = ~connected /\ UNCHANGED <<lfo_config, sync, previous_sync, struck>>
      BY <1>5 DEF Repatch, lfoVars
    <2> QED
      BY <2>1 DEF SyncInv
  <1>6. ASSUME NEW patch, Apply(patch), patch.connected \in BOOLEAN PROVE SyncInv'
    <2>1. /\ lfo_config' \in LfoConfigs
          /\ streak' = 0 /\ struck' = FALSE /\ connected' = patch.connected
      BY <1>6 DEF Apply, FreshLfo
    <2> QED
      BY <1>6, <2>1 DEF SyncInv
  <1>7. CASE Load
    BY <1>6, <1>7, DevicesAssumption DEF Load, DevicesAssumption
  <1>8. CASE Restart
    <2>1. Snapshot.connected \in BOOLEAN
      BY DEF Snapshot, SyncInv
    <2> QED
      BY <1>6, <1>8, <2>1 DEF Restart
  <1>9. CASE UNCHANGED vars
    BY <1>9 DEF vars, clockVars, lfoVars, portVars, SyncInv
  <1> QED
    BY <1>1, <1>2, <1>3, <1>4, <1>5, <1>7, <1>8, <1>9 DEF Next

(* Every pulse that reaches the LFO restarts its cycle one sample later.   *)
THEOREM SyncAlwaysAligns == Spec => SyncAligns
  <1>1. Init => SyncInv
    <2> SUFFICES ASSUME Init PROVE SyncInv
      OBVIOUS
    <2>1. /\ lfo_config \in LfoConfigs
          /\ streak = 0 /\ struck = FALSE /\ connected = FALSE
      BY LfoAssumption DEF LfoAssumption, Init, LfoInit
    <2> QED
      BY <2>1 DEF SyncInv
  <1>2. SyncInv /\ [Next]_vars =>
          [Sample /\ struck => bipolar_out' = Shape(lfo_config, lfo_config.phase_offset)]_vars
    <2> SUFFICES ASSUME SyncInv, Sample, struck
                 PROVE  bipolar_out' = Shape(lfo_config, lfo_config.phase_offset)
      OBVIOUS
    <2>1. Start = 0
      BY DEF SyncInv, Start
    <2>2. lfo_config.phase_offset \in 0 .. Cycle - 1 /\ Cycle \in Nat \ {0}
      BY LfoAssumption DEF LfoAssumption, SyncInv, LfoConfigs
    <2>3. (Start + lfo_config.phase_offset) % Cycle = lfo_config.phase_offset
      BY <2>1, <2>2
    <2> QED
      BY <2>3 DEF Sample, ProduceLfo
  <1> QED
    BY <1>1, <1>2, StepSyncs, ClockIsAligned, PTL DEF Spec, SyncAligns
-----------------------------------------------------------------------------
(* What was heard of every parameter of the Clock rounds to what it holds. *)
RoundsTo(heard, c) ==
  /\ Canonical(heard) = c
  /\ \E b, q, w : heard = [bpm |-> b, ppqn |-> q, pulse_width_ms |-> w]

(* What the listener has heard, and that every target has a label or none. *)
NoticeInv ==
  /\ NoticesTell
  /\ RoundsTo(told_clock, config)
  /\ labels = [t \in Targets |-> labels[t]]

(* What a getter says rounds to what it was asked of: nothing is rounded   *)
(* twice.                                                                  *)
LEMMA RoundedOnce ==
  ASSUME NEW c \in ClockConfigs
  PROVE  Resolved(2 * c.bpm) = c.bpm /\ Canonical(AsGiven(c)) = c
  <1>1. PICK b, q, w : /\ b \in Resolved(MinTempo) .. Resolved(MaxTempo)
                       /\ c = [bpm |-> b, ppqn |-> q, pulse_width_ms |-> w]
    BY DEF ClockConfigs
  <1>2. Resolved(MinTempo) \in Int /\ Resolved(MaxTempo) \in Int
    BY Constants DEF Resolved
  <1>3. Resolved(2 * b) = b
    BY <1>1, <1>2 DEF Resolved
  <1>4. c.bpm = b /\ c.ppqn = q /\ c.pulse_width_ms = w
    BY <1>1
  <1>5. Canonical(AsGiven(c)) = [bpm |-> Resolved(2 * b), ppqn |-> q, pulse_width_ms |-> w]
    BY <1>4, GivenRecord, CanonicalRecord
  <1> QED
    BY <1>1, <1>3, <1>4, <1>5

(* Tempo, resolution and width are rounded apart from each other: it makes *)
(* no difference to the others when one is set, whether they stand as they *)
(* were asked for or as they were stored.                                  *)
LEMMA RoundedApart ==
  ASSUME NEW c \in ClockConfigs, NEW heard, NEW p, NEW value, RoundsTo(heard, c)
  PROVE  RoundsTo([heard EXCEPT ![p] = value], Canonical([AsGiven(c) EXCEPT ![p] = value]))
  <1>1. PICK b, q, w : heard = [bpm |-> b, ppqn |-> q, pulse_width_ms |-> w]
    BY DEF RoundsTo
  <1>2. c = [bpm |-> Resolved(b), ppqn |-> q, pulse_width_ms |-> w]
    BY <1>1, CanonicalRecord DEF RoundsTo
  <1>3. c.bpm = Resolved(b) /\ c.ppqn = q /\ c.pulse_width_ms = w
    BY <1>2
  <1>4. AsGiven(c) = [bpm |-> 2 * c.bpm, ppqn |-> q, pulse_width_ms |-> w]
    BY <1>3, GivenRecord
  <1>5. Resolved(2 * c.bpm) = Resolved(b)
    BY <1>3, RoundedOnce
  <1> DEFINE New(x) == [bpm |-> IF p = "bpm" THEN value ELSE x,
                        ppqn |-> IF p = "ppqn" THEN value ELSE q,
                        pulse_width_ms |-> IF p = "pulse_width_ms" THEN value ELSE w]
  <1>6. [heard EXCEPT ![p] = value] = New(b)
    BY <1>1
  <1>7. [AsGiven(c) EXCEPT ![p] = value] = New(2 * c.bpm)
    BY <1>4
  <1>8. Canonical(New(b)) = Canonical(New(2 * c.bpm))
    <2>1. CASE p = "bpm"
      BY <2>1
    <2>2. CASE p # "bpm"
      <3> DEFINE q1 == IF p = "ppqn" THEN value ELSE q
                 w1 == IF p = "pulse_width_ms" THEN value ELSE w
      <3>1. /\ New(b) = [bpm |-> b, ppqn |-> q1, pulse_width_ms |-> w1]
            /\ New(2 * c.bpm) = [bpm |-> 2 * c.bpm, ppqn |-> q1, pulse_width_ms |-> w1]
        BY <2>2
      <3> HIDE DEF New, q1, w1
      <3>2. /\ Canonical(New(b)) = [bpm |-> Resolved(b), ppqn |-> q1, pulse_width_ms |-> w1]
            /\ Canonical(New(2 * c.bpm))
                 = [bpm |-> Resolved(2 * c.bpm), ppqn |-> q1, pulse_width_ms |-> w1]
        BY <3>1, CanonicalRecord
      <3> QED
        BY <1>5, <3>2
    <2> QED
      BY <2>1, <2>2
  <1>9. \E b1, q1, w1 : New(b) = [bpm |-> b1, ppqn |-> q1, pulse_width_ms |-> w1]
    OBVIOUS
  <1> HIDE DEF New
  <1> QED
    BY <1>6, <1>7, <1>8, <1>9 DEF RoundsTo

(* Loads and restarts announce what they set.                              *)
LEMMA ApplyTells ==
  ASSUME NEW patch, Apply(patch)
  PROVE  NoticeInv'
  <1>1. RoundsTo(told_clock, config)' /\ told_lfo' = lfo_config'
    <2>1. Canonical(told_clock') = config'
      BY AppliedConfig DEF FreshClock
    <2>2. told_lfo' = lfo_config'
      BY DEF Apply, FreshLfo, Heard, Completed
    <2> QED
      BY <2>1, <2>2, AppliedConfig DEF RoundsTo
  <1>2. /\ labels' = [t \in Targets |-> Stored(t, Text(patch.labels[t]))]
        /\ told_labels' = [t \in Targets |-> Text(patch.labels[t])]
    BY DEF Apply, Announced
  <1>3. \A t \in Targets : Text(labels'[t]) = Text(patch.labels[t])
    BY <1>2 DEF Text, Stored, NoLabel
  <1> QED
    BY <1>1, <1>2, <1>3 DEF NoticeInv, NoticesTell, Read, RoundsTo

(* Whoever hears the change messages knows every label and, but for the    *)
(* rounding, every parameter.                                              *)
THEOREM NoticesAlwaysTell == Spec => []NoticesTell
  <1>1. Init => NoticeInv
    <2> SUFFICES ASSUME Init PROVE NoticeInv
      OBVIOUS
    <2>1. RoundsTo(told_clock, config)
      BY Constants, RoundedOnce, GivenRecord DEF Init, ClockInit, RoundsTo
    <2> QED
      BY <2>1 DEF Init, LfoInit, NoticeInv, NoticesTell, Unlabelled, Read, RoundsTo
  <1>2. ClockInv /\ NoticeInv /\ [Next]_vars => NoticeInv'
    <2> SUFFICES ASSUME ClockInv, NoticeInv, [Next]_vars PROVE NoticeInv'
      OBVIOUS
    <2> USE DEF NoticeInv, NoticesTell, Read
    <2>1. CASE Sample
      BY <2>1 DEF Sample, ClockSample, SeparatorSample, RunningSample, ProduceLfo, noteVars
    <2>2. CASE SetClockParameter
      <3>1. PICK p \in DOMAIN Asked : \E value \in Asked[p] :
              /\ SetParameter(p, value)
              /\ told_clock' = [told_clock EXCEPT ![p] = value]
        BY <2>2 DEF SetClockParameter
      <3>2. PICK value \in Asked[p] :
              /\ SetParameter(p, value)
              /\ told_clock' = [told_clock EXCEPT ![p] = value]
        BY <3>1
      <3>3. config \in ClockConfigs
        BY DEF ClockInv, ConfigInv
      <3>4. config' = Canonical([AsGiven(config) EXCEPT ![p] = value])
        BY <3>2 DEF SetParameter, SetConfig
      <3>5. RoundsTo(told_clock, config)'
        BY <3>2, <3>3, <3>4, RoundedApart
      <3> QED
        BY <2>2, <3>5 DEF SetClockParameter, lfoVars, RoundsTo
    <2>3. CASE SetLfoParameter
      BY <2>3 DEF SetLfoParameter, SetLfo, clockVars
    <2>4. CASE SetLabel
      <3>1. PICK t \in Targets, text \in Texts \cup {""} :
              /\ labels' = [labels EXCEPT ![t] = Stored(t, text)]
              /\ told_labels' = [told_labels EXCEPT ![t] = text]
        BY <2>4 DEF SetLabel
      <3>2. Text(Stored(t, text)) = text
        BY DevicesAssumption DEF DevicesAssumption, Text, Stored, NoLabel
      <3> QED
        BY <2>4, <3>1, <3>2 DEF SetLabel, clockVars, lfoVars
    <2>5. CASE Repatch
      <3>1. Text(NoLabel) = ""
        BY DEF Text
      <3> QED
        BY <2>5, <3>1 DEF Repatch, Stripped, clockVars, lfoVars
    <2>6. CASE Load \/ Restart
      BY <2>6, ApplyTells DEF Load, Restart
    <2>7. CASE UNCHANGED vars
      BY <2>7 DEF vars, clockVars, lfoVars, noteVars
    <2> QED
      BY <2>1, <2>2, <2>3, <2>4, <2>5, <2>6, <2>7 DEF Next
  <1>3. NoticeInv => NoticesTell
    BY DEF NoticeInv
  <1> QED
    BY <1>1, <1>2, <1>3, ClockIsAligned, PTL DEF Spec
=============================================================================
