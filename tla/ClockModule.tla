----------------------------- MODULE ClockModule -----------------------------
(***************************************************************************)
(* The Clock module of the rack: a phase accumulator that raises a gate    *)
(* pulse for every pulse of the tempo, one sample a millisecond.  Tempi    *)
(* are given in half steps of the resolution, so that some are rounded,    *)
(* and kept in whole ones.  Parameters change one at a time, between       *)
(* samples, and start a new epoch after one low sample.                    *)
(***************************************************************************)
EXTENDS Integers

CONSTANTS
  Minute,              \* MILLIS_PER_MINUTE: what the phase wraps at
  MinTempo, MaxTempo,  \* 1.0 and 1000.0 BPM, in half steps
  MaxPpqn, MaxWidth,   \* 96 and 1000
  Asked,               \* the values asked of each parameter: a bound
  DefaultConfig        \* ClockConfig::default

Resolved(tempo) == (tempo + 1) \div 2
ClockConfigs ==
  [bpm : Resolved(MinTempo) .. Resolved(MaxTempo), ppqn : 1 .. MaxPpqn,
   pulse_width_ms : 1 .. MaxWidth]

VARIABLES
  config,            \* Clock::config, the tempo in whole steps
  phase,             \* Clock::phase
  high_remaining,    \* Clock::high_remaining
  fresh,             \* Clock::fresh
  restart_pending,   \* Clock::restart_pending
  pulse,             \* the value of the pulse port
  rose,              \* history: the last sample began a pulse
  samples, pulses    \* history: samples and pulses after the first of the epoch

historyVars == <<rose, samples, pulses>>
clockVars == <<config, phase, high_remaining, fresh, restart_pending, pulse, historyVars>>

RateOf(c) == c.bpm * c.ppqn
Rate == RateOf(config)

(* ClockConfig::try_new: the tempo is rounded once its range is checked,   *)
(* and a low sample must fit between two pulses.  A value of another type, *)
(* or not finite, is like one out of range.                                *)
InRange(raw) ==
  raw.bpm \in MinTempo .. MaxTempo /\ raw.ppqn \in 1 .. MaxPpqn
  /\ raw.pulse_width_ms \in 1 .. MaxWidth
Canonical(raw) == [raw EXCEPT !.bpm = Resolved(@)]
\* Mutant: the pulse may last until the next one.
FitsTouching(c) == Minute \div RateOf(c) >= c.pulse_width_ms
Fits(c) == Minute \div RateOf(c) >= c.pulse_width_ms + 1
Accepted(raw) == InRange(raw) /\ Fits(Canonical(raw))

ClockAssumption ==
  /\ Minute \in Nat \ {0}
  /\ MinTempo \in Nat \ {0} /\ MaxTempo \in Nat /\ MaxPpqn \in Nat /\ MaxWidth \in Nat
  /\ DefaultConfig \in ClockConfigs /\ Fits(DefaultConfig)
ASSUME ClockAssumption

(* The raw configuration set_parameter starts from: what the getters say.  *)
AsGiven(c) == [c EXCEPT !.bpm = 2 * @]

(* Clock::new, with the port at its default. *)
FreshClock(c) ==
  /\ config' = c
  /\ phase' = 0 /\ high_remaining' = 0
  /\ fresh' = TRUE /\ restart_pending' = FALSE
  /\ pulse' = FALSE
  /\ rose' = FALSE /\ samples' = 0 /\ pulses' = 0

ClockInit ==
  /\ config = DefaultConfig
  /\ phase = 0 /\ high_remaining = 0
  /\ fresh = TRUE /\ restart_pending = FALSE
  /\ pulse = FALSE
  /\ rose = FALSE /\ samples = 0 /\ pulses = 0
-----------------------------------------------------------------------------
(* set_parameter and Clock::set_config.  A refused value changes nothing.  *)
\* Mutant: setting a value again forgets the separator that is due.
PendingAfterLast(c) == config # c
PendingAfter(c) == restart_pending \/ config # c
SetConfig(c) ==
  /\ config' = c
  /\ restart_pending' = PendingAfter(c)
  /\ UNCHANGED <<phase, high_remaining, fresh, pulse, historyVars>>

\* Mutant: the parameters that are not set fall back to their defaults.
SetParameterAlone(p, value) ==
  LET raw == [AsGiven(DefaultConfig) EXCEPT ![p] = value] IN
  Accepted(raw) /\ SetConfig(Canonical(raw))
SetParameter(p, value) ==
  LET raw == [AsGiven(config) EXCEPT ![p] = value] IN
  Accepted(raw) /\ SetConfig(Canonical(raw))
-----------------------------------------------------------------------------
(* Clock::next_sample and produce_clock_pulses. *)

\* Mutant: a change starts its epoch at once.
SeparatorSkipped == FALSE
Separator == restart_pending
SeparatorSample ==
  /\ Separator
  /\ restart_pending' = FALSE
  /\ phase' = 0 /\ high_remaining' = 0
  /\ fresh' = TRUE
  /\ pulse' = FALSE
  /\ rose' = FALSE /\ samples' = 0 /\ pulses' = 0
  /\ UNCHANGED config

Wraps == phase + Rate >= Minute
\* Mutant: what is over after a wrap is thrown away.
AdvancedFromZero == IF Wraps THEN 0 ELSE phase + Rate
Advanced == IF Wraps THEN phase + Rate - Minute ELSE phase + Rate
Rising == fresh \/ Wraps
HighFor == IF Rising THEN config.pulse_width_ms ELSE high_remaining

RunningSample ==
  /\ ~Separator
  /\ fresh' = FALSE
  /\ phase' = IF fresh THEN phase ELSE Advanced
  /\ pulse' = (HighFor > 0)
  /\ high_remaining' = IF HighFor > 0 THEN HighFor - 1 ELSE 0
  /\ rose' = Rising
  /\ samples' = IF fresh THEN 0 ELSE IF samples = Minute THEN 1 ELSE samples + 1
  /\ pulses' = (IF samples = Minute THEN 0 ELSE pulses) + (IF Wraps /\ ~fresh THEN 1 ELSE 0)
  /\ UNCHANGED <<config, restart_pending>>

ClockSample == SeparatorSample \/ RunningSample

-----------------------------------------------------------------------------
(* Properties. *)

(* The types of the state. *)
ClockTypeOK ==
  /\ config \in ClockConfigs
  /\ phase \in 0 .. Minute - 1
  /\ high_remaining \in 0 .. MaxWidth
  /\ {fresh, restart_pending, pulse, rose} \subseteq BOOLEAN
  /\ samples \in 0 .. Minute /\ pulses \in Nat

(* Every pulse begins with a low sample before it, also when the tempo or  *)
(* the width changes in the middle of one: a module that looks for edges   *)
(* misses none.                                                            *)
PulsesSeparated == [][ClockSample /\ rose' => ~pulse]_clockVars

(* An epoch of n samples has as many pulses as the tempo asks for, to the  *)
(* sample: the error never adds up.                                        *)
TempoHeld == ~restart_pending => pulses = (samples * Rate) \div Minute
=============================================================================
