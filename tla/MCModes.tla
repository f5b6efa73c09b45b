------------------------------ MODULE MCModes -------------------------------
(***************************************************************************)
(* The loops of the real-time thread beside that of RtMaster: the slave    *)
(* clock, the passthrough clock, and the messages that pass through any of *)
(* them.  rt_thread_main branches on its ClockMode once and stays there.   *)
(* The messages are followed in the master's branch, whose loop MidiPath   *)
(* takes without its clock.                                                *)
(***************************************************************************)
EXTENDS Passthrough, MidiPath

CONSTANTS Gaps, SlaveTimeout, SlaveSkew, SlaveCapacity, MaxAge, MaxLag, MaxLead

VARIABLES
  clock_mode,    \* ClockMode of the runtime's configuration
  count, filtered, since, ticking, due, slave_running, slave_thread, slave_bytes, slave_wire,
  lead, slept, free

slaveVars ==
  <<count, filtered, since, ticking, due, slave_running, slave_thread, slave_bytes, slave_wire,
    lead, slept, free>>

S == INSTANCE Slave WITH
       Timeout <- SlaveTimeout, Skew <- SlaveSkew, InputCapacity <- SlaveCapacity,
       is_running <- slave_running, thread <- slave_thread,
       bytes <- slave_bytes, wire <- slave_wire

ASSUME SlaveClockAssumption == S!SlaveAssumption

(* Two ports, with messages that the codec treats in ways of their own, a  *)
(* Start and a clock byte; the first port goes to both outputs, the second *)
(* joins it in one.                                                        *)
MCPlayable == [p \in InPorts |-> IF p = 0 THEN {<<224, 1, 64>>, <<250>>}
                                 ELSE {<<144, 60, 0>>, <<248>>}]
MCRoutes == [p \in InPorts |-> IF p = 0 THEN <<"a", "b">> ELSE <<"a">>]

(* rt_thread_main.  The wire of a slave clock matters to a slave only. *)
ModesInit ==
  /\ clock_mode \in {"slave", "passthrough", "master"}
  /\ Init /\ S!Init /\ PathInit
  /\ clock_mode = "slave" \/ slave_wire = CHOOSE gap \in Gaps : TRUE
OthersRest == UNCHANGED <<vars, pathVars, clock_mode>>
SlaveLoop == clock_mode = "slave" /\ S!LoopStep /\ OthersRest
SlaveArrive == clock_mode = "slave" /\ S!Arrive /\ OthersRest
SlaveTime == clock_mode = "slave" /\ S!TimePasses /\ OthersRest
SlaveEvent == clock_mode = "slave" /\ (S!TakeTransport \/ S!Shutdown) /\ OthersRest
PassthroughStep ==
  clock_mode = "passthrough" /\ Next /\ UNCHANGED <<slaveVars, pathVars, clock_mode>>
MidiStep == clock_mode = "master" /\ PathNext /\ UNCHANGED <<slaveVars, vars, clock_mode>>

modesVars == <<vars, slaveVars, pathVars, clock_mode>>
ModesNext == SlaveLoop \/ SlaveArrive \/ SlaveTime \/ SlaveEvent \/ PassthroughStep \/ MidiStep

(* The loop does not rest except to sleep, and clocks do not stand still.  *)
ModesSpec ==
  /\ ModesInit /\ [][ModesNext]_modesVars
  /\ WF_modesVars(SlaveLoop) /\ WF_modesVars(SlaveArrive) /\ WF_modesVars(SlaveTime)
-----------------------------------------------------------------------------
(* A slave clock whose source falls silent free-runs for five ticks and    *)
(* the lead of its stamps at most: Slave states it.                        *)
FreeRunIsBounded == S!FreeRunIsBounded

(* A slave clock locks on to a source that settles: Slave states it.       *)
LocksOn == clock_mode = "slave" => S!LocksOn
=============================================================================
