----------------------------- MODULE MCRtMaster -----------------------------
(***************************************************************************)
(* Small instances of RtMaster: four pulses to the beat.                   *)
(***************************************************************************)
EXTENDS RtMaster

AllCommands == Command
TransportCommands == {Transport(w) : w \in {"Start", "Stop", "Continue"}}
LifeCommands == {Transport("Stop"), Transport("Continue"), [type |-> "shutdown"]}
=============================================================================
