------------------------------ MODULE MCSlave -------------------------------
(***************************************************************************)
(* Small instances of Slave.                                               *)
(***************************************************************************)
EXTENDS Slave
=============================================================================
