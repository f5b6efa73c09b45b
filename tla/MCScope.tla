------------------------------ MODULE MCScope ------------------------------
(***************************************************************************)
(* Two modules with one scalar port and one MIDI port each, at most two    *)
(* selectors, captures of one or three records and two samples a life.     *)
(***************************************************************************)
EXTENDS Scope, TLC

NameSymmetry == Permutations(Names)
=============================================================================
