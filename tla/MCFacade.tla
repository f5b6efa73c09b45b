------------------------------ MODULE MCFacade ------------------------------
(***************************************************************************)
(* Two names and two kinds, one of which two types compete for; a patch    *)
(* with one module, one with two and one that does not spawn.              *)
(***************************************************************************)
EXTENDS Facade

MCKindOf == [first |-> "clock", rival |-> "clock", second |-> "lfo"]
MCContents ==
  [solo |-> [a |-> "clock"],
   duo  |-> [a |-> "lfo", b |-> "clock"],
   bad  |-> [a |-> "clock"]]
MCPanic == [op |-> "panic", arg |-> None]
MCCommands ==
  {MCPanic, [op |-> "load", arg |-> "solo"], [op |-> "set", arg |-> "b"], [op |-> "bpm", arg |-> None]}
=============================================================================
