------------------------------- MODULE MCRack -------------------------------
(***************************************************************************)
(* Small instances of Rack for TLC.                                        *)
(***************************************************************************)
EXTENDS Rack, TLC

Bound(names, chan, routes) ==
  [names |-> names,
   config |-> [n \in Names |-> IF n \in names
                               THEN [channel |-> chan[n], routes |-> routes[n]]
                               ELSE NoConfig]]

(* Two sinks whose name order is not their channel order, one routed.      *)
CrossedPatch == Bound({1, 2}, <<1, 0>>, <<{"noise", "velocity"}, {}>>)
(* One sink on the channel the other patch gives to another name.          *)
SinglePatch == Bound({1}, <<0>>, <<{"note"}>>)
(* Two sinks on one channel: its load is refused.                          *)
ClashingPatch == Bound({1, 2}, <<0, 0>>, <<{}, {}>>)

MCPatches == {CrossedPatch, SinglePatch, ClashingPatch}

NoteSymmetry == Permutations(Notes)
=============================================================================
