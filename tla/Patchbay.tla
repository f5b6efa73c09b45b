------------------------------ MODULE Patchbay ------------------------------
(***************************************************************************)
(* What the patch graph promises its user, without cable entities, index   *)
(* maps, ordinals or a cached propagation order: from an output to an      *)
(* input there is a line of cables, in the order they were plugged in.     *)
(* Live cables join an output to an input; a patch file may do otherwise.  *)
(***************************************************************************)
EXTENDS Jacks, SequencesExt

CONSTANT LoadedPatches   \* each [modules, lines]: a valid patch as lines

VARIABLES
  modules,   \* the live modules
  lines,     \* the transforms of the cables from one port to another
  held,      \* the value each port holds
  reply      \* the occurrence the last connection was given

bayVars == <<modules, lines, held, reply>>

Present(p) == Owner[p] \in modules

(* There is a way from module m to itself through at least one cable       *)
(* between different modules.                                              *)
Wired(ls) == {<<Owner[e[1]], Owner[e[2]]>> : e \in {d \in Ports \X Ports : ls[d] # <<>>}}
Looped(edges) ==
  \E S \in (SUBSET Modules) \ {{}} :
    \A m \in S : \E n \in S \ {m} : <<m, n>> \in edges

(* Who feeds port p with a value: the source and the place of the cable in *)
(* its line.  The values arrive in name order of the sources, then in      *)
(* cable order.                                                            *)
Feeds(p) ==
  UNION {{s} \X {k \in DOMAIN lines[<<s, p>>] : Carries(s, lines[<<s, p>>][k])} : s \in Ports}
ByName(F) ==
  {e \in F \X F : e[1][1] < e[2][1] \/ (e[1][1] = e[2][1] /\ e[1][2] < e[2][2])}
Arriving(p) ==
  LET feeds == InOrder(Feeds(p), ByName(Feeds(p))) IN
  [n \in DOMAIN feeds |-> Contribution(feeds[n][1], lines[<<feeds[n][1], p>>][feeds[n][2]])]

Init ==
  /\ modules = {}
  /\ lines = [e \in Ports \X Ports |-> <<>>]
  /\ held = [p \in Ports |-> Silence]
  /\ reply = 0

Load(patch) ==
  /\ UNCHANGED reply
  /\ modules' = patch.modules
  /\ lines' = patch.lines
  /\ held' = [p \in Ports |-> Silence]

(* A restart keeps the wiring, the order of the cables included. *)
Restart ==
  /\ held' = [p \in Ports |-> Silence]
  /\ UNCHANGED <<modules, lines, reply>>

Connect(s, t, transform) ==
  /\ UNCHANGED <<modules, held>>
  /\ Present(s) /\ Present(t)
  /\ Delivers(transform, Kind[s], Kind[t])
  /\ IsValidFor(Policy[t], Kind[t])
  /\ Policy[t] = "Reject" => \A p \in Ports : lines[<<p, t>>] = <<>>
  /\ reply' = Len(lines[<<s, t>>])
  /\ lines' = [lines EXCEPT ![<<s, t>>] = Append(@, transform)]
  /\ ~Looped(Wired(lines'))

(* Pull the cable at position k of the line, counting from zero. *)
Disconnect(s, t, k) ==
  /\ UNCHANGED <<modules, held, reply>>
  /\ k < Len(lines[<<s, t>>])
  /\ lines' = [lines EXCEPT ![<<s, t>>] = RemoveAt(@, k + 1)]

Retire(m) ==
  /\ UNCHANGED reply
  /\ m \in modules
  /\ modules' = modules \ {m}
  /\ held' = [p \in Ports |-> IF Owner[p] = m THEN Silence ELSE held[p]]
  /\ lines' = [e \in Ports \X Ports |-> IF m \in {Owner[e[1]], Owner[e[2]]} THEN <<>> ELSE lines[e]]

(* Every sample delivers what the present wiring carries, to all inputs at *)
(* once; an input nothing reaches keeps its value.                         *)
Sample ==
  /\ UNCHANGED <<modules, lines, reply>>
  /\ held' = [p \in Ports |->
                IF Direction[p] = "Input" /\ Arriving(p) # <<>>
                THEN Merged(Policy[p], Arriving(p)) ELSE held[p]]

Next ==
  \/ Sample
  \/ Restart
  \/ \E m \in Modules : Retire(m)
  \/ \E patch \in LoadedPatches : Load(patch)
  \/ \E e \in JackPairs, transform \in Transforms : Connect(e[1], e[2], transform)
  \/ \E s, t \in Ports : \E k \in 0 .. Len(lines[<<s, t>>]) : Disconnect(s, t, k)

Spec == Init /\ [][Next]_bayVars
=============================================================================
