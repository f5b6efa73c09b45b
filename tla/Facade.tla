------------------------------- MODULE Facade -------------------------------
(***************************************************************************)
(* The facade around one Bevy App: module types are installed and replayed *)
(* into every new App, a patch load, a restart or an unload builds a       *)
(* candidate App and swaps it in, handles are bound to one module instance *)
(* of one lifetime, and queued commands do the same through the queue.     *)
(* Voices and the output buffer are modelled in Rack: here a call may or   *)
(* may not leave MIDI behind.                                              *)
(***************************************************************************)
EXTENDS CommandQueue, FiniteSets

CONSTANTS
  Names,       \* module instance names
  Types,       \* Rust types that implement OxurackModule
  KindOf,      \* the kind each type claims
  Patches,     \* patch files
  Contents,    \* the kind of every module a patch file names
  Spawnable,   \* the patch files that parse, validate and spawn in silence
  None,
  MaxLives     \* configurations committed after the first: a bound

Kinds == {KindOf[t] : t \in Types}
Content == UNION {[S -> Kinds] : S \in SUBSET Names}
Modules == UNION {[S -> [kind : Kinds, born : Nat]] : S \in SUBSET Names}

ASSUME FacadeAssumption ==
  /\ Contents \in [Patches -> Content]
  /\ \A S \in SUBSET Names : None \notin [S -> [kind : Kinds, born : Nat]]
  /\ Spawnable \subseteq Patches
  /\ Commands \subseteq [op : {"load", "set", "bpm", "panic"}, arg : Patches \cup Names \cup {None}]
  /\ MaxLives \in Nat

VARIABLES
  installed,         \* install_order
  registry,          \* the types whose systems the current App has
  running,           \* SimulationRunning
  sounding,          \* the output buffer holds undrained messages
  modules,           \* PatchHandle::modules, or None; with the life a module was born in
  loaded_identity,   \* a patch is loaded
  lifetime_token,
  instance_tokens,
  handle             \* one Handle the host holds, or None

appVars == <<registry, modules>>
tokenVars == <<lifetime_token, instance_tokens>>
worldVars == <<registry, modules, loaded_identity, lifetime_token, instance_tokens>>
vars == <<queueVars, installed, worldVars, running, sounding, handle>>

Live == IF modules = None THEN {} ELSE DOMAIN modules
NoTokens == [n \in {} |-> 0]

Init ==
  /\ QueueInit
  /\ installed = <<>> /\ registry = <<>>
  /\ running = FALSE /\ sounding = FALSE
  /\ modules = None /\ loaded_identity = FALSE
  /\ lifetime_token = 0 /\ instance_tokens = NoTokens
  /\ handle = None
-----------------------------------------------------------------------------
TypesIn(types) == {types[i] : i \in DOMAIN types}
KindsIn(types) == {KindOf[t] : t \in TypesIn(types)}
TypeOf(kind) == CHOOSE t \in TypesIn(installed) : KindOf[t] = kind

(* try_install: a kind is claimed once, by the first type that asks.       *)
Unclaimed(t) == KindOf[t] \notin KindsIn(installed)

Install(t) ==
  /\ ~processing
  /\ Unclaimed(t)
  /\ installed' = Append(installed, t)
  /\ registry' = Append(registry, t)
  /\ UNCHANGED <<queueVars, running, sounding, modules, loaded_identity, tokenVars, handle>>

Start ==
  /\ ~processing /\ ~running
  /\ running' = TRUE
  /\ UNCHANGED <<queueVars, installed, worldVars, sounding, handle>>

Stop ==
  /\ ~processing /\ running
  /\ running' = FALSE
  /\ UNCHANGED <<queueVars, installed, worldVars, sounding, handle>>

Play ==
  /\ ~processing /\ running /\ ~sounding
  /\ sounding' = TRUE
  /\ UNCHANGED <<queueVars, installed, worldVars, running, handle>>

DrainMidi ==
  /\ ~processing /\ sounding
  /\ sounding' = FALSE
  /\ UNCHANGED <<queueVars, installed, worldVars, running, handle>>

StoppedAndDrained == ~running /\ ~sounding

(* Every kind of the patch is known to the candidate's registry.           *)
Known(content) == {content[n] : n \in DOMAIN content} \subseteq KindsIn(installed)

\* Mutant: unloading forgets to replay the installed types.
CommitBare(content, loaded) ==
  /\ lifetime_token < MaxLives
  /\ registry' = IF loaded THEN installed ELSE <<>>
  /\ modules' = IF loaded THEN [n \in DOMAIN content |-> [kind |-> content[n], born |-> lifetime_token + 1]]
                          ELSE None
  /\ loaded_identity' = loaded
  /\ lifetime_token' = lifetime_token + 1
  /\ instance_tokens' = [n \in DOMAIN content |-> lifetime_token + 1]
  /\ running' = FALSE
  /\ sounding' \in BOOLEAN

(* commit: the candidate replaces the App.  The tokens of one commit are   *)
(* fresh and share its number: an instance token is only ever compared     *)
(* with that of the same name.  The candidate carries the old voices'      *)
(* cleanup.                                                                *)
Commit(content, loaded) ==
  /\ lifetime_token < MaxLives
  /\ registry' = installed
  /\ modules' = IF loaded THEN [n \in DOMAIN content |-> [kind |-> content[n], born |-> lifetime_token + 1]]
                          ELSE None
  /\ loaded_identity' = loaded
  /\ lifetime_token' = lifetime_token + 1
  /\ instance_tokens' = [n \in DOMAIN content |-> lifetime_token + 1]
  /\ running' = FALSE
  /\ sounding' \in BOOLEAN

Loads(patch) == StoppedAndDrained /\ patch \in Spawnable /\ Known(Contents[patch])

LoadPatch(patch) ==
  /\ ~processing
  /\ Loads(patch)
  /\ Commit(Contents[patch], TRUE)
  /\ UNCHANGED <<queueVars, installed, handle>>

(* The snapshot of the live modules, loaded again.                         *)
Snapshot == [n \in Live |-> modules[n].kind]

Restart ==
  /\ ~processing
  /\ StoppedAndDrained
  /\ loaded_identity
  /\ Known(Snapshot)
  /\ Commit(Snapshot, TRUE)
  /\ UNCHANGED <<queueVars, installed, handle>>

UnloadPatch ==
  /\ ~processing
  /\ StoppedAndDrained
  /\ loaded_identity
  /\ Commit([n \in {} |-> None], FALSE)
  /\ UNCHANGED <<queueVars, installed, handle>>

Without(f, n) == [m \in DOMAIN f \ {n} |-> f[m]]

(* remove_module: the App, its lifetime and the other instances stay.      *)
RemoveModule(n) ==
  /\ ~processing
  /\ StoppedAndDrained
  /\ n \in Live
  /\ modules' = Without(modules, n)
  /\ instance_tokens' = Without(instance_tokens, n)
  /\ sounding' \in BOOLEAN
  /\ UNCHANGED <<queueVars, installed, registry, running, loaded_identity, lifetime_token, handle>>

(* reset: silence, then cancel.  RackProofs shows that silence never fails.*)
Reset ==
  /\ HostResets
  /\ sounding' \in {sounding, TRUE}
  /\ UNCHANGED <<installed, worldVars, running, handle>>
-----------------------------------------------------------------------------
\* Mutant: a load starts over with an empty queue.
ExecuteLoadCancelling(c) ==
  /\ c.op = "load"
  /\ \/ /\ Loads(c.arg) /\ Commit(Contents[c.arg], TRUE)
        /\ Runs(c) /\ slots' = <<>> /\ Report("ok") /\ UNCHANGED fence
     \/ ~Loads(c.arg) /\ RunCommand(c, "error") /\ UNCHANGED <<worldVars, running, sounding>>
  /\ UNCHANGED <<installed, handle>>

(* execute_command: names are resolved in the patch that is loaded when    *)
(* the command runs.  A setter may still refuse the value.                 *)
ExecuteLoad(c) ==
  /\ c.op = "load"
  /\ \/ Loads(c.arg) /\ Commit(Contents[c.arg], TRUE) /\ RunCommand(c, "ok")
     \/ ~Loads(c.arg) /\ RunCommand(c, "error") /\ UNCHANGED <<worldVars, running, sounding>>
  /\ UNCHANGED <<installed, handle>>

ExecuteSet(c) ==
  /\ c.op \in {"set", "bpm"}
  /\ \E r \in Results :
       /\ r = "ok" => IF c.op = "bpm" THEN loaded_identity ELSE c.arg \in Live
       /\ RunCommand(c, r)
  /\ UNCHANGED <<installed, worldVars, running, sounding, handle>>

ExecutePanic ==
  /\ RunPanic
  /\ sounding' \in {sounding, TRUE}
  /\ UNCHANGED <<installed, worldVars, running, handle>>

QueueStep ==
  /\ \/ \E c \in Commands : Enqueue(c)
     \/ BeginProcess
     \/ CollectCancelled
     \/ EndProcess
  /\ UNCHANGED <<installed, worldVars, running, sounding, handle>>
-----------------------------------------------------------------------------
(* module::<M>: the type that installed the module's kind must be M.       *)
Bindable(n, t) ==
  /\ n \in Live /\ n \in DOMAIN instance_tokens
  /\ modules[n].kind \in KindsIn(installed)
  /\ TypeOf(modules[n].kind) = t

Bind(n, t) ==
  /\ ~processing
  /\ Bindable(n, t)
  /\ handle' = [name |-> n, type |-> t, lifetime |-> lifetime_token,
                instance |-> instance_tokens[n], born |-> modules[n].born]
  /\ UNCHANGED <<queueVars, installed, worldVars, running, sounding>>

\* Mutant: a handle is as good as its name.
ValidByName(h) == h.name \in Live
(* validate_bound: the lifetime, the instance token and the name.          *)
Valid(h) ==
  /\ h.name \in DOMAIN instance_tokens
  /\ h.lifetime = lifetime_token
  /\ h.instance = instance_tokens[h.name]
  /\ h.name \in Live

Next ==
  \/ \E t \in Types : Install(t)
  \/ Start \/ Stop \/ Play \/ DrainMidi
  \/ \E p \in Patches : LoadPatch(p)
  \/ Restart \/ UnloadPatch
  \/ \E n \in Names : RemoveModule(n)
  \/ Reset
  \/ \E c \in Commands : ExecuteLoad(c) \/ ExecuteSet(c)
  \/ ExecutePanic
  \/ QueueStep
  \/ \E n \in Names, t \in Types : Bind(n, t)

Spec == Init /\ [][Next]_vars
-----------------------------------------------------------------------------
Handle == [name : Names, type : Types, lifetime : Nat, instance : Nat, born : Nat]

TypeOK ==
  /\ QueueTypeOK
  /\ installed \in Seq(Types) /\ registry \in Seq(Types)
  /\ running \in BOOLEAN /\ sounding \in BOOLEAN
  /\ modules # None => /\ DOMAIN modules \subseteq Names
                       /\ \A n \in Live : modules[n] \in [kind : Kinds, born : 1 .. MaxLives]
  /\ loaded_identity \in BOOLEAN
  /\ lifetime_token \in 0 .. MaxLives
  /\ DOMAIN instance_tokens \subseteq Names
  /\ \A n \in DOMAIN instance_tokens : instance_tokens[n] \in 1 .. MaxLives
  /\ handle \in Handle \cup {None}

(* A handle the facade accepts reaches the very instance it was bound to,  *)
(* seen through the type it was bound with: after a removal, restart,      *)
(* unload or load, even of the same names, it is refused as stale          *)
(* (Oxurack::validate_bound, commit).                                      *)
HandlesStayHome ==
  handle # None /\ Valid(handle) =>
    /\ handle.born = modules[handle.name].born
    /\ TypeOf(modules[handle.name].kind) = handle.type

(* What the facade keeps beside the App agrees with what the App holds:    *)
(* the same types in the same order, a loaded patch exactly when there is  *)
(* an identity to save and restart it under, a token for exactly the live  *)
(* modules (install_order, loaded_identity, instance_tokens).              *)
FacadeAgreesWithApp ==
  /\ registry = installed
  /\ loaded_identity <=> modules # None
  /\ DOMAIN instance_tokens = Live

(* The queue behaves as CommandQueue says, whatever its commands do to the *)
(* App: a load in the middle of the queue neither loses, repeats nor       *)
(* cancels what is behind it (Oxurack::process_commands).                  *)
ImplementsQueue == QueueSpec
=============================================================================
