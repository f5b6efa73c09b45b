---------------------------- MODULE CommandQueue ----------------------------
(***************************************************************************)
(* The bounded FIFO of facade commands.  A slot is pending until its       *)
(* command runs or a reset cancels it, and is occupied until its outcome   *)
(* is collected.  process_commands pops and runs one command after the     *)
(* other; a queued Panic is a reset in the middle of that call.            *)
(***************************************************************************)
EXTENDS Integers, Sequences

CONSTANTS
  COMMAND_CAPACITY,   \* 64 in the code
  LastId,             \* u64::MAX in the code: no id reaches it
  Commands,
  Panic,              \* CoreCommand::Panic
  NoCommand           \* what a completed slot holds

ASSUME CommandAssumption ==
  /\ COMMAND_CAPACITY \in Nat \ {0}
  /\ LastId \in Nat
  /\ Panic \in Commands
  /\ NoCommand \notin Commands

VARIABLES
  slots,        \* CommandQueue::slots
  next_id,      \* CommandQueue::next_id
  processing,   \* process_commands is running
  outcomes,     \* the outcomes that call has collected
  told,         \* history: how many outcomes earlier calls have returned
  fence         \* history: next_id at the last successful reset

queueVars == <<slots, next_id, processing, outcomes, told, fence>>

Slot == [id : Nat, fate : {"pending", "cancelled"}, command : Commands \cup {NoCommand}]
Results == {"ok", "error"}
Outcome == [id : Nat, result : Results \cup {"cancelled"}]

QueueInit ==
  /\ slots = <<>> /\ next_id = 0
  /\ processing = FALSE /\ outcomes = <<>>
  /\ told = 0 /\ fence = 0

HasSlot == Len(slots) < COMMAND_CAPACITY

(* A full queue and an exhausted id leave everything unchanged.            *)
Enqueue(command) ==
  /\ ~processing
  /\ HasSlot
  /\ next_id < LastId
  /\ slots' = Append(slots, [id |-> next_id, fate |-> "pending", command |-> command])
  /\ next_id' = next_id + 1
  /\ UNCHANGED <<processing, outcomes, told, fence>>

Cancel(slot) == [id |-> slot.id, fate |-> "cancelled", command |-> NoCommand]

\* Mutant: cancelled commands leave the queue without an outcome.
CancelledSilently(queue) == SelectSeq(queue, LAMBDA s : s.fate = "cancelled")
Cancelled(queue) ==
  [i \in DOMAIN queue |->
     IF queue[i].fate = "pending" THEN Cancel(queue[i]) ELSE queue[i]]

(* cancel_pending, after a reset has silenced the rack. *)
CancelPending(queue) ==
  /\ slots' = Cancelled(queue)
  /\ fence' = next_id

HostResets ==
  /\ ~processing
  /\ CancelPending(slots)
  /\ UNCHANGED <<next_id, processing, outcomes, told>>

BeginProcess ==
  /\ ~processing
  /\ processing' = TRUE
  /\ UNCHANGED <<slots, next_id, outcomes, told, fence>>

Report(result) ==
  /\ outcomes' = Append(outcomes, [id |-> Head(slots).id, result |-> result])
  /\ UNCHANGED <<next_id, processing, told>>

CollectCancelled ==
  /\ processing /\ slots # <<>>
  /\ Head(slots).fate = "cancelled"
  /\ slots' = Tail(slots)
  /\ Report("cancelled")
  /\ UNCHANGED fence

Runs(command) ==
  /\ processing /\ slots # <<>>
  /\ Head(slots).fate = "pending"
  /\ Head(slots).command = command

(* The slot is gone before its command runs: a Panic does not cancel       *)
(* itself.                                                                 *)
RunPanic ==
  /\ Runs(Panic)
  /\ CancelPending(Tail(slots))
  /\ Report("ok")

RunCommand(command, result) ==
  /\ command # Panic
  /\ Runs(command)
  /\ slots' = Tail(slots)
  /\ Report(result)
  /\ UNCHANGED fence

EndProcess ==
  /\ processing /\ slots = <<>>
  /\ processing' = FALSE
  /\ told' = told + Len(outcomes)
  /\ outcomes' = <<>>
  /\ UNCHANGED <<slots, next_id, fence>>

QueueNext ==
  \/ \E c \in Commands : Enqueue(c)
  \/ HostResets
  \/ BeginProcess
  \/ CollectCancelled
  \/ RunPanic
  \/ \E c \in Commands, r \in Results : RunCommand(c, r)
  \/ EndProcess

QueueSpec == QueueInit /\ [][QueueNext]_queueVars
-----------------------------------------------------------------------------
QueueTypeOK ==
  /\ slots \in Seq(Slot)
  /\ next_id \in 0 .. LastId
  /\ processing \in BOOLEAN
  /\ outcomes \in Seq(Outcome)
  /\ ~processing => outcomes = <<>>
  /\ told \in Nat
  /\ fence \in 0 .. next_id

(* Every accepted command has exactly one place: its outcome has been      *)
(* returned, is in the list being collected, or is still owed by a slot;   *)
(* and all three are in the order of acceptance, so outcomes are returned  *)
(* once each and in FIFO order, whatever was cancelled on the way          *)
(* (CommandQueue::enqueue, cancel_pending, process_commands).              *)
ExactlyOnce ==
  /\ told + Len(outcomes) + Len(slots) = next_id
  /\ \A i \in DOMAIN outcomes : outcomes[i].id = told + i - 1
  /\ \A i \in DOMAIN slots : slots[i].id = told + Len(outcomes) + i - 1

(* A command runs only if no reset has succeeded since it was accepted,    *)
(* and one is reported as cancelled only if a reset has: pending slots are *)
(* exactly those younger than the last reset, also while process_commands  *)
(* is in the middle of a queue that holds a Panic.                         *)
ResetCancelsPending ==
  \A i \in DOMAIN slots : slots[i].fate = "pending" <=> slots[i].id >= fence

(* The results a caller has not been told of never exceed the capacity:    *)
(* a queued command keeps its slot until it is collected.                  *)
WithinCapacity == Len(slots) + Len(outcomes) <= COMMAND_CAPACITY
=============================================================================
