---------------------------- MODULE FacadeProofs ----------------------------
(***************************************************************************)
(* For every capacity and every set of commands, the facade's queue        *)
(* returns one outcome per accepted command, in order, and a reset parts   *)
(* what may still run from what is cancelled.  For all names, types and    *)
(* patches, whatever is loaded, restarted, removed and unloaded: the       *)
(* facade keeps the queue's promise, agrees with its App, and accepts a    *)
(* handle only for the instance it was bound to.                           *)
(***************************************************************************)
EXTENDS Facade, TLAPS

-----------------------------------------------------------------------------
(* The queue. *)

(* The three facts rest on each other: that a popped slot's outcome is the *)
(* next one owed needs the positions, the fence needs the ids to be below  *)
(* next_id, and the room needs the slots popped by the call.               *)
QueueInv == QueueTypeOK /\ ExactlyOnce /\ ResetCancelsPending /\ WithinCapacity

(* Initially nothing is queued. *)
LEMMA QueueInitInv == QueueInit => QueueInv
<1> SUFFICES ASSUME QueueInit PROVE QueueInv
  OBVIOUS
<1> USE CommandAssumption DEF QueueInit
<1>1. /\ slots \in Seq(Slot) /\ outcomes \in Seq(Outcome)
      /\ Len(slots) = 0 /\ Len(outcomes) = 0
      /\ DOMAIN slots = {} /\ DOMAIN outcomes = {}
  OBVIOUS
<1>2. QueueTypeOK
  <2>1. next_id \in 0 .. LastId /\ fence \in 0 .. next_id /\ told \in Nat
    OBVIOUS
  <2>2. processing \in BOOLEAN /\ outcomes = <<>>
    OBVIOUS
  <2>3. QED
    BY <1>1, <2>1, <2>2 DEF QueueTypeOK
<1>3. ExactlyOnce /\ ResetCancelsPending /\ WithinCapacity
  BY <1>1 DEF ExactlyOnce, ResetCancelsPending, WithinCapacity
<1>4. QED
  BY <1>2, <1>3 DEF QueueInv

(* Cancelling keeps the number of slots and their ids, and leaves none     *)
(* pending.                                                                *)
LEMMA CancelledFacts ==
  ASSUME NEW queue \in Seq(Slot)
  PROVE  /\ Cancelled(queue) \in Seq(Slot)
         /\ Len(Cancelled(queue)) = Len(queue)
         /\ DOMAIN Cancelled(queue) = DOMAIN queue
         /\ \A i \in DOMAIN queue : /\ Cancelled(queue)[i].id = queue[i].id
                                    /\ Cancelled(queue)[i].fate = "cancelled"
<1>1. \A i \in 1 .. Len(queue) : queue[i] \in Slot
  OBVIOUS
<1>2. \A i \in 1 .. Len(queue) :
        /\ Cancelled(queue)[i] \in Slot
        /\ Cancelled(queue)[i].id = queue[i].id
        /\ Cancelled(queue)[i].fate = "cancelled"
  BY <1>1 DEF Cancelled, Cancel, Slot
<1>3. Cancelled(queue) = [i \in 1 .. Len(queue) |-> Cancelled(queue)[i]]
  BY DEF Cancelled
<1>4. Cancelled(queue) \in [1 .. Len(queue) -> Slot]
  BY <1>2, <1>3
<1>5. Cancelled(queue) \in Seq(Slot) /\ Len(Cancelled(queue)) = Len(queue)
  BY <1>4
<1>6. QED
  BY <1>2, <1>5

(* The parts of a queue that is not empty. *)
LEMMA PopFacts ==
  ASSUME NEW queue \in Seq(Slot), queue # <<>>
  PROVE  /\ Head(queue) = queue[1] /\ queue[1] \in Slot
         /\ Len(queue) \in Nat \ {0}
         /\ Tail(queue) \in Seq(Slot)
         /\ Len(Tail(queue)) = Len(queue) - 1
         /\ \A i \in 1 .. Len(queue) - 1 : Tail(queue)[i] = queue[i + 1]
OBVIOUS

(* An accepted command takes the next id and the last slot. *)
LEMMA EnqueueInv ==
  ASSUME QueueInv, NEW c \in Commands, Enqueue(c)
  PROVE  QueueInv'
<1> DEFINE slot == [id |-> next_id, fate |-> "pending", command |-> c]
<1> USE CommandAssumption DEF QueueInv, Enqueue
<1>1. next_id \in Nat /\ slot \in Slot /\ Len(slots) \in Nat /\ slots \in Seq(Slot)
  BY DEF QueueTypeOK, Slot
<1>2. /\ slots' \in Seq(Slot) /\ Len(slots') = Len(slots) + 1
      /\ DOMAIN slots' = 1 .. Len(slots) + 1
      /\ slots'[Len(slots) + 1] = slot
      /\ \A i \in 1 .. Len(slots) : slots'[i] = slots[i]
  <2>1. slots' = Append(slots, slot)
    OBVIOUS
  <2>2. QED
    BY <1>1, <2>1
<1>3. outcomes' = <<>> /\ Len(outcomes') = 0 /\ outcomes = <<>> /\ told \in Nat
  BY DEF QueueTypeOK
<1>4. QueueTypeOK'
  BY <1>1, <1>2, <1>3 DEF QueueTypeOK
<1>5. ExactlyOnce'
  BY <1>1, <1>2, <1>3 DEF ExactlyOnce
<1>6. ResetCancelsPending'
  <2>1. slot.id >= fence /\ slot.fate = "pending"
    BY <1>1 DEF QueueTypeOK
  <2>2. \A i \in 1 .. Len(slots) : slots'[i].fate = "pending" <=> slots'[i].id >= fence
    BY <1>1, <1>2 DEF ResetCancelsPending
  <2>3. fence' = fence
    OBVIOUS
  <2>4. QED
    BY <1>1, <1>2, <2>1, <2>2, <2>3 DEF ResetCancelsPending
<1>7. WithinCapacity'
  BY <1>1, <1>2, <1>3 DEF WithinCapacity, HasSlot
<1>8. QED
  BY <1>4, <1>5, <1>6, <1>7

(* Cancelling a queue whose ids are the last ones puts all of them behind  *)
(* the fence.                                                              *)
LEMMA CancelledBehindFence ==
  ASSUME NEW queue \in Seq(Slot), NEW base \in Nat, next_id \in Nat,
         base + Len(queue) = next_id,
         \A i \in DOMAIN queue : queue[i].id = base + i - 1,
         CancelPending(queue)
  PROVE  /\ slots' \in Seq(Slot) /\ Len(slots') = Len(queue)
         /\ \A i \in DOMAIN slots' : slots'[i].id = base + i - 1
         /\ fence' = next_id
         /\ \A i \in DOMAIN slots' : slots'[i].fate = "pending" <=> slots'[i].id >= fence'
<1>1. slots' = Cancelled(queue) /\ fence' = next_id
  BY DEF CancelPending
<1>2. /\ slots' \in Seq(Slot) /\ Len(slots') = Len(queue) /\ DOMAIN slots' = DOMAIN queue
      /\ \A i \in DOMAIN queue : slots'[i].id = queue[i].id /\ slots'[i].fate = "cancelled"
  BY <1>1, CancelledFacts
<1>3. \A i \in DOMAIN queue : i \in 1 .. Len(queue) /\ queue[i].id < next_id
  OBVIOUS
<1>4. QED
  BY <1>1, <1>2, <1>3

(* A reset between calls. *)
LEMMA HostResetsInv ==
  ASSUME QueueInv, HostResets
  PROVE  QueueInv'
<1> USE DEF QueueInv, HostResets
<1>1. /\ slots \in Seq(Slot) /\ told \in Nat /\ next_id \in Nat /\ outcomes = <<>>
      /\ outcomes' = outcomes /\ told' = told /\ next_id' = next_id /\ processing' = processing
  BY CommandAssumption DEF QueueTypeOK
<1>2. /\ told + Len(slots) = next_id
      /\ \A i \in DOMAIN slots : slots[i].id = told + i - 1
  BY <1>1 DEF ExactlyOnce
<1>3. CancelPending(slots)
  OBVIOUS
<1>4. /\ slots' \in Seq(Slot) /\ Len(slots') = Len(slots)
      /\ \A i \in DOMAIN slots' : slots'[i].id = told + i - 1
      /\ fence' = next_id
      /\ \A i \in DOMAIN slots' : slots'[i].fate = "pending" <=> slots'[i].id >= fence'
  BY <1>1, <1>2, <1>3, CancelledBehindFence
<1>5. QueueTypeOK'
  BY <1>1, <1>4 DEF QueueTypeOK
<1>6. ExactlyOnce'
  BY <1>1, <1>2, <1>4 DEF ExactlyOnce
<1>7. ResetCancelsPending' /\ WithinCapacity'
  BY <1>1, <1>4 DEF ResetCancelsPending, WithinCapacity
<1>8. QED
  BY <1>5, <1>6, <1>7

(* The outcome of the popped slot is the next one owed. *)
LEMMA ReportFacts ==
  ASSUME QueueInv, slots # <<>>, NEW r \in Results \cup {"cancelled"}, Report(r)
  PROVE  /\ outcomes' \in Seq(Outcome) /\ Len(outcomes') = Len(outcomes) + 1
         /\ \A i \in DOMAIN outcomes' : outcomes'[i].id = told + i - 1
         /\ told' = told /\ next_id' = next_id /\ processing' = processing
<1> DEFINE o == [id |-> Head(slots).id, result |-> r]
<1>1. /\ slots \in Seq(Slot) /\ outcomes \in Seq(Outcome) /\ told \in Nat
      /\ Len(outcomes) \in Nat
  BY DEF QueueInv, QueueTypeOK
<1>2. slots[1] \in Slot /\ Head(slots) = slots[1] /\ 1 \in DOMAIN slots
  BY <1>1, PopFacts
<1>3. o \in Outcome /\ o.id = told + Len(outcomes)
  BY <1>1, <1>2 DEF Slot, Outcome, QueueInv, ExactlyOnce
<1>4. outcomes' = Append(outcomes, o) /\ told' = told /\ next_id' = next_id /\ processing' = processing
  BY DEF Report
<1>5. \A i \in 1 .. Len(outcomes) : outcomes[i].id = told + i - 1
  BY <1>1 DEF QueueInv, ExactlyOnce
<1>6. QED
  BY <1>1, <1>3, <1>4, <1>5

(* A slot that leaves the queue without touching the others, cancelled     *)
(* before or run now.                                                      *)
LEMMA PopInv ==
  ASSUME QueueInv, processing, slots # <<>>, NEW r \in Results \cup {"cancelled"}, Report(r),
         slots' = Tail(slots), fence' = fence
  PROVE  QueueInv'
<1>1. /\ slots \in Seq(Slot) /\ outcomes \in Seq(Outcome) /\ told \in Nat /\ next_id \in Nat
      /\ Len(outcomes) \in Nat /\ fence \in 0 .. next_id
  BY CommandAssumption DEF QueueInv, QueueTypeOK
<1>2. /\ Len(slots) \in Nat \ {0} /\ slots' \in Seq(Slot) /\ Len(slots') = Len(slots) - 1
      /\ DOMAIN slots' = 1 .. Len(slots) - 1
      /\ \A i \in 1 .. Len(slots) - 1 : slots'[i] = slots[i + 1] /\ i + 1 \in DOMAIN slots
  BY <1>1, PopFacts
<1>3. /\ outcomes' \in Seq(Outcome) /\ Len(outcomes') = Len(outcomes) + 1
      /\ \A i \in DOMAIN outcomes' : outcomes'[i].id = told + i - 1
      /\ told' = told /\ next_id' = next_id /\ processing' = processing
  BY ReportFacts
<1>4. QueueTypeOK'
  BY <1>1, <1>2, <1>3 DEF QueueInv, QueueTypeOK
<1>5. ExactlyOnce'
  <2>1. told + Len(outcomes) + Len(slots) = next_id
    BY DEF QueueInv, ExactlyOnce
  <2>2. told' + Len(outcomes') + Len(slots') = next_id'
    <3>1. Len(outcomes') = Len(outcomes) + 1 /\ told' = told /\ next_id' = next_id
      BY <1>3
    <3>2. Len(slots') = Len(slots) - 1 /\ Len(slots) \in Nat
      BY <1>2
    <3>3. QED
      BY <1>1, <2>1, <3>1, <3>2, SMTT(30)
  <2>3. ASSUME NEW i \in DOMAIN slots'
        PROVE  slots'[i].id = told' + Len(outcomes') + i - 1
    <3>1. i \in 1 .. Len(slots) - 1 /\ slots'[i] = slots[i + 1] /\ i + 1 \in DOMAIN slots
      BY <1>2
    <3>2. slots[i + 1].id = told + Len(outcomes) + (i + 1) - 1
      BY <3>1 DEF QueueInv, ExactlyOnce
    <3>3. QED
      BY <1>1, <1>2, <1>3, <3>1, <3>2
  <2>4. QED
    BY <1>3, <2>2, <2>3 DEF ExactlyOnce
<1>6. ResetCancelsPending'
  BY <1>1, <1>2 DEF QueueInv, ResetCancelsPending
<1>7. WithinCapacity'
  BY <1>1, <1>2, <1>3 DEF QueueInv, WithinCapacity
<1>8. QED
  BY <1>4, <1>5, <1>6, <1>7 DEF QueueInv

(* A queued Panic leaves its own slot and cancels the rest. *)
LEMMA RunPanicInv ==
  ASSUME QueueInv, RunPanic
  PROVE  QueueInv'
<1>1. /\ slots \in Seq(Slot) /\ outcomes \in Seq(Outcome) /\ told \in Nat /\ next_id \in Nat
      /\ Len(outcomes) \in Nat /\ next_id \in 0 .. LastId
  BY CommandAssumption DEF QueueInv, QueueTypeOK
<1>2. processing /\ slots # <<>> /\ CancelPending(Tail(slots)) /\ Report("ok")
  BY DEF RunPanic, Runs
<1>3. /\ Len(slots) \in Nat \ {0} /\ Tail(slots) \in Seq(Slot) /\ Len(Tail(slots)) = Len(slots) - 1
      /\ DOMAIN Tail(slots) = 1 .. Len(slots) - 1
      /\ \A i \in 1 .. Len(slots) - 1 : Tail(slots)[i] = slots[i + 1] /\ i + 1 \in DOMAIN slots
  BY <1>1, <1>2, PopFacts
<1>4. /\ outcomes' \in Seq(Outcome) /\ Len(outcomes') = Len(outcomes) + 1
      /\ \A i \in DOMAIN outcomes' : outcomes'[i].id = told + i - 1
      /\ told' = told /\ next_id' = next_id /\ processing' = processing
  BY <1>2, ReportFacts DEF Results
<1> DEFINE base == told + Len(outcomes) + 1
<1>5. base \in Nat /\ base + Len(Tail(slots)) = next_id
  <2>1. told + Len(outcomes) + Len(slots) = next_id
    BY DEF QueueInv, ExactlyOnce
  <2>2. QED
    BY <1>1, <1>3, <2>1
<1>6. ASSUME NEW i \in DOMAIN Tail(slots)
      PROVE  Tail(slots)[i].id = base + i - 1
  <2>1. i \in 1 .. Len(slots) - 1 /\ Tail(slots)[i] = slots[i + 1] /\ i + 1 \in DOMAIN slots
    BY <1>3
  <2>2. slots[i + 1].id = told + Len(outcomes) + (i + 1) - 1
    BY <2>1 DEF QueueInv, ExactlyOnce
  <2>3. QED
    BY <1>1, <1>3, <2>1, <2>2
<1>7. /\ slots' \in Seq(Slot) /\ Len(slots') = Len(slots) - 1
      /\ \A i \in DOMAIN slots' : slots'[i].id = base + i - 1
      /\ fence' = next_id
      /\ \A i \in DOMAIN slots' : slots'[i].fate = "pending" <=> slots'[i].id >= fence'
  <2> HIDE DEF base
  <2>1. QED
    BY <1>1, <1>2, <1>3, <1>5, <1>6, CancelledBehindFence
<1>8. QueueTypeOK'
  BY <1>1, <1>2, <1>4, <1>7 DEF QueueInv, QueueTypeOK
<1>9. ExactlyOnce'
  BY <1>1, <1>3, <1>4, <1>5, <1>7 DEF ExactlyOnce
<1>10. ResetCancelsPending'
  BY <1>7 DEF ResetCancelsPending
<1>11. WithinCapacity'
  BY <1>1, <1>3, <1>4, <1>7 DEF QueueInv, WithinCapacity
<1>12. QED
  BY <1>8, <1>9, <1>10, <1>11 DEF QueueInv

(* A call that starts or returns. *)
LEMMA CallInv ==
  ASSUME QueueInv, BeginProcess \/ EndProcess
  PROVE  QueueInv'
<1>1. CASE BeginProcess
  BY <1>1 DEF BeginProcess, QueueInv, QueueTypeOK, ExactlyOnce, ResetCancelsPending, WithinCapacity
<1>2. CASE EndProcess
  <2>1. /\ slots' = <<>> /\ slots = <<>> /\ outcomes' = <<>> /\ told' = told + Len(outcomes)
        /\ next_id' = next_id /\ fence' = fence /\ processing' = FALSE
    BY <1>2 DEF EndProcess
  <2>2. told \in Nat /\ Len(outcomes) \in Nat /\ next_id \in 0 .. LastId
    BY DEF QueueInv, QueueTypeOK
  <2>3. slots \in Seq(Slot) /\ outcomes' \in Seq(Outcome) /\ fence \in 0 .. next_id
    BY <2>1 DEF QueueInv, QueueTypeOK
  <2>4. told' \in Nat /\ Len(slots) = 0 /\ Len(outcomes') = 0 /\ DOMAIN outcomes' = {} /\ DOMAIN slots = {}
    BY <2>1, <2>2
  <2>5. told + Len(outcomes) + Len(slots) = next_id
    BY DEF QueueInv, ExactlyOnce
  <2>6. QueueTypeOK'
    BY <2>1, <2>2, <2>3, <2>4 DEF QueueTypeOK
  <2>7. ExactlyOnce' /\ ResetCancelsPending' /\ WithinCapacity'
    BY <2>1, <2>2, <2>4, <2>5, CommandAssumption
       DEF ExactlyOnce, ResetCancelsPending, WithinCapacity
  <2>8. QED
    BY <2>6, <2>7 DEF QueueInv
<1>3. QED
  BY <1>1, <1>2

(* Every step preserves the invariant. *)
LEMMA QueueNextInv == QueueInv /\ [QueueNext]_queueVars => QueueInv'
<1> SUFFICES ASSUME QueueInv, [QueueNext]_queueVars PROVE QueueInv'
  OBVIOUS
<1>1. ASSUME NEW c \in Commands, Enqueue(c) PROVE QueueInv'
  BY <1>1, EnqueueInv
<1>2. CASE HostResets
  BY <1>2, HostResetsInv
<1>3. CASE BeginProcess \/ EndProcess
  BY <1>3, CallInv
<1>4. CASE CollectCancelled
  BY <1>4, PopInv DEF CollectCancelled
<1>5. CASE RunPanic
  BY <1>5, RunPanicInv
<1>6. ASSUME NEW c \in Commands, NEW r \in Results, RunCommand(c, r) PROVE QueueInv'
  BY <1>6, PopInv DEF RunCommand, Runs
<1>7. CASE UNCHANGED queueVars
  BY <1>7 DEF queueVars, QueueInv, QueueTypeOK, ExactlyOnce, ResetCancelsPending, WithinCapacity
<1>8. QED
  BY <1>1, <1>2, <1>3, <1>4, <1>5, <1>6, <1>7 DEF QueueNext

(* The invariant holds in every reachable state. *)
THEOREM QueueInvariant == QueueSpec => []QueueInv
BY QueueInitInv, QueueNextInv, PTL DEF QueueSpec

(* After a reset, queued (Panic) or direct, no command accepted before it  *)
(* runs, and none accepted after it is cancelled by it.                    *)
THEOREM ResetParts == QueueSpec => []ResetCancelsPending
<1>1. QueueInv => ResetCancelsPending
  BY DEF QueueInv
<1>2. QED
  BY <1>1, QueueInvariant, PTL

(* The queue and the outcomes under way never exceed COMMAND_CAPACITY.     *)
THEOREM CapacityHolds == QueueSpec => []WithinCapacity
<1>1. QueueInv => WithinCapacity
  BY DEF QueueInv
<1>2. QED
  BY <1>1, QueueInvariant, PTL

-----------------------------------------------------------------------------
(* The facade implements the queue. *)

(* What a command does to the App is no business of the queue: every step  *)
(* of the facade is a step of the queue or leaves the queue alone.         *)
LEMMA StepIsQueueStep == [Next]_vars => [QueueNext]_queueVars
  <1> SUFFICES ASSUME [Next]_vars PROVE [QueueNext]_queueVars
    OBVIOUS
  <1>1. ASSUME NEW c \in Commands, ExecuteLoad(c) PROVE QueueNext
    <2>1. "ok" \in Results /\ "error" \in Results
      BY DEF Results
    <2>2. RunCommand(c, "ok") \/ RunCommand(c, "error")
      BY <1>1 DEF ExecuteLoad
    <2> QED
      BY <2>1, <2>2 DEF QueueNext
  <1>2. ASSUME NEW c \in Commands, ExecuteSet(c) PROVE QueueNext
    BY <1>2 DEF ExecuteSet, QueueNext
  <1>3. ExecutePanic \/ QueueStep \/ Reset => QueueNext
    BY DEF ExecutePanic, QueueStep, Reset, QueueNext
  <1>4. ASSUME NEW t \in Types, Install(t) PROVE UNCHANGED queueVars
    BY <1>4 DEF Install
  <1>5. Start \/ Stop \/ Play \/ DrainMidi => UNCHANGED queueVars
    BY DEF Start, Stop, Play, DrainMidi
  <1>6. ASSUME NEW p \in Patches, LoadPatch(p) PROVE UNCHANGED queueVars
    BY <1>6 DEF LoadPatch
  <1>7. Restart \/ UnloadPatch => UNCHANGED queueVars
    BY DEF Restart, UnloadPatch
  <1>8. ASSUME NEW n \in Names, RemoveModule(n) PROVE UNCHANGED queueVars
    BY <1>8 DEF RemoveModule
  <1>9. ASSUME NEW n \in Names, NEW t \in Types, Bind(n, t) PROVE UNCHANGED queueVars
    BY <1>9 DEF Bind
  <1>10. UNCHANGED vars => UNCHANGED queueVars
    BY DEF vars
  <1> QED
    BY <1>1, <1>2, <1>3, <1>4, <1>5, <1>6, <1>7, <1>8, <1>9, <1>10 DEF Next

(* Whatever the commands do to the App: a load in the middle of the queue  *)
(* neither loses, repeats nor cancels what is behind it.                   *)
THEOREM FacadeImplementsQueue == Spec => ImplementsQueue
  <1>1. Init => QueueInit
    BY DEF Init
  <1> QED
    BY <1>1, StepIsQueueStep, PTL DEF Spec, QueueSpec, ImplementsQueue

(* Every accepted command has exactly one outcome, in the order of         *)
(* acceptance, for every capacity of CommandQueue and every command set.   *)
THEOREM OutcomesExactlyOnce == Spec => []ExactlyOnce
  <1>1. QueueInv => ExactlyOnce
    BY DEF QueueInv
  <1> QED
    BY <1>1, QueueInvariant, FacadeImplementsQueue, PTL DEF ImplementsQueue

-----------------------------------------------------------------------------
(* The facade and its App. *)

(* A kind belongs to one installed type. *)
KindsInv ==
  /\ installed \in Seq(Types) /\ registry = installed
  /\ \A s, t \in TypesIn(installed) : KindOf[s] = KindOf[t] => s = t

(* The instances of one commit carry its number. *)
InstancesInv ==
  /\ modules = None \/ modules \in Modules
  /\ loaded_identity \in BOOLEAN /\ (loaded_identity <=> modules # None)
  /\ lifetime_token \in Nat
  /\ DOMAIN instance_tokens = Live
  /\ \A n \in Live : /\ modules[n].born = instance_tokens[n]
                     /\ modules[n].kind \in KindsIn(installed)

(* A handle of this lifetime names the type that installed the kind of its *)
(* module, as long as the module is there.                                 *)
HandleInv ==
  handle # None =>
    /\ handle.instance = handle.born
    /\ handle.lifetime \in Nat /\ handle.lifetime <= lifetime_token
    /\ handle.lifetime = lifetime_token /\ handle.name \in Live =>
         /\ handle.type \in TypesIn(installed)
         /\ KindOf[handle.type] = modules[handle.name].kind

FacadeInv == KindsInv /\ InstancesInv /\ HandleInv

(* What the constants of the facade are. *)
LEMMA FacadeTypes ==
  /\ \A p \in Patches : Contents[p] \in Content
  /\ None \notin Modules
  /\ \A t \in Types : KindOf[t] \in Kinds
  <1>1. None \notin Modules
    BY FacadeAssumption DEF Modules
  <1> QED
    BY <1>1, FacadeAssumption DEF Kinds

LEMMA FacadeInit == Init => FacadeInv
  <1> SUFFICES ASSUME Init PROVE FacadeInv
    OBVIOUS
  <1>1. installed = <<>> /\ installed \in Seq(Types) /\ TypesIn(installed) = {}
    BY DEF Init, TypesIn
  <1>2. DOMAIN NoTokens = {}
    BY DEF NoTokens
  <1> QED
    BY <1>1, <1>2 DEF Init, FacadeInv, KindsInv, InstancesInv, HandleInv, Live

(* The types after an installation. *)
LEMMA InstalledTypes ==
  ASSUME NEW t \in Types, installed \in Seq(Types), installed' = Append(installed, t)
  PROVE  installed' \in Seq(Types) /\ TypesIn(installed') = TypesIn(installed) \cup {t}
  <1> DEFINE n == Len(installed)
  <1>1. /\ installed' \in Seq(Types) /\ n \in Nat /\ Len(installed') = n + 1
        /\ installed'[n + 1] = t /\ \A i \in 1 .. n : installed'[i] = installed[i]
    OBVIOUS
  <1>2. DOMAIN installed = 1 .. n /\ DOMAIN installed' = 1 .. n + 1
    BY <1>1
  <1>3. \A i \in 1 .. n + 1 : i \in 1 .. n \/ i = n + 1
    BY <1>1
  <1>4. \A i \in 1 .. n : i \in 1 .. n + 1
    BY <1>1
  <1>5. n + 1 \in 1 .. n + 1
    BY <1>1
  <1> HIDE DEF n
  <1> QED
    BY <1>1, <1>2, <1>3, <1>4, <1>5 DEF TypesIn

LEMMA InstallKeepsFacade ==
  ASSUME FacadeInv, NEW t \in Types, Install(t)
  PROVE  FacadeInv'
  <1>1. /\ KindOf[t] \notin KindsIn(installed)
        /\ installed' = Append(installed, t) /\ registry' = Append(registry, t)
        /\ UNCHANGED <<modules, loaded_identity, lifetime_token, instance_tokens, handle>>
    BY DEF Install, Unclaimed, tokenVars
  <1>2. installed \in Seq(Types) /\ registry = installed
    BY DEF FacadeInv, KindsInv
  <1>3. installed' \in Seq(Types) /\ TypesIn(installed') = TypesIn(installed) \cup {t}
    BY <1>1, <1>2, InstalledTypes
  <1>4. KindsInv'
    <2>1. \A s \in TypesIn(installed) : KindOf[s] # KindOf[t]
      BY <1>1 DEF KindsIn
    <2> QED
      BY <1>1, <1>2, <1>3, <2>1 DEF FacadeInv, KindsInv
  <1>5. KindsIn(installed) \subseteq KindsIn(installed') /\ Live' = Live
    BY <1>1, <1>3 DEF KindsIn, Live
  <1>6. InstancesInv' /\ HandleInv'
    BY <1>1, <1>3, <1>5 DEF FacadeInv, InstancesInv, HandleInv
  <1> QED
    BY <1>4, <1>6 DEF FacadeInv

(* A commit: fresh instances, of known kinds, and no handle of old.        *)
LEMMA CommitKeepsFacade ==
  ASSUME FacadeInv, NEW content \in Content, NEW loaded \in BOOLEAN, Commit(content, loaded),
         Known(content), ~ loaded => DOMAIN content = {}, UNCHANGED <<installed, handle>>
  PROVE  FacadeInv'
  <1> DEFINE ms == [n \in DOMAIN content |-> [kind |-> content[n], born |-> lifetime_token + 1]]
  <1>1. /\ registry' = installed /\ modules' = (IF loaded THEN ms ELSE None)
        /\ loaded_identity' = loaded /\ lifetime_token' = lifetime_token + 1
        /\ instance_tokens' = [n \in DOMAIN content |-> lifetime_token + 1]
    BY DEF Commit
  <1>2. lifetime_token \in Nat /\ lifetime_token + 1 \in Nat
    BY DEF FacadeInv, InstancesInv
  <1>3. PICK S \in SUBSET Names : content \in [S -> Kinds]
    BY DEF Content
  <1>4. ms \in [S -> [kind : Kinds, born : Nat]]
    BY <1>2, <1>3
  <1>5. /\ DOMAIN ms = DOMAIN content
        /\ \A n \in DOMAIN content : ms[n].kind = content[n] /\ ms[n].born = lifetime_token + 1
    OBVIOUS
  <1> HIDE DEF ms
  <1>6. ms \in Modules /\ ms # None
    BY <1>3, <1>4, FacadeTypes DEF Modules
  <1>7. Live' = DOMAIN content
    BY <1>1, <1>5, <1>6 DEF Live
  <1>8. KindsInv'
    BY <1>1 DEF FacadeInv, KindsInv
  <1>9. \A n \in DOMAIN content : content[n] \in KindsIn(installed)
    BY DEF Known
  <1>10. InstancesInv'
    <2>1. DOMAIN instance_tokens' = DOMAIN content
          /\ \A n \in DOMAIN content : instance_tokens'[n] = lifetime_token + 1
      BY <1>1
    <2>2. CASE loaded
      BY <1>1, <1>2, <1>5, <1>6, <1>7, <1>9, <2>1, <2>2 DEF InstancesInv
    <2>3. CASE ~ loaded
      BY <1>1, <1>2, <1>7, <2>1, <2>3 DEF InstancesInv
    <2> QED
      BY <2>2, <2>3
  <1>11. HandleInv'
    <2>1. handle # None => handle.lifetime \in Nat /\ handle.lifetime <= lifetime_token
      BY DEF FacadeInv, HandleInv
    <2>2. handle # None => handle.lifetime <= lifetime_token + 1 /\ handle.lifetime # lifetime_token + 1
      BY <1>2, <2>1
    <2> QED
      BY <1>1, <2>1, <2>2 DEF FacadeInv, HandleInv
  <1> QED
    BY <1>8, <1>10, <1>11 DEF FacadeInv

(* The three ways to a new App. *)
LEMMA LoadKeepsFacade ==
  ASSUME FacadeInv, NEW p \in Patches, Loads(p), Commit(Contents[p], TRUE),
         UNCHANGED <<installed, handle>>
  PROVE  FacadeInv'
  BY CommitKeepsFacade, FacadeTypes DEF Loads

LEMMA RestartKeepsFacade == FacadeInv /\ Restart => FacadeInv'
  <1> SUFFICES ASSUME FacadeInv, Restart PROVE FacadeInv'
    OBVIOUS
  <1>1. Known(Snapshot) /\ Commit(Snapshot, TRUE) /\ loaded_identity /\ UNCHANGED <<installed, handle>>
    BY DEF Restart
  <1>2. modules \in Modules /\ Live = DOMAIN modules
    BY <1>1 DEF FacadeInv, InstancesInv, Live
  <1>3. PICK S \in SUBSET Names : modules \in [S -> [kind : Kinds, born : Nat]]
    BY <1>2 DEF Modules
  <1>4. Snapshot \in [S -> Kinds]
    BY <1>2, <1>3 DEF Snapshot
  <1>5. Snapshot \in Content
    BY <1>4 DEF Content
  <1> QED
    BY <1>1, <1>5, CommitKeepsFacade

LEMMA UnloadKeepsFacade == FacadeInv /\ UnloadPatch => FacadeInv'
  <1> SUFFICES ASSUME FacadeInv, UnloadPatch PROVE FacadeInv'
    OBVIOUS
  <1> DEFINE content == [n \in {} |-> None]
  <1>1. Commit(content, FALSE) /\ UNCHANGED <<installed, handle>>
    BY DEF UnloadPatch
  <1>2. content \in [{} -> Kinds] /\ {} \in SUBSET Names /\ DOMAIN content = {}
    OBVIOUS
  <1> HIDE DEF content
  <1>3. content \in Content
    BY <1>2 DEF Content
  <1>4. Known(content)
    BY <1>2 DEF Known
  <1> QED
    BY <1>1, <1>2, <1>3, <1>4, CommitKeepsFacade

(* The others keep their instances.                                        *)
LEMMA RemoveKeepsFacade ==
  ASSUME FacadeInv, NEW n \in Names, RemoveModule(n)
  PROVE  FacadeInv'
  <1>1. /\ n \in Live /\ modules' = Without(modules, n)
        /\ instance_tokens' = Without(instance_tokens, n)
        /\ UNCHANGED <<installed, registry, loaded_identity, lifetime_token, handle>>
    BY DEF RemoveModule
  <1>2. modules # None /\ modules \in Modules /\ Live = DOMAIN modules
    BY <1>1 DEF FacadeInv, InstancesInv, Live
  <1>3. PICK S \in SUBSET Names : modules \in [S -> [kind : Kinds, born : Nat]]
    BY <1>2 DEF Modules
  <1>4. /\ modules' \in [S \ {n} -> [kind : Kinds, born : Nat]]
        /\ \A m \in S \ {n} : modules'[m] = modules[m]
    BY <1>1, <1>3 DEF Without
  <1>5. modules' \in Modules /\ modules' # None
    <2>1. S \ {n} \in SUBSET Names
      BY <1>3
    <2>2. modules' \in Modules
      BY <1>4, <2>1 DEF Modules
    <2> QED
      BY <2>2, FacadeTypes
  <1>6. Live = S /\ Live' = S \ {n}
    BY <1>2, <1>3, <1>4, <1>5 DEF Live
  <1>7. /\ DOMAIN instance_tokens' = S \ {n}
        /\ \A m \in S \ {n} : instance_tokens'[m] = instance_tokens[m]
    BY <1>1, <1>6 DEF Without, FacadeInv, InstancesInv
  <1>8. InstancesInv'
    BY <1>1, <1>2, <1>4, <1>5, <1>6, <1>7 DEF FacadeInv, InstancesInv
  <1>9. KindsInv' /\ HandleInv'
    BY <1>1, <1>4, <1>6 DEF FacadeInv, KindsInv, HandleInv
  <1> QED
    BY <1>8, <1>9 DEF FacadeInv

(* A handle is bound to the type that installed the kind of the module.    *)
LEMMA BindKeepsFacade ==
  ASSUME FacadeInv, NEW n \in Names, NEW t \in Types, Bind(n, t)
  PROVE  FacadeInv'
  <1>1. /\ Bindable(n, t)
        /\ handle' = [name |-> n, type |-> t, lifetime |-> lifetime_token,
                      instance |-> instance_tokens[n], born |-> modules[n].born]
        /\ UNCHANGED <<installed, registry, modules, loaded_identity, lifetime_token,
                       instance_tokens>>
    BY DEF Bind, worldVars
  <1>2. n \in Live /\ modules[n].kind \in KindsIn(installed) /\ TypeOf(modules[n].kind) = t
    BY <1>1 DEF Bindable
  <1>3. t \in TypesIn(installed) /\ KindOf[t] = modules[n].kind
    <2>1. \E s \in TypesIn(installed) : KindOf[s] = modules[n].kind
      BY <1>2 DEF KindsIn
    <2> QED
      BY <1>2, <2>1 DEF TypeOf
  <1>4. /\ handle'.name = n /\ handle'.type = t /\ handle'.lifetime = lifetime_token
        /\ handle'.instance = instance_tokens[n] /\ handle'.born = modules[n].born
    BY <1>1
  <1>5. lifetime_token \in Nat /\ instance_tokens[n] = modules[n].born
    BY <1>2 DEF FacadeInv, InstancesInv
  <1>6. lifetime_token <= lifetime_token
    BY <1>5
  <1>7. HandleInv'
    BY <1>1, <1>3, <1>4, <1>5, <1>6 DEF HandleInv
  <1>8. KindsInv' /\ InstancesInv'
    BY <1>1 DEF FacadeInv, KindsInv, InstancesInv, Live
  <1> QED
    BY <1>7, <1>8 DEF FacadeInv

LEMMA StepKeepsFacade == FacadeInv /\ [Next]_vars => FacadeInv'
  <1> SUFFICES ASSUME FacadeInv, [Next]_vars PROVE FacadeInv'
    OBVIOUS
  <1>1. CASE \E t \in Types : Install(t)
    BY <1>1, InstallKeepsFacade
  <1>2. CASE \E p \in Patches : LoadPatch(p)
    BY <1>2, LoadKeepsFacade DEF LoadPatch
  <1>3. CASE Restart \/ UnloadPatch
    BY <1>3, RestartKeepsFacade, UnloadKeepsFacade
  <1>4. CASE \E n \in Names : RemoveModule(n)
    BY <1>4, RemoveKeepsFacade
  <1>5. CASE \E n \in Names, t \in Types : Bind(n, t)
    BY <1>5, BindKeepsFacade
  <1>6. CASE UNCHANGED <<installed, worldVars, handle>>
    BY <1>6 DEF worldVars, FacadeInv, KindsInv, InstancesInv, HandleInv, Live
  <1>7. ASSUME NEW c \in Commands, ExecuteLoad(c) PROVE FacadeInv'
    <2>1. CASE Loads(c.arg) /\ Commit(Contents[c.arg], TRUE)
      <3>1. c.arg \in Patches
        BY <2>1, FacadeAssumption DEF Loads
      <3> QED
        BY <1>7, <2>1, <3>1, LoadKeepsFacade DEF ExecuteLoad
    <2>2. CASE UNCHANGED worldVars
      BY <1>6, <1>7, <2>2 DEF ExecuteLoad
    <2> QED
      BY <1>7, <2>1, <2>2 DEF ExecuteLoad
  <1>8. ASSUME NEW c \in Commands, ExecuteSet(c) PROVE FacadeInv'
    BY <1>6, <1>8 DEF ExecuteSet
  <1>9. Start \/ Stop \/ Play \/ DrainMidi \/ Reset \/ ExecutePanic \/ QueueStep \/ UNCHANGED vars
        => UNCHANGED <<installed, worldVars, handle>>
    BY DEF Start, Stop, Play, DrainMidi, Reset, ExecutePanic, QueueStep, vars
  <1> QED
    BY <1>1, <1>2, <1>3, <1>4, <1>5, <1>6, <1>7, <1>8, <1>9 DEF Next

LEMMA FacadeAlways == Spec => []FacadeInv
  BY FacadeInit, StepKeepsFacade, PTL DEF Spec

(* Whatever is installed, loaded, restarted, removed, unloaded or queued:  *)
(* what the facade keeps beside its App agrees with the App.               *)
THEOREM FacadeAgrees == Spec => []FacadeAgreesWithApp
  <1>1. FacadeInv => FacadeAgreesWithApp
    BY DEF FacadeInv, KindsInv, InstancesInv, FacadeAgreesWithApp
  <1> QED
    BY <1>1, FacadeAlways, PTL

(* A handle that outlives its module, its App or its patch is refused, and *)
(* one that is accepted reaches its own instance through its own type.     *)
THEOREM HandlesReachTheirOwn == Spec => []HandlesStayHome
  <1>1. FacadeInv => HandlesStayHome
    <2> SUFFICES ASSUME FacadeInv, handle # None, Valid(handle)
                 PROVE  /\ handle.born = modules[handle.name].born
                        /\ TypeOf(modules[handle.name].kind) = handle.type
      BY DEF HandlesStayHome
    <2>1. /\ handle.name \in Live /\ handle.lifetime = lifetime_token
          /\ handle.instance = instance_tokens[handle.name] /\ handle.instance = handle.born
      BY DEF Valid, FacadeInv, HandleInv
    <2>2. handle.type \in TypesIn(installed) /\ KindOf[handle.type] = modules[handle.name].kind
      BY <2>1 DEF FacadeInv, HandleInv
    <2>3. handle.born = modules[handle.name].born
      BY <2>1 DEF FacadeInv, InstancesInv
    <2>4. \A s \in TypesIn(installed) : KindOf[s] = KindOf[handle.type] => s = handle.type
      BY <2>2 DEF FacadeInv, KindsInv
    <2>5. TypeOf(modules[handle.name].kind) = handle.type
      BY <2>2, <2>4 DEF TypeOf
    <2> QED
      BY <2>3, <2>5
  <1> QED
    BY <1>1, FacadeAlways, PTL
=============================================================================
