----------------------------- MODULE EventQueue -----------------------------
(***************************************************************************)
(* The bounded queue that carries events from the real-time thread to the  *)
(* ECS world, and push_event, which counts consecutive failures and        *)
(* reports them through the same queue.  The two ends run concurrently: a  *)
(* pop may fall between the failed push and the push of the report.        *)
(***************************************************************************)
EXTENDS Integers, Sequences

CONSTANTS
  EventCapacity,   \* RuntimeConfig::event_queue_capacity
  Threshold        \* OVERFLOW_REPORT_THRESHOLD

QueueAssumption ==
  /\ EventCapacity \in Nat \ {0}
  /\ Threshold \in Nat \ {0}
ASSUME QueueAssumption

VARIABLES
  events,      \* the ring buffer, oldest first
  overflows,   \* consecutive_overflows
  reporting,   \* the producer is about to push the overflow report
  gaps,        \* history: the events lost right before each queued event
  missed       \* history: the events lost since the last accepted one,
               \* counted up to Threshold: a bound

producerVars == <<overflows, reporting, missed>>
queueVars == <<events, gaps, producerVars>>

Overflow == [type |-> "overflow"]
HasRoom == Len(events) < EventCapacity

InitQueue ==
  /\ events = <<>> /\ gaps = <<>>
  /\ overflows = 0 /\ missed = 0
  /\ reporting = FALSE

Accept(event) ==
  /\ events' = Append(events, event)
  /\ gaps' = Append(gaps, missed)
  /\ missed' = 0

\* Mutant: a successful push leaves the count of failures.
AfterSuccessKept == overflows
AfterSuccess == 0

(* push_event, up to the decision to report.                               *)
PushEvent(event) ==
  /\ ~reporting
  /\ \/ /\ HasRoom
        /\ Accept(event)
        /\ overflows' = AfterSuccess
        /\ UNCHANGED reporting
     \/ /\ ~HasRoom
        /\ overflows' = overflows + 1
        /\ missed' = IF missed < Threshold THEN missed + 1 ELSE missed
        /\ reporting' = (overflows' >= Threshold)
        /\ UNCHANGED <<events, gaps>>

(* The raw push of the report: if the queue is still full it is lost too.  *)
PushReport ==
  /\ reporting
  /\ reporting' = FALSE
  /\ overflows' = 0
  /\ IF HasRoom THEN Accept(Overflow) ELSE UNCHANGED <<events, gaps, missed>>

PopEvent ==
  /\ events # <<>>
  /\ events' = Tail(events)
  /\ gaps' = Tail(gaps)
  /\ UNCHANGED producerVars

(* An overflow report in the queue stands for at least Threshold lost      *)
(* events in a row: RtErrorCode::QueueOverflow never cries wolf.           *)
ReportsAreHonest ==
  \A i \in DOMAIN events : events[i] = Overflow => gaps[i] >= Threshold

(* OVERFLOW_REPORT_THRESHOLD: when that many pushes in a row have failed,  *)
(* an overflow report is emitted.                                          *)
OverflowIsReported ==
  [][reporting /\ ~reporting' => events' # <<>> /\ events'[Len(events')] = Overflow]_queueVars
=============================================================================
