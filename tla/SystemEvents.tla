---------------------------- MODULE SystemEvents ----------------------------
(***************************************************************************)
(* The central event queue of the firmware (src/events/system_events.c):   *)
(* g_system_event_queue, a bounded FreeRTOS queue that every producer      *)
(* posts to without waiting and that only the dispatcher task receives     *)
(* from.  A post to a full queue is dropped; every producer ignores the    *)
(* result, so nobody retries.                                              *)
(***************************************************************************)
EXTENDS Naturals, Sequences

CONSTANT SystemEventQueueLength  \* 20 in the firmware

ASSUME QueueLengthAssumption == SystemEventQueueLength \in Nat \ {0}

VARIABLE eventQueue              \* g_system_event_queue, oldest event first

SystemEventsInit == eventQueue = << >>

QueueFull == Len(eventQueue) >= SystemEventQueueLength

\* Mutant: a queue that serves the newest first.
Post_ToFront(evt) ==
  eventQueue' = IF QueueFull THEN eventQueue ELSE <<evt>> \o eventQueue

\* xQueueSend(..., 0): appended, or dropped when the queue is full.
Post(evt) ==
  eventQueue' = IF QueueFull THEN eventQueue ELSE Append(eventQueue, evt)

\* xQueueReceive in the dispatcher task: the oldest event leaves the queue.
Receive(evt) ==
  /\ eventQueue # << >>
  /\ evt = Head(eventQueue)
  /\ eventQueue' = Tail(eventQueue)

\* The priority system_event_post_protection gives each protection action.
ProtectionPriority(action) ==
  CASE action = "WARN"      -> "LOW"
    [] action = "DERATE"    -> "NORMAL"
    [] action = "SHUTDOWN"  -> "CRITICAL"
    [] action = "RECOVERED" -> "NORMAL"

\* The event system_event_post_protection builds.
ProtectionEvent(q, action) ==
  [category |-> "PROTECTION", action |-> action, quantity |-> q,
   priority |-> ProtectionPriority(action)]
=============================================================================
