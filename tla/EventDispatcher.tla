--------------------------- MODULE EventDispatcher ---------------------------
(***************************************************************************)
(* The dispatcher task (src/events/event_dispatcher.c): it takes one event *)
(* after the other from the central queue and sends each to the queues of  *)
(* its subscribers in turn, without waiting.  Other tasks send to a        *)
(* subscriber's queue directly.  A critical event for the LED or the       *)
(* buzzer drains that queue and goes to its front, in several steps that   *)
(* the sends and receives of other tasks come between.                     *)
(*                                                                         *)
(* The queues do not influence each other, so a behaviour follows those in *)
(* `watched` and leaves the others out.                                    *)
(***************************************************************************)
EXTENDS SystemEvents, FiniteSets

Subscriber ==                    \* event_subscriber_t
  {"LCD", "RELAY", "LED", "BUZZER", "LOGGER", "FAULT_LOG", "WIFI", "MONITOR",
   "BUTTON", "SYSTEM", "ENFORCER"}

CONSTANTS
  Quantity,                \* the quantities protection events are about
  Posted,                  \* the events this instance posts
  Watched,                 \* the sets of subscribers to follow
  SubscriberQueueLength,   \* queue_sizes: 20 for the logger, 10 for the others
  MaxBurst                 \* bound on the direct posts during one critical send

\* The events of the producers of src/, as far as routing tells them apart.
Plain(category, action, priority) ==
  [category |-> category, action |-> action, quantity |-> "NONE", priority |-> priority]

Event ==
  {ProtectionEvent(q, a) : q \in Quantity, a \in {"WARN", "DERATE", "SHUTDOWN", "RECOVERED"}}
  \cup {Plain("SYSTEM", a, "NORMAL") : a \in {"ON", "OFF", "SUCCESS", "ERROR"}}
  \cup {Plain("SYSTEM", "ERROR", p) : p \in {"LOW", "CRITICAL"}}
  \cup {Plain("FACTORY_RESET", "SUCCESS", "NORMAL"), Plain("FACTORY_RESET", "ERROR", "CRITICAL")}
  \cup {Plain("WIFI", "SUCCESS", "NORMAL")} \cup {Plain("WIFI", "ERROR", p) : p \in {"NORMAL", "HIGH"}}
  \cup {Plain("BUTTON", "PRESSED", "LOW"), Plain("BUTTON", "ERROR", "NORMAL")}

ASSUME DispatcherAssumption ==
  /\ Posted \subseteq Event
  /\ Watched \subseteq SUBSET Subscriber
  /\ SubscriberQueueLength \in [Subscriber -> Nat \ {0}]
  /\ MaxBurst \in Nat
  /\ \A s \in {"LED", "BUZZER"} : MaxBurst < SubscriberQueueLength[s]

VARIABLES
  watched,       \* the subscribers this behaviour follows
  queue,         \* g_event_subscriber_queue
  evt, targets,  \* the event the dispatcher holds, and who has yet to get it
  sending,       \* how far the send to the next of targets is
  preempt,       \* s_critical_preempt_pending, of the buzzer
  burst          \* the direct posts since the critical send began

dispatch == <<watched, queue, evt, targets, sending, preempt, burst>>

NoEvent == Plain("NONE", "NONE", "LOW")

DispatcherInit ==
  /\ SystemEventsInit
  /\ watched \in Watched
  /\ queue = [s \in Subscriber |-> << >>]
  /\ evt = NoEvent /\ targets = {} /\ sending = "idle"
  /\ preempt = FALSE /\ burst = 0

-----------------------------------------------------------------------------
(* Routes *)

\* routes: the subscribers of each protection action, whatever the quantity.
ProtectionRoute(action) ==
  {"LCD", "LED", "LOGGER", "FAULT_LOG"}
  \cup (IF action \in {"WARN", "DERATE", "SHUTDOWN"} THEN {"BUZZER"} ELSE {})
  \cup (IF action \in {"DERATE", "SHUTDOWN", "RECOVERED"} THEN {"RELAY"} ELSE {})
  \cup (IF action \in {"SHUTDOWN", "RECOVERED"} THEN {"WIFI"} ELSE {})

\* event_route_dispatch: whom an event goes to.
Route(e) ==
  CASE e.category = "PROTECTION" -> ProtectionRoute(e.action) \cup {"MONITOR", "ENFORCER"}
    [] e.category \in {"SYSTEM", "FACTORY_RESET"} ->
         {"LCD", "LED", "BUZZER", "LOGGER", "FAULT_LOG"}
    [] e.category = "BUTTON" -> {"LCD", "BUZZER"}
    [] e.category = "WIFI" -> {"LCD", "LED", "BUZZER", "LOGGER"}

\* Every route names its subscribers in this one order.
Place ==
  [LCD |-> 1, RELAY |-> 2, LED |-> 3, BUZZER |-> 4, LOGGER |-> 5, FAULT_LOG |-> 6,
   WIFI |-> 7, MONITOR |-> 8, ENFORCER |-> 9]

\* The subscriber whose turn it is.
Target == CHOOSE s \in targets : \A t \in targets : Place[s] <= Place[t]

-----------------------------------------------------------------------------
(* Queues *)

Full(s) == Len(queue[s]) >= SubscriberQueueLength[s]

\* Mutant: a queue that serves the newest first.
Enqueue_Front(s, e) ==
  queue' = IF Full(s) THEN queue ELSE [queue EXCEPT ![s] = <<e>> \o @]

\* xQueueSend(..., 0): appended, or dropped when the queue is full.
Enqueue(s, e) ==
  queue' = IF Full(s) THEN queue ELSE [queue EXCEPT ![s] = Append(@, e)]

\* event_dispatcher_receive: the oldest event leaves the queue.
Dequeue(s, e) ==
  /\ queue[s] # << >>
  /\ e = Head(queue[s])
  /\ queue' = [queue EXCEPT ![s] = Tail(@)]

Critical(e) == e.priority = "CRITICAL"

-----------------------------------------------------------------------------
(* The dispatcher task and the producers *)

\* Any producer posts to the central queue.
PostEvent ==
  /\ \E e \in Posted : Post(e)
  /\ UNCHANGED dispatch

Dispatch ==
  /\ sending = "idle"
  /\ \E e \in Event :
       /\ Receive(e)
       /\ evt' = e
       /\ targets' = Route(e) \cap watched
  /\ sending' = IF targets' = {} THEN "idle" ELSE "send"
  /\ UNCHANGED <<watched, queue, preempt, burst>>

\* The send to this target is over.
NextTarget ==
  /\ targets' = targets \ {Target}
  /\ sending' = IF targets' = {} THEN "idle" ELSE "send"
  /\ burst' = 0 /\ UNCHANGED <<eventQueue, watched, evt>>

Supersedes(s, e) == s \in {"LED", "BUZZER"} /\ Critical(e)

Send ==
  /\ sending = "send" /\ ~Supersedes(Target, evt)
  /\ Enqueue(Target, evt)
  /\ NextTarget /\ UNCHANGED preempt

\* Mutant: the queue is not drained for a critical event.
Supersede_WithoutDrain ==
  /\ sending = "send" /\ Supersedes(Target, evt)
  /\ preempt' = (Target = "BUZZER" \/ preempt)
  /\ sending' = "front"
  /\ UNCHANGED <<eventQueue, watched, queue, evt, targets, burst>>

\* A critical alarm output first stops the tone that is playing ...
Supersede ==
  /\ sending = "send" /\ Supersedes(Target, evt)
  /\ preempt' = (Target = "BUZZER" \/ preempt)
  /\ sending' = "drain"
  /\ UNCHANGED <<eventQueue, watched, queue, evt, targets, burst>>

\* ... then empties the queue one event at a time ...
Drain ==
  /\ sending = "drain"
  /\ LET s == Target IN
       IF queue[s] = << >>
       THEN sending' = "front" /\ UNCHANGED queue
       ELSE queue' = [queue EXCEPT ![s] = Tail(@)] /\ UNCHANGED sending
  /\ UNCHANGED <<eventQueue, watched, evt, targets, preempt, burst>>

\* Mutant: the critical event is sent to the back.
SendToFront_Back ==
  /\ sending = "front"
  /\ Enqueue(Target, evt)
  /\ NextTarget /\ UNCHANGED preempt

\* ... and goes in front of what others have sent since.
SendToFront ==
  /\ sending = "front"
  /\ LET s == Target IN
       queue' = IF Full(s) THEN queue ELSE [queue EXCEPT ![s] = <<evt>> \o @]
  /\ NextTarget /\ UNCHANGED preempt

\* post_led_event, post_buzzer_event and post_buzzer_limit_event.
DirectEvent(s) ==
  {Plain("SYSTEM", "SUCCESS", "NORMAL"), Plain("SYSTEM", "ERROR", "NORMAL")}
  \cup (IF s = "BUZZER" THEN {Plain("BUTTON", "ERROR", "NORMAL")} ELSE {})

\* A critical send is a few instructions of the task of highest priority:
\* others get at most MaxBurst posts into it, fewer than the queue holds.
SendDirect(s) ==
  /\ s \in {"LED", "BUZZER"} \cap watched
  /\ IF sending \in {"drain", "front"}
     THEN burst < MaxBurst /\ burst' = burst + 1
     ELSE UNCHANGED burst
  /\ \E e \in DirectEvent(s) \cap Posted : Enqueue(s, e)
  /\ UNCHANGED <<eventQueue, watched, evt, targets, sending, preempt>>

\* A subscriber other than the LED and buzzer tasks takes its next event.
Take(s) ==
  /\ s \in watched \ {"LED", "BUZZER"}
  /\ \E e \in Event : Dequeue(s, e)
  /\ UNCHANGED <<eventQueue, watched, evt, targets, sending, preempt, burst>>

DispatcherTask == Dispatch \/ Send \/ Supersede \/ Drain \/ SendToFront

DispatcherNext ==
  \/ PostEvent \/ DispatcherTask
  \/ \E s \in Subscriber : SendDirect(s) \/ Take(s)

-----------------------------------------------------------------------------
(* Properties *)

Holding == targets # {}

DispatcherTypeOK ==
  /\ eventQueue \in Seq(Event) /\ Len(eventQueue) <= SystemEventQueueLength
  /\ watched \in Watched
  /\ \A s \in Subscriber :
       queue[s] \in Seq(Event) /\ Len(queue[s]) <= SubscriberQueueLength[s]
  /\ evt \in Event \cup {NoEvent}
  /\ targets \subseteq watched \cap DOMAIN Place
  /\ sending \in {"idle", "send", "drain", "front"}
  /\ sending = "idle" <=> ~Holding
  /\ preempt \in BOOLEAN /\ burst \in 0..MaxBurst

\* A critical event is the first of its queue, whatever others send to it
\* while it is being drained (event_dispatcher.c: "Critical alarm output
\* supersedes queued lower-priority indications").
CriticalFirst ==
  \A s \in {"LED", "BUZZER"} : \A i \in 2..Len(queue[s]) : ~Critical(queue[s][i])

\* Tones are suppressed only while a critical event is on its way to the
\* buzzer: the flag that suppresses them is never left behind.
PreemptionServed ==
  preempt =>
    \/ sending \in {"drain", "front"} /\ Target = "BUZZER"
    \/ queue["BUZZER"] # << >> /\ Critical(Head(queue["BUZZER"]))

\* Why both hold: nothing critical, and no more than a burst of other events,
\* comes into a queue between its last drain and the send to its front.
DrainedFirst ==
  /\ sending \in {"drain", "front"} =>
       Critical(evt) /\ Target \in {"LED", "BUZZER"}
  /\ sending = "front" =>
       LET q == queue[Target] IN
         Len(q) <= burst /\ \A i \in 1..Len(q) : ~Critical(q[i])

\* The path of an event to the enforcer: its queue, the dispatcher's hand
\* until the send to it, and the central queue.
InHand == IF "ENFORCER" \in targets THEN <<evt>> ELSE << >>
EnforcerPath ==
  IF "ENFORCER" \in watched THEN queue["ENFORCER"] \o InHand \o eventQueue ELSE << >>

Enforcer == INSTANCE LossyChannel WITH
  Item <- Event, Wanted <- {e \in Event : e.category = "PROTECTION"},
  Room <- SubscriberQueueLength["ENFORCER"], channel <- EnforcerPath

\* Protection events reach the enforcer in the order they were posted, none
\* twice, and are lost only when its queue is full.
EnforcerChannel == Enforcer!Spec
=============================================================================
