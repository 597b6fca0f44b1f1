---------------------------- MODULE Alarms_proofs ----------------------------
(***************************************************************************)
(* Proofs about the alarm queues, for every length of the queues and every *)
(* set of events and of subscribers followed: the types, the two           *)
(* invariants of the critical sends, and that what is on its way to the    *)
(* enforcer is a lossy channel.                                            *)
(***************************************************************************)
EXTENDS Alarms, TLAPS

QueuesOK ==
  /\ eventQueue \in Seq(Event) /\ (sending # "idle" => evt \in Event)
  /\ queue \in [Subscriber -> Seq(Event)]
  /\ preempt \in BOOLEAN /\ burst \in 0..MaxBurst

\* The inductive invariant.
IInv == QueuesOK /\ CriticalFirst /\ DrainedFirst /\ PreemptionServed

-----------------------------------------------------------------------------
(* The subscriber whose turn it is *)

LEMMA TargetKept == targets' = targets => Target' = Target
BY DEF Target

\* Of the subscribers that have yet to get an event there is a first.
LEMMA TargetWaits ==
  ASSUME targets \subseteq DOMAIN Place, targets # {}
  PROVE  Target \in targets
<1>1. DOMAIN Place = {"LCD", "RELAY", "LED", "BUZZER", "LOGGER", "FAULT_LOG", "WIFI",
                      "MONITOR", "ENFORCER"}
  BY DEF Place
<1>2. \E s \in targets : \A t \in targets : Place[s] <= Place[t]
  <2>1. CASE "LCD" \in targets
    BY <1>1, <2>1 DEF Place
  <2>2. CASE "LCD" \notin targets /\ "RELAY" \in targets
    BY <1>1, <2>2 DEF Place
  <2>3. CASE targets \cap {"LCD", "RELAY"} = {} /\ "LED" \in targets
    BY <1>1, <2>3 DEF Place
  <2>4. CASE targets \cap {"LCD", "RELAY", "LED"} = {} /\ "BUZZER" \in targets
    BY <1>1, <2>4 DEF Place
  <2>5. CASE targets \cap {"LCD", "RELAY", "LED", "BUZZER"} = {} /\ "LOGGER" \in targets
    BY <1>1, <2>5 DEF Place
  <2>6. CASE targets \subseteq {"FAULT_LOG", "WIFI", "MONITOR", "ENFORCER"} /\ "FAULT_LOG" \in targets
    BY <1>1, <2>6 DEF Place
  <2>7. CASE targets \subseteq {"WIFI", "MONITOR", "ENFORCER"} /\ "WIFI" \in targets
    BY <1>1, <2>7 DEF Place
  <2>8. CASE targets \subseteq {"MONITOR", "ENFORCER"}
    BY <1>1, <2>8 DEF Place
  <2>. QED
    BY <1>1, <2>1, <2>2, <2>3, <2>4, <2>5, <2>6, <2>7, <2>8
<1>. QED
  BY <1>2 DEF Target

-----------------------------------------------------------------------------
(* Sequences of events *)

AtMostFirst(s) == \A i \in 2..Len(s) : ~Critical(s[i])
Ordinary(s) == \A i \in 1..Len(s) : ~Critical(s[i])

\* Taking the first event leaves ordinary events only.
LEMMA TailOrdinary ==
  ASSUME NEW s \in Seq(Event), s # << >>, AtMostFirst(s)
  PROVE  Tail(s) \in Seq(Event) /\ Ordinary(Tail(s)) /\ AtMostFirst(Tail(s))
BY DEF AtMostFirst, Ordinary

\* An ordinary event at the end changes neither property, nor the first event.
LEMMA AppendOrdinary ==
  ASSUME NEW s \in Seq(Event), NEW e \in Event, ~Critical(e)
  PROVE  /\ Append(s, e) \in Seq(Event) /\ Len(Append(s, e)) = Len(s) + 1
         /\ AtMostFirst(s) => AtMostFirst(Append(s, e))
         /\ Ordinary(s) => Ordinary(Append(s, e))
         /\ s # << >> => Append(s, e) # << >> /\ Head(Append(s, e)) = Head(s)
BY DEF AtMostFirst, Ordinary

\* Any event may go in front of ordinary ones.
LEMMA FrontOfOrdinary ==
  ASSUME NEW s \in Seq(Event), NEW e \in Event, Ordinary(s)
  PROVE  /\ <<e>> \o s \in Seq(Event) /\ AtMostFirst(<<e>> \o s)
         /\ <<e>> \o s # << >> /\ Head(<<e>> \o s) = e
<1>1. <<e>> \o s \in Seq(Event) /\ Len(<<e>> \o s) = Len(s) + 1
  OBVIOUS
<1>2. \A i \in 2..Len(<<e>> \o s) : (<<e>> \o s)[i] = s[i - 1]
  BY <1>1
<1>3. (<<e>> \o s)[1] = e
  BY <1>1
<1>. QED
  BY <1>1, <1>2, <1>3 DEF AtMostFirst, Ordinary

-----------------------------------------------------------------------------
(* Steps that touch one queue *)

\* An ordinary event is enqueued, or dropped, and the dispatcher is not
\* between the drain of that queue and the send to its front, or counts it.
LEMMA EnqueueKeeps ==
  ASSUME IInv, NEW s, NEW e \in Event, Enqueue(s, e),
         s \in {"LED", "BUZZER"} => ~Critical(e)
  PROVE  /\ queue' \in [Subscriber -> Seq(Event)] /\ CriticalFirst'
         /\ Waiting("BUZZER") => Waiting("BUZZER")'
         /\ \A t \in {"LED", "BUZZER"} :
              Ordinary(queue[t]) =>
                Ordinary(queue'[t]) /\ Len(queue'[t]) <= Len(queue[t]) + 1
<1>1. \A t \in Subscriber : queue[t] \in Seq(Event) /\ Append(queue[t], e) \in Seq(Event)
  BY DEF IInv, QueuesOK
<1>2. queue' \in [Subscriber -> Seq(Event)]
  BY <1>1 DEF Enqueue, IInv, QueuesOK
<1>3. ASSUME NEW t \in {"LED", "BUZZER"}
      PROVE  queue'[t] = queue[t] \/ (queue'[t] = Append(queue[t], e) /\ ~Critical(e))
  <2>1. t \in Subscriber
    BY DEF Subscriber
  <2>. QED
    BY <2>1 DEF Enqueue, IInv, QueuesOK
<1>4. ASSUME NEW t \in {"LED", "BUZZER"}
      PROVE  /\ AtMostFirst(queue'[t])
             /\ Ordinary(queue[t]) =>
                  Ordinary(queue'[t]) /\ Len(queue'[t]) <= Len(queue[t]) + 1
             /\ Waiting(t) => Waiting(t)'
  <2>1. queue[t] \in Seq(Event)
    BY <1>1 DEF Subscriber
  <2>2. AtMostFirst(queue[t])
    BY DEF IInv, CriticalFirst, AtMostFirst
  <2>3. CASE queue'[t] = queue[t]
    BY <2>1, <2>2, <2>3 DEF Waiting
  <2>4. CASE queue'[t] = Append(queue[t], e) /\ ~Critical(e)
    BY <2>1, <2>2, <2>4, AppendOrdinary DEF Waiting
  <2>. QED
    BY <1>3, <2>3, <2>4
<1>5. CriticalFirst'
  BY <1>4 DEF CriticalFirst, AtMostFirst
<1>. QED
  BY <1>2, <1>4, <1>5

\* The first event of a queue leaves it.
LEMMA DequeueKeeps ==
  ASSUME IInv, NEW s \in Subscriber, queue[s] # << >>,
         queue' = [queue EXCEPT ![s] = Tail(@)]
  PROVE  /\ queue' \in [Subscriber -> Seq(Event)] /\ CriticalFirst'
         /\ s \in {"LED", "BUZZER"} => Ordinary(queue'[s])
         /\ \A t \in Subscriber : Len(queue'[t]) <= Len(queue[t])
         /\ \A t \in Subscriber \ {s} : queue'[t] = queue[t]
<1>1. queue[s] \in Seq(Event) /\ queue'[s] = Tail(queue[s])
  BY DEF IInv, QueuesOK
<1>2. \A t \in Subscriber \ {s} : queue'[t] = queue[t]
  BY DEF IInv, QueuesOK
<1>3. Tail(queue[s]) \in Seq(Event) /\ Len(Tail(queue[s])) <= Len(queue[s])
  BY <1>1
<1>4. queue' \in [Subscriber -> Seq(Event)]
  BY <1>3 DEF IInv, QueuesOK
<1>5. ASSUME s \in {"LED", "BUZZER"}
      PROVE  Ordinary(queue'[s]) /\ AtMostFirst(queue'[s])
  <2>1. AtMostFirst(queue[s])
    BY <1>5 DEF IInv, CriticalFirst, AtMostFirst
  <2>. QED
    BY <1>1, <2>1, TailOrdinary
<1>6. CriticalFirst'
  BY <1>2, <1>5 DEF IInv, CriticalFirst, AtMostFirst, Subscriber
<1>7. \A t \in Subscriber : Len(queue'[t]) <= Len(queue[t])
  BY <1>1, <1>2, <1>3 DEF IInv, QueuesOK
<1>. QED
  BY <1>2, <1>4, <1>5, <1>6, <1>7

-----------------------------------------------------------------------------
(* The invariant *)

LEMMA InitInvariant == Init => IInv
<1>. SUFFICES ASSUME Init PROVE IInv
  OBVIOUS
<1>1. QueuesOK
  <2>1. queue \in [Subscriber -> Seq(Event)]
    BY DEF Init, DispatcherInit
  <2>2. burst \in 0..MaxBurst
    BY DispatcherAssumption DEF Init, DispatcherInit
  <2>3. eventQueue \in Seq(Event)
    BY DEF Init, DispatcherInit, SystemEventsInit
  <2>4. preempt \in BOOLEAN /\ sending = "idle"
    BY DEF Init, DispatcherInit
  <2>. QED
    BY <2>1, <2>2, <2>3, <2>4 DEF QueuesOK
<1>2. CriticalFirst /\ DrainedFirst /\ PreemptionServed
  BY DEF Init, DispatcherInit, CriticalFirst, DrainedFirst, PreemptionServed, Subscriber
<1>. QED
  BY <1>1, <1>2 DEF IInv

\* A send that does not supersede: the event is appended, or dropped.
LEMMA SendKeeps == IInv /\ Send => IInv'
<1>. SUFFICES ASSUME IInv, Send PROVE IInv'
  OBVIOUS
<1>. DEFINE s == Target
<1>1. sending = "send" /\ Enqueue(s, evt) /\ UNCHANGED <<eventQueue, evt, preempt>>
  BY DEF Send, NextTarget
<1>2. burst' = 0 /\ sending' \in {"idle", "send"}
  BY DEF Send, NextTarget
<1>3. evt \in Event /\ (s \in {"LED", "BUZZER"} => ~Critical(evt))
  BY <1>1 DEF Send, Supersedes, IInv, QueuesOK
<1>4. /\ queue' \in [Subscriber -> Seq(Event)] /\ CriticalFirst'
      /\ Waiting("BUZZER") => Waiting("BUZZER")'
  BY <1>1, <1>3, EnqueueKeeps
<1>5. QueuesOK'
  BY <1>1, <1>2, <1>3, <1>4, DispatcherAssumption DEF IInv, QueuesOK
<1>6. DrainedFirst'
  BY <1>2 DEF DrainedFirst
<1>7. PreemptionServed'
  BY <1>1, <1>4 DEF IInv, PreemptionServed, Waiting
<1>. QED
  BY <1>4, <1>5, <1>6, <1>7 DEF IInv

\* The start of a critical send.
LEMMA SupersedeKeeps == IInv /\ Supersede => IInv'
<1>. SUFFICES ASSUME IInv, Supersede PROVE IInv'
  OBVIOUS
<1>1. sending = "send" /\ sending' = "drain" /\ UNCHANGED <<eventQueue, queue, evt, targets, burst>>
  BY DEF Supersede
<1>2. preempt' \in BOOLEAN
  BY Zenon DEF Supersede, IInv, QueuesOK
<1>3. QueuesOK' /\ CriticalFirst'
  BY <1>1, <1>2 DEF IInv, QueuesOK, CriticalFirst
<1>4. DrainedFirst'
  BY <1>1, TargetKept DEF Supersede, Supersedes, DrainedFirst
<1>5. PreemptionServed'
  <2>1. preempt' => Target = "BUZZER" \/ preempt
    BY DEF Supersede
  <2>. QED
    BY <1>1, <2>1, TargetKept DEF IInv, PreemptionServed
<1>. QED
  BY <1>3, <1>4, <1>5 DEF IInv

\* The drain of the queue of a critical send.
LEMMA DrainKeeps == IInv /\ Drain => IInv'
<1>. SUFFICES ASSUME IInv, Drain PROVE IInv'
  OBVIOUS
<1>. DEFINE s == Target
<1>1. sending = "drain" /\ UNCHANGED <<eventQueue, evt, targets, preempt, burst>>
  BY DEF Drain
<1>2. s \in {"LED", "BUZZER"} /\ s \in Subscriber /\ Critical(evt)
  BY <1>1 DEF IInv, DrainedFirst, Subscriber
<1>3. CASE queue[s] = << >>
  <2>1. sending' = "front" /\ queue' = queue
    BY <1>3 DEF Drain
  <2>2. QueuesOK' /\ CriticalFirst'
    BY <1>1, <2>1 DEF IInv, QueuesOK, CriticalFirst
  <2>3. DrainedFirst'
    BY <1>1, <1>2, <1>3, <2>1, TargetKept DEF IInv, QueuesOK, DrainedFirst
  <2>4. PreemptionServed'
    BY <1>1, <2>1, TargetKept DEF IInv, PreemptionServed
  <2>. QED
    BY <2>2, <2>3, <2>4 DEF IInv
<1>4. CASE queue[s] # << >>
  <2>1. sending' = sending /\ queue' = [queue EXCEPT ![s] = Tail(@)]
    BY <1>4 DEF Drain
  <2>2. /\ queue' \in [Subscriber -> Seq(Event)] /\ CriticalFirst'
        /\ \A t \in Subscriber \ {s} : queue'[t] = queue[t]
    BY <1>2, <1>4, <2>1, DequeueKeeps
  <2>3. QueuesOK' /\ DrainedFirst'
    BY <1>1, <1>2, <2>1, <2>2, TargetKept DEF IInv, QueuesOK, DrainedFirst
  <2>4. PreemptionServed'
    BY <1>1, <1>2, <2>1, <2>2, TargetKept DEF IInv, PreemptionServed, Subscriber
  <2>. QED
    BY <2>2, <2>3, <2>4 DEF IInv
<1>. QED
  BY <1>3, <1>4

\* The critical event goes in front; the queue has room for it.
LEMMA FrontKeeps == IInv /\ SendToFront => IInv'
<1>. SUFFICES ASSUME IInv, SendToFront PROVE IInv'
  OBVIOUS
<1>. DEFINE s == Target
            q2 == <<evt>> \o queue[s]
<1>1. /\ sending = "front" /\ burst' = 0 /\ sending' \in {"idle", "send"}
      /\ UNCHANGED <<eventQueue, evt, preempt>>
  BY DEF SendToFront, NextTarget
<1>2. s \in {"LED", "BUZZER"} /\ s \in Subscriber /\ Critical(evt) /\ evt \in Event
  BY <1>1 DEF IInv, QueuesOK, DrainedFirst, Subscriber
<1>3. queue[s] \in Seq(Event) /\ Ordinary(queue[s]) /\ Len(queue[s]) <= burst
  BY <1>1, <1>2 DEF IInv, QueuesOK, DrainedFirst, Ordinary
<1>4. ~Full(s)
  <2>1. MaxBurst \in Nat /\ SubscriberQueueLength[s] \in Nat /\ MaxBurst < SubscriberQueueLength[s]
    BY <1>2, DispatcherAssumption
  <2>. QED
    BY <1>3, <2>1 DEF Full, IInv, QueuesOK
<1>5. queue' = [queue EXCEPT ![s] = q2]
  BY <1>4 DEF SendToFront
<1>6. q2 \in Seq(Event) /\ AtMostFirst(q2) /\ q2 # << >> /\ Head(q2) = evt
  BY <1>2, <1>3, FrontOfOrdinary
<1>7. queue' \in [Subscriber -> Seq(Event)] /\ queue'[s] = q2
  BY <1>2, <1>5, <1>6 DEF IInv, QueuesOK
<1>8. \A t \in Subscriber \ {s} : queue'[t] = queue[t]
  BY <1>5 DEF IInv, QueuesOK
<1>9. QueuesOK'
  BY <1>1, <1>2, <1>7, DispatcherAssumption DEF IInv, QueuesOK
<1>10. CriticalFirst'
  BY <1>6, <1>7, <1>8 DEF IInv, CriticalFirst, AtMostFirst, Subscriber
<1>11. DrainedFirst'
  BY <1>1 DEF DrainedFirst
<1>12. PreemptionServed'
  BY <1>1, <1>2, <1>6, <1>7, <1>8 DEF IInv, PreemptionServed, Subscriber
<1>. QED
  BY <1>9, <1>10, <1>11, <1>12 DEF IInv

\* A step that leaves the dispatcher and the queues alone.
LEMMA OthersKeep ==
  IInv /\ eventQueue' \in Seq(Event)
       /\ UNCHANGED <<queue, evt, targets, sending, preempt, burst>> => IInv'
BY TargetKept DEF IInv, QueuesOK, CriticalFirst, DrainedFirst, PreemptionServed

LEMMA DispatchKeeps == IInv /\ Dispatch => IInv'
<1>. SUFFICES ASSUME IInv, Dispatch PROVE IInv'
  OBVIOUS
<1>1. /\ sending = "idle" /\ sending' \in {"idle", "send"} /\ evt' \in Event
      /\ UNCHANGED <<queue, preempt, burst>>
  BY DEF Dispatch
<1>2. eventQueue' \in Seq(Event)
  BY DEF Dispatch, Receive, IInv, QueuesOK
<1>3. QueuesOK' /\ CriticalFirst' /\ DrainedFirst'
  BY <1>1, <1>2 DEF IInv, QueuesOK, CriticalFirst, DrainedFirst
<1>4. PreemptionServed'
  BY <1>1 DEF IInv, PreemptionServed
<1>. QED
  BY <1>3, <1>4 DEF IInv

LEMMA PostKeeps == IInv /\ PostEvent => IInv'
<1>. SUFFICES ASSUME IInv, PostEvent PROVE IInv'
  OBVIOUS
<1>1. PICK e \in Posted : Post(e)
  BY DEF PostEvent
<1>2. eventQueue' \in Seq(Event)
  BY <1>1, DispatcherAssumption DEF Post, IInv, QueuesOK
<1>. QED
  BY <1>2, OthersKeep DEF PostEvent, dispatch

\* A direct post is ordinary, and counted while a queue is being drained.
LEMMA DirectKeeps ==
  ASSUME IInv, NEW s \in Subscriber, SendDirect(s)
  PROVE  IInv'
<1>1. PICK e \in DirectEvent(s) \cap Posted : Enqueue(s, e)
  BY DEF SendDirect
<1>2. e \in Event /\ ~Critical(e)
  BY DispatcherAssumption DEF DirectEvent, Plain, Critical
<1>3. UNCHANGED <<eventQueue, evt, targets, sending, preempt>>
  BY DEF SendDirect
<1>4. IF sending \in {"drain", "front"} THEN burst < MaxBurst /\ burst' = burst + 1
                                         ELSE burst' = burst
  BY DEF SendDirect
<1>5. /\ queue' \in [Subscriber -> Seq(Event)] /\ CriticalFirst'
      /\ Waiting("BUZZER") => Waiting("BUZZER")'
      /\ \A t \in {"LED", "BUZZER"} :
           Ordinary(queue[t]) =>
             Ordinary(queue'[t]) /\ Len(queue'[t]) <= Len(queue[t]) + 1
  BY <1>1, <1>2, EnqueueKeeps
<1>6. QueuesOK'
  BY <1>3, <1>4, <1>5, DispatcherAssumption DEF IInv, QueuesOK
<1>7. DrainedFirst'
  <2>1. sending' \in {"drain", "front"} => Critical(evt)' /\ Target' \in {"LED", "BUZZER"}
    BY <1>3, TargetKept DEF IInv, DrainedFirst
  <2>2. ASSUME sending = "front"
        PROVE  Len(queue'[Target]) <= burst' /\ Ordinary(queue'[Target])
    <3>. DEFINE t == Target
    <3>1. t \in {"LED", "BUZZER"} /\ t \in Subscriber /\ Len(queue[t]) <= burst /\ Ordinary(queue[t])
      BY <2>2 DEF IInv, DrainedFirst, Ordinary, Subscriber
    <3>2. burst' = burst + 1 /\ burst \in Nat
      BY <1>4, <2>2, DispatcherAssumption DEF IInv, QueuesOK
    <3>3. Len(queue[t]) \in Nat /\ Len(queue'[t]) \in Nat
      BY <1>5, <3>1 DEF IInv, QueuesOK
    <3>4. Ordinary(queue'[t]) /\ Len(queue'[t]) <= Len(queue[t]) + 1
      BY <1>5, <3>1
    <3>. QED
      BY <3>1, <3>2, <3>3, <3>4
  <2>. QED
    BY <1>3, <2>1, <2>2, TargetKept DEF DrainedFirst, Ordinary
<1>8. PreemptionServed'
  BY <1>3, <1>5, TargetKept DEF IInv, PreemptionServed, Waiting
<1>. QED
  BY <1>5, <1>6, <1>7, <1>8 DEF IInv

\* A subscriber takes its first event; the buzzer ends the preemption with a
\* critical one.
LEMMA ReceiveKeeps ==
  ASSUME IInv, NEW s \in Subscriber, NEW e \in Event, Dequeue(s, e),
         UNCHANGED <<eventQueue, evt, targets, sending, burst>>,
         preempt' \in BOOLEAN, preempt' => preempt,
         s = "BUZZER" /\ Critical(e) => ~preempt'
  PROVE  IInv'
<1>1. queue[s] # << >> /\ queue' = [queue EXCEPT ![s] = Tail(@)] /\ e = Head(queue[s])
  BY DEF Dequeue
<1>2. /\ queue' \in [Subscriber -> Seq(Event)] /\ CriticalFirst'
      /\ s \in {"LED", "BUZZER"} => Ordinary(queue'[s])
      /\ \A t \in Subscriber : Len(queue'[t]) <= Len(queue[t])
      /\ \A t \in Subscriber \ {s} : queue'[t] = queue[t]
  BY <1>1, DequeueKeeps
<1>3. QueuesOK'
  BY <1>2 DEF IInv, QueuesOK
<1>4. DrainedFirst'
  <2>1. ASSUME sending = "front"
        PROVE  Len(queue'[Target]) <= burst' /\ Ordinary(queue'[Target])
    <3>. DEFINE t == Target
    <3>1. t \in {"LED", "BUZZER"} /\ t \in Subscriber /\ Len(queue[t]) <= burst /\ Ordinary(queue[t])
      BY <2>1 DEF IInv, DrainedFirst, Ordinary, Subscriber
    <3>2. Ordinary(queue'[t])
      BY <1>2, <3>1
    <3>3. Len(queue'[t]) <= Len(queue[t]) /\ Len(queue[t]) \in Nat /\ Len(queue'[t]) \in Nat
      BY <1>2, <3>1 DEF IInv, QueuesOK
    <3>4. burst \in Nat
      BY DispatcherAssumption DEF IInv, QueuesOK
    <3>. QED
      BY <3>1, <3>2, <3>3, <3>4
  <2>. QED
    BY <2>1, TargetKept DEF IInv, DrainedFirst, Ordinary
<1>5. PreemptionServed'
  BY <1>1, <1>2, TargetKept DEF IInv, PreemptionServed, Subscriber
<1>. QED
  BY <1>2, <1>3, <1>4, <1>5 DEF IInv

LEMMA RecoveredOrdinary == \A e \in Event : e.action = "RECOVERED" => ~Critical(e)
BY DEF Event, Plain, ProtectionEvent, ProtectionPriority, Critical

LEMMA BuzzerKeeps == IInv /\ BuzzerTask => IInv'
<1>. SUFFICES ASSUME IInv, BuzzerTask PROVE IInv'
  OBVIOUS
<1>1. CASE BuzzerTop
  <2>1. UNCHANGED <<eventQueue, queue, evt, targets, sending, burst>>
    BY <1>1 DEF BuzzerTop
  <2>2. preempt' = FALSE \/ preempt' = preempt
    BY <1>1 DEF BuzzerTop
  <2>3. QueuesOK' /\ CriticalFirst' /\ DrainedFirst'
    BY <2>1, <2>2, TargetKept DEF IInv, QueuesOK, CriticalFirst, DrainedFirst
  <2>4. PreemptionServed'
    BY <2>1, <2>2, TargetKept DEF IInv, PreemptionServed
  <2>. QED
    BY <2>3, <2>4 DEF IInv
<1>2. CASE BuzzerReceive
  <2>1. PICK e \in Event : /\ Dequeue("BUZZER", e) /\ buzzer' = Reaction(e)
                           /\ preempt' = (preempt /\ buzzer' # "critical")
    BY <1>2 DEF BuzzerReceive
  <2>2. preempt' \in BOOLEAN /\ (preempt' => preempt)
    BY <2>1
  <2>3. Critical(e) => ~preempt'
    BY <2>1, RecoveredOrdinary DEF Reaction
  <2>4. UNCHANGED <<eventQueue, evt, targets, sending, burst>>
    BY <1>2 DEF BuzzerReceive
  <2>. QED
    BY <2>1, <2>2, <2>3, <2>4, ReceiveKeeps DEF Subscriber
<1>3. CASE BuzzerTimeout \/ ToneEnds
  BY <1>3, OthersKeep DEF BuzzerTimeout, ToneEnds, dispatch, IInv, QueuesOK
<1>. QED
  BY <1>1, <1>2, <1>3 DEF BuzzerTask

LEMMA LedKeeps == IInv /\ (LedReceive \/ LedWait) => IInv'
<1>. SUFFICES ASSUME IInv, LedReceive \/ LedWait PROVE IInv'
  OBVIOUS
<1>1. PICK e \in Event : Dequeue("LED", e)
  BY DEF LedReceive, LedWait
<1>2. UNCHANGED <<eventQueue, evt, targets, sending, preempt, burst>>
  BY DEF LedReceive, LedWait
<1>. QED
  BY <1>1, <1>2, ReceiveKeeps DEF Subscriber, IInv, QueuesOK

LEMMA TakeKeeps ==
  ASSUME IInv, NEW s \in Subscriber, Take(s)
  PROVE  IInv'
<1>1. PICK e \in Event : Dequeue(s, e)
  BY DEF Take
<1>2. s # "BUZZER" /\ UNCHANGED <<eventQueue, evt, targets, sending, preempt, burst>>
  BY DEF Take
<1>. QED
  BY <1>1, <1>2, ReceiveKeeps DEF IInv, QueuesOK

LEMMA NextInvariant == IInv /\ [Next]_vars => IInv'
<1>. SUFFICES ASSUME IInv, [Next]_vars PROVE IInv'
  OBVIOUS
<1>1. CASE PostEvent
  BY <1>1, PostKeeps
<1>2. ASSUME NEW s \in Subscriber, SendDirect(s) \/ Take(s) PROVE IInv'
  BY <1>2, DirectKeeps, TakeKeeps
<1>3. CASE ButtonClick \/ LedPatternEnds
  BY <1>3, OthersKeep DEF ButtonClick, LedPatternEnds, dispatch, IInv, QueuesOK
<1>4. CASE DispatcherTask
  BY <1>4, DispatchKeeps, SendKeeps, SupersedeKeeps, DrainKeeps, FrontKeeps DEF DispatcherTask
<1>5. CASE BuzzerTask
  BY <1>5, BuzzerKeeps
<1>6. CASE LedReceive \/ LedWait
  BY <1>6, LedKeeps
<1>7. CASE UNCHANGED vars
  BY <1>7, OthersKeep DEF vars, dispatch, IInv, QueuesOK
<1>. QED
  BY <1>1, <1>2, <1>3, <1>4, <1>5, <1>6, <1>7 DEF Next, DispatcherStep, LedStep

\* A critical event is first in the queues of the LED and the buzzer, for
\* every length of the queues and whatever other tasks send meanwhile.
THEOREM CriticalEventsFirst == Spec => []CriticalFirst
<1>1. Spec => []IInv
  BY InitInvariant, NextInvariant, PTL DEF Spec
<1>2. IInv => CriticalFirst
  BY DEF IInv
<1>. QED
  BY <1>1, <1>2, PTL

\* The flag that suppresses tones is up only while a critical event is on its
\* way to the buzzer, so that no tone is suppressed for ever by it.
THEOREM PreemptionsServed == Spec => []PreemptionServed
<1>1. Spec => []IInv
  BY InitInvariant, NextInvariant, PTL DEF Spec
<1>2. IInv => PreemptionServed
  BY DEF IInv
<1>. QED
  BY <1>1, <1>2, PTL

-----------------------------------------------------------------------------
(* Type correctness *)

DispatcherVarsOK ==
  /\ eventQueue \in Seq(Event) /\ Len(eventQueue) <= SystemEventQueueLength
  /\ watched \in Watched
  /\ \A s \in Subscriber :
       queue[s] \in Seq(Event) /\ Len(queue[s]) <= SubscriberQueueLength[s]
  /\ evt \in Event \cup {NoEvent}
  /\ preempt \in BOOLEAN /\ burst \in 0..MaxBurst

HandOK ==
  /\ targets \subseteq watched \cap DOMAIN Place
  /\ sending \in {"idle", "send", "drain", "front"}
  /\ sending = "idle" <=> targets = {}

OutputsOK ==
  /\ buzzer \in {"top", "receive", "click", "tone", "critical"}
  /\ criticalActive \in BOOLEAN /\ click \in BOOLEAN
  /\ led \in {"idle", "critical", "warning", "derate", "success", "error"}

LEMMA TypeParts == TypeOK <=> DispatcherVarsOK /\ HandOK /\ OutputsOK
BY DEF TypeOK, DispatcherTypeOK, DispatcherVarsOK, HandOK, OutputsOK, Holding

LEMMA RoutePlaced == \A e \in Event : Route(e) \subseteq DOMAIN Place
<1>. SUFFICES ASSUME NEW e \in Event PROVE Route(e) \subseteq DOMAIN Place
  OBVIOUS
<1>1. e.category \in {"PROTECTION", "SYSTEM", "FACTORY_RESET", "BUTTON", "WIFI"}
  BY DEF Event, Plain, ProtectionEvent
<1>2. ProtectionRoute(e.action) \subseteq DOMAIN Place
  BY DEF ProtectionRoute, Place
<1>3. CASE e.category = "PROTECTION"
  BY <1>2, <1>3 DEF Route, Place
<1>4. CASE e.category # "PROTECTION"
  BY <1>1, <1>4 DEF Route, Place
<1>. QED
  BY <1>3, <1>4

LEMMA HandInit == Init => HandOK
BY DEF Init, DispatcherInit, HandOK

LEMMA HandKept == HandOK /\ [Next]_vars => HandOK'
<1>. SUFFICES ASSUME HandOK, [Next]_vars PROVE HandOK'
  OBVIOUS
<1>1. CASE Dispatch
  <2>1. PICK e \in Event : targets' = Route(e) \cap watched
    BY <1>1 DEF Dispatch
  <2>2. sending' = (IF targets' = {} THEN "idle" ELSE "send") /\ watched' = watched
    BY <1>1 DEF Dispatch
  <2>. QED
    BY <2>1, <2>2, RoutePlaced DEF HandOK
<1>2. CASE Send \/ SendToFront
  BY <1>2 DEF Send, SendToFront, NextTarget, HandOK
<1>3. CASE Supersede \/ Drain
  BY <1>3 DEF Supersede, Drain, HandOK
<1>4. CASE UNCHANGED <<watched, targets, sending>>
  BY <1>4 DEF HandOK
<1>5. ASSUME NEW s \in Subscriber, SendDirect(s) \/ Take(s) PROVE HandOK'
  BY <1>4, <1>5 DEF SendDirect, Take
<1>6. CASE PostEvent \/ ButtonClick \/ LedPatternEnds \/ BuzzerTask \/ LedStep \/ UNCHANGED vars
  <2>1. UNCHANGED <<watched, targets, sending>>
    BY <1>6 DEF PostEvent, ButtonClick, LedPatternEnds, BuzzerTask, BuzzerTop, BuzzerReceive,
                BuzzerTimeout, ToneEnds, LedStep, LedReceive, LedWait, vars, dispatch
  <2>. QED
    BY <1>4, <2>1
<1>. QED
  BY <1>1, <1>2, <1>3, <1>5, <1>6 DEF Next, DispatcherStep, DispatcherTask

LengthsOK ==
  /\ Len(eventQueue) <= SystemEventQueueLength
  /\ \A s \in Subscriber : Len(queue[s]) <= SubscriberQueueLength[s]

LEMMA LengthsInit == Init => LengthsOK
<1>. SUFFICES ASSUME Init PROVE LengthsOK
  OBVIOUS
<1>1. eventQueue = << >> /\ queue = [s \in Subscriber |-> << >>]
  BY DEF Init, DispatcherInit, SystemEventsInit
<1>2. \A s \in Subscriber : Len(queue[s]) = 0
  BY <1>1
<1>. QED
  BY <1>1, <1>2, QueueLengthAssumption, DispatcherAssumption DEF LengthsOK

\* A send to a queue leaves it no longer than it may be.
LEMMA EnqueueFits ==
  ASSUME QueuesOK, LengthsOK, NEW s, NEW q,
         queue' = (IF Full(s) THEN queue ELSE [queue EXCEPT ![s] = q]),
         s \in Subscriber => Len(q) = Len(queue[s]) + 1
  PROVE  \A t \in Subscriber : Len(queue'[t]) <= SubscriberQueueLength[t]
<1>1. \A t \in Subscriber : Len(queue[t]) \in Nat /\ SubscriberQueueLength[t] \in Nat
  BY DispatcherAssumption DEF QueuesOK
<1>2. ASSUME NEW t \in Subscriber, t # s \/ Full(s)
      PROVE  queue'[t] = queue[t]
  BY <1>2 DEF QueuesOK
<1>3. ASSUME s \in Subscriber, ~Full(s)
      PROVE  Len(queue'[s]) <= SubscriberQueueLength[s]
  BY <1>1, <1>3 DEF QueuesOK, Full
<1>. QED
  BY <1>2, <1>3 DEF LengthsOK

LEMMA EnqueueLength ==
  ASSUME QueuesOK, LengthsOK, NEW s, NEW e \in Event, Enqueue(s, e)
  PROVE  \A t \in Subscriber : Len(queue'[t]) <= SubscriberQueueLength[t]
<1>1. s \in Subscriber => Len(Append(queue[s], e)) = Len(queue[s]) + 1
  BY DEF QueuesOK
<1>2. queue' = (IF Full(s) THEN queue ELSE [queue EXCEPT ![s] = Append(queue[s], e)])
  BY DEF Enqueue
<1>. HIDE DEF Enqueue
<1>. QED
  BY <1>1, <1>2, EnqueueFits

LEMMA DequeueLength ==
  ASSUME QueuesOK, LengthsOK, NEW s \in Subscriber, queue[s] # << >>,
         queue' = [queue EXCEPT ![s] = Tail(@)]
  PROVE  \A t \in Subscriber : Len(queue'[t]) <= SubscriberQueueLength[t]
<1>1. Len(Tail(queue[s])) = Len(queue[s]) - 1 /\ Len(queue[s]) \in Nat
  BY DEF QueuesOK
<1>2. queue'[s] = Tail(queue[s]) /\ \A t \in Subscriber \ {s} : queue'[t] = queue[t]
  BY DEF QueuesOK
<1>3. SubscriberQueueLength[s] \in Nat /\ Len(queue[s]) <= SubscriberQueueLength[s]
  BY DispatcherAssumption DEF LengthsOK
<1>4. Len(queue'[s]) <= SubscriberQueueLength[s]
  BY <1>1, <1>2, <1>3
<1>. QED
  BY <1>2, <1>4 DEF LengthsOK

LEMMA LengthsKept == IInv /\ LengthsOK /\ [Next]_vars => LengthsOK'
<1>. SUFFICES ASSUME IInv, LengthsOK, [Next]_vars PROVE LengthsOK'
  OBVIOUS
<1>. DEFINE Fits == \A t \in Subscriber : Len(queue'[t]) <= SubscriberQueueLength[t]
<1>0. QueuesOK /\ (sending # "idle" => evt \in Event)
  BY DEF IInv, QueuesOK
<1>1. CASE UNCHANGED <<eventQueue, queue>>
  BY <1>1 DEF LengthsOK
<1>2. CASE PostEvent
  <2>1. PICK e \in Event : Post(e)
    BY <1>2, DispatcherAssumption DEF PostEvent
  <2>2. Len(eventQueue) \in Nat /\ Len(Append(eventQueue, e)) = Len(eventQueue) + 1
    BY <1>0 DEF QueuesOK
  <2>3. Len(eventQueue') <= SystemEventQueueLength
    BY <2>1, <2>2, QueueLengthAssumption DEF Post, QueueFull, LengthsOK
  <2>4. queue' = queue
    BY <1>2 DEF PostEvent, dispatch
  <2>. QED
    BY <2>3, <2>4 DEF LengthsOK
<1>3. CASE Dispatch
  <2>1. eventQueue # << >> /\ eventQueue' = Tail(eventQueue) /\ queue' = queue
    BY <1>3 DEF Dispatch, Receive
  <2>2. Len(eventQueue') = Len(eventQueue) - 1 /\ Len(eventQueue) \in Nat
    BY <1>0, <2>1 DEF QueuesOK
  <2>3. Len(eventQueue') <= SystemEventQueueLength
    BY <2>2, QueueLengthAssumption DEF LengthsOK
  <2>. QED
    BY <2>1, <2>3 DEF LengthsOK
<1>4. CASE Send
  <2>1. Enqueue(Target, evt) /\ evt \in Event /\ eventQueue' = eventQueue
    BY <1>0, <1>4 DEF Send, NextTarget
  <2>2. Fits
    BY <1>0, <2>1, EnqueueLength
  <2>. QED
    BY <2>1, <2>2 DEF LengthsOK
<1>5. CASE SendToFront
  <2>. DEFINE q == <<evt>> \o queue[Target]
  <2>1. evt \in Event /\ eventQueue' = eventQueue
        /\ queue' = (IF Full(Target) THEN queue ELSE [queue EXCEPT ![Target] = q])
    BY <1>0, <1>5 DEF SendToFront, NextTarget
  <2>2. Target \in Subscriber => Len(q) = Len(queue[Target]) + 1
    BY <1>0, <2>1 DEF QueuesOK
  <2>. HIDE DEF q
  <2>3. Fits
    BY <1>0, <2>1, <2>2, EnqueueFits
  <2>. QED
    BY <2>1, <2>3 DEF LengthsOK
<1>6. CASE Drain
  <2>1. sending = "drain" /\ eventQueue' = eventQueue
        /\ \/ queue' = queue
           \/ queue[Target] # << >> /\ queue' = [queue EXCEPT ![Target] = Tail(@)]
    BY <1>6 DEF Drain
  <2>2. Target \in Subscriber
    BY <2>1 DEF IInv, DrainedFirst, Subscriber
  <2>3. Fits
    BY <1>0, <2>1, <2>2, DequeueLength DEF LengthsOK
  <2>. QED
    BY <2>1, <2>3 DEF LengthsOK
<1>7. ASSUME NEW s \in Subscriber, SendDirect(s) PROVE LengthsOK'
  <2>1. PICK e \in Event : Enqueue(s, e)
    BY <1>7, DispatcherAssumption DEF SendDirect
  <2>2. Fits
    BY <1>0, <2>1, EnqueueLength
  <2>3. eventQueue' = eventQueue
    BY <1>7 DEF SendDirect
  <2>. QED
    BY <2>2, <2>3 DEF LengthsOK
<1>8. ASSUME NEW s \in Subscriber, NEW e \in Event, Dequeue(s, e), eventQueue' = eventQueue
      PROVE  LengthsOK'
  <2>1. Fits
    BY <1>0, <1>8, DequeueLength DEF Dequeue
  <2>. QED
    BY <1>8, <2>1 DEF LengthsOK
<1>9. ASSUME NEW s \in Subscriber, Take(s) PROVE LengthsOK'
  BY <1>8, <1>9 DEF Take
<1>10. CASE BuzzerReceive \/ LedReceive \/ LedWait
  <2>. "BUZZER" \in Subscriber /\ "LED" \in Subscriber
    BY DEF Subscriber
  <2>. QED
    BY <1>8, <1>10 DEF BuzzerReceive, LedReceive, LedWait
<1>11. CASE Supersede \/ ButtonClick \/ LedPatternEnds \/ BuzzerTop \/ BuzzerTimeout \/ ToneEnds
            \/ UNCHANGED vars
  BY <1>1, <1>11 DEF Supersede, ButtonClick, LedPatternEnds, BuzzerTop, BuzzerTimeout, ToneEnds,
                     vars, dispatch
<1>. QED
  BY <1>2, <1>3, <1>4, <1>5, <1>6, <1>7, <1>9, <1>10, <1>11
     DEF Next, DispatcherStep, DispatcherTask, BuzzerTask, LedStep

LEMMA OutputsKept == OutputsOK /\ [Next]_vars => OutputsOK'
<1>. SUFFICES ASSUME OutputsOK, [Next]_vars PROVE OutputsOK'
  OBVIOUS
<1>1. CASE UNCHANGED outputs
  BY <1>1 DEF outputs, OutputsOK
<1>2. CASE ButtonClick \/ LedPatternEnds
  BY <1>2 DEF ButtonClick, LedPatternEnds, OutputsOK
<1>3. CASE BuzzerTop
  BY <1>3 DEF BuzzerTop, OutputsOK
<1>4. CASE BuzzerReceive
  <2>1. PICK e \in Event :
          /\ buzzer' = Reaction(e)
          /\ criticalActive' = (e.action # "RECOVERED" /\ (Critical(e) \/ criticalActive))
    BY <1>4 DEF BuzzerReceive
  <2>2. criticalActive' \in BOOLEAN
    BY <2>1
  <2>3. buzzer' \in {"tone", "critical", "top"}
    BY <2>1 DEF Reaction
  <2>4. UNCHANGED <<click, led>>
    BY <1>4 DEF BuzzerReceive
  <2>. QED
    BY <2>2, <2>3, <2>4 DEF OutputsOK
<1>5. CASE BuzzerTimeout \/ ToneEnds
  BY <1>5 DEF BuzzerTimeout, ToneEnds, OutputsOK
<1>6. CASE LedReceive \/ LedWait
  <2>1. PICK e \in Event : Start(e) \/ UNCHANGED led
    BY <1>6 DEF LedReceive, LedWait
  <2>2. Pattern(e) \in {"critical", "warning", "derate", "success", "error", "none"}
    BY DEF Pattern
  <2>3. led' \in {"idle", "critical", "warning", "derate", "success", "error"}
    BY <2>1, <2>2 DEF Start, OutputsOK
  <2>4. UNCHANGED <<buzzer, criticalActive, click>>
    BY <1>6 DEF LedReceive, LedWait
  <2>. QED
    BY <2>3, <2>4 DEF OutputsOK
<1>. QED
  BY <1>1, <1>2, <1>3, <1>4, <1>5, <1>6
     DEF Next, DispatcherStep, BuzzerTask, LedStep, vars, outputs

LEMMA TypeKept == IInv /\ TypeOK /\ [Next]_vars => TypeOK'
<1>. SUFFICES ASSUME IInv, TypeOK, [Next]_vars PROVE TypeOK'
  OBVIOUS
<1>1. HandOK' /\ OutputsOK' /\ LengthsOK' /\ QueuesOK'
  BY HandKept, OutputsKept, LengthsKept, NextInvariant, TypeParts
     DEF DispatcherVarsOK, LengthsOK, IInv
<1>2. watched' = watched
  BY DEF Next, PostEvent, SendDirect, Take, ButtonClick, LedPatternEnds, DispatcherStep,
         DispatcherTask, Dispatch, Send, SendToFront, NextTarget, Supersede, Drain,
         BuzzerTask, BuzzerTop, BuzzerReceive, BuzzerTimeout, ToneEnds, LedStep, LedReceive,
         LedWait, vars, dispatch
<1>3. evt' \in Event \cup {NoEvent}
  <2>1. CASE Dispatch
    BY <2>1 DEF Dispatch
  <2>2. CASE ~Dispatch
    <3>1. evt' = evt
      BY <2>2 DEF Next, PostEvent, SendDirect, Take, ButtonClick, LedPatternEnds, DispatcherStep,
         DispatcherTask, Send, SendToFront, NextTarget, Supersede, Drain,
         BuzzerTask, BuzzerTop, BuzzerReceive, BuzzerTimeout, ToneEnds, LedStep, LedReceive,
         LedWait, vars, dispatch
    <3>. QED
      BY <3>1, TypeParts DEF DispatcherVarsOK
  <2>. QED
    BY <2>1, <2>2
<1>4. watched \in Watched
  BY TypeParts DEF DispatcherVarsOK
<1>5. DispatcherVarsOK'
  BY <1>1, <1>2, <1>3, <1>4 DEF DispatcherVarsOK, LengthsOK, QueuesOK
<1>. QED
  BY <1>1, <1>5 DEF TypeOK, DispatcherTypeOK, DispatcherVarsOK, HandOK, OutputsOK, Holding

LEMMA TypeInit == Init => TypeOK
<1>. SUFFICES ASSUME Init PROVE TypeOK
  OBVIOUS
<1>1. HandOK /\ LengthsOK /\ QueuesOK
  BY HandInit, LengthsInit, InitInvariant DEF IInv
<1>2. watched \in Watched /\ evt = NoEvent
  BY DEF Init, DispatcherInit
<1>3. OutputsOK
  BY DEF Init, OutputsOK
<1>. QED
  BY <1>1, <1>2, <1>3, TypeParts DEF DispatcherVarsOK, LengthsOK, QueuesOK

LEMMA Invariants == Spec => [](IInv /\ TypeOK)
BY InitInvariant, NextInvariant, TypeInit, TypeKept, PTL DEF Spec

\* Whatever the tasks do, the queues of the dispatcher and of its subscribers
\* keep within their lengths, and the dispatcher holds an event exactly while
\* somebody has yet to get it.
THEOREM TypeCorrect == Spec => []TypeOK
BY Invariants, PTL

-----------------------------------------------------------------------------
(* The path of an event to the enforcer *)

Path(q, h, c) == q \o h \o c

\* What is at each place of a path p of three parts.
Parts(p, q, h, c) ==
  /\ p \in Seq(Event) /\ Len(p) = Len(q) + Len(h) + Len(c)
  /\ \A i \in 1..Len(p) : p[i] = IF i <= Len(q) THEN q[i]
                                 ELSE IF i <= Len(q) + Len(h) THEN h[i - Len(q)]
                                 ELSE c[i - Len(q) - Len(h)]

LEMMA PathElements ==
  ASSUME NEW q \in Seq(Event), NEW h \in Seq(Event), NEW c \in Seq(Event)
  PROVE  Parts(Path(q, h, c), q, h, c)
<1>1. q \o h \in Seq(Event) /\ Len(q \o h) = Len(q) + Len(h)
  OBVIOUS
<1>2. \A i \in 1..Len(q \o h) : (q \o h)[i] = IF i <= Len(q) THEN q[i] ELSE h[i - Len(q)]
  OBVIOUS
<1>. DEFINE qh == q \o h
<1>3. (qh \o c) \in Seq(Event) /\ Len(qh \o c) = Len(qh) + Len(c)
  BY <1>1
<1>4. \A i \in 1..Len(qh \o c) : (qh \o c)[i] = IF i <= Len(qh) THEN qh[i] ELSE c[i - Len(qh)]
  BY <1>1
<1>. HIDE DEF qh
<1>. QED
  BY <1>1, <1>2, <1>3, <1>4 DEF Parts, Path, qh

LEMMA Concatenated ==
  ASSUME NEW s \in Seq(Event), NEW t \in Seq(Event)
  PROVE  /\ s \o t \in Seq(Event) /\ Len(s \o t) = Len(s) + Len(t)
         /\ \A i \in 1..Len(s) + Len(t) :
              (s \o t)[i] = IF i <= Len(s) THEN s[i] ELSE t[i - Len(s)]
OBVIOUS

LEMMA SameSequence ==
  ASSUME NEW s \in Seq(Event), NEW t \in Seq(Event), Len(s) = Len(t),
         \A i \in 1..Len(s) : s[i] = t[i]
  PROVE  s = t
OBVIOUS

\* Posting to the central queue is sending into the path.
LEMMA PathPost ==
  ASSUME NEW q \in Seq(Event), NEW h \in Seq(Event), NEW c \in Seq(Event), NEW e \in Event
  PROVE  Path(q, h, Append(c, e)) = Append(Path(q, h, c), e)
<1>. DEFINE d == Append(c, e)
            p == Path(q, h, c)
            r == Path(q, h, d)
            s == Append(p, e)
<1>1. /\ d \in Seq(Event) /\ Len(d) = Len(c) + 1
      /\ d[Len(c) + 1] = e /\ \A i \in 1..Len(c) : d[i] = c[i]
  OBVIOUS
<1>. HIDE DEF d
<1>2. Parts(p, q, h, c) /\ Parts(r, q, h, d)
  BY <1>1, PathElements
<1>. HIDE DEF p, r
<1>3. /\ Len(p) = Len(q) + Len(h) + Len(c) /\ {Len(q), Len(h), Len(c)} \subseteq Nat
      /\ p \in Seq(Event) /\ r \in Seq(Event) /\ Len(r) = Len(p) + 1
  BY <1>1, <1>2 DEF Parts
<1>4. /\ s \in Seq(Event) /\ Len(s) = Len(p) + 1
      /\ s[Len(p) + 1] = e /\ \A i \in 1..Len(p) : s[i] = p[i]
  BY <1>3
<1>. HIDE DEF s
<1>5. ASSUME NEW i \in 1..Len(r) PROVE r[i] = s[i]
  <2>1. r[i] = IF i <= Len(q) THEN q[i]
               ELSE IF i <= Len(q) + Len(h) THEN h[i - Len(q)]
               ELSE d[i - Len(q) - Len(h)]
    BY <1>2 DEF Parts
  <2>2. CASE i <= Len(p)
    <3>1. p[i] = IF i <= Len(q) THEN q[i]
                 ELSE IF i <= Len(q) + Len(h) THEN h[i - Len(q)]
                 ELSE c[i - Len(q) - Len(h)]
      <4>1. i \in 1..Len(p)
        BY <1>3, <2>2
      <4>. QED
        BY <1>2, <4>1 DEF Parts
    <3>2. ~(i <= Len(q) + Len(h)) => d[i - Len(q) - Len(h)] = c[i - Len(q) - Len(h)]
      <4>1. ~(i <= Len(q) + Len(h)) => i - Len(q) - Len(h) \in 1..Len(c)
        BY <1>3, <2>2
      <4>. QED
        BY <1>1, <4>1
    <3>3. i <= Len(q) => i <= Len(q) + Len(h)
      BY <1>3
    <3>4. r[i] = p[i]
      BY <2>1, <3>1, <3>2, <3>3
    <3>5. i \in 1..Len(p)
      BY <1>3, <2>2
    <3>. QED
      BY <1>4, <3>4, <3>5
  <2>3. CASE i = Len(p) + 1
    <3>1. ~(i <= Len(q)) /\ ~(i <= Len(q) + Len(h)) /\ i - Len(q) - Len(h) = Len(c) + 1
      BY <1>3, <2>3
    <3>. QED
      BY <1>1, <1>4, <2>1, <2>3, <3>1
  <2>4. i <= Len(p) \/ i = Len(p) + 1
    BY <1>3
  <2>. QED
    BY <2>2, <2>3, <2>4
<1>6. r = s
  BY <1>3, <1>4, <1>5, SameSequence
<1>. QED
  BY <1>6 DEF p, r, d, s

\* Taking the first event of the enforcer's queue is delivery.
LEMMA PathTake ==
  ASSUME NEW q \in Seq(Event), NEW h \in Seq(Event), NEW c \in Seq(Event), q # << >>
  PROVE  Path(q, h, c) # << >> /\ Path(Tail(q), h, c) = Tail(Path(q, h, c))
<1>. DEFINE t == Tail(q)
            p == Path(q, h, c)
            r == Path(t, h, c)
            s == Tail(p)
<1>1. /\ t \in Seq(Event) /\ Len(t) = Len(q) - 1 /\ Len(q) > 0
      /\ \A i \in 1..Len(t) : t[i] = q[i + 1]
  OBVIOUS
<1>. HIDE DEF t
<1>2. Parts(p, q, h, c) /\ Parts(r, t, h, c)
  BY <1>1, PathElements
<1>. HIDE DEF p, r
<1>3. /\ Len(p) = Len(q) + Len(h) + Len(c) /\ {Len(q), Len(h), Len(c)} \subseteq Nat
      /\ p \in Seq(Event) /\ r \in Seq(Event) /\ Len(r) = Len(p) - 1 /\ Len(p) > 0
  BY <1>1, <1>2 DEF Parts
<1>4. /\ p # << >> /\ s \in Seq(Event) /\ Len(s) = Len(p) - 1
      /\ \A i \in 1..Len(s) : s[i] = p[i + 1]
  BY <1>3
<1>. HIDE DEF s
<1>5. ASSUME NEW i \in 1..Len(r) PROVE r[i] = s[i]
  <2>1. i + 1 \in 1..Len(p) /\ s[i] = p[i + 1]
    BY <1>3, <1>4
  <2>2. p[i + 1] = IF i + 1 <= Len(q) THEN q[i + 1]
                   ELSE IF i + 1 <= Len(q) + Len(h) THEN h[i + 1 - Len(q)]
                   ELSE c[i + 1 - Len(q) - Len(h)]
    BY <1>2, <2>1 DEF Parts
  <2>3. r[i] = IF i <= Len(t) THEN t[i]
               ELSE IF i <= Len(t) + Len(h) THEN h[i - Len(t)]
               ELSE c[i - Len(t) - Len(h)]
    BY <1>2 DEF Parts
  <2>4. /\ i + 1 - Len(q) = i - Len(t) /\ i + 1 - Len(q) - Len(h) = i - Len(t) - Len(h)
        /\ (i + 1 <= Len(q) <=> i <= Len(t))
        /\ (i + 1 <= Len(q) + Len(h) <=> i <= Len(t) + Len(h))
    BY <1>1, <1>3
  <2>5. i <= Len(t) => t[i] = q[i + 1]
    BY <1>1
  <2>. QED
    BY <2>1, <2>2, <2>3, <2>4, <2>5
<1>6. r = s
  BY <1>3, <1>4, <1>5, SameSequence
<1>. QED
  BY <1>4, <1>6 DEF p, r, t, s

\* The dispatcher takes an event for the enforcer into its hand ...
LEMMA PathReceive ==
  ASSUME NEW q \in Seq(Event), NEW c \in Seq(Event), c # << >>
  PROVE  Path(q, <<Head(c)>>, Tail(c)) = Path(q, << >>, c)
<1>. DEFINE e == Head(c)
            t == Tail(c)
            one == <<e>>
            none == << >>
            p == Path(q, one, t)
            r == Path(q, none, c)
<1>1. /\ e \in Event /\ t \in Seq(Event) /\ Len(t) = Len(c) - 1 /\ Len(c) > 0
      /\ e = c[1] /\ \A i \in 1..Len(t) : t[i] = c[i + 1]
  OBVIOUS
<1>. HIDE DEF e, t
<1>2. /\ one \in Seq(Event) /\ Len(one) = 1 /\ one[1] = e
      /\ none \in Seq(Event) /\ Len(none) = 0
  BY <1>1
<1>. HIDE DEF one, none
<1>3. Parts(p, q, one, t) /\ Parts(r, q, none, c)
  BY <1>1, <1>2, PathElements
<1>. HIDE DEF p, r
<1>4. /\ Len(p) = Len(q) + Len(c) /\ {Len(q), Len(c)} \subseteq Nat
      /\ p \in Seq(Event) /\ r \in Seq(Event) /\ Len(r) = Len(p)
  BY <1>1, <1>2, <1>3 DEF Parts
<1>5. ASSUME NEW i \in 1..Len(p) PROVE p[i] = r[i]
  <2>1. p[i] = IF i <= Len(q) THEN q[i]
               ELSE IF i <= Len(q) + 1 THEN one[i - Len(q)] ELSE t[i - Len(q) - 1]
    BY <1>2, <1>3 DEF Parts
  <2>3. r[i] = IF i <= Len(q) THEN q[i] ELSE c[i - Len(q)]
    <3>1. r[i] = IF i <= Len(q) THEN q[i]
                 ELSE IF i <= Len(q) + 0 THEN none[i - Len(q)] ELSE c[i - Len(q) - 0]
      BY <1>2, <1>3, <1>4 DEF Parts
    <3>2. (i <= Len(q) + 0 <=> i <= Len(q)) /\ i - Len(q) - 0 = i - Len(q)
      BY <1>4
    <3>. QED
      BY <3>1, <3>2
  <2>4. CASE i <= Len(q)
    BY <2>1, <2>3, <2>4
  <2>5. CASE i = Len(q) + 1
    <3>1. i - Len(q) = 1 /\ ~(i <= Len(q)) /\ i <= Len(q) + 1
      BY <1>4, <2>5
    <3>. QED
      BY <1>1, <1>2, <2>1, <2>3, <3>1
  <2>6. CASE i > Len(q) + 1
    <3>1. /\ i - Len(q) - 1 \in 1..Len(t) /\ i - Len(q) - 1 + 1 = i - Len(q)
          /\ ~(i <= Len(q)) /\ ~(i <= Len(q) + 1)
      BY <1>1, <1>4, <2>6
    <3>. QED
      BY <1>1, <2>1, <2>3, <3>1
  <2>. QED
    BY <1>4, <2>4, <2>5, <2>6
<1>6. p = r
  BY <1>4, <1>5, SameSequence
<1>. QED
  BY <1>6 DEF p, r, e, t, one, none

\* ... and sends it to the end of the enforcer's queue.
LEMMA PathSend ==
  ASSUME NEW q \in Seq(Event), NEW c \in Seq(Event), NEW e \in Event
  PROVE  Path(Append(q, e), << >>, c) = Path(q, <<e>>, c)
<1>. DEFINE d == Append(q, e)
            one == <<e>>
            none == << >>
            p == Path(d, none, c)
            r == Path(q, one, c)
<1>1. /\ d \in Seq(Event) /\ Len(d) = Len(q) + 1
      /\ d[Len(q) + 1] = e /\ \A i \in 1..Len(q) : d[i] = q[i]
  OBVIOUS
<1>2. /\ one \in Seq(Event) /\ Len(one) = 1 /\ one[1] = e
      /\ none \in Seq(Event) /\ Len(none) = 0
  OBVIOUS
<1>. HIDE DEF d, one, none
<1>3. Parts(p, d, none, c) /\ Parts(r, q, one, c)
  BY <1>1, <1>2, PathElements
<1>. HIDE DEF p, r
<1>4. /\ Len(p) = Len(q) + 1 + Len(c) /\ {Len(q), Len(c)} \subseteq Nat
      /\ p \in Seq(Event) /\ r \in Seq(Event) /\ Len(r) = Len(p)
  BY <1>1, <1>2, <1>3 DEF Parts
<1>5. ASSUME NEW i \in 1..Len(p) PROVE p[i] = r[i]
  <2>1. p[i] = IF i <= Len(q) + 1 THEN d[i] ELSE c[i - Len(q) - 1]
    <3>1. p[i] = IF i <= Len(d) THEN d[i]
                 ELSE IF i <= Len(d) + Len(none) THEN none[i - Len(d)]
                 ELSE c[i - Len(d) - Len(none)]
      BY <1>3 DEF Parts
    <3>2. /\ (i <= Len(d) <=> i <= Len(q) + 1) /\ (i <= Len(d) + Len(none) <=> i <= Len(q) + 1)
          /\ i - Len(d) - Len(none) = i - Len(q) - 1
      BY <1>1, <1>2, <1>4
    <3>. QED
      BY <3>1, <3>2
  <2>2. r[i] = IF i <= Len(q) THEN q[i]
               ELSE IF i <= Len(q) + 1 THEN one[i - Len(q)] ELSE c[i - Len(q) - 1]
    BY <1>2, <1>3, <1>4 DEF Parts
  <2>3. CASE i <= Len(q)
    <3>1. i \in 1..Len(q) /\ i <= Len(q) + 1
      BY <1>4, <2>3
    <3>. QED
      BY <1>1, <2>1, <2>2, <2>3, <3>1
  <2>4. CASE i = Len(q) + 1
    <3>1. i - Len(q) = 1 /\ ~(i <= Len(q)) /\ i <= Len(q) + 1
      BY <1>4, <2>4
    <3>. QED
      BY <1>1, <1>2, <2>1, <2>2, <2>4, <3>1
  <2>5. CASE i > Len(q) + 1
    <3>1. ~(i <= Len(q)) /\ ~(i <= Len(q) + 1)
      BY <1>4, <2>5
    <3>. QED
      BY <2>1, <2>2, <3>1
  <2>. QED
    BY <1>4, <2>3, <2>4, <2>5
<1>6. p = r
  BY <1>4, <1>5, SameSequence
<1>. QED
  BY <1>6 DEF p, r, d, one, none

\* An event the dispatcher drops, or never sends to the enforcer, leaves the
\* path at the place right behind the enforcer's queue.
LEMMA PathLose ==
  ASSUME NEW q \in Seq(Event), NEW c \in Seq(Event), NEW e \in Event
  PROVE  LET p == Path(q, <<e>>, c)
             n == Len(q) + 1
         IN  /\ n \in 1..Len(p) /\ p[n] = e
             /\ Path(q, << >>, c) = SubSeq(p, 1, n - 1) \o SubSeq(p, n + 1, Len(p))
<1>. DEFINE one == <<e>>
            none == << >>
            p == Path(q, one, c)
            n == Len(q) + 1
            r == Path(q, none, c)
            a == SubSeq(p, 1, n - 1)
            b == SubSeq(p, n + 1, Len(p))
            s == a \o b
<1>1. /\ one \in Seq(Event) /\ Len(one) = 1 /\ one[1] = e
      /\ none \in Seq(Event) /\ Len(none) = 0
  OBVIOUS
<1>. HIDE DEF one, none
<1>2. Parts(p, q, one, c) /\ Parts(r, q, none, c)
  BY <1>1, PathElements
<1>. HIDE DEF p, r
<1>3. /\ p \in Seq(Event) /\ Len(p) = n + Len(c) /\ r \in Seq(Event) /\ Len(r) = Len(q) + Len(c)
      /\ n \in 1..Len(p) /\ Len(q) \in Nat /\ Len(c) \in Nat
  BY <1>1, <1>2 DEF Parts
<1>4. \A i \in 1..Len(p) : p[i] = IF i <= Len(q) THEN q[i]
                                  ELSE IF i <= Len(q) + 1 THEN one[i - Len(q)]
                                  ELSE c[i - Len(q) - 1]
  BY <1>1, <1>2 DEF Parts
<1>5. p[n] = e
  <2>1. n - Len(q) = 1 /\ ~(n <= Len(q)) /\ n <= Len(q) + 1
    BY <1>3
  <2>2. p[n] = one[n - Len(q)]
    BY <1>3, <1>4, <2>1
  <2>. QED
    BY <1>1, <2>1, <2>2
<1>6. ASSUME NEW i \in 1..Len(r) PROVE r[i] = IF i <= Len(q) THEN q[i] ELSE c[i - Len(q)]
  <2>1. r[i] = IF i <= Len(q) THEN q[i]
               ELSE IF i <= Len(q) + Len(none) THEN none[i - Len(q)]
               ELSE c[i - Len(q) - Len(none)]
    BY <1>2 DEF Parts
  <2>2. (i <= Len(q) + Len(none) <=> i <= Len(q)) /\ i - Len(q) - Len(none) = i - Len(q)
    BY <1>1, <1>3
  <2>. QED
    BY <2>1, <2>2
<1>7. a \in Seq(Event) /\ Len(a) = Len(q) /\ \A i \in 1..Len(q) : a[i] = p[i]
  BY <1>3
<1>. DEFINE m == Len(p)
<1>8. b \in Seq(Event) /\ Len(b) = Len(c) /\ \A i \in 1..Len(c) : b[i] = p[i + n]
  <2>1. n \in Nat /\ m \in Nat /\ n + 1 \in 1..m + 1 /\ m - n = Len(c)
    BY <1>3
  <2>. HIDE DEF n
  <2>2. b \in Seq(Event) /\ Len(b) = m - n /\ \A i \in 1..m - n : b[i] = p[n + 1 + i - 1]
    BY <1>3, <2>1
  <2>3. ASSUME NEW i \in 1..m - n PROVE b[i] = p[i + n]
    <3>1. n + 1 + i - 1 = i + n
      BY <2>1
    <3>. QED
      BY <2>2, <3>1
  <2>. QED
    BY <2>1, <2>2, <2>3
<1>. HIDE DEF a, b
<1>9. /\ s \in Seq(Event) /\ Len(s) = Len(r)
      /\ \A i \in 1..Len(s) : s[i] = IF i <= Len(q) THEN a[i] ELSE b[i - Len(q)]
  <2>1. /\ s \in Seq(Event) /\ Len(s) = Len(a) + Len(b)
        /\ \A i \in 1..Len(a) + Len(b) : s[i] = IF i <= Len(a) THEN a[i] ELSE b[i - Len(a)]
    BY <1>7, <1>8, Concatenated
  <2>. QED
    BY <1>3, <1>7, <1>8, <2>1
<1>. HIDE DEF s
<1>10. ASSUME NEW i \in 1..Len(r) PROVE r[i] = s[i]
  <2>1. /\ r[i] = IF i <= Len(q) THEN q[i] ELSE c[i - Len(q)]
        /\ s[i] = IF i <= Len(q) THEN a[i] ELSE b[i - Len(q)]
    BY <1>6, <1>9
  <2>2. CASE i <= Len(q)
    <3>1. i \in 1..Len(q) /\ i \in 1..Len(p)
      BY <1>3, <2>2
    <3>. QED
      BY <1>4, <1>7, <2>1, <2>2, <3>1
  <2>3. CASE i > Len(q)
    <3>1. i - Len(q) \in 1..Len(c) /\ i - Len(q) + n \in 1..Len(p)
          /\ ~(i - Len(q) + n <= Len(q) + 1) /\ ~(i - Len(q) + n <= Len(q))
          /\ (i - Len(q) + n) - Len(q) - 1 = i - Len(q) /\ ~(i <= Len(q))
      BY <1>3, <2>3
    <3>2. p[i - Len(q) + n] = c[i - Len(q)]
      BY <1>4, <3>1
    <3>3. b[i - Len(q)] = c[i - Len(q)]
      BY <1>8, <3>1, <3>2
    <3>. QED
      BY <2>1, <3>1, <3>3
  <2>. QED
    BY <1>3, <2>2, <2>3
<1>11. r = s
  BY <1>3, <1>9, <1>10, SameSequence
<1>. QED
  BY <1>3, <1>5, <1>11 DEF p, r, s, a, b, one, none

-----------------------------------------------------------------------------
(* The path implements a lossy channel *)

ChannelStep == Enforcer!Send \/ Enforcer!Deliver \/ Enforcer!Lose

LEMMA PathParts ==
  ASSUME IInv, TypeOK
  PROVE  /\ queue["ENFORCER"] \in Seq(Event) /\ eventQueue \in Seq(Event)
         /\ "ENFORCER" \in targets => evt \in Event
         /\ InHand \in Seq(Event)
         /\ "ENFORCER" \in watched => EnforcerPath = Path(queue["ENFORCER"], InHand, eventQueue)
         /\ "ENFORCER" \notin watched => EnforcerPath = << >>
<1>1. queue["ENFORCER"] \in Seq(Event) /\ eventQueue \in Seq(Event)
  BY DEF IInv, QueuesOK, Subscriber
<1>2. "ENFORCER" \in targets => evt \in Event
  BY TypeParts DEF HandOK, IInv, QueuesOK
<1>3. InHand \in Seq(Event)
  BY <1>2 DEF InHand
<1>. QED
  BY <1>1, <1>2, <1>3 DEF EnforcerPath, Path

\* A step that leaves the parts of the path alone leaves the path alone.
LEMMA PathStutters ==
  ASSUME UNCHANGED <<watched, evt, eventQueue>>, queue'["ENFORCER"] = queue["ENFORCER"],
         "ENFORCER" \in targets' <=> "ENFORCER" \in targets
  PROVE  UNCHANGED EnforcerPath
BY DEF EnforcerPath, InHand

LEMMA ChannelPost ==
  ASSUME IInv, TypeOK, PostEvent, "ENFORCER" \in watched
  PROVE  Enforcer!Send \/ UNCHANGED EnforcerPath
<1>1. PICK e \in Event : Post(e)
  BY DispatcherAssumption DEF PostEvent
<1>2. UNCHANGED <<watched, queue, evt, targets>>
  BY DEF PostEvent, dispatch
<1>3. InHand' = InHand
  BY <1>2 DEF InHand
<1>4. CASE QueueFull
  BY <1>1, <1>2, <1>4, PathStutters DEF Post
<1>5. CASE ~QueueFull
  <2>1. eventQueue' = Append(eventQueue, e)
    BY <1>1, <1>5 DEF Post
  <2>2. EnforcerPath' = Path(queue["ENFORCER"], InHand, Append(eventQueue, e))
    BY <1>2, <1>3, <2>1 DEF EnforcerPath, Path
  <2>. DEFINE q == queue["ENFORCER"]
              h == InHand
  <2>3. /\ q \in Seq(Event) /\ h \in Seq(Event) /\ eventQueue \in Seq(Event)
        /\ EnforcerPath = Path(q, h, eventQueue)
    BY PathParts
  <2>. HIDE DEF q, h
  <2>4. Path(q, h, Append(eventQueue, e)) = Append(Path(q, h, eventQueue), e)
    BY <2>3, PathPost, Zenon
  <2>5. EnforcerPath' = Append(EnforcerPath, e)
    BY <2>2, <2>3, <2>4, Zenon DEF q, h
  <2>. QED
    BY <2>5 DEF Enforcer!Send
<1>. QED
  BY <1>4, <1>5

\* An event that is not for the enforcer leaves its path with the dispatcher.
LEMMA ChannelDispatch ==
  ASSUME IInv, TypeOK, Dispatch, "ENFORCER" \in watched
  PROVE  Enforcer!Lose \/ UNCHANGED EnforcerPath
<1>. DEFINE q == queue["ENFORCER"]
<1>1. PICK e \in Event :
        /\ eventQueue # << >> /\ e = Head(eventQueue) /\ eventQueue' = Tail(eventQueue)
        /\ evt' = e /\ targets' = Route(e) \cap watched
  BY DEF Dispatch, Receive
<1>2. UNCHANGED <<watched, queue>> /\ targets = {}
  BY TypeParts DEF Dispatch, HandOK
<1>3. q \in Seq(Event) /\ eventQueue \in Seq(Event) /\ EnforcerPath = Path(q, << >>, eventQueue)
  BY <1>2, PathParts DEF InHand
<1>4. EnforcerPath = Path(q, <<e>>, Tail(eventQueue))
  BY <1>1, <1>3, PathReceive
<1>5. EnforcerPath' = Path(q, InHand', Tail(eventQueue))
  BY <1>1, <1>2 DEF EnforcerPath, Path
<1>6. CASE e.category = "PROTECTION"
  <2>1. "ENFORCER" \in targets'
    BY <1>1, <1>6 DEF Route
  <2>2. InHand' = <<e>>
    BY <1>1, <2>1 DEF InHand
  <2>. QED
    BY <1>4, <1>5, <2>2
<1>7. CASE e.category # "PROTECTION"
  <2>1. "ENFORCER" \notin Route(e)
    <3>1. e.category \in {"SYSTEM", "FACTORY_RESET", "BUTTON", "WIFI"}
      BY <1>7 DEF Event, Plain, ProtectionEvent
    <3>. QED
      BY <1>7, <3>1 DEF Route
  <2>2. InHand' = << >>
    BY <1>1, <2>1 DEF InHand
  <2>. DEFINE n == Len(q) + 1
  <2>3. /\ n \in 1..Len(EnforcerPath) /\ EnforcerPath[n] = e
        /\ EnforcerPath' =
             SubSeq(EnforcerPath, 1, n - 1) \o SubSeq(EnforcerPath, n + 1, Len(EnforcerPath))
    <3>. DEFINE c == Tail(eventQueue)
                p == EnforcerPath
    <3>1. c \in Seq(Event) /\ q \in Seq(Event)
      BY <1>1, <1>3
    <3>2. p = Path(q, <<e>>, c) /\ EnforcerPath' = Path(q, << >>, c)
      BY <1>4, <1>5, <2>2
    <3>. HIDE DEF c, q, p
    <3>3. LET r == Path(q, <<e>>, c)
              m == Len(q) + 1
          IN  /\ m \in 1..Len(r) /\ r[m] = e
              /\ Path(q, << >>, c) = SubSeq(r, 1, m - 1) \o SubSeq(r, m + 1, Len(r))
      BY <3>1, PathLose
    <3>4. /\ n \in 1..Len(p) /\ p[n] = e
          /\ Path(q, << >>, c) = SubSeq(p, 1, n - 1) \o SubSeq(p, n + 1, Len(p))
      BY <3>2, <3>3
    <3>. QED
      BY <3>2, <3>4 DEF p
  <2>. HIDE DEF n
  <2>. QED
    BY <1>7, <2>3 DEF Enforcer!Lose, Enforcer!RemoveAt
<1>. QED
  BY <1>6, <1>7

\* The send to the enforcer moves the event into its queue, or loses it when
\* a queue's worth of events is ahead of it.
LEMMA ChannelSend ==
  ASSUME IInv, TypeOK, Send, "ENFORCER" \in watched
  PROVE  Enforcer!Lose \/ UNCHANGED EnforcerPath
<1>. DEFINE q == queue["ENFORCER"]
<1>1. UNCHANGED <<watched, evt, eventQueue>> /\ targets' = targets \ {Target}
      /\ Enqueue(Target, evt) /\ sending = "send"
  BY DEF Send, NextTarget
<1>2. Target \in targets /\ evt \in Event
  BY <1>1, TargetWaits, TypeParts DEF HandOK, IInv, QueuesOK
<1>3. q \in Seq(Event) /\ eventQueue \in Seq(Event)
  BY PathParts
<1>4. CASE Target # "ENFORCER"
  <2>1. queue'["ENFORCER"] = q
    BY <1>1, <1>4 DEF Enqueue, IInv, QueuesOK, Subscriber
  <2>. QED
    BY <1>1, <1>4, <2>1, PathStutters
<1>5. CASE Target = "ENFORCER"
  <2>1. InHand = <<evt>> /\ InHand' = << >>
    BY <1>1, <1>2, <1>5 DEF InHand
  <2>2. EnforcerPath = Path(q, <<evt>>, eventQueue)
    BY <2>1, PathParts
  <2>3. EnforcerPath' = Path(queue'["ENFORCER"], << >>, eventQueue)
    BY <1>1, <2>1 DEF EnforcerPath, Path
  <2>4. CASE ~Full("ENFORCER")
    <3>1. queue'["ENFORCER"] = Append(q, evt)
      BY <1>1, <1>5, <2>4 DEF Enqueue, IInv, QueuesOK, Subscriber
    <3>. QED
      BY <1>2, <1>3, <2>2, <2>3, <3>1, PathSend
  <2>5. CASE Full("ENFORCER")
    <3>. DEFINE n == Len(q) + 1
    <3>1. queue'["ENFORCER"] = q
      BY <1>1, <1>5, <2>5 DEF Enqueue
    <3>2. /\ n \in 1..Len(EnforcerPath)
          /\ EnforcerPath' =
               SubSeq(EnforcerPath, 1, n - 1) \o SubSeq(EnforcerPath, n + 1, Len(EnforcerPath))
      BY <1>2, <1>3, <2>2, <2>3, <3>1, PathLose
    <3>3. n > SubscriberQueueLength["ENFORCER"]
      <4>1. SubscriberQueueLength["ENFORCER"] \in Nat
        BY DispatcherAssumption DEF Subscriber
      <4>. QED
        BY <1>3, <2>5, <4>1 DEF Full
    <3>. HIDE DEF n
    <3>. QED
      BY <3>2, <3>3 DEF Enforcer!Lose, Enforcer!RemoveAt
  <2>. QED
    BY <2>4, <2>5
<1>. QED
  BY <1>4, <1>5

LEMMA ChannelTake ==
  ASSUME IInv, TypeOK, NEW s \in Subscriber, Take(s), "ENFORCER" \in watched
  PROVE  Enforcer!Deliver \/ UNCHANGED EnforcerPath
<1>. DEFINE q == queue["ENFORCER"]
<1>1. UNCHANGED <<watched, evt, eventQueue, targets>>
      /\ queue[s] # << >> /\ queue' = [queue EXCEPT ![s] = Tail(@)]
  BY DEF Take, Dequeue
<1>2. CASE s # "ENFORCER"
  <2>1. queue'["ENFORCER"] = q
    BY <1>1, <1>2 DEF IInv, QueuesOK, Subscriber
  <2>. QED
    BY <1>1, <2>1, PathStutters
<1>3. CASE s = "ENFORCER"
  <2>1. queue'["ENFORCER"] = Tail(q) /\ q # << >>
    BY <1>1, <1>3 DEF IInv, QueuesOK, Subscriber
  <2>2. EnforcerPath' = Path(Tail(q), InHand, eventQueue)
    BY <1>1, <2>1 DEF EnforcerPath, InHand, Path
  <2>3. EnforcerPath # << >> /\ EnforcerPath' = Tail(EnforcerPath)
    BY <2>1, <2>2, PathParts, PathTake
  <2>. QED
    BY <2>3 DEF Enforcer!Deliver
<1>. QED
  BY <1>2, <1>3

\* The other steps have to do with other queues.
LEMMA OthersStutter ==
  ASSUME IInv, TypeOK,
         \/ \E s \in Subscriber : SendDirect(s)
         \/ Supersede \/ Drain \/ SendToFront \/ ButtonClick \/ LedPatternEnds
         \/ BuzzerTask \/ LedStep \/ UNCHANGED vars
  PROVE  UNCHANGED EnforcerPath
<1>1. UNCHANGED <<watched, evt, eventQueue>>
  BY DEF SendDirect, Supersede, Drain, SendToFront, NextTarget, ButtonClick, LedPatternEnds,
         BuzzerTask, BuzzerTop, BuzzerReceive, BuzzerTimeout, ToneEnds, LedStep, LedReceive,
         LedWait, vars, dispatch
<1>2. sending \in {"drain", "front"} => Target \in {"LED", "BUZZER"}
  BY DEF IInv, DrainedFirst
<1>3. "ENFORCER" \in targets' <=> "ENFORCER" \in targets
  <2>1. CASE SendToFront
    BY <1>2, <2>1 DEF SendToFront, NextTarget
  <2>2. CASE ~SendToFront
    BY <2>2 DEF SendDirect, Supersede, Drain, ButtonClick, LedPatternEnds,
         BuzzerTask, BuzzerTop, BuzzerReceive, BuzzerTimeout, ToneEnds, LedStep, LedReceive,
         LedWait, vars, dispatch
  <2>. QED
    BY <2>1, <2>2
<1>4. queue'["ENFORCER"] = queue["ENFORCER"]
  <2>1. ASSUME NEW s \in Subscriber, SendDirect(s)
        PROVE  queue'["ENFORCER"] = queue["ENFORCER"]
    BY <2>1 DEF SendDirect, Enqueue, IInv, QueuesOK, Subscriber
  <2>2. CASE Drain \/ SendToFront
    BY <1>2, <2>2 DEF Drain, SendToFront, IInv, QueuesOK, Subscriber
  <2>3. CASE BuzzerReceive \/ LedReceive \/ LedWait
    BY <2>3 DEF BuzzerReceive, LedReceive, LedWait, Dequeue, IInv, QueuesOK, Subscriber
  <2>4. CASE Supersede \/ ButtonClick \/ LedPatternEnds \/ BuzzerTop \/ BuzzerTimeout \/ ToneEnds
             \/ UNCHANGED vars
    BY <2>4 DEF Supersede, ButtonClick, LedPatternEnds, BuzzerTop, BuzzerTimeout, ToneEnds,
                vars, dispatch
  <2>. QED
    BY <2>1, <2>2, <2>3, <2>4 DEF BuzzerTask, LedStep
<1>. QED
  BY <1>1, <1>3, <1>4, PathStutters

LEMMA StepIsChannelStep ==
  ASSUME IInv, TypeOK, [Next]_vars
  PROVE  [ChannelStep]_EnforcerPath
<1>0. watched' = watched
  BY DEF Next, PostEvent, SendDirect, Take, ButtonClick, LedPatternEnds, DispatcherStep,
         DispatcherTask, Dispatch, Send, SendToFront, NextTarget, Supersede, Drain,
         BuzzerTask, BuzzerTop, BuzzerReceive, BuzzerTimeout, ToneEnds, LedStep, LedReceive,
         LedWait, vars, dispatch
<1>1. CASE "ENFORCER" \notin watched
  BY <1>0, <1>1 DEF EnforcerPath
<1>2. CASE "ENFORCER" \in watched
  <2>1. CASE PostEvent
    BY <1>2, <2>1, ChannelPost DEF ChannelStep
  <2>2. CASE Dispatch
    BY <1>2, <2>2, ChannelDispatch DEF ChannelStep
  <2>3. CASE Send
    BY <1>2, <2>3, ChannelSend DEF ChannelStep
  <2>4. ASSUME NEW s \in Subscriber, Take(s) PROVE [ChannelStep]_EnforcerPath
    BY <1>2, <2>4, ChannelTake DEF ChannelStep
  <2>. QED
    BY <2>1, <2>2, <2>3, <2>4, OthersStutter DEF Next, DispatcherStep, DispatcherTask
<1>. QED
  BY <1>1, <1>2

\* The events on their way to the enforcer, from the central queue through the
\* dispatcher's hand to its own, are a channel that keeps their order, doubles
\* none and loses a protection event only when the enforcer's queue is full.
THEOREM EnforcerPathIsChannel == Spec => EnforcerChannel
<1>1. Init => EnforcerPath = << >>
  BY DEF Init, DispatcherInit, SystemEventsInit, EnforcerPath, InHand, Subscriber
<1>2. IInv /\ TypeOK /\ [Next]_vars => [ChannelStep]_EnforcerPath
  BY StepIsChannelStep
<1>3. EnforcerPath = << >> /\ [][ChannelStep]_EnforcerPath => EnforcerChannel
  BY PTL DEF ChannelStep, EnforcerChannel, Enforcer!Spec
<1>. QED
  BY <1>1, <1>2, <1>3, Invariants, PTL DEF Spec
=============================================================================
