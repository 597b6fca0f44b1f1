------------------------------- MODULE Alarms -------------------------------
(***************************************************************************)
(* The two tasks that turn events into alarms: buzzer_event_task           *)
(* (src/utility/buzzer.c) and led_event_task (src/utility/led.c), behind   *)
(* the dispatcher.  Tones and patterns take time, in which the queues fill *)
(* and the dispatcher preempts; their pitch and rhythm are left out.       *)
(***************************************************************************)
EXTENDS EventDispatcher

VARIABLES
  buzzer,          \* what buzzer_event_task is doing
  criticalActive,  \* critical_active, of the buzzer
  click,           \* a button click is notified to the buzzer task
  led              \* the pattern led_event_task is executing, or "idle"

outputs == <<buzzer, criticalActive, click, led>>
vars == <<eventQueue, dispatch, outputs>>

Init ==
  /\ DispatcherInit
  /\ buzzer = "top" /\ criticalActive = FALSE /\ click = FALSE
  /\ led = "idle"

-----------------------------------------------------------------------------
(* The buzzer task *)

\* buzzer_button_click, from the button task.
ButtonClick ==
  /\ "BUZZER" \in watched
  /\ click' = TRUE
  /\ UNCHANGED <<eventQueue, dispatch, buzzer, criticalActive, led>>

\* The top of the loop: a click is played first, unless an alarm is active.
BuzzerTop ==
  /\ "BUZZER" \in watched /\ buzzer = "top"
  /\ IF click /\ ~criticalActive
     THEN buzzer' = "click" /\ click' = FALSE /\ preempt' = FALSE
     ELSE buzzer' = "receive" /\ UNCHANGED <<click, preempt>>
  /\ UNCHANGED <<eventQueue, watched, queue, evt, targets, sending, burst, criticalActive, led>>

\* Mutant: the suppression by an active alarm is tested first.
Reaction_SuppressFirst(e) ==
  CASE e.action = "RECOVERED" -> "tone"
    [] criticalActive -> "top"
    [] Critical(e) -> "critical"
    [] OTHER -> "tone"

\* What an event makes the buzzer do.
Reaction(e) ==
  CASE e.action = "RECOVERED" -> "tone"
    [] e.action # "RECOVERED" /\ Critical(e) -> "critical"
    [] e.action # "RECOVERED" /\ ~Critical(e) /\ criticalActive -> "top"
    [] OTHER -> "tone"

BuzzerReceive ==
  /\ "BUZZER" \in watched /\ buzzer = "receive"
  /\ \E e \in Event :
       /\ Dequeue("BUZZER", e)
       /\ buzzer' = Reaction(e)
       /\ criticalActive' =
            (e.action # "RECOVERED" /\ (Critical(e) \/ criticalActive))
       /\ preempt' = (preempt /\ buzzer' # "critical")
  /\ UNCHANGED <<eventQueue, watched, evt, targets, sending, burst, click, led>>

\* Twenty milliseconds without an event.
BuzzerTimeout ==
  /\ buzzer = "receive" /\ queue["BUZZER"] = << >>
  /\ buzzer' = "top"
  /\ UNCHANGED <<eventQueue, dispatch, criticalActive, click, led>>

\* A tone ends by itself or is cut short by a preemption.
ToneEnds ==
  /\ buzzer \in {"click", "tone", "critical"}
  /\ buzzer' = IF buzzer = "click" THEN "receive" ELSE "top"
  /\ UNCHANGED <<eventQueue, dispatch, criticalActive, click, led>>

BuzzerTask == BuzzerTop \/ BuzzerReceive \/ BuzzerTimeout \/ ToneEnds

-----------------------------------------------------------------------------
(* The LED task *)

\* The pattern an event asks for; "none" is over at once.
Pattern(e) ==
  CASE Critical(e) -> "critical"
    [] ~Critical(e) /\ e.category = "PROTECTION" /\ e.action = "WARN" -> "warning"
    [] ~Critical(e) /\ e.category = "PROTECTION" /\ e.action = "DERATE" -> "derate"
    [] ~Critical(e) /\ e.category # "PROTECTION" /\ e.action = "SUCCESS" -> "success"
    [] ~Critical(e) /\ e.category # "PROTECTION" /\ e.action = "ERROR" -> "error"
    [] OTHER -> "none"

Start(e) == led' = IF Pattern(e) = "none" THEN "idle" ELSE Pattern(e)

LedReceive ==
  /\ "LED" \in watched /\ led = "idle"
  /\ \E e \in Event : Dequeue("LED", e) /\ Start(e)
  /\ UNCHANGED <<eventQueue, watched, evt, targets, sending, burst, preempt, buzzer, criticalActive, click>>

\* led_wait_for_critical: a running pattern gives way to a critical event or
\* a recovery, and swallows every other.
LedWait ==
  /\ led # "idle"
  /\ \E e \in Event :
       /\ Dequeue("LED", e)
       /\ IF Critical(e) \/ e.action = "RECOVERED" THEN Start(e) ELSE UNCHANGED led
  /\ UNCHANGED <<eventQueue, watched, evt, targets, sending, burst, preempt, buzzer, criticalActive, click>>

\* A pattern is over: after its repeats, 65535 of them for the longest.
LedPatternEnds ==
  /\ led # "idle"
  /\ led' = "idle"
  /\ UNCHANGED <<eventQueue, dispatch, buzzer, criticalActive, click>>

-----------------------------------------------------------------------------

DispatcherStep == DispatcherTask /\ UNCHANGED outputs
LedStep == LedReceive \/ LedWait

Next ==
  \/ (PostEvent \/ \E s \in Subscriber : SendDirect(s) \/ Take(s)) /\ UNCHANGED outputs
  \/ ButtonClick \/ LedPatternEnds
  \/ DispatcherStep \/ BuzzerTask \/ LedStep

\* Tasks of their own, above the producers in priority, that never wait for
\* anything but their queue and bounded delays.
Spec ==
  /\ Init /\ [][Next]_vars
  /\ WF_vars(DispatcherStep) /\ WF_vars(BuzzerTask) /\ WF_vars(LedStep)

-----------------------------------------------------------------------------
(* Properties *)

TypeOK ==
  /\ DispatcherTypeOK
  /\ buzzer \in {"top", "receive", "click", "tone", "critical"}
  /\ criticalActive \in BOOLEAN /\ click \in BOOLEAN
  /\ led \in {"idle", "critical", "warning", "derate", "success", "error"}

Waiting(s) == queue[s] # << >> /\ Critical(Head(queue[s]))
Superseding(s) == sending = "drain" /\ Target = s
Given(s) == CASE s = "BUZZER" -> buzzer = "critical" [] s = "LED" -> led = "critical"

\* A critical event that supersedes what the LED or the buzzer has queued gets
\* there, and then its alarm is given, whatever is sent or playing meanwhile,
\* unless a newer critical event supersedes it in turn.
AlarmGiven ==
  \A s \in {"BUZZER", "LED"} :
    /\ Superseding(s) ~> Waiting(s)
    /\ Waiting(s) ~> Given(s) \/ Superseding(s)
=============================================================================
