---------------------------- MODULE PowerControl ----------------------------
(***************************************************************************)
(* The power state machine of the inverter (src/app_runtime.c) and the     *)
(* tasks that drive it without a common lock: the button task, the HTTP    *)
(* server, the ADC task, which disables the output when the battery        *)
(* telemetry is lost, and the protection enforcer, which does the same     *)
(* when a monitored quantity enters FAULT.  The chip has two cores and the *)
(* long operations sleep, so what another task may overtake is a step of   *)
(* its own: an operation is a path of labels in pc.                        *)
(***************************************************************************)
EXTENDS ErrorFlags, Integers, Sequences

CONSTANTS
  MockFeedback,    \* INVERTER_ENABLE_MOCK_PHYSICAL_FEEDBACK, 0 in production
  RelayCanFail,    \* gpio_set_level may return an error
  LimitChoice,     \* the current limits, in ampere, a user may set
  Submenu,         \* the menus with detail views this instance offers
  MaxMail,         \* bound on the events waiting for the enforcer
  MaxHistory       \* APP_MENU_HISTORY_DEPTH

ASSUME PowerAssumption ==
  /\ MockFeedback \in BOOLEAN
  /\ RelayCanFail \in BOOLEAN
  /\ LimitChoice \subseteq 1..50 /\ LimitChoice # {}
  /\ Submenu \subseteq {"MONITORING", "DIAGNOSTIC"}
  /\ MaxMail \in Nat /\ MaxHistory \in Nat

VARIABLES
  state,           \* inverter.inverter_state
  active,          \* inverter.inverter_active
  outputEnabled,   \* output_enabled
  relay,           \* the level of GPIO_POWER_RELAY
  limit,           \* current_limit, in ampere
  flags,           \* error.error_flags
  ready,           \* telemetry_health_required_ready()
  adcValid,        \* adc_data_valid, updated at the end of an ADC cycle
  latched,         \* telemetry_shutdown_latched, local to the ADC task
  channelFault,    \* some quantity's protection stage is FAULT
  mail,            \* protection events on their way to the enforcer
  menu, history,   \* menu_state and the menu history
  detail,          \* in_detail_view, pre_detail_inverter_state, detail_parent_menu
  previousState,   \* inverter.previous_inverter_state
  postPassed,      \* post_get_last_result().all_passed
  systemReady,     \* system_ready, fixed once app_main is done
  pc,              \* where each task is
  after,           \* what the button task does after power_on or shutdown
  causes           \* history: what may have parted the relay from the state

output == <<active, outputEnabled, relay, limit>>
sensing == <<ready, adcValid, latched, channelFault, mail>>
ui == <<menu, history, detail, previousState>>
boot == <<postPassed, systemReady>>
vars == <<state, output, flags, sensing, ui, boot, pc, after, causes>>

State == {"OFF", "STARTING", "ON", "FAULT", "DIAGNOSTIC"}
Menu == {"NONE", "MAIN", "SETTINGS", "MONITORING", "DIAGNOSTIC"}
Driver == {"button", "http"}           \* run power_on and shutdown_inverter
Guardian == {"adc", "enforcer"}        \* run inverter_emergency_disable
Task == Driver \cup Guardian
Cause == {"OVERLAP", "STUCK", "OVERWRITTEN"}

\* The saved state and parent are only read while the view is open.
NoDetail == [open |-> FALSE, state |-> "OFF", menu |-> "NONE"]

Init ==
  /\ state = "OFF" /\ active = FALSE /\ outputEnabled = FALSE /\ relay = FALSE
  /\ limit \in LimitChoice
  /\ flags = {} /\ latched = FALSE /\ channelFault = FALSE /\ mail = << >>
  /\ menu = "NONE" /\ history = << >> /\ previousState = "OFF"
  /\ detail = NoDetail
  /\ postPassed \in BOOLEAN /\ systemReady \in BOOLEAN
  /\ systemReady => postPassed
  /\ ready \in BOOLEAN /\ adcValid = ready
  /\ pc = [t \in Task |-> "idle"] /\ after = "idle" /\ causes = {}

At(t, label) == pc[t] = label
Goto(t, label) == pc' = [pc EXCEPT ![t] = label]

\* The chip restarts: every output is back at its reset level.
Reboot ==
  /\ state' = "OFF" /\ active' = FALSE /\ outputEnabled' = FALSE /\ relay' = FALSE
  /\ limit' \in LimitChoice
  /\ flags' = {} /\ latched' = FALSE /\ channelFault' = FALSE /\ mail' = << >>
  /\ menu' = "NONE" /\ history' = << >> /\ previousState' = "OFF"
  /\ detail' = NoDetail
  /\ postPassed' \in BOOLEAN /\ systemReady' \in BOOLEAN
  /\ systemReady' => postPassed'
  /\ ready' \in BOOLEAN /\ adcValid' = ready'
  /\ pc' = [t \in Task |-> "idle"] /\ after' = "idle" /\ causes' = {}

-----------------------------------------------------------------------------
(* inverter_power_on(), by the button or the HTTP task t *)

\* Back to the caller: only the button task has more to do afterwards.
Finish(t) ==
  /\ Goto(t, IF t = "button" THEN after ELSE "idle")
  /\ after' = IF t = "button" THEN "idle" ELSE after

\* check_safety_conditions: the self-test, the telemetry, the battery window.
Safe(batteryInRange) == postPassed /\ adcValid /\ ready /\ batteryInRange

\* The telemetry check, reached when the self-test passed, leaves its flag.
CheckFlags ==
  flags' = IF postPassed /\ ~(adcValid /\ ready) THEN flags \cup ERR_BATTERY_VOLTAGE
                                                 ELSE flags

FailStart ==
  /\ state' = "FAULT" /\ active' = FALSE /\ outputEnabled' = FALSE

RefuseStart(t) ==
  /\ At(t, "powerOn")
  /\ \E inRange \in BOOLEAN : ~Safe(inRange)
  /\ FailStart /\ CheckFlags /\ Finish(t)
  /\ UNCHANGED <<relay, limit, sensing, ui, boot>>

Arm(t) ==
  /\ At(t, "powerOn")
  /\ \E inRange \in BOOLEAN : Safe(inRange)
  /\ state' = "STARTING" /\ active' = FALSE /\ outputEnabled' = FALSE
  /\ Goto(t, "energise")
  /\ UNCHANGED <<relay, limit, flags, sensing, ui, boot, after>>

Energise(t) ==
  /\ At(t, "energise")
  /\ relay' = TRUE
  /\ Goto(t, "publishOn")
  /\ UNCHANGED <<state, active, outputEnabled, limit, flags, sensing, ui, boot, after>>

EnergiseFails(t) ==
  /\ At(t, "energise") /\ RelayCanFail
  /\ state' = "FAULT" /\ active' = FALSE
  /\ flags' = flags \cup SYSTEM_FAILURE_ERROR
  /\ Finish(t)
  /\ UNCHANGED <<outputEnabled, relay, limit, sensing, ui, boot>>

PublishOn(t) ==
  /\ At(t, "publishOn")
  /\ state' = "ON" /\ active' = TRUE /\ outputEnabled' = TRUE
  /\ menu' = "NONE"
  /\ Finish(t)
  /\ UNCHANGED <<relay, limit, flags, sensing, history, detail,
                 previousState, boot>>

-----------------------------------------------------------------------------
(* shutdown_inverter() *)

StopIgnored(t) ==
  /\ At(t, "shutdown") /\ state = "OFF"
  /\ Finish(t)
  /\ UNCHANGED <<state, output, flags, sensing, ui, boot>>

StopBegins(t) ==
  /\ At(t, "shutdown") /\ state # "OFF"
  /\ Goto(t, "open")
  /\ UNCHANGED <<state, output, flags, sensing, ui, boot, after>>

\* Mutant: the ramp-down ends without opening the relay.
OpenRelay_Forgotten(t) ==
  /\ At(t, "open")
  /\ Goto(t, "publishOff")
  /\ UNCHANGED <<state, active, outputEnabled, relay, limit, flags, sensing, ui,
                 boot, after>>

OpenRelay(t) ==
  /\ At(t, "open")
  /\ relay' = FALSE
  /\ Goto(t, "publishOff")
  /\ UNCHANGED <<state, active, outputEnabled, limit, flags, sensing, ui, boot,
                 after>>

\* A relay that cannot be opened restarts the system.
OpenFails(t) == At(t, "open") /\ RelayCanFail /\ Reboot

\* output_enabled is not among what is cleared.
PublishOff(t) ==
  /\ At(t, "publishOff")
  /\ state' = "OFF" /\ active' = FALSE
  /\ menu' = "NONE"
  /\ flags' = flags \ SYSTEM_FAILURE_ERROR
  /\ Finish(t)
  /\ UNCHANGED <<outputEnabled, relay, limit, sensing, history, detail,
                 previousState, boot>>

Drive(t) ==
  \/ RefuseStart(t) \/ Arm(t) \/ Energise(t) \/ EnergiseFails(t) \/ PublishOn(t)
  \/ StopIgnored(t) \/ StopBegins(t) \/ OpenRelay(t) \/ PublishOff(t)

-----------------------------------------------------------------------------
(* inverter_emergency_disable(), by the ADC or the enforcer task g *)

Disable(g) ==
  /\ At(g, "disable")
  /\ limit' = 0
  /\ \E opened \in {TRUE} \cup {~RelayCanFail} : relay' = (relay /\ ~opened)
  /\ Goto(g, "publishFault")
  /\ UNCHANGED <<state, active, outputEnabled, flags, sensing, ui, boot, after>>

PublishFault(g) ==
  /\ At(g, "publishFault")
  /\ state' = "FAULT" /\ active' = FALSE /\ outputEnabled' = FALSE
  /\ flags' = flags \cup SYSTEM_FAILURE_ERROR \cup ERR_BATTERY_VOLTAGE
  /\ Goto(g, IF g = "adc" THEN "publishSample" ELSE "idle")
  /\ UNCHANGED <<relay, limit, sensing, ui, boot, after>>

-----------------------------------------------------------------------------
(* The ADC task: one cycle of adc_task_body() *)

\* Mutant: the latch of one loss is never released.
SampleReady_KeepsLatch ==
  /\ At("adc", "idle")
  /\ ready' = TRUE /\ latched' = latched
  /\ \E fault \in IF adcValid THEN BOOLEAN ELSE {channelFault} :
       /\ fault # channelFault => Len(mail) < MaxMail
       /\ channelFault' = fault
       /\ mail' = IF fault = channelFault THEN mail
                  ELSE Append(mail, IF fault THEN "SHUTDOWN" ELSE "RECOVERED")
       /\ flags' = (flags \cap Retained)
                     \cup (IF fault /\ ~channelFault THEN ERR_LOW_BAT ELSE {})
  /\ Goto("adc", "publishSample")
  /\ UNCHANGED <<state, output, adcValid, ui, boot, after>>

\* Fresh data: check_protections, which may move a quantity into or out of
\* FAULT, once the last cycle's data was valid as well.
SampleReady ==
  /\ At("adc", "idle")
  /\ ready' = TRUE /\ latched' = FALSE
  /\ \E fault \in IF adcValid THEN BOOLEAN ELSE {channelFault} :
       /\ fault # channelFault => Len(mail) < MaxMail
       /\ channelFault' = fault
       /\ mail' = IF fault = channelFault THEN mail
                  ELSE Append(mail, IF fault THEN "SHUTDOWN" ELSE "RECOVERED")
       /\ flags' = (flags \cap Retained)
                     \cup (IF fault /\ ~channelFault THEN ERR_LOW_BAT ELSE {})
  /\ Goto("adc", "publishSample")
  /\ UNCHANGED <<state, output, adcValid, ui, boot, after>>

\* Lost data disables a running or starting output, once per loss.
SampleLost ==
  /\ At("adc", "idle")
  /\ ready' = FALSE
  /\ flags' = flags \cup ERR_BATTERY_VOLTAGE
  /\ LET trip == ~latched /\ (active \/ state = "STARTING")
     IN  /\ latched' = (latched \/ trip)
         /\ Goto("adc", IF trip THEN "disable" ELSE "publishSample")
  /\ UNCHANGED <<state, output, adcValid, channelFault, mail, ui, boot, after>>

PublishSample ==
  /\ At("adc", "publishSample")
  /\ adcValid' = ready
  /\ Goto("adc", "idle")
  /\ UNCHANGED <<state, output, flags, ready, latched, channelFault, mail, ui,
                 boot, after>>

-----------------------------------------------------------------------------
(* The protection enforcer *)

\* Mutant: the enforcer handles SHUTDOWN as it handles a warning.
TakeShutdown_Warns ==
  /\ At("enforcer", "idle") /\ mail # << >> /\ Head(mail) = "SHUTDOWN"
  /\ mail' = Tail(mail)
  /\ UNCHANGED <<state, output, flags, ready, adcValid, latched, channelFault,
                 ui, boot, pc, after>>

TakeShutdown ==
  /\ At("enforcer", "idle") /\ mail # << >> /\ Head(mail) = "SHUTDOWN"
  /\ mail' = Tail(mail)
  /\ Goto("enforcer", "disable")
  /\ UNCHANGED <<state, output, flags, ready, adcValid, latched, channelFault,
                 ui, boot, after>>

\* The limit is set again to what it is, not to what it was before: no change.
TakeRecovered ==
  /\ At("enforcer", "idle") /\ mail # << >> /\ Head(mail) = "RECOVERED"
  /\ mail' = Tail(mail)
  /\ UNCHANGED <<state, output, flags, ready, adcValid, latched, channelFault,
                 ui, boot, pc, after>>

-----------------------------------------------------------------------------
(* POST /api/inverter/control with the PIN, and the power status behind it *)

\* Mutant: the interlocks forget system_ready.
InterlocksReady_NoLock == MockFeedback /\ adcValid /\ flags = {}

InterlocksReady == MockFeedback /\ systemReady /\ adcValid /\ flags = {}

HttpOn ==
  /\ At("http", "idle") /\ InterlocksReady /\ state = "OFF"
  /\ Goto("http", "powerOn")
  /\ UNCHANGED <<state, output, flags, sensing, ui, boot, after>>

HttpOff ==
  /\ At("http", "idle") /\ InterlocksReady /\ state # "OFF"
  /\ Goto("http", "shutdown")
  /\ UNCHANGED <<state, output, flags, sensing, ui, boot, after>>

-----------------------------------------------------------------------------
(* The button task: the power button *)

Idle == At("button", "idle")

\* Closing the menu forgets an open detail view and where the menu came from.
CloseMenu ==
  IF menu = "NONE" THEN UNCHANGED <<menu, history, detail>>
  ELSE /\ menu' = "NONE" /\ history' = << >>
       /\ detail' = NoDetail

\* Mutant: the hold does not ask whether the system is ready.
LongPress_Unlocked ==
  /\ Idle
  /\ IF state = "DIAGNOSTIC" THEN Goto("button", "exitDiag") /\ UNCHANGED ui
     ELSE /\ CloseMenu /\ UNCHANGED previousState
          /\ Goto("button",
               CASE state = "OFF" -> "powerOn"
                 [] state \in {"ON", "STARTING"} -> "shutdown"
                 [] state = "FAULT" -> "recover"
                 [] OTHER -> "idle")
  /\ UNCHANGED <<state, output, flags, sensing, boot, after>>

\* Hold: leave diagnostics, start, stop, or recover from a fault.
LongPress ==
  /\ Idle
  /\ IF state = "DIAGNOSTIC" THEN Goto("button", "exitDiag") /\ UNCHANGED ui
     ELSE /\ CloseMenu /\ UNCHANGED previousState
          /\ Goto("button",
               CASE state = "OFF" /\ systemReady -> "powerOn"
                 [] state \in {"ON", "STARTING"} -> "shutdown"
                 [] state = "FAULT" /\ systemReady -> "recover"
                 [] OTHER -> "idle")
  /\ UNCHANGED <<state, output, flags, sensing, boot, after>>

\* After a second of "Clearing fault".
ClearFault ==
  /\ At("button", "recover")
  /\ flags' = flags \cap Retained
  /\ state' = "OFF"
  /\ Goto("button", "recheck")
  /\ UNCHANGED <<output, sensing, ui, boot, after>>

RecoveryRefused ==
  /\ At("button", "recheck")
  /\ \E inRange \in BOOLEAN : ~Safe(inRange)
  /\ FailStart /\ CheckFlags
  /\ Goto("button", "idle")
  /\ UNCHANGED <<relay, limit, sensing, ui, boot, after>>

RecoveryStarts ==
  /\ At("button", "recheck")
  /\ \E inRange \in BOOLEAN : Safe(inRange)
  /\ Goto("button", "powerOn") /\ after' = "reclose"
  /\ UNCHANGED <<state, output, flags, sensing, ui, boot>>

\* A recovered inverter that reached ON gets its relay command once more.
RecloseDecision ==
  /\ At("button", "reclose")
  /\ Goto("button", IF state = "ON" THEN "closing" ELSE "idle")
  /\ UNCHANGED <<state, output, flags, sensing, ui, boot, after>>

Reclose ==
  /\ At("button", "closing")
  /\ \E closed \in {TRUE} \cup {~RelayCanFail} : relay' = (relay \/ closed)
  /\ Goto("button", "idle")
  /\ UNCHANGED <<state, active, outputEnabled, limit, flags, sensing, ui,
                 boot, after>>

\* Click: back to the main screen, out of a detail view and of diagnostics.
Click ==
  /\ Idle
  /\ LET shown == IF detail.open THEN detail.state ELSE state
     IN  /\ state' = shown
         /\ detail' = NoDetail
         /\ IF shown = "DIAGNOSTIC"
              THEN Goto("button", "exitDiag") /\ UNCHANGED <<menu, history>>
              ELSE menu' = "NONE" /\ history' = << >> /\ UNCHANGED pc
  /\ UNCHANGED <<output, flags, sensing, previousState, boot, after>>

\* Double click: diagnostics, refused while the inverter runs.
DoubleClick ==
  /\ Idle /\ state \notin {"ON", "STARTING"}
  /\ IF state = "DIAGNOSTIC"
       THEN Goto("button", "exitDiag") /\ UNCHANGED <<state, ui>>
       ELSE /\ previousState' = state /\ state' = "DIAGNOSTIC"
            /\ menu' = "DIAGNOSTIC" /\ history' = << >>
            /\ detail' = NoDetail
            /\ UNCHANGED pc
  /\ UNCHANGED <<output, flags, sensing, boot, after>>

\* exit_diagnostic_mode, a second and a half later.
ExitDiagnostic ==
  /\ At("button", "exitDiag")
  /\ state' = previousState /\ menu' = "NONE"
  /\ Goto("button", "idle")
  /\ UNCHANGED <<output, flags, sensing, history, detail, previousState, boot,
                 after>>

-----------------------------------------------------------------------------
(* The button task: ENTER, UP, DOWN and BACK in the menus *)

OpenMenu ==
  /\ Idle /\ menu = "NONE"
  /\ menu' = "MAIN"
  /\ UNCHANGED <<state, output, flags, sensing, history, detail, previousState,
                 boot, pc, after>>

OpenSubmenu ==
  /\ Idle /\ menu = "MAIN"
  /\ menu' \in Submenu
  /\ history' = IF Len(history) < MaxHistory THEN Append(history, menu) ELSE history
  /\ UNCHANGED <<state, output, flags, sensing, detail, previousState, boot, pc,
                 after>>

EnterDetail ==
  /\ Idle /\ menu \in {"MONITORING", "DIAGNOSTIC"}
  /\ detail' = [open |-> TRUE, state |-> state, menu |-> menu]
  /\ UNCHANGED <<state, output, flags, sensing, menu, history, previousState,
                 boot, pc, after>>

\* UP or DOWN; in the diagnostics list they only move on.
ExitDetail ==
  /\ Idle /\ detail.open /\ menu # "DIAGNOSTIC"
  /\ detail' = NoDetail
  /\ state' = detail.state /\ menu' = detail.menu
  /\ UNCHANGED <<output, flags, sensing, history, previousState, boot, pc, after>>

BackFromDetail ==
  /\ Idle /\ detail.open
  /\ detail' = NoDetail
  /\ state' = detail.state
  /\ UNCHANGED <<output, flags, sensing, menu, history, previousState, boot, pc,
                 after>>

BackToParent ==
  /\ Idle /\ ~detail.open /\ history # << >>
  /\ menu' = history[Len(history)]
  /\ history' = SubSeq(history, 1, Len(history) - 1)
  /\ UNCHANGED <<state, output, flags, sensing, detail, previousState, boot, pc,
                 after>>

\* No parent is known: the fallback also puts previous_inverter_state back.
BackFallback ==
  /\ Idle /\ ~detail.open /\ history = << >> /\ menu # "NONE"
  /\ menu' = "NONE"
  /\ state' = IF menu = "MAIN" THEN state ELSE previousState
  /\ UNCHANGED <<output, flags, sensing, history, detail, previousState, boot,
                 pc, after>>

\* The live-updated Current Limit editor, its ENTER and its cancellation.
ApplyCurrentLimit ==
  /\ Idle /\ menu = "MAIN"
  /\ limit' \in LimitChoice
  /\ UNCHANGED <<state, active, outputEnabled, relay, flags, sensing, ui, boot,
                 pc, after>>

\* ENTER on a staged firmware image: stop the inverter, then restart into it.
ApplyUpdate ==
  /\ Idle /\ menu = "MAIN"
  /\ IF state \in {"ON", "STARTING"}
       THEN Goto("button", "shutdown") /\ after' = "restart"
       ELSE Goto("button", "restart") /\ UNCHANGED after
  /\ UNCHANGED <<state, output, flags, sensing, ui, boot>>

StillRunning == outputEnabled \/ state \in {"ON", "STARTING"}

RestartIntoUpdate == At("button", "restart") /\ ~StillRunning /\ Reboot

UpdateRefused ==
  /\ At("button", "restart") /\ StillRunning
  /\ Goto("button", "idle")
  /\ UNCHANGED <<state, output, flags, sensing, ui, boot, after>>

\* handle_menu_timeout in the main loop, between two steps of the others.
MenuTimeout ==
  /\ menu # "NONE"
  /\ menu' = "NONE" /\ history' = << >>
  /\ detail' = NoDetail
  /\ UNCHANGED <<state, output, flags, sensing, previousState, boot, pc, after>>

-----------------------------------------------------------------------------
(* The system.  causes remembers the three ways in which the relay and the  *)
(* published state may part: two tasks on one operation, a relay that did   *)
(* not open, and a screen that put an older state back.                     *)

Energising(t) == pc[t] \in {"energise", "publishOn", "closing"}
Disabling == \E g \in Guardian : At(g, "publishFault")
Overlap ==
  \E t \in Driver : Energising(t) /\
    (Disabling \/ \E u \in Driver \ {t} : ~At(u, "idle"))

Note(c) ==
  causes' = causes \cup c \cup (IF Overlap' THEN {"OVERLAP"} ELSE {})

Screen ==
  \/ Click \/ ExitDetail \/ BackFromDetail \/ BackFallback \/ ExitDiagnostic

Step ==
  \/ \E t \in Driver : Drive(t)
  \/ \E g \in Guardian : PublishFault(g)
  \/ SampleReady \/ SampleLost \/ PublishSample
  \/ TakeShutdown \/ TakeRecovered
  \/ HttpOn \/ HttpOff
  \/ LongPress \/ ClearFault \/ RecoveryRefused \/ RecoveryStarts
  \/ RecloseDecision \/ Reclose \/ DoubleClick
  \/ OpenMenu \/ OpenSubmenu \/ EnterDetail \/ BackToParent
  \/ ApplyCurrentLimit \/ ApplyUpdate \/ UpdateRefused \/ MenuTimeout

Next ==
  \/ Step /\ Note({})
  \/ \E g \in Guardian : Disable(g) /\ Note(IF relay' THEN {"STUCK"} ELSE {})
  \/ /\ Screen
     /\ Note(IF state' = state \/ (At("button", "exitDiag") /\ state = "DIAGNOSTIC")
               THEN {} ELSE {"OVERWRITTEN"})
  \/ \E t \in Driver : OpenFails(t)
  \/ RestartIntoUpdate

Spec == Init /\ [][Next]_vars

\* The ADC task and the enforcer keep running; nobody has to press a button.
AdcStep ==
  \/ (SampleReady \/ SampleLost \/ PublishSample \/ PublishFault("adc")) /\ Note({})
  \/ Disable("adc") /\ Note(IF relay' THEN {"STUCK"} ELSE {})
EnforcerStep ==
  \/ (TakeShutdown \/ TakeRecovered \/ PublishFault("enforcer")) /\ Note({})
  \/ Disable("enforcer") /\ Note(IF relay' THEN {"STUCK"} ELSE {})

FairSpec == Spec /\ WF_vars(AdcStep) /\ WF_vars(EnforcerStep)

-----------------------------------------------------------------------------
(* Properties *)

Label ==
  {"idle", "powerOn", "energise", "publishOn", "shutdown", "open", "publishOff",
   "disable", "publishFault", "publishSample", "recover", "recheck", "reclose",
   "closing", "exitDiag", "restart"}

TypeOK ==
  /\ state \in State /\ previousState \in State
  /\ active \in BOOLEAN /\ outputEnabled \in BOOLEAN /\ relay \in BOOLEAN
  /\ limit \in 0..50
  /\ flags \subseteq Bit
  /\ ready \in BOOLEAN /\ adcValid \in BOOLEAN
  /\ latched \in BOOLEAN /\ channelFault \in BOOLEAN
  /\ mail \in Seq({"SHUTDOWN", "RECOVERED"}) /\ Len(mail) <= MaxMail
  /\ menu \in Menu /\ history \in Seq(Menu) /\ Len(history) <= MaxHistory
  /\ detail \in [open : BOOLEAN, state : State, menu : Menu]
  /\ postPassed \in BOOLEAN /\ systemReady \in BOOLEAN
  /\ pc \in [Task -> Label] /\ after \in {"idle", "reclose", "restart"}
  /\ causes \subseteq Cause

\* The relay is never closed while the self-test has failed or app_main left
\* the system locked, whichever task is asked, and however often.
EnergisedOnlyIfReady == relay => systemReady /\ postPassed

\* Why that holds: who is on the way to close the relay was let in by a guard.
Admitted ==
  /\ systemReady => postPassed
  /\ relay => systemReady
  /\ \A t \in Driver : pc[t] \in {"powerOn", "energise", "publishOn"} => systemReady
  /\ pc["button"] \in {"recover", "recheck", "reclose", "closing"} => systemReady
  /\ after = "reclose" => systemReady

\* No operation is under way.
Quiet ==
  /\ \A t \in Driver \cup {"enforcer"} : At(t, "idle")
  /\ pc["adc"] \in {"idle", "publishSample"}

\* Whenever no operation is under way, the relay is closed exactly in the
\* state ON, and active and output_enabled agree, unless one of the three
\* recorded causes has parted them: there is no fourth.
RelayFollowsState ==
  Quiet /\ causes = {} =>
    /\ relay <=> state = "ON"
    /\ active <=> relay
    /\ relay => outputEnabled

\* Why that holds: as long as no cause is recorded a task that is about to close
\* or has closed the relay is alone, one that has opened it finds it open when it
\* publishes so, and diagnostics were never entered from a running output.
InStep ==
  /\ ~Overlap
  /\ active => state = "ON"
  /\ state = "ON" => active /\ outputEnabled
  /\ relay => state = "ON" \/ \E t \in Driver : At(t, "publishOn")
  /\ state = "ON" => relay \/ Disabling \/ \E t \in Driver : At(t, "publishOff")
  /\ \A t \in Driver :
       /\ At(t, "powerOn") => state # "ON"
       /\ At(t, "energise") => state = "STARTING" /\ ~relay
       /\ At(t, "publishOn") => state = "STARTING" /\ relay
       /\ At(t, "publishOff") => ~relay
  /\ pc["button"] \in {"recover", "recheck"} => state # "ON"
  /\ At("button", "closing") => state = "ON"
  /\ Disabling => ~relay
RelayExplained ==
  /\ previousState \notin {"ON", "STARTING"}
  /\ causes = {} => InStep

\* A SHUTDOWN on its way to the enforcer opens the relay, unless the relay
\* itself fails.
ShutdownHonoured ==
  (\E i \in 1..Len(mail) : mail[i] = "SHUTDOWN")
    ~> (~relay \/ "STUCK" \in causes)

\* README: lost battery telemetry stops a running output, this time and the
\* next, unless the data comes back first or a recorded cause interferes.
LostTelemetryStopsOutput ==
  (relay /\ active /\ ~ready) ~> (~relay \/ ready \/ causes # {})

=============================================================================
