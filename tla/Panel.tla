-------------------------------- MODULE Panel --------------------------------
(***************************************************************************)
(* The front panel: button_controller.c turns edges into events, the       *)
(* handlers of app_input.c act on them in one task, and the display task,  *)
(* the menu timeout, a protective shutdown and the workers of              *)
(* app_services.c change the same state meanwhile.                         *)
(*                                                                         *)
(* A handler tries one claim after another; the first that holds decides.  *)
(* PowerClaim, EnterClaim, MoveClaim and BackClaim give that order.  The   *)
(* whole of a handler is one step: the pauses inside some are left out.    *)
(***************************************************************************)
EXTENDS PanelOta

-----------------------------------------------------------------------------
(* What the claims look at *)

AtPin == ui.menu = "FACTORY_RESET" /\ ui.phase = "PIN_ENTRY"
InFlow == ui.menu = "SECURITY" /\ ui.flow = "PIN"
InStatus == ui.menu = "SECURITY" /\ ui.flow = "VIEW"
InLog == ui.detail \in {"LOG", "ENTRY"} /\ ui.menu = "DIAGNOSTIC"
InDialogue == ui.menu = "OTA" \/ ui.screen = "OTA"

Only(u) == ui' = u /\ Quietly /\ ScreenOnly
Nothing == UNCHANGED <<ui, pin, wifi, ota, events>>

-----------------------------------------------------------------------------
(* The power button *)

PowerClaim(e) ==
  IF e = "CLICK" /\ Asking THEN "CANCEL_NEED"
  ELSE IF e = "CLICK" /\ ota.confirm THEN "CANCEL_UPDATE"
  ELSE IF e = "CLICK" /\ ota.ask THEN "KEEP_UPDATE"
  ELSE IF e = "CLICK" /\ InDialogue /\ OperationActive THEN "ASK_CANCEL"
  ELSE IF e = "CLICK" /\ InDialogue /\ ui.job # "OTA_AUTH" THEN "EXIT_OTA"
  ELSE IF AtPin THEN IF e = "CLICK" THEN "LEAVE_FACTORY" ELSE "IGNORED"
  ELSE e

\* the end of the handler: the 3 seconds of the reset sequence are over
PowerEnd(u) ==
  IF u.seq # "LATE" THEN u
  ELSE GoMain(CancelFactory([u EXCEPT !.seq = "NONE",
                                      !.menu = IF u.history = <<>> THEN "NONE" ELSE Parent(u),
                                      !.history = IF @ = <<>> THEN @ ELSE Popped(u)]))

PowerClick ==
  LET u == LeaveDetail(ExitEdit(ui))
  IN /\ ui' = PowerEnd(IF u.inverter = "DIAGNOSTIC" THEN [ExitDiagnostic(u) EXCEPT !.seq = "NONE"]
                   ELSE IF u.menu # "NONE" THEN Home(DetailOff(CancelFactory(u)))
                   ELSE [Home(u) EXCEPT !.seq = "NONE"])
     /\ wifi' = Cancelled(wifi)
     /\ Quietly /\ WifiOnly

\* inverter_power_on: it starts, or the fault that prevents it is shown
PowerOn(u) ==
  {GoMain([u EXCEPT !.inverter = "ON", !.menu = "NONE"]), Show([u EXCEPT !.inverter = "FAULT"], "FAULT")}
PowerLong ==
  LET u == ExitEdit(ui)
      v == IF u.menu = "NONE" THEN u ELSE Forget(DetailOff([u EXCEPT !.menu = "NONE"]))
  IN IF u.inverter = "DIAGNOSTIC" THEN Only(PowerEnd(ExitDiagnostic(u)))
     ELSE IF u.menu = "FACTORY_RESET" /\ u.seq # "NONE" THEN EraseByPower
     ELSE IF u.inverter = "ON" THEN Only(PowerEnd(Shutdown(v)))
     ELSE IF u.inverter \in {"OFF", "FAULT"}
     THEN \E w \in PowerOn(v) \cup {Notice(v, "AUTO")} : Only(PowerEnd(w))
     ELSE Only(PowerEnd(v))

PowerDouble ==
  LET u == ExitEdit(ui)
  IN Only(IF u.inverter = "ON" THEN PowerEnd(Notice(u, "AUTO"))
          ELSE IF u.inverter = "DIAGNOSTIC" THEN [ExitDiagnostic(u) EXCEPT !.seq = "NONE"]
          ELSE [EnterDiagnostic(Forget(DetailOff(u))) EXCEPT !.seq = "NONE"])

PowerTriple ==
  LET u == DetailOff(ExitEdit(IF ui.inverter = "DIAGNOSTIC" THEN ExitDiagnostic(ui) ELSE ui))
  IN IF ui.inverter = "ON" THEN Only(PowerEnd(Notice(ui, "AUTO")))
     ELSE Only(Show([Push(u, u.menu) EXCEPT !.menu = "FACTORY_RESET", !.seq = "ARMED"], "CONFIRM"))

PowerPrompt(c) ==
  \/ c = "CANCEL_NEED" /\ LET r == CancelNeed(ui, ota) IN Simply(ExitOta(r.ui, r.ota))
  \/ c = "CANCEL_UPDATE" /\ LET r == Cancel(ui, ota) IN Simply(ExitOta(r.ui, r.ota))
  \/ c = "KEEP_UPDATE" /\ Simply(Both(ShowMenu(ui, "OTA"), DismissCancel(ota)))
  \/ c = "ASK_CANCEL" /\ Simply(AskCancel(ui, ota))
  \/ c = "EXIT_OTA" /\ Simply(ExitOta(ui, ota))

Power(e) ==
  LET c == PowerClaim(e)
  IN \/ PowerPrompt(c)
     \/ c = "LEAVE_FACTORY" /\ Only(LeaveFactoryHome(ui))
     \/ c = "CLICK" /\ PowerClick
     \/ c = "LONG" /\ PowerLong
     \/ c = "DOUBLE" /\ PowerDouble
     \/ c = "TRIPLE" /\ PowerTriple
     \/ c \in {"PRESS", "RELEASE"} /\ Only(PowerEnd(ui))
     \/ c = "IGNORED" /\ Nothing

-----------------------------------------------------------------------------
(* The enter button *)

EnterClaim(e) ==
  IF InLog /\ e \notin {"PRESS", "RELEASE"} THEN "LOG"
  ELSE IF e = "CLICK" /\ Asking THEN "CONFIRM_NEED"
  ELSE IF e = "CLICK" /\ ota.confirm THEN "CONFIRM_UPDATE"
  ELSE IF e = "CLICK" /\ ota.ask THEN "CONFIRM_CANCEL"
  ELSE IF e = "CLICK" /\ wifi.forget THEN "CONFIRM_FORGET"
  ELSE IF e = "CLICK" /\ wifi.leave THEN "CONFIRM_DISCONNECT"
  ELSE IF AtPin THEN IF e = "CLICK" THEN "FACTORY_PIN" ELSE "IGNORED"
  ELSE IF InStatus THEN "CLOSE_STATUS"
  ELSE IF InFlow THEN IF e = "CLICK" THEN "PIN" ELSE "IGNORED"
  ELSE IF ui.screen \in {"WIFI_CONNECTING", "WIFI_STATUS"} THEN "IGNORED"
  ELSE IF ui.screen = "WIFI_PASSWORD" THEN IF e = "LONG" THEN "SUBMIT" ELSE "IGNORED"
  ELSE IF ui.screen = "WIFI_SCAN" THEN IF e = "CLICK" THEN "SCAN_LIST" ELSE "IGNORED"
  ELSE IF ui.delete THEN IF e = "CLICK" THEN "ANSWER_DELETE" ELSE "IGNORED"
  ELSE IF ui.screen = "WIFI_CLIENTS" THEN IF e = "CLICK" THEN "ASK_DELETE" ELSE "IGNORED"
  ELSE IF ui.screen = "OTA" THEN IF e = "CLICK" THEN "OTA_SCREEN" ELSE "IGNORED"
  ELSE IF e = "CLICK" /\ ui.edit # "NONE" THEN "SAVE"
  ELSE IF e = "CLICK" /\ ui.menu = "FACTORY_RESET" /\ ui.phase = "CONFIRM" THEN "ERASE"
  ELSE IF e \in {"CLICK", "LONG", "DOUBLE"} THEN e
  ELSE "IGNORED"

\* the enter button in the error log: the list, and one entry of it
EnterLog(e) ==
  Only(IF e = "CLICK" THEN [ui EXCEPT !.detail = "ENTRY"]
       ELSE IF e = "LONG" THEN [ui EXCEPT !.detail = "LOG"] ELSE ui)

EnterPrompt(c) ==
  \/ c = "CONFIRM_NEED" /\ ConfirmNeed
  \/ c = "CONFIRM_UPDATE" /\ ConfirmUpdate
  \/ c = "CONFIRM_CANCEL" /\ Simply(Cancel(ui, DismissCancel(ota)))
  \/ c = "CONFIRM_FORGET" /\ ConfirmForget
  \/ c = "CONFIRM_DISCONNECT" /\ ConfirmDisconnect

\* the Wi-Fi screens, which are not menus
EnterScan ==
  \/ ui.view = "SCANNING" /\ wifi' = Cancelled(wifi) /\ Stays /\ Quietly /\ WifiOnly
  \/ ui.view \in {"FAILED", "EMPTY"} /\ Scan
  \/ ui.view \notin {"SCANNING", "FAILED", "EMPTY"} /\ ConnectSelected
EnterWifi(c) ==
  \/ c = "SUBMIT" /\ SubmitPassword
  \/ c = "SCAN_LIST" /\ EnterScan
  \/ c = "ANSWER_DELETE" /\ AnswerDelete
  \/ c = "ASK_DELETE" /\ IF ui.view = "SOME" THEN AskDelete ELSE Nothing

\* an edit is saved, or refused; the entry "WiFi" hands its value to the worker
SaveEdit ==
  LET u == Rows(ExitEdit(ui))
  IN \/ \E to \in {"AUTO", "MENU"} : Only(Notice(u, to))
     \/ Toggle(u) /\ Quietly /\ WifiOnly

\* a row of the main menu
Opened(m) == Push([ui EXCEPT !.menu = m], ui.menu)
OpenRow(items) ==
  \E m \in tour.menus \cap items :
    IF m = "OTA" THEN EnterOta(Opened(m))
    ELSE Only(IF m = "SYSTEM_INFO" THEN Show(Opened(m), "INFO") ELSE Rows(Opened(m)))

MonitorRow == Only(Show(EnterDetail(ui, "MONITOR"), "DETAIL"))
DiagnosticRow == \E d \in {"LOG", "DIAG"} : Only(Show(EnterDetail(ui, d), "DETAIL"))
EditRow == Only(Show([ui EXCEPT !.edit = "OPEN"], "VALUE_EDIT"))

EnterClick ==
  \/ ui.menu = "NONE" /\ Nothing
  \/ ui.menu = "MAIN_MENU" /\ OpenRow(Menus \ {"WIFI_SETTINGS"})
  \/ ui.menu = "SETTINGS" /\ EditRow
  \/ ui.menu = "MONITORING" /\ MonitorRow
  \/ ui.menu = "DIAGNOSTIC" /\ DiagnosticRow
  \/ ui.menu = "WIFI_CONFIG" /\ WifiMenuRow
  \/ ui.menu = "WIFI_SETTINGS" /\ WifiSettingsRow
  \/ ui.menu = "OTA" /\ OtaRow
  \/ ui.menu = "FACTORY_RESET" /\ FactoryRow
  \/ ui.menu = "SECURITY" /\ SecurityRow
  \/ ui.menu = "SYSTEM_INFO" /\ Nothing

\* the hold in the factory menu waits on a queue that no code creates: the panel
\* restarts
EnterLong ==
  \/ ui.menu = "NONE" /\ Only(Open(ui, "MAIN_MENU"))
  \/ ui.menu = "MAIN_MENU" /\ OpenRow(Menus \ {"WIFI_SETTINGS", "SECURITY", "SYSTEM_INFO"})
  \/ ui.menu = "MONITORING" /\ MonitorRow
  \/ ui.menu = "DIAGNOSTIC" /\ DiagnosticRow
  \/ ui.menu = "WIFI_CONFIG" /\ WifiMenuRow
  \/ ui.menu = "WIFI_SETTINGS" /\ WifiSettingsRow
  \/ ui.menu = "OTA" /\ OtaRow
  \/ ui.menu = "FACTORY_RESET" /\ Only(Restart(ui))
  \/ ui.menu \in {"SETTINGS", "SECURITY", "SYSTEM_INFO"} /\ Nothing

\* a double click saves what waits for its confirmation, or is a shortcut
EnterDouble ==
  IF ui.edit = "CONFIRM" THEN Only(Rows(ExitEdit(ui)))
  ELSE IF ui.menu = "MAIN_MENU" /\ "MONITORING" \in tour.menus THEN Only(Rows(Opened("MONITORING")))
  ELSE Nothing

Enter(e) ==
  LET c == EnterClaim(e)
  IN \/ c = "LOG" /\ EnterLog(e)
     \/ EnterPrompt(c)
     \/ EnterWifi(c)
     \/ c = "FACTORY_PIN" /\ EnterFactoryPin("ENTER")
     \/ c = "CLOSE_STATUS" /\ CloseStatus
     \/ c = "PIN" /\ PinFlow("ENTER")
     \/ c = "OTA_SCREEN" /\ EnterOnOta
     \/ c = "SAVE" /\ SaveEdit
     \/ c = "ERASE" /\ ConfirmErasure
     \/ c = "CLICK" /\ EnterClick
     \/ c = "LONG" /\ EnterLong
     \/ c = "DOUBLE" /\ EnterDouble
     \/ c = "IGNORED" /\ Nothing

-----------------------------------------------------------------------------
(* The up and down buttons.  A digit, a character or a row that moves is not *)
(* told apart: those claims have no effect                                   *)

MoveClaim(e) ==
  IF e = "CLICK" /\ ui.screen = "OTA" /\ ui.view = "PENDING_APPLY" THEN "DISCARD"
  ELSE IF e = "CLICK" /\ ui.screen = "OTA" /\ ui.view = "DELETE_CONFIRM" THEN "IGNORED"
  ELSE IF AtPin \/ InFlow \/ InLog THEN "IGNORED"
  ELSE IF ui.screen \in {"WIFI_PASSWORD", "WIFI_SCAN"} THEN "IGNORED"
  ELSE IF ui.delete THEN IF e = "CLICK" THEN "DELETE_PROMPT" ELSE "IGNORED"
  ELSE IF ui.screen \in {"WIFI_CLIENTS", "WIFI_STATUS"} \/ ui.menu = "SYSTEM_INFO" THEN "IGNORED"
  ELSE IF ui.edit # "NONE" THEN IF e \in {"CLICK", "LONG"} THEN "CHANGE" ELSE "IGNORED"
  ELSE IF e = "CLICK" /\ ui.detail = "NONE" /\ ui.menu # "NONE" THEN "MOVE"
  ELSE IF e = "LONG" /\ ui.detail # "NONE" THEN "LEAVE"
  ELSE "IGNORED"

\* a change that needs a confirmation asks for it with the next ENTER
ChangeValue ==
  \E edit \in {"OPEN", "CONFIRM"} :
    /\ ui.edit = "CONFIRM" => edit = "CONFIRM"
    /\ Only(Show([ui EXCEPT !.edit = edit], "VALUE_EDIT"))

\* exit_detail_view returns to the menu the view was entered from
DetailParent == IF ui.detail = "MONITOR" THEN "MONITORING" ELSE "DIAGNOSTIC"
LeaveByHold ==
  Only(IF ui.menu = "DIAGNOSTIC" THEN Show(ui, "DETAIL")
       ELSE Rows([LeaveDetail(ui) EXCEPT !.menu = DetailParent]))

Move(e) ==
  LET c == MoveClaim(e)
  IN \/ c = "DISCARD" /\ IF ota.marker THEN AskDiscard ELSE Nothing
     \/ c = "DELETE_PROMPT" /\ Only(Show(ui, "MENU"))
     \/ c = "CHANGE" /\ ChangeValue
     \/ c = "MOVE" /\ Only(Rows(ui))
     \/ c = "LEAVE" /\ LeaveByHold
     \/ c = "IGNORED" /\ Nothing

-----------------------------------------------------------------------------
(* The back button *)

BackClaim(e) ==
  IF e = "CLICK" /\ ui.menu = "WIFI_SETTINGS" /\ wifi.editing THEN "KEEP_MODE"
  ELSE IF e = "CLICK" /\ ota.confirm THEN "CANCEL_UPDATE"
  ELSE IF e = "CLICK" /\ ota.ask THEN "KEEP_UPDATE"
  ELSE IF AtPin THEN IF e = "CLICK" THEN "FACTORY_MENU" ELSE "IGNORED"
  ELSE IF InFlow THEN IF e = "CLICK" THEN "PIN" ELSE "IGNORED"
  ELSE IF InStatus THEN "CLOSE_STATUS"
  ELSE IF e # "CLICK" THEN "IGNORED"
  ELSE IF ui.screen = "OTA" THEN "OTA_SCREEN"
  ELSE IF ui.menu = "OTA" /\ ui.screen = "MENU" THEN "EXIT_OTA"
  ELSE IF ui.delete THEN "KEEP_CLIENT"
  ELSE IF ui.screen = "WIFI_CLIENTS" THEN "LEAVE_CLIENTS"
  ELSE IF wifi.forget \/ wifi.leave THEN "KEEP_NETWORK"
  ELSE IF ui.screen = "WIFI_PASSWORD" THEN "SCAN_LIST"
  ELSE IF ui.screen = "WIFI_SCAN" THEN "LEAVE_SCAN"
  ELSE IF ui.screen \in {"WIFI_STATUS", "WIFI_CONNECTING"} THEN "WIFI_ROWS"
  ELSE IF ui.menu = "SYSTEM_INFO" THEN "INFO"
  ELSE "CLICK"

BackPrompt(c) ==
  \/ /\ c = "KEEP_MODE"
     /\ wifi' = [wifi EXCEPT !.editing = FALSE] /\ ui' = Rows(ui) /\ Quietly /\ WifiOnly
  \/ c = "CANCEL_UPDATE" /\ LET r == Cancel(ui, ota) IN Simply(Both(ShowMenu(r.ui, "OTA"), r.ota))
  \/ c = "KEEP_UPDATE" /\ Simply(Both(ShowMenu(ui, "OTA"), DismissCancel(ota)))
  \/ c = "FACTORY_MENU" /\ Only(Rows(DetailOff(CancelFactory(ui))))

BackWifi(c) ==
  \/ c = "KEEP_CLIENT" /\ AnswerDelete
  \/ /\ c = "LEAVE_CLIENTS"
     /\ Only(ShowMenu([ui EXCEPT !.delete = FALSE],
                      IF ui.menu = "WIFI_SETTINGS" THEN "WIFI_SETTINGS" ELSE "WIFI_CONFIG"))
  \/ /\ c = "KEEP_NETWORK"
     /\ wifi' = [wifi EXCEPT !.forget = FALSE, !.leave = FALSE]
     /\ ui' = ShowMenu(ui, "WIFI_SETTINGS") /\ Quietly /\ WifiOnly
  \/ c = "SCAN_LIST" /\ Only(ShowView(ui, "WIFI_SCAN", "FOUND"))
  \/ /\ c = "LEAVE_SCAN"
     /\ wifi' = Cancelled(wifi) /\ ui' = ShowMenu(ui, "WIFI_CONFIG") /\ Quietly /\ WifiOnly
  \/ c = "WIFI_ROWS" /\ Only(ShowMenu(ui, "WIFI_CONFIG"))

\* where the history is empty
BackHome ==
  IF ui.menu = "NONE" THEN ui
  ELSE IF ui.menu = "MAIN_MENU" THEN Home(ui)
  ELSE IF ui.menu = "SECURITY" THEN Forget(Open(ui, "MAIN_MENU"))
  ELSE GoMain(ExitEdit([ui EXCEPT !.inverter = ui.previous, !.menu = "NONE"]))

BackClick ==
  IF ui.menu = "FACTORY_RESET" /\ ui.phase \in {"CONFIRM", "IDLE"} THEN Only(LeaveFactory(ui))
  ELSE IF ui.edit # "NONE" THEN Only(Notice(Rows(ExitEdit(ui)), "MENU"))
  ELSE IF ui.detail # "NONE" THEN Only(Rows(LeaveDetail(ui)))
  ELSE IF ui.menu = "OTA"
  THEN IF Asking THEN LET r == CancelNeed(ui, ota) IN Simply(Both(ShowMenu(r.ui, "OTA"), r.ota))
       ELSE ExitByBack
  ELSE IF ui.history # <<>> THEN Only(Back(ui))
  ELSE Only(BackHome)

BackButton(e) ==
  LET c == BackClaim(e)
  IN \/ BackPrompt(c)
     \/ BackWifi(c)
     \/ c = "PIN" /\ PinFlow("BACK")
     \/ c = "CLOSE_STATUS" /\ CloseStatus
     \/ c = "OTA_SCREEN" /\ BackOnOta
     \/ c = "EXIT_OTA" /\ ExitByBack
     \/ c = "INFO" /\ Only(Open(ui, "MAIN_MENU"))
     \/ c = "CLICK" /\ BackClick
     \/ c = "IGNORED" /\ Nothing
-----------------------------------------------------------------------------
(* The gestures of button_controller.c.  One that no other task can come     *)
(* between is a single step, Tap; the others are taken event by event        *)

Handle(b, e) ==
  \/ b = "POWER" /\ Power(e)
  \/ b = "ENTER" /\ Enter(e)
  \/ b = "UP_DOWN" /\ Move(e)
  \/ b = "BACK" /\ BackButton(e)

MultiClick(b) == b \in {"POWER", "ENTER"}
Gestures ==
  (Buttons \X {"CLICK", "LONG"}) \cup {<<"POWER", "DOUBLE">>, <<"POWER", "TRIPLE">>, <<"ENTER", "DOUBLE">>}
ByCount(n) == IF n = 1 THEN "CLICK" ELSE IF n = 2 THEN "DOUBLE" ELSE "TRIPLE"
Longest(b) == IF b = "POWER" THEN 3 ELSE 2   \* bound: clicks in a chain

InTour(b, e) == b = "POWER" => e = "CLICK" \/ e \in tour.power

\* button: whose gesture is under way.  count: its clicks so far.  latched:
\* s_wake_gesture_swallow.  woke: the gesture has woken the display
InitHand == hand = [button |-> "POWER", stage |-> "IDLE", count |-> 0, latched |-> {}, woke |-> FALSE]

\* consume_display_wakeup_event looks for these; a fault screen is one of a start
Asleep == ui.screen \in {"STANDBY", "FAULT"}

\* mutant: a hold is not part of the gesture that woke the display
SwallowsNoHold(b, e, n) == b \in hand.latched /\ e \notin {"PRESS", "LONG"}

\* the latch of a button ends with a PRESS that starts a chain
Swallows(b, e, n) == b \in hand.latched /\ (e # "PRESS" \/ n > 0)

\* an event with n clicks before it, and the gates it meets first
Deliver(b, e, n, stage, count) ==
  LET moved == [hand EXCEPT !.button = b, !.stage = stage, !.count = count,
                            !.woke = @ /\ stage # "IDLE",
                            !.latched = IF stage = "IDLE" THEN @ \cap {tour.slow} ELSE @]
  IN IF FlashBlocks \/ Swallows(b, e, n) THEN hand' = moved /\ Nothing
     ELSE IF Asleep
     THEN /\ hand' = [moved EXCEPT !.latched = @ \cup {b}, !.woke = stage # "IDLE"]
          /\ Only(GoMain(ui))
     ELSE /\ hand' = [moved EXCEPT !.latched = IF e = "PRESS" THEN @ \ {b} ELSE @]
          /\ Handle(b, e)

\* the first PRESS of a gesture does something by itself
PressMatters(b) ==
  \/ b \in {"ENTER", "BACK"} /\ InStatus
  \/ b = "POWER" /\ ui.seq = "LATE"

Tap(b, e) ==
  /\ InTour(b, e) /\ ~PressMatters(b)
  /\ IF Asleep
     THEN e = "CLICK" /\ Only(GoMain(ui)) /\ UNCHANGED hand
     ELSE /\ Handle(b, e)
          /\ hand' = [hand EXCEPT !.latched = @ \ {b}]

\* the gestures that are spread out are those of one button, and those that begin
\* with an effect
Press(b) ==
  \/ PressMatters(b) /\ Deliver(b, "PRESS", 0, "DOWN", 0)
  \/ /\ b = tour.slow /\ ~PressMatters(b)
     /\ hand' = [hand EXCEPT !.button = b, !.stage = "DOWN", !.count = 0,
                             !.woke = ~FlashBlocks /\ Asleep,
                             !.latched = IF FlashBlocks THEN @
                                         ELSE IF Asleep THEN @ \cup {b} ELSE @ \ {b}]
     /\ ui' = IF ~FlashBlocks /\ Asleep THEN GoMain(ui) ELSE ui
     /\ Event /\ ScreenOnly
PressAgain ==
  /\ hand.stage = "WAIT" /\ hand.count < Longest(hand.button)
  /\ InTour(hand.button, ByCount(hand.count + 1))
  /\ Deliver(hand.button, "PRESS", hand.count, "DOWN", hand.count)
Hold ==
  /\ hand.stage = "DOWN" /\ InTour(hand.button, "LONG")
  /\ Deliver(hand.button, "LONG", 0, "HELD", 0)
Release ==
  \/ hand.stage = "HELD" /\ Deliver(hand.button, "RELEASE", 0, "IDLE", 0)
  \/ /\ hand.stage = "DOWN"
     /\ IF MultiClick(hand.button)
        THEN Deliver(hand.button, "RELEASE", hand.count + 1, "WAIT", hand.count + 1)
        ELSE Deliver(hand.button, "CLICK", 1, "IDLE", 0)
Settle ==
  /\ hand.stage = "WAIT"
  /\ Deliver(hand.button, ByCount(hand.count), hand.count, "IDLE", 0)

User ==
  \/ hand.stage = "IDLE" /\ ~FlashBlocks /\ \E g \in Gestures : Tap(g[1], g[2])
  \/ hand.stage = "IDLE" /\ \E b \in Buttons : Press(b)
  \/ PressAgain \/ Hold \/ Release \/ Settle

\* the specification's own: from here on nobody touches the panel
WalksAway ==
  /\ hand.stage = "IDLE"
  /\ hand' = [hand EXCEPT !.stage = "GONE", !.button = "POWER", !.latched = {}]
  /\ Nothing

-----------------------------------------------------------------------------
(* The other tasks *)

\* the display task: a notice is over, and so is the fault of a start
FlashEnds ==
  /\ ui.flash # "NONE"
  /\ Only([ui EXCEPT !.screen = ui.flash, !.flash = "NONE"])
FaultLapses ==
  /\ ui.screen = "FAULT" /\ ui.flash = "NONE"
  /\ Only([ui EXCEPT !.screen = "MAIN"])

\* display_timeout_tick
Standby ==
  /\ tour.slow # "NONE"   \* bound
  /\ ui.menu = "NONE" /\ ui.edit = "NONE" /\ ui.detail = "NONE" /\ ui.screen = "MAIN"
  /\ Only(Show(ui, "STANDBY"))

\* mutant: an open editor holds the timer
MenuTimeoutUnlessEdit ==
  /\ ui.menu # "NONE" /\ ui.edit = "NONE" /\ ~WifiBusy /\ ui.screen # "WIFI_CONNECTING"
  /\ Only(Home(DetailOff(CancelFactory(ui))))

\* handle_menu_timeout
MenuTimeout ==
  /\ ui.menu # "NONE" /\ ~WifiBusy /\ ui.screen # "WIFI_CONNECTING"
  /\ LET u == DetailOff(ExitEdit(ui))
     IN Only(Home(IF u.menu = "FACTORY_RESET" THEN CancelFactory(u) ELSE u))

\* a protective shutdown, and inverter_emergency_disable
Trip ==
  /\ ui.inverter # "OFF"
  /\ ui' \in {Shutdown(ui), [ui EXCEPT !.inverter = "FAULT"]}
  /\ Event /\ ScreenOnly

\* APP_SEQUENCE_TIMEOUT_MS since the triple click
SequenceLapses == ui.seq = "ARMED" /\ Only([ui EXCEPT !.seq = "LATE"])

\* what is under way comes to its end
Ends ==
  \/ FlashEnds \/ FaultLapses \/ MenuTimeout
  \/ ToggleEnds \/ ModeEnds \/ ScanEnds \/ OperationTimesOut \/ ViewLapses
  \/ CheckEnds \/ ServiceEnds \/ NeedTimesOut \/ PreflightEnds \/ PromptLapses

Background ==
  \/ Ends \/ Standby \/ Trip \/ SequenceLapses
  \/ \E scope \in Scopes : LockoutEnds(scope)
  \/ LinkUp \/ LinkDown \/ OperationEnds \/ ConnectFails
  \/ AutoCheck \/ NeedMet \/ ServiceReports \/ Reminds \/ GrantExpires

-----------------------------------------------------------------------------
(* The specification *)

Init ==
  /\ tour \in Tours /\ events = 0
  /\ InitUi /\ InitPin /\ InitWifi /\ InitOta /\ InitHand

Running == ui.screen # "RESTART"
Gesture == Running /\ (User \/ WalksAway) /\ UNCHANGED tour
Elsewhere == Running /\ Background /\ UNCHANGED <<hand, tour>>
Next == Gesture \/ Elsewhere

Spec == Init /\ [][Next]_vars
Ending == hand.stage = "GONE" /\ Running /\ Ends /\ UNCHANGED <<hand, tour>>
FairSpec == Spec /\ WF_vars(Ending)
-----------------------------------------------------------------------------
(* The properties *)

\* A gesture that has woken the display does nothing more: whatever its later
\* events are, and whatever other tasks do to the screen between them, no handler
\* acts on one (app_input.c, s_wake_gesture_swallow)
WakeSwallowed ==
  [][hand.woke /\ hand.stage # "IDLE" /\ hand' # hand => UNCHANGED <<ui, pin, wifi, ota>>]_vars

\* Nothing is erased that the user has not asked for: either the PIN was accepted for
\* this erasure since it was chosen, or the power button's own sequence is complete
\* (factory_reset.c, app_input.c)
ResetDeliberate ==
  [][pin'.erased # pin.erased /\ pin'.erased # "NONE" =>
       \/ pin'.erased \in pin.proven
       \/ pin'.erased = "BY_POWER" /\ ui.seq # "NONE" /\ ui.menu = "FACTORY_RESET"]_vars

\* With security enabled, no download starts and no staged image is selected for boot
\* on a PIN that was not entered for it: every proof is used once, whichever of the
\* prompts, timeouts and reports of the dialogue come in between (app_input.c,
\* begin_ota_auth and return_from_ota_auth)
InstallAuthenticated ==
  [][(ota.service = "NONE" /\ ota'.service # "NONE") \/ (~ota.applied /\ ota'.applied)
       => ~tour.secured \/ "OTA" \in pin.proven]_vars

\* A panel that is left alone comes home: no operation, notice, prompt or edit keeps a
\* menu open for ever (handle_menu_timeout, and the timeouts it waits for)
IdleGoesHome == hand.stage = "GONE" ~> ui.menu = "NONE"
=============================================================================
