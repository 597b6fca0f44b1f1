------------------------------ MODULE PanelWifi ------------------------------
(***************************************************************************)
(* The Wi-Fi menus of the panel and the operations of app_services.c       *)
(* behind them: the toggle worker, the scan task, the operation watch task *)
(* and the prompts.  What the station does with a request is WifiStation's *)
(* subject: here a request succeeds or fails.                              *)
(***************************************************************************)
EXTENDS PanelPin

\* op: s_wifi_operation.  worker: what s_wifi_toggle_admitted was taken for.
\* scan: the scan task
InitWifi ==
  wifi = [on |-> "WIFI_ON" \in tour.boot, linked |-> {"WIFI_ON", "LINKED"} \subseteq tour.boot,
          mode |-> "APSTA", op |-> "NONE", worker |-> "NONE", scan |-> "NONE",
          forget |-> FALSE, leave |-> FALSE, editing |-> FALSE]

Scanning == wifi.scan # "NONE"
WifiBusy == wifi.op # "NONE" \/ Scanning \/ wifi.worker # "NONE"

\* app_wifi_sync_menu_if_visible
Sync(u) ==
  IF (u.screen = "MENU" \/ (u.screen = "FLASH_MSG" /\ u.flash # "NONE")) /\ u.menu = "WIFI_CONFIG"
  THEN Rows(u) ELSE u

Done(w) == [w EXCEPT !.op = "NONE"]   \* app_wifi_end_operation, whatever is under way

Stays == UNCHANGED ui
Warn == ui' = Notice(ui, "AUTO")
WarnOnly == Warn /\ UNCHANGED wifi /\ Quietly /\ WifiOnly

-----------------------------------------------------------------------------
(* Switching the radio and its mode: one request at a time *)

\* app_wifi_request_enabled, not silent, over the screen u shows
Admit(u, work) ==
  /\ ui' = Notice(u, "AUTO")
  /\ wifi' = IF wifi.worker # "NONE" THEN wifi
             ELSE [wifi EXCEPT !.worker = work, !.op = IF work = "ON" THEN "ENABLE" ELSE "DISABLE"]
Toggle(u) == Admit(u, IF wifi.on THEN "OFF" ELSE "ON")

\* app_services_execute_wifi_toggle and the worker around it; a preference that
\* cannot be saved is a notice of its own
ToggleEnds ==
  /\ wifi.worker \in {"ON", "OFF"}
  /\ \/ /\ wifi' = [Done(wifi) EXCEPT !.worker = "NONE", !.on = (wifi.worker = "ON"),
                                      !.linked = @ /\ wifi.worker = "ON"]
        /\ ui' \in {Sync(ui), Notice(Sync(ui), "MENU")}
     \/ /\ wifi' = [Done(wifi) EXCEPT !.worker = "NONE"]
        /\ ui' = Notice(Sync(ui), "AUTO")
  /\ Quietly /\ WifiOnly

\* the mode worker draws the settings rows wherever the user is by now
ModeEnds ==
  /\ wifi.worker = "MODE"
  /\ \/ /\ \E mode \in Modes :
             wifi' = [wifi EXCEPT !.worker = "NONE", !.mode = mode, !.linked = FALSE]
        /\ ui' = ShowMenu(ui, "WIFI_SETTINGS")
     \/ /\ wifi' = [wifi EXCEPT !.worker = "NONE"]
        /\ Warn
  /\ Quietly /\ WifiOnly

\* the mode row: begin the edit, or confirm it.  The edit is over before the
\* worker is found busy
ModeRow ==
  /\ \/ ~wifi.editing /\ wifi' = [wifi EXCEPT !.editing = TRUE] /\ ui' = Rows(ui)
     \/ /\ wifi.editing
        /\ wifi' = [wifi EXCEPT !.editing = FALSE,
                                !.worker = IF @ = "NONE" THEN "MODE" ELSE @]
        /\ Warn
  /\ Quietly /\ WifiOnly

-----------------------------------------------------------------------------
(* Scanning *)

Scan ==
  IF ~wifi.on \/ wifi.mode = "AP" THEN WarnOnly
  ELSE IF Scanning THEN Stays /\ UNCHANGED wifi /\ Quietly /\ WifiOnly
  ELSE /\ wifi' = [wifi EXCEPT !.scan = "RUNNING"]
       /\ ui' = ShowView(ui, "WIFI_SCAN", "SCANNING")
       /\ Quietly /\ WifiOnly

Cancelled(w) == [w EXCEPT !.scan = IF @ = "RUNNING" THEN "CANCELLED" ELSE @]

\* the task reports on its screen if it is still there, and only then is over
ScanEnds ==
  /\ Scanning
  /\ wifi' = [wifi EXCEPT !.scan = "NONE"]
  /\ IF ui.screen # "WIFI_SCAN" THEN Stays
     ELSE \E stage \in {"FAILED", "EMPTY", "FOUND"} :
            /\ stage = "FAILED" => wifi.scan = "RUNNING"
            /\ ui' = [ui EXCEPT !.view = stage]
  /\ Quietly /\ WifiOnly

-----------------------------------------------------------------------------
(* Connecting and disconnecting *)

Begins(op) == [wifi EXCEPT !.op = op]

\* app_services_wifi_connect_network_with_authmode
ConnectNetwork ==
  IF ~wifi.on \/ wifi.mode = "AP" THEN WarnOnly
  ELSE /\ \/ wifi.linked /\ UNCHANGED wifi /\ ui' = ShowMenu(ui, "WIFI_CONFIG")
          \/ wifi.op = "CONNECT" /\ UNCHANGED wifi /\ Stays
          \/ /\ wifi' = [Begins("CONNECT") EXCEPT !.linked = FALSE]
             /\ ui' = ShowView(ui, "WIFI_CONNECTING", "PENDING")
          \/ /\ wifi' = [Done(wifi) EXCEPT !.linked = FALSE]
             /\ ui' = ShowView(ui, "WIFI_CONNECTING", "FAILED")
       /\ Quietly /\ WifiOnly

\* an open network connects at once, a secured one asks for its password
ConnectSelected ==
  \/ ConnectNetwork
  \/ ui' = Show(ui, "WIFI_PASSWORD") /\ UNCHANGED wifi /\ Quietly /\ WifiOnly
SubmitPassword == ConnectNetwork \/ WarnOnly   \* empty or too short

\* app_services_wifi_reconnect stays in the menu
Reconnect ==
  IF ~wifi.on THEN WarnOnly
  ELSE \/ WarnOnly                       \* no network is configured
       \/ wifi' = Begins("CONNECT") /\ Stays /\ Quietly /\ WifiOnly
       \/ wifi' = Done(wifi) /\ ui' = Sync(ui) /\ Quietly /\ WifiOnly

\* app_services_wifi_confirm_disconnect ends in the Wi-Fi rows in any case
ConfirmDisconnect ==
  /\ \/ wifi.linked /\ wifi' = [Begins("DISCONNECT") EXCEPT !.leave = FALSE]
     \/ wifi' = [Done(wifi) EXCEPT !.leave = FALSE]
  /\ ui' = ShowMenu(ui, "WIFI_CONFIG")
  /\ Quietly /\ WifiOnly

\* the association comes and goes by itself, and as it was asked to
LinkUp ==
  /\ wifi.on /\ wifi.mode # "AP" /\ ~wifi.linked
  /\ wifi' = [wifi EXCEPT !.linked = TRUE]
  /\ IF wifi.op = "CONNECT" THEN Quietly ELSE Event
  /\ Stays /\ WifiOnly
LinkDown ==
  /\ wifi.linked
  /\ wifi' = [wifi EXCEPT !.linked = FALSE]
  /\ IF wifi.op = "DISCONNECT" THEN Quietly ELSE Event
  /\ Stays /\ WifiOnly

-----------------------------------------------------------------------------
(* How an operation ends *)

\* app_wifi_report_connected: the connection screen shows the result when it is
\* still the one of this attempt
Reported(u, w) ==
  IF u.screen = "WIFI_CONNECTING" /\ u.view = "PENDING"
  THEN /\ wifi' = w
       /\ ui' = [u EXCEPT !.view = "CONNECTED"]
  ELSE wifi' = w /\ ui' = Sync(u)

Concluded ==
  \/ wifi.op = "CONNECT" /\ wifi.linked /\ Reported(ui, Done(wifi))
  \/ wifi.op = "DISCONNECT" /\ ~wifi.linked /\ wifi' = Done(wifi) /\ ui' = Sync(ui)

\* the watch task and the status callback find the operation done
OperationEnds == Concluded /\ Quietly /\ WifiOnly

\* a callback with a final failure shows it on the connection screen
ConnectFails ==
  /\ wifi.op = "CONNECT" /\ ~wifi.linked
  /\ wifi' = Done(wifi)
  /\ ui' = ShowView(ui, "WIFI_CONNECTING", "FAILED")
  /\ Quietly /\ WifiOnly

\* APP_WIFI_OPERATION_TIMEOUT_MS: what succeeded in the meantime is not a failure
OperationTimesOut ==
  /\ wifi.op # "NONE"
  /\ \/ Concluded
     \/ /\ ~(wifi.op = "CONNECT" /\ wifi.linked) /\ ~(wifi.op = "DISCONNECT" /\ ~wifi.linked)
        /\ wifi' = Done(wifi)
        /\ ui' = Notice(ui, "MENU")
  /\ Quietly /\ WifiOnly

\* the display task ends the timed Wi-Fi screens, and app_wifi_menu_refresh_task the one
\* that shows a success
ViewLapses ==
  /\ ui.screen \in {"WIFI_CONNECTING", "WIFI_PASSWORD"} /\ ui.flash = "NONE"
  /\ ui' = Show(ui, "MENU")
  /\ UNCHANGED wifi /\ Quietly /\ WifiOnly

-----------------------------------------------------------------------------
(* Clients of the access point *)

ShowClients ==
  IF ~wifi.on \/ wifi.mode = "STA" THEN WarnOnly
  ELSE /\ \E some \in {"SOME", "EMPTY"} : ui' = ShowView(ui, "WIFI_CLIENTS", some)
       /\ UNCHANGED wifi /\ Quietly /\ WifiOnly

AskDelete ==
  /\ ui.view = "SOME"
  /\ ui' = Show([ui EXCEPT !.delete = TRUE], "MENU")
  /\ UNCHANGED wifi /\ Quietly /\ WifiOnly

\* either choice shows the list again, when it still can be shown
AnswerDelete ==
  LET u == [ui EXCEPT !.delete = FALSE]
  IN /\ IF ~wifi.on \/ wifi.mode = "STA"
        THEN ui' = Notice(u, "AUTO")
        ELSE \E some \in {"SOME", "EMPTY"} : ui' = ShowView(u, "WIFI_CLIENTS", some)
     /\ UNCHANGED wifi /\ Quietly /\ WifiOnly

-----------------------------------------------------------------------------
(* Forgetting the saved network, DHCP *)

RequestForget ==
  \/ WarnOnly                                 \* none is saved
  \/ /\ wifi' = [wifi EXCEPT !.forget = TRUE]
     /\ ui' = Show(ui, "CONFIRM")
     /\ Quietly /\ WifiOnly
ConfirmForget ==
  /\ wifi' \in {[wifi EXCEPT !.forget = FALSE], [wifi EXCEPT !.forget = FALSE, !.linked = FALSE]}
  /\ Warn /\ Quietly /\ WifiOnly
ToggleDhcp == ui' = Rows(Notice(ui, "AUTO")) /\ UNCHANGED wifi /\ Quietly /\ WifiOnly

-----------------------------------------------------------------------------
(* The rows of the two menus, by mode (app_menu.c) *)

ConfigRows ==
  {"TOGGLE", "STATUS", "SETTINGS"} \cup (IF wifi.mode = "AP" THEN {} ELSE {"CONNECT", "SCAN"})
                                   \cup (IF wifi.mode = "STA" THEN {} ELSE {"CLIENTS"})
SettingsRows ==
  {"MODE", "DHCP"} \cup (IF wifi.mode = "AP" THEN {} ELSE {"SAVED"})
                   \cup (IF wifi.mode = "STA" THEN {} ELSE {"CLIENTS"})

\* handle_wifi_menu_action
ConnectRow ==
  \/ WifiBusy /\ UNCHANGED <<ui, wifi>> /\ Quietly /\ WifiOnly
  \/ /\ ~WifiBusy /\ wifi.linked
     /\ wifi' = [wifi EXCEPT !.leave = TRUE] /\ ui' = Show(ui, "CONFIRM")
     /\ Quietly /\ WifiOnly
  \/ ~WifiBusy /\ ~wifi.linked /\ Reconnect

\* bound: a tour of the settings leaves the connection alone
WifiMenuRow ==
  \/ Toggle(Rows(ui)) /\ Quietly /\ WifiOnly
  \/ ui' = Show(ui, "WIFI_STATUS") /\ UNCHANGED wifi /\ Quietly /\ WifiOnly
  \/ "CONNECT" \in ConfigRows /\ "WIFI_SETTINGS" \notin tour.menus /\ ConnectRow
  \/ "SCAN" \in ConfigRows /\ "WIFI_SETTINGS" \notin tour.menus /\ Scan
  \/ "CLIENTS" \in ConfigRows /\ ShowClients
  \/ /\ "WIFI_SETTINGS" \in tour.menus
     /\ ui' = Open(Push(ui, "WIFI_CONFIG"), "WIFI_SETTINGS")
     /\ UNCHANGED wifi /\ Quietly /\ WifiOnly

\* handle_wifi_settings_action
WifiSettingsRow ==
  \/ ModeRow
  \/ ToggleDhcp
  \/ "SAVED" \in SettingsRows /\ RequestForget
  \/ "CLIENTS" \in SettingsRows /\ ShowClients
=============================================================================
