------------------------------ MODULE PanelOta ------------------------------
(***************************************************************************)
(* The update dialogue: the OTA part of app_services.c, its background     *)
(* tasks, and the handlers of app_input.c that run it.  How an image is    *)
(* downloaded, staged and booted is FirmwareUpdate's subject: here the     *)
(* service reports, and a check or an image turns out one way or another.  *)
(*                                                                         *)
(* An operation of the dialogue is given as its result, the next ui and    *)
(* ota.  The PIN grant's proof is used up by what it permits.              *)
(***************************************************************************)
EXTENDS PanelWifi

\* state, avail, confirm: s_ota_status.  ask: the cancellation prompt.  check: the
\* manifest task.  service: the download, and whether to stop it was asked for.
\* marker, verified, checked, preflight: the staged
\* image.  prompt: how the apply prompt was shown last, which the task goes by that
\* withdraws it.  reminder: the task that shows it after a boot.  grant, forApply: the PIN of the apply prompt.
\* need: an operation waits for Wi-Fi, or asks for it.
\* applied: the specification's own, the staged image was selected for boot
InitOta ==
  \E avail \in IF "OTA" \in tour.menus THEN BOOLEAN ELSE {FALSE} :
    LET staged == "STAGED" \in tour.boot
    IN /\ staged => avail
       /\ ota = [state |-> IF staged THEN "PENDING_APPLY" ELSE IF avail THEN "AVAILABLE" ELSE "IDLE",
              avail |-> avail, confirm |-> FALSE, ask |-> FALSE, check |-> "NONE",
              service |-> "NONE", marker |-> staged, verified |-> FALSE,
              checked |-> FALSE, preflight |-> FALSE, prompt |-> IF staged THEN "NONE" ELSE "MENU", reminder |-> staged,
              grant |-> FALSE, forApply |-> FALSE, need |-> "NONE", applied |-> FALSE]

InProgress(o) == o.state \in {"WORKING", "CHECKING"}
Lifecycle(o) == o.service # "NONE" \/ o.check # "NONE"
OperationActive == InProgress(ota) /\ Lifecycle(ota)
Asking == ota.need \in {"ASK_CHECK", "ASK_INSTALL"}

Both(u, o) == [ui |-> u, ota |-> o]
Becomes(r) == ui' = r.ui /\ ota' = r.ota

\* a proof stands while what it permits is still open
Standing(p) == [p EXCEPT !.proven = IF ota'.confirm \/ ota'.grant THEN @ ELSE @ \ {"OTA"}]
OtaOnly == pin' = Standing(pin) /\ UNCHANGED wifi

-----------------------------------------------------------------------------
(* Showing the dialogue *)

OtaRows(u) == Open(u, "OTA")
\* the screens that ask something, and the ones that report
Asked == {"AVAILABLE", "PENDING_APPLY", "DELETE_CONFIRM"}
Stage(u, s) == ShowView(u, "OTA", IF s \in Asked THEN s ELSE "REPORT")

\* app_services_show_ota_lcd_impl: an error or a negative answer takes the user to
\* the menu, wherever the user was
ShowOta(u, o, respectMenu) ==
  IF respectMenu /\ o.state = "WORKING" /\ u.screen = "MENU" /\ u.menu = "OTA" THEN u
  ELSE IF o.state \in {"ERROR", "IDLE"} THEN Notice(OtaRows(u), "MENU")
  ELSE IF o.state = "CONFIRMING" THEN u
  ELSE Stage(u, o.state)

\* app_services_schedule_pending_manifest_check
Scheduled(o) ==
  IF o.marker /\ o.state = "PENDING_APPLY" /\ ~(o.verified /\ (o.checked \/ ~wifi.linked))
  THEN [o EXCEPT !.preflight = TRUE] ELSE o

PromptStaged(o) == [o EXCEPT !.state = "PENDING_APPLY", !.avail = TRUE, !.prompt = "MENU"]

\* app_services_show_ota_status_screen
StatusScreen(u, o) ==
  IF o.marker
  THEN Both(ShowOta(u, PromptStaged(o), FALSE), Scheduled(PromptStaged(o)))
  ELSE IF o.state = "PENDING_APPLY"
  THEN Both(OtaRows(u), [o EXCEPT !.state = "IDLE", !.avail = FALSE])
  ELSE IF o.state = "DELETE_CONFIRM" \/ (InProgress(o) /\ Lifecycle(o))
  THEN Both(ShowOta(u, o, FALSE), o)
  ELSE Both(OtaRows(u), o)

-----------------------------------------------------------------------------
(* Checking for an update *)

\* app_services_check_for_update, for the user
Checks(u, o) ==
  IF ~wifi.linked
  THEN {IF wifi.on THEN Both(Notice(u, "MENU"), o)
        ELSE Both(Show(u, "CONFIRM"), [o EXCEPT !.need = "ASK_CHECK"])}
  ELSE IF InProgress(o) \/ o.check # "NONE" THEN {Both(u, o)}
  ELSE {LET p == [o EXCEPT !.state = "CHECKING", !.check = "USER"] IN Both(ShowOta(u, p, TRUE), p),
        LET p == [o EXCEPT !.state = "ERROR"] IN Both(ShowOta(u, p, TRUE), p)}

\* ota_auto_check_task, which comes round every few hours
AutoCheck ==
  /\ tour.checks /\ hand.stage # "GONE"   \* bound
  /\ wifi.linked /\ ota.check = "NONE"
  /\ ~InProgress(ota) /\ ota.state \notin {"PENDING_APPLY", "DELETE_CONFIRM"}
  /\ ota' = [ota EXCEPT !.state = "CHECKING", !.check = "AUTO"]
  /\ UNCHANGED ui /\ Quietly /\ OtaOnly

\* ota_manifest_check_task
CheckEnds ==
  /\ ota.check # "NONE"
  /\ \E s \in IF ota.check = "CANCELLED" THEN {"CANCELLED"} ELSE {"AVAILABLE", "IDLE", "ERROR"} :
       /\ ota' = [ota EXCEPT !.state = s, !.check = "NONE", !.ask = FALSE,
                             !.avail = s = "AVAILABLE" \/ (@ /\ s # "IDLE")]
       /\ ui' = IF ota.check # "AUTO" \/ s = "AVAILABLE" THEN ShowOta(ui, ota', TRUE) ELSE ui
  /\ Quietly /\ OtaOnly

-----------------------------------------------------------------------------
(* Asking for Wi-Fi first *)

\* app_services_confirm_wifi_prerequisite
ConfirmNeed ==
  /\ Admit(ui, "ON")
  /\ ota' = [ota EXCEPT !.need = IF wifi.worker # "NONE" THEN "NONE"
                                 ELSE IF @ = "ASK_CHECK" THEN "WAIT_CHECK" ELSE "WAIT_INSTALL"]
  /\ Quietly /\ UNCHANGED pin

\* app_services_cancel_wifi_prerequisite
CancelNeed(u, o) == Both(Notice(u, "AUTO"), [o EXCEPT !.need = "NONE"])

\* app_wifi_prerequisite_task: it draws the rows whatever menu the user is in
NeedMet ==
  /\ wifi.linked
  /\ \/ /\ ota.need = "WAIT_CHECK"
        /\ \E r \in Checks(ui, [ota EXCEPT !.need = "NONE"]) : Becomes(r)
     \/ /\ ota.need = "WAIT_INSTALL"
        /\ Becomes(Both(ShowMenu(ui, "OTA"), [ota EXCEPT !.need = "NONE"]))
  /\ Quietly /\ OtaOnly
NeedTimesOut ==
  /\ ota.need \in {"WAIT_CHECK", "WAIT_INSTALL"}
  /\ Becomes(Both(ShowMenu(Notice(ui, "AUTO"), "OTA"), [ota EXCEPT !.need = "NONE"]))
  /\ Quietly /\ OtaOnly

-----------------------------------------------------------------------------
(* Confirming, starting and cancelling an update *)

\* app_services_request_update_confirmation
Requests(u, o) ==
  IF ~wifi.linked /\ ~wifi.on
  THEN Both(Show(u, "CONFIRM"), [o EXCEPT !.need = "ASK_INSTALL"])
  ELSE IF o.avail /\ ~InProgress(o)
  THEN Both(Show(u, "CONFIRM"), [o EXCEPT !.state = "CONFIRMING", !.confirm = TRUE])
  ELSE Both(Notice(u, "AUTO"), o)

\* app_services_confirm_update: what is staged already is shown, not downloaded again
Confirms(u, o) ==
  LET answered == [o EXCEPT !.confirm = FALSE]
      failed == [answered EXCEPT !.state = "ERROR"]
  IN IF o.marker THEN {Both(ShowOta(u, PromptStaged(o), TRUE), PromptStaged(o))}
     ELSE IF ~o.confirm THEN {Both(u, o)}
     ELSE {Both(Notice(u, "MENU"), [answered EXCEPT !.state = "AVAILABLE"])}   \* no Wi-Fi, or memory
       \cup IF ~wifi.linked THEN {}
            ELSE {Both(ShowOta(u, failed, TRUE), failed)}
              \cup IF o.service # "NONE" THEN {}
                   ELSE {Both(Stage(u, "WORKING"),
                              [answered EXCEPT !.state = "WORKING", !.service = "RUNNING"])}
ConfirmUpdate ==
  /\ \E r \in Confirms(ui, ota) : Becomes(r)
  /\ IF ota'.service = ota.service THEN Quietly ELSE Event
  /\ OtaOnly

\* app_services_request_cancel_update, app_services_cancel_update
AskCancel(u, o) ==
  IF Lifecycle(o) THEN Both(Show(u, "CONFIRM"), [o EXCEPT !.ask = TRUE])
  ELSE Both(Notice(u, "AUTO"), o)
Cancel(u, o) ==
  LET checking == o.check # "NONE"
      p == [o EXCEPT !.confirm = FALSE, !.ask = FALSE,
                     !.check = IF checking THEN "CANCELLED" ELSE @,
                     !.state = IF checking THEN "CANCELLED"
                               ELSE IF o.confirm THEN "AVAILABLE" ELSE @]
  IN IF o.service # "NONE" THEN Both(Stage(u, "CANCELLING"), [p EXCEPT !.service = "STOPPING"])
     ELSE IF o.confirm THEN Both(Notice(u, "AUTO"), p)
     ELSE IF checking THEN Both(Stage(u, "CANCELLED"), p)
     ELSE Both(u, p)
DismissCancel(o) == [o EXCEPT !.ask = FALSE]
ClearError(o) == [o EXCEPT !.state = IF @ = "ERROR" THEN "IDLE" ELSE @]

\* ota_status_callback, ota_progress_callback: preparing, downloading or verifying
ServiceReports ==
  /\ ota.service # "NONE"
  /\ LET o == [ota EXCEPT !.state = "WORKING"] IN Becomes(Both(ShowOta(ui, o, TRUE), o))
  /\ Quietly /\ OtaOnly
ServiceEnds ==
  /\ ota.service # "NONE"
  /\ LET over == [ota EXCEPT !.service = "NONE", !.confirm = FALSE, !.ask = FALSE]
         ends == {[over EXCEPT !.state = "ERROR"], [over EXCEPT !.state = "IDLE", !.avail = FALSE]}
                   \cup IF ota.service = "STOPPING" THEN {[over EXCEPT !.state = "CANCELLED"]} ELSE {}
         staged(prompt) == [over EXCEPT !.state = "PENDING_APPLY", !.marker = TRUE, !.verified = FALSE,
                                !.checked = FALSE, !.prompt = prompt]
     IN \/ \E o \in ends : Becomes(Both(ShowOta(ui, o, TRUE), o))
        \/ \E prompt \in {"MENU", ota.prompt} :
             Becomes(Both(ShowOta(ui, staged(prompt), TRUE), Scheduled(staged(prompt))))
  /\ Quietly /\ OtaOnly

-----------------------------------------------------------------------------
(* The staged image: verified, applied, deferred or deleted *)

\* ota_pending_manifest_check_task
PreflightEnds ==
  /\ ota.preflight
  /\ LET over == [ota EXCEPT !.preflight = FALSE, !.checked = FALSE]
         gone == [over EXCEPT !.marker = FALSE, !.verified = FALSE, !.confirm = FALSE]
         rejected == [gone EXCEPT !.state = "IDLE", !.avail = FALSE]
     IN \/ ota.marker /\ \E checked \in BOOLEAN :
             Becomes(Both(ui, [over EXCEPT !.verified = TRUE, !.checked = checked]))
        \/ /\ ~ota.verified
           /\ \/ Becomes(Both(ShowOta(ui, rejected, FALSE), rejected))
              \/ ota.marker /\ Becomes(Both(ui, over))       \* it cannot be discarded
        \/ /\ ota.marker                                     \* a newer release is out
           /\ \E newer \in BOOLEAN :
                LET o == [gone EXCEPT !.state = "AVAILABLE", !.avail = newer]
                IN Becomes(Both(ShowOta(ui, o, FALSE), o))
  /\ Quietly /\ OtaOnly

\* ota_apply_prompt_timeout_task
PromptLapses ==
  /\ ota.prompt # "NONE" /\ ota.state = "PENDING_APPLY"
  /\ Becomes(Both(IF ~(ui.screen = "OTA" /\ ui.view = "PENDING_APPLY") THEN ui
                  ELSE IF ota.prompt = "REMINDER"
                  THEN GoMain(DetailOff([ui EXCEPT !.menu = "NONE"]))
                  ELSE ShowMenu(ui, "OTA"),
                  [ota EXCEPT !.state = "AVAILABLE", !.avail = TRUE]))
  /\ Quietly /\ OtaOnly

\* ota_pending_boot_reminder_task waits for the home screen
Reminds ==
  /\ ota.reminder
  /\ LET o == [ota EXCEPT !.reminder = FALSE]
         shown == [o EXCEPT !.prompt = "REMINDER"]
     IN \/ ~ota.marker /\ Becomes(Both(ui, o))
        \/ /\ ota.marker /\ ui.menu = "NONE" /\ ui.screen = "MAIN"
           /\ IF ota.state = "PENDING_APPLY"
              THEN Becomes(Both(ShowOta(ui, shown, FALSE), Scheduled(shown)))
              ELSE Becomes(Both(ui, o))
  /\ Quietly /\ OtaOnly

\* app_services_defer_pending_update
Deferred(o) ==
  IF o.marker THEN [o EXCEPT !.state = "AVAILABLE", !.avail = TRUE, !.confirm = FALSE] ELSE o

\* app_services_show_pending_delete_confirmation
AskDiscard ==
  /\ ota.marker
  /\ LET o == [ota EXCEPT !.state = "DELETE_CONFIRM"] IN Becomes(Both(ShowOta(ui, o, FALSE), o))
  /\ Quietly /\ OtaOnly

\* app_services_delete_pending_update and the handler around it
Discard ==
  LET gone == [ota EXCEPT !.marker = FALSE, !.verified = FALSE, !.checked = FALSE, !.confirm = FALSE,
                          !.state = "IDLE", !.avail = FALSE]
  IN /\ \/ Becomes(Both(Notice(ShowMenu(ui, "OTA"), "MENU"), gone))
        \/ ota.marker /\ Becomes(Both(Notice(ui, "OTA"), [ota EXCEPT !.verified = FALSE]))
     /\ Quietly /\ OtaOnly

-----------------------------------------------------------------------------
(* The PIN before an update *)

\* begin_ota_auth, begin_ota_pending_apply_auth
BeginAuth(forApply) ==
  /\ pin' = Start(IF ota.confirm THEN pin ELSE [pin EXCEPT !.proven = @ \ {"OTA"}], "OTA_AUTH")
  /\ ui' = Show([ui EXCEPT !.menu = "SECURITY", !.job = "OTA_AUTH", !.flow = "PIN"], "SECURITY")
  /\ ota' = [ota EXCEPT !.forApply = forApply, !.grant = FALSE]
  /\ Quietly /\ UNCHANGED wifi

\* mutant: what the flow ended with is not looked at
ReturnsGranting(u, o, authenticated) ==
  LET v == [u EXCEPT !.flow = "IDLE", !.job = "NONE", !.menu = "OTA", !.flash = "NONE"]
      p == [o EXCEPT !.forApply = FALSE]
  IN IF o.forApply THEN StatusScreen(v, [p EXCEPT !.grant = TRUE]) ELSE Requests(OtaRows(v), p)

\* return_from_ota_auth
Returns(u, o, authenticated) ==
  LET v == [u EXCEPT !.flow = "IDLE", !.job = "NONE", !.menu = "OTA", !.flash = "NONE"]
      p == [o EXCEPT !.forApply = FALSE]
  IN IF o.forApply THEN StatusScreen(v, [p EXCEPT !.grant = authenticated])
     ELSE IF authenticated THEN Requests(OtaRows(v), p)
     ELSE Both(OtaRows(v), p)

\* a button in the PIN flow of the security menu.  Up and Down never end it
PinFlow(button) ==
  /\ \E r \in FlowStep(button) :
       /\ IF r.wrong THEN Event ELSE Quietly
       /\ IF ~r.done \/ button = "UP_DOWN" THEN Becomes(Both(r.ui, ota))
          ELSE IF ui.job = "OTA_AUTH"
          THEN Becomes(Returns(r.ui, ota, button = "ENTER" /\ r.pin.step = "SUCCESS"))
          ELSE Becomes(Both([r.ui EXCEPT !.flow = "IDLE", !.job = "NONE", !.screen = "SECURITY"], ota))
       /\ pin' = Standing(r.pin)
  /\ UNCHANGED wifi

\* the 30 seconds of s_ota_pending_apply_authorized
GrantExpires == ota.grant /\ ota' = [ota EXCEPT !.grant = FALSE] /\ UNCHANGED ui /\ Quietly /\ OtaOnly

-----------------------------------------------------------------------------
(* Leaving the dialogue *)

\* exit_ota_to_main_menu
ExitOta(u, o) ==
  LET forgotten == u.history = <<>> \/ Parent(u) = "NONE"
      v == [u EXCEPT !.menu = IF forgotten THEN "MAIN_MENU" ELSE Parent(u),
                     !.history = IF @ = <<>> THEN @ ELSE Popped(u)]
  IN Both(Rows(v), [ClearError(o) EXCEPT !.grant = FALSE, !.forApply = FALSE])

\* exit_ota_menu_via_back, return_to_ota_menu_after_back: with nothing under way
\* the user is told so
ExitByBack ==
  LET r == ExitOta(ui, ota)
  IN (IF OperationActive THEN Becomes(r) ELSE Becomes(AskCancel(r.ui, r.ota)))
     /\ Quietly /\ OtaOnly
MenuByBack ==
  LET o == ClearError(ota)
  IN (IF OperationActive THEN Becomes(Both(OtaRows(ui), o)) ELSE Becomes(AskCancel(OtaRows(ui), o)))
     /\ Quietly /\ OtaOnly

-----------------------------------------------------------------------------
(* The rows of the menu, and ENTER and BACK on the screen *)

Simply(r) == Becomes(r) /\ Quietly /\ OtaOnly

\* show_ota_entry_screen
EnterOta(u) ==
  Simply(IF OperationActive THEN StatusScreen(u, ota) ELSE Both(ShowMenu(u, "OTA"), ota))

\* handle_ota_menu_action
InstallRow ==
  IF OperationActive \/ ota.state \in {"PENDING_APPLY", "DELETE_CONFIRM"} \/ ota.marker
  THEN Simply(StatusScreen(ui, ota))
  ELSE IF ota.state = "ERROR" THEN \E r \in Checks(ui, ota) : Simply(r)
  ELSE IF tour.secured /\ (wifi.on \/ ~ota.avail) THEN BeginAuth(FALSE)
  ELSE Simply(Requests(ui, ota))
OtaRow ==
  \/ tour.checks /\ \E r \in Checks(ui, ota) : Simply(r)   \* bound
  \/ InstallRow
  \/ IF OperationActive THEN Simply(AskCancel(ui, ota)) ELSE ExitByBack

\* ENTER on the apply prompt: the output goes off before the image is selected
Apply ==
  LET off == IF ui.inverter = "ON" THEN Shutdown(ui) ELSE ui
  IN /\ \/ /\ ui' = Notice(off, "OTA")
           /\ ota' = [ota EXCEPT !.grant = FALSE]
        \/ /\ ui' = Restart(off)
           /\ ota' = [ota EXCEPT !.grant = FALSE, !.applied = TRUE]
     /\ pin' = [pin EXCEPT !.proven = @ \ {"OTA"}]
     /\ Quietly /\ UNCHANGED wifi
EnterApply ==
  IF ~ota.marker THEN Simply(StatusScreen(ui, [ota EXCEPT !.grant = FALSE]))
  ELSE IF ota.preflight THEN Simply(Both(Notice(ui, "OTA"), ota))
  ELSE IF ~ota.verified
  THEN LET r == StatusScreen(ui, ota) IN Simply(Both(Notice(r.ui, "OTA"), r.ota))
  ELSE IF tour.secured /\ ~ota.grant THEN BeginAuth(TRUE)
  ELSE Apply

EnterOnOta ==
  IF ui.view = "DELETE_CONFIRM" THEN Discard
  ELSE IF ui.view = "PENDING_APPLY" THEN EnterApply
  ELSE IF ui.view # "AVAILABLE" THEN Simply(Both(OtaRows(ui), ota))
  ELSE IF tour.secured THEN BeginAuth(FALSE)
  ELSE Simply(Requests(ui, ota))

BackOnOta ==
  IF ui.view = "DELETE_CONFIRM" THEN ConfirmUpdate
  ELSE IF ui.view = "PENDING_APPLY"
  THEN Simply(Both(ShowMenu(ui, "OTA"), [Deferred(ota) EXCEPT !.grant = FALSE]))
  ELSE MenuByBack
=============================================================================
