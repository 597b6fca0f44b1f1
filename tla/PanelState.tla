----------------------------- MODULE PanelState -----------------------------
(***************************************************************************)
(* What the front panel keeps between two button events: the menu and its  *)
(* history (app_menu.c), the screen and the notice over it, the editor,    *)
(* the detail view, the factory-reset and security phases the display      *)
(* shows, the PIN, the Wi-Fi operation and the update dialogue.  The       *)
(* handlers are in PanelPin, PanelWifi, PanelOta and Panel.                *)
(*                                                                         *)
(* The cursor is abstracted: ENTER picks any row.  The digits of a PIN are *)
(* abstracted to how many are entered, and to whether the whole is right.  *)
(* Texts, durations and the values shown are left out.                     *)
(***************************************************************************)
EXTENDS Naturals, Sequences, FiniteSets

CONSTANTS
  Tours,       \* bound: one of these limits what happens in a behaviour
  Depth,       \* APP_MENU_HISTORY_DEPTH
  MaxAttempts, \* SECURITY_MAX_ATTEMPTS
  Modes        \* the Wi-Fi modes, of which the station with its access point is the first

Menus == {"SETTINGS", "MONITORING", "DIAGNOSTIC", "SYSTEM_INFO", "FACTORY_RESET",
          "SECURITY", "WIFI_CONFIG", "WIFI_SETTINGS", "OTA"}
Buttons == {"POWER", "ENTER", "UP_DOWN", "BACK"}   \* Up and Down differ in direction only

\* menus: the sub-menus the user opens.  power: what the power button is used for
\* besides its click.  slow: the button whose gestures are spread out in time; without
\* one the display does not sleep.
\* secured: security is enabled.  digits: SECURITY_PIN_LEN.  checks: the server is asked
\* for an update.  boot: what the start finds.  budget: how many background events,
\* wrong PINs, downloads and spread out gestures there are, together
Tour == [menus : SUBSET Menus, power : SUBSET {"LONG", "DOUBLE", "TRIPLE"},
         slow : Buttons \cup {"NONE"},
         secured : BOOLEAN, digits : Nat \ {0}, checks : BOOLEAN, boot : SUBSET {"WIFI_ON", "LINKED", "STAGED", "DEFAULT_PIN"},
         budget : Nat]

ASSUME PanelAssumption ==
  /\ Tours \subseteq Tour
  /\ {Depth, MaxAttempts} \subseteq Nat \ {0}
  /\ Modes \subseteq {"STA", "AP", "APSTA"} /\ "APSTA" \in Modes

VARIABLES
  ui,       \* sys_state and sys_lcd, what the handlers read of them
  pin,      \* the PIN store, its lockouts and the entry under way
  wifi,     \* the Wi-Fi operation and prompts of app_services.c
  ota,      \* the update dialogue of app_services.c
  hand,     \* the button whose gesture is under way
  tour,     \* the tour of this behaviour
  events    \* how many of what the budget bounds

vars == <<ui, pin, wifi, ota, hand, tour, events>>

Event == events < tour.budget /\ events' = events + 1
Quietly == UNCHANGED events

ScreenOnly == UNCHANGED <<pin, wifi, ota>>
PinOnly == UNCHANGED <<wifi, ota>>
WifiOnly == UNCHANGED <<pin, ota>>

\* view: what the Wi-Fi screen on display shows
InitUi ==
  ui = [menu |-> "NONE", history |-> <<>>, screen |-> "MAIN", view |-> "NONE", flash |-> "NONE",
        edit |-> "NONE", detail |-> "NONE", pre |-> "OFF", previous |-> "OFF", inverter |-> "OFF",
        seq |-> "NONE", delete |-> FALSE,
        phase |-> "IDLE", action |-> "NONE", entered |-> 0,
        flow |-> "IDLE", job |-> "NONE"]

-----------------------------------------------------------------------------
(* The menu and its history *)

Push(u, m) == IF Len(u.history) < Depth THEN [u EXCEPT !.history = Append(@, m)] ELSE u
Popped(u) == SubSeq(u.history, 1, Len(u.history) - 1)
Parent(u) == u.history[Len(u.history)]
Forget(u) == [u EXCEPT !.history = <<>>]

\* a screen is drawn anew, unless a notice still returns to it
ShowView(u, s, v) == [u EXCEPT !.screen = s, !.view = v]
Show(u, s) == ShowView(u, s, IF u.flash = "NONE" THEN "NONE" ELSE u.view)
GoMain(u) == Show(u, "MAIN")

\* show_menu_screen: the security menu is drawn by a screen of its own
ShowMenu(u, m) ==
  IF m = "SECURITY" THEN [Show(u, "SECURITY") EXCEPT !.flow = "IDLE", !.job = "NONE"]
  ELSE Show(u, "MENU")
Rows(u) == ShowMenu(u, u.menu)
Open(u, m) == ShowMenu([u EXCEPT !.menu = m], m)

\* a notice over the screen; AUTO returns to the screen it covers, and a notice
\* behind the one that shows keeps its place in the queue of Display
Notice(u, to) ==
  [u EXCEPT !.screen = "FLASH_MSG",
            !.flash = IF to # "AUTO" THEN to
                      ELSE IF @ # "NONE" THEN @
                      ELSE IF u.screen = "VALUE_EDIT" THEN "MAIN" ELSE u.screen]
FlashBlocks == ui.flash # "NONE" /\ ui.screen = "FLASH_MSG"

-----------------------------------------------------------------------------
(* Leaving: the editor, the detail view, the factory reset, the menus *)

ExitEdit(u) == [u EXCEPT !.edit = "NONE"]
\* what pre was is read only while a view is open
DetailOff(u) == [u EXCEPT !.detail = "NONE", !.pre = "OFF"]
LeaveDetail(u) ==
  IF u.detail = "NONE" THEN u ELSE [DetailOff(u) EXCEPT !.inverter = u.pre]
EnterDetail(u, d) == [u EXCEPT !.detail = d, !.pre = u.inverter]
CancelFactory(u) == [u EXCEPT !.phase = "IDLE", !.action = "NONE", !.entered = 0]
Home(u) == GoMain(Forget([u EXCEPT !.menu = "NONE"]))

\* enter_diagnostic_mode, exit_diagnostic_mode
EnterDiagnostic(u) ==
  Rows([u EXCEPT !.previous = u.inverter, !.inverter = "DIAGNOSTIC", !.menu = "DIAGNOSTIC"])
ExitDiagnostic(u) == GoMain(ExitEdit([u EXCEPT !.inverter = u.previous, !.menu = "NONE"]))

\* back to what the history names, home when it is empty
Back(u) ==
  IF u.history = <<>> THEN Home(u)
  ELSE LET m == Parent(u)
           v == [u EXCEPT !.menu = m, !.history = Popped(u)]
       IN IF m = "NONE" THEN GoMain(v) ELSE ShowMenu(v, m)

\* exit_factory_reset_to_previous_menu, exit_factory_reset_to_home
LeaveFactory(u) ==
  IF u.history = <<>> THEN Home(DetailOff(CancelFactory(u))) ELSE Back(CancelFactory(u))
LeaveFactoryHome(u) == Home(DetailOff(CancelFactory(u)))

\* shutdown_inverter, as the panel sees it: the menu is left, its history and an
\* open editor or detail view are not
Shutdown(u) ==
  IF u.inverter = "OFF" THEN u ELSE GoMain([u EXCEPT !.inverter = "OFF", !.menu = "NONE"])

\* esp_restart: nothing of the panel survives, and the run ends there
Restart(u) == [Forget(u) EXCEPT !.menu = "NONE", !.screen = "RESTART"]
=============================================================================
