---------------------------- MODULE Panel_proofs ----------------------------
(***************************************************************************)
(* Proofs about the front panel, for every tour (the menus opened, the     *)
(* buttons used, what the start finds), menu depth, PIN length, number of  *)
(* attempts and set of Wi-Fi modes: what wakes the display, erases data or *)
(* installs an image.                                                      *)
(*                                                                         *)
(* Two inductive invariants carry them.  PanelInv says what a confirmation *)
(* on display, an open update prompt and a PIN flow owe to the PIN; HandOK *)
(* says that the button whose gesture has woken the display is latched.    *)
(*                                                                         *)
(* Most of what a handler does leaves PanelInv alone: it clears a phase, a *)
(* job, a prompt or a grant, or does not touch them.  Calm and Mild say so *)
(* of what an operator makes of the screen and of the update dialogue; the *)
(* handlers that do more are proved one by one.                            *)
(***************************************************************************)
EXTENDS Panel, TLAPS

-----------------------------------------------------------------------------
(* Shapes: the fields of each record.  What a field may hold is left open,   *)
(* where no condition is about it                                            *)

UiFields == {"menu", "history", "screen", "view", "flash", "edit", "detail", "pre", "previous",
             "inverter", "seq", "delete", "phase", "action", "entered", "flow", "job"}
PinFields == {"step", "digit", "tries", "kept", "force", "proven", "erased"}
WifiFields == {"on", "linked", "mode", "op", "worker", "scan", "forget", "leave", "editing"}
OtaFields == {"state", "avail", "confirm", "ask", "check", "service", "marker", "verified",
              "checked", "preflight", "prompt", "reminder", "grant", "forApply", "need", "applied"}

IsUi(u) == u = [f \in UiFields |-> u[f]] /\ u.action \in Erasures \cup {"NONE"}
IsPin(p) == p = [f \in PinFields |-> p[f]]
IsWifi(w) == w = [f \in WifiFields |-> w[f]]
IsOta(o) == o = [f \in OtaFields |-> o[f]]

\* v follows u without an erasure or the PIN of an update coming up
Calm(u, v) ==
  /\ IsUi(v)
  /\ v.phase = "CONFIRM" => u.phase = "CONFIRM" /\ v.action = u.action
  /\ v.job = "OTA_AUTH" => u.job = "OTA_AUTH"

-----------------------------------------------------------------------------
(* What the operators of the menu make of the screen *)

LEMMA CalmAgain ==
  ASSUME NEW u, NEW v, NEW w, Calm(u, v), Calm(v, w)
  PROVE  Calm(u, w)
BY DEF Calm

LEMMA CalmStays == ASSUME NEW u, IsUi(u) PROVE Calm(u, u)
BY DEF Calm

LEMMA CalmIsUi == ASSUME NEW u, NEW v, Calm(u, v) PROVE IsUi(v)
BY DEF Calm

LEMMA CalmSet ==
  ASSUME NEW u, IsUi(u), NEW s
  PROVE  /\ Calm(u, [u EXCEPT !.menu = s])
         /\ Calm(u, [u EXCEPT !.screen = s])
         /\ Calm(u, [u EXCEPT !.view = s])
         /\ Calm(u, [u EXCEPT !.edit = s])
         /\ Calm(u, [u EXCEPT !.detail = s])
         /\ Calm(u, [u EXCEPT !.seq = s])
         /\ Calm(u, [u EXCEPT !.inverter = s])
BY DEF Calm, IsUi, UiFields

LEMMA CalmHistory ==
  ASSUME NEW u, IsUi(u), NEW h
  PROVE  Calm(u, [u EXCEPT !.history = h])
BY DEF Calm, IsUi, UiFields

LEMMA CalmPush == ASSUME NEW u, IsUi(u), NEW s PROVE Calm(u, Push(u, s))
BY CalmHistory, CalmStays DEF Push

LEMMA CalmForget == ASSUME NEW u, IsUi(u) PROVE Calm(u, Forget(u))
BY CalmHistory DEF Forget

LEMMA CalmShow ==
  ASSUME NEW u, IsUi(u), NEW s
  PROVE  /\ \A v : Calm(u, ShowView(u, s, v))
         /\ Calm(u, Show(u, s))
         /\ Calm(u, GoMain(u))
<1>1. ASSUME NEW x, NEW v PROVE Calm(u, ShowView(u, x, v))
  BY <1>1 DEF ShowView, Calm, IsUi, UiFields
<1>2. ASSUME NEW x PROVE Calm(u, Show(u, x))
  BY <1>1 DEF Show
<1> QED
  BY <1>1, <1>2 DEF GoMain

LEMMA CalmShowMenu ==
  ASSUME NEW u, IsUi(u), NEW m
  PROVE  Calm(u, ShowMenu(u, m))
<1>1. Calm(u, Show(u, "MENU")) /\ Calm(u, Show(u, "SECURITY"))
  BY CalmShow
<1>2. ASSUME NEW v, IsUi(v) PROVE Calm(v, [v EXCEPT !.flow = "IDLE", !.job = "NONE"])
  BY <1>2 DEF Calm, IsUi, UiFields
<1> QED
  BY <1>1, <1>2, CalmAgain, CalmIsUi DEF ShowMenu

LEMMA CalmRows == ASSUME NEW u, IsUi(u) PROVE Calm(u, Rows(u))
BY CalmShowMenu DEF Rows

LEMMA CalmOpen ==
  ASSUME NEW u, IsUi(u), NEW m
  PROVE  Calm(u, Open(u, m))
BY CalmSet, CalmShowMenu, CalmAgain, CalmIsUi DEF Open

LEMMA CalmNotice ==
  ASSUME NEW u, IsUi(u), NEW to
  PROVE  Calm(u, Notice(u, to))
<1>1. ASSUME NEW f PROVE Calm(u, [u EXCEPT !.screen = "FLASH_MSG", !.flash = f])
  BY <1>1 DEF Calm, IsUi, UiFields
<1> DEFINE f == IF to # "AUTO" THEN to
                ELSE IF u.flash # "NONE" THEN u.flash
                ELSE IF u.screen = "VALUE_EDIT" THEN "MAIN" ELSE u.screen
<1>2. Notice(u, to) = [u EXCEPT !.screen = "FLASH_MSG", !.flash = f]
  BY DEF Notice, IsUi, UiFields
<1> HIDE DEF f
<1> QED
  BY <1>1, <1>2

LEMMA CalmExits ==
  ASSUME NEW u, IsUi(u)
  PROVE  /\ Calm(u, ExitEdit(u))
         /\ Calm(u, DetailOff(u))
         /\ Calm(u, LeaveDetail(u))
         /\ Calm(u, CancelFactory(u))
<1>1. Calm(u, ExitEdit(u))
  BY DEF ExitEdit, Calm, IsUi, UiFields
<1>2. Calm(u, DetailOff(u))
  BY DEF DetailOff, Calm, IsUi, UiFields
<1>4. Calm(u, LeaveDetail(u))
  BY <1>2, CalmSet, CalmAgain, CalmIsUi, CalmStays DEF LeaveDetail
<1>5. Calm(u, CancelFactory(u))
  BY DEF CancelFactory, Calm, IsUi, UiFields
<1> QED
  BY <1>1, <1>2, <1>4, <1>5

LEMMA CalmEnterDetail ==
  ASSUME NEW u, IsUi(u), NEW d
  PROVE  Calm(u, EnterDetail(u, d))
BY DEF EnterDetail, Calm, IsUi, UiFields

LEMMA CalmHome == ASSUME NEW u, IsUi(u) PROVE Calm(u, Home(u))
<1>1. Calm(u, [u EXCEPT !.menu = "NONE"])
  BY CalmSet
<1> DEFINE v == [u EXCEPT !.menu = "NONE"]
<1>2. IsUi(v)
  BY <1>1, CalmIsUi
<1>3. Calm(v, Forget(v)) /\ IsUi(Forget(v))
  BY <1>2, CalmForget, CalmIsUi
<1>4. Calm(Forget(v), GoMain(Forget(v)))
  BY <1>3, CalmShow
<1>5. Calm(v, GoMain(Forget(v)))
  BY <1>3, <1>4, CalmAgain
<1> QED
  BY <1>1, <1>5, CalmAgain DEF Home

LEMMA CalmDiagnostic ==
  ASSUME NEW u, IsUi(u)
  PROVE  Calm(u, EnterDiagnostic(u)) /\ Calm(u, ExitDiagnostic(u))
<1>1. Calm(u, [u EXCEPT !.previous = u.inverter, !.inverter = "DIAGNOSTIC", !.menu = "DIAGNOSTIC"])
  BY DEF Calm, IsUi, UiFields
<1>2. Calm(u, EnterDiagnostic(u))
  BY <1>1, CalmRows, CalmAgain, CalmIsUi DEF EnterDiagnostic
<1> DEFINE v == [u EXCEPT !.inverter = u.previous, !.menu = "NONE"]
<1>3. Calm(u, v)
  BY DEF Calm, IsUi, UiFields
<1>4. IsUi(v)
  BY <1>3, CalmIsUi
<1> HIDE DEF v
<1>5. Calm(v, ExitEdit(v)) /\ IsUi(ExitEdit(v))
  BY <1>4, CalmExits, CalmIsUi
<1>6. Calm(v, GoMain(ExitEdit(v)))
  BY <1>5, CalmShow, CalmAgain
<1>7. ExitDiagnostic(u) = GoMain(ExitEdit(v))
  BY DEF ExitDiagnostic, v
<1> QED
  BY <1>2, <1>3, <1>6, <1>7, CalmAgain

LEMMA CalmBack == ASSUME NEW u, IsUi(u) PROVE Calm(u, Back(u))
<1>1. CASE u.history = <<>>
  BY <1>1, CalmHome DEF Back
<1>2. CASE u.history # <<>>
  <2> DEFINE m == Parent(u)
             v == [u EXCEPT !.menu = m, !.history = Popped(u)]
  <2>2. Calm(u, v)
    BY DEF Calm, IsUi, UiFields
  <2>3. IsUi(v)
    BY <2>2, CalmIsUi
  <2>4. Back(u) = IF m = "NONE" THEN GoMain(v) ELSE ShowMenu(v, m)
    BY <1>2 DEF Back
  <2> HIDE DEF v, m
  <2>5. Calm(v, GoMain(v)) /\ Calm(v, ShowMenu(v, m))
    BY <2>3, CalmShow, CalmShowMenu
  <2> QED
    BY <2>2, <2>4, <2>5, CalmAgain
<1> QED
  BY <1>1, <1>2

LEMMA CalmLeaves ==
  ASSUME NEW u, IsUi(u)
  PROVE  /\ Calm(u, Home(DetailOff(u)))
         /\ Calm(u, LeaveFactory(u))
         /\ Calm(u, LeaveFactoryHome(u))
<1>1. ASSUME NEW v, IsUi(v) PROVE Calm(v, Home(DetailOff(v)))
  BY <1>1, CalmExits, CalmHome, CalmAgain, CalmIsUi
<1>2. Calm(u, CancelFactory(u)) /\ IsUi(CancelFactory(u))
  BY CalmExits, CalmIsUi
<1>3. Calm(u, LeaveFactoryHome(u))
  BY <1>1, <1>2, CalmAgain DEF LeaveFactoryHome
<1>4. Calm(u, Back(CancelFactory(u)))
  BY <1>2, CalmBack, CalmAgain
<1> QED
  BY <1>1, <1>3, <1>4 DEF LeaveFactory, LeaveFactoryHome

LEMMA CalmShutdown == ASSUME NEW u, IsUi(u) PROVE Calm(u, Shutdown(u))
<1>1. Calm(u, [u EXCEPT !.inverter = "OFF", !.menu = "NONE"])
  BY DEF Calm, IsUi, UiFields
<1> QED
  BY <1>1, CalmShow, CalmAgain, CalmIsUi, CalmStays DEF Shutdown

LEMMA CalmRestart == ASSUME NEW u, IsUi(u) PROVE Calm(u, Restart(u))
<1>1. Calm(u, Forget(u)) /\ IsUi(Forget(u))
  BY CalmForget, CalmIsUi
<1>2. ASSUME NEW v, IsUi(v) PROVE Calm(v, [v EXCEPT !.menu = "NONE", !.screen = "RESTART"])
  BY <1>2 DEF Calm, IsUi, UiFields
<1> QED
  BY <1>1, <1>2, CalmAgain DEF Restart

-----------------------------------------------------------------------------
(* The conditions, and the two ways most handlers keep them *)

\* What waits for the user's confirmation was proven with the PIN; so was what the
\* update dialogue holds open; the flow that asks for the PIN of an update is at the
\* question; and there is no association without the radio
Proofs ==
  /\ ui.phase = "CONFIRM" => ui.action \in pin.proven
  /\ ota.confirm \/ ota.grant => ~tour.secured \/ "OTA" \in pin.proven
  /\ ui.job = "OTA_AUTH" => pin.step = "VERIFY"
  /\ wifi.linked => wifi.on
Shapes == IsUi(ui) /\ IsPin(pin) /\ IsWifi(wifi) /\ IsOta(ota)
PanelInv == Shapes /\ Proofs

\* what one step may do: the two action properties
ErasureProven ==
  pin'.erased # pin.erased /\ pin'.erased # "NONE" =>
     \/ pin'.erased \in pin.proven
     \/ pin'.erased = "BY_POWER" /\ ui.seq # "NONE" /\ ui.menu = "FACTORY_RESET"
InstallProven ==
  (ota.service = "NONE" /\ ota'.service # "NONE") \/ (~ota.applied /\ ota'.applied)
     => ~tour.secured \/ "OTA" \in pin.proven
Kept == PanelInv' /\ ErasureProven /\ InstallProven

\* p follows o without a prompt, a grant, a download or a selection coming up
Mild(o, p) ==
  /\ IsOta(p)
  /\ p.confirm \/ p.grant => o.confirm \/ o.grant
  /\ o.service = "NONE" => p.service = "NONE"
  /\ p.applied = o.applied

\* the Wi-Fi operation keeps its shape, and the association its radio
Linked(w) == IsWifi(w) /\ (w.linked => w.on)

LEMMA MildAgain ==
  ASSUME NEW o, NEW p, NEW q, Mild(o, p), Mild(p, q)
  PROVE  Mild(o, q)
BY DEF Mild

LEMMA MildStays == ASSUME NEW o, IsOta(o) PROVE Mild(o, o)
BY DEF Mild

LEMMA MildIsOta == ASSUME NEW o, NEW p, Mild(o, p) PROVE IsOta(p)
BY DEF Mild

LEMMA InvShapes ==
  ASSUME PanelInv
  PROVE  IsUi(ui) /\ IsPin(pin) /\ IsWifi(wifi) /\ IsOta(ota) /\ Linked(wifi)
BY DEF PanelInv, Shapes, Proofs, Linked

\* A handler that leaves the PIN and the dialogue alone.
LEMMA Calmly ==
  ASSUME PanelInv, UNCHANGED tour, Calm(ui, ui'), Linked(wifi'), UNCHANGED <<pin, ota>>
  PROVE  Kept
<1>1. Shapes'
  BY DEF PanelInv, Shapes, Calm, Linked
<1>2. Proofs'
  BY DEF PanelInv, Proofs, Calm, Linked
<1> QED
  BY <1>1, <1>2 DEF Kept, PanelInv, ErasureProven, InstallProven

LEMMA StandingShape ==
  ASSUME NEW p, IsPin(p)
  PROVE  /\ IsPin(Standing(p))
         /\ Standing(p).step = p.step
         /\ Standing(p).erased = p.erased
         /\ \A a \in p.proven : a # "OTA" => a \in Standing(p).proven
         /\ ota'.confirm \/ ota'.grant => Standing(p).proven = p.proven
<1> DEFINE x == IF ota'.confirm \/ ota'.grant THEN p.proven ELSE p.proven \ {"OTA"}
<1>1. Standing(p) = [p EXCEPT !.proven = x]
  BY DEF Standing
<1>2. /\ \A a \in p.proven : a # "OTA" => a \in x
      /\ ota'.confirm \/ ota'.grant => x = p.proven
  OBVIOUS
<1> HIDE DEF x
<1>3. /\ IsPin(Standing(p))
      /\ Standing(p).step = p.step
      /\ Standing(p).erased = p.erased
      /\ Standing(p).proven = x
  BY <1>1 DEF IsPin, PinFields
<1> QED
  BY <1>2, <1>3

\* A handler of the dialogue that opens nothing the PIN entry p does not prove.
LEMMA StandingKept ==
  ASSUME PanelInv, UNCHANGED tour, Calm(ui, ui'), IsOta(ota'), UNCHANGED wifi,
         NEW p, IsPin(p), pin.proven \subseteq p.proven, p.erased = pin.erased,
         pin' = Standing(p),
         ui'.job = "OTA_AUTH" => p.step = "VERIFY",
         ota'.confirm \/ ota'.grant
           => ~tour.secured \/ ota.confirm \/ ota.grant \/ "OTA" \in p.proven,
         ota.service = "NONE" /\ ota'.service # "NONE" => ota.confirm,
         ota'.applied = ota.applied
  PROVE  Kept
<1>1. IsUi(ui) /\ IsPin(pin) /\ IsWifi(wifi)
  BY InvShapes
<1>2. Shapes'
  BY <1>1, StandingShape DEF Shapes, Calm
<1>3. ui'.phase = "CONFIRM" => ui'.action \in pin'.proven
  <2>1. SUFFICES ASSUME ui'.phase = "CONFIRM" PROVE ui'.action \in pin'.proven
    OBVIOUS
  <2>2. ui.phase = "CONFIRM" /\ ui'.action = ui.action
    BY <2>1 DEF Calm
  <2>3. ui.action \in p.proven /\ ui.action # "OTA"
    BY <1>1, <2>2 DEF PanelInv, Proofs, IsUi, Erasures
  <2> QED
    BY <2>2, <2>3, StandingShape
<1>4. ota'.confirm \/ ota'.grant => ~tour'.secured \/ "OTA" \in pin'.proven
  <2>1. SUFFICES ASSUME ota'.confirm \/ ota'.grant
                 PROVE  ~tour'.secured \/ "OTA" \in pin'.proven
    OBVIOUS
  <2>2. ~tour.secured \/ ota.confirm \/ ota.grant \/ "OTA" \in p.proven
    BY <2>1
  <2>3. pin'.proven = p.proven
    BY <2>1, StandingShape
  <2> QED
    BY <2>2, <2>3 DEF PanelInv, Proofs
<1>5. ui'.job = "OTA_AUTH" => pin'.step = "VERIFY"
  BY StandingShape
<1>6. Proofs'
  BY <1>3, <1>4, <1>5 DEF PanelInv, Proofs
<1>7. ErasureProven
  BY StandingShape DEF ErasureProven
<1>8. InstallProven
  BY DEF InstallProven, PanelInv, Proofs
<1> QED
  BY <1>2, <1>6, <1>7, <1>8 DEF Kept, PanelInv

LEMMA Mildly ==
  ASSUME PanelInv, UNCHANGED tour, Calm(ui, ui'), Mild(ota, ota'), OtaOnly
  PROVE  Kept
<1>1. IsPin(pin) /\ (ui'.job = "OTA_AUTH" => pin.step = "VERIFY")
  BY InvShapes DEF PanelInv, Proofs, Calm
<1> QED
  BY <1>1, StandingKept DEF OtaOnly, Mild

LEMMA OnlyKept ==
  ASSUME PanelInv, UNCHANGED tour, NEW u, Calm(ui, u), Only(u)
  PROVE  Kept
BY Calmly, InvShapes DEF Only, ScreenOnly

LEMMA NothingKept ==
  ASSUME PanelInv, UNCHANGED tour, Nothing
  PROVE  Kept
BY Calmly, InvShapes, CalmStays DEF Nothing

LEMMA SimplyKept ==
  ASSUME PanelInv, UNCHANGED tour, NEW u, NEW o, Calm(ui, u), Mild(ota, o), Simply(Both(u, o))
  PROVE  Kept
BY Mildly DEF Simply, Becomes, Both

-----------------------------------------------------------------------------
(* The Wi-Fi menus *)

LEMMA CalmSync == ASSUME NEW u, IsUi(u) PROVE Calm(u, Sync(u))
BY CalmRows, CalmStays DEF Sync

LEMMA LinkedSet ==
  ASSUME NEW w, Linked(w), NEW s
  PROVE  /\ Linked([w EXCEPT !.op = s])
         /\ Linked([w EXCEPT !.scan = s])
         /\ Linked([w EXCEPT !.worker = s])
         /\ Linked([w EXCEPT !.editing = s])
         /\ Linked([w EXCEPT !.forget = s])
         /\ Linked([w EXCEPT !.leave = s])
         /\ Linked([w EXCEPT !.linked = FALSE])
         /\ Linked(Done(w))
         /\ Linked(Cancelled(w))
<1>1. ASSUME NEW x PROVE Linked([w EXCEPT !.op = x]) /\ Linked([w EXCEPT !.scan = x])
  BY DEF Linked, IsWifi, WifiFields
<1>2. Linked([w EXCEPT !.worker = s]) /\ Linked([w EXCEPT !.editing = s])
  BY DEF Linked, IsWifi, WifiFields
<1>3. Linked([w EXCEPT !.forget = s]) /\ Linked([w EXCEPT !.leave = s])
  BY DEF Linked, IsWifi, WifiFields
<1>4. Linked([w EXCEPT !.linked = FALSE])
  BY DEF Linked, IsWifi, WifiFields
<1> QED
  BY <1>1, <1>2, <1>3, <1>4 DEF Done, Cancelled

\* A Wi-Fi handler, given what it makes of the screen and of the operation.
LEMMA WifiKept ==
  ASSUME PanelInv, UNCHANGED tour, Calm(ui, ui'), Linked(wifi'), WifiOnly
  PROVE  Kept
BY Calmly DEF WifiOnly

LEMMA NoticeKept ==
  ASSUME PanelInv, NEW u, Calm(ui, u), NEW to, ui' = Notice(u, to)
  PROVE  Calm(ui, ui')
BY CalmNotice, CalmIsUi, CalmAgain

LEMMA WarnOnlyKept ==
  ASSUME PanelInv, UNCHANGED tour, WarnOnly
  PROVE  Kept
BY WifiKept, InvShapes, CalmNotice DEF WarnOnly, Warn

LEMMA AdmitCalm ==
  ASSUME PanelInv, NEW u, Calm(ui, u), NEW work, Admit(u, work)
  PROVE  Calm(ui, ui') /\ Linked(wifi')
<1>1. Calm(ui, ui')
  BY NoticeKept DEF Admit
<1>2. ASSUME NEW x PROVE Linked([wifi EXCEPT !.worker = work, !.op = x])
  BY InvShapes DEF Linked, IsWifi, WifiFields
<1>3. Linked(wifi')
  BY <1>2, InvShapes DEF Admit
<1> QED
  BY <1>1, <1>3

LEMMA ToggleEndsKept ==
  ASSUME PanelInv, UNCHANGED tour, ToggleEnds
  PROVE  Kept
<1>1. IsUi(ui) /\ Linked(wifi)
  BY InvShapes
<1>2. Calm(ui, Sync(ui))
  BY <1>1, CalmSync
<1>3. ASSUME NEW to PROVE Calm(ui, Notice(Sync(ui), to))
  BY <1>2, CalmNotice, CalmIsUi, CalmAgain
<1>4. Calm(ui, ui')
  BY <1>2, <1>3 DEF ToggleEnds
<1>5. Linked([Done(wifi) EXCEPT !.worker = "NONE"])
  BY <1>1, LinkedSet
<1>6. ASSUME wifi' = [Done(wifi) EXCEPT !.worker = "NONE", !.on = (wifi.worker = "ON"),
                                        !.linked = @ /\ wifi.worker = "ON"]
      PROVE  Linked(wifi')
  <2>1. Linked(Done(wifi))
    BY <1>1, LinkedSet
  <2> DEFINE d == Done(wifi)
             on == wifi.worker = "ON"
             linked == d.linked /\ wifi.worker = "ON"
  <2>2. linked => on
    OBVIOUS
  <2>3. wifi' = [d EXCEPT !.worker = "NONE", !.on = on, !.linked = linked]
    BY <1>6
  <2> HIDE DEF d, on, linked
  <2>4. wifi'.linked = linked /\ wifi'.on = on /\ IsWifi(wifi')
    BY <2>1, <2>3 DEF d, Linked, IsWifi, WifiFields
  <2> QED
    BY <2>2, <2>4 DEF Linked
<1>7. Linked(wifi')
  BY <1>5, <1>6 DEF ToggleEnds
<1> QED
  BY <1>4, <1>7, WifiKept DEF ToggleEnds

LEMMA ModeKept ==
  ASSUME PanelInv, UNCHANGED tour, ModeEnds \/ ModeRow
  PROVE  Kept
<1>1. IsUi(ui) /\ Linked(wifi)
  BY InvShapes
<1>2. /\ Calm(ui, ShowMenu(ui, "WIFI_SETTINGS")) /\ Calm(ui, Rows(ui))
      /\ Calm(ui, Notice(ui, "AUTO"))
  BY <1>1, CalmShowMenu, CalmRows, CalmNotice
<1>3. ASSUME NEW m, NEW x
      PROVE  /\ Linked([wifi EXCEPT !.worker = "NONE", !.mode = m, !.linked = FALSE])
             /\ Linked([wifi EXCEPT !.editing = FALSE, !.worker = x])
  BY <1>1 DEF Linked, IsWifi, WifiFields
<1>4. CASE ModeEnds
  <2>1. Calm(ui, ui')
    BY <1>2, <1>4 DEF ModeEnds, Warn
  <2>2. Linked([wifi EXCEPT !.worker = "NONE"])
    BY <1>1, LinkedSet
  <2>3. Linked(wifi')
    BY <1>3, <1>4, <2>2 DEF ModeEnds
  <2> QED
    BY <1>4, <2>1, <2>3, WifiKept DEF ModeEnds
<1>5. CASE ModeRow
  <2>1. Calm(ui, ui')
    BY <1>2, <1>5 DEF ModeRow, Warn
  <2>2. Linked([wifi EXCEPT !.editing = TRUE])
    BY <1>1, LinkedSet
  <2>3. wifi.editing /\ wifi' = [wifi EXCEPT !.editing = FALSE,
                                            !.worker = IF @ = "NONE" THEN "MODE" ELSE @]
        => Linked(wifi')
    BY <1>1, <1>3
  <2>4. Linked(wifi')
    BY <1>5, <2>2, <2>3 DEF ModeRow
  <2> QED
    BY <1>5, <2>1, <2>4, WifiKept DEF ModeRow
<1> QED
  BY <1>4, <1>5

LEMMA ScanKept ==
  ASSUME PanelInv, UNCHANGED tour, Scan \/ ScanEnds
  PROVE  Kept
<1>1. IsUi(ui) /\ Linked(wifi) /\ Calm(ui, ui)
  BY InvShapes, CalmStays
<1>2. ASSUME NEW v PROVE Calm(ui, ShowView(ui, "WIFI_SCAN", v)) /\ Calm(ui, [ui EXCEPT !.view = v])
  BY <1>1, CalmShow, CalmSet
<1>3. CASE Scan
  <2>1. CASE WarnOnly
    BY <2>1, WarnOnlyKept
  <2>2. CASE ~WarnOnly
    <3>1. Linked([wifi EXCEPT !.scan = "RUNNING"])
      BY <1>1, LinkedSet
    <3>2. Calm(ui, ui') /\ Linked(wifi') /\ WifiOnly
      BY <1>1, <1>2, <1>3, <2>2, <3>1 DEF Scan, Stays
    <3> QED
      BY <3>2, WifiKept
  <2> QED
    BY <2>1, <2>2
<1>4. CASE ScanEnds
  <2>1. Calm(ui, ui')
    BY <1>1, <1>2, <1>4 DEF ScanEnds, Stays
  <2> QED
    BY <1>1, <1>4, <2>1, LinkedSet, WifiKept DEF ScanEnds
<1> QED
  BY <1>3, <1>4

LEMMA ConnectNetworkKept ==
  ASSUME PanelInv, UNCHANGED tour, ConnectNetwork
  PROVE  Kept
<1>1. IsUi(ui) /\ Linked(wifi) /\ Calm(ui, ui)
  BY InvShapes, CalmStays
<1>2. CASE WarnOnly
  BY <1>2, WarnOnlyKept
<1>3. CASE ~WarnOnly
  <2>1. Calm(ui, ui')
    BY <1>1, <1>3, CalmShowMenu, CalmShow DEF ConnectNetwork, Stays
  <2>2. Linked(wifi')
    BY <1>1, <1>3, LinkedSet DEF ConnectNetwork, Begins
  <2> QED
    BY <1>3, <2>1, <2>2, WifiKept DEF ConnectNetwork
<1> QED
  BY <1>2, <1>3

LEMMA ConnectKept ==
  ASSUME PanelInv, UNCHANGED tour,
         ConnectSelected \/ SubmitPassword \/ Reconnect \/ ConfirmDisconnect
  PROVE  Kept
<1>1. IsUi(ui) /\ Linked(wifi) /\ Calm(ui, ui)
  BY InvShapes, CalmStays
<1>2. CASE ConnectSelected
  BY <1>1, <1>2, ConnectNetworkKept, CalmShow, WifiKept DEF ConnectSelected
<1>3. CASE SubmitPassword
  BY <1>3, ConnectNetworkKept, WarnOnlyKept DEF SubmitPassword
<1>4. CASE Reconnect
  <2>1. Linked(Begins("CONNECT")) /\ Linked(Done(wifi))
    BY <1>1, LinkedSet DEF Begins
  <2> QED
    BY <1>1, <1>4, <2>1, CalmSync, WarnOnlyKept, WifiKept DEF Reconnect, Stays
<1>5. CASE ConfirmDisconnect
  <2>1. Linked(Begins("DISCONNECT")) /\ Linked(Done(wifi))
    BY <1>1, LinkedSet DEF Begins
  <2>2. /\ Linked([Begins("DISCONNECT") EXCEPT !.leave = FALSE])
        /\ Linked([Done(wifi) EXCEPT !.leave = FALSE])
    BY <2>1, LinkedSet
  <2> QED
    BY <1>1, <1>5, <2>2, CalmShowMenu, WifiKept DEF ConfirmDisconnect
<1> QED
  BY <1>2, <1>3, <1>4, <1>5

LEMMA LinkKept ==
  ASSUME PanelInv, UNCHANGED tour, LinkUp \/ LinkDown
  PROVE  Kept
<1>1. IsUi(ui) /\ Linked(wifi) /\ Calm(ui, ui)
  BY InvShapes, CalmStays
<1>2. CASE LinkUp
  <2>1. Linked([wifi EXCEPT !.linked = TRUE])
    BY <1>1, <1>2 DEF LinkUp, Linked, IsWifi, WifiFields
  <2> QED
    BY <1>1, <1>2, <2>1, WifiKept DEF LinkUp, Stays
<1>3. CASE LinkDown
  BY <1>1, <1>3, LinkedSet, WifiKept DEF LinkDown, Stays
<1> QED
  BY <1>2, <1>3

LEMMA ConcludedCalm ==
  ASSUME PanelInv, Concluded
  PROVE  Calm(ui, ui') /\ Linked(wifi')
<1>1. IsUi(ui) /\ Linked(wifi) /\ Linked(Done(wifi))
  BY InvShapes, LinkedSet
<1>2. Calm(ui, [ui EXCEPT !.view = "CONNECTED"]) /\ Calm(ui, Sync(ui))
  BY <1>1, CalmSync, CalmSet
<1> QED
  BY <1>1, <1>2 DEF Concluded, Reported

LEMMA OperationKept ==
  ASSUME PanelInv, UNCHANGED tour, OperationEnds \/ ConnectFails \/ OperationTimesOut
  PROVE  Kept
<1>1. IsUi(ui) /\ Linked(wifi) /\ Linked(Done(wifi))
  BY InvShapes, LinkedSet
<1>2. CASE OperationEnds
  BY <1>2, ConcludedCalm, WifiKept DEF OperationEnds
<1>3. CASE ConnectFails
  BY <1>1, <1>3, CalmShow, WifiKept DEF ConnectFails
<1>4. CASE OperationTimesOut
  BY <1>1, <1>4, ConcludedCalm, CalmNotice, WifiKept DEF OperationTimesOut
<1> QED
  BY <1>2, <1>3, <1>4

LEMMA WifiViewKept ==
  ASSUME PanelInv, UNCHANGED tour, ViewLapses \/ ShowClients \/ AskDelete \/ AnswerDelete
  PROVE  Kept
<1>1. IsUi(ui) /\ Linked(wifi)
  BY InvShapes
<1>2. ASSUME NEW x, Calm(ui, [ui EXCEPT !.delete = x]) 
      PROVE  /\ Calm(ui, Show([ui EXCEPT !.delete = x], "MENU"))
             /\ Calm(ui, Notice([ui EXCEPT !.delete = x], "AUTO"))
             /\ \A some : Calm(ui, ShowView([ui EXCEPT !.delete = x], "WIFI_CLIENTS", some))
  BY <1>2, CalmShow, CalmNotice, CalmIsUi, CalmAgain
<1>3. ASSUME NEW x PROVE Calm(ui, [ui EXCEPT !.delete = x])
  BY <1>1 DEF Calm, IsUi, UiFields
<1>4. CASE ViewLapses
  BY <1>1, <1>4, CalmShow, WifiKept DEF ViewLapses
<1>5. CASE ShowClients
  BY <1>1, <1>5, CalmShow, WarnOnlyKept, WifiKept DEF ShowClients
<1>6. CASE AskDelete
  BY <1>1, <1>2, <1>3, <1>6, WifiKept DEF AskDelete
<1>7. CASE AnswerDelete
  BY <1>1, <1>2, <1>3, <1>7, WifiKept DEF AnswerDelete
<1> QED
  BY <1>4, <1>5, <1>6, <1>7

LEMMA SavedKept ==
  ASSUME PanelInv, UNCHANGED tour, RequestForget \/ ConfirmForget \/ ToggleDhcp
  PROVE  Kept
<1>1. IsUi(ui) /\ Linked(wifi)
  BY InvShapes
<1>2. CASE RequestForget
  <2>1. Linked([wifi EXCEPT !.forget = TRUE]) /\ Calm(ui, Show(ui, "CONFIRM"))
    BY <1>1, LinkedSet, CalmShow
  <2> QED
    BY <1>2, <2>1, WarnOnlyKept, WifiKept DEF RequestForget
<1>3. CASE ConfirmForget
  <2>1. Linked([wifi EXCEPT !.forget = FALSE, !.linked = FALSE])
    BY <1>1 DEF Linked, IsWifi, WifiFields
  <2>2. Linked([wifi EXCEPT !.forget = FALSE]) /\ Calm(ui, Notice(ui, "AUTO"))
    BY <1>1, LinkedSet, CalmNotice
  <2> QED
    BY <1>3, <2>1, <2>2, WifiKept DEF ConfirmForget, Warn
<1>4. CASE ToggleDhcp
  <2>1. Calm(ui, Rows(Notice(ui, "AUTO")))
    BY <1>1, CalmNotice, CalmRows, CalmIsUi, CalmAgain
  <2> QED
    BY <1>1, <1>4, <2>1, WifiKept DEF ToggleDhcp
<1> QED
  BY <1>2, <1>3, <1>4

LEMMA WifiMenuRowKept ==
  ASSUME PanelInv, UNCHANGED tour, WifiMenuRow
  PROVE  Kept
<1>1. IsUi(ui) /\ Linked(wifi)
  BY InvShapes
<1>2. CASE Toggle(Rows(ui)) /\ Quietly /\ WifiOnly
  BY <1>1, <1>2, CalmRows, AdmitCalm, WifiKept DEF Toggle
<1>3. CASE ui' = Show(ui, "WIFI_STATUS") /\ UNCHANGED wifi /\ Quietly /\ WifiOnly
  BY <1>1, <1>3, CalmShow, WifiKept
<1>4. CASE ConnectRow
  <2>1. CASE WifiBusy /\ UNCHANGED <<ui, wifi>> /\ Quietly /\ WifiOnly
    BY <1>1, <2>1, CalmStays, WifiKept
  <2>2. CASE ~WifiBusy /\ wifi.linked /\ wifi' = [wifi EXCEPT !.leave = TRUE]
             /\ ui' = Show(ui, "CONFIRM") /\ Quietly /\ WifiOnly
    BY <1>1, <2>2, LinkedSet, CalmShow, WifiKept
  <2>3. CASE Reconnect
    BY <2>3, ConnectKept
  <2> QED
    BY <1>4, <2>1, <2>2, <2>3 DEF ConnectRow
<1>5. CASE Scan
  BY <1>5, ScanKept
<1>6. CASE ShowClients
  BY <1>6, WifiViewKept
<1>7. CASE /\ ui' = Open(Push(ui, "WIFI_CONFIG"), "WIFI_SETTINGS")
           /\ UNCHANGED wifi /\ Quietly /\ WifiOnly
  <2>1. Calm(ui, Open(Push(ui, "WIFI_CONFIG"), "WIFI_SETTINGS"))
    BY <1>1, CalmPush, CalmOpen, CalmIsUi, CalmAgain
  <2> QED
    BY <1>1, <1>7, <2>1, WifiKept
<1> QED
  BY <1>2, <1>3, <1>4, <1>5, <1>6, <1>7 DEF WifiMenuRow

LEMMA WifiSettingsRowKept ==
  ASSUME PanelInv, UNCHANGED tour, WifiSettingsRow
  PROVE  Kept
BY ModeKept, SavedKept, WifiViewKept DEF WifiSettingsRow

-----------------------------------------------------------------------------
(* The PIN *)

\* q follows p without a proof or an erasure coming up
Keeps(p, q) == IsPin(q) /\ q.proven = p.proven /\ q.erased = p.erased

LEMMA KeepsShapes ==
  ASSUME NEW p, IsPin(p)
  PROVE  /\ \A scope, right :
              Keeps(p, Judged(p, scope, right)) /\ Judged(p, scope, right).step = p.step
         /\ \A q \in SetPin(p) : Keeps(p, q)
         /\ \A job : Keeps(p, Start(p, job))
         /\ \A s :
              Keeps(p, [p EXCEPT !.step = s, !.digit = 0]) /\ [p EXCEPT !.step = s, !.digit = 0].step = s
         /\ \A s : Keeps(p, [p EXCEPT !.step = s]) /\ [p EXCEPT !.step = s].step = s
         /\ \A n : Keeps(p, [p EXCEPT !.digit = n]) /\ [p EXCEPT !.digit = n].step = p.step
<1>1. ASSUME NEW t PROVE Keeps(p, [p EXCEPT !.tries = t]) /\ [p EXCEPT !.tries = t].step = p.step
  BY DEF Keeps, IsPin, PinFields
<1>2. ASSUME NEW scope, NEW right
      PROVE  Keeps(p, Judged(p, scope, right)) /\ Judged(p, scope, right).step = p.step
  BY <1>1 DEF Judged
<1>3. ASSUME NEW q \in SetPin(p) PROVE Keeps(p, q)
  BY DEF SetPin, Keeps, IsPin, PinFields
<1>4. ASSUME NEW s
      PROVE  /\ Keeps(p, [p EXCEPT !.step = s, !.digit = 0])
             /\ [p EXCEPT !.step = s, !.digit = 0].step = s
  BY DEF Keeps, IsPin, PinFields
<1>5. ASSUME NEW job PROVE Keeps(p, Start(p, job))
  <2>1. ASSUME NEW s PROVE Keeps(p, [p EXCEPT !.digit = 0, !.step = s])
    BY DEF Keeps, IsPin, PinFields
  <2> QED
    BY <2>1 DEF Start
<1>6. ASSUME NEW s PROVE Keeps(p, [p EXCEPT !.step = s]) /\ [p EXCEPT !.step = s].step = s
  BY DEF Keeps, IsPin, PinFields
<1>7. ASSUME NEW n PROVE Keeps(p, [p EXCEPT !.digit = n]) /\ [p EXCEPT !.digit = n].step = p.step
  BY DEF Keeps, IsPin, PinFields
<1> QED
  BY <1>2, <1>3, <1>4, <1>5, <1>6, <1>7

\* A handler of the PIN that proves and erases nothing.
LEMMA PinKept ==
  ASSUME PanelInv, UNCHANGED tour, Calm(ui, ui'), Keeps(pin, pin'), PinOnly,
         pin'.step = pin.step \/ ui'.job # "OTA_AUTH"
  PROVE  Kept
<1>1. Shapes'
  BY DEF PanelInv, Shapes, Calm, Keeps, PinOnly
<1>2. Proofs'
  BY DEF PanelInv, Proofs, Calm, Keeps, PinOnly
<1> QED
  BY <1>1, <1>2 DEF Kept, PanelInv, ErasureProven, InstallProven, Keeps, PinOnly

LEMMA LockoutEndsKept ==
  ASSUME PanelInv, UNCHANGED tour, NEW scope, LockoutEnds(scope)
  PROVE  Kept
<1>1. IsUi(ui) /\ IsPin(pin)
  BY InvShapes
<1>2. Calm(ui, [ui EXCEPT !.entered = 0]) /\ Calm(ui, ui)
  BY <1>1 DEF Calm, IsUi, UiFields
<1>3. Keeps(pin, pin') /\ pin'.step = pin.step
  BY <1>1 DEF LockoutEnds, Keeps, IsPin, PinFields
<1> QED
  BY <1>2, <1>3, PinKept DEF LockoutEnds

\* The right PIN proves the erasure that was chosen, and no other.
LEMMA EnterFactoryPinKept ==
  ASSUME PanelInv, UNCHANGED tour, NEW button, EnterFactoryPin(button)
  PROVE  Kept
<1>1. IsUi(ui) /\ IsPin(pin)
  BY InvShapes
<1>2. PICK r \in FactoryStep(button) : ui' = r.ui /\ pin' = r.pin /\ PinOnly
  BY DEF EnterFactoryPin, Took
<1>3. ASSUME NEW n PROVE Calm(ui, [ui EXCEPT !.entered = n])
  BY <1>1 DEF Calm, IsUi, UiFields
<1>4. CASE r = Result(ui, pin, FALSE, FALSE)
  BY <1>1, <1>2, <1>4, CalmStays, PinKept DEF Result, Keeps
<1>5. CASE r = Result([ui EXCEPT !.entered = Digit(button, @)], pin, FALSE, FALSE)
  BY <1>1, <1>2, <1>3, <1>5, PinKept DEF Result, Keeps
<1> DEFINE p(right) == Judged(pin, "FACTORY", right)
<1>6. CASE r = Result([ui EXCEPT !.phase = "CONFIRM"],
                      [p(TRUE) EXCEPT !.proven = @ \cup {ui.action}], FALSE, FALSE)
  <2>1. Keeps(pin, p(TRUE)) /\ p(TRUE).step = pin.step
    BY <1>1 DEF Judged, Keeps, IsPin, PinFields
  <2>2. /\ ui' = [ui EXCEPT !.phase = "CONFIRM"]
        /\ pin' = [p(TRUE) EXCEPT !.proven = @ \cup {ui.action}]
    BY <1>2, <1>6 DEF Result
  <2> HIDE DEF p
  <2>3. /\ IsUi(ui') /\ ui'.action = ui.action /\ ui'.job = ui.job
    BY <1>1, <2>2 DEF IsUi, UiFields
  <2>4. /\ IsPin(pin') /\ pin'.proven = pin.proven \cup {ui.action}
        /\ pin'.erased = pin.erased /\ pin'.step = pin.step
    BY <2>1, <2>2 DEF Keeps, IsPin, PinFields
  <2>5. Shapes' /\ Proofs'
    BY <1>2, <2>3, <2>4 DEF PanelInv, Shapes, Proofs, PinOnly
  <2> QED
    BY <1>2, <2>4, <2>5 DEF Kept, PanelInv, ErasureProven, InstallProven, PinOnly
<1>7. CASE r = Result(Notice([ui EXCEPT !.entered =
                                IF p(FALSE).tries["FACTORY"] = MaxAttempts THEN @ ELSE 0], "AUTO"),
                      p(FALSE), FALSE, TRUE)
  <2>1. Keeps(pin, p(FALSE)) /\ p(FALSE).step = pin.step
    BY <1>1 DEF Judged, Keeps, IsPin, PinFields
  <2>2. Calm(ui, ui')
    BY <1>2, <1>3, <1>7, CalmNotice, CalmIsUi, CalmAgain DEF Result
  <2> QED
    BY <1>2, <1>7, <2>1, <2>2, PinKept DEF Result
<1>8. ASSUME NEW right \in Entries("FACTORY"),
             r = IF right
                 THEN Result([ui EXCEPT !.phase = "CONFIRM"],
                             [p(right) EXCEPT !.proven = @ \cup {ui.action}], FALSE, FALSE)
                 ELSE Result(Notice([ui EXCEPT !.entered =
                                IF p(right).tries["FACTORY"] = MaxAttempts THEN @ ELSE 0], "AUTO"),
                             p(right), FALSE, TRUE)
      PROVE  Kept
  <2>1. right = TRUE \/ right = FALSE
    BY DEF Entries
  <2> QED
    BY <1>6, <1>7, <1>8, <2>1
<1> QED
  BY <1>2, <1>4, <1>5, <1>8 DEF FactoryStep

LEMMA ErasureKept ==
  ASSUME PanelInv, UNCHANGED tour, NEW what, pin' = Erased(pin, what), Calm(ui, ui'), PinOnly,
         \/ what \in pin.proven
         \/ what = "BY_POWER" /\ ui.seq # "NONE" /\ ui.menu = "FACTORY_RESET"
  PROVE  Kept
<1>1. IsPin(pin)
  BY InvShapes
<1>2. ASSUME NEW k
      PROVE  /\ IsPin([pin EXCEPT !.erased = what, !.kept = k])
             /\ [pin EXCEPT !.erased = what, !.kept = k].proven = pin.proven
             /\ [pin EXCEPT !.erased = what, !.kept = k].step = pin.step
             /\ [pin EXCEPT !.erased = what, !.kept = k].erased = what
  BY <1>1 DEF IsPin, PinFields
<1>3. IsPin(pin') /\ pin'.proven = pin.proven /\ pin'.step = pin.step /\ pin'.erased = what
  BY <1>2 DEF Erased
<1>4. Shapes' /\ Proofs'
  BY <1>3 DEF PanelInv, Shapes, Proofs, Calm, PinOnly
<1> QED
  BY <1>3, <1>4 DEF Kept, PanelInv, ErasureProven, InstallProven, PinOnly

LEMMA CalmFactoryReset == ASSUME NEW u, IsUi(u) PROVE Calm(u, FactoryReset(u))
BY DEF FactoryReset, Calm, IsUi, UiFields

LEMMA ConfirmErasureKept ==
  ASSUME PanelInv, UNCHANGED tour, ui.phase = "CONFIRM", ConfirmErasure
  PROVE  Kept
<1>1. IsUi(ui) /\ ui.action \in pin.proven
  BY InvShapes DEF PanelInv, Proofs
<1>2. ASSUME NEW u, Calm(ui, u) PROVE Calm(ui, Home(CancelFactory(u)))
  <2>1. IsUi(u) /\ Calm(u, CancelFactory(u)) /\ IsUi(CancelFactory(u))
    BY <1>2, CalmExits, CalmIsUi
  <2>2. Calm(u, Home(CancelFactory(u)))
    BY <2>1, CalmHome, CalmAgain
  <2> QED
    BY <1>2, <2>2, CalmAgain
<1>3. ASSUME NEW s PROVE Calm(ui, [ui EXCEPT !.seq = s])
  BY <1>1, CalmSet
<1>4. Calm(ui, Restart(ui)) /\ Calm(ui, FactoryReset(ui))
  BY <1>1, CalmRestart, CalmFactoryReset
<1>5. Calm(ui, ui')
  <2>1. CASE ui.action # "RESET_ALL"
    BY <1>2, <1>3, <2>1 DEF ConfirmErasure
  <2>2. CASE ui.action = "RESET_ALL"
    BY <1>2, <1>4, <2>2 DEF ConfirmErasure
  <2> QED
    BY <2>1, <2>2
<1> QED
  BY <1>1, <1>5, ErasureKept DEF ConfirmErasure

LEMMA EraseByPowerKept ==
  ASSUME PanelInv, UNCHANGED tour, ui.menu = "FACTORY_RESET", ui.seq # "NONE", EraseByPower
  PROVE  Kept
<1>1. IsUi(ui) /\ Calm(ui, Restart(ui))
  BY InvShapes, CalmRestart
<1> DEFINE u == Forget(FactoryReset(ui))
           v == [u EXCEPT !.menu = "NONE", !.phase = "DONE"]
<1>2. Calm(ui, u) /\ IsUi(u)
  BY <1>1, CalmFactoryReset, CalmForget, CalmIsUi, CalmAgain
<1>3. ui' \in {Restart(ui), Show(v, "FACTORY")}
  BY DEF EraseByPower
<1> HIDE DEF u
<1>4. Calm(u, v) /\ IsUi(v)
  BY <1>2 DEF Calm, IsUi, UiFields
<1> HIDE DEF v
<1>5. Calm(ui, Show(v, "FACTORY"))
  BY <1>2, <1>4, CalmShow, CalmAgain
<1>6. Calm(ui, ui')
  BY <1>1, <1>3, <1>5
<1> QED
  BY <1>6, ErasureKept DEF EraseByPower

LEMMA SecurityRowKept ==
  ASSUME PanelInv, UNCHANGED tour, SecurityRow
  PROVE  Kept
<1>1. IsUi(ui) /\ IsPin(pin)
  BY InvShapes
<1>2. ASSUME NEW job \in {"CHANGE_PIN", "RESET_PIN"}, pin' = Start(pin, job), PinOnly,
             ui' = LET u == [ui EXCEPT !.job = job, !.flow = "PIN"]
                   IN IF job = "CHANGE_PIN" /\ pin.force THEN Notice(u, "AUTO") ELSE u
      PROVE  Kept
  <2> DEFINE u == [ui EXCEPT !.job = job, !.flow = "PIN"]
  <2>1. Calm(ui, u) /\ IsUi(u) /\ u.job # "OTA_AUTH"
    BY <1>1 DEF Calm, IsUi, UiFields
  <2>2. ui' = IF job = "CHANGE_PIN" /\ pin.force THEN Notice(u, "AUTO") ELSE u
    BY <1>2
  <2> HIDE DEF u
  <2>3. Calm(u, ui')
    BY <2>1, <2>2, CalmNotice, CalmStays
  <2>4. Calm(ui, ui') /\ ui'.job # "OTA_AUTH"
    BY <2>1, <2>3, CalmAgain DEF Calm
  <2> QED
    BY <1>1, <1>2, <2>4, KeepsShapes, PinKept
<1>3. ASSUME ui' = [ui EXCEPT !.job = "VIEW", !.flow = "VIEW"], ScreenOnly PROVE Kept
  <2>1. Calm(ui, ui')
    BY <1>1, <1>3 DEF Calm, IsUi, UiFields
  <2> QED
    BY <1>3, <2>1, Calmly, InvShapes DEF ScreenOnly
<1> QED
  BY <1>2, <1>3 DEF SecurityRow

LEMMA CloseStatusKept ==
  ASSUME PanelInv, UNCHANGED tour, CloseStatus
  PROVE  Kept
<1>1. Calm(ui, ui')
  BY InvShapes DEF CloseStatus, Calm, IsUi, UiFields
<1> QED
  BY <1>1, Calmly, InvShapes DEF CloseStatus, ScreenOnly

\* Choosing an erasure takes back every proof for one, and leaves the confirmation.
LEMMA FactoryRowKept ==
  ASSUME PanelInv, UNCHANGED tour, FactoryRow
  PROVE  Kept
<1>1. IsUi(ui) /\ IsPin(pin)
  BY InvShapes
<1>2. ASSUME ui' = GoMain(CancelFactory(ui)), ScreenOnly PROVE Kept
  <2>1. Calm(ui, ui')
    BY <1>1, <1>2, CalmExits, CalmShow, CalmIsUi, CalmAgain
  <2> QED
    BY <1>2, <2>1, Calmly, InvShapes DEF ScreenOnly
<1>3. ASSUME NEW erasure \in Erasures, ui' = Begin(ui, erasure), pin' = Chosen(pin), PinOnly
      PROVE  Kept
  <2> DEFINE u == [ui EXCEPT !.action = erasure, !.entered = 0, !.phase = "PIN_ENTRY"]
  <2>1. Calm(ui, u) /\ IsUi(u) /\ u.phase # "CONFIRM"
    BY <1>1 DEF Calm, IsUi, UiFields
  <2>2. ui' = Show(u, "FACTORY_RESET")
    BY <1>3 DEF Begin
  <2> HIDE DEF u
  <2>3. Calm(u, ui')
    BY <2>1, <2>2, CalmShow
  <2>4. Calm(ui, ui') /\ ui'.phase # "CONFIRM"
    BY <2>1, <2>3, CalmAgain DEF Calm
  <2>5. /\ IsPin(pin') /\ pin'.step = pin.step /\ pin'.erased = "NONE"
        /\ pin'.proven = pin.proven \ Erasures
    BY <1>1, <1>3 DEF Chosen, IsPin, PinFields
  <2>6. Shapes' /\ Proofs'
    BY <1>3, <2>4, <2>5 DEF PanelInv, Shapes, Proofs, Calm, PinOnly, Erasures
  <2> QED
    BY <1>3, <2>5, <2>6 DEF Kept, PanelInv, ErasureProven, InstallProven, PinOnly
<1> QED
  BY <1>2, <1>3 DEF FactoryRow

-----------------------------------------------------------------------------
(* The update dialogue: what its operators make of the screen and of itself *)

\* r, the result of an operation, follows u and o
Tame(u, o, r) == Calm(u, r.ui) /\ Mild(o, r.ota)

LEMMA TameBoth ==
  ASSUME NEW u, NEW v, NEW o, NEW p, Calm(u, v), Mild(o, p)
  PROVE  Tame(u, o, Both(v, p))
BY DEF Tame, Both

LEMMA TameAgain ==
  ASSUME NEW u, NEW v, NEW o, NEW p, NEW r, Calm(u, v), Mild(o, p), Tame(v, p, r)
  PROVE  Tame(u, o, r)
BY CalmAgain, MildAgain DEF Tame

LEMMA MildSet ==
  ASSUME NEW o, IsOta(o), NEW s
  PROVE  /\ Mild(o, [o EXCEPT !.state = s])
         /\ Mild(o, [o EXCEPT !.ask = s])
         /\ Mild(o, [o EXCEPT !.need = s])
         /\ Mild(o, [o EXCEPT !.reminder = s])
         /\ Mild(o, [o EXCEPT !.preflight = s])
         /\ Mild(o, [o EXCEPT !.verified = s])
         /\ Mild(o, [o EXCEPT !.prompt = s])
         /\ Mild(o, [o EXCEPT !.grant = FALSE])
         /\ Mild(o, [o EXCEPT !.confirm = FALSE])
<1>1. Mild(o, [o EXCEPT !.state = s]) /\ Mild(o, [o EXCEPT !.ask = s])
  BY DEF Mild, IsOta, OtaFields
<1>2. Mild(o, [o EXCEPT !.need = s]) /\ Mild(o, [o EXCEPT !.reminder = s])
  BY DEF Mild, IsOta, OtaFields
<1>3. Mild(o, [o EXCEPT !.preflight = s]) /\ Mild(o, [o EXCEPT !.verified = s])
  BY DEF Mild, IsOta, OtaFields
<1>4. Mild(o, [o EXCEPT !.prompt = s]) /\ Mild(o, [o EXCEPT !.grant = FALSE])
  BY DEF Mild, IsOta, OtaFields
<1>5. Mild(o, [o EXCEPT !.confirm = FALSE])
  BY DEF Mild, IsOta, OtaFields
<1> QED
  BY <1>1, <1>2, <1>3, <1>4, <1>5

LEMMA CalmOta ==
  ASSUME NEW u, IsUi(u), NEW o, NEW respectMenu
  PROVE  /\ Calm(u, OtaRows(u))
         /\ \A s : Calm(u, Stage(u, s))
         /\ Calm(u, ShowOta(u, o, respectMenu))
<1>1. Calm(u, OtaRows(u))
  BY CalmOpen DEF OtaRows
<1>2. ASSUME NEW s PROVE Calm(u, Stage(u, s))
  BY CalmShow DEF Stage
<1>3. Calm(u, Notice(OtaRows(u), "MENU"))
  BY <1>1, CalmNotice, CalmIsUi, CalmAgain
<1> QED
  BY <1>1, <1>2, <1>3, CalmStays DEF ShowOta

LEMMA MildOps ==
  ASSUME NEW o, IsOta(o)
  PROVE  /\ Mild(o, Scheduled(o))
         /\ Mild(o, PromptStaged(o))
         /\ Mild(o, DismissCancel(o))
         /\ Mild(o, ClearError(o))
         /\ Mild(o, Deferred(o))
<1>1. Mild(o, PromptStaged(o))
  BY DEF PromptStaged, Mild, IsOta, OtaFields
<1>2. Mild(o, [o EXCEPT !.state = "AVAILABLE", !.avail = TRUE, !.confirm = FALSE])
  BY DEF Mild, IsOta, OtaFields
<1>3. Mild(o, Deferred(o))
  BY <1>2, MildStays DEF Deferred
<1>4. Mild(o, Scheduled(o)) /\ Mild(o, DismissCancel(o)) /\ Mild(o, ClearError(o))
  BY MildSet, MildStays DEF Scheduled, DismissCancel, ClearError
<1> QED
  BY <1>1, <1>3, <1>4

LEMMA TameStatus ==
  ASSUME NEW u, IsUi(u), NEW o, IsOta(o)
  PROVE  Tame(u, o, StatusScreen(u, o))
<1>1. Calm(u, OtaRows(u)) /\ Calm(u, ShowOta(u, o, FALSE))
  BY CalmOta
<1>2. Mild(o, [o EXCEPT !.state = "IDLE", !.avail = FALSE])
  BY DEF Mild, IsOta, OtaFields
<1>3. Mild(o, PromptStaged(o)) /\ Mild(o, Scheduled(PromptStaged(o)))
  BY MildOps, MildIsOta, MildAgain
<1>4. Calm(u, ShowOta(u, PromptStaged(o), FALSE))
  BY CalmOta
<1> QED
  BY <1>1, <1>2, <1>3, <1>4, MildStays, TameBoth DEF StatusScreen

LEMMA TameChecks ==
  ASSUME NEW u, IsUi(u), NEW o, IsOta(o), NEW r \in Checks(u, o)
  PROVE  Tame(u, o, r)
<1>1. /\ Calm(u, u) /\ Calm(u, Notice(u, "MENU")) /\ Calm(u, Show(u, "CONFIRM")) /\ Mild(o, o)
      /\ Mild(o, [o EXCEPT !.need = "ASK_CHECK"]) /\ Mild(o, [o EXCEPT !.state = "ERROR"])
  BY CalmStays, CalmNotice, CalmShow, MildStays, MildSet
<1>2. Mild(o, [o EXCEPT !.state = "CHECKING", !.check = "USER"])
  BY DEF Mild, IsOta, OtaFields
<1>3. ASSUME NEW p PROVE Calm(u, ShowOta(u, p, TRUE))
  BY CalmOta
<1>4. CASE ~wifi.linked
  <2>1. \/ r = Both(Notice(u, "MENU"), o)
        \/ r = Both(Show(u, "CONFIRM"), [o EXCEPT !.need = "ASK_CHECK"])
    BY <1>4 DEF Checks
  <2> QED
    BY <1>1, <2>1, TameBoth
<1>5. CASE wifi.linked /\ (InProgress(o) \/ o.check # "NONE")
  <2>1. r = Both(u, o)
    BY <1>5 DEF Checks
  <2> QED
    BY <1>1, <2>1, TameBoth
<1>6. CASE wifi.linked /\ ~(InProgress(o) \/ o.check # "NONE")
  <2> DEFINE p == [o EXCEPT !.state = "CHECKING", !.check = "USER"]
             q == [o EXCEPT !.state = "ERROR"]
  <2>1. r = Both(ShowOta(u, p, TRUE), p) \/ r = Both(ShowOta(u, q, TRUE), q)
    BY <1>6 DEF Checks
  <2>2. Mild(o, p) /\ Mild(o, q)
    BY <1>1, <1>2
  <2> HIDE DEF p, q
  <2> QED
    BY <1>3, <2>1, <2>2, TameBoth
<1> QED
  BY <1>4, <1>5, <1>6

LEMMA TameNeed ==
  ASSUME NEW u, IsUi(u), NEW o, IsOta(o)
  PROVE  Tame(u, o, CancelNeed(u, o))
BY CalmNotice, MildSet, TameBoth DEF CancelNeed

LEMMA TameCancel ==
  ASSUME NEW u, IsUi(u), NEW o, IsOta(o)
  PROVE  Tame(u, o, AskCancel(u, o)) /\ Tame(u, o, Cancel(u, o))
<1>1. Calm(u, u) /\ Calm(u, Notice(u, "AUTO")) /\ Calm(u, Show(u, "CONFIRM"))
  BY CalmStays, CalmNotice, CalmShow
<1>2. Tame(u, o, AskCancel(u, o))
  BY <1>1, MildSet, MildStays, TameBoth DEF AskCancel
<1>3. ASSUME NEW c, NEW s
      PROVE  /\ Mild(o, [o EXCEPT !.confirm = FALSE, !.ask = FALSE, !.check = c, !.state = s])
             /\ o.service # "NONE" =>
                  Mild(o, [[o EXCEPT !.confirm = FALSE, !.ask = FALSE, !.check = c, !.state = s]
                           EXCEPT !.service = "STOPPING"])
  BY DEF Mild, IsOta, OtaFields
<1> DEFINE checking == o.check # "NONE"
           c == IF checking THEN "CANCELLED" ELSE o.check
           s == IF checking THEN "CANCELLED" ELSE IF o.confirm THEN "AVAILABLE" ELSE o.state
           p == [o EXCEPT !.confirm = FALSE, !.ask = FALSE, !.check = c, !.state = s]
<1>4. Mild(o, p) /\ (o.service # "NONE" => Mild(o, [p EXCEPT !.service = "STOPPING"]))
  BY <1>3
<1>5. Cancel(u, o) =
        IF o.service # "NONE" THEN Both(Stage(u, "CANCELLING"), [p EXCEPT !.service = "STOPPING"])
        ELSE IF o.confirm THEN Both(Notice(u, "AUTO"), p)
        ELSE IF checking THEN Both(Stage(u, "CANCELLED"), p)
        ELSE Both(u, p)
  BY DEF Cancel
<1> HIDE DEF p, c, s, checking
<1>6. Tame(u, o, Cancel(u, o))
  BY <1>1, <1>4, <1>5, CalmOta, TameBoth
<1> QED
  BY <1>2, <1>6

\* Asking for the confirmation opens the prompt, and only where there is a network.
LEMMA RequestsShape ==
  ASSUME NEW u, IsUi(u), NEW o, IsOta(o)
  PROVE  /\ Calm(u, Requests(u, o).ui) /\ IsOta(Requests(u, o).ota)
         /\ Requests(u, o).ota.grant = o.grant
         /\ Requests(u, o).ota.service = o.service
         /\ Requests(u, o).ota.applied = o.applied
         /\ ~wifi.linked /\ ~wifi.on => Mild(o, Requests(u, o).ota)
<1>1. Calm(u, Notice(u, "AUTO")) /\ Calm(u, Show(u, "CONFIRM"))
  BY CalmNotice, CalmShow
<1>2. Mild(o, o) /\ Mild(o, [o EXCEPT !.need = "ASK_INSTALL"])
  BY MildStays, MildSet
<1>3. /\ IsOta([o EXCEPT !.need = "ASK_INSTALL"])
      /\ [o EXCEPT !.need = "ASK_INSTALL"].grant = o.grant
      /\ [o EXCEPT !.need = "ASK_INSTALL"].service = o.service
      /\ [o EXCEPT !.need = "ASK_INSTALL"].applied = o.applied
  BY DEF IsOta, OtaFields
<1>4. /\ IsOta([o EXCEPT !.state = "CONFIRMING", !.confirm = TRUE])
      /\ [o EXCEPT !.state = "CONFIRMING", !.confirm = TRUE].grant = o.grant
      /\ [o EXCEPT !.state = "CONFIRMING", !.confirm = TRUE].service = o.service
      /\ [o EXCEPT !.state = "CONFIRMING", !.confirm = TRUE].applied = o.applied
  BY DEF IsOta, OtaFields
<1>5. CASE ~wifi.linked /\ ~wifi.on
  BY <1>1, <1>2, <1>3, <1>5 DEF Requests, Both
<1>6. CASE ~(~wifi.linked /\ ~wifi.on) /\ o.avail /\ ~InProgress(o)
  BY <1>1, <1>4, <1>6 DEF Requests, Both
<1>7. CASE ~(~wifi.linked /\ ~wifi.on) /\ ~(o.avail /\ ~InProgress(o))
  BY <1>1, <1>2, <1>7 DEF Requests, Both
<1> QED
  BY <1>5, <1>6, <1>7

LEMMA TameExit ==
  ASSUME NEW u, IsUi(u), NEW o, IsOta(o)
  PROVE  Tame(u, o, ExitOta(u, o))
<1> DEFINE forgotten == u.history = <<>> \/ Parent(u) = "NONE"
           m == IF forgotten THEN "MAIN_MENU" ELSE Parent(u)
           h == IF u.history = <<>> THEN u.history ELSE Popped(u)
           v == [u EXCEPT !.menu = m, !.history = h]
           p == [ClearError(o) EXCEPT !.grant = FALSE, !.forApply = FALSE]
<1>1. ExitOta(u, o) = Both(Rows(v), p)
  BY DEF ExitOta
<1>2. Calm(u, v)
  <2> HIDE DEF m, h
  <2> QED
    BY DEF Calm, IsUi, UiFields
<1>3. Mild(ClearError(o), p) /\ Mild(o, ClearError(o))
  <2>1. Mild(o, ClearError(o)) /\ IsOta(ClearError(o))
    BY MildOps, MildIsOta
  <2> DEFINE q == ClearError(o)
  <2>2. IsOta(q)
    BY <2>1
  <2> HIDE DEF q
  <2>3. Mild(q, [q EXCEPT !.grant = FALSE, !.forApply = FALSE])
    BY <2>2 DEF Mild, IsOta, OtaFields
  <2> QED
    BY <2>1, <2>3 DEF q
<1> HIDE DEF v, p
<1>4. Calm(u, Rows(v)) /\ Mild(o, p)
  BY <1>2, <1>3, CalmRows, CalmIsUi, CalmAgain, MildAgain
<1> QED
  BY <1>1, <1>4, TameBoth

-----------------------------------------------------------------------------
(* The update dialogue: its tasks and handlers *)

LEMMA TameKept ==
  ASSUME PanelInv, UNCHANGED tour, NEW r, Tame(ui, ota, r), Becomes(r), OtaOnly
  PROVE  Kept
BY Mildly DEF Tame, Becomes

LEMMA SimplyTame ==
  ASSUME PanelInv, UNCHANGED tour, NEW r, Tame(ui, ota, r), Simply(r)
  PROVE  Kept
BY TameKept DEF Simply

LEMMA CheckKept ==
  ASSUME PanelInv, UNCHANGED tour, AutoCheck \/ CheckEnds
  PROVE  Kept
<1>1. IsUi(ui) /\ IsOta(ota) /\ Calm(ui, ui)
  BY InvShapes, CalmStays
<1>2. CASE AutoCheck
  <2>1. Mild(ota, ota')
    BY <1>1, <1>2 DEF AutoCheck, Mild, IsOta, OtaFields
  <2> QED
    BY <1>1, <1>2, <2>1, Mildly DEF AutoCheck
<1>3. CASE CheckEnds
  <2>1. PICK s : ota' = [ota EXCEPT !.state = s, !.check = "NONE", !.ask = FALSE,
                                    !.avail = s = "AVAILABLE" \/ (@ /\ s # "IDLE")]
    BY <1>3 DEF CheckEnds
  <2>2. Mild(ota, ota')
    BY <1>1, <2>1 DEF Mild, IsOta, OtaFields
  <2>3. Calm(ui, ShowOta(ui, ota', TRUE))
    BY <1>1, CalmOta
  <2>4. ui' = ShowOta(ui, ota', TRUE) \/ ui' = ui
    BY <1>3 DEF CheckEnds
  <2>5. Calm(ui, ui')
    BY <1>1, <2>3, <2>4
  <2> QED
    BY <1>3, <2>2, <2>5, Mildly DEF CheckEnds
<1> QED
  BY <1>2, <1>3

\* The answer to the question for Wi-Fi starts the radio; the dialogue waits.
LEMMA ConfirmNeedKept ==
  ASSUME PanelInv, UNCHANGED tour, ConfirmNeed
  PROVE  Kept
<1>1. IsUi(ui) /\ IsOta(ota) /\ Calm(ui, ui)
  BY InvShapes, CalmStays
<1>2. Calm(ui, ui') /\ Linked(wifi')
  BY <1>1, AdmitCalm DEF ConfirmNeed
<1>3. ASSUME NEW n PROVE LET o == [ota EXCEPT !.need = n]
                         IN IsOta(o) /\ o.confirm = ota.confirm /\ o.grant = ota.grant
                            /\ o.service = ota.service /\ o.applied = ota.applied
  BY <1>1 DEF IsOta, OtaFields
<1>4. /\ IsOta(ota') /\ ota'.confirm = ota.confirm /\ ota'.grant = ota.grant
      /\ ota'.service = ota.service /\ ota'.applied = ota.applied
  BY <1>3 DEF ConfirmNeed
<1>5. Shapes' /\ Proofs'
  BY <1>2, <1>4 DEF ConfirmNeed, PanelInv, Shapes, Proofs, Calm, Linked
<1> QED
  BY <1>4, <1>5 DEF ConfirmNeed, Kept, PanelInv, ErasureProven, InstallProven

LEMMA NeedKept ==
  ASSUME PanelInv, UNCHANGED tour, NeedMet \/ NeedTimesOut
  PROVE  Kept
<1>1. IsUi(ui) /\ IsOta(ota)
  BY InvShapes
<1> DEFINE o == [ota EXCEPT !.need = "NONE"]
<1>2. Mild(ota, o) /\ IsOta(o)
  BY <1>1, MildSet, MildIsOta
<1>3. ASSUME NEW r \in Checks(ui, o) PROVE Tame(ui, ota, r)
  BY <1>1, <1>2, TameChecks, TameAgain, CalmStays
<1>4. Tame(ui, ota, Both(ShowMenu(ui, "OTA"), o))
  BY <1>1, <1>2, CalmShowMenu, TameBoth
<1>5. Tame(ui, ota, Both(ShowMenu(Notice(ui, "AUTO"), "OTA"), o))
  <2>1. Calm(ui, ShowMenu(Notice(ui, "AUTO"), "OTA"))
    BY <1>1, CalmNotice, CalmShowMenu, CalmIsUi, CalmAgain
  <2> QED
    BY <1>2, <2>1, TameBoth
<1>6. CASE NeedMet
  <2>1. PICK r : Becomes(r) /\ (r \in Checks(ui, o) \/ r = Both(ShowMenu(ui, "OTA"), o))
    BY <1>6 DEF NeedMet
  <2> QED
    BY <1>3, <1>4, <1>6, <2>1, TameKept DEF NeedMet
<1>7. CASE NeedTimesOut
  BY <1>5, <1>7, TameKept DEF NeedTimesOut
<1> QED
  BY <1>6, <1>7

\* A download starts on the answer to the confirmation, and uses its proof up.
LEMMA ConfirmUpdateKept ==
  ASSUME PanelInv, UNCHANGED tour, ConfirmUpdate
  PROVE  Kept
<1>1. IsUi(ui) /\ IsPin(pin) /\ IsOta(ota) /\ Calm(ui, ui)
  BY InvShapes, CalmStays
<1>2. PICK r \in Confirms(ui, ota) : Becomes(r)
  BY DEF ConfirmUpdate
<1>3. OtaOnly
  BY DEF ConfirmUpdate
<1>4. CASE Tame(ui, ota, r)
  BY <1>2, <1>3, <1>4, TameKept
<1> DEFINE answered == [ota EXCEPT !.confirm = FALSE]
           failed == [answered EXCEPT !.state = "ERROR"]
           started == [answered EXCEPT !.state = "WORKING", !.service = "RUNNING"]
<1>5. Mild(ota, answered) /\ Mild(ota, failed) /\ Mild(ota, [answered EXCEPT !.state = "AVAILABLE"])
  <2>1. Mild(ota, answered) /\ IsOta(answered)
    BY <1>1, MildSet, MildIsOta
  <2> HIDE DEF answered
  <2> QED
    BY <2>1, MildSet, MildAgain
<1>6. CASE ota.confirm /\ r = Both(Stage(ui, "WORKING"), started)
  <2>1. Calm(ui, ui') /\ ota' = started
    BY <1>1, <1>2, <1>6, CalmOta DEF Becomes, Both
  <2>2. /\ IsOta(ota') /\ ~ota'.confirm /\ ota'.grant = ota.grant /\ ota'.applied = ota.applied
    BY <1>1, <2>1 DEF IsOta, OtaFields
  <2>3. ui'.job = "OTA_AUTH" => pin.step = "VERIFY"
    BY <2>1 DEF Calm, PanelInv, Proofs
  <2> QED
    BY <1>1, <1>3, <1>6, <2>1, <2>2, <2>3, StandingKept DEF OtaOnly
<1>7. CASE ota.marker
  <2>1. r = Both(ShowOta(ui, PromptStaged(ota), TRUE), PromptStaged(ota))
    BY <1>2, <1>7 DEF Confirms
  <2>2. Tame(ui, ota, r)
    BY <1>1, <2>1, CalmOta, MildOps, TameBoth
  <2> QED
    BY <1>4, <2>2
<1>8. CASE ~ota.marker /\ ~ota.confirm
  <2>1. r = Both(ui, ota)
    BY <1>2, <1>8 DEF Confirms
  <2> QED
    BY <1>1, <1>4, <2>1, MildStays, TameBoth
<1>9. CASE ~ota.marker /\ ota.confirm
  <2>1. \/ r = Both(Notice(ui, "MENU"), [answered EXCEPT !.state = "AVAILABLE"])
        \/ r = Both(ShowOta(ui, failed, TRUE), failed)
        \/ r = Both(Stage(ui, "WORKING"), started)
    BY <1>2, <1>9 DEF Confirms
  <2>2. Calm(ui, Notice(ui, "MENU")) /\ Calm(ui, ShowOta(ui, failed, TRUE))
    BY <1>1, CalmNotice, CalmOta
  <2> HIDE DEF answered, failed, started
  <2> QED
    BY <1>4, <1>5, <1>6, <1>9, <2>1, <2>2, TameBoth
<1> QED
  BY <1>7, <1>8, <1>9

LEMMA ServiceKept ==
  ASSUME PanelInv, UNCHANGED tour, ServiceReports \/ ServiceEnds
  PROVE  Kept
<1>1. IsUi(ui) /\ IsOta(ota)
  BY InvShapes
<1>2. CASE ServiceReports
  <2> DEFINE o == [ota EXCEPT !.state = "WORKING"]
  <2>1. Becomes(Both(ShowOta(ui, o, TRUE), o)) /\ OtaOnly
    BY <1>2 DEF ServiceReports
  <2>2. Tame(ui, ota, Both(ShowOta(ui, o, TRUE), o))
    BY <1>1, CalmOta, MildSet, TameBoth
  <2> QED
    BY <2>1, <2>2, TameKept
<1>3. CASE ServiceEnds
  <2> DEFINE over == [ota EXCEPT !.service = "NONE", !.confirm = FALSE, !.ask = FALSE]
             error == [over EXCEPT !.state = "ERROR"]
             none == [over EXCEPT !.state = "IDLE", !.avail = FALSE]
             cancelled == [over EXCEPT !.state = "CANCELLED"]
             staged(prompt) == [over EXCEPT !.state = "PENDING_APPLY", !.marker = TRUE,
                                            !.verified = FALSE, !.checked = FALSE, !.prompt = prompt]
  <2>1. Mild(ota, over) /\ IsOta(over)
    BY <1>1 DEF Mild, IsOta, OtaFields
  <2>2. PICK r : /\ Becomes(r)
                 /\ \/ r = Both(ShowOta(ui, error, TRUE), error)
                    \/ r = Both(ShowOta(ui, none, TRUE), none)
                    \/ r = Both(ShowOta(ui, cancelled, TRUE), cancelled)
                    \/ \E p : r = Both(ShowOta(ui, staged(p), TRUE), Scheduled(staged(p)))
    BY <1>3 DEF ServiceEnds
  <2> HIDE DEF over
  <2>3. Mild(over, error) /\ Mild(over, cancelled) /\ Mild(over, none)
    BY <2>1 DEF Mild, IsOta, OtaFields
  <2>4. ASSUME NEW p PROVE Mild(over, Scheduled(staged(p)))
    <3>1. Mild(over, staged(p)) /\ IsOta(staged(p))
      BY <2>1 DEF Mild, IsOta, OtaFields
    <3> HIDE DEF staged
    <3> QED
      BY <3>1, MildOps, MildAgain
  <2> HIDE DEF error, none, cancelled, staged
  <2>5. Tame(ui, ota, r)
    BY <1>1, <2>1, <2>2, <2>3, <2>4, CalmOta, MildAgain, TameBoth
  <2> QED
    BY <1>3, <2>2, <2>5, TameKept DEF ServiceEnds
<1> QED
  BY <1>2, <1>3

LEMMA PreflightEndsKept ==
  ASSUME PanelInv, UNCHANGED tour, PreflightEnds
  PROVE  Kept
<1>1. IsUi(ui) /\ IsOta(ota) /\ Calm(ui, ui)
  BY InvShapes, CalmStays
<1> DEFINE over == [ota EXCEPT !.preflight = FALSE, !.checked = FALSE]
           gone == [over EXCEPT !.marker = FALSE, !.verified = FALSE, !.confirm = FALSE]
           rejected == [gone EXCEPT !.state = "IDLE", !.avail = FALSE]
           verified(checked) == [over EXCEPT !.verified = TRUE, !.checked = checked]
           newer(avail) == [gone EXCEPT !.state = "AVAILABLE", !.avail = avail]
<1>2. PICK r : /\ Becomes(r)
               /\ \/ \E checked : r = Both(ui, verified(checked))
                  \/ r = Both(ShowOta(ui, rejected, FALSE), rejected)
                  \/ r = Both(ui, over)
                  \/ \E avail : r = Both(ShowOta(ui, newer(avail), FALSE), newer(avail))
  BY DEF PreflightEnds
<1>3. Mild(ota, over) /\ IsOta(over)
  BY <1>1 DEF Mild, IsOta, OtaFields
<1> HIDE DEF over
<1>4. Mild(over, gone) /\ IsOta(gone)
  BY <1>3 DEF Mild, IsOta, OtaFields
<1>5. ASSUME NEW checked PROVE Mild(over, verified(checked))
  BY <1>3 DEF Mild, IsOta, OtaFields
<1> HIDE DEF gone
<1>6. Mild(gone, rejected) /\ \A avail : Mild(gone, newer(avail))
  BY <1>4 DEF Mild, IsOta, OtaFields
<1> HIDE DEF rejected, verified, newer
<1>7. Mild(ota, rejected) /\ \A avail : Mild(ota, newer(avail))
  BY <1>3, <1>4, <1>6, MildAgain
<1>8. \A checked : Mild(ota, verified(checked))
  BY <1>3, <1>5, MildAgain
<1>9. Tame(ui, ota, r)
  BY <1>1, <1>2, <1>3, <1>7, <1>8, CalmOta, TameBoth
<1> QED
  BY <1>2, <1>9, TameKept DEF PreflightEnds

LEMMA PromptLapsesKept ==
  ASSUME PanelInv, UNCHANGED tour, PromptLapses
  PROVE  Kept
<1>1. IsUi(ui) /\ IsOta(ota) /\ Calm(ui, ui) /\ Calm(ui, ShowMenu(ui, "OTA"))
  BY InvShapes, CalmStays, CalmShowMenu
<1> DEFINE u == [ui EXCEPT !.menu = "NONE"]
           home == GoMain(DetailOff(u))
<1>2. Calm(ui, home)
  <2>1. Calm(ui, u) /\ IsUi(u)
    BY <1>1, CalmSet, CalmIsUi
  <2> HIDE DEF u
  <2>2. Calm(u, DetailOff(u)) /\ IsUi(DetailOff(u))
    BY <2>1, CalmExits, CalmIsUi
  <2> QED
    BY <2>1, <2>2, CalmShow, CalmAgain
<1> DEFINE v == IF ~(ui.screen = "OTA" /\ ui.view = "PENDING_APPLY") THEN ui
                ELSE IF ota.prompt = "REMINDER" THEN home ELSE ShowMenu(ui, "OTA")
           o == [ota EXCEPT !.state = "AVAILABLE", !.avail = TRUE]
<1>3. Becomes(Both(v, o)) /\ OtaOnly
  BY DEF PromptLapses
<1>4. Mild(ota, o)
  BY <1>1 DEF Mild, IsOta, OtaFields
<1> HIDE DEF o, home
<1>5. Calm(ui, v)
  BY <1>1, <1>2
<1> QED
  BY <1>3, <1>4, <1>5, TameBoth, TameKept

LEMMA RemindsKept ==
  ASSUME PanelInv, UNCHANGED tour, Reminds
  PROVE  Kept
<1>1. IsUi(ui) /\ IsOta(ota) /\ Calm(ui, ui)
  BY InvShapes, CalmStays
<1> DEFINE o == [ota EXCEPT !.reminder = FALSE]
           shown == [o EXCEPT !.prompt = "REMINDER"]
<1>2. PICK r : /\ Becomes(r)
               /\ r = Both(ui, o) \/ r = Both(ShowOta(ui, shown, FALSE), Scheduled(shown))
  BY DEF Reminds
<1>3. Mild(ota, o) /\ IsOta(o)
  BY <1>1, MildSet, MildIsOta
<1> HIDE DEF o
<1>4. Mild(o, shown) /\ IsOta(shown)
  BY <1>3, MildSet, MildIsOta
<1> HIDE DEF shown
<1>5. Mild(ota, Scheduled(shown))
  BY <1>3, <1>4, MildOps, MildAgain
<1>6. Tame(ui, ota, r)
  BY <1>1, <1>2, <1>3, <1>5, CalmOta, TameBoth
<1> QED
  BY <1>2, <1>6, TameKept DEF Reminds

LEMMA DiscardKept ==
  ASSUME PanelInv, UNCHANGED tour, AskDiscard \/ Discard \/ GrantExpires
  PROVE  Kept
<1>1. IsUi(ui) /\ IsOta(ota) /\ Calm(ui, ui)
  BY InvShapes, CalmStays
<1>2. CASE AskDiscard
  BY <1>1, <1>2, MildSet, CalmOta, TameBoth, TameKept DEF AskDiscard
<1>3. CASE Discard
  <2> DEFINE gone == [ota EXCEPT !.marker = FALSE, !.verified = FALSE, !.checked = FALSE,
                                 !.confirm = FALSE, !.state = "IDLE", !.avail = FALSE]
             kept == [ota EXCEPT !.verified = FALSE]
  <2>1. PICK r : /\ Becomes(r)
                 /\ \/ r = Both(Notice(ShowMenu(ui, "OTA"), "MENU"), gone)
                    \/ r = Both(Notice(ui, "OTA"), kept)
    BY <1>3 DEF Discard
  <2>2. Mild(ota, gone) /\ Mild(ota, kept)
    BY <1>1 DEF Mild, IsOta, OtaFields
  <2> HIDE DEF gone, kept
  <2>3. Calm(ui, Notice(ShowMenu(ui, "OTA"), "MENU")) /\ Calm(ui, Notice(ui, "OTA"))
    BY <1>1, CalmNotice, CalmShowMenu, CalmIsUi, CalmAgain
  <2>4. Tame(ui, ota, r)
    BY <2>1, <2>2, <2>3, TameBoth
  <2> QED
    BY <1>3, <2>1, <2>4, TameKept DEF Discard
<1>4. CASE GrantExpires
  BY <1>1, <1>4, MildSet, Mildly DEF GrantExpires
<1> QED
  BY <1>2, <1>3, <1>4

-----------------------------------------------------------------------------
(* The PIN of an update *)

\* What a button of the PIN flow results in: the flow of an update ends with
\* SUCCESS only with the right PIN.
Flowed(r) ==
  /\ Calm(ui, r.ui) /\ IsPin(r.pin) /\ r.pin.erased = pin.erased
  /\ pin.proven \subseteq r.pin.proven
  /\ ui.job = "OTA_AUTH" /\ ~r.done => r.pin.step = "VERIFY"
  /\ ui.job = "OTA_AUTH" /\ r.done /\ r.pin.step = "SUCCESS" => "OTA" \in r.pin.proven

LEMMA FlowedPlain ==
  ASSUME NEW u, Calm(ui, u), NEW p, Keeps(pin, p), NEW done \in BOOLEAN, NEW wrong,
         ui.job # "OTA_AUTH" \/ (done /\ p.step # "SUCCESS") \/ (~done /\ p.step = "VERIFY")
  PROVE  Flowed(Result(u, p, done, wrong))
BY DEF Flowed, Result, Keeps

LEMMA VerifiedFlowed ==
  ASSUME PanelInv, NEW scope, NEW r \in Verified(scope)
  PROVE  Flowed(r)
<1> DEFINE right == Judged(At("VERIFY"), scope, TRUE)
<1>1. IsUi(ui) /\ IsPin(pin) /\ Calm(ui, ui)
  BY InvShapes, CalmStays
<1>2. Keeps(pin, At("VERIFY"))
  BY <1>1, KeepsShapes DEF At
<1>3. Keeps(pin, right) /\ IsPin(right)
  BY <1>2 DEF Judged, Keeps, IsPin, PinFields
<1>4. CASE ui.job = "OTA_AUTH"
  <2> DEFINE p == [right EXCEPT !.step = "SUCCESS", !.proven = @ \cup {"OTA"}]
  <2>1. r = Result(ui, p, TRUE, FALSE)
    BY <1>4 DEF Verified
  <2> HIDE DEF right
  <2>2. IsPin(p) /\ p.proven = pin.proven \cup {"OTA"} /\ p.erased = pin.erased
    BY <1>3 DEF Keeps, IsPin, PinFields
  <2> HIDE DEF p
  <2> QED
    BY <1>1, <2>1, <2>2 DEF Flowed, Result
<1>5. CASE ui.job = "RESET_PIN"
  <2>1. PICK q \in SetPin(right) :
          r = Result(FailNotice(ui, right, q), [q EXCEPT !.step = "IDLE"], TRUE, FALSE)
    BY <1>5 DEF Verified
  <2> HIDE DEF right
  <2>2. Keeps(right, q) /\ Keeps(q, [q EXCEPT !.step = "IDLE"])
    BY <1>3, KeepsShapes DEF Keeps
  <2>3. Keeps(pin, [q EXCEPT !.step = "IDLE"])
    BY <1>3, <2>2 DEF Keeps
  <2>4. Calm(ui, FailNotice(ui, right, q))
    BY <1>1, CalmNotice DEF FailNotice
  <2> QED
    BY <1>5, <2>1, <2>3, <2>4, FlowedPlain
<1>6. CASE ui.job # "OTA_AUTH" /\ ui.job # "RESET_PIN"
  <2>1. r = Result(ui, [right EXCEPT !.step = "NEW"], FALSE, FALSE)
    BY <1>6 DEF Verified
  <2> HIDE DEF right
  <2>2. Keeps(right, [right EXCEPT !.step = "NEW"])
    BY <1>3, KeepsShapes
  <2>3. Keeps(pin, [right EXCEPT !.step = "NEW"])
    BY <1>3, <2>2 DEF Keeps
  <2> QED
    BY <1>1, <1>6, <2>1, <2>3, FlowedPlain
<1> QED
  BY <1>4, <1>5, <1>6

LEMMA RefusedFlowed ==
  ASSUME PanelInv, NEW scope, pin.step = "VERIFY"
  PROVE  Flowed(Refused(scope))
<1>1. IsUi(ui) /\ IsPin(pin)
  BY InvShapes
<1> DEFINE p == Judged(pin, scope, FALSE)
           q == IF p.tries[scope] = MaxAttempts THEN p ELSE [p EXCEPT !.digit = 0]
<1>2. Keeps(pin, p) /\ p.step = "VERIFY"
  BY <1>1 DEF Judged, Keeps, IsPin, PinFields
<1>3. Refused(scope) = Result(Notice(ui, "SECURITY"), q, FALSE, TRUE)
  BY DEF Refused
<1> HIDE DEF p
<1>4. Keeps(pin, q) /\ q.step = "VERIFY"
  <2>1. Keeps(p, [p EXCEPT !.digit = 0]) /\ [p EXCEPT !.digit = 0].step = p.step
    BY <1>2, KeepsShapes DEF Keeps
  <2>2. Keeps(pin, [p EXCEPT !.digit = 0])
    BY <1>2, <2>1 DEF Keeps
  <2> QED
    BY <1>2, <2>1, <2>2
<1> HIDE DEF q
<1>5. Calm(ui, Notice(ui, "SECURITY"))
  BY <1>1, CalmNotice
<1> QED
  BY <1>3, <1>4, <1>5, FlowedPlain

LEMMA FlowStepFlowed ==
  ASSUME PanelInv, NEW button, NEW r \in FlowStep(button)
  PROVE  Flowed(r)
<1>1. IsUi(ui) /\ IsPin(pin) /\ Calm(ui, ui) /\ Keeps(pin, pin)
  BY InvShapes, CalmStays DEF Keeps
<1>2. ui.job = "OTA_AUTH" => pin.step = "VERIFY"
  BY DEF PanelInv, Proofs
<1>3. ASSUME NEW s PROVE Keeps(pin, At(s)) /\ At(s).step = s
  BY <1>1, KeepsShapes DEF At
<1>4. ASSUME NEW n
      PROVE  Keeps(pin, [pin EXCEPT !.digit = n]) /\ [pin EXCEPT !.digit = n].step = pin.step
  BY <1>1, KeepsShapes
<1>5. CASE ui.job \notin {"CHANGE_PIN", "RESET_PIN", "OTA_AUTH"}
  <2>1. r = Result(ui, pin, TRUE, FALSE)
    BY <1>5 DEF FlowStep
  <2> QED
    BY <1>1, <1>5, <2>1, FlowedPlain
<1>6. CASE ui.job \in {"CHANGE_PIN", "RESET_PIN", "OTA_AUTH"} /\ pin.step = "VERIFY"
  <2>1. r \in VerifyStep(button)
    BY <1>6 DEF FlowStep
  <2>2. \/ r = Result(ui, At("IDLE"), TRUE, FALSE)
        \/ r = Result(ui, pin, FALSE, FALSE)
        \/ r = Result(ui, [pin EXCEPT !.digit = Digit(button, @)], FALSE, FALSE)
        \/ r \in Verified(FlowScope)
        \/ r = Refused(FlowScope)
    BY <2>1 DEF VerifyStep
  <2>3. CASE r = Result(ui, At("IDLE"), TRUE, FALSE)
    BY <1>1, <1>3, <2>3, FlowedPlain
  <2>4. CASE r = Result(ui, pin, FALSE, FALSE)
    BY <1>1, <1>6, <2>4, FlowedPlain
  <2>5. CASE r = Result(ui, [pin EXCEPT !.digit = Digit(button, @)], FALSE, FALSE)
    <3> DEFINE p == [pin EXCEPT !.digit = Digit(button, @)]
    <3>1. Keeps(pin, p) /\ p.step = "VERIFY"
      BY <1>4, <1>6
    <3> HIDE DEF p
    <3> QED
      BY <1>1, <2>5, <3>1, FlowedPlain DEF p
  <2> QED
    BY <1>6, <2>2, <2>3, <2>4, <2>5, VerifiedFlowed, RefusedFlowed
<1>7. CASE ui.job \in {"CHANGE_PIN", "RESET_PIN", "OTA_AUTH"} /\ pin.step # "VERIFY"
  <2>1. ui.job # "OTA_AUTH"
    BY <1>2, <1>7
  <2>2. CASE r = Result(ui, pin, TRUE, FALSE)
    BY <1>1, <2>1, <2>2, FlowedPlain
  <2>3. ASSUME NEW s, r = Result(ui, At(s), TRUE, FALSE) \/ r = Result(ui, At(s), FALSE, FALSE)
        PROVE  Flowed(r)
    BY <1>1, <1>3, <2>1, <2>3, FlowedPlain
  <2>4. CASE r = Result(ui, [pin EXCEPT !.digit = Digit(button, @)], FALSE, FALSE)
    <3> DEFINE p == [pin EXCEPT !.digit = Digit(button, @)]
    <3>1. Keeps(pin, p)
      BY <1>4
    <3> HIDE DEF p
    <3> QED
      BY <1>1, <2>1, <2>4, <3>1, FlowedPlain DEF p
  <2>5. CASE r = Result(Notice(ui, "SECURITY"), At("NEW"), FALSE, TRUE)
    <3>1. Calm(ui, Notice(ui, "SECURITY"))
      BY <1>1, CalmNotice
    <3> QED
      BY <1>3, <2>1, <2>5, <3>1, FlowedPlain
  <2>6. CASE \E q \in SetPin(pin) : r = Result(FailNotice(ui, pin, q),
                                               [q EXCEPT !.step = "IDLE", !.digit = 0], TRUE, FALSE)
    <3>1. PICK q \in SetPin(pin) : r = Result(FailNotice(ui, pin, q),
                                              [q EXCEPT !.step = "IDLE", !.digit = 0], TRUE, FALSE)
      BY <2>6
    <3>2. Keeps(pin, q)
      BY <1>1, KeepsShapes
    <3> DEFINE p == [q EXCEPT !.step = "IDLE", !.digit = 0]
    <3>3. Keeps(pin, p)
      <4>1. Keeps(q, p)
        BY <3>2, KeepsShapes DEF Keeps
      <4> QED
        BY <3>2, <4>1 DEF Keeps
    <3>4. Calm(ui, FailNotice(ui, pin, q))
      BY <1>1, CalmStays, CalmNotice DEF FailNotice
    <3> HIDE DEF p
    <3> QED
      BY <2>1, <3>1, <3>3, <3>4, FlowedPlain DEF p
  <2>7. CASE pin.step = "NEW"
    <3>1. r = NewStep(button)
      BY <1>7, <2>7 DEF FlowStep
    <3>2. \/ r = Result(ui, At("IDLE"), TRUE, FALSE)
          \/ r = Result(ui, At("CONFIRM"), FALSE, FALSE)
          \/ r = Result(ui, [pin EXCEPT !.digit = Digit(button, @)], FALSE, FALSE)
      BY <3>1 DEF NewStep
    <3> QED
      BY <2>3, <2>4, <3>2
  <2>8. CASE pin.step = "CONFIRM"
    <3>1. r \in ConfirmStep(button)
      BY <1>7, <2>8 DEF FlowStep
    <3>2. \/ r = Result(ui, At("NEW"), FALSE, FALSE)
          \/ r = Result(Notice(ui, "SECURITY"), At("NEW"), FALSE, TRUE)
          \/ \E q \in SetPin(pin) : r = Result(FailNotice(ui, pin, q),
                                              [q EXCEPT !.step = "IDLE", !.digit = 0], TRUE, FALSE)
          \/ r = Result(ui, [pin EXCEPT !.digit = Digit(button, @)], FALSE, FALSE)
      BY <3>1 DEF ConfirmStep
    <3> QED
      BY <2>3, <2>4, <2>5, <2>6, <3>2
  <2>9. CASE pin.step # "NEW" /\ pin.step # "CONFIRM"
    <3>1. r = Result(ui, pin, TRUE, FALSE)
      BY <1>7, <2>9 DEF FlowStep
    <3> QED
      BY <2>2, <3>1
  <2> QED
    BY <2>7, <2>8, <2>9
<1> QED
  BY <1>5, <1>6, <1>7

\* Back from the PIN, the dialogue holds open what was proven, or nothing new.
LEMMA ReturnsShape ==
  ASSUME NEW u, IsUi(u), NEW o, IsOta(o), NEW authenticated, NEW r,
         r = Returns(u, o, authenticated)
  PROVE  /\ Calm(u, r.ui) /\ r.ui.job # "OTA_AUTH" /\ IsOta(r.ota)
         /\ r.ota.confirm \/ r.ota.grant => o.confirm \/ o.grant \/ authenticated
         /\ o.service = "NONE" => r.ota.service = "NONE"
         /\ r.ota.applied = o.applied
<1> DEFINE v == [u EXCEPT !.flow = "IDLE", !.job = "NONE", !.menu = "OTA", !.flash = "NONE"]
           p == [o EXCEPT !.forApply = FALSE]
           q == [p EXCEPT !.grant = authenticated]
<1>1. Calm(u, v) /\ IsUi(v) /\ v.job # "OTA_AUTH"
  BY DEF Calm, IsUi, UiFields
<1>2. ASSUME NEW w, Calm(v, w) PROVE Calm(u, w) /\ w.job # "OTA_AUTH"
  <2>1. Calm(u, w)
    BY <1>1, <1>2, CalmAgain
  <2>2. w.job # "OTA_AUTH"
    BY <1>1, <1>2 DEF Calm
  <2> QED
    BY <2>1, <2>2
<1>3. /\ IsOta(p) /\ p.confirm = o.confirm /\ p.grant = o.grant
      /\ p.service = o.service /\ p.applied = o.applied
  BY DEF IsOta, OtaFields
<1>4. r = IF o.forApply THEN StatusScreen(v, q)
          ELSE IF authenticated THEN Requests(OtaRows(v), p) ELSE Both(OtaRows(v), p)
  BY DEF Returns
<1> HIDE DEF v, p
<1>5. /\ IsOta(q) /\ q.confirm = p.confirm /\ q.grant = authenticated
      /\ q.service = p.service /\ q.applied = p.applied
  BY <1>3 DEF IsOta, OtaFields
<1>6. CASE o.forApply
  <2> HIDE DEF q
  <2>1. Tame(v, q, r)
    BY <1>1, <1>4, <1>5, <1>6, TameStatus
  <2> QED
    BY <1>2, <1>3, <1>5, <2>1 DEF Tame, Mild
<1>7. CASE ~o.forApply /\ authenticated
  <2> DEFINE w == OtaRows(v)
  <2>1. Calm(v, w) /\ IsUi(w)
    BY <1>1, CalmOta, CalmIsUi
  <2>2. r = Requests(w, p)
    BY <1>4, <1>7
  <2>3. IsOta(p)
    BY <1>3
  <2> HIDE DEF w, q
  <2>4. Calm(w, r.ui)
    BY <2>1, <2>2, <2>3, RequestsShape
  <2>5. IsOta(r.ota)
    BY <2>1, <2>2, <2>3, RequestsShape
  <2>6. Requests(w, p).ota.grant = p.grant
    BY <2>1, <2>3, RequestsShape
  <2>7. Requests(w, p).ota.service = p.service /\ Requests(w, p).ota.applied = p.applied
    BY <2>1, <2>3, RequestsShape
  <2>8. Calm(v, r.ui)
    BY <2>1, <2>4, CalmAgain
  <2> QED
    BY <1>2, <1>3, <1>7, <2>2, <2>5, <2>6, <2>7, <2>8
<1>8. CASE ~o.forApply /\ ~authenticated
  <2>1. r = Both(OtaRows(v), p)
    BY <1>4, <1>8
  <2>2. Calm(v, OtaRows(v))
    BY <1>1, CalmOta
  <2> QED
    BY <1>2, <1>3, <2>1, <2>2 DEF Both
<1> QED
  BY <1>6, <1>7, <1>8

LEMMA PinFlowKept ==
  ASSUME PanelInv, UNCHANGED tour, NEW button, button # "UP_DOWN", PinFlow(button)
  PROVE  Kept
<1>1. IsUi(ui) /\ IsPin(pin) /\ IsOta(ota)
  BY InvShapes
<1> DEFINE auth(r) == button = "ENTER" /\ r.pin.step = "SUCCESS"
           left(r) == [r.ui EXCEPT !.flow = "IDLE", !.job = "NONE", !.screen = "SECURITY"]
<1>2. PICK r \in FlowStep(button) :
        /\ pin' = Standing(r.pin)
        /\ \/ ~r.done /\ Becomes(Both(r.ui, ota))
           \/ r.done /\ ui.job = "OTA_AUTH" /\ Becomes(Returns(r.ui, ota, auth(r)))
           \/ r.done /\ ui.job # "OTA_AUTH" /\ Becomes(Both(left(r), ota))
  BY DEF PinFlow
<1>3. Flowed(r)
  BY <1>2, FlowStepFlowed
<1>4. /\ Calm(ui, r.ui) /\ IsUi(r.ui) /\ IsPin(r.pin) /\ pin.proven \subseteq r.pin.proven
      /\ r.pin.erased = pin.erased
  BY <1>3, CalmIsUi DEF Flowed
<1>5. UNCHANGED wifi
  BY DEF PinFlow
<1>6. CASE ~r.done /\ Becomes(Both(r.ui, ota))
  <2>1. ui' = r.ui /\ ota' = ota
    BY <1>6 DEF Becomes, Both
  <2>2. ui'.job = "OTA_AUTH" => r.pin.step = "VERIFY"
    BY <1>3, <1>6, <2>1 DEF Flowed, Calm
  <2> QED
    BY <1>1, <1>2, <1>4, <1>5, <2>1, <2>2, StandingKept
<1>7. CASE r.done /\ ui.job = "OTA_AUTH" /\ Becomes(Returns(r.ui, ota, auth(r)))
  <2> DEFINE a == auth(r)
             x == Returns(r.ui, ota, a)
  <2>1. a => "OTA" \in r.pin.proven
    BY <1>3, <1>7 DEF Flowed
  <2>2. ui' = x.ui /\ ota' = x.ota
    BY <1>7 DEF Becomes
  <2> HIDE DEF a
  <2>3. /\ Calm(r.ui, x.ui) /\ x.ui.job # "OTA_AUTH" /\ IsOta(x.ota)
        /\ x.ota.confirm \/ x.ota.grant => ota.confirm \/ ota.grant \/ a
        /\ ota.service = "NONE" => x.ota.service = "NONE"
        /\ x.ota.applied = ota.applied
    BY <1>1, <1>4, ReturnsShape
  <2> HIDE DEF x
  <2>4. Calm(ui, ui')
    BY <1>4, <2>2, <2>3, CalmAgain
  <2> QED
    BY <1>2, <1>4, <1>5, <2>1, <2>2, <2>3, <2>4, StandingKept
<1>8. CASE r.done /\ ui.job # "OTA_AUTH" /\ Becomes(Both(left(r), ota))
  <2>1. ui' = left(r) /\ ota' = ota
    BY <1>8 DEF Becomes, Both
  <2>2. Calm(r.ui, left(r)) /\ left(r).job # "OTA_AUTH"
    BY <1>4 DEF Calm, IsUi, UiFields
  <2> HIDE DEF left
  <2>3. Calm(ui, ui')
    BY <1>4, <2>1, <2>2, CalmAgain
  <2> QED
    BY <1>1, <1>2, <1>4, <1>5, <2>1, <2>2, <2>3, StandingKept
<1> QED
  BY <1>2, <1>6, <1>7, <1>8

\* Asking for the PIN of an update takes back a proof that nothing holds open.
LEMMA BeginAuthKept ==
  ASSUME PanelInv, UNCHANGED tour, NEW forApply, BeginAuth(forApply)
  PROVE  Kept
<1>1. IsUi(ui) /\ IsPin(pin) /\ IsOta(ota)
  BY InvShapes
<1> DEFINE x == IF ota.confirm THEN pin.proven ELSE pin.proven \ {"OTA"}
           p == [pin EXCEPT !.proven = x]
           u == [ui EXCEPT !.menu = "SECURITY", !.job = "OTA_AUTH", !.flow = "PIN"]
<1>2. pin' = Start(p, "OTA_AUTH")
  <2>1. ota.confirm => p = pin
    BY <1>1 DEF IsPin, PinFields
  <2>2. ~ota.confirm => p = [pin EXCEPT !.proven = @ \ {"OTA"}]
    OBVIOUS
  <2> HIDE DEF p
  <2> QED
    BY <2>1, <2>2 DEF BeginAuth
<1>3. (\A a \in pin.proven : a # "OTA" => a \in x) /\ (ota.confirm => x = pin.proven)
  OBVIOUS
<1> HIDE DEF x
<1>4. IsPin(p) /\ p.proven = x /\ p.erased = pin.erased
  BY <1>1 DEF IsPin, PinFields
<1> HIDE DEF p
<1>5. IsPin(pin') /\ pin'.proven = x /\ pin'.erased = pin.erased /\ pin'.step = "VERIFY"
  <2>1. pin' = [p EXCEPT !.digit = 0, !.step = "VERIFY"]
    BY <1>2 DEF Start
  <2> QED
    BY <1>4, <2>1 DEF IsPin, PinFields
<1>6. IsUi(u) /\ u.phase = ui.phase /\ u.action = ui.action
  BY <1>1 DEF IsUi, UiFields
<1>7. ui' = Show(u, "SECURITY")
  BY DEF BeginAuth
<1> HIDE DEF u
<1>8. Calm(u, ui')
  BY <1>6, <1>7, CalmShow
<1>9. /\ IsOta(ota') /\ ota'.confirm = ota.confirm /\ ~ota'.grant
      /\ ota'.service = ota.service /\ ota'.applied = ota.applied
  BY <1>1 DEF BeginAuth, IsOta, OtaFields
<1>10. ui'.phase = "CONFIRM" => ui'.action \in pin'.proven
  <2>1. SUFFICES ASSUME ui'.phase = "CONFIRM" PROVE ui'.action \in pin'.proven
    OBVIOUS
  <2>2. ui.phase = "CONFIRM" /\ ui'.action = ui.action
    BY <1>6, <1>8, <2>1 DEF Calm
  <2>3. ui.action \in pin.proven /\ ui.action # "OTA"
    BY <1>1, <2>2 DEF PanelInv, Proofs, IsUi, Erasures
  <2> QED
    BY <1>3, <1>5, <2>2, <2>3
<1>11. UNCHANGED wifi
  BY DEF BeginAuth
<1>12. Shapes' /\ Proofs'
  BY <1>3, <1>5, <1>8, <1>9, <1>10, <1>11 DEF PanelInv, Shapes, Proofs, Calm
<1> QED
  BY <1>5, <1>9, <1>12 DEF Kept, PanelInv, ErasureProven, InstallProven

\* The staged image is selected on a grant, and uses its proof up.
LEMMA ApplyKept ==
  ASSUME PanelInv, UNCHANGED tour, ~ota.confirm, ~tour.secured \/ ota.grant, Apply
  PROVE  Kept
<1>1. IsUi(ui) /\ IsPin(pin) /\ IsOta(ota)
  BY InvShapes
<1> DEFINE off == IF ui.inverter = "ON" THEN Shutdown(ui) ELSE ui
<1>2. Calm(ui, off) /\ IsUi(off)
  BY <1>1, CalmShutdown, CalmStays, CalmIsUi
<1>3. ui' = Notice(off, "OTA") \/ ui' = Restart(off)
  BY DEF Apply
<1> HIDE DEF off
<1>4. Calm(ui, ui')
  BY <1>2, <1>3, CalmNotice, CalmRestart, CalmAgain
<1>5. IsOta(ota') /\ ~ota'.confirm /\ ~ota'.grant /\ ota'.service = ota.service
  BY <1>1 DEF Apply, IsOta, OtaFields
<1>6. /\ IsPin(pin') /\ pin'.proven = pin.proven \ {"OTA"}
      /\ pin'.erased = pin.erased /\ pin'.step = pin.step
  BY <1>1 DEF Apply, IsPin, PinFields
<1>7. ui'.phase = "CONFIRM" => ui'.action \in pin'.proven
  BY <1>1, <1>4, <1>6 DEF PanelInv, Proofs, Calm, IsUi, Erasures
<1>8. UNCHANGED wifi
  BY DEF Apply
<1>9. Shapes' /\ Proofs'
  BY <1>4, <1>5, <1>6, <1>7, <1>8 DEF PanelInv, Shapes, Proofs, Calm
<1> QED
  BY <1>5, <1>6, <1>9 DEF Kept, PanelInv, Proofs, ErasureProven, InstallProven

\* Without security, the confirmation is asked for at once.
LEMMA RequestsKept ==
  ASSUME PanelInv, UNCHANGED tour, ~tour.secured \/ (~wifi.linked /\ ~wifi.on),
         Simply(Requests(ui, ota))
  PROVE  Kept
<1>1. IsUi(ui) /\ IsPin(pin) /\ IsOta(ota)
  BY InvShapes
<1> DEFINE r == Requests(ui, ota)
<1>2. ui' = r.ui /\ ota' = r.ota /\ OtaOnly
  BY DEF Simply, Becomes
<1>3. /\ Calm(ui, r.ui) /\ IsOta(r.ota)
      /\ r.ota.grant = ota.grant /\ r.ota.service = ota.service /\ r.ota.applied = ota.applied
      /\ ~wifi.linked /\ ~wifi.on => Mild(ota, r.ota)
  BY <1>1, RequestsShape
<1> HIDE DEF r
<1>4. CASE ~wifi.linked /\ ~wifi.on
  BY <1>2, <1>3, <1>4, Mildly
<1>5. CASE ~tour.secured
  <2>1. ui'.job = "OTA_AUTH" => pin.step = "VERIFY"
    BY <1>2, <1>3 DEF Calm, PanelInv, Proofs
  <2> QED
    BY <1>1, <1>2, <1>3, <1>5, <2>1, StandingKept DEF OtaOnly
<1> QED
  BY <1>4, <1>5

LEMMA ByBackKept ==
  ASSUME PanelInv, UNCHANGED tour, ExitByBack \/ MenuByBack
  PROVE  Kept
<1>1. IsUi(ui) /\ IsOta(ota)
  BY InvShapes
<1>2. CASE ExitByBack
  <2> DEFINE r == ExitOta(ui, ota)
  <2>1. Tame(ui, ota, r) /\ IsUi(r.ui) /\ IsOta(r.ota)
    BY <1>1, TameExit, CalmIsUi, MildIsOta DEF Tame
  <2>2. Becomes(r) \/ Becomes(AskCancel(r.ui, r.ota))
    BY <1>2 DEF ExitByBack
  <2> HIDE DEF r
  <2>3. Tame(ui, ota, AskCancel(r.ui, r.ota))
    BY <2>1, TameCancel, TameAgain DEF Tame
  <2> QED
    BY <1>2, <2>1, <2>2, <2>3, TameKept DEF ExitByBack
<1>3. CASE MenuByBack
  <2> DEFINE o == ClearError(ota)
             u == OtaRows(ui)
  <2>1. Calm(ui, u) /\ IsUi(u) /\ Mild(ota, o) /\ IsOta(o)
    BY <1>1, CalmOta, CalmIsUi, MildOps, MildIsOta
  <2>2. Becomes(Both(u, o)) \/ Becomes(AskCancel(u, o))
    BY <1>3 DEF MenuByBack
  <2> HIDE DEF o, u
  <2>3. Tame(ui, ota, Both(u, o)) /\ Tame(ui, ota, AskCancel(u, o))
    BY <2>1, TameBoth, TameCancel, TameAgain
  <2> QED
    BY <1>3, <2>2, <2>3, TameKept DEF MenuByBack
<1> QED
  BY <1>2, <1>3

LEMMA EnterOtaKept ==
  ASSUME PanelInv, UNCHANGED tour, NEW u, Calm(ui, u), EnterOta(u)
  PROVE  Kept
<1>1. IsUi(u) /\ IsOta(ota) /\ Mild(ota, ota)
  BY InvShapes, CalmIsUi, MildStays
<1>2. Tame(u, ota, StatusScreen(u, ota))
  BY <1>1, TameStatus
<1>3. Tame(ui, ota, StatusScreen(u, ota))
  BY <1>1, <1>2, TameAgain
<1>4. Calm(ui, ShowMenu(u, "OTA"))
  BY <1>1, CalmShowMenu, CalmAgain
<1>5. Tame(ui, ota, Both(ShowMenu(u, "OTA"), ota))
  BY <1>1, <1>4, TameBoth
<1> QED
  BY <1>3, <1>5, SimplyTame DEF EnterOta

LEMMA InstallRowKept ==
  ASSUME PanelInv, UNCHANGED tour, InstallRow
  PROVE  Kept
<1>1. IsUi(ui) /\ IsOta(ota) /\ (wifi.linked => wifi.on)
  BY InvShapes DEF Linked
<1>2. CASE Simply(StatusScreen(ui, ota))
  BY <1>1, <1>2, TameStatus, SimplyTame
<1>3. CASE \E r \in Checks(ui, ota) : Simply(r)
  BY <1>1, <1>3, TameChecks, SimplyTame
<1>4. CASE BeginAuth(FALSE)
  BY <1>4, BeginAuthKept
<1>5. CASE ~(tour.secured /\ (wifi.on \/ ~ota.avail)) /\ Simply(Requests(ui, ota))
  BY <1>1, <1>5, RequestsKept
<1> QED
  BY <1>2, <1>3, <1>4, <1>5 DEF InstallRow

LEMMA OtaRowKept ==
  ASSUME PanelInv, UNCHANGED tour, OtaRow
  PROVE  Kept
<1>1. IsUi(ui) /\ IsOta(ota)
  BY InvShapes
<1>2. CASE \E r \in Checks(ui, ota) : Simply(r)
  BY <1>1, <1>2, TameChecks, SimplyTame
<1>3. CASE Simply(AskCancel(ui, ota))
  BY <1>1, <1>3, TameCancel, SimplyTame
<1> QED
  BY <1>2, <1>3, InstallRowKept, ByBackKept DEF OtaRow

LEMMA EnterOnOtaKept ==
  ASSUME PanelInv, UNCHANGED tour, ~ota.confirm, EnterOnOta
  PROVE  Kept
<1>1. IsUi(ui) /\ IsOta(ota)
  BY InvShapes
<1>2. ASSUME EnterApply PROVE Kept
  <2>1. CASE Simply(StatusScreen(ui, [ota EXCEPT !.grant = FALSE]))
    <3> DEFINE o == [ota EXCEPT !.grant = FALSE]
    <3>1. Mild(ota, o) /\ IsOta(o)
      BY <1>1, MildSet, MildIsOta
    <3> HIDE DEF o
    <3>2. Tame(ui, ota, StatusScreen(ui, o))
      BY <1>1, <3>1, TameStatus, TameAgain, CalmStays
    <3> QED
      BY <2>1, <3>2, SimplyTame DEF o
  <2>2. CASE Simply(Both(Notice(ui, "OTA"), ota))
    BY <1>1, <2>2, CalmNotice, MildStays, SimplyKept
  <2>3. CASE LET r == StatusScreen(ui, ota) IN Simply(Both(Notice(r.ui, "OTA"), r.ota))
    <3> DEFINE r == StatusScreen(ui, ota)
    <3>1. Calm(ui, r.ui) /\ Mild(ota, r.ota)
      BY <1>1, TameStatus DEF Tame
    <3>2. Simply(Both(Notice(r.ui, "OTA"), r.ota))
      BY <2>3
    <3> HIDE DEF r
    <3>3. Calm(ui, Notice(r.ui, "OTA"))
      BY <3>1, CalmIsUi, CalmNotice, CalmAgain
    <3> QED
      BY <3>1, <3>2, <3>3, SimplyKept
  <2>4. CASE BeginAuth(TRUE)
    BY <2>4, BeginAuthKept
  <2>5. CASE ~(tour.secured /\ ~ota.grant) /\ Apply
    BY <2>5, ApplyKept
  <2> QED
    BY <1>2, <2>1, <2>2, <2>3, <2>4, <2>5 DEF EnterApply
<1>3. CASE Simply(Both(OtaRows(ui), ota))
  BY <1>1, <1>3, CalmOta, MildStays, SimplyKept
<1>4. CASE BeginAuth(FALSE)
  BY <1>4, BeginAuthKept
<1>5. CASE ~tour.secured /\ Simply(Requests(ui, ota))
  BY <1>5, RequestsKept
<1>6. CASE Discard
  BY <1>6, DiscardKept
<1> QED
  BY <1>2, <1>3, <1>4, <1>5, <1>6 DEF EnterOnOta

LEMMA BackOnOtaKept ==
  ASSUME PanelInv, UNCHANGED tour, BackOnOta
  PROVE  Kept
<1>1. IsUi(ui) /\ IsOta(ota)
  BY InvShapes
<1>2. CASE Simply(Both(ShowMenu(ui, "OTA"), [Deferred(ota) EXCEPT !.grant = FALSE]))
  <2> DEFINE o == Deferred(ota)
             p == [o EXCEPT !.grant = FALSE]
  <2>1. Mild(ota, o) /\ IsOta(o)
    BY <1>1, MildOps, MildIsOta
  <2> HIDE DEF o
  <2>2. Mild(ota, p)
    BY <2>1, MildSet, MildAgain
  <2>3. Simply(Both(ShowMenu(ui, "OTA"), p))
    BY <1>2 DEF o
  <2> HIDE DEF p
  <2> QED
    BY <1>1, <2>2, <2>3, CalmShowMenu, SimplyKept
<1> QED
  BY <1>2, ConfirmUpdateKept, ByBackKept DEF BackOnOta

-----------------------------------------------------------------------------
(* The power button *)

LEMMA CalmThen ==
  ASSUME NEW u, NEW v, Calm(u, v)
  PROVE  /\ IsUi(v)
         /\ Calm(u, ExitEdit(v)) /\ Calm(u, DetailOff(v)) /\ Calm(u, LeaveDetail(v))
         /\ Calm(u, CancelFactory(v)) /\ Calm(u, Forget(v)) /\ Calm(u, GoMain(v))
         /\ Calm(u, Home(v)) /\ Calm(u, Rows(v)) /\ Calm(u, ExitDiagnostic(v))
<1>1. IsUi(v)
  BY CalmIsUi
<1>2. /\ Calm(v, ExitEdit(v)) /\ Calm(v, DetailOff(v)) /\ Calm(v, LeaveDetail(v))
      /\ Calm(v, CancelFactory(v))
  BY <1>1, CalmExits
<1>3. Calm(v, Forget(v)) /\ Calm(v, GoMain(v))
  BY <1>1, CalmForget, CalmShow
<1>4. Calm(v, Home(v)) /\ Calm(v, Rows(v)) /\ Calm(v, ExitDiagnostic(v))
  BY <1>1, CalmHome, CalmRows, CalmDiagnostic
<1> QED
  BY <1>1, <1>2, <1>3, <1>4, CalmAgain

LEMMA CalmThenSet ==
  ASSUME NEW u, NEW v, Calm(u, v), NEW s
  PROVE  /\ Calm(u, [v EXCEPT !.seq = s]) /\ Calm(u, [v EXCEPT !.menu = s])
         /\ Calm(u, [v EXCEPT !.inverter = s]) /\ Calm(u, [v EXCEPT !.edit = s])
         /\ Calm(u, [v EXCEPT !.detail = s])
<1>1. IsUi(v)
  BY CalmIsUi
<1>2. /\ Calm(v, [v EXCEPT !.seq = s]) /\ Calm(v, [v EXCEPT !.menu = s])
      /\ Calm(v, [v EXCEPT !.inverter = s]) /\ Calm(v, [v EXCEPT !.edit = s])
      /\ Calm(v, [v EXCEPT !.detail = s])
  BY <1>1, CalmSet
<1> QED
  BY <1>2, CalmAgain

LEMMA CalmThenShow ==
  ASSUME NEW u, NEW v, Calm(u, v), NEW s
  PROVE  /\ Calm(u, Show(v, s)) /\ Calm(u, ShowMenu(v, s)) /\ Calm(u, Open(v, s))
         /\ Calm(u, Notice(v, s)) /\ Calm(u, Push(v, s)) /\ Calm(u, EnterDetail(v, s))
<1>1. IsUi(v)
  BY CalmIsUi
<1>2. Calm(v, Show(v, s)) /\ Calm(v, ShowMenu(v, s)) /\ Calm(v, Open(v, s))
  BY <1>1, CalmShow, CalmShowMenu, CalmOpen
<1>3. Calm(v, Notice(v, s)) /\ Calm(v, Push(v, s)) /\ Calm(v, EnterDetail(v, s))
  BY <1>1, CalmNotice, CalmPush, CalmEnterDetail
<1> QED
  BY <1>2, <1>3, CalmAgain

LEMMA CalmPowerEnd ==
  ASSUME NEW u, NEW v, Calm(u, v)
  PROVE  Calm(u, PowerEnd(v))
<1> DEFINE m == IF v.history = <<>> THEN "NONE" ELSE Parent(v)
           h == IF v.history = <<>> THEN v.history ELSE Popped(v)
           w == [v EXCEPT !.seq = "NONE", !.menu = m, !.history = h]
<1>1. PowerEnd(v) = IF v.seq # "LATE" THEN v ELSE GoMain(CancelFactory(w))
  BY DEF PowerEnd
<1>2. Calm(u, w)
  <2> HIDE DEF m, h
  <2> QED
    BY DEF Calm, IsUi, UiFields
<1> HIDE DEF w
<1>3. Calm(u, GoMain(CancelFactory(w)))
  <2>1. Calm(u, CancelFactory(w))
    BY <1>2, CalmThen
  <2> DEFINE x == CancelFactory(w)
  <2> HIDE DEF x
  <2>2. Calm(u, x) => Calm(u, GoMain(x))
    BY CalmThen
  <2> QED
    BY <2>1, <2>2 DEF x
<1> QED
  BY <1>1, <1>3

LEMMA PowerClickKept ==
  ASSUME PanelInv, UNCHANGED tour, PowerClick
  PROVE  Kept
<1> DEFINE u == LeaveDetail(ExitEdit(ui))
           a == ExitDiagnostic(u)
           b == Home(DetailOff(CancelFactory(u)))
           c == Home(u)
           v == IF u.inverter = "DIAGNOSTIC" THEN [a EXCEPT !.seq = "NONE"]
                ELSE IF u.menu # "NONE" THEN b ELSE [c EXCEPT !.seq = "NONE"]
<1>1. /\ ui' = PowerEnd(v) /\ wifi' = Cancelled(wifi) /\ WifiOnly
  BY DEF PowerClick
<1>2. Calm(ui, ExitEdit(ui))
  BY InvShapes, CalmExits
<1>3. Calm(ui, u)
  BY <1>2, CalmThen
<1> HIDE DEF u
<1>4. Calm(ui, a) /\ Calm(ui, c) /\ Calm(ui, CancelFactory(u))
  BY <1>3, CalmThen
<1>5. Calm(ui, DetailOff(CancelFactory(u)))
  BY <1>4, CalmThen
<1>6. Calm(ui, b)
  BY <1>5, CalmThen
<1> HIDE DEF a, b, c
<1>7. Calm(ui, v)
  BY <1>4, <1>6, CalmThenSet
<1> HIDE DEF v
<1>8. Calm(ui, ui')
  BY <1>1, <1>7, CalmPowerEnd
<1>9. Linked(wifi')
  BY <1>1, InvShapes, LinkedSet
<1> QED
  BY <1>1, <1>8, <1>9, WifiKept

LEMMA CalmPowerOn ==
  ASSUME NEW u, NEW v, Calm(u, v), NEW w \in PowerOn(v)
  PROVE  Calm(u, w)
<1> DEFINE a == [v EXCEPT !.inverter = "ON", !.menu = "NONE"]
           b == [v EXCEPT !.inverter = "FAULT"]
<1>1. w = GoMain(a) \/ w = Show(b, "FAULT")
  BY DEF PowerOn
<1>2. Calm(u, a) /\ Calm(u, b)
  BY DEF Calm, IsUi, UiFields
<1> HIDE DEF a, b
<1> QED
  BY <1>1, <1>2, CalmThen, CalmThenShow

LEMMA PowerLongKept ==
  ASSUME PanelInv, UNCHANGED tour, PowerLong
  PROVE  Kept
<1> DEFINE u == ExitEdit(ui)
           a == [u EXCEPT !.menu = "NONE"]
           v == IF u.menu = "NONE" THEN u ELSE Forget(DetailOff(a))
<1>1. Calm(ui, u) /\ u.menu = ui.menu /\ u.seq = ui.seq
  <2>1. IsUi(ui)
    BY InvShapes
  <2>2. Calm(ui, u)
    BY <2>1, CalmExits
  <2> QED
    BY <2>1, <2>2 DEF ExitEdit, IsUi, UiFields
<1>2. \/ Only(PowerEnd(ExitDiagnostic(u)))
      \/ u.menu = "FACTORY_RESET" /\ u.seq # "NONE" /\ EraseByPower
      \/ Only(PowerEnd(Shutdown(v)))
      \/ \E w \in PowerOn(v) \cup {Notice(v, "AUTO")} : Only(PowerEnd(w))
      \/ Only(PowerEnd(v))
  BY DEF PowerLong
<1> HIDE DEF u
<1>3. Calm(ui, a)
  BY <1>1, CalmThenSet
<1> HIDE DEF a
<1>4. Calm(ui, DetailOff(a))
  BY <1>3, CalmThen
<1>5. Calm(ui, Forget(DetailOff(a)))
  BY <1>4, CalmThen
<1>6. Calm(ui, v)
  BY <1>1, <1>5
<1> HIDE DEF v
<1>7. CASE Only(PowerEnd(ExitDiagnostic(u)))
  <2>1. Calm(ui, ExitDiagnostic(u))
    BY <1>1, CalmThen
  <2>2. Calm(ui, PowerEnd(ExitDiagnostic(u)))
    BY <2>1, CalmPowerEnd
  <2> QED
    BY <1>7, <2>2, OnlyKept
<1>8. CASE u.menu = "FACTORY_RESET" /\ u.seq # "NONE" /\ EraseByPower
  BY <1>1, <1>8, EraseByPowerKept
<1>9. CASE Only(PowerEnd(Shutdown(v)))
  <2>1. Calm(v, Shutdown(v))
    BY <1>6, CalmThen, CalmShutdown
  <2>2. Calm(ui, Shutdown(v))
    BY <1>6, <2>1, CalmAgain
  <2>3. Calm(ui, PowerEnd(Shutdown(v)))
    BY <2>2, CalmPowerEnd
  <2> QED
    BY <1>9, <2>3, OnlyKept
<1>10. CASE \E w \in PowerOn(v) \cup {Notice(v, "AUTO")} : Only(PowerEnd(w))
  <2>1. PICK w \in PowerOn(v) \cup {Notice(v, "AUTO")} : Only(PowerEnd(w))
    BY <1>10
  <2>2. Calm(ui, w)
    BY <1>6, <2>1, CalmPowerOn, CalmThenShow
  <2>3. Calm(ui, PowerEnd(w))
    BY <2>2, CalmPowerEnd
  <2> QED
    BY <2>1, <2>3, OnlyKept
<1>11. CASE Only(PowerEnd(v))
  <2>1. Calm(ui, PowerEnd(v))
    BY <1>6, CalmPowerEnd
  <2> QED
    BY <1>11, <2>1, OnlyKept
<1> QED
  BY <1>2, <1>7, <1>8, <1>9, <1>10, <1>11

LEMMA PowerDoubleKept ==
  ASSUME PanelInv, UNCHANGED tour, PowerDouble
  PROVE  Kept
<1> DEFINE u == ExitEdit(ui)
           a == Notice(u, "AUTO")
           b == ExitDiagnostic(u)
           c == EnterDiagnostic(Forget(DetailOff(u)))
<1>1. \/ Only(PowerEnd(a))
      \/ Only([b EXCEPT !.seq = "NONE"])
      \/ Only([c EXCEPT !.seq = "NONE"])
  BY DEF PowerDouble
<1>2. Calm(ui, u)
  BY InvShapes, CalmExits
<1> HIDE DEF u
<1>3. Calm(ui, a) /\ Calm(ui, b) /\ Calm(ui, DetailOff(u))
  BY <1>2, CalmThen, CalmThenShow
<1>4. Calm(ui, Forget(DetailOff(u))) /\ IsUi(Forget(DetailOff(u)))
  BY <1>3, CalmThen, CalmIsUi
<1>5. Calm(Forget(DetailOff(u)), c)
  BY <1>4, CalmDiagnostic
<1>6. Calm(ui, c)
  BY <1>4, <1>5, CalmAgain
<1> HIDE DEF a, b, c
<1>7. /\ Calm(ui, PowerEnd(a))
      /\ Calm(ui, [b EXCEPT !.seq = "NONE"]) /\ Calm(ui, [c EXCEPT !.seq = "NONE"])
  BY <1>3, <1>6, CalmPowerEnd, CalmThenSet
<1> QED
  BY <1>1, <1>7, OnlyKept

LEMMA PowerTripleKept ==
  ASSUME PanelInv, UNCHANGED tour, PowerTriple
  PROVE  Kept
<1> DEFINE a == IF ui.inverter = "DIAGNOSTIC" THEN ExitDiagnostic(ui) ELSE ui
           u == DetailOff(ExitEdit(a))
           p == Push(u, u.menu)
           q == [p EXCEPT !.menu = "FACTORY_RESET", !.seq = "ARMED"]
<1>1. \/ Only(PowerEnd(Notice(ui, "AUTO")))
      \/ Only(Show(q, "CONFIRM"))
  BY DEF PowerTriple
<1>2. Calm(ui, a) /\ Calm(ui, Notice(ui, "AUTO"))
  BY InvShapes, CalmDiagnostic, CalmStays, CalmNotice
<1> HIDE DEF a
<1>3. Calm(ui, ExitEdit(a))
  BY <1>2, CalmThen
<1>4. Calm(ui, u)
  BY <1>3, CalmThen
<1> HIDE DEF u
<1>5. Calm(ui, p)
  BY <1>4, CalmThenShow
<1> HIDE DEF p
<1>6. Calm(ui, q)
  BY <1>5 DEF Calm, IsUi, UiFields
<1> HIDE DEF q
<1>7. Calm(ui, Show(q, "CONFIRM")) /\ Calm(ui, PowerEnd(Notice(ui, "AUTO")))
  BY <1>2, <1>6, CalmThenShow, CalmPowerEnd
<1> QED
  BY <1>1, <1>7, OnlyKept

LEMMA TameThenExit ==
  ASSUME NEW u, NEW o, NEW r, Tame(u, o, r)
  PROVE  Tame(u, o, ExitOta(r.ui, r.ota))
<1>1. Calm(u, r.ui) /\ Mild(o, r.ota)
  BY DEF Tame
<1> DEFINE v == r.ui
           p == r.ota
<1>2. Calm(u, v) /\ Mild(o, p)
  BY <1>1
<1> HIDE DEF v, p
<1>3. IsUi(v) /\ IsOta(p)
  BY <1>2, CalmIsUi, MildIsOta
<1>4. Tame(v, p, ExitOta(v, p))
  BY <1>3, TameExit
<1>5. Tame(u, o, ExitOta(v, p))
  BY <1>2, <1>4, TameAgain
<1> QED
  BY <1>5 DEF v, p

LEMMA TameShowMenu ==
  ASSUME NEW u, NEW o, NEW r, Tame(u, o, r), NEW m
  PROVE  Tame(u, o, Both(ShowMenu(r.ui, m), r.ota))
<1>1. Calm(u, r.ui) /\ Mild(o, r.ota)
  BY DEF Tame
<1> DEFINE v == r.ui
           p == r.ota
<1>2. Calm(u, v) /\ Mild(o, p)
  BY <1>1
<1> HIDE DEF v, p
<1>3. Calm(u, ShowMenu(v, m))
  BY <1>2, CalmThenShow
<1>4. Tame(u, o, Both(ShowMenu(v, m), p))
  BY <1>2, <1>3, TameBoth
<1> QED
  BY <1>4 DEF v, p

LEMMA KeepUpdateKept ==
  ASSUME PanelInv, UNCHANGED tour, Simply(Both(ShowMenu(ui, "OTA"), DismissCancel(ota)))
  PROVE  Kept
<1>1. Calm(ui, ShowMenu(ui, "OTA")) /\ Mild(ota, DismissCancel(ota))
  BY InvShapes, CalmShowMenu, MildOps
<1> QED
  BY <1>1, SimplyKept

LEMMA PowerPromptKept ==
  ASSUME PanelInv, UNCHANGED tour, NEW c, PowerPrompt(c)
  PROVE  Kept
<1>1. IsUi(ui) /\ IsOta(ota)
  BY InvShapes
<1> DEFINE a == CancelNeed(ui, ota)
           b == Cancel(ui, ota)
<1>2. \/ Simply(ExitOta(a.ui, a.ota))
      \/ Simply(ExitOta(b.ui, b.ota))
      \/ Simply(Both(ShowMenu(ui, "OTA"), DismissCancel(ota)))
      \/ Simply(AskCancel(ui, ota))
      \/ Simply(ExitOta(ui, ota))
  BY DEF PowerPrompt
<1>3. Tame(ui, ota, a) /\ Tame(ui, ota, b) /\ Tame(ui, ota, AskCancel(ui, ota))
  BY <1>1, TameNeed, TameCancel
<1> HIDE DEF a, b
<1>4. /\ Tame(ui, ota, ExitOta(a.ui, a.ota))
      /\ Tame(ui, ota, ExitOta(b.ui, b.ota))
      /\ Tame(ui, ota, ExitOta(ui, ota))
  BY <1>1, <1>3, TameThenExit, TameExit
<1>5. CASE Simply(ExitOta(a.ui, a.ota))
  BY <1>4, <1>5, SimplyTame
<1>6. CASE Simply(ExitOta(b.ui, b.ota))
  BY <1>4, <1>6, SimplyTame
<1>7. CASE Simply(Both(ShowMenu(ui, "OTA"), DismissCancel(ota)))
  BY <1>7, KeepUpdateKept
<1>8. CASE Simply(AskCancel(ui, ota))
  BY <1>3, <1>8, SimplyTame
<1>9. CASE Simply(ExitOta(ui, ota))
  BY <1>4, <1>9, SimplyTame
<1> QED
  BY <1>2, <1>5, <1>6, <1>7, <1>8, <1>9

LEMMA PowerKept ==
  ASSUME PanelInv, UNCHANGED tour, NEW e, Power(e)
  PROVE  Kept
<1>1. \/ \E c : PowerPrompt(c)
      \/ Only(LeaveFactoryHome(ui))
      \/ PowerClick \/ PowerLong \/ PowerDouble \/ PowerTriple
      \/ Only(PowerEnd(ui))
      \/ Nothing
  BY DEF Power
<1>2. Calm(ui, LeaveFactoryHome(ui)) /\ Calm(ui, ui)
  BY InvShapes, CalmLeaves, CalmStays
<1>3. Calm(ui, PowerEnd(ui))
  BY <1>2, CalmPowerEnd
<1>4. CASE \E c : PowerPrompt(c)
  BY <1>4, PowerPromptKept
<1>5. CASE Only(LeaveFactoryHome(ui))
  BY <1>2, <1>5, OnlyKept
<1>6. CASE PowerClick \/ PowerLong \/ PowerDouble \/ PowerTriple
  BY <1>6, PowerClickKept, PowerLongKept, PowerDoubleKept, PowerTripleKept
<1>7. CASE Only(PowerEnd(ui))
  BY <1>3, <1>7, OnlyKept
<1>8. CASE Nothing
  BY <1>8, NothingKept
<1> QED
  BY <1>1, <1>4, <1>5, <1>6, <1>7, <1>8

-----------------------------------------------------------------------------
(* The enter button.  Its order of claims says what holds where a handler runs *)

LEMMA EnterClaims ==
  ASSUME NEW e
  PROVE  /\ EnterClaim(e) = "OTA_SCREEN" => ~ota.confirm
         /\ EnterClaim(e) = "ERASE" => ui.phase = "CONFIRM"
<1>1. EnterClaim(e) = "OTA_SCREEN" => ~ota.confirm
  <2>1. SUFFICES ASSUME EnterClaim(e) = "OTA_SCREEN" PROVE ~ota.confirm
    OBVIOUS
  <2>2. e = "CLICK"
    BY <2>1 DEF EnterClaim
  <2> QED
    BY <2>1, <2>2 DEF EnterClaim
<1>2. EnterClaim(e) = "ERASE" => ui.phase = "CONFIRM"
  BY DEF EnterClaim
<1> QED
  BY <1>1, <1>2

LEMMA EnterLogKept ==
  ASSUME PanelInv, UNCHANGED tour, NEW e, EnterLog(e)
  PROVE  Kept
<1> DEFINE u == IF e = "CLICK" THEN [ui EXCEPT !.detail = "ENTRY"]
                ELSE IF e = "LONG" THEN [ui EXCEPT !.detail = "LOG"] ELSE ui
<1>1. Only(u)
  BY DEF EnterLog
<1>2. Calm(ui, u)
  BY InvShapes, CalmSet, CalmStays
<1> HIDE DEF u
<1> QED
  BY <1>1, <1>2, OnlyKept

LEMMA EnterPromptKept ==
  ASSUME PanelInv, UNCHANGED tour, NEW c, EnterPrompt(c)
  PROVE  Kept
<1>1. \/ ConfirmNeed \/ ConfirmUpdate
      \/ Simply(Cancel(ui, DismissCancel(ota)))
      \/ ConfirmForget \/ ConfirmDisconnect
  BY DEF EnterPrompt
<1>2. CASE ConfirmNeed \/ ConfirmUpdate
  BY <1>2, ConfirmNeedKept, ConfirmUpdateKept
<1>3. CASE Simply(Cancel(ui, DismissCancel(ota)))
  <2> DEFINE o == DismissCancel(ota)
  <2>1. IsUi(ui) /\ Calm(ui, ui) /\ Mild(ota, o)
    BY InvShapes, CalmStays, MildOps
  <2> HIDE DEF o
  <2>2. Tame(ui, o, Cancel(ui, o))
    BY <2>1, TameCancel, MildIsOta
  <2>3. Tame(ui, ota, Cancel(ui, o))
    BY <2>1, <2>2, TameAgain
  <2>4. Simply(Cancel(ui, o))
    BY <1>3 DEF o
  <2> QED
    BY <2>3, <2>4, SimplyTame
<1>4. CASE ConfirmForget \/ ConfirmDisconnect
  BY <1>4, SavedKept, ConnectKept
<1> QED
  BY <1>1, <1>2, <1>3, <1>4

LEMMA EnterWifiKept ==
  ASSUME PanelInv, UNCHANGED tour, NEW c, EnterWifi(c)
  PROVE  Kept
<1>1. \/ SubmitPassword \/ ConnectSelected \/ Scan \/ AnswerDelete \/ AskDelete \/ Nothing
      \/ wifi' = Cancelled(wifi) /\ Stays /\ Quietly /\ WifiOnly
  BY DEF EnterWifi, EnterScan
<1>2. CASE SubmitPassword \/ ConnectSelected
  BY <1>2, ConnectKept
<1>3. CASE Scan
  BY <1>3, ScanKept
<1>4. CASE AnswerDelete \/ AskDelete
  BY <1>4, WifiViewKept
<1>5. CASE Nothing
  BY <1>5, NothingKept
<1>6. CASE wifi' = Cancelled(wifi) /\ Stays /\ Quietly /\ WifiOnly
  <2>1. Linked(wifi')
    BY <1>6, InvShapes, LinkedSet
  <2>2. Calm(ui, ui')
    BY <1>6, InvShapes, CalmStays DEF Stays
  <2> QED
    BY <1>6, <2>1, <2>2, WifiKept
<1> QED
  BY <1>1, <1>2, <1>3, <1>4, <1>5, <1>6

LEMMA SaveEditKept ==
  ASSUME PanelInv, UNCHANGED tour, SaveEdit
  PROVE  Kept
<1> DEFINE u == Rows(ExitEdit(ui))
<1>1. (\E to \in {"AUTO", "MENU"} : Only(Notice(u, to))) \/ (Toggle(u) /\ WifiOnly)
  BY DEF SaveEdit
<1>2. Calm(ui, ExitEdit(ui))
  BY InvShapes, CalmExits
<1>3. Calm(ui, u)
  BY <1>2, CalmThen
<1> HIDE DEF u
<1>4. CASE \E to \in {"AUTO", "MENU"} : Only(Notice(u, to))
  BY <1>3, <1>4, CalmThenShow, OnlyKept
<1>5. CASE Toggle(u) /\ WifiOnly
  <2>1. PICK work : Admit(u, work)
    BY <1>5 DEF Toggle
  <2>2. Calm(ui, ui') /\ Linked(wifi')
    BY <1>3, <2>1, AdmitCalm
  <2> QED
    BY <1>5, <2>2, WifiKept
<1> QED
  BY <1>1, <1>4, <1>5

LEMMA CalmOpened ==
  ASSUME PanelInv, NEW m
  PROVE  Calm(ui, Opened(m)) /\ Calm(ui, Rows(Opened(m))) /\ Calm(ui, Show(Opened(m), "INFO"))
<1> DEFINE u == [ui EXCEPT !.menu = m]
           p == Push(u, ui.menu)
<1>1. Calm(ui, u)
  BY InvShapes, CalmSet
<1> HIDE DEF u
<1>2. Calm(ui, p)
  BY <1>1, CalmThenShow
<1>3. Opened(m) = p
  BY DEF Opened, u
<1> HIDE DEF p
<1> QED
  BY <1>2, <1>3, CalmThen, CalmThenShow

LEMMA OpenRowKept ==
  ASSUME PanelInv, UNCHANGED tour, NEW items, OpenRow(items)
  PROVE  Kept
<1>1. PICK m \in tour.menus \cap items :
        EnterOta(Opened(m)) \/ Only(Show(Opened(m), "INFO")) \/ Only(Rows(Opened(m)))
  BY DEF OpenRow
<1>2. Calm(ui, Opened(m)) /\ Calm(ui, Rows(Opened(m))) /\ Calm(ui, Show(Opened(m), "INFO"))
  BY CalmOpened
<1>3. CASE EnterOta(Opened(m))
  BY <1>2, <1>3, EnterOtaKept
<1>4. CASE Only(Show(Opened(m), "INFO"))
  BY <1>2, <1>4, OnlyKept
<1>5. CASE Only(Rows(Opened(m)))
  BY <1>2, <1>5, OnlyKept
<1> QED
  BY <1>1, <1>3, <1>4, <1>5

LEMMA DetailRowKept ==
  ASSUME PanelInv, UNCHANGED tour, MonitorRow \/ DiagnosticRow \/ EditRow
  PROVE  Kept
<1>1. IsUi(ui)
  BY InvShapes
<1>2. ASSUME NEW d, Only(Show(EnterDetail(ui, d), "DETAIL")) PROVE Kept
  <2>1. Calm(ui, EnterDetail(ui, d))
    BY <1>1, CalmEnterDetail
  <2>2. Calm(ui, Show(EnterDetail(ui, d), "DETAIL"))
    BY <2>1, CalmThenShow
  <2> QED
    BY <1>2, <2>2, OnlyKept
<1>3. ASSUME EditRow PROVE Kept
  <2> DEFINE u == [ui EXCEPT !.edit = "OPEN"]
  <2>1. Calm(ui, u)
    BY <1>1, CalmSet
  <2> HIDE DEF u
  <2>2. Calm(ui, Show(u, "VALUE_EDIT"))
    BY <2>1, CalmThenShow
  <2>3. Only(Show(u, "VALUE_EDIT"))
    BY <1>3 DEF EditRow, u
  <2> QED
    BY <2>2, <2>3, OnlyKept
<1> QED
  BY <1>2, <1>3 DEF MonitorRow, DiagnosticRow

LEMMA EnterClickKept ==
  ASSUME PanelInv, UNCHANGED tour, EnterClick
  PROVE  Kept
<1>1. \/ Nothing \/ OpenRow(Menus \ {"WIFI_SETTINGS"})
      \/ EditRow \/ MonitorRow \/ DiagnosticRow \/ WifiMenuRow \/ WifiSettingsRow
      \/ OtaRow \/ FactoryRow \/ SecurityRow
  BY DEF EnterClick
<1>2. CASE Nothing
  BY <1>2, NothingKept
<1>3. CASE OpenRow(Menus \ {"WIFI_SETTINGS"})
  BY <1>3, OpenRowKept
<1>4. CASE EditRow \/ MonitorRow \/ DiagnosticRow
  BY <1>4, DetailRowKept
<1>5. CASE WifiMenuRow \/ WifiSettingsRow
  BY <1>5, WifiMenuRowKept, WifiSettingsRowKept
<1>6. CASE OtaRow \/ FactoryRow \/ SecurityRow
  BY <1>6, OtaRowKept, FactoryRowKept, SecurityRowKept
<1> QED
  BY <1>1, <1>2, <1>3, <1>4, <1>5, <1>6

LEMMA EnterLongKept ==
  ASSUME PanelInv, UNCHANGED tour, EnterLong
  PROVE  Kept
<1>1. \/ Nothing \/ OpenRow(Menus \ {"WIFI_SETTINGS", "SECURITY", "SYSTEM_INFO"})
      \/ MonitorRow \/ DiagnosticRow \/ WifiMenuRow \/ WifiSettingsRow \/ OtaRow
      \/ Only(Open(ui, "MAIN_MENU")) \/ Only(Restart(ui))
  BY DEF EnterLong
<1>2. CASE Nothing
  BY <1>2, NothingKept
<1>3. CASE OpenRow(Menus \ {"WIFI_SETTINGS", "SECURITY", "SYSTEM_INFO"})
  BY <1>3, OpenRowKept
<1>4. CASE MonitorRow \/ DiagnosticRow
  BY <1>4, DetailRowKept
<1>5. CASE WifiMenuRow \/ WifiSettingsRow
  BY <1>5, WifiMenuRowKept, WifiSettingsRowKept
<1>6. CASE OtaRow
  BY <1>6, OtaRowKept
<1>7. CASE Only(Open(ui, "MAIN_MENU")) \/ Only(Restart(ui))
  <2>1. Calm(ui, Open(ui, "MAIN_MENU")) /\ Calm(ui, Restart(ui))
    BY InvShapes, CalmOpen, CalmRestart
  <2> QED
    BY <1>7, <2>1, OnlyKept
<1> QED
  BY <1>1, <1>2, <1>3, <1>4, <1>5, <1>6, <1>7

LEMMA EnterDoubleKept ==
  ASSUME PanelInv, UNCHANGED tour, EnterDouble
  PROVE  Kept
<1>1. Only(Rows(ExitEdit(ui))) \/ Only(Rows(Opened("MONITORING"))) \/ Nothing
  BY DEF EnterDouble
<1>2. Calm(ui, ExitEdit(ui))
  BY InvShapes, CalmExits
<1>3. Calm(ui, Rows(ExitEdit(ui))) /\ Calm(ui, Rows(Opened("MONITORING")))
  BY <1>2, CalmThen, CalmOpened
<1> QED
  BY <1>1, <1>3, OnlyKept, NothingKept

LEMMA EnterKept ==
  ASSUME PanelInv, UNCHANGED tour, NEW e, Enter(e)
  PROVE  Kept
<1>1. \/ EnterLog(e) \/ \E c : EnterPrompt(c) \/ EnterWifi(c)
      \/ EnterFactoryPin("ENTER") \/ PinFlow("ENTER")
      \/ CloseStatus \/ SaveEdit \/ EnterClick \/ EnterLong \/ EnterDouble \/ Nothing
      \/ EnterClaim(e) = "OTA_SCREEN" /\ EnterOnOta
      \/ EnterClaim(e) = "ERASE" /\ ConfirmErasure
  BY DEF Enter
<1>2. CASE EnterLog(e)
  BY <1>2, EnterLogKept
<1>3. CASE \E c : EnterPrompt(c) \/ EnterWifi(c)
  BY <1>3, EnterPromptKept, EnterWifiKept
<1>4. CASE EnterFactoryPin("ENTER") \/ PinFlow("ENTER")
  BY <1>4, EnterFactoryPinKept, PinFlowKept
<1>5. CASE CloseStatus \/ SaveEdit
  BY <1>5, CloseStatusKept, SaveEditKept
<1>6. CASE EnterClick \/ EnterLong \/ EnterDouble \/ Nothing
  BY <1>6, EnterClickKept, EnterLongKept, EnterDoubleKept, NothingKept
<1>7. CASE EnterClaim(e) = "OTA_SCREEN" /\ EnterOnOta
  BY <1>7, EnterClaims, EnterOnOtaKept
<1>8. CASE EnterClaim(e) = "ERASE" /\ ConfirmErasure
  BY <1>8, EnterClaims, ConfirmErasureKept
<1> QED
  BY <1>1, <1>2, <1>3, <1>4, <1>5, <1>6, <1>7, <1>8

-----------------------------------------------------------------------------
(* The up, down and back buttons *)

LEMMA MoveKept ==
  ASSUME PanelInv, UNCHANGED tour, NEW e, Move(e)
  PROVE  Kept
<1>1. \/ AskDiscard \/ Nothing \/ ChangeValue \/ LeaveByHold
      \/ Only(Show(ui, "MENU")) \/ Only(Rows(ui))
  BY DEF Move
<1>2. IsUi(ui) /\ Calm(ui, Show(ui, "MENU")) /\ Calm(ui, Rows(ui)) /\ Calm(ui, LeaveDetail(ui))
  BY InvShapes, CalmShow, CalmRows, CalmExits
<1>3. CASE AskDiscard
  BY <1>3, DiscardKept
<1>4. CASE Nothing
  BY <1>4, NothingKept
<1>5. CASE ChangeValue
  <2>1. PICK edit : Only(Show([ui EXCEPT !.edit = edit], "VALUE_EDIT"))
    BY <1>5 DEF ChangeValue
  <2> DEFINE u == [ui EXCEPT !.edit = edit]
  <2>2. Calm(ui, u)
    BY <1>2, CalmSet
  <2> HIDE DEF u
  <2>3. Calm(ui, Show(u, "VALUE_EDIT"))
    BY <2>2, CalmThenShow
  <2>4. Only(Show(u, "VALUE_EDIT"))
    BY <2>1 DEF u
  <2> QED
    BY <2>3, <2>4, OnlyKept
<1>6. CASE LeaveByHold
  <2> DEFINE u == LeaveDetail(ui)
             v == [u EXCEPT !.menu = DetailParent]
  <2>1. Only(Show(ui, "DETAIL")) \/ Only(Rows(v))
    BY <1>6 DEF LeaveByHold
  <2>2. Calm(ui, u) /\ Calm(ui, Show(ui, "DETAIL"))
    BY <1>2, CalmShow
  <2> HIDE DEF u
  <2>3. Calm(ui, v)
    BY <2>2, CalmThenSet
  <2> HIDE DEF v
  <2>4. Calm(ui, Rows(v))
    BY <2>3, CalmThen
  <2> QED
    BY <2>1, <2>2, <2>4, OnlyKept
<1>7. CASE Only(Show(ui, "MENU")) \/ Only(Rows(ui))
  BY <1>2, <1>7, OnlyKept
<1> QED
  BY <1>1, <1>3, <1>4, <1>5, <1>6, <1>7

LEMMA BackPromptKept ==
  ASSUME PanelInv, UNCHANGED tour, NEW c, BackPrompt(c)
  PROVE  Kept
<1>1. IsUi(ui) /\ IsOta(ota) /\ Linked(wifi)
  BY InvShapes
<1> DEFINE r == Cancel(ui, ota)
           u == DetailOff(CancelFactory(ui))
<1>2. \/ wifi' = [wifi EXCEPT !.editing = FALSE] /\ ui' = Rows(ui) /\ WifiOnly
      \/ Simply(Both(ShowMenu(r.ui, "OTA"), r.ota))
      \/ Simply(Both(ShowMenu(ui, "OTA"), DismissCancel(ota)))
      \/ Only(Rows(u))
  BY DEF BackPrompt
<1>3. CASE wifi' = [wifi EXCEPT !.editing = FALSE] /\ ui' = Rows(ui) /\ WifiOnly
  <2>1. Calm(ui, ui')
    BY <1>1, <1>3, CalmRows
  <2>2. Linked(wifi')
    BY <1>1, <1>3, LinkedSet
  <2> QED
    BY <1>3, <2>1, <2>2, WifiKept
<1>4. CASE Simply(Both(ShowMenu(r.ui, "OTA"), r.ota))
  <2>1. Tame(ui, ota, r)
    BY <1>1, TameCancel
  <2> HIDE DEF r
  <2>2. Tame(ui, ota, Both(ShowMenu(r.ui, "OTA"), r.ota))
    BY <2>1, TameShowMenu
  <2> QED
    BY <1>4, <2>2, SimplyTame
<1>5. CASE Simply(Both(ShowMenu(ui, "OTA"), DismissCancel(ota)))
  BY <1>5, KeepUpdateKept
<1>6. CASE Only(Rows(u))
  <2>1. Calm(ui, CancelFactory(ui))
    BY <1>1, CalmExits
  <2>2. Calm(ui, u)
    BY <2>1, CalmThen
  <2> HIDE DEF u
  <2>3. Calm(ui, Rows(u))
    BY <2>2, CalmThen
  <2> QED
    BY <1>6, <2>3, OnlyKept
<1> QED
  BY <1>2, <1>3, <1>4, <1>5, <1>6

LEMMA BackWifiKept ==
  ASSUME PanelInv, UNCHANGED tour, NEW c, BackWifi(c)
  PROVE  Kept
<1>1. IsUi(ui) /\ Linked(wifi)
  BY InvShapes
<1> DEFINE m == IF ui.menu = "WIFI_SETTINGS" THEN "WIFI_SETTINGS" ELSE "WIFI_CONFIG"
           u == [ui EXCEPT !.delete = FALSE]
           w == [wifi EXCEPT !.forget = FALSE, !.leave = FALSE]
<1>2. \/ AnswerDelete
      \/ Only(ShowMenu(u, m))
      \/ wifi' = w /\ ui' = ShowMenu(ui, "WIFI_SETTINGS") /\ WifiOnly
      \/ Only(ShowView(ui, "WIFI_SCAN", "FOUND"))
      \/ wifi' = Cancelled(wifi) /\ ui' = ShowMenu(ui, "WIFI_CONFIG") /\ WifiOnly
      \/ Only(ShowMenu(ui, "WIFI_CONFIG"))
  BY DEF BackWifi
<1>3. Calm(ui, u) /\ Linked(w)
  BY <1>1 DEF Calm, IsUi, UiFields, Linked, IsWifi, WifiFields
<1> HIDE DEF m, u, w
<1>4. Calm(ui, ShowMenu(u, m))
  BY <1>3, CalmThenShow
<1>5. /\ Calm(ui, ShowMenu(ui, "WIFI_SETTINGS")) /\ Calm(ui, ShowMenu(ui, "WIFI_CONFIG"))
      /\ Calm(ui, ShowView(ui, "WIFI_SCAN", "FOUND")) /\ Linked(Cancelled(wifi))
  BY <1>1, CalmShowMenu, CalmShow, LinkedSet
<1>6. CASE AnswerDelete
  BY <1>6, WifiViewKept
<1>7. CASE Only(ShowMenu(u, m)) \/ Only(ShowView(ui, "WIFI_SCAN", "FOUND"))
             \/ Only(ShowMenu(ui, "WIFI_CONFIG"))
  BY <1>4, <1>5, <1>7, OnlyKept
<1>8. CASE wifi' = w /\ ui' = ShowMenu(ui, "WIFI_SETTINGS") /\ WifiOnly
  BY <1>3, <1>5, <1>8, WifiKept
<1>9. CASE wifi' = Cancelled(wifi) /\ ui' = ShowMenu(ui, "WIFI_CONFIG") /\ WifiOnly
  BY <1>5, <1>9, WifiKept
<1> QED
  BY <1>2, <1>6, <1>7, <1>8, <1>9

LEMMA CalmBackHome ==
  ASSUME PanelInv
  PROVE  Calm(ui, BackHome)
<1> DEFINE u == [ui EXCEPT !.inverter = ui.previous, !.menu = "NONE"]
           a == Open(ui, "MAIN_MENU")
           b == ExitEdit(u)
<1>1. BackHome \in {ui, Home(ui), Forget(a), GoMain(b)}
  BY DEF BackHome
<1>2. IsUi(ui)
  BY InvShapes
<1>3. Calm(ui, u)
  BY <1>2 DEF Calm, IsUi, UiFields
<1>4. Calm(ui, a)
  BY <1>2, CalmOpen
<1> HIDE DEF u
<1>5. Calm(ui, b)
  BY <1>3, CalmThen
<1> HIDE DEF a, b
<1>6. Calm(ui, Forget(a)) /\ Calm(ui, GoMain(b)) /\ Calm(ui, ui) /\ Calm(ui, Home(ui))
  BY <1>2, <1>4, <1>5, CalmThen, CalmStays, CalmHome
<1> QED
  BY <1>1, <1>6

LEMMA BackClickKept ==
  ASSUME PanelInv, UNCHANGED tour, BackClick
  PROVE  Kept
<1>1. IsUi(ui) /\ IsOta(ota)
  BY InvShapes
<1> DEFINE a == Rows(ExitEdit(ui))
           b == Rows(LeaveDetail(ui))
           r == CancelNeed(ui, ota)
<1>2. \/ Only(LeaveFactory(ui)) \/ Only(Notice(a, "MENU")) \/ Only(b)
      \/ Simply(Both(ShowMenu(r.ui, "OTA"), r.ota))
      \/ ExitByBack
      \/ Only(Back(ui)) \/ Only(BackHome)
  BY DEF BackClick
<1>3. /\ Calm(ui, LeaveFactory(ui)) /\ Calm(ui, Back(ui)) /\ Calm(ui, BackHome)
      /\ Calm(ui, ExitEdit(ui)) /\ Calm(ui, LeaveDetail(ui))
  BY <1>1, CalmLeaves, CalmBack, CalmBackHome, CalmExits
<1>4. Calm(ui, a) /\ Calm(ui, b)
  BY <1>3, CalmThen
<1> HIDE DEF a, b
<1>5. Calm(ui, Notice(a, "MENU"))
  BY <1>4, CalmThenShow
<1>6. Tame(ui, ota, r)
  BY <1>1, TameNeed
<1> HIDE DEF r
<1>7. Tame(ui, ota, Both(ShowMenu(r.ui, "OTA"), r.ota))
  BY <1>6, TameShowMenu
<1>8. CASE \/ Only(LeaveFactory(ui)) \/ Only(Notice(a, "MENU")) \/ Only(b)
           \/ Only(Back(ui)) \/ Only(BackHome)
  BY <1>3, <1>4, <1>5, <1>8, OnlyKept
<1>9. CASE Simply(Both(ShowMenu(r.ui, "OTA"), r.ota))
  BY <1>7, <1>9, SimplyTame
<1>10. CASE ExitByBack
  BY <1>10, ByBackKept
<1> QED
  BY <1>2, <1>8, <1>9, <1>10

LEMMA BackButtonKept ==
  ASSUME PanelInv, UNCHANGED tour, NEW e, BackButton(e)
  PROVE  Kept
<1>1. \/ \E c : BackPrompt(c) \/ BackWifi(c)
      \/ PinFlow("BACK") \/ CloseStatus \/ BackOnOta \/ ExitByBack \/ BackClick \/ Nothing
      \/ Only(Open(ui, "MAIN_MENU"))
  BY DEF BackButton
<1>2. CASE \E c : BackPrompt(c) \/ BackWifi(c)
  BY <1>2, BackPromptKept, BackWifiKept
<1>3. CASE PinFlow("BACK")
  BY <1>3, PinFlowKept
<1>4. CASE CloseStatus
  BY <1>4, CloseStatusKept
<1>5. CASE BackOnOta \/ ExitByBack
  BY <1>5, BackOnOtaKept, ByBackKept
<1>6. CASE BackClick \/ Nothing
  BY <1>6, BackClickKept, NothingKept
<1>7. CASE Only(Open(ui, "MAIN_MENU"))
  BY <1>7, InvShapes, CalmOpen, OnlyKept
<1> QED
  BY <1>1, <1>2, <1>3, <1>4, <1>5, <1>6, <1>7

LEMMA HandleKept ==
  ASSUME PanelInv, UNCHANGED tour, NEW b, NEW e, Handle(b, e)
  PROVE  Kept
BY PowerKept, EnterKept, MoveKept, BackButtonKept DEF Handle

-----------------------------------------------------------------------------
(* Gestures: an event is swallowed, wakes the display, or reaches its handler *)

LEMMA WakingKept ==
  ASSUME PanelInv, UNCHANGED tour, Only(GoMain(ui))
  PROVE  Kept
BY InvShapes, CalmShow, OnlyKept

LEMMA DeliverKept ==
  ASSUME PanelInv, UNCHANGED tour, NEW b, NEW e, NEW n, NEW stage, NEW count,
         Deliver(b, e, n, stage, count)
  PROVE  Kept
<1>1. Nothing \/ Only(GoMain(ui)) \/ Handle(b, e)
  BY DEF Deliver
<1> QED
  BY <1>1, NothingKept, WakingKept, HandleKept

LEMMA PressKept ==
  ASSUME PanelInv, UNCHANGED tour, NEW b, Press(b)
  PROVE  Kept
<1>1. \/ Deliver(b, "PRESS", 0, "DOWN", 0)
      \/ (ui' = GoMain(ui) \/ ui' = ui) /\ ScreenOnly
  BY DEF Press
<1>2. CASE Deliver(b, "PRESS", 0, "DOWN", 0)
  BY <1>2, DeliverKept
<1>3. CASE (ui' = GoMain(ui) \/ ui' = ui) /\ ScreenOnly
  <2>1. Calm(ui, ui')
    BY <1>3, InvShapes, CalmShow, CalmStays
  <2>2. Linked(wifi') /\ UNCHANGED <<pin, ota>>
    BY <1>3, InvShapes DEF ScreenOnly
  <2> QED
    BY <2>1, <2>2, Calmly
<1> QED
  BY <1>1, <1>2, <1>3

LEMMA TapKept ==
  ASSUME PanelInv, UNCHANGED tour, NEW b, NEW e, Tap(b, e)
  PROVE  Kept
<1>1. Only(GoMain(ui)) \/ Handle(b, e)
  BY DEF Tap
<1> QED
  BY <1>1, WakingKept, HandleKept

LEMMA UserKept ==
  ASSUME PanelInv, UNCHANGED tour, User \/ WalksAway
  PROVE  Kept
<1>1. \/ \E g \in Gestures : Tap(g[1], g[2])
      \/ \E b \in Buttons : Press(b)
      \/ Nothing
      \/ PressAgain \/ Hold \/ Release \/ Settle
  BY DEF User, WalksAway
<1>2. CASE \E g \in Gestures : Tap(g[1], g[2])
  BY <1>2, TapKept
<1>3. CASE \E b \in Buttons : Press(b)
  BY <1>3, PressKept
<1>4. CASE Nothing
  BY <1>4, NothingKept
<1>5. CASE PressAgain \/ Hold \/ Release \/ Settle
  <2>1. \E b, e, n, stage, count : Deliver(b, e, n, stage, count)
    BY <1>5 DEF PressAgain, Hold, Release, Settle
  <2> QED
    BY <2>1, DeliverKept
<1> QED
  BY <1>1, <1>2, <1>3, <1>4, <1>5

-----------------------------------------------------------------------------
(* The other tasks *)

LEMMA ScreenEndsKept ==
  ASSUME PanelInv, UNCHANGED tour, FlashEnds \/ FaultLapses \/ Standby \/ SequenceLapses
  PROVE  Kept
<1> DEFINE a == [ui EXCEPT !.screen = ui.flash, !.flash = "NONE"]
           b == [ui EXCEPT !.screen = "MAIN"]
           c == Show(ui, "STANDBY")
           d == [ui EXCEPT !.seq = "LATE"]
<1>1. Only(a) \/ Only(b) \/ Only(c) \/ Only(d)
  BY DEF FlashEnds, FaultLapses, Standby, SequenceLapses
<1>2. Calm(ui, a)
  BY InvShapes DEF Calm, IsUi, UiFields
<1>3. Calm(ui, b) /\ Calm(ui, c) /\ Calm(ui, d)
  BY InvShapes, CalmSet, CalmShow
<1> HIDE DEF a, b, c, d
<1> QED
  BY <1>1, <1>2, <1>3, OnlyKept

LEMMA MenuTimeoutKept ==
  ASSUME PanelInv, UNCHANGED tour, MenuTimeout
  PROVE  Kept
<1> DEFINE u == DetailOff(ExitEdit(ui))
           v == IF u.menu = "FACTORY_RESET" THEN CancelFactory(u) ELSE u
<1>1. Only(Home(v))
  BY DEF MenuTimeout
<1>2. Calm(ui, ExitEdit(ui))
  BY InvShapes, CalmExits
<1>3. Calm(ui, u)
  BY <1>2, CalmThen
<1> HIDE DEF u
<1>4. Calm(ui, v)
  BY <1>3, CalmThen
<1> HIDE DEF v
<1>5. Calm(ui, Home(v))
  BY <1>4, CalmThen
<1> QED
  BY <1>1, <1>5, OnlyKept

LEMMA TripKept ==
  ASSUME PanelInv, UNCHANGED tour, Trip
  PROVE  Kept
<1>1. ui' \in {Shutdown(ui), [ui EXCEPT !.inverter = "FAULT"]} /\ ScreenOnly
  BY DEF Trip
<1>2. Calm(ui, Shutdown(ui)) /\ Calm(ui, [ui EXCEPT !.inverter = "FAULT"])
  BY InvShapes, CalmShutdown, CalmSet
<1>3. Calm(ui, ui')
  BY <1>1, <1>2
<1>4. Linked(wifi') /\ UNCHANGED <<pin, ota>>
  BY <1>1, InvShapes DEF ScreenOnly
<1> QED
  BY <1>3, <1>4, Calmly

LEMMA BackgroundKept ==
  ASSUME PanelInv, UNCHANGED tour, Background
  PROVE  Kept
<1>1. \/ FlashEnds \/ FaultLapses \/ Standby \/ SequenceLapses
      \/ MenuTimeout \/ Trip
      \/ ToggleEnds \/ ModeEnds \/ ScanEnds \/ ViewLapses
      \/ OperationEnds \/ ConnectFails \/ OperationTimesOut \/ LinkUp \/ LinkDown
      \/ \E scope \in Scopes : LockoutEnds(scope)
      \/ AutoCheck \/ CheckEnds \/ ServiceReports \/ ServiceEnds \/ NeedMet \/ NeedTimesOut
      \/ PreflightEnds \/ PromptLapses \/ Reminds \/ GrantExpires
  BY DEF Background, Ends
<1>2. CASE FlashEnds \/ FaultLapses \/ Standby \/ SequenceLapses
  BY <1>2, ScreenEndsKept
<1>3. CASE MenuTimeout \/ Trip
  BY <1>3, MenuTimeoutKept, TripKept
<1>4. CASE ToggleEnds \/ ModeEnds \/ ScanEnds \/ ViewLapses
  BY <1>4, ToggleEndsKept, ModeKept, ScanKept, WifiViewKept
<1>5. CASE OperationEnds \/ ConnectFails \/ OperationTimesOut \/ LinkUp \/ LinkDown
  BY <1>5, OperationKept, LinkKept
<1>6. CASE \E scope \in Scopes : LockoutEnds(scope)
  BY <1>6, LockoutEndsKept
<1>7. CASE AutoCheck \/ CheckEnds \/ ServiceReports \/ ServiceEnds
  BY <1>7, CheckKept, ServiceKept
<1>8. CASE NeedMet \/ NeedTimesOut \/ PreflightEnds
  BY <1>8, NeedKept, PreflightEndsKept
<1>9. CASE PromptLapses \/ Reminds \/ GrantExpires
  BY <1>9, PromptLapsesKept, RemindsKept, DiscardKept
<1> QED
  BY <1>1, <1>2, <1>3, <1>4, <1>5, <1>6, <1>7, <1>8, <1>9

-----------------------------------------------------------------------------
(* The theorems about the PIN *)

LEMMA InitPanel == Init => PanelInv
<1> SUFFICES ASSUME Init PROVE PanelInv
  OBVIOUS
<1>1. /\ IsUi(ui) /\ ui.phase = "IDLE" /\ ui.job = "NONE"
  BY DEF Init, InitUi, IsUi, UiFields
<1>2. IsPin(pin)
  BY DEF Init, InitPin, IsPin, PinFields
<1>3. IsWifi(wifi) /\ (wifi.linked => wifi.on)
  <2> DEFINE on == "WIFI_ON" \in tour.boot
             linked == {"WIFI_ON", "LINKED"} \subseteq tour.boot
  <2>1. wifi = [on |-> on, linked |-> linked, mode |-> "APSTA", op |-> "NONE", worker |-> "NONE",
                scan |-> "NONE", forget |-> FALSE, leave |-> FALSE, editing |-> FALSE]
    BY DEF Init, InitWifi
  <2>2. linked => on
    OBVIOUS
  <2> HIDE DEF on, linked
  <2> QED
    BY <2>1, <2>2 DEF IsWifi, WifiFields
<1>4. IsOta(ota) /\ ~ota.confirm /\ ~ota.grant
  <2>1. PICK avail : ota =
          [state |-> IF "STAGED" \in tour.boot THEN "PENDING_APPLY"
                     ELSE IF avail THEN "AVAILABLE" ELSE "IDLE",
           avail |-> avail, confirm |-> FALSE, ask |-> FALSE, check |-> "NONE",
           service |-> "NONE", marker |-> "STAGED" \in tour.boot, verified |-> FALSE,
           checked |-> FALSE, preflight |-> FALSE,
           prompt |-> IF "STAGED" \in tour.boot THEN "NONE" ELSE "MENU",
           reminder |-> "STAGED" \in tour.boot,
           grant |-> FALSE, forApply |-> FALSE, need |-> "NONE", applied |-> FALSE]
    BY DEF Init, InitOta
  <2> DEFINE s == IF "STAGED" \in tour.boot THEN "PENDING_APPLY"
                  ELSE IF avail THEN "AVAILABLE" ELSE "IDLE"
             m == "STAGED" \in tour.boot
             p == IF "STAGED" \in tour.boot THEN "NONE" ELSE "MENU"
  <2>2. ota = [state |-> s, avail |-> avail, confirm |-> FALSE, ask |-> FALSE, check |-> "NONE",
               service |-> "NONE", marker |-> m, verified |-> FALSE, checked |-> FALSE,
               preflight |-> FALSE, prompt |-> p, reminder |-> m,
               grant |-> FALSE, forApply |-> FALSE, need |-> "NONE", applied |-> FALSE]
    BY <2>1
  <2> HIDE DEF s, m, p
  <2> QED
    BY <2>2 DEF IsOta, OtaFields
<1> QED
  BY <1>1, <1>2, <1>3, <1>4 DEF PanelInv, Shapes, Proofs

LEMMA NextKept == PanelInv /\ Next => Kept
<1> SUFFICES ASSUME PanelInv, Next PROVE Kept
  OBVIOUS
<1>1. UNCHANGED tour /\ (User \/ WalksAway \/ Background)
  BY DEF Next, Gesture, Elsewhere
<1> QED
  BY <1>1, UserKept, BackgroundKept

LEMMA PanelInvKept == PanelInv /\ [Next]_vars => PanelInv'
<1> SUFFICES ASSUME PanelInv, [Next]_vars PROVE PanelInv'
  OBVIOUS
<1>1. CASE Next
  BY <1>1, NextKept DEF Kept
<1>2. CASE UNCHANGED vars
  BY <1>2 DEF vars, PanelInv, Shapes, Proofs
<1> QED
  BY <1>1, <1>2

\* Nothing is erased that the user has not asked for: the PIN was accepted for this
\* erasure since it was chosen, or the power button's own sequence is complete
\* (factory_reset.c, app_input.c).
THEOREM ErasureIsDeliberate == Spec => ResetDeliberate
<1>1. PanelInv /\ [Next]_vars => [ErasureProven]_vars
  BY NextKept DEF Kept
<1>2. [ErasureProven]_vars =>
        [pin'.erased # pin.erased /\ pin'.erased # "NONE" =>
           \/ pin'.erased \in pin.proven
           \/ pin'.erased = "BY_POWER" /\ ui.seq # "NONE" /\ ui.menu = "FACTORY_RESET"]_vars
  BY DEF ErasureProven
<1> QED
  BY <1>1, <1>2, InitPanel, PanelInvKept, PTL DEF Spec, ResetDeliberate

\* With security enabled, no download starts and no staged image is selected for boot
\* on a PIN that was not entered for it (app_input.c, begin_ota_auth and
\* return_from_ota_auth).
THEOREM UpdateIsAuthenticated == Spec => InstallAuthenticated
<1>1. PanelInv /\ [Next]_vars => [InstallProven]_vars
  BY NextKept DEF Kept
<1>2. [InstallProven]_vars =>
        [(ota.service = "NONE" /\ ota'.service # "NONE") \/ (~ota.applied /\ ota'.applied)
           => ~tour.secured \/ "OTA" \in pin.proven]_vars
  BY DEF InstallProven
<1> QED
  BY <1>1, <1>2, InitPanel, PanelInvKept, PTL DEF Spec, InstallAuthenticated

-----------------------------------------------------------------------------
(* The gesture that wakes the display *)

HandFields == {"button", "stage", "count", "latched", "woke"}
IsHand(h) == h = [f \in HandFields |-> h[f]] /\ h.count \in Nat

\* a gesture that has woken the display is under way, and its button is latched; a
\* chain that waits for another click has one
HandOK ==
  /\ IsHand(hand)
  /\ hand.woke => hand.button \in hand.latched /\ hand.stage # "IDLE"
  /\ hand.stage = "WAIT" => hand.count > 0

\* what the step does with the gesture
HandKept == HandOK' /\ (hand.woke /\ hand' # hand => UNCHANGED <<ui, pin, wifi, ota>>)

LEMMA DeliverHand ==
  ASSUME HandOK, NEW b, NEW e, NEW n, NEW stage, NEW count \in Nat,
         Deliver(b, e, n, stage, count),
         stage = "WAIT" => count > 0,
         hand.woke => b = hand.button /\ (e # "PRESS" \/ n > 0)
  PROVE  HandKept
<1> DEFINE w == hand.woke /\ stage # "IDLE"
           l == IF stage = "IDLE" THEN hand.latched \cap {tour.slow} ELSE hand.latched
           s == stage # "IDLE"
           moved == [hand EXCEPT !.button = b, !.stage = stage, !.count = count,
                                 !.woke = w, !.latched = l]
           woken == [moved EXCEPT !.latched = @ \cup {b}, !.woke = s]
           acted == [moved EXCEPT !.latched = IF e = "PRESS" THEN @ \ {b} ELSE @]
<1>1. \/ (FlashBlocks \/ Swallows(b, e, n)) /\ hand' = moved /\ Nothing
      \/ ~Swallows(b, e, n) /\ (hand' = woken \/ hand' = acted)
  BY DEF Deliver
<1>2. hand.woke => Swallows(b, e, n)
  BY DEF HandOK, Swallows
<1>3. /\ hand.woke => hand.button \in hand.latched
      /\ IsHand(hand)
  BY DEF HandOK
<1>4. /\ w => hand.woke /\ stage # "IDLE"
      /\ s => stage # "IDLE"
      /\ w => l = hand.latched
  OBVIOUS
<1> HIDE DEF w, l, s
<1>5. /\ IsHand(moved) /\ moved.button = b /\ moved.stage = stage /\ moved.count = count
      /\ moved.woke = w /\ moved.latched = l
  BY <1>3 DEF IsHand, HandFields
<1> HIDE DEF moved
<1>6. CASE (FlashBlocks \/ Swallows(b, e, n)) /\ hand' = moved /\ Nothing
  BY <1>3, <1>4, <1>5, <1>6 DEF HandKept, HandOK, Nothing
<1>7. CASE ~Swallows(b, e, n) /\ (hand' = woken \/ hand' = acted)
  <2>1. ~hand.woke
    BY <1>2, <1>7
  <2>2. /\ IsHand(woken) /\ woken.button = b /\ woken.stage = stage /\ woken.count = count
        /\ woken.woke = s /\ woken.latched = l \cup {b}
    BY <1>5 DEF IsHand, HandFields
  <2> DEFINE k == IF e = "PRESS" THEN moved.latched \ {b} ELSE moved.latched
  <2>3. acted = [moved EXCEPT !.latched = k]
    OBVIOUS
  <2> HIDE DEF k
  <2>4. IsHand(acted) /\ acted.stage = stage /\ acted.count = count /\ acted.woke = w
    BY <1>5, <2>3 DEF IsHand, HandFields
  <2> HIDE DEF woken, acted
  <2>5. CASE hand' = woken
    BY <1>4, <2>1, <2>2, <2>5 DEF HandKept, HandOK
  <2>6. CASE hand' = acted
    BY <1>4, <2>1, <2>4, <2>6 DEF HandKept, HandOK
  <2> QED
    BY <1>7, <2>5, <2>6
<1> QED
  BY <1>1, <1>6, <1>7

LEMMA SameHand ==
  ASSUME HandOK, UNCHANGED hand
  PROVE  HandKept
BY DEF HandKept, HandOK

LEMMA TapHand ==
  ASSUME HandOK, hand.stage = "IDLE", NEW b, NEW e, Tap(b, e)
  PROVE  HandKept
<1> DEFINE l == hand.latched \ {b}
<1>1. UNCHANGED hand \/ hand' = [hand EXCEPT !.latched = l]
  BY DEF Tap
<1> HIDE DEF l
<1> QED
  BY <1>1, SameHand DEF HandKept, HandOK, IsHand, HandFields

LEMMA PressHand ==
  ASSUME HandOK, hand.stage = "IDLE", NEW b, Press(b)
  PROVE  HandKept
<1>1. ~hand.woke
  BY DEF HandOK
<1>2. CASE Deliver(b, "PRESS", 0, "DOWN", 0)
  BY <1>1, <1>2, DeliverHand
<1>3. CASE ~Deliver(b, "PRESS", 0, "DOWN", 0)
  <2> DEFINE w == ~FlashBlocks /\ Asleep
             l == IF FlashBlocks THEN hand.latched
                  ELSE IF Asleep THEN hand.latched \cup {b} ELSE hand.latched \ {b}
  <2>1. hand' = [hand EXCEPT !.button = b, !.stage = "DOWN", !.count = 0, !.woke = w, !.latched = l]
    BY <1>3 DEF Press
  <2>2. w => b \in l
    OBVIOUS
  <2> HIDE DEF w, l
  <2> QED
    BY <1>1, <2>1, <2>2 DEF HandKept, HandOK, IsHand, HandFields
<1> QED
  BY <1>2, <1>3

LEMMA GoneHand ==
  ASSUME HandOK, WalksAway
  PROVE  HandKept
BY DEF WalksAway, HandKept, HandOK, IsHand, HandFields

LEMMA UserHand ==
  ASSUME HandOK, User
  PROVE  HandKept
<1>1. \/ hand.stage = "IDLE" /\ \E g \in Gestures : Tap(g[1], g[2])
      \/ hand.stage = "IDLE" /\ \E b \in Buttons : Press(b)
      \/ PressAgain \/ Hold \/ Release \/ Settle
  BY DEF User
<1>2. hand.count \in Nat /\ hand.count + 1 \in Nat /\ hand.count + 1 > 0
  BY DEF HandOK, IsHand
<1>3. ASSUME NEW k PROVE ByCount(k) # "PRESS"
  BY DEF ByCount
<1>4. CASE hand.stage = "IDLE" /\ \E g \in Gestures : Tap(g[1], g[2])
  BY <1>4, TapHand
<1>5. CASE hand.stage = "IDLE" /\ \E b \in Buttons : Press(b)
  BY <1>5, PressHand
<1>6. CASE PressAgain
  <2>1. hand.count > 0 /\ Deliver(hand.button, "PRESS", hand.count, "DOWN", hand.count)
    BY <1>6 DEF PressAgain, HandOK
  <2> QED
    BY <1>2, <2>1, DeliverHand
<1>7. CASE Hold
  BY <1>7, DeliverHand DEF Hold
<1>8. CASE Release
  <2>1. \/ Deliver(hand.button, "RELEASE", 0, "IDLE", 0)
        \/ Deliver(hand.button, "RELEASE", hand.count + 1, "WAIT", hand.count + 1)
        \/ Deliver(hand.button, "CLICK", 1, "IDLE", 0)
    BY <1>8 DEF Release
  <2>2. CASE Deliver(hand.button, "RELEASE", 0, "IDLE", 0)
    BY <2>2, DeliverHand
  <2>3. CASE Deliver(hand.button, "RELEASE", hand.count + 1, "WAIT", hand.count + 1)
    BY <1>2, <2>3, DeliverHand
  <2>4. CASE Deliver(hand.button, "CLICK", 1, "IDLE", 0)
    BY <2>4, DeliverHand
  <2> QED
    BY <2>1, <2>2, <2>3, <2>4
<1>9. CASE Settle
  <2>1. Deliver(hand.button, ByCount(hand.count), hand.count, "IDLE", 0)
    BY <1>9 DEF Settle
  <2>2. ByCount(hand.count) # "PRESS"
    BY <1>3
  <2> QED
    BY <2>1, <2>2, DeliverHand
<1> QED
  BY <1>1, <1>4, <1>5, <1>6, <1>7, <1>8, <1>9

LEMMA InitHandOK == Init => HandOK
BY DEF Init, InitHand, HandOK, IsHand, HandFields

LEMMA NextHand == HandOK /\ Next => HandKept
<1> SUFFICES ASSUME HandOK, Next PROVE HandKept
  OBVIOUS
<1>1. User \/ WalksAway \/ UNCHANGED hand
  BY DEF Next, Gesture, Elsewhere
<1> QED
  BY <1>1, UserHand, GoneHand, SameHand

LEMMA HandStays == HandOK /\ [Next]_vars => HandOK'
<1> SUFFICES ASSUME HandOK, [Next]_vars PROVE HandOK'
  OBVIOUS
<1>1. CASE Next
  BY <1>1, NextHand DEF HandKept
<1>2. CASE UNCHANGED vars
  BY <1>2 DEF vars, HandOK
<1> QED
  BY <1>1, <1>2

\* A gesture that has woken the display does nothing more: whatever its later events
\* are, and whatever other tasks do to the screen between them, no handler acts on one
\* (app_input.c, s_wake_gesture_swallow).
THEOREM WakingGestureIsSwallowed == Spec => WakeSwallowed
<1>1. HandOK /\ [Next]_vars =>
        [hand.woke /\ hand.stage # "IDLE" /\ hand' # hand => UNCHANGED <<ui, pin, wifi, ota>>]_vars
  BY NextHand DEF HandKept
<1> QED
  BY <1>1, InitHandOK, HandStays, PTL DEF Spec, WakeSwallowed
=============================================================================
