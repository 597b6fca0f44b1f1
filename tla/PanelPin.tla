------------------------------ MODULE PanelPin ------------------------------
(***************************************************************************)
(* The PIN of the panel: security.c, which verifies it and locks a scope   *)
(* out after too many wrong ones, pin_entry.c, the flow of                 *)
(* change_pin_flow.c that the security menu and the update dialogue run,   *)
(* and factory_reset.c, which asks for it before anything is erased.       *)
(*                                                                         *)
(* A handler is given as the set of its results: the next ui and pin,      *)
(* whether the flow is over, and whether a wrong PIN was entered.          *)
(***************************************************************************)
EXTENDS PanelState

Scopes == {"GENERAL", "FACTORY", "OTA"}
Erasures == {"RESET_ALL", "CLEAR_SETTINGS", "ERASE_LOGS"}

\* security_init: the default PIN until the user has chosen one.  proven and
\* erased are the specification's own: what the PIN was last accepted for, and
\* what was erased since an erasure was last chosen
InitPin ==
  pin = [step |-> "IDLE", digit |-> 0, tries |-> [s \in Scopes |-> 0],
         kept |-> TRUE, force |-> "DEFAULT_PIN" \in tour.boot, proven |-> {}, erased |-> "NONE"]

-----------------------------------------------------------------------------
(* security.c *)

Locked(scope) == pin.tries[scope] = MaxAttempts

\* the general PIN is asked for form's sake while security is off
Optional(scope) == scope = "GENERAL" /\ ~tour.secured

\* the PINs security_verify_pin_for_scope tells apart, and what it makes of one
Entries(scope) == IF Optional(scope) THEN {TRUE} ELSE IF pin.kept THEN BOOLEAN ELSE {FALSE}
Judged(p, scope, right) ==
  [p EXCEPT !.tries[scope] = IF Optional(scope) THEN @ ELSE IF right THEN 0 ELSE @ + 1]

\* security_set_pin: a write that fails in between leaves a hash without its salt
SetPin(p) ==
  {[p EXCEPT !.kept = TRUE, !.force = FALSE, !.tries = [s \in Scopes |-> 0]],
   p, [p EXCEPT !.kept = FALSE]}
Stored(p, q) == q.kept /\ ~q.force /\ q.tries = [s \in Scopes |-> 0]

\* the lockout of a scope runs out: the next button finds empty digits
LockoutEnds(scope) ==
  /\ Locked(scope)
  /\ pin' = [pin EXCEPT !.tries[scope] = 0]
  /\ ui' = IF scope = "FACTORY" /\ ui.phase = "PIN_ENTRY" THEN [ui EXCEPT !.entered = 0] ELSE ui
  /\ Quietly /\ PinOnly

-----------------------------------------------------------------------------
(* pin_entry.c *)

Submits(button, digit) == button = "ENTER" /\ digit = tour.digits - 1
Cancels(button, digit) == button = "BACK" /\ digit = 0
Digit(button, digit) ==
  IF button = "ENTER" THEN digit + 1 ELSE IF button = "BACK" THEN digit - 1 ELSE digit

-----------------------------------------------------------------------------
(* change_pin_flow.c *)

Result(u, p, done, wrong) == [ui |-> u, pin |-> p, done |-> done, wrong |-> wrong]
At(step) == [pin EXCEPT !.step = step, !.digit = 0]

\* change_pin_start_ex, for the job it is started for
Start(p, job) ==
  [p EXCEPT !.digit = 0,
            !.step = IF p.force /\ job = "CHANGE_PIN" THEN "NEW"
                     ELSE IF p.force /\ job = "RESET_PIN" THEN "SUCCESS"
                     ELSE "VERIFY"]

FlowScope == IF ui.job = "OTA_AUTH" THEN "OTA" ELSE "GENERAL"
FailNotice(u, p, q) == IF Stored(p, q) THEN u ELSE Notice(u, "SECURITY")

Verified(scope) ==
  LET right == Judged(At("VERIFY"), scope, TRUE)
  IN IF ui.job = "OTA_AUTH"
     THEN {Result(ui, [right EXCEPT !.step = "SUCCESS", !.proven = @ \cup {"OTA"}], TRUE, FALSE)}
     ELSE IF ui.job = "RESET_PIN"
     THEN {Result(FailNotice(ui, right, q), [q EXCEPT !.step = "IDLE"], TRUE, FALSE) :
             q \in SetPin(right)}
     ELSE {Result(ui, [right EXCEPT !.step = "NEW"], FALSE, FALSE)}

\* the attempt that locks the scope leaves the digits as they are
Refused(scope) ==
  LET p == Judged(pin, scope, FALSE)
  IN Result(Notice(ui, "SECURITY"),
            IF p.tries[scope] = MaxAttempts THEN p ELSE [p EXCEPT !.digit = 0], FALSE, TRUE)

VerifyStep(button) ==
  IF Locked(FlowScope)
  THEN {IF button = "BACK" THEN Result(ui, At("IDLE"), TRUE, FALSE)
        ELSE Result(ui, pin, FALSE, FALSE)}
  ELSE IF Cancels(button, pin.digit) THEN {Result(ui, At("IDLE"), TRUE, FALSE)}
  ELSE IF Submits(button, pin.digit)
  THEN UNION {IF right THEN Verified(FlowScope) ELSE {Refused(FlowScope)} :
                right \in Entries(FlowScope)}
  ELSE {Result(ui, [pin EXCEPT !.digit = Digit(button, @)], FALSE, FALSE)}

NewStep(button) ==
  IF Cancels(button, pin.digit) THEN Result(ui, At("IDLE"), TRUE, FALSE)
  ELSE IF Submits(button, pin.digit) THEN Result(ui, At("CONFIRM"), FALSE, FALSE)
  ELSE Result(ui, [pin EXCEPT !.digit = Digit(button, @)], FALSE, FALSE)

ConfirmStep(button) ==
  IF Cancels(button, pin.digit) THEN {Result(ui, At("NEW"), FALSE, FALSE)}
  ELSE IF Submits(button, pin.digit)
  THEN {Result(Notice(ui, "SECURITY"), At("NEW"), FALSE, TRUE)}
         \cup {Result(FailNotice(ui, pin, q), [q EXCEPT !.step = "IDLE", !.digit = 0], TRUE, FALSE) :
                 q \in SetPin(pin)}
  ELSE {Result(ui, [pin EXCEPT !.digit = Digit(button, @)], FALSE, FALSE)}

\* change_pin_handle_button; a flow without a job is over
FlowStep(button) ==
  IF ui.job \notin {"CHANGE_PIN", "RESET_PIN", "OTA_AUTH"} THEN {Result(ui, pin, TRUE, FALSE)}
  ELSE IF pin.step = "VERIFY" THEN VerifyStep(button)
  ELSE IF pin.step = "NEW" THEN {NewStep(button)}
  ELSE IF pin.step = "CONFIRM" THEN ConfirmStep(button)
  ELSE {Result(ui, pin, TRUE, FALSE)}

-----------------------------------------------------------------------------
(* factory_reset.c *)

\* mutant: the erasure is confirmed without a PIN
BeginAtConfirm(u, erasure) ==
  Show([u EXCEPT !.action = erasure, !.entered = 0, !.phase = "CONFIRM"], "FACTORY_RESET")

\* factory_reset_begin
Begin(u, erasure) == Show([u EXCEPT !.action = erasure, !.entered = 0, !.phase = "PIN_ENTRY"],
                          "FACTORY_RESET")
Chosen(p) == [p EXCEPT !.proven = @ \ Erasures, !.erased = "NONE"]

\* handle_pin_entry_button, for the buttons the gates hand it
FactoryStep(button) ==
  IF Locked("FACTORY") THEN {Result(ui, pin, FALSE, FALSE)}
  ELSE IF ~Submits(button, ui.entered)
  THEN {Result([ui EXCEPT !.entered = Digit(button, @)], pin, FALSE, FALSE)}
  ELSE {LET p == Judged(pin, "FACTORY", right)
        IN IF right
           THEN Result([ui EXCEPT !.phase = "CONFIRM"],
                       [p EXCEPT !.proven = @ \cup {ui.action}], FALSE, FALSE)
           ELSE Result(Notice([ui EXCEPT !.entered =
                                 IF p.tries["FACTORY"] = MaxAttempts THEN @ ELSE 0], "AUTO"),
                       p, FALSE, TRUE) :
          right \in Entries("FACTORY")}

Took(r) ==
  /\ pin' = r.pin
  /\ IF r.wrong THEN Event ELSE Quietly
EnterFactoryPin(button) == \E r \in FactoryStep(button) : ui' = r.ui /\ Took(r) /\ PinOnly

\* the erasure the user confirms.  Only the whole reset restarts, and it does not
\* when the storage cannot be erased
Erased(p, what) == [p EXCEPT !.erased = what, !.kept = @ /\ what # "CLEAR_SETTINGS"]
FactoryReset(u) == [u EXCEPT !.inverter = "RESET", !.seq = "NONE"]
ConfirmErasure ==
  /\ pin' = Erased(pin, ui.action)
  /\ \/ ui.action # "RESET_ALL"
        /\ ui' = Home(CancelFactory([ui EXCEPT
                        !.seq = IF ui.action = "CLEAR_SETTINGS" THEN "NONE" ELSE @]))
     \/ ui.action = "RESET_ALL"
        /\ ui' \in {Restart(ui), Home(CancelFactory(FactoryReset(ui)))}
  /\ Quietly /\ PinOnly

\* the hold that ends the power button's sequence
EraseByPower ==
  /\ pin' = Erased(pin, "BY_POWER")
  /\ ui' \in {Restart(ui),
              Show([Forget(FactoryReset(ui)) EXCEPT !.menu = "NONE", !.phase = "DONE"], "FACTORY")}
  /\ Quietly /\ PinOnly

-----------------------------------------------------------------------------
(* The security menu *)

SecurityRow ==
  \/ \E job \in {"CHANGE_PIN", "RESET_PIN"} :
       /\ pin' = Start(pin, job)
       /\ LET u == [ui EXCEPT !.job = job, !.flow = "PIN"]
          IN ui' = IF job = "CHANGE_PIN" /\ pin.force THEN Notice(u, "AUTO") ELSE u
       /\ Quietly /\ PinOnly
  \/ /\ ui' = [ui EXCEPT !.job = "VIEW", !.flow = "VIEW"]
     /\ Quietly /\ ScreenOnly

CloseStatus == ui' = [ui EXCEPT !.flow = "IDLE", !.job = "NONE"] /\ Quietly /\ ScreenOnly

FactoryRow ==
  \/ /\ ui.phase = "DONE"
     /\ ui' = GoMain(CancelFactory(ui))
     /\ Quietly /\ ScreenOnly
  \/ /\ ui.phase # "DONE"
     /\ \E erasure \in Erasures : ui' = Begin(ui, erasure)
     /\ pin' = Chosen(pin)
     /\ Quietly /\ PinOnly
=============================================================================
