---------------------------- MODULE WifiStation -----------------------------
(* The Wi-Fi station: the driver and its events, the reconnect supervisor, the
   internet monitor, the controller with its mutex, the ON/OFF worker, the
   automatic start at boot and a user.  Station mode with a saved network. *)
EXTENDS Naturals, Sequences

CONSTANTS
  MaxEvents,      \* driver events waiting in the event loop
  MaxRequests     \* what is asked for: the start at boot, the user's operations

ASSUME WifiAssumption == MaxEvents \in Nat /\ MaxEvents >= 2 /\ MaxRequests \in Nat \ {0}

VARIABLES
  radio, link, events,        \* s_started; the driver's link; its event queue
  status,                     \* s_status, with s_sta_started
  callback,                   \* what the event loop still owes its last event
  auto, supervisor,           \* s_auto_reconnect, wifi_reconnect_task
  configured,                 \* history: a configuration wrote the policy last
  mutex, manual, autoConnect, \* the controller's mutex and flags
  cstate,                     \* s_state of the controller
  running, monitor,           \* s_running, wifi_monitor_task
  admitted, worker, request,  \* the toggle path
  enabled, choice,            \* sys_state.wifi.enabled, s_wifi_user_choice_on
  boot, user, asked           \* wifi_bg_start; the panel and HTTP requests so far

driver == <<radio, link, events>>
users == <<user, asked>>
station == <<status, callback>>
reconnect == <<auto, supervisor, configured>>
control == <<manual, autoConnect, cstate>>
monitoring == <<running, monitor>>
toggling == <<admitted, worker, request, enabled, choice>>
vars == <<driver, station, reconnect, mutex, control, monitoring,
          toggling, boot, users>>

ConnState == {"IDLE", "CONNECTING", "CONNECTED", "DISCONNECTED", "FAILED"}
NoSupervisor == [at |-> "none", stale |-> FALSE, failed |-> FALSE]
Fresh == [at |-> "wait", stale |-> FALSE, failed |-> FALSE]
NoCallback == [at |-> "none", state |-> "IDLE", retry |-> FALSE]

Init ==
  /\ radio = FALSE /\ link = "idle" /\ events = <<>>
  /\ status = [state |-> "IDLE", connected |-> FALSE, gotIp |-> FALSE,
               started |-> FALSE]
  /\ callback = NoCallback /\ supervisor = NoSupervisor
  /\ mutex = "free" /\ manual = FALSE /\ autoConnect \in BOOLEAN
  /\ auto = autoConnect /\ configured = FALSE
  /\ cstate = "IDLE" /\ running = FALSE /\ monitor = "none"
  /\ admitted = FALSE /\ worker = "idle" /\ request = [on |-> FALSE, silent |-> FALSE]
  /\ enabled = FALSE /\ choice \in BOOLEAN
  /\ boot \in {"check", "done"} /\ user = "idle"
  /\ asked = IF boot = "check" THEN 1 ELSE 0

-----------------------------------------------------------------------------
(* The driver: calls return at once, the outcome arrives as an event *)

Posted(new) == events' = events \o new
Room(n) == Len(events) + n <= MaxEvents
Linked == link \in {"linked", "leased"}

\* esp_wifi_connect(): refused unless the radio is on and the link idle.
Dial == /\ link' = IF radio /\ link = "idle" THEN "trying" ELSE link
        /\ UNCHANGED <<radio, events>>

\* esp_wifi_disconnect()
HangUp == IF link = "idle" THEN UNCHANGED driver
          ELSE /\ Room(1) /\ Posted(<<"DISCONNECTED">>)
               /\ link' = "idle" /\ UNCHANGED radio

\* wifi_manager_reconnect(): esp_wifi_disconnect(), then esp_wifi_connect();
\* the first fails when the radio is off.
Redial == IF ~radio THEN UNCHANGED driver
          ELSE /\ Room(1) /\ link' = "trying" /\ UNCHANGED radio
               /\ Posted(IF link = "idle" THEN <<>> ELSE <<"DISCONNECTED">>)

PowerOn == /\ Room(1) /\ radio' = TRUE /\ UNCHANGED link
           /\ Posted(IF radio THEN <<>> ELSE <<"START">>)

PowerOff == /\ Room(2) /\ radio' = FALSE /\ link' = "idle"
            /\ Posted((IF link = "idle" THEN <<>> ELSE <<"DISCONNECTED">>)
                      \o (IF radio THEN <<"STOP">> ELSE <<>>))

Associate ==
  /\ link = "trying" /\ Room(1)
  /\ link' = "linked" /\ Posted(<<"CONNECTED">>)
  /\ UNCHANGED <<radio, station, reconnect, mutex, control, monitoring,
                 toggling, boot, users>>

\* An attempt fails, or ends without any event.
NotFound ==
  /\ link = "trying" /\ Room(1) /\ link' = "idle"
  /\ \/ Posted(<<"DISCONNECTED">>)
     \/ UNCHANGED events
  /\ UNCHANGED <<radio, station, reconnect, mutex, control, monitoring,
                 toggling, boot, users>>

Lease ==
  /\ link = "linked" /\ Room(1)
  /\ link' = "leased" /\ Posted(<<"GOT_IP">>)
  /\ UNCHANGED <<radio, station, reconnect, mutex, control, monitoring,
                 toggling, boot, users>>

LinkLost ==
  /\ Linked /\ Room(1)
  /\ link' = "idle" /\ Posted(<<"DISCONNECTED">>)
  /\ UNCHANGED <<radio, station, reconnect, mutex, control, monitoring,
                 toggling, boot, users>>

-----------------------------------------------------------------------------
(* The event loop: fields first, then the published state and the callbacks *)

Notify == [supervisor EXCEPT !.failed = @ \/ supervisor.at # "none"]

\* wifi_schedule_reconnect(): one supervisor at a time.
Schedule == supervisor' =
              IF auto /\ supervisor.at = "none" THEN Fresh ELSE supervisor

\* mutant: a lost link keeps the address
Cleared_KeepsAddress == [status EXCEPT !.connected = FALSE]
Cleared == [status EXCEPT !.connected = FALSE, !.gotIp = FALSE]

Event ==
  /\ callback.at = "none" /\ events # <<>>
  /\ events' = Tail(events)
  /\ \/ /\ Head(events) = "START"
        /\ status' = [Cleared EXCEPT !.started = TRUE]
        /\ callback' = [NoCallback EXCEPT !.at = "schedule", !.retry = TRUE]
        /\ UNCHANGED supervisor
     \/ /\ Head(events) = "STOP"
        /\ status' = [Cleared EXCEPT !.started = FALSE]
        /\ callback' = [at |-> "publish", state |-> "IDLE", retry |-> FALSE]
        /\ UNCHANGED supervisor
     \/ /\ Head(events) = "CONNECTED"
        /\ status' = [status EXCEPT !.connected = TRUE]
        /\ callback' = [at |-> "publish", state |-> "CONNECTING", retry |-> FALSE]
        /\ UNCHANGED supervisor
     \/ /\ Head(events) = "GOT_IP"
        /\ status' = [status EXCEPT !.connected = TRUE, !.gotIp = TRUE]
        /\ callback' = [at |-> "publish", state |-> "CONNECTED", retry |-> FALSE]
        /\ UNCHANGED supervisor
     \/ /\ Head(events) = "DISCONNECTED"
        /\ status' = Cleared
        /\ callback' = [at |-> "publish", retry |-> auto,
                        state |-> IF auto THEN "DISCONNECTED" ELSE "FAILED"]
        /\ supervisor' = Notify
  /\ UNCHANGED <<radio, link, auto, configured, mutex, control, monitoring,
                 toggling, boot, users>>

\* wifi_publish_state(): the state under the lock, then the callbacks, one of
\* which asks the controller for its state and so waits for its mutex.
Publish ==
  /\ callback.at = "publish"
  /\ status' = [status EXCEPT !.state = callback.state]
  /\ callback' = [callback EXCEPT !.at = "report"]
  /\ UNCHANGED <<driver, reconnect, mutex, control, monitoring, toggling,
                 boot, users>>

Reported ==
  /\ \/ callback.at = "report" /\ mutex = "free"
     \/ callback.at = "schedule"
  /\ callback' = NoCallback
  /\ IF callback.retry THEN Schedule ELSE UNCHANGED supervisor
  /\ UNCHANGED <<driver, status, auto, configured, mutex, control, monitoring,
                 toggling, boot, users>>

EventLoop == Event \/ Publish \/ Reported
-----------------------------------------------------------------------------
(* wifi_events_set_retry_policy() and the reconnect supervisor *)

\* A new generation at every disable: whoever was created before is stale.
SetRetryPolicy(on) ==
  /\ auto' = on
  /\ IF ~on THEN supervisor' = [supervisor EXCEPT !.stale = supervisor.at # "none"]
     ELSE IF ~auto /\ status.started /\ ~status.connected /\ supervisor.at = "none"
     THEN supervisor' = Fresh ELSE UNCHANGED supervisor

\* The controller's calls, all under its mutex (wifi_manager_enable_auto_reconnect) ...
Policy(on) == SetRetryPolicy(on) /\ configured' = FALSE

\* ... and wifi_manager_set_config(): a whole configuration, its auto_reconnect
\* included, without that mutex and whatever s_manual_disconnect says.
Configure(on) == SetRetryPolicy(on) /\ configured' = TRUE

Cancelled == ~auto \/ supervisor.stale
MayConnect == status.state \in {"IDLE", "DISCONNECTED", "FAILED"}

SupervisorStays == UNCHANGED <<station, auto, configured, mutex, control,
                               monitoring, toggling, boot, users>>
SupervisorAt(place) == supervisor' = [supervisor EXCEPT !.at = place]

\* Cancelled, or connected: the supervisor is done, but its handle still says
\* that there is one; who schedules meanwhile only notifies it.
Leave ==
  /\ supervisor.at \in {"wait", "attempt"} /\ (Cancelled \/ status.connected)
  /\ SupervisorAt("leave")
  /\ UNCHANGED driver /\ SupervisorStays

\* mutant: a supervisor that is done leaves nobody behind
Retire_Leaves ==
  /\ supervisor.at = "leave" /\ supervisor' = NoSupervisor
  /\ UNCHANGED driver /\ SupervisorStays

\* reconnect_done: a policy that came back finds a new worker.
Retire ==
  /\ supervisor.at = "leave"
  /\ supervisor' = IF auto /\ status.started /\ ~status.connected
                   THEN Fresh ELSE NoSupervisor
  /\ UNCHANGED driver /\ SupervisorStays

\* The delay has passed; the state is looked at under the lock ...
Search ==
  /\ supervisor.at = "wait" /\ ~Cancelled /\ ~status.connected /\ MayConnect
  /\ supervisor' = [supervisor EXCEPT !.at = "dial", !.failed = FALSE]
  /\ UNCHANGED driver /\ SupervisorStays

\* ... and esp_wifi_connect() is called without it.
SearchDial ==
  /\ supervisor.at = "dial" /\ SupervisorAt("attempt")
  /\ Dial /\ SupervisorStays

SearchFailed ==
  /\ supervisor.at = "attempt" /\ ~Cancelled /\ ~status.connected
  /\ supervisor.failed /\ SupervisorAt("wait")
  /\ UNCHANGED driver /\ SupervisorStays

\* WIFI_CONNECT_TIMEOUT_MS without an event; the driver settles what it can
\* settle, and its event is handled, well within that time.
SearchTimeout ==
  /\ supervisor.at = "attempt" /\ ~Cancelled /\ ~status.connected
  /\ ~supervisor.failed /\ link # "trying" /\ events = <<>> /\ callback.at = "none"
  /\ SupervisorAt("abort")
  /\ UNCHANGED driver /\ SupervisorStays

SearchAbort ==
  /\ supervisor.at = "abort" /\ SupervisorAt("wait")
  /\ HangUp /\ SupervisorStays

Supervisor == Leave \/ Retire \/ Search \/ SearchDial \/ SearchFailed \/ SearchTimeout
              \/ SearchAbort
-----------------------------------------------------------------------------
(* The internet monitor *)

MonitorStays == UNCHANGED <<driver, station, reconnect, mutex, control,
                            running, toggling, boot, users>>

\* One round: sample, probe for at most three seconds, publish.  A changed
\* result, or the Wi-Fi menu on the panel, leads to callbacks that ask for the
\* controller's state and so wait for its mutex.
Round ==
  /\ monitor = "round"
  /\ monitor' \in {"callbacks", IF running THEN "round" ELSE "none"}
  /\ MonitorStays

Tell ==
  /\ monitor = "callbacks" /\ mutex = "free"
  /\ monitor' = IF running THEN "round" ELSE "none"
  /\ MonitorStays

Monitor == Round \/ Tell

MonitorStart == IF running \/ monitor # "none" THEN UNCHANGED monitoring
                ELSE running' = TRUE /\ monitor' = "round"
-----------------------------------------------------------------------------
(* wifi_controller.c: every operation holds the mutex from end to end *)

GetState == IF status.state = "FAILED" THEN "ERROR"
            ELSE IF status.state \in {"CONNECTING", "CONNECTED"} THEN status.state
            ELSE cstate

\* mutant: the preference does not ask about the Disconnect
SetAutoConnect_Forgets(on) ==
  /\ mutex = "free"
  /\ autoConnect' = on /\ Policy(on)

SetAutoConnect(on) ==
  /\ mutex = "free"
  /\ autoConnect' = on /\ Policy(on /\ ~manual)

ControllerReconnect ==
  /\ mutex = "free"
  /\ manual' = FALSE /\ Policy(autoConnect)
  /\ Redial /\ cstate' = IF radio THEN "CONNECTING" ELSE cstate
  /\ UNCHANGED autoConnect

\* mutant: the driver's state instead of the controller's own
ControllerDisconnect_DriverState ==
  /\ mutex = "free"
  /\ manual' = TRUE /\ Policy(FALSE)
  /\ HangUp /\ cstate' = IF radio THEN "DISCONNECTED" ELSE cstate
  /\ UNCHANGED autoConnect

ControllerDisconnect ==
  /\ mutex = "free"
  /\ manual' = TRUE /\ Policy(FALSE)
  /\ HangUp /\ cstate' = IF radio THEN "IDLE" ELSE cstate
  /\ UNCHANGED autoConnect

\* mutant: a start connects although the user had disconnected
ShouldAutoConnect_Forgets == /\ autoConnect /\ ~status.connected
                             /\ status.state # "CONNECTING"
ShouldAutoConnect == /\ autoConnect /\ ~manual /\ ~status.connected
                     /\ status.state # "CONNECTING"
-----------------------------------------------------------------------------
(* The toggle worker: one ON or OFF at a time, from request to commit *)

Request(on, silent) ==
  IF admitted THEN UNCHANGED <<admitted, request>>
  ELSE admitted' = TRUE /\ request' = [on |-> on, silent |-> silent]

WorkerStays == UNCHANGED <<station, admitted, request, boot, users, manual,
                           autoConnect>>
WorkerAt(place) == worker' = place

\* The network services are stopped, or allowed to start, before the radio.
Take ==
  /\ worker = "idle" /\ admitted
  /\ WorkerAt(IF request.on THEN "start" ELSE "stop")
  /\ UNCHANGED <<driver, reconnect, mutex, cstate, monitoring, enabled, choice>> /\ WorkerStays

\* wifi_controller_start(), up to the unlock and the monitor.
Start ==
  /\ worker = "start" /\ mutex = "free"
  /\ Policy(autoConnect /\ ~manual)
  /\ \/ /\ PowerOn /\ MonitorStart
        /\ cstate' = IF status.connected THEN "CONNECTED"
                     ELSE IF status.state = "CONNECTING" THEN "CONNECTING" ELSE "IDLE"
        /\ WorkerAt(IF ShouldAutoConnect THEN "connect" ELSE "commit")
     \/ /\ UNCHANGED <<driver, monitoring>>
        /\ cstate' = "IDLE" /\ WorkerAt("failed")
  /\ UNCHANGED <<mutex, enabled, choice>> /\ WorkerStays

\* Its second half takes the mutex again and looks again.
StartConnect ==
  /\ worker = "connect" /\ mutex = "free" /\ WorkerAt("commit")
  /\ IF ShouldAutoConnect THEN Dial /\ cstate' = "CONNECTING"
     ELSE UNCHANGED <<driver, cstate>>
  /\ UNCHANGED <<reconnect, mutex, monitoring, enabled, choice>> /\ WorkerStays

\* wifi_controller_stop(): no more reconnecting, then the monitor ...
Stop ==
  /\ worker = "stop" /\ mutex = "free"
  /\ mutex' = "worker" /\ Policy(FALSE) /\ running' = FALSE
  /\ WorkerAt("waitMonitor")
  /\ UNCHANGED <<driver, cstate, monitor, enabled, choice>> /\ WorkerStays

\* ... which is given five seconds.  A probe ends in three, so only a monitor
\* waiting for the mutex held here can use them up; the radio stops anyway,
\* but the OFF is reported as failed.
StopRadio ==
  /\ worker = "waitMonitor" /\ monitor \in {"none", "callbacks"}
  /\ \/ PowerOff /\ WorkerAt(IF monitor = "none" THEN "commit" ELSE "failed")
     \/ UNCHANGED driver /\ WorkerAt(IF radio THEN "failed" ELSE "commit")
  /\ cstate' = "IDLE" /\ mutex' = "free"
  /\ UNCHANGED <<reconnect, monitoring, enabled, choice>> /\ WorkerStays

\* A manual toggle is also remembered, unless the storage refuses it.
Finish ==
  /\ worker \in {"commit", "failed"} /\ WorkerAt("idle") /\ admitted' = FALSE
  /\ IF worker = "commit"
     THEN /\ enabled' = request.on
          /\ \/ UNCHANGED choice
             \/ ~request.silent /\ choice' = request.on
     ELSE UNCHANGED <<enabled, choice>>
  /\ UNCHANGED <<driver, station, reconnect, mutex, control, monitoring,
                 request, boot, users>>

Worker == Take \/ Start \/ StartConnect \/ Stop \/ StopRadio \/ Finish
-----------------------------------------------------------------------------
(* The automatic start after boot, and the user *)

BootStays == UNCHANGED <<station, monitoring, mutex, worker, enabled, choice, users>>
BootIdle == UNCHANGED <<driver, reconnect, control, admitted, request>>
BootWanted == choice /\ ~enabled

BootCheck ==
  /\ boot = "check" /\ boot' = IF BootWanted THEN "request" ELSE "allowed"
  /\ BootIdle /\ BootStays

\* A busy toggle path is retried for a while, as long as ON is still wanted.
BootRequest ==
  /\ boot = "request" /\ SetAutoConnect(autoConnect)
  /\ Request(TRUE, TRUE) /\ boot' = IF admitted THEN "retry" ELSE "wait"
  /\ UNCHANGED <<driver, manual, cstate>> /\ BootStays

BootRetry ==
  /\ boot = "retry"
  /\ boot' \in {"done"} \cup IF BootWanted THEN {"request"} ELSE {}
  /\ BootIdle /\ BootStays

BootWait ==
  /\ boot = "wait" /\ boot' \in {"done"} \cup IF admitted THEN {} ELSE {"allowed"}
  /\ BootIdle /\ BootStays

BootAllowed ==
  /\ boot = "allowed" /\ mutex = "free"
  /\ boot' = IF autoConnect /\ enabled /\ ~manual /\ ~status.gotIp
                 /\ GetState \notin {"CONNECTING", "CONNECTED"}
              THEN "reconnect" ELSE "done"
  /\ BootIdle /\ BootStays

BootReconnect ==
  /\ boot = "reconnect" /\ boot' = "done" /\ ControllerReconnect
  /\ UNCHANGED <<admitted, request>> /\ BootStays

Boot == BootCheck \/ BootRequest \/ BootRetry \/ BootWait \/ BootAllowed \/ BootReconnect

UserStays == UNCHANGED <<station, monitoring, mutex, worker, enabled, choice, boot>>
Asked == asked < MaxRequests /\ asked' = asked + 1
Asks == user = "idle" /\ Asked

UserToggle ==
  /\ Asks /\ SetAutoConnect(autoConnect)
  /\ \E on \in BOOLEAN : Request(on, FALSE)
  /\ UNCHANGED <<driver, manual, cstate, user>> /\ UserStays

\* The auto-reconnect setting; switched on, it connects at once.
UserPrefers ==
  /\ Asks
  /\ \E on \in BOOLEAN :
       /\ SetAutoConnect(on)
       /\ user' = IF on /\ enabled /\ ~status.connected /\ GetState # "CONNECTING"
                  THEN "connect" ELSE "idle"
  /\ UNCHANGED <<driver, manual, cstate, admitted, request>> /\ UserStays

UserConnect ==
  /\ Asks /\ mutex = "free"
  /\ ~(status.gotIp /\ status.connected) /\ GetState # "CONNECTING" /\ enabled
  /\ user' = "connect"
  /\ BootIdle /\ UserStays

UserReconnect ==
  /\ user = "connect" /\ user' = "idle" /\ ControllerReconnect
  /\ UNCHANGED <<admitted, request, asked>> /\ UserStays

UserDisconnect ==
  /\ Asks /\ ControllerDisconnect
  /\ UNCHANGED <<admitted, request, user>> /\ UserStays

\* The configuration the HTTP interface or the DHCP toggle writes back: a copy read
\* before, the field auto_reconnect as it then was or as the request says.
UserConfigures ==
  /\ Asked /\ \E on \in BOOLEAN : Configure(on)
  /\ UNCHANGED <<driver, control, admitted, request, user>> /\ UserStays

\* Another network is picked on the panel: the configuration is read, a station in
\* use is disconnected, the copy is written back, and the station connects.
UserSelects ==
  /\ Asks /\ mutex = "free" /\ enabled
  /\ user' = IF auto THEN "writeOn" ELSE "writeOff"
  /\ IF status.gotIp \/ GetState = "CONNECTING" THEN ControllerDisconnect
     ELSE UNCHANGED <<driver, reconnect, control>>
  /\ UNCHANGED <<admitted, request>> /\ UserStays

UserWritesBack ==
  /\ user \in {"writeOn", "writeOff"} /\ user' = "connect"
  /\ Configure(user = "writeOn")
  /\ UNCHANGED <<driver, control, admitted, request, asked>> /\ UserStays

User == UserToggle \/ UserPrefers \/ UserConnect \/ UserReconnect \/ UserDisconnect
        \/ UserConfigures \/ UserSelects \/ UserWritesBack
-----------------------------------------------------------------------------

Next == \/ Associate \/ NotFound \/ Lease \/ LinkLost
        \/ EventLoop \/ Supervisor \/ Monitor \/ Worker \/ Boot \/ User

Spec == Init /\ [][Next]_vars

\* Every task runs; a mutex that is released goes to the task waiting for it;
\* the network answers an attempt, and a lease, if it is asked again and again.
\* Neither the user nor a lost link is ever obliged to happen.
Fairness == /\ SF_vars(EventLoop) /\ WF_vars(Supervisor) /\ SF_vars(Monitor)
            /\ WF_vars(Worker) /\ WF_vars(Boot)
            /\ SF_vars(Associate) /\ SF_vars(Lease)

FairSpec == Spec /\ Fairness
-----------------------------------------------------------------------------

TypeOK ==
  /\ radio \in BOOLEAN /\ link \in {"idle", "trying", "linked", "leased"}
  /\ events \in Seq({"START", "STOP", "CONNECTED", "GOT_IP", "DISCONNECTED"})
  /\ Len(events) <= MaxEvents
  /\ status \in [state : ConnState, connected : BOOLEAN, gotIp : BOOLEAN,
                  started : BOOLEAN]
  /\ callback \in [at : {"none", "publish", "report", "schedule"},
                    state : ConnState, retry : BOOLEAN]
  /\ auto \in BOOLEAN /\ configured \in BOOLEAN
  /\ supervisor \in [at : {"none", "wait", "dial", "attempt", "abort", "leave"},
                      stale : BOOLEAN, failed : BOOLEAN]
  /\ mutex \in {"free", "worker"} /\ manual \in BOOLEAN /\ autoConnect \in BOOLEAN
  /\ cstate \in {"IDLE", "CONNECTING", "CONNECTED"}
  /\ running \in BOOLEAN
  /\ monitor \in {"none", "round", "callbacks"}
  /\ admitted \in BOOLEAN /\ request \in [on : BOOLEAN, silent : BOOLEAN]
  /\ worker \in {"idle", "start", "connect", "stop", "waitMonitor", "commit", "failed"}
  /\ enabled \in BOOLEAN /\ choice \in BOOLEAN
  /\ boot \in {"check", "request", "retry", "wait", "allowed", "reconnect", "done"}
  /\ user \in {"idle", "connect", "writeOn", "writeOff"}
  /\ asked \in 0..MaxRequests

\* Once the event loop has caught up, the published flags say what the driver
\* does: whatever was dropped, dialled again or switched off in between, no
\* address outlives its link (wifi_events.c, event_handler).
StatusFollowsDriver ==
  events = <<>> /\ callback.at = "none" =>
    /\ status.connected = Linked
    /\ status.gotIp = (link = "leased")
    /\ status.started = radio

\* While a Disconnect is in force no supervisor that has not looked at the policy yet
\* goes on to dial, unless a configuration has rewritten the policy since; and
\* nobody else dials at all: the only attempt is of a supervisor past its check
\* (wifi_controller.c, wifi_events.c; wifi_manager_set_config is the exception).
DisconnectHonoured ==
  [][manual /\ manual' =>
       /\ ~configured /\ supervisor.at # "dial" => supervisor'.at # "dial"
       /\ link # "trying" /\ link' = "trying" => supervisor.at = "dial"]_vars

\* What the user asked for stays in force: after a Disconnect no toggle, start or
\* preference brings automatic reconnecting back before the user connects again; only
\* a configuration written since can (wifi_controller.c, s_manual_disconnect;
\* wifi_manager_set_config).  And between two toggles the radio is on only if the
\* system says so (app_services.c, execute_wifi_toggle).
PolicyHolds ==
  /\ manual /\ ~configured => ~auto
  /\ worker = "idle" /\ ~enabled => ~radio

\* While the radio is on and automatic reconnecting is allowed, a lost or failed
\* connection is always tried again until there is an address: no event,
\* toggle or setting leaves the station without a supervisor
\* (wifi_events.c, wifi_reconnect_task and wifi_schedule_reconnect).
Reconnects == <>[](auto /\ radio) => []<>(link = "leased")
=============================================================================
