--------------------------- MODULE NetworkServices ---------------------------
(***************************************************************************)
(* The services the inverter offers on the network: the local ones (HTTP   *)
(* and HTTPS servers, dashboard, WebSocket, mDNS), the captive DNS of the  *)
(* access point, and the upstream ones (NTP, MQTT).                        *)
(*                                                                         *)
(* The Wi-Fi events task and the internet monitor report the status; a     *)
(* synchronisation task, at most one at a time, starts and stops services  *)
(* accordingly.  The worker that switches the radio or its mode, and the   *)
(* worker of a firmware update, stop them as well, under the lifecycle     *)
(* mutex, with a flag (teardown) that keeps the others from starting.      *)
(***************************************************************************)
EXTENDS Naturals

CONSTANTS
  Modes,          \* the modes the station may be built for or switched to
  MaxChanges,     \* bound: changes of the link and of the internet
  MaxTrouble      \* bound: switches of the radio and its mode, suspensions for an
                  \* update, calls that fail and waits that time out

ASSUME NetworkAssumption ==
  /\ Modes \subseteq {"STA", "AP", "APSTA"} /\ Modes # {}
  /\ {MaxChanges, MaxTrouble} \subseteq Nat

Station(m) == m \in {"STA", "APSTA"}
AccessPoint(m) == m \in {"AP", "APSTA"}

Reporters == {"events", "monitor"}
Tasks == {"sync", "worker", "ota"}
Down == [station |-> FALSE, internet |-> FALSE]
Unseen == [pending |-> FALSE, status |-> Down]

VARIABLES
  mode, radio,           \* the configured mode; the radio is on
  status, ap,            \* s_status of the station; s_ap_active
  report,                \* the status each reporter is about to deliver
  changed,               \* the events task has a change to report
  stationReady, internetReady,
  newer,                 \* s_status_generation moved since the pass read it
  scheduled,             \* s_sync_scheduled
  teardown, suspended,   \* s_teardown_pending, s_suspended_for_ota
  at,                    \* where each task is
  pass,                  \* what the pass of the sync task has read
  life,                  \* s_lifecycle_mutex and what its holder has read
  running,               \* s_running
  up,                    \* the servers, with the dashboard's file system (www)
  dns, dnsRunning,       \* the captive DNS and its flag
  upstream, ntpFlag,     \* s_station_services_running, s_ntp_running
  clients,               \* the upstream clients that are live
  job,                   \* what the worker was asked for
  quiet,                 \* a stop has returned and nothing may start yet
  ended,                 \* how the last pass ended
  changes, trouble

link == <<mode, radio, status, ap>>
reports == <<report, changed, stationReady, internetReady>>
sync == <<newer, scheduled, pass>>
gates == <<teardown, suspended, quiet>>
local == <<running, up>>
captive == <<dns, dnsRunning>>
upstreams == <<upstream, ntpFlag, clients>>
bounds == <<changes, trouble>>
vars == <<link, reports, sync, gates, at, life, local, captive, upstreams, job, ended, bounds>>

Free == [who |-> "nobody", at |-> "free", was |-> FALSE, ntp |-> FALSE]
NoPass == [station |-> FALSE, internet |-> FALSE, local |-> FALSE, upstream |-> FALSE,
           ap |-> FALSE, ntp |-> FALSE]

\* The services are initialised and the radio has been started, by the choice
\* of the user that is restored at boot.
Init ==
  /\ mode \in Modes /\ radio = TRUE /\ ap = AccessPoint(mode)
  /\ status = Down /\ report = [r \in Reporters |-> Unseen] /\ changed = TRUE
  /\ stationReady = FALSE /\ internetReady = FALSE
  /\ newer = FALSE /\ scheduled = FALSE /\ pass = NoPass
  /\ teardown = FALSE /\ suspended = FALSE /\ quiet = FALSE
  /\ at = [t \in Tasks |-> "idle"] /\ life = Free
  /\ running = FALSE /\ up = {}
  /\ dns = FALSE /\ dnsRunning = FALSE
  /\ upstream = FALSE /\ ntpFlag = FALSE /\ clients = {}
  /\ job = "none" /\ ended = "none"
  /\ changes = 0 /\ trouble = 0

Goto(t, place) == at' = [at EXCEPT ![t] = place]
Trouble == trouble < MaxTrouble /\ trouble' = trouble + 1

-----------------------------------------------------------------------------
(* The Wi-Fi side, as WifiStation describes it in detail *)

LinkChange ==
  /\ radio /\ Station(mode) /\ changes < MaxChanges
  /\ changes' = changes + 1
  /\ status' = [station |-> ~status.station, internet |-> FALSE]
  /\ changed' = TRUE
  /\ UNCHANGED <<mode, radio, ap, report, stationReady, internetReady, sync, gates, at, life,
                 local, captive, upstreams, job, ended, trouble>>

\* wifi_publish_state(): the events task copies the status and delivers it.
Publish ==
  /\ changed /\ ~report["events"].pending
  /\ changed' = FALSE
  /\ report' = [report EXCEPT !["events"] = [pending |-> TRUE, status |-> status]]
  /\ UNCHANGED <<link, stationReady, internetReady, sync, gates, at, life, local, captive,
                 upstreams, job, ended, bounds>>

\* wifi_events_set_internet_available(): the monitor's probe has changed.
Probe ==
  /\ status.station /\ ~report["monitor"].pending /\ changes < MaxChanges
  /\ changes' = changes + 1
  /\ status' = [status EXCEPT !.internet = ~@]
  /\ report' = [report EXCEPT !["monitor"] = [pending |-> TRUE, status |-> status']]
  /\ UNCHANGED <<mode, radio, ap, changed, stationReady, internetReady, sync, gates, at, life,
                 local, captive, upstreams, job, ended, trouble>>

-----------------------------------------------------------------------------
(* Scheduling the synchronisation *)

\* A flag under s_mutex admits one task; it is created after the unlock.
Schedule ==
  /\ newer' = TRUE
  /\ IF scheduled THEN UNCHANGED <<scheduled, at>>
     ELSE scheduled' = TRUE /\ Goto("sync", "owed")

\* network_wifi_status_callback()
Deliver(r) ==
  /\ report[r].pending
  /\ report' = [report EXCEPT ![r] = Unseen]
  /\ stationReady' = report[r].status.station
  /\ internetReady' = (report[r].status.station /\ report[r].status.internet)
  /\ Schedule
  /\ UNCHANGED <<link, changed, pass, gates, life, local, captive, upstreams, job, ended, bounds>>

Create ==
  /\ at["sync"] = "owed" /\ Goto("sync", "begin")
  /\ UNCHANGED <<link, reports, sync, gates, life, local, captive, upstreams, job, ended, bounds>>

CreateFails ==
  /\ at["sync"] = "owed" /\ Trouble
  /\ Goto("sync", "idle") /\ scheduled' = FALSE /\ ended' = "failed"
  /\ UNCHANGED <<link, reports, newer, pass, gates, life, local, captive, upstreams, job,
                 changes>>

-----------------------------------------------------------------------------
(* network_services_sync_task() *)

PassStays == UNCHANGED <<link, reports, gates, life, local, job, bounds>>

Begin ==
  /\ at["sync"] = "begin"
  /\ Goto("sync", IF teardown THEN "early" ELSE "read")
  /\ PassStays /\ UNCHANGED <<sync, captive, upstreams, ended>>

\* A teardown is pending: nothing is done and nothing is looked at again.
Early ==
  /\ at["sync"] = "early"
  /\ scheduled' = FALSE /\ Goto("sync", "idle") /\ ended' = "early"
  /\ PassStays /\ UNCHANGED <<newer, pass, captive, upstreams>>

Read ==
  /\ at["sync"] = "read"
  /\ newer' = FALSE
  /\ pass' = [NoPass EXCEPT !.station = stationReady, !.internet = internetReady,
                            !.local = running, !.upstream = upstream]
  /\ Goto("sync", "decide")
  /\ PassStays /\ UNCHANGED <<scheduled, captive, upstreams, ended>>

\* The mode and the access point are looked at after the unlock.
Decide ==
  /\ at["sync"] = "decide"
  /\ pass' = [pass EXCEPT !.ap = AccessPoint(mode) /\ ap]
  /\ LET ready == pass.station \/ pass'.ap IN
     Goto("sync", IF ready /\ ~pass.local THEN "start"
                  ELSE IF ~ready /\ pass.local THEN "stop"
                  ELSE "dns")
  /\ PassStays /\ UNCHANGED <<newer, scheduled, captive, upstreams, ended>>

\* The redirector of the access point: it is started or stopped ...
Dns ==
  /\ at["sync"] = "dns"
  /\ \/ /\ (pass.ap # dnsRunning) /\ dns' = pass.ap
        /\ Goto("sync", "dnsMark") /\ UNCHANGED trouble
     \/ /\ pass.ap /\ ~dnsRunning /\ Trouble
        /\ Goto("sync", "upstream") /\ UNCHANGED dns
     \/ /\ (pass.ap = dnsRunning)
        /\ Goto("sync", "upstream") /\ UNCHANGED <<dns, trouble>>
  /\ UNCHANGED <<link, reports, sync, gates, life, local, dnsRunning, upstreams, job, ended,
                 changes>>

\* ... and its flag follows.
DnsMark ==
  /\ at["sync"] = "dnsMark" /\ Goto("sync", "upstream")
  /\ dnsRunning' = pass.ap
  /\ PassStays /\ UNCHANGED <<sync, dns, upstreams, ended>>

\* Which upstream services are due; network_services_start_station_services()
\* looks at the flags once more.
Upstream ==
  /\ at["sync"] = "upstream"
  /\ LET due == Station(mode) /\ pass.station /\ pass.internet IN
     Goto("sync", IF due /\ ~pass.upstream
                  THEN IF teardown \/ ~internetReady \/ upstream THEN "end" ELSE "ntp"
                  ELSE IF ~due /\ pass.upstream THEN "halt" ELSE "end")
  /\ PassStays /\ UNCHANGED <<sync, captive, upstreams, ended>>

StartNtp ==
  /\ at["sync"] = "ntp" /\ Goto("sync", "mqtt")
  /\ clients' = clients \cup {"ntp"} /\ ntpFlag' = TRUE
  /\ PassStays /\ UNCHANGED <<sync, captive, upstream, ended>>

\* MQTT may be disabled or fail; the pass goes on.
StartMqtt ==
  /\ at["sync"] = "mqtt" /\ Goto("sync", "mark")
  /\ clients' \in {clients, clients \cup {"mqtt"}}
  /\ PassStays /\ UNCHANGED <<sync, captive, upstream, ntpFlag, ended>>

MarkUpstream ==
  /\ at["sync"] = "mark" /\ Goto("sync", "end")
  /\ upstream' = TRUE
  /\ PassStays /\ UNCHANGED <<sync, captive, ntpFlag, clients, ended>>

\* network_services_stop_station_services(): the flags first, then the clients.
Live(was, ntp) == clients \ ((IF was THEN {"mqtt"} ELSE {}) \cup (IF was /\ ntp THEN {"ntp"} ELSE {}))

Halt ==
  /\ at["sync"] = "halt"
  /\ IF upstream THEN Goto("sync", "halting") /\ pass' = [pass EXCEPT !.ntp = ntpFlag]
                 ELSE Goto("sync", "end") /\ UNCHANGED pass
  /\ upstream' = FALSE /\ ntpFlag' = FALSE
  /\ PassStays /\ UNCHANGED <<newer, scheduled, captive, clients, ended>>

Halting ==
  /\ at["sync"] = "halting" /\ Goto("sync", "end")
  /\ clients' = Live(TRUE, pass.ntp)
  /\ PassStays /\ UNCHANGED <<sync, captive, upstream, ntpFlag, ended>>

\* A report that arrived during the pass is forgotten.  (mutant)
End_NoRerun ==
  /\ at["sync"] = "end"
  /\ scheduled' = FALSE /\ Goto("sync", "idle") /\ ended' = "full"
  /\ PassStays /\ UNCHANGED <<newer, pass, captive, upstreams>>

\* A report that arrived during the pass leads to another one, the flag kept.
End ==
  /\ at["sync"] = "end"
  /\ IF newer /\ ~teardown
     THEN Goto("sync", "owed") /\ UNCHANGED <<scheduled, ended>>
     ELSE /\ scheduled' = FALSE /\ Goto("sync", "idle")
          /\ ended' = IF teardown THEN "early" ELSE "full"
  /\ PassStays /\ UNCHANGED <<newer, pass, captive, upstreams>>

Sync == \/ Create \/ CreateFails \/ Begin \/ Early \/ Read \/ Decide \/ Dns \/ DnsMark
        \/ Upstream \/ StartNtp \/ StartMqtt \/ MarkUpstream \/ Halt \/ Halting \/ End

-----------------------------------------------------------------------------
(* network_services_start() and network_services_stop(): the lifecycle mutex *)

\* What a task does when the call returns.
Next_of(t) == CASE t = "sync" -> "dns" [] t = "worker" -> "stopped" [] t = "ota" -> "suspend"

\* network_services_stop() raises the flag before it waits.
RaiseFlag(t) ==
  /\ at[t] = "stop" /\ Goto(t, "wait") /\ teardown' = TRUE
  /\ UNCHANGED <<link, reports, sync, suspended, quiet, life, local, captive, upstreams, job,
                 ended, bounds>>

\* A start does not wait for its turn.  (mutant)
Acquire_NoMutex(t) ==
  /\ at[t] \in {"start", "wait"} /\ (at[t] = "wait" => life = Free)
  /\ life' = [Free EXCEPT !.who = t, !.at = IF at[t] = "start" THEN "check" ELSE "flag"]
  /\ Goto(t, "in")
  /\ UNCHANGED <<link, reports, sync, gates, local, captive, upstreams, job, ended, bounds>>

Acquire(t) ==
  /\ at[t] \in {"start", "wait"} /\ life = Free
  /\ life' = [Free EXCEPT !.who = t, !.at = IF at[t] = "start" THEN "check" ELSE "flag"]
  /\ Goto(t, "in")
  /\ UNCHANGED <<link, reports, sync, gates, local, captive, upstreams, job, ended, bounds>>

\* Another task has held the mutex for twenty seconds.
TimeOut(t) ==
  /\ at[t] \in {"start", "wait"} /\ life # Free /\ Trouble
  /\ Goto(t, Next_of(t))
  /\ UNCHANGED <<link, reports, sync, gates, life, local, captive, upstreams, job, ended,
                 changes>>

LifeAt(place) == life' = [life EXCEPT !.at = place] /\ UNCHANGED at
Release == life' = Free /\ Goto(life.who, Next_of(life.who))
LifeStays == UNCHANGED <<link, reports, sync, job, ended, changes>>

\* The flag is not looked at.  (mutant)
Check_NoFlag ==
  /\ life.at = "check"
  /\ IF running THEN Release ELSE LifeAt("http")
  /\ LifeStays /\ UNCHANGED <<gates, local, captive, upstreams, trouble>>

Check ==
  /\ life.at = "check"
  /\ IF teardown \/ running THEN Release ELSE LifeAt("http")
  /\ LifeStays /\ UNCHANGED <<gates, local, captive, upstreams, trouble>>

\* The port of a server just stopped may not be free yet: four attempts, given
\* up when a teardown begins.
HttpStart ==
  /\ life.at = "http"
  /\ \/ up' = up \cup {"http"} /\ LifeAt("routes") /\ UNCHANGED trouble
     \/ /\ Trouble /\ UNCHANGED up
        /\ \/ Release
           \/ ~teardown /\ LifeAt("http")
  /\ LifeStays /\ UNCHANGED <<gates, running, captive, upstreams>>

\* The TLS listener is left behind.  (mutant)
Cleanup_KeepHttps == up' = up \ {"http", "ws", "www"}

\* cleanup_http_services()
Cleanup == up' = up \ {"http", "https", "ws", "www"}

\* The dashboard and TLS are optional, the API and the WebSocket are not.  TLS
\* reads its certificate beside the dashboard's pages and serves the same
\* routes.  mDNS is started and stopped along with them.
Routes ==
  /\ life.at = "routes"
  /\ \/ /\ \E optional \in {{}, {"www"}, {"www", "https"}} : up' = up \cup {"ws"} \cup optional
        /\ LifeAt("mark") /\ UNCHANGED trouble
     \/ Trouble /\ Cleanup /\ Release
  /\ LifeStays /\ UNCHANGED <<gates, running, captive, upstreams>>

Mark ==
  /\ life.at = "mark" /\ running' = TRUE /\ Release
  /\ LifeStays /\ UNCHANGED <<gates, up, captive, upstreams, trouble>>

StopFlag ==
  /\ life.at = "flag"
  /\ teardown' = TRUE /\ running' = FALSE
  /\ life' = [life EXCEPT !.at = "halt", !.was = running] /\ UNCHANGED at
  /\ LifeStays
  /\ UNCHANGED <<suspended, quiet, up, captive, upstreams, trouble>>

StopUpstream ==
  /\ life.at = "halt"
  /\ life' = [life EXCEPT !.at = IF upstream THEN "clients" ELSE "dns", !.ntp = ntpFlag]
  /\ upstream' = FALSE /\ ntpFlag' = FALSE
  /\ LifeStays /\ UNCHANGED <<gates, at, local, captive, clients, trouble>>

StopClients ==
  /\ life.at = "clients" /\ LifeAt("dns")
  /\ clients' = Live(TRUE, life.ntp)
  /\ LifeStays /\ UNCHANGED <<gates, local, captive, upstream, ntpFlag, trouble>>

\* The flag first, then the redirector if the flag was up.
StopDns ==
  /\ life.at = "dns" /\ LifeAt(IF dnsRunning THEN "redirector" ELSE "servers")
  /\ dnsRunning' = FALSE
  /\ LifeStays /\ UNCHANGED <<gates, local, dns, upstreams, trouble>>

StopRedirector ==
  /\ life.at = "redirector" /\ LifeAt("servers")
  /\ dns' = FALSE
  /\ LifeStays /\ UNCHANGED <<gates, local, dnsRunning, upstreams, trouble>>

StopServers ==
  /\ life.at = "servers" /\ Release
  /\ IF life.was THEN Cleanup ELSE UNCHANGED up
  /\ quiet' = teardown
  /\ LifeStays
  /\ UNCHANGED <<teardown, suspended, running, captive, upstreams, trouble>>

Lifecycle ==
  \/ \E t \in Tasks : RaiseFlag(t) \/ Acquire(t) \/ TimeOut(t)
  \/ Check \/ HttpStart \/ Routes \/ Mark
  \/ StopFlag \/ StopUpstream \/ StopClients \/ StopDns
  \/ StopRedirector \/ StopServers

-----------------------------------------------------------------------------
(* The worker that switches the radio or its mode *)

WorkerStays ==
  UNCHANGED <<report, stationReady, internetReady, sync, suspended, life, local, captive,
              upstreams, ended, changes>>

Ask(what) ==
  /\ at["worker"] = "idle" /\ Trouble /\ job' = what
  /\ \/ what \in {"off", "mode"} /\ radio /\ (what = "mode" => Modes # {mode})
        /\ Goto("worker", "stop")
     \/ what = "on" /\ ~radio /\ Goto("worker", "allow")
  /\ WorkerStays /\ UNCHANGED <<link, changed, teardown, quiet>>

\* wifi_controller_stop()
RadioOff ==
  /\ at["worker"] = "stopped"
  /\ \/ /\ radio' = FALSE /\ status' = Down /\ ap' = FALSE /\ changed' = TRUE
        /\ Goto("worker", IF job = "mode" THEN "allow" ELSE "idle")
        /\ UNCHANGED trouble
     \/ Trouble /\ Goto("worker", "idle") /\ UNCHANGED <<radio, status, ap, changed>>
  /\ WorkerStays /\ UNCHANGED <<mode, teardown, quiet, job>>

\* network_services_allow_start(), on the way to a started radio.
Allow ==
  /\ at["worker"] = "allow" /\ Goto("worker", "radio")
  /\ teardown' = FALSE /\ quiet' = FALSE
  /\ WorkerStays /\ UNCHANGED <<link, changed, job, trouble>>

\* wifi_controller_start().  A mode that cannot be stored or started is undone.
Started == radio' = TRUE /\ ap' = AccessPoint(mode') /\ changed' = TRUE

RadioOn ==
  /\ at["worker"] = "radio" /\ Goto("worker", "idle")
  /\ \/ job = "mode" /\ mode' \in Modes \ {mode} /\ Started /\ UNCHANGED trouble
     \/ job = "on" /\ mode' = mode /\ Started /\ UNCHANGED trouble
     \/ job = "mode" /\ mode' = mode /\ Trouble /\ Started
     \/ mode' = mode /\ Trouble /\ UNCHANGED <<radio, ap, changed>>
  /\ WorkerStays /\ UNCHANGED <<status, teardown, quiet, job>>

Worker == (\E what \in {"off", "on", "mode"} : Ask(what)) \/ RadioOff \/ Allow \/ RadioOn

-----------------------------------------------------------------------------
(* The worker of a firmware check or installation *)

OtaStays == UNCHANGED <<link, report, changed, stationReady, internetReady, pass, life, local,
                        captive, upstreams, job, ended, changes>>

AskSuspend ==
  /\ at["ota"] = "idle" /\ Trouble /\ Goto("ota", "stop")
  /\ OtaStays /\ UNCHANGED <<newer, scheduled, gates>>

Suspended ==
  /\ at["ota"] = "suspend" /\ Goto("ota", "busy")
  /\ suspended' = TRUE
  /\ OtaStays /\ UNCHANGED <<newer, scheduled, teardown, quiet, trouble>>

\* network_services_resume_after_ota(): the flags, then the request of a pass.
Resume ==
  /\ at["ota"] = "busy" /\ Goto("ota", "resume")
  /\ suspended' = FALSE /\ teardown' = FALSE /\ quiet' = FALSE
  /\ OtaStays /\ UNCHANGED <<newer, scheduled, trouble>>

ResumeSync ==
  /\ at["ota"] = "resume"
  /\ newer' = TRUE /\ scheduled' = TRUE
  /\ at' = [at EXCEPT !["ota"] = "idle", !["sync"] = IF scheduled THEN @ ELSE "owed"]
  /\ OtaStays /\ UNCHANGED <<gates, trouble>>

Ota == AskSuspend \/ Suspended \/ Resume \/ ResumeSync

Next ==
  \/ LinkChange \/ Publish \/ Probe
  \/ \E r \in Reporters : Deliver(r)
  \/ Sync \/ Lifecycle \/ Worker \/ Ota

Spec == Init /\ [][Next]_vars

-----------------------------------------------------------------------------
(* Properties *)

TypeOK ==
  /\ mode \in Modes /\ {radio, ap, changed, stationReady, internetReady} \subseteq BOOLEAN
  /\ status \in [station : BOOLEAN, internet : BOOLEAN]
  /\ report \in [Reporters -> [pending : BOOLEAN, status : [station : BOOLEAN, internet : BOOLEAN]]]
  /\ {newer, scheduled, teardown, suspended, quiet, running} \subseteq BOOLEAN
  /\ pass \in [DOMAIN NoPass -> BOOLEAN]
  /\ life.who \in Tasks \cup {"nobody"} /\ \A t \in Tasks : at[t] = "in" <=> life.who = t
  /\ {life.was, life.ntp} \subseteq BOOLEAN
  /\ up \subseteq {"http", "https", "ws", "www"}
  /\ {dns, dnsRunning, upstream, ntpFlag} \subseteq BOOLEAN
  /\ clients \subseteq {"ntp", "mqtt"}

\* A pass that was not cut short has applied the newest report there is.
NewestApplied == ~scheduled /\ ended = "full" => ~newer

\* A stop that has returned stays in force until services are allowed again:
\* no report, no pass under way and no task that waited for the mutex starts a
\* server while the radio goes down.
StopHolds == quiet => up = {} /\ ~running

\* The upstream flag covers the MQTT client: a stop that overlaps a start, or
\* the other way round, leaves no client that a later stop would not find.
UpstreamOwned ==
  at["sync"] \notin {"mark", "halting"} /\ life.at # "clients" /\ "mqtt" \in clients => upstream

\* A redirector that runs has its flag: a pass that starts it while a stop takes the
\* flag down leaves none that the next stop would pass by.
RedirectorOwned ==
  at["sync"] # "dnsMark" /\ life.at # "redirector" /\ dns => dnsRunning

\* s_sync_scheduled is up exactly while a pass is on its way: a flag that stays
\* up without a task would keep every later report from being applied.
FlagHasTask == scheduled <=> at["sync"] # "idle"

\* Outside start and stop, s_running tells whether there are servers, and a
\* start or stop that was cut short leaves none behind.
ServersOwned ==
  life = Free => /\ running => {"http", "ws"} \subseteq up
                 /\ ~running => up = {}

\* Nothing the services own is lost track of, however start, stop and the passes
\* of the sync task overlap: no flag without its task, no server, redirector or client
\* without the flag the next stop looks at (network_services.c:160, 246, 464, 575, 634).
NothingOrphaned == FlagHasTask /\ ServersOwned /\ UpstreamOwned /\ RedirectorOwned
=============================================================================
