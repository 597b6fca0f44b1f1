------------------------ MODULE NetworkServices_proofs ------------------------
(***************************************************************************)
(* That the network services are never lost track of, for every set of     *)
(* modes and any number of changes of the link, switches of the radio and  *)
(* suspensions, however the synchronisation task, the worker of the radio  *)
(* and the worker of an update overlap.                                    *)
(*                                                                         *)
(* The invariant has one part for each thing that is owned: the lifecycle  *)
(* mutex and the place of its holder, the servers along the steps of a     *)
(* start and of a stop, and the quiet that a stop leaves behind.           *)
(***************************************************************************)
EXTENDS NetworkServices, TLAPS

Places == {"idle", "owed", "begin", "early", "read", "decide", "start", "stop", "wait", "in",
           "dns", "dnsMark", "upstream", "ntp", "mqtt", "mark", "halt", "halting", "end",
           "stopped", "allow", "radio", "suspend", "busy", "resume"}
LifePlaces == {"free", "check", "http", "routes", "mark",
               "flag", "halt", "clients", "dns", "redirector", "servers"}

\* The mutex is held by the task that is in start or stop, and by nobody else.
LockInv ==
    /\ at \in [Tasks -> Places]
    /\ life \in [who : Tasks \cup {"nobody"}, at : LifePlaces, was : BOOLEAN, ntp : BOOLEAN]
    /\ \A t \in Tasks : at[t] = "in" <=> life.who = t
    /\ life.who = "nobody" <=> life = Free
    /\ life.at = "free" <=> life.who = "nobody"

LEMMA FreeFields == Free.who = "nobody" /\ Free.at = "free"
BY DEF Free

LEMMA FreeType == Free \in [who : Tasks \cup {"nobody"}, at : LifePlaces, was : BOOLEAN, ntp : BOOLEAN]
BY Zenon DEF Free, Tasks, LifePlaces

\* A step of a task that neither takes nor gives the mutex.
LEMMA LockMoves ==
  ASSUME LockInv, life' = life, NEW t \in Tasks, NEW place \in Places,
         Goto(t, place), at[t] # "in", place # "in"
  PROVE  LockInv'
BY DEF LockInv, Goto

LEMMA LockStays == ASSUME LockInv, UNCHANGED <<at, life>> PROVE LockInv'
BY DEF LockInv

\* A step of the holder.
LEMMA LockHolder ==
  ASSUME LockInv, life.who # "nobody", at' = at, NEW place \in LifePlaces \ {"free"},
         life'.at = place, life'.who = life.who,
         life' \in [who : Tasks \cup {"nobody"}, at : LifePlaces, was : BOOLEAN, ntp : BOOLEAN]
  PROVE  LockInv'
BY FreeFields DEF LockInv

LEMMA LockRelease ==
  ASSUME LockInv, life.who # "nobody", Release
  PROVE  LockInv' /\ life' = Free /\ life.who \in Tasks /\ at[life.who] = "in"
         /\ \A t \in Tasks : at'[t] = IF t = life.who THEN Next_of(t) ELSE at[t]
<1>1. life.who \in Tasks /\ at[life.who] = "in" /\ life' = Free
  BY DEF LockInv, Release
<1>2. Next_of(life.who) \in Places \ {"in"}
  BY <1>1 DEF Next_of, Tasks, Places
<1>3. at' = [at EXCEPT ![life.who] = Next_of(life.who)]
  BY DEF Release, Goto
<1>4. \A t \in Tasks : at'[t] = IF t = life.who THEN Next_of(t) ELSE at[t]
  BY <1>1, <1>3 DEF LockInv
<1>5. at' \in [Tasks -> Places]
  BY <1>2, <1>3 DEF LockInv
<1>6. \A t \in Tasks : at'[t] = "in" <=> life'.who = t
  <2>1. "nobody" \notin Tasks
    BY DEF Tasks
  <2> QED
    BY <1>1, <1>2, <1>4, <2>1, FreeFields DEF LockInv
<1>7. LockInv'
  BY <1>1, <1>5, <1>6, FreeFields, FreeType DEF LockInv
<1> QED
  BY <1>1, <1>4, <1>7

\* The running flags, as far as the holder of the mutex copies them.
CopiedInv == running \in BOOLEAN /\ ntpFlag \in BOOLEAN

LEMMA SomePlaces ==
  {"idle", "owed", "begin", "early", "read", "decide", "start", "stop", "dns", "dnsMark", "upstream",
   "ntp", "mqtt", "mark", "halt", "halting", "end"} \subseteq Places \ {"in"}
BY DEF Places

\* A pass of the synchronisation task goes from place to place.
LEMMA SyncMoves ==
  ASSUME Sync
  PROVE  /\ life' = life /\ at["sync"] # "in"
         /\ \E place \in Places \ {"in"} : Goto("sync", place)
<1>1. life' = life /\ at["sync"] # "in"
  BY DEF Sync, Create, CreateFails, Begin, Early, Read, Decide, Dns, DnsMark, Upstream, StartNtp, StartMqtt,
     MarkUpstream, Halt, Halting, End, PassStays
<1>2. CASE Create \/ CreateFails \/ Begin \/ Early \/ Read \/ Dns \/ DnsMark \/ StartNtp \/ StartMqtt
           \/ MarkUpstream \/ Halting
  <2>1. \/ Goto("sync", "begin") \/ Goto("sync", "idle") \/ Goto("sync", "early")
        \/ Goto("sync", "read") \/ Goto("sync", "decide") \/ Goto("sync", "dnsMark") \/ Goto("sync", "upstream")
        \/ Goto("sync", "mqtt") \/ Goto("sync", "mark") \/ Goto("sync", "end")
    BY <1>2 DEF Create, CreateFails, Begin, Early, Read, Dns, DnsMark, StartNtp, StartMqtt, MarkUpstream,
       Halting, Goto
  <2> QED
    BY <1>1, <2>1, SomePlaces
<1>3. CASE Decide
  <2>1. Goto("sync", "start") \/ Goto("sync", "stop") \/ Goto("sync", "dns")
    BY <1>3 DEF Decide, Goto
  <2> QED
    BY <1>1, <2>1, SomePlaces
<1>4. CASE Upstream \/ Halt \/ End
  <2>1. \/ Goto("sync", "end") \/ Goto("sync", "ntp") \/ Goto("sync", "halt")
        \/ Goto("sync", "halting") \/ Goto("sync", "owed") \/ Goto("sync", "idle")
    BY <1>4 DEF Upstream, Halt, End, Goto
  <2> QED
    BY <1>1, <2>1, SomePlaces
<1> QED
  BY <1>1, <1>2, <1>3, <1>4 DEF Sync

LEMMA OthersMove ==
  ASSUME Worker \/ AskSuspend \/ Suspended \/ Resume
  PROVE  /\ life' = life
         /\ \E t \in {"worker", "ota"} : at[t] # "in" /\ \E place \in Places \ {"in"} : Goto(t, place)
<1>1. CASE Worker
  <2>1. life' = life /\ at["worker"] # "in"
    BY <1>1 DEF Worker, Ask, RadioOff, Allow, RadioOn, WorkerStays
  <2>2. \/ Goto("worker", "stop") \/ Goto("worker", "allow") \/ Goto("worker", "idle")
        \/ Goto("worker", "radio")
    BY <1>1 DEF Worker, Ask, RadioOff, Allow, RadioOn, Goto
  <2> QED
    BY <2>1, <2>2 DEF Places
<1>2. CASE AskSuspend \/ Suspended \/ Resume
  <2>1. /\ life' = life /\ at["ota"] # "in"
        /\ Goto("ota", "stop") \/ Goto("ota", "busy") \/ Goto("ota", "resume")
    BY <1>2 DEF AskSuspend, Suspended, Resume, OtaStays
  <2> QED
    BY <2>1 DEF Places
<1> QED
  BY <1>1, <1>2

LEMMA LockMutex ==
  ASSUME LockInv, NEW t \in Tasks, RaiseFlag(t) \/ Acquire(t) \/ TimeOut(t)
  PROVE  LockInv'
<1>1. CASE RaiseFlag(t)
  BY <1>1, LockMoves DEF RaiseFlag, Places
<1>2. CASE Acquire(t)
  <2> DEFINE place == IF at[t] = "start" THEN "check" ELSE "flag"
  <2>1. life' = [who |-> t, at |-> place, was |-> FALSE, ntp |-> FALSE] /\ place \in LifePlaces \ {"free"}
    BY <1>2 DEF Acquire, Free, LifePlaces
  <2> HIDE DEF place
  <2>2. life' \in [who : Tasks \cup {"nobody"}, at : LifePlaces, was : BOOLEAN, ntp : BOOLEAN]
    BY <2>1, Zenon
  <2>3. life'.who = t /\ life'.at # "free" /\ t # "nobody"
    BY <2>1 DEF Tasks
  <2>4. at' = [at EXCEPT ![t] = "in"] /\ life.who = "nobody"
    BY <1>2, FreeFields DEF Acquire, Goto
  <2>5. at' \in [Tasks -> Places]
    BY <2>4 DEF LockInv, Places
  <2>6. \A u \in Tasks : at'[u] = "in" <=> life'.who = u
    BY <2>3, <2>4 DEF LockInv, Tasks
  <2> QED
    BY <2>2, <2>3, <2>5, <2>6, FreeFields DEF LockInv
<1>3. CASE TimeOut(t)
  <2>1. Next_of(t) \in Places \ {"in"}
    BY DEF Next_of, Tasks, Places
  <2> QED
    BY <1>3, <2>1, LockMoves DEF TimeOut
<1> QED
  BY <1>1, <1>2, <1>3

LifeStep == Check \/ HttpStart \/ Routes \/ Mark
            \/ StopFlag \/ StopUpstream \/ StopClients \/ StopDns \/ StopRedirector \/ StopServers

LEMMA HolderMoves ==
  ASSUME LockInv, CopiedInv, LifeStep
  PROVE  /\ life.who # "nobody"
         /\ \/ Release
            \/ /\ at' = at /\ life'.who = life.who
               /\ life' \in [who : Tasks \cup {"nobody"}, at : LifePlaces, was : BOOLEAN, ntp : BOOLEAN]
               /\ life'.at \in LifePlaces \ {"free"}
<1> DEFINE T == [who : Tasks \cup {"nobody"}, at : LifePlaces, was : BOOLEAN, ntp : BOOLEAN]
           Stays == at' = at /\ life'.who = life.who /\ life' \in T /\ life'.at \in LifePlaces \ {"free"}
<1>1. life.who # "nobody" /\ life \in T
  BY DEF LockInv, LifeStep, Check, HttpStart, Routes, Mark, StopFlag, StopUpstream, StopClients,
     StopDns, StopRedirector, StopServers
<1>2. ASSUME NEW place \in LifePlaces \ {"free"}, LifeAt(place) PROVE Stays
  BY <1>1, <1>2 DEF LifeAt
<1>3. CASE Check \/ HttpStart \/ Routes \/ Mark \/ StopClients \/ StopDns \/ StopRedirector \/ StopServers
  <2>1. \/ Release \/ LifeAt("http") \/ LifeAt("routes") \/ LifeAt("mark") \/ LifeAt("dns")
        \/ LifeAt("redirector") \/ LifeAt("servers")
    BY <1>3, Zenon DEF Check, HttpStart, Routes, Mark, StopClients, StopDns, StopRedirector, StopServers
  <2> QED
    BY <1>1, <1>2, <2>1 DEF LifePlaces
<1>4. CASE StopFlag
  <2>1. at' = at /\ life' = [life EXCEPT !.at = "halt", !.was = running]
    BY <1>4 DEF StopFlag
  <2> QED
    BY <1>1, <2>1 DEF CopiedInv, LifePlaces
<1>5. CASE StopUpstream
  <2> DEFINE place == IF upstream THEN "clients" ELSE "dns"
  <2>1. at' = at /\ life' = [life EXCEPT !.at = place, !.ntp = ntpFlag]
    BY <1>5 DEF StopUpstream
  <2>2. place \in LifePlaces \ {"free"}
    BY DEF LifePlaces
  <2> HIDE DEF place
  <2> QED
    BY <1>1, <2>1, <2>2 DEF CopiedInv
<1> QED
  BY <1>1, <1>3, <1>4, <1>5 DEF LifeStep

\* The steps of the Wi-Fi side leave the tasks and the mutex alone.
WifiStep == LinkChange \/ Publish \/ Probe

LEMMA Steps ==
  ASSUME Next
  PROVE  \/ WifiStep \/ (\E r \in Reporters : Deliver(r)) \/ Sync
         \/ (\E t \in Tasks : RaiseFlag(t) \/ Acquire(t) \/ TimeOut(t)) \/ LifeStep
         \/ Worker \/ Ota
BY Zenon DEF Next, WifiStep, LifeStep, Lifecycle

LEMMA LockSchedule ==
  ASSUME LockInv, FlagHasTask, Schedule, life' = life
  PROVE  LockInv' /\ FlagHasTask'
<1>1. CASE scheduled
  BY <1>1, LockStays DEF Schedule, FlagHasTask
<1>2. CASE ~scheduled
  <2>1. Goto("sync", "owed") /\ scheduled'
    BY <1>2 DEF Schedule
  <2>2. at["sync"] = "idle"
    BY <1>2 DEF FlagHasTask
  <2>3. "sync" \in Tasks /\ "owed" \in Places \ {"in"} /\ "idle" # "in"
    BY DEF Tasks, Places
  <2>4. LockInv'
    BY <2>1, <2>2, <2>3, LockMoves
  <2>5. at'["sync"] = "owed"
    BY <2>1, <2>3 DEF Goto, LockInv
  <2> QED
    BY <2>1, <2>4, <2>5 DEF FlagHasTask
<1> QED
  BY <1>1, <1>2

\* The mutex and the flag of the synchronisation task are kept by every step.
LEMMA LockStep ==
  ASSUME LockInv, FlagHasTask, CopiedInv, [Next]_vars
  PROVE  LockInv' /\ FlagHasTask'
<1>1. CASE UNCHANGED vars \/ WifiStep
  BY <1>1, LockStays DEF vars, sync, reports, WifiStep, LinkChange, Publish, Probe, FlagHasTask
<1>2. ASSUME NEW r \in Reporters, Deliver(r) PROVE LockInv' /\ FlagHasTask'
  BY <1>2, LockSchedule DEF Deliver
<1>3. CASE Sync
  <2>1. PICK place \in Places \ {"in"} : Goto("sync", place)
    BY <1>3, SyncMoves
  <2>2. life' = life /\ at["sync"] # "in" /\ "sync" \in Tasks
    BY <1>3, SyncMoves DEF Tasks
  <2>3. LockInv'
    BY <2>1, <2>2, LockMoves
  <2>4. at'["sync"] = place /\ at \in [Tasks -> Places]
    BY <2>1, <2>2 DEF Goto, LockInv
  <2>5. FlagHasTask'
    <3>1. CASE Create \/ CreateFails \/ Begin \/ Early \/ Read \/ Decide \/ Dns \/ DnsMark
      BY <2>2, <2>4, <3>1 DEF FlagHasTask, Create, CreateFails, Begin, Early, Read, Decide, Dns, DnsMark, Goto, sync
    <3>2. CASE Upstream \/ StartNtp \/ StartMqtt \/ MarkUpstream \/ Halt \/ Halting \/ End
      BY <2>2, <2>4, <3>2 DEF FlagHasTask, Upstream, StartNtp, StartMqtt, MarkUpstream, Halt, Halting, End,
         Goto, sync
    <3> QED
      BY <1>3, <3>1, <3>2 DEF Sync
  <2> QED
    BY <2>3, <2>5
<1>4. ASSUME NEW t \in Tasks, RaiseFlag(t) \/ Acquire(t) \/ TimeOut(t)
      PROVE  LockInv' /\ FlagHasTask'
  <2>1. scheduled' = scheduled /\ at[t] # "idle"
    BY <1>4 DEF RaiseFlag, Acquire, TimeOut, sync
  <2>2. \E place \in Places \ {"idle"} : at' = [at EXCEPT ![t] = place]
    BY <1>4 DEF RaiseFlag, Acquire, TimeOut, Goto, Next_of, Tasks, Places
  <2>3. FlagHasTask'
    BY <2>1, <2>2 DEF FlagHasTask, LockInv
  <2> QED
    BY <1>4, <2>3, LockMutex
<1>5. CASE LifeStep
  <2>1. scheduled' = scheduled
    BY <1>5 DEF LifeStep, Check, HttpStart, Routes, Mark, StopFlag, StopUpstream, StopClients, StopDns,
       StopRedirector, StopServers, LifeStays, sync
  <2>2. life.who # "nobody"
    BY <1>5, HolderMoves
  <2>3. CASE Release
    <3>1. /\ LockInv' /\ life.who \in Tasks /\ at[life.who] = "in"
          /\ \A t \in Tasks : at'[t] = IF t = life.who THEN Next_of(t) ELSE at[t]
      BY <2>2, <2>3, LockRelease
    <3>2. at'["sync"] # "idle" <=> at["sync"] # "idle"
      BY <3>1 DEF Next_of, Tasks
    <3> QED
      BY <2>1, <3>1, <3>2 DEF FlagHasTask
  <2>4. CASE ~Release
    <3>1. /\ at' = at /\ life'.who = life.who
          /\ life' \in [who : Tasks \cup {"nobody"}, at : LifePlaces, was : BOOLEAN, ntp : BOOLEAN]
          /\ life'.at \in LifePlaces \ {"free"}
      BY <1>5, <2>4, HolderMoves
    <3> QED
      BY <2>1, <2>2, <3>1, LockHolder DEF FlagHasTask
  <2> QED
    BY <2>3, <2>4
<1>6. CASE Worker \/ AskSuspend \/ Suspended \/ Resume
  <2>1. /\ life' = life
        /\ \E t \in {"worker", "ota"} : at[t] # "in" /\ \E place \in Places \ {"in"} : Goto(t, place)
    BY <1>6, OthersMove
  <2>2. PICK t \in {"worker", "ota"} : at[t] # "in" /\ \E place \in Places \ {"in"} : Goto(t, place)
    BY <2>1
  <2>3. PICK place \in Places \ {"in"} : Goto(t, place)
    BY <2>2
  <2>4. LockInv'
    BY <2>1, <2>2, <2>3, LockMoves DEF Tasks
  <2>5. at'["sync"] = at["sync"]
    BY <2>3 DEF Goto, LockInv, Tasks
  <2>6. scheduled' = scheduled
    BY <1>6 DEF Worker, Ask, RadioOff, Allow, RadioOn, WorkerStays, AskSuspend, Suspended, Resume, sync
  <2> QED
    BY <2>4, <2>5, <2>6 DEF FlagHasTask
<1>7. CASE ResumeSync
  <2>1. /\ life' = life /\ scheduled' = TRUE /\ at["ota"] = "resume"
        /\ at' = [at EXCEPT !["ota"] = "idle", !["sync"] = IF scheduled THEN at["sync"] ELSE "owed"]
    BY <1>7 DEF ResumeSync, OtaStays, LockInv
  <2>2. /\ at'["ota"] = "idle" /\ at'["worker"] = at["worker"]
        /\ at'["sync"] = IF scheduled THEN at["sync"] ELSE "owed"
        /\ at' \in [Tasks -> Places]
    BY <2>1 DEF LockInv, Tasks, Places
  <2>3. ~scheduled => at["sync"] = "idle"
    BY DEF FlagHasTask
  <2>4. LockInv'
    BY <2>1, <2>2, <2>3 DEF LockInv, Tasks
  <2> QED
    BY <2>1, <2>2, <2>4 DEF FlagHasTask
<1> QED
  BY <1>1, <1>2, <1>3, <1>4, <1>5, <1>6, <1>7, Steps, Zenon DEF Ota

-----------------------------------------------------------------------------
(* The newest report *)

LEMMA NewestStep ==
  ASSUME NewestApplied, [Next]_vars
  PROVE  NewestApplied'
<1>1. CASE UNCHANGED vars \/ WifiStep
  BY <1>1 DEF vars, sync, reports, WifiStep, LinkChange, Publish, Probe, NewestApplied
<1>2. ASSUME NEW r \in Reporters, Deliver(r) PROVE NewestApplied'
  BY <1>2 DEF Deliver, Schedule, NewestApplied
<1>3. CASE Sync
  <2>1. CASE Create \/ Begin \/ Decide \/ Dns \/ DnsMark \/ Upstream \/ StartNtp \/ StartMqtt
             \/ MarkUpstream \/ Halt \/ Halting
    BY <2>1 DEF Create, Begin, Decide, Dns, DnsMark, Upstream, StartNtp, StartMqtt, MarkUpstream, Halt, Halting,
       sync, NewestApplied
  <2>2. CASE CreateFails \/ Early \/ Read
    BY <2>2 DEF CreateFails, Early, Read, NewestApplied
  <2>3. CASE End
    BY <2>3 DEF End, NewestApplied
  <2> QED
    BY <1>3, <2>1, <2>2, <2>3 DEF Sync
<1>4. ASSUME NEW t \in Tasks, RaiseFlag(t) \/ Acquire(t) \/ TimeOut(t) PROVE NewestApplied'
  BY <1>4 DEF RaiseFlag, Acquire, TimeOut, sync, NewestApplied
<1>5. CASE LifeStep
  BY <1>5 DEF LifeStep, Check, HttpStart, Routes, Mark, StopFlag, StopUpstream, StopClients, StopDns,
     StopRedirector, StopServers, LifeStays, sync, NewestApplied
<1>6. CASE Worker \/ Ota
  BY <1>6 DEF Worker, Ask, RadioOff, Allow, RadioOn, WorkerStays, Ota, AskSuspend, Suspended, Resume,
     ResumeSync, OtaStays, sync, NewestApplied
<1> QED
  BY <1>1, <1>2, <1>3, <1>4, <1>5, <1>6, Steps, Zenon

-----------------------------------------------------------------------------
(* The servers, along a start and along a stop *)

ServersInv ==
    /\ life.at \in {"free", "check", "flag"} =>
          IF running THEN {"http", "ws"} \subseteq up ELSE up = {}
    /\ life.at = "http" => ~running /\ up = {}
    /\ life.at = "routes" => ~running /\ up = {"http"}
    /\ life.at = "mark" => ~running /\ {"http", "ws"} \subseteq up
    /\ life.at \in {"halt", "clients", "dns", "redirector", "servers"} => ~running /\ (~life.was => up = {})

\* What a stop has left stays so while services are not allowed again; a start
\* that is past its look at the flag is no such time.
QuietInv ==
    /\ quiet => teardown /\ up = {} /\ ~running
    /\ life.at \in {"http", "routes", "mark"} => ~quiet

OwnInv == ServersInv /\ QuietInv /\ up \subseteq {"http", "https", "ws", "www"}

\* The flags and the servers are as they were, the mutex is taken or kept.
LEMMA OwnStays ==
  ASSUME OwnInv, UNCHANGED <<up, running>>, life' = life,
         quiet' = quiet \/ ~quiet', teardown' = teardown \/ teardown' \/ ~quiet'
  PROVE  OwnInv'
BY DEF OwnInv, ServersInv, QuietInv

LEMMA OwnHolder == ASSUME LockInv, OwnInv, LifeStep PROVE OwnInv'
<1>1. CASE Check
  BY <1>1, FreeFields DEF Check, Release, LifeAt, gates, local, OwnInv, ServersInv, QuietInv, LockInv
<1>2. CASE HttpStart
  BY <1>2, FreeFields DEF HttpStart, Release, LifeAt, gates, OwnInv, ServersInv, QuietInv, LockInv
<1>3. CASE Routes
  BY <1>3, FreeFields DEF Routes, Cleanup, Release, LifeAt, gates, OwnInv, ServersInv, QuietInv, LockInv
<1>4. CASE Mark
  BY <1>4, FreeFields DEF Mark, Release, gates, OwnInv, ServersInv, QuietInv, LockInv
<1>5. CASE StopFlag
  BY <1>5 DEF StopFlag, OwnInv, ServersInv, QuietInv, LockInv
<1>6. CASE StopUpstream
  BY <1>6 DEF StopUpstream, gates, local, OwnInv, ServersInv, QuietInv, LockInv
<1>7. CASE StopClients \/ StopDns \/ StopRedirector
  <2>1. /\ UNCHANGED <<gates, local>> /\ life.at \in {"clients", "dns", "redirector"}
        /\ \/ life' = [life EXCEPT !.at = "dns"] \/ life' = [life EXCEPT !.at = "redirector"]
           \/ life' = [life EXCEPT !.at = "servers"]
    BY <1>7 DEF StopClients, StopDns, StopRedirector, LifeAt
  <2>2. life'.at \in {"dns", "redirector", "servers"} /\ life'.was = life.was
    BY <2>1 DEF LockInv
  <2> QED
    BY <2>1, <2>2 DEF gates, local, OwnInv, ServersInv, QuietInv
<1>8. CASE StopServers
  BY <1>8, FreeFields DEF StopServers, Cleanup, Release, OwnInv, ServersInv, QuietInv, LockInv
<1> QED
  BY <1>1, <1>2, <1>3, <1>4, <1>5, <1>6, <1>7, <1>8 DEF LifeStep

LEMMA OwnStep == ASSUME LockInv, OwnInv, [Next]_vars PROVE OwnInv'
<1>1. CASE UNCHANGED vars \/ WifiStep
  BY <1>1 DEF vars, gates, local, WifiStep, LinkChange, Publish, Probe, OwnInv, ServersInv, QuietInv
<1>2. ASSUME NEW r \in Reporters, Deliver(r) PROVE OwnInv'
  BY <1>2 DEF Deliver, gates, local, OwnInv, ServersInv, QuietInv
<1>3. CASE Sync
  <2>1. UNCHANGED <<gates, life, local>>
    BY <1>3 DEF Sync, Create, CreateFails, Begin, Early, Read, Decide, Dns, DnsMark, Upstream, StartNtp,
       StartMqtt, MarkUpstream, Halt, Halting, End, PassStays
  <2> QED
    BY <2>1 DEF gates, local, OwnInv, ServersInv, QuietInv
<1>4. ASSUME NEW t \in Tasks, RaiseFlag(t) \/ Acquire(t) \/ TimeOut(t) PROVE OwnInv'
  <2>1. CASE RaiseFlag(t)
    BY <2>1 DEF RaiseFlag, local, OwnInv, ServersInv, QuietInv
  <2>3. CASE TimeOut(t)
    BY <2>3 DEF TimeOut, gates, local, OwnInv, ServersInv, QuietInv
  <2>2. CASE Acquire(t)
    BY <2>2, FreeFields DEF Acquire, Free, gates, local, OwnInv, ServersInv, QuietInv
  <2> QED
    BY <1>4, <2>1, <2>2, <2>3
<1>5. CASE LifeStep
  BY <1>5, OwnHolder
<1>6. CASE Worker \/ Ota
  BY <1>6 DEF Worker, Ask, RadioOff, Allow, RadioOn, WorkerStays, Ota, AskSuspend, Suspended, Resume,
     ResumeSync, OtaStays, gates, local, OwnInv, ServersInv, QuietInv
<1> QED
  BY <1>1, <1>2, <1>3, <1>4, <1>5, <1>6, Steps, Zenon

-----------------------------------------------------------------------------
(* The upstream clients *)

LEMMA UpstreamStep ==
  ASSUME LockInv, FlagHasTask, CopiedInv, UpstreamOwned, [Next]_vars
  PROVE  UpstreamOwned'
<1> USE DEF UpstreamOwned
<1>1. CASE UNCHANGED vars \/ WifiStep
  BY <1>1 DEF vars, upstreams, WifiStep, LinkChange, Publish, Probe
<1>2. ASSUME NEW r \in Reporters, Deliver(r) PROVE UpstreamOwned'
  BY <1>2 DEF Deliver, Schedule, Goto, upstreams, LockInv, Tasks, FlagHasTask
<1>3. CASE Sync
  <2>1. life' = life
    BY <1>3, SyncMoves
  <2>2. CASE Create \/ CreateFails \/ Begin \/ Early \/ Read \/ Decide \/ Dns \/ DnsMark \/ Upstream \/ End
    BY <2>1, <2>2 DEF Create, CreateFails, Begin, Early, Read, Decide, Dns, DnsMark, Upstream, End, upstreams, Goto,
       LockInv, Tasks
  <2>3. CASE StartNtp \/ StartMqtt \/ MarkUpstream \/ Halt \/ Halting
    BY <2>1, <2>3 DEF StartNtp, StartMqtt, MarkUpstream, Halt, Halting, Live, Goto, LockInv, Tasks
  <2> QED
    BY <1>3, <2>2, <2>3 DEF Sync
<1>4. ASSUME NEW t \in Tasks, RaiseFlag(t) \/ Acquire(t) \/ TimeOut(t) PROVE UpstreamOwned'
  <2>1. at[t] \notin {"mark", "halting"} /\ UNCHANGED upstreams
    BY <1>4 DEF RaiseFlag, Acquire, TimeOut, upstreams
  <2>2. at'["sync"] = at["sync"] \/ at["sync"] \notin {"mark", "halting"}
    BY <1>4, <2>1 DEF RaiseFlag, Acquire, TimeOut, Goto, LockInv, Tasks
  <2>3. life'.at # "clients" => life.at # "clients"
    BY <1>4, FreeFields DEF RaiseFlag, Acquire, TimeOut, Free
  <2>4. life' = life \/ life.at # "clients"
    BY <1>4, FreeFields DEF RaiseFlag, Acquire, TimeOut
  <2> QED
    BY <2>1, <2>2, <2>4 DEF upstreams
<1>5. CASE LifeStep
  <2>1. at["sync"] \notin {"mark", "halting"} \/ at'["sync"] = at["sync"]
    <3>1. CASE Release
      <4>1. \A t \in Tasks : at'[t] = IF t = life.who THEN Next_of(t) ELSE at[t]
        BY <1>5, <3>1, HolderMoves, LockRelease
      <4>2. at[life.who] = "in"
        BY <1>5, <3>1, HolderMoves, LockRelease
      <4> QED
        BY <4>1, <4>2 DEF Tasks
    <3> QED
      BY <1>5, <3>1, HolderMoves
  <2>2. CASE Check \/ HttpStart \/ Routes \/ Mark \/ StopFlag \/ StopDns \/ StopRedirector \/ StopServers
    BY <2>1, <2>2 DEF Check, HttpStart, Routes, Mark, StopFlag, StopDns, StopRedirector, StopServers, upstreams
  <2>3. CASE StopUpstream
    BY <2>1, <2>3 DEF StopUpstream, LockInv
  <2>4. CASE StopClients
    BY <2>1, <2>4 DEF StopClients, Live
  <2> QED
    BY <1>5, <2>2, <2>3, <2>4 DEF LifeStep
<1>6. CASE Worker \/ Ota
  <2>1. UNCHANGED <<life, upstreams>>
    BY <1>6 DEF Worker, Ask, RadioOff, Allow, RadioOn, WorkerStays, Ota, AskSuspend, Suspended, Resume,
       ResumeSync, OtaStays
  <2>2. at'["sync"] = at["sync"] \/ at["sync"] = "idle"
    <3>1. CASE Worker \/ AskSuspend \/ Suspended \/ Resume
      BY <3>1, OthersMove DEF Goto, LockInv, Tasks
    <3>2. CASE ResumeSync
      BY <3>2 DEF ResumeSync, LockInv, Tasks, FlagHasTask
    <3> QED
      BY <1>6, <3>1, <3>2 DEF Ota
  <2> QED
    BY <2>1, <2>2 DEF upstreams
<1> QED
  BY <1>1, <1>2, <1>3, <1>4, <1>5, <1>6, Steps, Zenon

-----------------------------------------------------------------------------
(* The redirector of the access point *)

\* A redirector without its flag is on its way to one, or on its way down; and
\* a pass on its way to lower the flag has stopped it.
RedirectorInv == RedirectorOwned /\ (at["sync"] = "dnsMark" /\ ~pass.ap => ~dns)

LEMMA RedirectorStep ==
  ASSUME LockInv, FlagHasTask, CopiedInv, RedirectorInv, [Next]_vars
  PROVE  RedirectorInv'
<1> USE DEF RedirectorInv, RedirectorOwned
<1>1. CASE UNCHANGED vars \/ WifiStep
  BY <1>1 DEF vars, sync, captive, WifiStep, LinkChange, Publish, Probe
<1>2. ASSUME NEW r \in Reporters, Deliver(r) PROVE RedirectorInv'
  BY <1>2 DEF Deliver, Schedule, Goto, captive, LockInv, Tasks, FlagHasTask
<1>3. CASE Sync
  <2>1. life' = life
    BY <1>3, SyncMoves
  <2>2. CASE Create \/ CreateFails \/ Begin \/ Early \/ Read \/ Decide
    BY <2>1, <2>2 DEF Create, CreateFails, Begin, Early, Read, Decide, sync, captive, Goto, LockInv, Tasks
  <2>3. CASE Dns \/ DnsMark
    BY <2>1, <2>3 DEF Dns, DnsMark, sync, Goto, LockInv, Tasks
  <2>4. CASE Upstream \/ StartNtp \/ StartMqtt \/ MarkUpstream \/ Halt \/ Halting \/ End
    <3>1. UNCHANGED captive /\ at["sync"] # "dnsMark"
      BY <2>4 DEF Upstream, StartNtp, StartMqtt, MarkUpstream, Halt, Halting, End, PassStays
    <3>2. \E place \in Places \ {"dnsMark"} : Goto("sync", place)
      <4>1. \/ Goto("sync", "mqtt") \/ Goto("sync", "mark") \/ Goto("sync", "end") \/ Goto("sync", "ntp")
            \/ Goto("sync", "halt") \/ Goto("sync", "halting") \/ Goto("sync", "owed") \/ Goto("sync", "idle")
        BY <2>4 DEF Upstream, StartNtp, StartMqtt, MarkUpstream, Halt, Halting, End, Goto
      <4> QED
        BY <4>1 DEF Places
    <3>3. at'["sync"] # "dnsMark"
      BY <3>2 DEF Goto, LockInv, Tasks
    <3> QED
      BY <2>1, <3>1, <3>3 DEF captive
  <2> QED
    BY <1>3, <2>2, <2>3, <2>4 DEF Sync
<1>4. ASSUME NEW t \in Tasks, RaiseFlag(t) \/ Acquire(t) \/ TimeOut(t) PROVE RedirectorInv'
  <2>1. at[t] # "dnsMark" /\ UNCHANGED <<captive, pass>>
    BY <1>4 DEF RaiseFlag, Acquire, TimeOut, sync
  <2>2. at'["sync"] = at["sync"] \/ (at["sync"] # "dnsMark" /\ at'["sync"] # "dnsMark")
    BY <1>4, <2>1 DEF RaiseFlag, Acquire, TimeOut, Goto, Next_of, LockInv, Tasks
  <2>3. life' = life \/ life.at # "redirector"
    BY <1>4, FreeFields DEF RaiseFlag, Acquire, TimeOut
  <2> QED
    BY <2>1, <2>2, <2>3 DEF captive
<1>5. CASE LifeStep
  <2>1. at'["sync"] = at["sync"] \/ (at["sync"] # "dnsMark" /\ at'["sync"] # "dnsMark")
    <3>1. CASE Release
      <4>1. \A t \in Tasks : at'[t] = IF t = life.who THEN Next_of(t) ELSE at[t]
        BY <1>5, <3>1, HolderMoves, LockRelease
      <4>2. at[life.who] = "in"
        BY <1>5, <3>1, HolderMoves, LockRelease
      <4> QED
        BY <4>1, <4>2 DEF Next_of, Tasks
    <3> QED
      BY <1>5, <3>1, HolderMoves
  <2>2. pass' = pass
    BY <1>5 DEF LifeStep, Check, HttpStart, Routes, Mark, StopFlag, StopUpstream, StopClients, StopDns,
       StopRedirector, StopServers, LifeStays, sync
  <2>3. CASE Check \/ HttpStart \/ Routes \/ Mark \/ StopFlag \/ StopUpstream \/ StopClients \/ StopServers
    <3>1. UNCHANGED captive /\ life.at # "redirector"
      BY <2>3 DEF Check, HttpStart, Routes, Mark, StopFlag, StopUpstream, StopClients, StopServers, Trouble
    <3> QED
      BY <2>1, <2>2, <3>1 DEF captive
  <2>4. CASE StopDns
    BY <2>1, <2>2, <2>4 DEF StopDns, LifeAt, LockInv
  <2>5. CASE StopRedirector
    BY <2>1, <2>2, <2>5 DEF StopRedirector
  <2> QED
    BY <1>5, <2>3, <2>4, <2>5 DEF LifeStep
<1>6. CASE Worker \/ Ota
  <2>1. UNCHANGED <<life, captive, pass>>
    BY <1>6 DEF Worker, Ask, RadioOff, Allow, RadioOn, WorkerStays, Ota, AskSuspend, Suspended, Resume,
       ResumeSync, OtaStays, sync
  <2>2. at'["sync"] = at["sync"] \/ (at["sync"] # "dnsMark" /\ at'["sync"] # "dnsMark")
    <3>1. CASE Worker \/ AskSuspend \/ Suspended \/ Resume
      BY <3>1, OthersMove DEF Goto, LockInv, Tasks
    <3>2. CASE ResumeSync
      BY <3>2 DEF ResumeSync, LockInv, Tasks, FlagHasTask
    <3> QED
      BY <1>6, <3>1, <3>2 DEF Ota
  <2> QED
    BY <2>1, <2>2 DEF captive
<1> QED
  BY <1>1, <1>2, <1>3, <1>4, <1>5, <1>6, Steps, Zenon

-----------------------------------------------------------------------------
(* Types *)

Statuses == [station : BOOLEAN, internet : BOOLEAN]
Reports == [pending : BOOLEAN, status : Statuses]

LinkTypes ==
    /\ mode \in Modes /\ radio \in BOOLEAN /\ ap \in BOOLEAN /\ changed \in BOOLEAN
    /\ status \in Statuses
ReportTypes ==
    /\ report \in [Reporters -> Reports]
    /\ stationReady \in BOOLEAN /\ internetReady \in BOOLEAN
FlagTypes ==
    /\ newer \in BOOLEAN /\ scheduled \in BOOLEAN
    /\ teardown \in BOOLEAN /\ suspended \in BOOLEAN /\ quiet \in BOOLEAN
    /\ running \in BOOLEAN /\ dns \in BOOLEAN /\ dnsRunning \in BOOLEAN
    /\ upstream \in BOOLEAN /\ ntpFlag \in BOOLEAN
PassTypes ==
    /\ pass \in [station : BOOLEAN, internet : BOOLEAN, local : BOOLEAN, upstream : BOOLEAN,
                 ap : BOOLEAN, ntp : BOOLEAN]
    /\ clients \subseteq {"ntp", "mqtt"}

TypeInv == LinkTypes /\ ReportTypes /\ FlagTypes /\ PassTypes

LEMMA StatusTypes ==
  /\ Down \in Statuses /\ Unseen \in Reports
  /\ \A s \in BOOLEAN, i \in BOOLEAN : [station |-> s, internet |-> i] \in Statuses
  /\ \A s \in Statuses : s.station \in BOOLEAN /\ s.internet \in BOOLEAN
  /\ \A s \in Statuses, i \in BOOLEAN : [s EXCEPT !.internet = i] \in Statuses
  /\ \A s \in Statuses : [pending |-> TRUE, status |-> s] \in Reports
  /\ \A r \in Reports : r.status \in Statuses
BY Zenon DEF Statuses, Reports, Down, Unseen

LEMMA LinkTypesStep ==
  ASSUME LinkTypes, [Next]_vars
  PROVE  LinkTypes'
<1>1. CASE UNCHANGED vars
  BY <1>1 DEF vars, link, reports, LinkTypes
<1>2. CASE LinkChange
  <2>1. status' \in Statuses
    BY <1>2, StatusTypes, Zenon DEF LinkChange, LinkTypes
  <2> QED
    BY <1>2, <2>1, Zenon DEF LinkChange, LinkTypes
<1>3. CASE Publish
  BY <1>3, Zenon DEF Publish, link, LinkTypes
<1>4. CASE Probe
  <2>1. status' \in Statuses
    BY <1>4, StatusTypes, Zenon DEF Probe, LinkTypes
  <2> QED
    BY <1>4, <2>1 DEF Probe, LinkTypes
<1>5. ASSUME NEW r \in Reporters, Deliver(r) PROVE LinkTypes'
  BY <1>5 DEF Deliver, link, LinkTypes
<1>6. CASE Sync
  BY <1>6 DEF Sync, Create, CreateFails, Begin, Early, Read, Decide, Dns, DnsMark, Upstream, StartNtp,
     StartMqtt, MarkUpstream, Halt, Halting, End, PassStays, link, reports, LinkTypes
<1>7. ASSUME NEW t \in Tasks, RaiseFlag(t) \/ Acquire(t) \/ TimeOut(t) PROVE LinkTypes'
  BY <1>7 DEF RaiseFlag, Acquire, TimeOut, link, reports, LinkTypes
<1>8. CASE LifeStep
  BY <1>8 DEF LifeStep, Check, HttpStart, Routes, Mark, StopFlag, StopUpstream, StopClients, StopDns,
     StopRedirector, StopServers, LifeStays, link, reports, LinkTypes
<1>9. CASE Worker
  <2>1. CASE \E what \in {"off", "on", "mode"} : Ask(what)
    BY <2>1 DEF Ask, link, LinkTypes
  <2>2. CASE RadioOff
    BY <2>2, StatusTypes, Zenon DEF RadioOff, LinkTypes
  <2>3. CASE Allow
    BY <2>3 DEF Allow, link, LinkTypes
  <2>4. CASE RadioOn
    <3>1. mode' \in Modes /\ status' = status
      BY <2>4 DEF RadioOn, LinkTypes
    <3>2. radio' \in BOOLEAN /\ changed' \in BOOLEAN
      BY <2>4, Zenon DEF RadioOn, Started, LinkTypes
    <3>3. ap' \in BOOLEAN
      <4>1. AccessPoint(mode') \in BOOLEAN
        <5>1. (mode' \in {"AP", "APSTA"}) \in BOOLEAN
          OBVIOUS
        <5> QED
          BY <5>1, Zenon DEF AccessPoint
      <4> QED
        BY <2>4, <4>1, Zenon DEF RadioOn, Started, LinkTypes
    <3> QED
      BY <3>1, <3>2, <3>3 DEF LinkTypes
  <2> QED
    BY <1>9, <2>1, <2>2, <2>3, <2>4 DEF Worker
<1>10. CASE Ota
  BY <1>10 DEF Ota, AskSuspend, Suspended, Resume, ResumeSync, OtaStays, link, LinkTypes
<1> QED
  BY <1>1, <1>2, <1>3, <1>4, <1>5, <1>6, <1>7, <1>8, <1>9, <1>10, Steps, Zenon DEF WifiStep

LEMMA ReportTypesStep ==
  ASSUME LinkTypes, ReportTypes, [Next]_vars
  PROVE  ReportTypes'
<1>1. CASE UNCHANGED vars
  BY <1>1 DEF vars, reports, ReportTypes
<1>2. CASE LinkChange
  BY <1>2 DEF LinkChange, ReportTypes
<1>3. CASE Publish
  <2>1. report' = [report EXCEPT !["events"] = [pending |-> TRUE, status |-> status]]
    BY <1>3 DEF Publish
  <2> DEFINE x == [pending |-> TRUE, status |-> status]
  <2>2. x \in Reports
    BY StatusTypes DEF LinkTypes
  <2> HIDE DEF x
  <2>3. report' \in [Reporters -> Reports]
    BY <2>1, <2>2 DEF ReportTypes, x
  <2> QED
    BY <1>3, <2>3 DEF Publish, ReportTypes
<1>4. CASE Probe
  <2> DEFINE x == [pending |-> TRUE, status |-> status']
  <2>1. report' = [report EXCEPT !["monitor"] = x]
    BY <1>4 DEF Probe
  <2>2. x \in Reports
    <3>1. status' \in Statuses
      BY <1>4, StatusTypes, Zenon DEF Probe, LinkTypes
    <3> QED
      BY <3>1, StatusTypes
  <2> HIDE DEF x
  <2>3. report' \in [Reporters -> Reports]
    BY <2>1, <2>2 DEF ReportTypes
  <2> QED
    BY <1>4, <2>3 DEF Probe, ReportTypes
<1>5. ASSUME NEW r \in Reporters, Deliver(r) PROVE ReportTypes'
  <2>1. report' \in [Reporters -> Reports]
    BY <1>5, StatusTypes DEF Deliver, ReportTypes
  <2>2. report[r].status.station \in BOOLEAN /\ report[r].status.internet \in BOOLEAN
    BY StatusTypes DEF ReportTypes
  <2>3. stationReady' \in BOOLEAN /\ internetReady' \in BOOLEAN
    BY <1>5, <2>2, Zenon DEF Deliver
  <2> QED
    BY <2>1, <2>3 DEF ReportTypes
<1>6. CASE Sync
  BY <1>6 DEF Sync, Create, CreateFails, Begin, Early, Read, Decide, Dns, DnsMark, Upstream, StartNtp,
     StartMqtt, MarkUpstream, Halt, Halting, End, PassStays, reports, ReportTypes
<1>7. ASSUME NEW t \in Tasks, RaiseFlag(t) \/ Acquire(t) \/ TimeOut(t) PROVE ReportTypes'
  BY <1>7 DEF RaiseFlag, Acquire, TimeOut, reports, ReportTypes
<1>8. CASE LifeStep
  BY <1>8 DEF LifeStep, Check, HttpStart, Routes, Mark, StopFlag, StopUpstream, StopClients, StopDns,
     StopRedirector, StopServers, LifeStays, reports, ReportTypes
<1>9. CASE Worker \/ Ota
  BY <1>9 DEF Worker, Ask, RadioOff, Allow, RadioOn, WorkerStays, Ota, AskSuspend, Suspended, Resume,
     ResumeSync, OtaStays, ReportTypes
<1> QED
  BY <1>1, <1>2, <1>3, <1>4, <1>5, <1>6, <1>7, <1>8, <1>9, Steps, Zenon DEF WifiStep

LEMMA FlagTypesStep ==
  ASSUME FlagTypes, PassTypes, [Next]_vars
  PROVE  FlagTypes'
<1>1. CASE UNCHANGED vars \/ WifiStep
  BY <1>1 DEF vars, sync, gates, local, captive, upstreams, WifiStep, LinkChange, Publish, Probe,
     FlagTypes
<1>2. ASSUME NEW r \in Reporters, Deliver(r) PROVE FlagTypes'
  <2>1. newer' \in BOOLEAN /\ scheduled' \in BOOLEAN
    BY <1>2, Zenon DEF Deliver, Schedule, FlagTypes
  <2> QED
    BY <1>2, <2>1 DEF Deliver, gates, local, captive, upstreams, FlagTypes
<1>3. CASE Sync
  <2>1. newer' \in BOOLEAN /\ scheduled' \in BOOLEAN
    BY <1>3, Zenon DEF Sync, Create, CreateFails, Begin, Early, Read, Decide, Dns, DnsMark, Upstream, StartNtp,
       StartMqtt, MarkUpstream, Halt, Halting, End, sync, FlagTypes
  <2>2. dns' \in BOOLEAN /\ dnsRunning' \in BOOLEAN
    <3>1. pass.ap \in BOOLEAN
      BY DEF PassTypes
    <3> QED
      BY <1>3, <3>1, Zenon DEF Sync, Create, CreateFails, Begin, Early, Read, Decide, Dns, DnsMark, Upstream,
         StartNtp, StartMqtt, MarkUpstream, Halt, Halting, End, captive, FlagTypes
  <2>3. upstream' \in BOOLEAN /\ ntpFlag' \in BOOLEAN
    BY <1>3, Zenon DEF Sync, Create, CreateFails, Begin, Early, Read, Decide, Dns, DnsMark, Upstream, StartNtp,
       StartMqtt, MarkUpstream, Halt, Halting, End, upstreams, FlagTypes
  <2>4. UNCHANGED <<gates, local>>
    BY <1>3 DEF Sync, Create, CreateFails, Begin, Early, Read, Decide, Dns, DnsMark, Upstream, StartNtp,
       StartMqtt, MarkUpstream, Halt, Halting, End, PassStays
  <2> QED
    BY <2>1, <2>2, <2>3, <2>4 DEF gates, local, FlagTypes
<1>4. ASSUME NEW t \in Tasks, RaiseFlag(t) \/ Acquire(t) \/ TimeOut(t) PROVE FlagTypes'
  BY <1>4, Zenon DEF RaiseFlag, Acquire, TimeOut, sync, gates, local, captive, upstreams, FlagTypes
<1>5. CASE LifeStep
  <2>1. newer' \in BOOLEAN /\ scheduled' \in BOOLEAN
    BY <1>5, Zenon DEF LifeStep, Check, HttpStart, Routes, Mark, StopFlag, StopUpstream, StopClients,
       StopDns, StopRedirector, StopServers, LifeStays, sync, FlagTypes
  <2>2. dns' \in BOOLEAN /\ dnsRunning' \in BOOLEAN
    BY <1>5, Zenon DEF LifeStep, Check, HttpStart, Routes, Mark, StopFlag, StopUpstream, StopClients,
       StopDns, StopRedirector, StopServers, captive, FlagTypes
  <2>3. upstream' \in BOOLEAN /\ ntpFlag' \in BOOLEAN
    BY <1>5, Zenon DEF LifeStep, Check, HttpStart, Routes, Mark, StopFlag, StopUpstream, StopClients,
       StopDns, StopRedirector, StopServers, upstreams, FlagTypes
  <2>4. running' \in BOOLEAN
    BY <1>5, Zenon DEF LifeStep, Check, HttpStart, Routes, Mark, StopFlag, StopUpstream, StopClients,
       StopDns, StopRedirector, StopServers, local, FlagTypes
  <2>5. teardown' \in BOOLEAN /\ suspended' \in BOOLEAN /\ quiet' \in BOOLEAN
    BY <1>5, Zenon DEF LifeStep, Check, HttpStart, Routes, Mark, StopFlag, StopUpstream, StopClients,
       StopDns, StopRedirector, StopServers, gates, FlagTypes
  <2> QED
    BY <2>1, <2>2, <2>3, <2>4, <2>5 DEF FlagTypes
<1>6. CASE Worker \/ Ota
  <2>1. newer' \in BOOLEAN /\ scheduled' \in BOOLEAN
    BY <1>6, Zenon DEF Worker, Ask, RadioOff, Allow, RadioOn, WorkerStays, Ota, AskSuspend, Suspended,
       Resume, ResumeSync, OtaStays, sync, FlagTypes
  <2>2. teardown' \in BOOLEAN /\ suspended' \in BOOLEAN /\ quiet' \in BOOLEAN
    BY <1>6, Zenon DEF Worker, Ask, RadioOff, Allow, RadioOn, WorkerStays, Ota, AskSuspend, Suspended,
       Resume, ResumeSync, OtaStays, gates, FlagTypes
  <2>3. UNCHANGED <<local, captive, upstreams>>
    BY <1>6 DEF Worker, Ask, RadioOff, Allow, RadioOn, WorkerStays, Ota, AskSuspend, Suspended,
       Resume, ResumeSync, OtaStays
  <2> QED
    BY <2>1, <2>2, <2>3 DEF local, captive, upstreams, FlagTypes
<1> QED
  BY <1>1, <1>2, <1>3, <1>4, <1>5, <1>6, Steps, Zenon

LEMMA PassTypesStep ==
  ASSUME TypeInv, [Next]_vars
  PROVE  PassTypes'
<1>1. CASE UNCHANGED vars \/ WifiStep
  BY <1>1 DEF vars, sync, upstreams, WifiStep, LinkChange, Publish, Probe, TypeInv, PassTypes
<1>2. ASSUME NEW r \in Reporters, Deliver(r) PROVE PassTypes'
  BY <1>2 DEF Deliver, upstreams, TypeInv, PassTypes
<1>3. CASE Sync
  <2>1. CASE Read
    <3>1. /\ pass' = [station |-> stationReady, internet |-> internetReady, local |-> running,
                      upstream |-> upstream, ap |-> FALSE, ntp |-> FALSE]
          /\ clients' = clients
      BY <2>1 DEF Read, NoPass, upstreams
    <3> QED
      BY <3>1, Zenon DEF TypeInv, PassTypes, FlagTypes, ReportTypes
  <2>2. CASE Decide
    <3> DEFINE x == AccessPoint(mode) /\ ap
    <3>1. x \in BOOLEAN
      BY Zenon
    <3>2. pass' = [pass EXCEPT !.ap = x] /\ clients' = clients
      BY <2>2 DEF Decide, upstreams
    <3> HIDE DEF x
    <3> QED
      BY <3>1, <3>2 DEF TypeInv, PassTypes
  <2>3. CASE Halt
    BY <2>3 DEF Halt, TypeInv, PassTypes, FlagTypes
  <2>4. CASE StartNtp \/ StartMqtt \/ Halting
    BY <2>4 DEF StartNtp, StartMqtt, Halting, Live, sync, TypeInv, PassTypes
  <2>5. CASE Create \/ CreateFails \/ Begin \/ Early \/ Dns \/ DnsMark \/ Upstream \/ MarkUpstream \/ End
    BY <2>5 DEF Create, CreateFails, Begin, Early, Dns, DnsMark, Upstream, MarkUpstream, End, sync, upstreams,
       TypeInv, PassTypes
  <2> QED
    BY <1>3, <2>1, <2>2, <2>3, <2>4, <2>5 DEF Sync
<1>4. ASSUME NEW t \in Tasks, RaiseFlag(t) \/ Acquire(t) \/ TimeOut(t) PROVE PassTypes'
  BY <1>4 DEF RaiseFlag, Acquire, TimeOut, sync, upstreams, TypeInv, PassTypes
<1>5. CASE LifeStep
  BY <1>5 DEF LifeStep, Check, HttpStart, Routes, Mark, StopFlag, StopUpstream, StopClients, StopDns,
     StopRedirector, StopServers, LifeStays, Live, sync, upstreams, TypeInv, PassTypes
<1>6. CASE Worker \/ Ota
  BY <1>6 DEF Worker, Ask, RadioOff, Allow, RadioOn, WorkerStays, Ota, AskSuspend, Suspended, Resume,
     ResumeSync, OtaStays, sync, upstreams, TypeInv, PassTypes
<1> QED
  BY <1>1, <1>2, <1>3, <1>4, <1>5, <1>6, Steps, Zenon

LEMMA TypesStep == TypeInv /\ [Next]_vars => TypeInv'
BY LinkTypesStep, ReportTypesStep, FlagTypesStep, PassTypesStep DEF TypeInv

-----------------------------------------------------------------------------
(* What follows *)

Inv == TypeInv /\ LockInv /\ OwnInv /\ NewestApplied /\ FlagHasTask /\ UpstreamOwned
       /\ RedirectorInv

LEMMA TypesInit == Init => TypeInv
<1> SUFFICES ASSUME Init PROVE TypeInv
  OBVIOUS
<1>1. LinkTypes
  <2>1. (mode \in {"AP", "APSTA"}) \in BOOLEAN
    OBVIOUS
  <2> QED
    BY <2>1, StatusTypes, Zenon DEF Init, LinkTypes, AccessPoint
<1>2. ReportTypes
  <2>1. report \in [Reporters -> Reports]
    BY StatusTypes DEF Init
  <2> QED
    BY <2>1 DEF Init, ReportTypes
<1>3. FlagTypes
  BY DEF Init, FlagTypes
<1>4. PassTypes
  BY DEF Init, NoPass, PassTypes
<1> QED
  BY <1>1, <1>2, <1>3, <1>4 DEF TypeInv

LEMMA InvInit == Init => Inv
<1> SUFFICES ASSUME Init PROVE Inv
  OBVIOUS
<1>1. LockInv
  <2>1. at \in [Tasks -> Places] /\ \A t \in Tasks : at[t] = "idle" /\ t # "nobody"
    BY DEF Init, Places, Tasks
  <2> QED
    BY <2>1, FreeType, FreeFields DEF Init, LockInv
<1>2. OwnInv
  BY FreeFields DEF Init, OwnInv, ServersInv, QuietInv
<1>3. NewestApplied /\ FlagHasTask /\ UpstreamOwned /\ RedirectorInv
  BY DEF Init, NewestApplied, FlagHasTask, UpstreamOwned, RedirectorInv, RedirectorOwned, Tasks
<1> QED
  BY <1>1, <1>2, <1>3, TypesInit DEF Inv

LEMMA InvNext == Inv /\ [Next]_vars => Inv'
<1> SUFFICES ASSUME Inv, [Next]_vars PROVE Inv'
  OBVIOUS
<1>1. CopiedInv
  BY Zenon DEF Inv, TypeInv, FlagTypes, CopiedInv
<1> QED
  BY <1>1, TypesStep, LockStep, OwnStep, NewestStep, UpstreamStep, RedirectorStep DEF Inv

LEMMA Invariant == Spec => []Inv
BY InvInit, InvNext, PTL DEF Spec

\* Flags, reports and the lifecycle mutex keep their types; the mutex has at
\* most one holder, which is in network_services_start() or _stop().
THEOREM TypeCorrect == Spec => []TypeOK
<1>1. Inv => TypeOK
  <2> SUFFICES ASSUME Inv PROVE TypeOK
    OBVIOUS
  <2> USE DEF Inv, TypeInv
  <2>1. mode \in Modes /\ {radio, ap, changed, stationReady, internetReady} \subseteq BOOLEAN
    BY Zenon DEF LinkTypes, ReportTypes
  <2>2. /\ status \in [station : BOOLEAN, internet : BOOLEAN]
        /\ report \in [Reporters -> [pending : BOOLEAN, status : [station : BOOLEAN, internet : BOOLEAN]]]
    BY Zenon DEF LinkTypes, ReportTypes, Reports, Statuses
  <2>3. /\ {newer, scheduled, teardown, suspended, quiet, running} \subseteq BOOLEAN
        /\ {dns, dnsRunning, upstream, ntpFlag} \subseteq BOOLEAN
    BY Zenon DEF FlagTypes
  <2>4. pass \in [DOMAIN NoPass -> BOOLEAN]
    <3>1. DOMAIN NoPass = {"station", "internet", "local", "upstream", "ap", "ntp"}
      BY DEF NoPass
    <3>2. DOMAIN pass = {"station", "internet", "local", "upstream", "ap", "ntp"}
      BY DEF PassTypes
    <3>3. \A f \in {"station", "internet", "local", "upstream", "ap", "ntp"} : pass[f] \in BOOLEAN
      BY DEF PassTypes
    <3>4. pass = [f \in DOMAIN pass |-> pass[f]]
      BY DEF PassTypes
    <3> QED
      BY <3>1, <3>2, <3>3, <3>4
  <2>5. /\ life.who \in Tasks \cup {"nobody"} /\ \A t \in Tasks : at[t] = "in" <=> life.who = t
        /\ {life.was, life.ntp} \subseteq BOOLEAN
    BY Zenon DEF LockInv
  <2>6. up \subseteq {"http", "https", "ws", "www"} /\ clients \subseteq {"ntp", "mqtt"}
    BY DEF OwnInv, PassTypes
  <2> QED
    BY <2>1, <2>2, <2>3, <2>4, <2>5, <2>6, Zenon DEF TypeOK
<1> QED
  BY <1>1, Invariant, PTL

\* network_services_sync_task() ends a complete pass only when no report has
\* come since it read the status (s_status_generation).
THEOREM NewestIsApplied == Spec => []NewestApplied
<1>1. Inv => NewestApplied
  BY DEF Inv
<1> QED
  BY <1>1, Invariant, PTL

\* After network_services_stop() has returned no server starts until services
\* are allowed again: whoever waited for the mutex finds the teardown flag.
THEOREM StoppedStaysStopped == Spec => []StopHolds
<1>1. Inv => StopHolds
  BY DEF Inv, OwnInv, QuietInv, StopHolds
<1> QED
  BY <1>1, Invariant, PTL

\* Whatever was started is known to the flag the next stop looks at, and the
\* flag that admits a pass never stays up without one.
THEOREM NothingIsOrphaned == Spec => []NothingOrphaned
<1>1. Inv => NothingOrphaned
  <2> SUFFICES ASSUME Inv PROVE NothingOrphaned
    OBVIOUS
  <2>1. ServersOwned
    BY FreeFields DEF Inv, OwnInv, ServersInv, ServersOwned
  <2> QED
    BY <2>1 DEF Inv, RedirectorInv, NothingOrphaned
<1> QED
  BY <1>1, Invariant, PTL
=============================================================================
