------------------------- MODULE WifiStation_proofs -------------------------
(***************************************************************************)
(* Proofs about the Wi-Fi station, for every length of the event queue and *)
(* every number of requests.  The flags of the event loop lag behind the   *)
(* driver by the events that wait; the inductive invariant says what they  *)
(* will be once those are handled.  That a lost connection is tried again  *)
(* (Reconnects) is a liveness property and stays with TLC.                 *)
(***************************************************************************)
EXTENDS WifiStation, TLAPS

EventName == {"START", "STOP", "CONNECTED", "GOT_IP", "DISCONNECTED"}

-----------------------------------------------------------------------------
(* A flag that some events set and some clear *)

\* What a flag is after the events of s, if it was `was' before them.
After(s, was, sets, clears) ==
  \/ was /\ \A i \in 1..Len(s) : s[i] \notin clears
  \/ \E i \in 1..Len(s) : s[i] \in sets /\ \A j \in (i + 1)..Len(s) : s[j] \notin clears

LEMMA AfterNone ==
  ASSUME NEW was, NEW sets, NEW clears
  PROVE  After(<< >>, was, sets, clears) <=> was
BY DEF After

\* Posting one more event.
LEMMA AfterPosted ==
  ASSUME NEW s \in Seq(EventName), NEW e \in EventName, NEW was, NEW sets, NEW clears
  PROVE  /\ s \o <<e>> \in Seq(EventName) /\ Len(s \o <<e>>) = Len(s) + 1
         /\ After(s \o <<e>>, was, sets, clears)
              <=> (e \in sets \/ (After(s, was, sets, clears) /\ e \notin clears))
<1>. DEFINE t == s \o <<e>>
<1>1. t \in Seq(EventName) /\ Len(t) = Len(s) + 1 /\ t[Len(s) + 1] = e
      /\ (\A i \in 1..Len(s) : t[i] = s[i]) /\ Len(s) \in Nat
  OBVIOUS
<1>. HIDE DEF t
<1>2. ASSUME After(t, was, sets, clears), e \notin sets
      PROVE  After(s, was, sets, clears) /\ e \notin clears
  <2>1. CASE was /\ \A i \in 1..Len(t) : t[i] \notin clears
    BY <1>1, <2>1 DEF After
  <2>2. CASE \E i \in 1..Len(t) : t[i] \in sets /\ \A j \in (i + 1)..Len(t) : t[j] \notin clears
    <3>1. PICK i \in 1..Len(t) : t[i] \in sets /\ \A j \in (i + 1)..Len(t) : t[j] \notin clears
      BY <2>2
    <3>2. i \in 1..Len(s)
      BY <1>1, <1>2, <3>1
    <3>3. e \notin clears
      BY <1>1, <3>1, <3>2
    <3>4. \A j \in (i + 1)..Len(s) : s[j] \notin clears
      BY <1>1, <3>1, <3>2
    <3>. QED
      BY <1>1, <3>1, <3>2, <3>3, <3>4 DEF After
  <2>. QED
    BY <1>2, <2>1, <2>2 DEF After
<1>3. ASSUME e \in sets PROVE After(t, was, sets, clears)
  BY <1>1, <1>3 DEF After
<1>4. ASSUME After(s, was, sets, clears), e \notin clears
      PROVE  After(t, was, sets, clears)
  <2>1. CASE was /\ \A i \in 1..Len(s) : s[i] \notin clears
    BY <1>1, <1>4, <2>1 DEF After
  <2>2. CASE \E i \in 1..Len(s) : s[i] \in sets /\ \A j \in (i + 1)..Len(s) : s[j] \notin clears
    <3>1. PICK i \in 1..Len(s) : s[i] \in sets /\ \A j \in (i + 1)..Len(s) : s[j] \notin clears
      BY <2>2
    <3>2. i \in 1..Len(t) /\ t[i] \in sets
      BY <1>1, <3>1
    <3>3. \A j \in (i + 1)..Len(t) : t[j] \notin clears
      BY <1>1, <1>4, <3>1
    <3>. QED
      BY <3>2, <3>3 DEF After
  <2>. QED
    BY <1>4, <2>1, <2>2 DEF After
<1>. QED
  BY <1>1, <1>2, <1>3, <1>4 DEF t

\* Handling the first event.
LEMMA AfterHandled ==
  ASSUME NEW s \in Seq(EventName), s # << >>, NEW was, NEW sets, NEW clears
  PROVE  After(Tail(s), Head(s) \in sets \/ (was /\ Head(s) \notin clears), sets, clears)
           <=> After(s, was, sets, clears)
<1>. DEFINE t == Tail(s)
            now == Head(s) \in sets \/ (was /\ Head(s) \notin clears)
<1>1. t \in Seq(EventName) /\ Len(t) = Len(s) - 1 /\ Len(s) \in Nat \ {0} /\ Head(s) = s[1]
      /\ \A i \in 1..Len(t) : t[i] = s[i + 1]
  OBVIOUS
<1>. HIDE DEF t
<1>2. \A j \in 2..Len(s) : s[j] = t[j - 1] /\ j - 1 \in 1..Len(t)
  BY <1>1
<1>3. ASSUME After(t, now, sets, clears)
      PROVE  After(s, was, sets, clears)
  <2>1. CASE now /\ \A i \in 1..Len(t) : t[i] \notin clears
    <3>1. \A j \in 2..Len(s) : s[j] \notin clears
      BY <1>2, <2>1
    <3>2. CASE Head(s) \in sets
      <4>1. 1 \in 1..Len(s) /\ s[1] \in sets /\ \A j \in (1 + 1)..Len(s) : s[j] \notin clears
        BY <1>1, <3>1, <3>2
      <4>. QED
        BY <4>1 DEF After
    <3>3. CASE was /\ Head(s) \notin clears
      <4>1. \A i \in 1..Len(s) : s[i] \notin clears
        BY <1>1, <3>1, <3>3
      <4>. QED
        BY <3>3, <4>1 DEF After
    <3>. QED
      BY <2>1, <3>2, <3>3
  <2>2. CASE \E i \in 1..Len(t) : t[i] \in sets /\ \A j \in (i + 1)..Len(t) : t[j] \notin clears
    <3>1. PICK i \in 1..Len(t) : t[i] \in sets /\ \A j \in (i + 1)..Len(t) : t[j] \notin clears
      BY <2>2
    <3>2. i + 1 \in 1..Len(s) /\ s[i + 1] \in sets
      BY <1>1, <3>1
    <3>3. \A j \in (i + 1 + 1)..Len(s) : s[j] \notin clears
      <4>. TAKE j \in (i + 1 + 1)..Len(s)
      <4>1. j \in 2..Len(s) /\ j - 1 \in (i + 1)..Len(t)
        BY <1>1, <3>1
      <4>. QED
        BY <1>2, <3>1, <4>1
    <3>. QED
      BY <3>2, <3>3 DEF After
  <2>. QED
    BY <1>3, <2>1, <2>2 DEF After
<1>4. ASSUME After(s, was, sets, clears)
      PROVE  After(t, now, sets, clears)
  <2>1. CASE was /\ \A i \in 1..Len(s) : s[i] \notin clears
    <3>1. now /\ \A i \in 1..Len(t) : t[i] \notin clears
      BY <1>1, <2>1
    <3>. QED
      BY <3>1 DEF After
  <2>2. CASE \E i \in 1..Len(s) : s[i] \in sets /\ \A j \in (i + 1)..Len(s) : s[j] \notin clears
    <3>1. PICK i \in 1..Len(s) : s[i] \in sets /\ \A j \in (i + 1)..Len(s) : s[j] \notin clears
      BY <2>2
    <3>2. \A j \in i..Len(t) : t[j] \notin clears
      BY <1>1, <3>1
    <3>3. CASE i = 1
      <4>1. now /\ \A j \in 1..Len(t) : t[j] \notin clears
        BY <1>1, <3>1, <3>2, <3>3
      <4>. QED
        BY <4>1 DEF After
    <3>4. CASE i # 1
      <4>1. i - 1 \in 1..Len(t) /\ t[i - 1] \in sets /\ i - 1 + 1 = i
        BY <1>1, <1>2, <3>1, <3>4
      <4>. QED
        BY <3>2, <4>1 DEF After
    <3>. QED
      BY <3>3, <3>4
  <2>. QED
    BY <1>4, <2>1, <2>2 DEF After
<1>. QED
  BY <1>3, <1>4 DEF t

-----------------------------------------------------------------------------
(* Types *)

DriverTyped ==
  /\ radio \in BOOLEAN /\ link \in {"idle", "trying", "linked", "leased"}
  /\ events \in Seq(EventName) /\ Len(events) <= MaxEvents

StationTyped ==
  /\ status \in [state : ConnState, connected : BOOLEAN, gotIp : BOOLEAN,
                  started : BOOLEAN]
  /\ callback \in [at : {"none", "publish", "report", "schedule"},
                    state : ConnState, retry : BOOLEAN]

PolicyTyped ==
  /\ auto \in BOOLEAN /\ configured \in BOOLEAN
  /\ supervisor \in [at : {"none", "wait", "dial", "attempt", "abort", "leave"},
                      stale : BOOLEAN, failed : BOOLEAN]

ControlTyped ==
  /\ mutex \in {"free", "worker"} /\ manual \in BOOLEAN /\ autoConnect \in BOOLEAN
  /\ cstate \in {"IDLE", "CONNECTING", "CONNECTED"}
  /\ running \in BOOLEAN
  /\ monitor \in {"none", "round", "callbacks"}

ToggleTyped ==
  /\ admitted \in BOOLEAN /\ request \in [on : BOOLEAN, silent : BOOLEAN]
  /\ worker \in {"idle", "start", "connect", "stop", "waitMonitor", "commit", "failed"}
  /\ enabled \in BOOLEAN /\ choice \in BOOLEAN
  /\ boot \in {"check", "request", "retry", "wait", "allowed", "reconnect", "done"}
  /\ user \in {"idle", "connect", "writeOn", "writeOff"}
  /\ asked \in 0..MaxRequests

LEMMA TypeParts ==
  TypeOK <=> DriverTyped /\ StationTyped /\ PolicyTyped /\ ControlTyped /\ ToggleTyped
BY DEF TypeOK, EventName, DriverTyped, StationTyped, PolicyTyped, ControlTyped, ToggleTyped

LEMMA TypeNext ==
  DriverTyped' /\ StationTyped' /\ PolicyTyped' /\ ControlTyped' /\ ToggleTyped' => TypeOK'
BY DEF TypeOK, EventName, DriverTyped, StationTyped, PolicyTyped, ControlTyped, ToggleTyped

LEMMA TypeInit == Init => TypeOK
<1>. SUFFICES ASSUME Init PROVE TypeOK
  OBVIOUS
<1>1. DriverTyped
  <2>1. radio = FALSE /\ link = "idle" /\ events = << >>
    BY DEF Init
  <2>2. << >> \in Seq(EventName) /\ Len(<< >>) = 0
    OBVIOUS
  <2>3. 0 <= MaxEvents
    BY WifiAssumption
  <2>4. events \in Seq(EventName) /\ Len(events) <= MaxEvents
    BY <2>1, <2>2, <2>3
  <2>. QED
    BY <2>1, <2>4 DEF DriverTyped
<1>2. StationTyped
  BY DEF Init, StationTyped, NoCallback, ConnState
<1>3. PolicyTyped
  BY DEF Init, PolicyTyped, NoSupervisor
<1>4. ControlTyped
  BY DEF Init, ControlTyped
<1>5. ToggleTyped
  <2>1. asked \in 0..MaxRequests
    <3>1. asked = 0 \/ asked = 1
      BY DEF Init
    <3>. QED
      BY <3>1, WifiAssumption
  <2>2. /\ admitted = FALSE /\ worker = "idle" /\ request = [on |-> FALSE, silent |-> FALSE]
        /\ enabled = FALSE /\ choice \in BOOLEAN /\ boot \in {"check", "done"} /\ user = "idle"
    BY DEF Init
  <2>. QED
    BY <2>1, <2>2 DEF ToggleTyped
<1>. QED
  BY <1>1, <1>2, <1>3, <1>4, <1>5, TypeParts

\* Each call of the driver keeps its types, and its events within the queue.
LEMMA PostedTyped ==
  ASSUME DriverTyped, NEW new \in Seq(EventName), Posted(new), Room(Len(new))
  PROVE  events' \in Seq(EventName) /\ Len(events') <= MaxEvents
BY DEF DriverTyped, Posted, Room

LEMMA DriverCallsTyped ==
  ASSUME DriverTyped, Dial \/ HangUp \/ Redial \/ PowerOn \/ PowerOff
  PROVE  DriverTyped'
<1>0. /\ << >> \in Seq(EventName) /\ Len(<< >>) = 0
      /\ \A e \in EventName : <<e>> \in Seq(EventName) /\ Len(<<e>>) = 1
      /\ \A e, f \in EventName : <<e>> \o <<f>> \in Seq(EventName) /\ Len(<<e>> \o <<f>>) = 2
      /\ \A e \in EventName : << >> \o <<e>> = <<e>> /\ <<e>> \o << >> = <<e>>
      /\ << >> \o << >> = << >>
      /\ Len(events) \in Nat
  BY DEF DriverTyped
<1>1. CASE Dial \/ UNCHANGED driver
  BY <1>1 DEF DriverTyped, Dial, driver
<1>2. ASSUME Room(1), Posted(<< >>) \/ \E e \in EventName : Posted(<<e>>)
      PROVE  events' \in Seq(EventName) /\ Len(events') <= MaxEvents
  <2>1. Room(0)
    BY <1>0, <1>2, WifiAssumption DEF Room
  <2>. QED
    BY <1>0, <1>2, <2>1, PostedTyped
<1>3. CASE HangUp /\ link # "idle"
  BY <1>2, <1>3 DEF HangUp, DriverTyped, EventName
<1>4. CASE Redial /\ radio
  BY <1>2, <1>4 DEF Redial, DriverTyped, EventName
<1>5. CASE PowerOn
  BY <1>2, <1>5 DEF PowerOn, DriverTyped, EventName
<1>6. CASE PowerOff
  <2>. DEFINE new == (IF link = "idle" THEN << >> ELSE <<"DISCONNECTED">>)
                     \o (IF radio THEN <<"STOP">> ELSE << >>)
  <2>1. "STOP" \in EventName /\ "DISCONNECTED" \in EventName
    BY DEF EventName
  <2>2. new \in Seq(EventName) /\ Len(new) <= 2 /\ Len(new) \in Nat
    BY <1>0, <2>1
  <2>3. Room(2) /\ Posted(new) /\ radio' = FALSE /\ link' = "idle"
    BY <1>6 DEF PowerOff
  <2>. HIDE DEF new
  <2>4. Room(Len(new))
    BY <1>0, <2>2, <2>3, WifiAssumption DEF Room
  <2>5. events' \in Seq(EventName) /\ Len(events') <= MaxEvents
    BY <2>2, <2>3, <2>4, PostedTyped
  <2>. QED
    BY <2>3, <2>5 DEF DriverTyped
<1>. QED
  BY <1>1, <1>3, <1>4, <1>5, <1>6 DEF HangUp, Redial

LEMMA PolicyCallTyped ==
  ASSUME PolicyTyped, StationTyped, NEW on \in BOOLEAN, Policy(on) \/ Configure(on)
  PROVE  PolicyTyped'
<1>1. auto' \in BOOLEAN /\ configured' \in BOOLEAN
  BY DEF Policy, Configure, SetRetryPolicy
<1>2. (supervisor.at # "none") \in BOOLEAN
  OBVIOUS
<1>3. [supervisor EXCEPT !.stale = supervisor.at # "none"]
        \in [at : {"none", "wait", "dial", "attempt", "abort", "leave"}, stale : BOOLEAN, failed : BOOLEAN]
  BY <1>2 DEF PolicyTyped
<1>4. Fresh \in [at : {"none", "wait", "dial", "attempt", "abort", "leave"}, stale : BOOLEAN, failed : BOOLEAN]
  BY DEF Fresh
<1>5. \/ supervisor' = [supervisor EXCEPT !.stale = supervisor.at # "none"]
      \/ supervisor' = Fresh \/ supervisor' = supervisor
  BY DEF Policy, Configure, SetRetryPolicy
<1>. QED
  BY <1>1, <1>3, <1>4, <1>5 DEF PolicyTyped

LEMMA SetAutoTyped ==
  ASSUME PolicyTyped, StationTyped, ControlTyped, NEW on \in BOOLEAN, SetAutoConnect(on)
  PROVE  PolicyTyped' /\ mutex = "free" /\ autoConnect' \in BOOLEAN
<1>1. (on /\ ~manual) \in BOOLEAN
  OBVIOUS
<1>2. mutex = "free" /\ autoConnect' = on /\ Policy(on /\ ~manual)
  BY DEF SetAutoConnect
<1>. QED
  BY <1>1, <1>2, PolicyCallTyped

LEMMA RequestTyped ==
  ASSUME ToggleTyped, NEW on \in BOOLEAN, NEW silent \in BOOLEAN, Request(on, silent)
  PROVE  admitted' \in BOOLEAN /\ request' \in [on : BOOLEAN, silent : BOOLEAN]
<1>1. [on |-> on, silent |-> silent] \in [on : BOOLEAN, silent : BOOLEAN]
  OBVIOUS
<1>. QED
  BY <1>1 DEF ToggleTyped, Request

LEMMA NetworkTyped == TypeOK /\ (Associate \/ NotFound \/ Lease \/ LinkLost) => TypeOK'
<1>. SUFFICES ASSUME TypeOK, Associate \/ NotFound \/ Lease \/ LinkLost PROVE TypeOK'
  OBVIOUS
<1>1. DriverTyped /\ StationTyped /\ PolicyTyped /\ ControlTyped /\ ToggleTyped
  BY TypeParts
<1>2. /\ Room(1) /\ radio' = radio /\ link' \in {"idle", "linked", "leased"}
      /\ events' = events \/ \E e \in EventName : Posted(<<e>>)
  BY DEF Associate, NotFound, Lease, LinkLost, EventName
<1>3. UNCHANGED <<station, reconnect, mutex, control, monitoring, toggling, boot, users>>
  BY DEF Associate, NotFound, Lease, LinkLost
<1>4. \A e \in EventName : <<e>> \in Seq(EventName) /\ Len(<<e>>) = 1
  OBVIOUS
<1>5. DriverTyped'
  BY <1>1, <1>2, <1>4, PostedTyped DEF DriverTyped
<1>6. StationTyped' /\ PolicyTyped'
  BY <1>1, <1>3 DEF station, reconnect, StationTyped, PolicyTyped
<1>7. ControlTyped' /\ ToggleTyped'
  BY <1>1, <1>3 DEF control, monitoring, toggling, users, ControlTyped, ToggleTyped
<1>. QED
  BY <1>5, <1>6, <1>7, TypeNext

LEMMA EventLoopTyped == TypeOK /\ EventLoop => TypeOK'
<1>. SUFFICES ASSUME TypeOK, EventLoop PROVE TypeOK'
  OBVIOUS
<1>1. DriverTyped /\ StationTyped /\ PolicyTyped /\ ControlTyped /\ ToggleTyped
  BY TypeParts
<1>. DEFINE Statuses == [state : ConnState, connected : BOOLEAN, gotIp : BOOLEAN, started : BOOLEAN]
            Callbacks == [at : {"none", "publish", "report", "schedule"},
                          state : ConnState, retry : BOOLEAN]
            Supervisors == [at : {"none", "wait", "dial", "attempt", "abort", "leave"},
                            stale : BOOLEAN, failed : BOOLEAN]
<1>2. CASE Event
  <2>1. events # << >> /\ events' = Tail(events) /\ UNCHANGED <<radio, link, auto, configured>>
    BY <1>2 DEF Event
  <2>2. events' \in Seq(EventName) /\ Len(events') <= MaxEvents
    <3>1. Tail(events) \in Seq(EventName) /\ Len(Tail(events)) = Len(events) - 1 /\ Len(events) \in Nat
      BY <1>1, <2>1 DEF DriverTyped
    <3>. QED
      BY <1>1, <2>1, <3>1, WifiAssumption DEF DriverTyped
  <2>3. status' \in Statuses
    BY <1>1, <1>2 DEF Event, Cleared, StationTyped
  <2>4. callback' \in Callbacks
    <3>1. auto \in BOOLEAN
      BY <1>1 DEF PolicyTyped
    <3>2. Head(events) = "DISCONNECTED" => callback' \in Callbacks
      <4>1. ASSUME NEW st \in ConnState, NEW b \in BOOLEAN
            PROVE  [at |-> "publish", retry |-> b, state |-> st] \in Callbacks
        OBVIOUS
      <4>2. Head(events) = "DISCONNECTED" =>
              callback' = [at |-> "publish", retry |-> auto,
                           state |-> IF auto THEN "DISCONNECTED" ELSE "FAILED"]
        BY <1>2 DEF Event
      <4>3. (IF auto THEN "DISCONNECTED" ELSE "FAILED") \in ConnState
        BY DEF ConnState
      <4>. QED
        BY <3>1, <4>1, <4>2, <4>3
    <3>3. Head(events) # "DISCONNECTED" => callback' \in Callbacks
      <4>1. NoCallback \in Callbacks /\ [NoCallback EXCEPT !.at = "schedule", !.retry = TRUE] \in Callbacks
        BY DEF NoCallback, ConnState
      <4>2. ASSUME NEW st \in {"IDLE", "CONNECTING", "CONNECTED"}
            PROVE  [at |-> "publish", state |-> st, retry |-> FALSE] \in Callbacks
        BY DEF ConnState
      <4>3. Head(events) # "DISCONNECTED" =>
              \/ callback' = [NoCallback EXCEPT !.at = "schedule", !.retry = TRUE]
              \/ \E st \in {"IDLE", "CONNECTING", "CONNECTED"} :
                   callback' = [at |-> "publish", state |-> st, retry |-> FALSE]
        BY <1>2 DEF Event
      <4>. QED
        BY <4>1, <4>2, <4>3
    <3>. QED
      BY <3>2, <3>3
  <2>5. supervisor' \in Supervisors
    <3>1. Notify \in Supervisors
      <4>1. (supervisor.failed \/ supervisor.at # "none") \in BOOLEAN
        OBVIOUS
      <4>. QED
        BY <1>1, <4>1 DEF Notify, PolicyTyped
    <3>2. supervisor' = supervisor \/ supervisor' = Notify
      BY <1>2 DEF Event
    <3>. QED
      BY <1>1, <3>1, <3>2 DEF PolicyTyped
  <2>6. ControlTyped' /\ ToggleTyped'
    BY <1>1, <1>2 DEF Event, control, monitoring, toggling, users, ControlTyped, ToggleTyped
  <2>. QED
    BY <1>1, <2>1, <2>2, <2>3, <2>4, <2>5, <2>6, TypeNext DEF DriverTyped, StationTyped, PolicyTyped
<1>3. CASE Publish
  <2>1. StationTyped'
    BY <1>1, <1>3 DEF Publish, StationTyped
  <2>2. DriverTyped' /\ PolicyTyped'
    BY <1>1, <1>3 DEF Publish, driver, reconnect, DriverTyped, PolicyTyped
  <2>3. ControlTyped' /\ ToggleTyped'
    BY <1>1, <1>3 DEF Publish, control, monitoring, toggling, users, ControlTyped, ToggleTyped
  <2>. QED
    BY <2>1, <2>2, <2>3, TypeNext
<1>4. CASE Reported
  <2>1. StationTyped'
    BY <1>1, <1>4 DEF Reported, StationTyped, NoCallback, ConnState
  <2>2. PolicyTyped'
    <3>1. Fresh \in Supervisors
      BY DEF Fresh
    <3>2. UNCHANGED <<auto, configured>> /\ supervisor' \in {supervisor, Fresh}
      BY <1>4 DEF Reported, Schedule
    <3>. QED
      BY <1>1, <3>1, <3>2 DEF PolicyTyped
  <2>3. DriverTyped' /\ ControlTyped' /\ ToggleTyped'
    BY <1>1, <1>4 DEF Reported, driver, control, monitoring, toggling, users, DriverTyped,
                      ControlTyped, ToggleTyped
  <2>. QED
    BY <2>1, <2>2, <2>3, TypeNext
<1>. QED
  BY <1>2, <1>3, <1>4 DEF EventLoop

LEMMA SupervisorTyped == TypeOK /\ Supervisor => TypeOK'
<1>. SUFFICES ASSUME TypeOK, Supervisor PROVE TypeOK'
  OBVIOUS
<1>1. DriverTyped /\ StationTyped /\ PolicyTyped /\ ControlTyped /\ ToggleTyped
  BY TypeParts
<1>2. SupervisorStays /\ (UNCHANGED driver \/ Dial \/ HangUp)
  BY DEF Supervisor, Leave, Retire, Search, SearchDial, SearchFailed, SearchTimeout, SearchAbort
<1>3. DriverTyped'
  BY <1>1, <1>2, DriverCallsTyped DEF driver, DriverTyped
<1>4. StationTyped' /\ ControlTyped' /\ ToggleTyped'
  BY <1>1, <1>2 DEF SupervisorStays, station, control, monitoring, toggling, users,
                    StationTyped, ControlTyped, ToggleTyped
<1>5. PolicyTyped'
  <2>1. auto' = auto /\ configured' = configured
    BY <1>2 DEF SupervisorStays
  <2>2. CASE Retire
    BY <1>1, <2>1, <2>2 DEF Retire, Fresh, NoSupervisor, PolicyTyped
  <2>3. CASE ~Retire
    BY <1>1, <2>1, <2>3 DEF Supervisor, Leave, Search, SearchDial, SearchFailed, SearchTimeout,
                            SearchAbort, SupervisorAt, PolicyTyped
  <2>. QED
    BY <2>2, <2>3
<1>. QED
  BY <1>3, <1>4, <1>5, TypeNext

LEMMA MonitorTyped == TypeOK /\ Monitor => TypeOK'
<1>. SUFFICES ASSUME TypeOK, Monitor PROVE TypeOK'
  OBVIOUS
<1>1. DriverTyped /\ StationTyped /\ PolicyTyped /\ ControlTyped /\ ToggleTyped
  BY TypeParts
<1>2. MonitorStays /\ monitor' \in {"none", "round", "callbacks"}
  BY DEF Monitor, Round, Tell
<1>3. DriverTyped' /\ StationTyped' /\ PolicyTyped'
  BY <1>1, <1>2 DEF MonitorStays, driver, station, reconnect, DriverTyped, StationTyped, PolicyTyped
<1>4. ControlTyped' /\ ToggleTyped'
  BY <1>1, <1>2 DEF MonitorStays, control, toggling, users, ControlTyped, ToggleTyped
<1>. QED
  BY <1>3, <1>4, TypeNext

LEMMA WorkerTyped == TypeOK /\ Worker => TypeOK'
<1>. SUFFICES ASSUME TypeOK, Worker PROVE TypeOK'
  OBVIOUS
<1>1. DriverTyped /\ StationTyped /\ PolicyTyped /\ ControlTyped /\ ToggleTyped
  BY TypeParts
<1>2. DriverTyped'
  <2>1. UNCHANGED driver \/ Dial \/ PowerOn \/ PowerOff
    BY DEF Worker, Take, Start, StartConnect, Stop, StopRadio, Finish
  <2>. QED
    BY <1>1, <2>1, DriverCallsTyped DEF driver, DriverTyped
<1>3. PolicyTyped'
  <2>1. UNCHANGED reconnect \/ Policy(FALSE) \/ Policy(autoConnect /\ ~manual)
    BY DEF Worker, Take, Start, StartConnect, Stop, StopRadio, Finish
  <2>2. (autoConnect /\ ~manual) \in BOOLEAN
    OBVIOUS
  <2>. QED
    BY <1>1, <2>1, <2>2, PolicyCallTyped DEF reconnect, PolicyTyped
<1>4. StationTyped'
  BY <1>1 DEF Worker, Take, Start, StartConnect, Stop, StopRadio, Finish, WorkerStays, station,
              StationTyped
<1>5. ControlTyped'
  <2>1. UNCHANGED <<manual, autoConnect>> /\ mutex' \in {mutex, "worker", "free"}
    BY DEF Worker, Take, Start, StartConnect, Stop, StopRadio, Finish, WorkerStays, control
  <2>2. cstate' \in {cstate, "IDLE", "CONNECTING", "CONNECTED"}
    BY DEF Worker, Take, Start, StartConnect, Stop, StopRadio, Finish, control
  <2>3. running' \in {running, TRUE, FALSE} /\ monitor' \in {monitor, "round"}
    BY DEF Worker, Take, Start, StartConnect, Stop, StopRadio, Finish, MonitorStart, monitoring
  <2>. QED
    BY <1>1, <2>1, <2>2, <2>3 DEF ControlTyped
<1>6. ToggleTyped'
  <2>1. UNCHANGED <<request, boot, user, asked>> /\ admitted' \in {admitted, FALSE}
    BY DEF Worker, Take, Start, StartConnect, Stop, StopRadio, Finish, WorkerStays, users
  <2>2. worker' \in {"idle", "start", "connect", "stop", "waitMonitor", "commit", "failed"}
    BY DEF Worker, Take, Start, StartConnect, Stop, StopRadio, Finish, WorkerAt
  <2>3. enabled' \in {enabled, request.on} /\ choice' \in {choice, request.on}
    BY DEF Worker, Take, Start, StartConnect, Stop, StopRadio, Finish
  <2>. QED
    BY <1>1, <2>1, <2>2, <2>3 DEF ToggleTyped
<1>. QED
  BY <1>2, <1>3, <1>4, <1>5, <1>6, TypeNext

\* The calls of the controller the boot task and the user share.
LEMMA CallsTyped ==
  ASSUME DriverTyped, StationTyped, PolicyTyped, ControlTyped,
         ControllerReconnect \/ ControllerDisconnect
  PROVE  DriverTyped' /\ PolicyTyped' /\ manual' \in BOOLEAN /\ autoConnect' \in BOOLEAN
         /\ cstate' \in {"IDLE", "CONNECTING", "CONNECTED"}
<1>1. autoConnect \in BOOLEAN
  BY DEF ControlTyped
<1>2. (Redial \/ HangUp) /\ (Policy(autoConnect) \/ Policy(FALSE)) /\ autoConnect' = autoConnect
      /\ manual' \in BOOLEAN /\ cstate' \in {cstate, "IDLE", "CONNECTING"}
  BY DEF ControllerReconnect, ControllerDisconnect
<1>. QED
  BY <1>1, <1>2, DriverCallsTyped, PolicyCallTyped DEF ControlTyped

LEMMA BootTyped == TypeOK /\ Boot => TypeOK'
<1>. SUFFICES ASSUME TypeOK, Boot PROVE TypeOK'
  OBVIOUS
<1>1. DriverTyped /\ StationTyped /\ PolicyTyped /\ ControlTyped /\ ToggleTyped
  BY TypeParts
<1>2. BootStays /\ boot' \in {"check", "request", "retry", "wait", "allowed", "reconnect", "done"}
  BY DEF Boot, BootCheck, BootRequest, BootRetry, BootWait, BootAllowed, BootReconnect
<1>3. StationTyped'
  BY <1>1, <1>2 DEF BootStays, station, StationTyped
<1>4. CASE BootIdle
  <2>1. DriverTyped' /\ PolicyTyped'
    BY <1>1, <1>4 DEF BootIdle, driver, reconnect, DriverTyped, PolicyTyped
  <2>2. ControlTyped' /\ ToggleTyped'
    BY <1>1, <1>2, <1>4 DEF BootIdle, BootStays, control, monitoring, users, ControlTyped, ToggleTyped
  <2>. QED
    BY <1>3, <2>1, <2>2, TypeNext
<1>5. CASE BootRequest
  <2>1. SetAutoConnect(autoConnect) /\ Request(TRUE, TRUE) /\ UNCHANGED <<driver, manual, cstate>>
    BY <1>5 DEF BootRequest
  <2>2. PolicyTyped' /\ autoConnect' \in BOOLEAN
    BY <1>1, <2>1, SetAutoTyped DEF ControlTyped
  <2>3. admitted' \in BOOLEAN /\ request' \in [on : BOOLEAN, silent : BOOLEAN]
    BY <1>1, <2>1, RequestTyped
  <2>4. DriverTyped'
    BY <1>1, <2>1 DEF driver, DriverTyped
  <2>5. ControlTyped' /\ ToggleTyped'
    BY <1>1, <1>2, <2>1, <2>2, <2>3 DEF BootStays, monitoring, users, ControlTyped, ToggleTyped
  <2>. QED
    BY <1>3, <2>2, <2>4, <2>5, TypeNext
<1>6. CASE BootReconnect
  <2>1. ControllerReconnect /\ UNCHANGED <<admitted, request>>
    BY <1>6 DEF BootReconnect
  <2>2. DriverTyped' /\ PolicyTyped' /\ manual' \in BOOLEAN /\ autoConnect' \in BOOLEAN
        /\ cstate' \in {"IDLE", "CONNECTING", "CONNECTED"}
    BY <1>1, <2>1, CallsTyped
  <2>3. ControlTyped' /\ ToggleTyped'
    BY <1>1, <1>2, <2>1, <2>2 DEF BootStays, monitoring, users, ControlTyped, ToggleTyped
  <2>. QED
    BY <1>3, <2>2, <2>3, TypeNext
<1>. QED
  BY <1>4, <1>5, <1>6 DEF Boot, BootCheck, BootRetry, BootWait, BootAllowed

LEMMA UserTyped == TypeOK /\ User => TypeOK'
<1>. SUFFICES ASSUME TypeOK, User PROVE TypeOK'
  OBVIOUS
<1>1. DriverTyped /\ StationTyped /\ PolicyTyped /\ ControlTyped /\ ToggleTyped
  BY TypeParts
<1>2. UserStays /\ user' \in {"idle", "connect", "writeOn", "writeOff", user}
  BY DEF User, UserToggle, UserPrefers, UserConnect, UserReconnect, UserDisconnect,
         UserConfigures, UserSelects, UserWritesBack
<1>3. asked' \in 0..MaxRequests
  <2>1. asked' = asked \/ (asked < MaxRequests /\ asked' = asked + 1)
    BY DEF User, UserToggle, UserPrefers, UserConnect, UserReconnect, UserDisconnect,
           UserConfigures, UserSelects, UserWritesBack, Asks, Asked
  <2>. QED
    BY <1>1, <2>1, WifiAssumption DEF ToggleTyped
<1>4. StationTyped'
  BY <1>1, <1>2 DEF UserStays, station, StationTyped
<1>5. ASSUME DriverTyped', PolicyTyped', manual' \in BOOLEAN, autoConnect' \in BOOLEAN,
             cstate' \in {"IDLE", "CONNECTING", "CONNECTED"}, admitted' \in BOOLEAN,
             request' \in [on : BOOLEAN, silent : BOOLEAN]
      PROVE  TypeOK'
  <2>1. ControlTyped'
    BY <1>1, <1>2, <1>5 DEF UserStays, monitoring, ControlTyped
  <2>2. ToggleTyped'
    BY <1>1, <1>2, <1>3, <1>5 DEF UserStays, ToggleTyped
  <2>. QED
    BY <1>4, <1>5, <2>1, <2>2, TypeNext
<1>6. ASSUME UNCHANGED <<driver, manual, cstate>>
      PROVE  DriverTyped' /\ manual' \in BOOLEAN /\ cstate' \in {"IDLE", "CONNECTING", "CONNECTED"}
  BY <1>1, <1>6 DEF driver, DriverTyped, ControlTyped
<1>7. CASE UserToggle
  <2>1. PICK on \in BOOLEAN : Request(on, FALSE)
    BY <1>7 DEF UserToggle
  <2>2. SetAutoConnect(autoConnect) /\ UNCHANGED <<driver, manual, cstate>>
    BY <1>7 DEF UserToggle
  <2>3. PolicyTyped' /\ autoConnect' \in BOOLEAN
    BY <1>1, <2>2, SetAutoTyped DEF ControlTyped
  <2>4. admitted' \in BOOLEAN /\ request' \in [on : BOOLEAN, silent : BOOLEAN]
    BY <1>1, <2>1, RequestTyped
  <2>. QED
    BY <1>5, <1>6, <2>2, <2>3, <2>4
<1>8. CASE ~UserToggle
  <2>1. admitted' \in BOOLEAN /\ request' \in [on : BOOLEAN, silent : BOOLEAN]
    <3>1. UNCHANGED <<admitted, request>>
      BY <1>8 DEF User, UserPrefers, UserConnect, UserReconnect, UserDisconnect, UserConfigures,
                  UserSelects, UserWritesBack, BootIdle
    <3>. QED
      BY <1>1, <3>1 DEF ToggleTyped
  <2>2. CASE UserPrefers
    <3>1. PICK on \in BOOLEAN : SetAutoConnect(on)
      BY <2>2 DEF UserPrefers
    <3>2. PolicyTyped' /\ autoConnect' \in BOOLEAN
      BY <1>1, <3>1, SetAutoTyped
    <3>3. UNCHANGED <<driver, manual, cstate>>
      BY <2>2 DEF UserPrefers
    <3>. QED
      BY <1>5, <1>6, <2>1, <3>2, <3>3
  <2>3. CASE UNCHANGED <<driver, reconnect, control>>
    <3>1. DriverTyped' /\ PolicyTyped'
      BY <1>1, <2>3 DEF driver, reconnect, DriverTyped, PolicyTyped
    <3>2. manual' \in BOOLEAN /\ autoConnect' \in BOOLEAN
          /\ cstate' \in {"IDLE", "CONNECTING", "CONNECTED"}
      BY <1>1, <2>3 DEF control, ControlTyped
    <3>. QED
      BY <1>5, <2>1, <3>1, <3>2
  <2>4. CASE ControllerReconnect \/ ControllerDisconnect
    BY <1>1, <1>5, <2>1, <2>4, CallsTyped
  <2>5. CASE UserConfigures \/ UserWritesBack
    <3>1. PICK on \in BOOLEAN : Configure(on)
      BY <2>5 DEF UserConfigures, UserWritesBack
    <3>2. PolicyTyped'
      BY <1>1, <3>1, PolicyCallTyped
    <3>3. UNCHANGED <<driver, control>>
      BY <2>5 DEF UserConfigures, UserWritesBack
    <3>4. autoConnect' \in BOOLEAN
      BY <1>1, <3>3 DEF control, ControlTyped
    <3>. QED
      BY <1>5, <1>6, <2>1, <3>2, <3>3, <3>4 DEF control
  <2>. QED
    BY <1>8, <2>2, <2>3, <2>4, <2>5 DEF User, UserConnect, UserReconnect, UserDisconnect,
       UserSelects, BootIdle
<1>. QED
  BY <1>7, <1>8

LEMMA TypeKept == TypeOK /\ [Next]_vars => TypeOK'
<1>. SUFFICES ASSUME TypeOK, [Next]_vars PROVE TypeOK'
  OBVIOUS
<1>1. CASE UNCHANGED vars
  BY <1>1 DEF vars, driver, station, reconnect, control, monitoring, toggling, users, TypeOK
<1>2. CASE Next
  BY <1>2, NetworkTyped, EventLoopTyped, SupervisorTyped, MonitorTyped, WorkerTyped, BootTyped,
     UserTyped DEF Next
<1>. QED
  BY <1>1, <1>2

\* Whatever the tasks, the network and the user do, the event queue of the
\* driver keeps within its length and every state of the station is one the
\* code names.
THEOREM TypeCorrect == Spec => []TypeOK
BY TypeInit, TypeKept, PTL DEF Spec

-----------------------------------------------------------------------------
(* The flags of the event loop *)

Ends == {"START", "STOP", "DISCONNECTED"}
WillStart == After(events, status.started, {"START"}, {"STOP"})
WillConnect == After(events, status.connected, {"CONNECTED", "GOT_IP"}, Ends)
WillLease == After(events, status.gotIp, {"GOT_IP"}, Ends)

\* What the flags will be once the waiting events are handled is what the
\* driver does now.
FlagsInv ==
  /\ ~radio => link = "idle"
  /\ radio <=> WillStart
  /\ Linked <=> WillConnect
  /\ link = "leased" <=> WillLease

LEMMA FlagsInit == Init => FlagsInv
<1>. SUFFICES ASSUME Init PROVE FlagsInv
  OBVIOUS
<1>1. /\ radio = FALSE /\ link = "idle" /\ events = << >>
      /\ ~status.started /\ ~status.connected /\ ~status.gotIp
  BY DEF Init
<1>2. ~WillStart /\ ~WillConnect /\ ~WillLease
  BY <1>1, AfterNone DEF WillStart, WillConnect, WillLease
<1>. QED
  BY <1>1, <1>2 DEF FlagsInv, Linked

\* What one more event does to each flag.
LEMMA FlagsPosted ==
  ASSUME DriverTyped, UNCHANGED status, NEW e \in EventName, events' = events \o <<e>>
  PROVE  /\ WillStart' <=> (e = "START" \/ (WillStart /\ e # "STOP"))
         /\ WillConnect' <=> (e \in {"CONNECTED", "GOT_IP"} \/ (WillConnect /\ e \notin Ends))
         /\ WillLease' <=> (e = "GOT_IP" \/ (WillLease /\ e \notin Ends))
<1>1. events \in Seq(EventName)
  BY DEF DriverTyped
<1>2. WillStart' <=> After(events \o <<e>>, status.started, {"START"}, {"STOP"})
  BY DEF WillStart
<1>3. WillConnect' <=> After(events \o <<e>>, status.connected, {"CONNECTED", "GOT_IP"}, Ends)
  BY DEF WillConnect, Ends
<1>4. WillLease' <=> After(events \o <<e>>, status.gotIp, {"GOT_IP"}, Ends)
  BY DEF WillLease, Ends
<1>5. After(events \o <<e>>, status.started, {"START"}, {"STOP"})
        <=> (e \in {"START"} \/ (After(events, status.started, {"START"}, {"STOP"}) /\ e \notin {"STOP"}))
  BY <1>1, AfterPosted
<1>6. After(events \o <<e>>, status.connected, {"CONNECTED", "GOT_IP"}, Ends)
        <=> (e \in {"CONNECTED", "GOT_IP"}
             \/ (After(events, status.connected, {"CONNECTED", "GOT_IP"}, Ends) /\ e \notin Ends))
  BY <1>1, AfterPosted
<1>7. After(events \o <<e>>, status.gotIp, {"GOT_IP"}, Ends)
        <=> (e \in {"GOT_IP"} \/ (After(events, status.gotIp, {"GOT_IP"}, Ends) /\ e \notin Ends))
  BY <1>1, AfterPosted
<1>. QED
  BY <1>2, <1>3, <1>4, <1>5, <1>6, <1>7 DEF WillStart, WillConnect, WillLease

LEMMA FlagsSame ==
  ASSUME events' = events, status'.started = status.started,
         status'.connected = status.connected, status'.gotIp = status.gotIp
  PROVE  (WillStart' <=> WillStart) /\ (WillConnect' <=> WillConnect) /\ (WillLease' <=> WillLease)
BY DEF WillStart, WillConnect, WillLease, Ends

LEMMA PostNothing ==
  ASSUME DriverTyped, Posted(<< >>)
  PROVE  events' = events
BY DEF DriverTyped, Posted

\* The calls of the driver.
LEMMA FlagsCalled ==
  ASSUME TypeOK, FlagsInv, UNCHANGED status,
         UNCHANGED driver \/ Dial \/ HangUp \/ Redial \/ PowerOn \/ PowerOff
  PROVE  FlagsInv'
<1>0. DriverTyped
  BY TypeParts
<1>1. CASE UNCHANGED driver
  BY <1>1, FlagsSame DEF driver, FlagsInv, Linked
<1>2. CASE Dial
  BY <1>2, FlagsSame DEF Dial, FlagsInv, Linked
<1>3. CASE HangUp /\ link # "idle"
  <2>1. events' = events \o <<"DISCONNECTED">> /\ "DISCONNECTED" \in EventName
        /\ link' = "idle" /\ radio' = radio
    BY <1>3 DEF HangUp, Posted, EventName
  <2>. QED
    BY <1>0, <2>1, FlagsPosted DEF FlagsInv, Ends, Linked
<1>4. CASE Redial /\ radio
  <2>1. link' = "trying" /\ radio' = radio
    BY <1>4 DEF Redial
  <2>2. CASE link = "idle"
    <3>1. events' = events
      BY <1>0, <1>4, <2>2, PostNothing DEF Redial
    <3>. QED
      BY <1>4, <2>1, <2>2, <3>1, FlagsSame DEF FlagsInv, Linked
  <2>3. CASE link # "idle"
    <3>1. events' = events \o <<"DISCONNECTED">> /\ "DISCONNECTED" \in EventName
      BY <1>4, <2>3 DEF Redial, Posted, EventName
    <3>. QED
      BY <1>0, <1>4, <2>1, <3>1, FlagsPosted DEF FlagsInv, Ends, Linked
  <2>. QED
    BY <2>2, <2>3
<1>5. CASE PowerOn
  <2>1. radio' = TRUE /\ link' = link
    BY <1>5 DEF PowerOn
  <2>2. CASE radio
    <3>1. events' = events
      BY <1>0, <1>5, <2>2, PostNothing DEF PowerOn
    <3>. QED
      BY <2>1, <2>2, <3>1, FlagsSame DEF FlagsInv, Linked
  <2>3. CASE ~radio
    <3>1. events' = events \o <<"START">> /\ "START" \in EventName
      BY <1>5, <2>3 DEF PowerOn, Posted, EventName
    <3>. QED
      BY <1>0, <2>1, <2>3, <3>1, FlagsPosted DEF FlagsInv, Ends, Linked
  <2>. QED
    BY <2>2, <2>3
<1>6. CASE PowerOff
  <2>1. radio' = FALSE /\ link' = "idle"
    BY <1>6 DEF PowerOff
  <2>2. CASE ~radio
    <3>1. link = "idle"
      BY <2>2 DEF FlagsInv
    <3>2. << >> \o << >> = << >>
      OBVIOUS
    <3>3. events' = events
      BY <1>0, <1>6, <2>2, <3>1, <3>2, PostNothing DEF PowerOff
    <3>. QED
      BY <2>1, <2>2, <3>1, <3>3, FlagsSame DEF FlagsInv, Linked
  <2>3. CASE radio /\ link = "idle"
    <3>1. events' = events \o <<"STOP">> /\ "STOP" \in EventName
      <4>1. << >> \o <<"STOP">> = <<"STOP">>
        OBVIOUS
      <4>. QED
        BY <1>6, <2>3, <4>1 DEF PowerOff, Posted, EventName
    <3>. QED
      BY <1>0, <2>1, <2>3, <3>1, FlagsPosted DEF FlagsInv, Ends, Linked
  <2>4. CASE radio /\ link # "idle"
    <3>. DEFINE first == events \o <<"DISCONNECTED">>
    <3>1. "DISCONNECTED" \in EventName /\ "STOP" \in EventName /\ events \in Seq(EventName)
      BY <1>0 DEF EventName, DriverTyped
    <3>2. first \in Seq(EventName)
      BY <3>1
    <3>3. events' = first \o <<"STOP">>
      <4>1. events' = events \o (<<"DISCONNECTED">> \o <<"STOP">>)
        BY <1>6, <2>4 DEF PowerOff, Posted
      <4>2. events \o (<<"DISCONNECTED">> \o <<"STOP">>) = first \o <<"STOP">>
        BY <3>1
      <4>. QED
        BY <4>1, <4>2
    <3>. HIDE DEF first
    <3>4. /\ ~After(first \o <<"STOP">>, status.started, {"START"}, {"STOP"})
          /\ ~After(first \o <<"STOP">>, status.connected, {"CONNECTED", "GOT_IP"}, Ends)
          /\ ~After(first \o <<"STOP">>, status.gotIp, {"GOT_IP"}, Ends)
      BY <3>1, <3>2, AfterPosted DEF Ends
    <3>5. ~WillStart' /\ ~WillConnect' /\ ~WillLease'
      BY <3>3, <3>4 DEF WillStart, WillConnect, WillLease, Ends
    <3>. QED
      BY <2>1, <3>5 DEF FlagsInv, Linked
  <2>. QED
    BY <2>2, <2>3, <2>4
<1>. QED
  BY <1>1, <1>2, <1>3, <1>4, <1>5, <1>6 DEF HangUp, Redial

\* What the network does to the link.
LEMMA FlagsNetwork ==
  ASSUME TypeOK, FlagsInv, Associate \/ NotFound \/ Lease \/ LinkLost
  PROVE  FlagsInv'
<1>0. DriverTyped /\ UNCHANGED status /\ radio' = radio /\ radio
  BY TypeParts DEF Associate, NotFound, Lease, LinkLost, station, FlagsInv, Linked
<1>1. CASE Associate
  <2>1. events' = events \o <<"CONNECTED">> /\ "CONNECTED" \in EventName /\ link' = "linked"
        /\ link = "trying"
    BY <1>1 DEF Associate, Posted, EventName
  <2>. QED
    BY <1>0, <2>1, FlagsPosted DEF FlagsInv, Ends, Linked
<1>2. CASE Lease
  <2>1. events' = events \o <<"GOT_IP">> /\ "GOT_IP" \in EventName /\ link' = "leased"
    BY <1>2 DEF Lease, Posted, EventName
  <2>. QED
    BY <1>0, <2>1, FlagsPosted DEF FlagsInv, Ends, Linked
<1>3. CASE (NotFound \/ LinkLost) /\ events' # events
  <2>1. events' = events \o <<"DISCONNECTED">> /\ "DISCONNECTED" \in EventName /\ link' = "idle"
    BY <1>3 DEF NotFound, LinkLost, Posted, EventName
  <2>. QED
    BY <1>0, <2>1, FlagsPosted DEF FlagsInv, Ends, Linked
<1>4. CASE NotFound /\ events' = events
  BY <1>0, <1>4, FlagsSame DEF NotFound, FlagsInv, Linked
<1>5. ~(LinkLost /\ events' = events)
  <2>1. LinkLost => events' = events \o <<"DISCONNECTED">>
    BY DEF LinkLost, Posted
  <2>2. events \o <<"DISCONNECTED">> # events
    <3>1. events \in Seq(EventName) /\ "DISCONNECTED" \in EventName
      BY <1>0 DEF DriverTyped, EventName
    <3>2. Len(events \o <<"DISCONNECTED">>) = Len(events) + 1 /\ Len(events) \in Nat
      BY <3>1
    <3>. QED
      BY <3>2
  <2>. QED
    BY <2>1, <2>2
<1>. QED
  BY <1>1, <1>2, <1>3, <1>4, <1>5

\* Handling an event moves it from the queue into the flags.
LEMMA FlagsHandled ==
  ASSUME TypeOK, FlagsInv, Event
  PROVE  FlagsInv'
<1>. DEFINE h == Head(events)
<1>1. events # << >> /\ events' = Tail(events) /\ UNCHANGED <<radio, link>>
  BY DEF Event
<1>2. events \in Seq(EventName) /\ h \in EventName
  BY <1>1, TypeParts DEF DriverTyped
<1>3. /\ status'.started <=> (h \in {"START"} \/ (status.started /\ h \notin {"STOP"}))
      /\ status'.connected <=> (h \in {"CONNECTED", "GOT_IP"} \/ (status.connected /\ h \notin Ends))
      /\ status'.gotIp <=> (h \in {"GOT_IP"} \/ (status.gotIp /\ h \notin Ends))
      /\ status \in [state : ConnState, connected : BOOLEAN, gotIp : BOOLEAN, started : BOOLEAN]
      /\ status' \in [state : ConnState, connected : BOOLEAN, gotIp : BOOLEAN, started : BOOLEAN]
  <2>1. status \in [state : ConnState, connected : BOOLEAN, gotIp : BOOLEAN, started : BOOLEAN]
    BY TypeParts DEF StationTyped
  <2>2. status' \in [state : ConnState, connected : BOOLEAN, gotIp : BOOLEAN, started : BOOLEAN]
    BY <2>1 DEF Event, Cleared
  <2>. QED
    BY <2>1, <2>2 DEF Event, Cleared, Ends
<1>. DEFINE started == h \in {"START"} \/ (status.started /\ h \notin {"STOP"})
            connected == h \in {"CONNECTED", "GOT_IP"} \/ (status.connected /\ h \notin Ends)
            gotIp == h \in {"GOT_IP"} \/ (status.gotIp /\ h \notin Ends)
<1>4. /\ After(Tail(events), started, {"START"}, {"STOP"}) <=> WillStart
      /\ After(Tail(events), connected, {"CONNECTED", "GOT_IP"}, Ends) <=> WillConnect
      /\ After(Tail(events), gotIp, {"GOT_IP"}, Ends) <=> WillLease
  BY <1>1, <1>2, AfterHandled DEF WillStart, WillConnect, WillLease
<1>5. (WillStart' <=> WillStart) /\ (WillConnect' <=> WillConnect) /\ (WillLease' <=> WillLease)
  BY <1>1, <1>3, <1>4 DEF WillStart, WillConnect, WillLease, After, Ends
<1>. QED
  BY <1>1, <1>5 DEF FlagsInv, Linked

LEMMA FlagsKept == TypeOK /\ FlagsInv /\ [Next]_vars => FlagsInv'
<1>. SUFFICES ASSUME TypeOK, FlagsInv, [Next]_vars PROVE FlagsInv'
  OBVIOUS
<1>1. CASE Associate \/ NotFound \/ Lease \/ LinkLost
  BY <1>1, FlagsNetwork
<1>2. CASE Event
  BY <1>2, FlagsHandled
<1>3. CASE Publish \/ Reported
  <2>1. UNCHANGED driver
    BY <1>3 DEF Publish, Reported
  <2>2. status'.started = status.started /\ status'.connected = status.connected
        /\ status'.gotIp = status.gotIp
    BY <1>3, TypeParts DEF Publish, Reported, StationTyped
  <2>. QED
    BY <2>1, <2>2, FlagsSame DEF driver, FlagsInv, Linked
<1>4. CASE Supervisor \/ Monitor \/ Worker \/ Boot \/ User \/ UNCHANGED vars
  <2>1. UNCHANGED status
    BY <1>4 DEF Supervisor, Leave, Retire, Search, SearchDial, SearchFailed, SearchTimeout, SearchAbort,
         SupervisorStays, Monitor, Round, Tell, MonitorStays, Worker, Take, Start, StartConnect,
         Stop, StopRadio, Finish, WorkerStays, Boot, BootCheck, BootRequest, BootRetry, BootWait,
         BootAllowed, BootReconnect, BootStays, User, UserToggle, UserPrefers, UserConnect,
         UserReconnect, UserDisconnect, UserConfigures, UserSelects, UserWritesBack, UserStays,
         ControllerDisconnect, Configure, SetRetryPolicy, station, vars
  <2>2. UNCHANGED driver \/ Dial \/ HangUp \/ Redial \/ PowerOn \/ PowerOff
    BY <1>4 DEF Supervisor, Leave, Retire, Search, SearchDial, SearchFailed, SearchTimeout, SearchAbort,
         Monitor, Round, Tell, MonitorStays, Worker, Take, Start, StartConnect,
         Stop, StopRadio, Finish, Boot, BootCheck, BootRequest, BootRetry, BootWait,
         BootAllowed, BootReconnect, BootIdle, User, UserToggle, UserPrefers, UserConnect,
         UserReconnect, UserDisconnect, UserConfigures, UserSelects, UserWritesBack,
         ControllerReconnect, ControllerDisconnect, vars
  <2>. QED
    BY <2>1, <2>2, FlagsCalled
<1>. QED
  BY <1>1, <1>2, <1>3, <1>4 DEF Next, EventLoop

\* Once the event loop has caught up, what is published is what the driver
\* does: no address outlives its link, whatever was dropped, dialled again or
\* switched off meanwhile.
THEOREM PublishedStatusIsTrue == Spec => []StatusFollowsDriver
<1>1. TypeOK /\ FlagsInv => StatusFollowsDriver
  <2>. SUFFICES ASSUME TypeOK, FlagsInv, events = << >> PROVE
         /\ status.connected = Linked
         /\ status.gotIp = (link = "leased")
         /\ status.started = radio
    BY DEF StatusFollowsDriver
  <2>1. (WillStart <=> status.started) /\ (WillConnect <=> status.connected)
        /\ (WillLease <=> status.gotIp)
    BY AfterNone DEF WillStart, WillConnect, WillLease
  <2>2. radio \in BOOLEAN /\ status.started \in BOOLEAN /\ status.connected \in BOOLEAN
        /\ status.gotIp \in BOOLEAN
    BY TypeParts DEF DriverTyped, StationTyped
  <2>3. (radio <=> status.started) /\ (Linked <=> status.connected)
        /\ (link = "leased" <=> status.gotIp)
    BY <2>1 DEF FlagsInv
  <2>4. Linked \in BOOLEAN /\ (link = "leased") \in BOOLEAN
    BY DEF Linked
  <2>5. status.connected = Linked
    BY <2>2, <2>3, <2>4, Zenon
  <2>6. status.gotIp = (link = "leased")
    BY <2>2, <2>3, <2>4, Zenon
  <2>7. status.started = radio
    BY <2>2, <2>3, Zenon
  <2>. QED
    BY <2>5, <2>6, <2>7
<1>. QED
  BY <1>1, TypeInit, TypeKept, FlagsInit, FlagsKept, PTL DEF Spec

-----------------------------------------------------------------------------
(* The policy and the toggle *)

\* Between the request and the commit the radio may differ from what the
\* system says, but only the way the request asks for.
ToggleInv ==
  /\ worker # "idle" => admitted
  /\ worker \in {"start", "connect"} => request.on
  /\ radio => enabled \/ worker \in {"connect", "commit"}
  /\ worker = "commit" /\ radio => request.on

PolicyInv == manual /\ ~configured => ~auto

\* A step outside the worker neither powers the radio nor changes the request
\* of a busy worker.
LEMMA OutsideWorker ==
  ASSUME TypeOK, [Next]_vars, ~Worker
  PROVE  /\ UNCHANGED <<worker, enabled>> /\ radio' = radio
         /\ admitted => UNCHANGED <<admitted, request>>
<1>1. radio' = radio
  BY DEF Next, Associate, NotFound, Lease, LinkLost, EventLoop, Event, Publish, Reported,
         Supervisor, Leave, Retire, Search, SearchDial, SearchFailed, SearchTimeout, SearchAbort, Dial,
         HangUp, Redial, Monitor, Round, Tell, MonitorStays, Boot, BootCheck, BootRequest,
         BootRetry, BootWait, BootAllowed, BootReconnect, BootIdle, User, UserToggle, UserPrefers,
         UserConnect, UserReconnect, UserDisconnect, UserConfigures, UserSelects, UserWritesBack,
         ControllerReconnect, ControllerDisconnect, driver, vars
<1>2. UNCHANGED <<worker, enabled>>
  BY DEF Next, Associate, NotFound, Lease, LinkLost, EventLoop, Event, Publish, Reported,
         Supervisor, Leave, Retire, Search, SearchDial, SearchFailed, SearchTimeout, SearchAbort,
         SupervisorStays, Monitor, Round, Tell, MonitorStays, Boot, BootCheck, BootRequest,
         BootRetry, BootWait, BootAllowed, BootReconnect, BootStays, User, UserToggle, UserPrefers,
         UserConnect, UserReconnect, UserDisconnect, UserConfigures, UserSelects, UserWritesBack,
         UserStays, toggling, vars
<1>3. admitted => UNCHANGED <<admitted, request>>
  BY DEF Next, Associate, NotFound, Lease, LinkLost, EventLoop, Event, Publish, Reported,
         Supervisor, Leave, Retire, Search, SearchDial, SearchFailed, SearchTimeout, SearchAbort,
         SupervisorStays, Monitor, Round, Tell, MonitorStays, Boot, BootCheck, BootRequest,
         BootRetry, BootWait, BootAllowed, BootReconnect, BootIdle, User, UserToggle, UserPrefers,
         UserConnect, UserReconnect, UserDisconnect, UserConfigures, UserSelects, UserWritesBack,
         Request, toggling, vars
<1>. QED
  BY <1>1, <1>2, <1>3

LEMMA ToggleKept == TypeOK /\ ToggleInv /\ [Next]_vars => ToggleInv'
<1>. SUFFICES ASSUME TypeOK, ToggleInv, [Next]_vars PROVE ToggleInv'
  OBVIOUS
<1>1. CASE ~Worker
  BY <1>1, OutsideWorker DEF ToggleInv
<1>2. CASE Take
  BY <1>2 DEF Take, WorkerStays, WorkerAt, driver, ToggleInv
<1>3. CASE Start
  BY <1>3 DEF Start, WorkerStays, WorkerAt, PowerOn, driver, ToggleInv
<1>4. CASE StartConnect
  BY <1>4 DEF StartConnect, WorkerStays, WorkerAt, Dial, driver, ToggleInv
<1>5. CASE Stop
  BY <1>5 DEF Stop, WorkerStays, WorkerAt, driver, ToggleInv
<1>6. CASE StopRadio
  BY <1>6 DEF StopRadio, WorkerStays, WorkerAt, PowerOff, driver, ToggleInv
<1>7. CASE Finish
  BY <1>7 DEF Finish, WorkerAt, driver, ToggleInv
<1>. QED
  BY <1>1, <1>2, <1>3, <1>4, <1>5, <1>6, <1>7 DEF Worker

LEMMA PolicyKept == TypeOK /\ PolicyInv /\ [Next]_vars => PolicyInv'
<1>. SUFFICES ASSUME TypeOK, PolicyInv, [Next]_vars PROVE PolicyInv'
  OBVIOUS
<1>1. CASE UNCHANGED <<manual, auto, configured>>
  BY <1>1 DEF PolicyInv
<1>2. ASSUME NEW on, Policy(on), manual' => ~on
      PROVE  PolicyInv'
  BY <1>2 DEF Policy, SetRetryPolicy, PolicyInv
<1>3. ASSUME NEW on, SetAutoConnect(on), manual' = manual
      PROVE  PolicyInv'
  <2>1. auto' = (on /\ ~manual)
    BY <1>3 DEF SetAutoConnect, Policy, SetRetryPolicy
  <2>. QED
    BY <1>3, <2>1 DEF PolicyInv
<1>4. CASE ControllerReconnect \/ ControllerDisconnect
  <2>1. manual' = FALSE \/ auto' = FALSE
    BY <1>4 DEF ControllerReconnect, ControllerDisconnect, Policy, SetRetryPolicy
  <2>. QED
    BY <2>1 DEF PolicyInv
<1>5. CASE Worker
  <2>1. CASE Start
    <3>1. auto' = (autoConnect /\ ~manual) /\ manual' = manual
      BY <2>1 DEF Start, Policy, SetRetryPolicy, WorkerStays
    <3>. QED
      BY <3>1 DEF PolicyInv
  <2>2. CASE Stop
    BY <2>2 DEF Stop, Policy, SetRetryPolicy, WorkerStays, PolicyInv
  <2>3. CASE Take \/ StartConnect \/ StopRadio \/ Finish
    BY <1>1, <2>3 DEF Take, StartConnect, StopRadio, Finish, WorkerStays, reconnect, control
  <2>. QED
    BY <1>5, <2>1, <2>2, <2>3 DEF Worker
<1>6. CASE Boot
  <2>1. CASE BootRequest
    BY <1>3, <2>1 DEF BootRequest
  <2>2. CASE BootReconnect
    BY <1>4, <2>2 DEF BootReconnect
  <2>3. CASE BootCheck \/ BootRetry \/ BootWait \/ BootAllowed
    BY <1>1, <2>3 DEF BootCheck, BootRetry, BootWait, BootAllowed, BootIdle, reconnect, control
  <2>. QED
    BY <1>6, <2>1, <2>2, <2>3 DEF Boot
<1>7. CASE User
  <2>1. CASE UserToggle
    BY <1>3, <2>1 DEF UserToggle
  <2>2. CASE UserPrefers
    BY <1>3, <2>2 DEF UserPrefers
  <2>3. CASE UserConnect
    BY <1>1, <2>3 DEF UserConnect, BootIdle, reconnect, control
  <2>4. CASE UserReconnect \/ UserDisconnect
    BY <1>4, <2>4 DEF UserReconnect, UserDisconnect
  <2>5. CASE UserSelects
    BY <1>1, <1>4, <2>5 DEF UserSelects, reconnect, control
  <2>6. CASE UserConfigures \/ UserWritesBack
    BY <2>6 DEF UserConfigures, UserWritesBack, Configure, PolicyInv
  <2>. QED
    BY <1>7, <2>1, <2>2, <2>3, <2>4, <2>5, <2>6 DEF User
<1>8. CASE Associate \/ NotFound \/ Lease \/ LinkLost \/ EventLoop \/ Supervisor \/ Monitor
           \/ UNCHANGED vars
  BY <1>1, <1>8 DEF Associate, NotFound, Lease, LinkLost, EventLoop, Event, Publish, Reported,
     Supervisor, Leave, Retire, Search, SearchDial, SearchFailed, SearchTimeout, SearchAbort,
     SupervisorStays, Monitor, Round, Tell, MonitorStays, reconnect, control, vars
<1>. QED
  BY <1>5, <1>6, <1>7, <1>8 DEF Next

LEMMA PolicyInit == Init => ToggleInv /\ PolicyInv
BY DEF Init, ToggleInv, PolicyInv

LEMMA PolicyInvariants == Spec => [](TypeOK /\ ToggleInv /\ PolicyInv)
BY TypeInit, TypeKept, PolicyInit, ToggleKept, PolicyKept, PTL DEF Spec

\* What the user asked for stays in force: no automatic reconnecting after a
\* Disconnect, unless a configuration written since says so, and no radio, between
\* two toggles, that the system does not know to be on.
THEOREM PolicyStaysInForce == Spec => []PolicyHolds
<1>1. ToggleInv /\ PolicyInv => PolicyHolds
  BY DEF ToggleInv, PolicyInv, PolicyHolds
<1>. QED
  BY <1>1, PolicyInvariants, PTL

\* While a Disconnect is in force nobody dials but a supervisor that was past its
\* check, and none passes its check unless a configuration rewrote the policy.
THEOREM DisconnectIsHonoured == Spec => DisconnectHonoured
<1>. DEFINE Honoured ==
       manual /\ manual' =>
         /\ ~configured /\ supervisor.at # "dial" => supervisor'.at # "dial"
         /\ link # "trying" /\ link' = "trying" => supervisor.at = "dial"
<1>1. TypeOK /\ PolicyInv /\ [Next]_vars => [Honoured]_vars
  <2>. SUFFICES ASSUME TypeOK, PolicyInv, Next, manual, manual'
                PROVE  /\ ~configured /\ supervisor.at # "dial" => supervisor'.at # "dial"
                       /\ link # "trying" /\ link' = "trying" => supervisor.at = "dial"
    BY DEF Honoured
  <2>1. ~configured => Cancelled
    BY DEF PolicyInv, Cancelled
  <2>2. \A on : Policy(on) \/ Configure(on) => (supervisor.at # "dial" => supervisor'.at # "dial")
    BY TypeParts DEF Policy, Configure, SetRetryPolicy, Fresh, PolicyTyped
  <2>3. CASE Supervisor
    <3>1. ~configured /\ supervisor.at # "dial" => supervisor'.at # "dial"
      <4>1. CASE Search
        BY <2>1, <4>1 DEF Search
      <4>2. CASE Leave \/ Retire \/ SearchDial \/ SearchFailed \/ SearchTimeout \/ SearchAbort
        BY <4>2, TypeParts DEF Leave, Retire, SearchDial, SearchFailed, SearchTimeout, SearchAbort,
                               SupervisorAt, Fresh, NoSupervisor, PolicyTyped
      <4>. QED
        BY <2>3, <4>1, <4>2 DEF Supervisor
    <3>2. link # "trying" /\ link' = "trying" => supervisor.at = "dial"
      BY <2>3 DEF Supervisor, Leave, Retire, Search, SearchDial, SearchFailed, SearchTimeout,
                  SearchAbort, HangUp, driver
    <3>. QED
      BY <3>1, <3>2
  <2>4. CASE EventLoop
    BY <2>4, TypeParts DEF EventLoop, Event, Publish, Reported, Notify, Schedule, Fresh, driver,
                           reconnect, PolicyTyped
  <2>5. CASE Associate \/ NotFound \/ Lease \/ LinkLost \/ Monitor
    BY <2>5 DEF Associate, NotFound, Lease, LinkLost, Monitor, Round, Tell, MonitorStays, driver,
                reconnect
  <2>6. CASE Worker
    <3>1. supervisor.at # "dial" => supervisor'.at # "dial"
      BY <2>2, <2>6 DEF Worker, Take, Start, StartConnect, Stop, StopRadio, Finish, reconnect
    <3>2. ~ShouldAutoConnect
      BY DEF ShouldAutoConnect
    <3>3. link # "trying" => link' # "trying"
      BY <2>6, <3>2 DEF Worker, Take, Start, StartConnect, Stop, StopRadio, Finish, PowerOn,
                        PowerOff, driver
    <3>. QED
      BY <3>1, <3>3
  <2>7. CASE Boot \/ User
    <3>1. ~ControllerReconnect
      BY DEF ControllerReconnect
    <3>2. supervisor.at # "dial" => supervisor'.at # "dial"
      BY <2>2, <2>7, <3>1 DEF Boot, BootCheck, BootRequest, BootRetry, BootWait, BootAllowed,
         BootReconnect, BootIdle, User, UserToggle, UserPrefers, UserConnect, UserReconnect,
         UserDisconnect, UserConfigures, UserSelects, UserWritesBack, ControllerDisconnect,
         SetAutoConnect, reconnect
    <3>3. link # "trying" => link' # "trying"
      BY <2>7, <3>1 DEF Boot, BootCheck, BootRequest, BootRetry, BootWait, BootAllowed,
         BootReconnect, BootIdle, User, UserToggle, UserPrefers, UserConnect, UserReconnect,
         UserDisconnect, UserConfigures, UserSelects, UserWritesBack, ControllerDisconnect,
         HangUp, driver
    <3>. QED
      BY <3>2, <3>3
  <2>. QED
    BY <2>3, <2>4, <2>5, <2>6, <2>7 DEF Next
<1>2. [][Honoured]_vars => DisconnectHonoured
  BY PTL DEF Honoured, DisconnectHonoured
<1>. QED
  BY <1>1, <1>2, PolicyInvariants, PTL DEF Spec
=============================================================================
