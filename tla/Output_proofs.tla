---------------------------- MODULE Output_proofs ----------------------------
(***************************************************************************)
(* Proofs about what protects the output: first the protection state       *)
(* machine, for every set of quantities, limits, readings and queue        *)
(* length, then the power state machine, for every set of current limits,  *)
(* menu depth and queue bound, with and without a failing relay or the     *)
(* remote control of the mock build.                                       *)
(***************************************************************************)
EXTENDS Protection, PowerControl, SequenceTheorems, TLAPS

-----------------------------------------------------------------------------
(* The bounded queue *)

\* A post leaves a queue of events a queue of events within its bound.
LEMMA PostKeepsBound ==
  ASSUME NEW evt \in Event, Post(evt), eventQueue \in Seq(Event),
         Len(eventQueue) <= SystemEventQueueLength
  PROVE  /\ eventQueue' \in Seq(Event)
         /\ Len(eventQueue') <= SystemEventQueueLength
BY QueueLengthAssumption DEF Post, QueueFull

\* system_event_post_protection builds a well-formed event for every action.
LEMMA ProtectionEventType ==
  ASSUME NEW q \in Quantity, NEW s \in Stage
  PROVE  ProtectionEvent(q, ActionFor(s)) \in Event
BY DEF ProtectionEvent, ActionFor, ProtectionPriority, Event, Stage

\* classify returns a stage.
LEMMA ClassifyType ==
  ASSUME NEW t, NEW prev, NEW v
  PROVE  Classify(t, prev, v) \in Stage
BY DEF Classify, RawStage, Stage

LEMMA FlagsAfterType ==
  ASSUME NEW q \in Quantity, NEW s, NEW v, errorFlags \subseteq Bit
  PROVE  FlagsAfter(q, s, v) \subseteq Bit
<1>1. q \in ProtectionQuantity
  BY ProtectionAssumption
<1>2. FlagsOf(q) \subseteq Bit /\ RaisedBy(q, v) \subseteq Bit
  BY <1>1 DEF FlagsOf, RaisedBy, Bit, ProtectionQuantity, ERR_AC_FAULT,
     ERR_OVERLOAD, ERR_OVER_TEMP, ERR_LOW_BAT, ERR_HIGH_BAT
<1> QED
  BY <1>2 DEF FlagsAfter

-----------------------------------------------------------------------------
(* Types of the protection state machine *)

\* Reporting a stage keeps the types of what it changes.
LEMMA ReportType ==
  ASSUME ProtectionTypeOK, NEW q \in Quantity, NEW s \in Stage, Report(q, s)
  PROVE  /\ eventQueue' \in Seq(Event)
         /\ Len(eventQueue') <= SystemEventQueueLength
         /\ shutdownFate' \in [Quantity -> Fate]
<1>1. ProtectionEvent(q, ActionFor(s)) \in Event
  BY ProtectionEventType
<1>2. Post(ProtectionEvent(q, ActionFor(s)))
  BY DEF Report
<1>3. eventQueue' \in Seq(Event) /\ Len(eventQueue') <= SystemEventQueueLength
  BY <1>1, <1>2, PostKeepsBound DEF ProtectionTypeOK
<1>4. shutdownFate' \in [Quantity -> Fate]
  BY DEF Report, ProtectionTypeOK, Fate
<1> QED
  BY <1>3, <1>4

\* One protection_update keeps the types of what it changes.
LEMMA UpdateType ==
  ASSUME ProtectionTypeOK, NEW q \in Quantity, NEW v, ProtectionUpdate(q, v)
  PROVE  /\ eventQueue' \in Seq(Event)
         /\ Len(eventQueue') <= SystemEventQueueLength
         /\ stage' \in [Quantity -> Stage]
         /\ DOMAIN lastValue' = Quantity
         /\ faultCount' \in [Quantity -> 0..MaxFaultCount]
         /\ errorFlags' \subseteq Bit
         /\ shutdownFate' \in [Quantity -> Fate]
<1>1. CASE UpdateNonFinite(q)
  <2>1. /\ stage' \in [Quantity -> Stage]
        /\ DOMAIN lastValue' = Quantity
        /\ faultCount' \in [Quantity -> 0..MaxFaultCount]
    BY <1>1, ProtectionAssumption DEF UpdateNonFinite, ProtectionTypeOK, Stage
  <2>2. errorFlags' \subseteq Bit
    BY <1>1 DEF UpdateNonFinite, ProtectionTypeOK, Bit, ERR_SYSTEM_FAILURE
  <2>3. CASE stage[q] # "FAULT"
    <3>1. Report(q, "FAULT") /\ "FAULT" \in Stage
      BY <1>1, <2>3 DEF UpdateNonFinite, Stage
    <3> QED
      BY <2>1, <2>2, <3>1, ReportType
  <2>4. CASE stage[q] = "FAULT"
    BY <1>1, <2>1, <2>2, <2>4 DEF UpdateNonFinite, ProtectionTypeOK
  <2> QED
    BY <2>3, <2>4
<1>2. CASE UpdateFinite(q, v)
  <2> DEFINE next == Classify(thresholds[q], stage[q], v)
  <2>1. next \in Stage
    BY ClassifyType
  <2>2. stage' \in [Quantity -> Stage] /\ DOMAIN lastValue' = Quantity
    BY <1>2, <2>1 DEF UpdateFinite, ProtectionTypeOK
  <2>3. CASE next = stage[q]
    BY <1>2, <2>2, <2>3 DEF UpdateFinite, ProtectionTypeOK
  <2>4. CASE next # stage[q]
    <3>1. Report(q, next)
      BY <1>2, <2>4 DEF UpdateFinite
    <3>2. faultCount' \in [Quantity -> 0..MaxFaultCount]
      <4>1. faultCount[q] \in 0..MaxFaultCount /\ MaxFaultCount \in Nat
        BY ProtectionAssumption DEF ProtectionTypeOK
      <4>2. CASE next = "FAULT"
        <5>1. /\ faultCount[q] < MaxFaultCount
              /\ faultCount' = [faultCount EXCEPT ![q] = @ + 1]
          BY <1>2, <2>4, <4>2 DEF UpdateFinite
        <5> QED
          BY <4>1, <5>1 DEF ProtectionTypeOK
      <4>3. CASE next # "FAULT"
        BY <1>2, <2>4, <4>3 DEF UpdateFinite, ProtectionTypeOK
      <4> QED
        BY <4>2, <4>3
    <3>3. errorFlags' = FlagsAfter(q, next, v)
      BY <1>2, <2>4 DEF UpdateFinite
    <3>4. errorFlags' \subseteq Bit
      BY <3>3, FlagsAfterType DEF ProtectionTypeOK
    <3> QED
      BY <2>1, <2>2, <3>1, <3>2, <3>4, ReportType
  <2> QED
    BY <2>3, <2>4
<1> QED
  BY <1>1, <1>2 DEF ProtectionUpdate

\* Every step of the protection keeps its types.
LEMMA ProtectionTypeStep == ProtectionTypeOK /\ [ProtectionNext]_protectionVars => ProtectionTypeOK'
<1> SUFFICES ASSUME ProtectionTypeOK, [ProtectionNext]_protectionVars PROVE ProtectionTypeOK'
  OBVIOUS
<1>1. ASSUME NEW gateOpen \in BOOLEAN, BeginPass(gateOpen) PROVE ProtectionTypeOK'
  <2>1. todo' \in Seq(Quantity)
    BY <1>1, ProtectionAssumption DEF BeginPass
  <2> QED
    BY <1>1, <2>1 DEF BeginPass, ProtectionTypeOK
<1>2. CASE UpdateNext
  <2>1. Head(todo) \in Quantity /\ Tail(todo) \in Seq(Quantity)
    BY <1>2 DEF UpdateNext, ProtectionTypeOK
  <2>2. PICK v \in Sample(Head(todo)) : ProtectionUpdate(Head(todo), v)
    BY <1>2 DEF UpdateNext
  <2>3. todo' = Tail(todo) /\ UNCHANGED thresholds
    BY <1>2 DEF UpdateNext
  <2> HIDE DEF ProtectionUpdate
  <2>4. /\ eventQueue' \in Seq(Event)
        /\ Len(eventQueue') <= SystemEventQueueLength
        /\ stage' \in [Quantity -> Stage]
        /\ DOMAIN lastValue' = Quantity
        /\ faultCount' \in [Quantity -> 0..MaxFaultCount]
        /\ errorFlags' \subseteq Bit
        /\ shutdownFate' \in [Quantity -> Fate]
    BY <2>1, <2>2, UpdateType
  <2> QED
    BY <2>1, <2>3, <2>4 DEF ProtectionTypeOK
<1>3. ASSUME NEW q \in Quantity, NEW t \in ThresholdChoice, SetThresholds(q, t)
      PROVE  ProtectionTypeOK'
  BY <1>3, ProtectionAssumption DEF SetThresholds, ProtectionTypeOK
<1>4. CASE PostOther
  <2>1. [category |-> "BUTTON", priority |-> "LOW"] \in Event
    BY DEF Event
  <2>2. Post([category |-> "BUTTON", priority |-> "LOW"])
    BY <1>4 DEF PostOther
  <2>3. eventQueue' \in Seq(Event) /\ Len(eventQueue') <= SystemEventQueueLength
    BY <2>1, <2>2, PostKeepsBound DEF ProtectionTypeOK
  <2> QED
    BY <1>4, <2>3 DEF PostOther, stageVars, ProtectionTypeOK
<1>5. CASE Dispatch
  <2>1. eventQueue # << >> /\ eventQueue' = Tail(eventQueue)
    BY <1>5 DEF Dispatch, Receive
  <2>2. eventQueue' \in Seq(Event) /\ Len(eventQueue') <= SystemEventQueueLength
    BY <2>1, QueueLengthAssumption DEF ProtectionTypeOK
  <2>3. shutdownFate' \in [Quantity -> Fate]
    BY <1>5 DEF Dispatch, ProtectionTypeOK, Fate
  <2> QED
    BY <1>5, <2>2, <2>3 DEF Dispatch, ProtectionTypeOK
<1>6. CASE UNCHANGED protectionVars
  BY <1>6 DEF protectionVars, stageVars, ProtectionTypeOK
<1> QED
  BY <1>1, <1>2, <1>3, <1>4, <1>5, <1>6 DEF ProtectionNext

\* The state of the protection has its type in every reachable state.
THEOREM ProtectionTypeCorrect == ProtectionSpec => []ProtectionTypeOK
<1>1. ProtectionInit => ProtectionTypeOK
  BY ProtectionAssumption, QueueLengthAssumption
     DEF ProtectionInit, SystemEventsInit, ProtectionTypeOK, Stage, Fate
<1> QED
  BY <1>1, ProtectionTypeStep, PTL DEF ProtectionSpec

-----------------------------------------------------------------------------
(* Every FAULT in force is accounted for *)

\* A post keeps what waits in the queue and, unless it is full, adds the event.
LEMMA PostKeepsPending ==
  ASSUME NEW e, Post(e), eventQueue \in Seq(Event), e \in Event
  PROVE  /\ \A q \in Quantity : ShutdownPending(q) => ShutdownPending(q)'
         /\ ~QueueFull => \E i \in 1..Len(eventQueue') : eventQueue'[i] = e
<1>1. CASE QueueFull
  BY <1>1 DEF Post, ShutdownPending
<1>2. CASE ~QueueFull
  <2>1. /\ eventQueue' = Append(eventQueue, e) /\ Len(eventQueue') = Len(eventQueue) + 1
        /\ \A i \in 1..Len(eventQueue) : eventQueue'[i] = eventQueue[i]
        /\ eventQueue'[Len(eventQueue) + 1] = e
    BY <1>2 DEF Post
  <2>2. Len(eventQueue) \in Nat
    OBVIOUS
  <2> QED
    BY <2>1, <2>2 DEF ShutdownPending
<1> QED
  BY <1>1, <1>2

\* The dispatcher takes the oldest event; every other one still waits.
LEMMA TailKeepsPending ==
  ASSUME eventQueue \in Seq(Event), eventQueue # << >>, eventQueue' = Tail(eventQueue),
         NEW q, ShutdownPending(q), Head(eventQueue) # ProtectionEvent(q, "SHUTDOWN")
  PROVE  ShutdownPending(q)'
<1>1. PICK i \in 1..Len(eventQueue) : eventQueue[i] = ProtectionEvent(q, "SHUTDOWN")
  BY DEF ShutdownPending
<1>2. i # 1
  BY <1>1
<1>3. i - 1 \in 1..Len(eventQueue') /\ eventQueue'[i - 1] = eventQueue[i]
  BY <1>1, <1>2
<1> QED
  BY <1>1, <1>3 DEF ShutdownPending

\* A change of stage is reported, and its SHUTDOWN queued or known to be lost.
LEMMA AccountedReport ==
  ASSUME ProtectionTypeOK, FaultAccountedFor, NEW q \in Quantity, NEW s \in Stage, Report(q, s),
         stage' = [stage EXCEPT ![q] = s]
  PROVE  FaultAccountedFor'
<1>1. ProtectionEvent(q, ActionFor(s)) \in Event /\ Post(ProtectionEvent(q, ActionFor(s)))
  BY ProtectionEventType DEF Report
<1>2. \A u \in Quantity : ShutdownPending(u) => ShutdownPending(u)'
  BY <1>1, PostKeepsPending DEF ProtectionTypeOK
<1>3. \A u \in Quantity \ {q} :
        stage'[u] = stage[u] /\ shutdownFate'[u] = shutdownFate[u]
  BY DEF Report, ProtectionTypeOK
<1>4. /\ stage'[q] = s
      /\ shutdownFate'[q] = IF s # "FAULT" THEN "NONE"
                            ELSE IF QueueFull THEN "LOST" ELSE "QUEUED"
  BY DEF Report, ProtectionTypeOK
<1>5. (s = "FAULT" /\ ~QueueFull) => ShutdownPending(q)'
  BY <1>1, PostKeepsPending DEF ProtectionTypeOK, ActionFor, ShutdownPending
<1> QED
  BY <1>2, <1>3, <1>4, <1>5 DEF FaultAccountedFor

LEMMA AccountedUpdate ==
  ASSUME ProtectionTypeOK, FaultAccountedFor, NEW q \in Quantity, NEW v, ProtectionUpdate(q, v)
  PROVE  FaultAccountedFor'
<1>1. ASSUME UNCHANGED <<eventQueue, shutdownFate>>, stage' = stage
      PROVE  FaultAccountedFor'
  BY <1>1 DEF FaultAccountedFor, ShutdownPending
<1>2. CASE UpdateNonFinite(q)
  <2>1. CASE stage[q] # "FAULT"
    BY <1>2, <2>1, AccountedReport DEF UpdateNonFinite, Stage
  <2>2. CASE stage[q] = "FAULT"
    BY <1>1, <1>2, <2>2 DEF UpdateNonFinite, ProtectionTypeOK
  <2> QED
    BY <2>1, <2>2
<1>3. CASE UpdateFinite(q, v)
  <2> DEFINE next == Classify(thresholds[q], stage[q], v)
  <2>1. next \in Stage /\ stage' = [stage EXCEPT ![q] = next]
    BY <1>3, ClassifyType DEF UpdateFinite
  <2>2. CASE next = stage[q]
    BY <1>1, <1>3, <2>1, <2>2 DEF UpdateFinite, ProtectionTypeOK
  <2>3. CASE next # stage[q]
    <3>1. Report(q, next)
      BY <1>3, <2>3 DEF UpdateFinite
    <3> HIDE DEF next
    <3> QED
      BY <2>1, <3>1, AccountedReport
  <2> QED
    BY <2>2, <2>3
<1> QED
  BY <1>2, <1>3 DEF ProtectionUpdate

LEMMA AccountedStep ==
  ProtectionTypeOK /\ FaultAccountedFor /\ [ProtectionNext]_protectionVars => FaultAccountedFor'
<1> SUFFICES ASSUME ProtectionTypeOK, FaultAccountedFor, [ProtectionNext]_protectionVars
    PROVE FaultAccountedFor'
  OBVIOUS
<1>1. CASE UpdateNext
  <2>1. Head(todo) \in Quantity
    BY <1>1 DEF UpdateNext, ProtectionTypeOK
  <2> QED
    BY <1>1, <2>1, AccountedUpdate DEF UpdateNext
<1>2. CASE PostOther
  <2>1. [category |-> "BUTTON", priority |-> "LOW"] \in Event
    BY DEF Event
  <2>2. \A q \in Quantity : ShutdownPending(q) => ShutdownPending(q)'
    BY <1>2, <2>1, PostKeepsPending DEF PostOther, ProtectionTypeOK
  <2> QED
    BY <1>2, <2>2 DEF PostOther, stageVars, FaultAccountedFor
<1>3. CASE Dispatch
  <2>1. eventQueue # << >> /\ eventQueue' = Tail(eventQueue) /\ stage' = stage
    BY <1>3 DEF Dispatch, Receive
  <2> SUFFICES ASSUME NEW q \in Quantity
               PROVE  /\ (stage[q] = "FAULT") <=> (shutdownFate'[q] # "NONE")
                      /\ shutdownFate'[q] = "QUEUED" => ShutdownPending(q)'
    BY <2>1 DEF FaultAccountedFor
  <2>2. CASE Head(eventQueue) = ProtectionEvent(q, "SHUTDOWN") /\ shutdownFate[q] = "QUEUED"
    <3>1. shutdownFate'[q] = "DELIVERED"
      BY <1>3, <2>2 DEF Dispatch
    <3> QED
      BY <2>2, <3>1 DEF FaultAccountedFor
  <2>3. CASE ~(Head(eventQueue) = ProtectionEvent(q, "SHUTDOWN") /\ shutdownFate[q] = "QUEUED")
    <3>1. shutdownFate'[q] = shutdownFate[q]
      BY <1>3, <2>3, Zenon DEF Dispatch
    <3> QED
      BY <2>1, <2>3, <3>1, TailKeepsPending DEF FaultAccountedFor, ProtectionTypeOK
  <2> QED
    BY <2>2, <2>3
<1>4. CASE UNCHANGED <<eventQueue, stage, shutdownFate>>
  BY <1>4 DEF FaultAccountedFor, ShutdownPending
<1> QED
  BY <1>1, <1>2, <1>3, <1>4 DEF ProtectionNext, BeginPass, SetThresholds, protectionVars, stageVars

\* Whatever passes, settings changes, other posts and dispatches interleave to:
\* a quantity is in FAULT exactly while the fate of its SHUTDOWN is known, and one
\* that is said to wait is in the central queue.
THEOREM FaultsAccountedFor == ProtectionSpec => []FaultAccountedFor
<1>1. ProtectionInit => FaultAccountedFor
  BY DEF ProtectionInit, FaultAccountedFor
<1> QED
  BY <1>1, AccountedStep, ProtectionTypeCorrect, PTL DEF ProtectionSpec

-----------------------------------------------------------------------------
(* The stage machine implements the latch *)

\* classify latches on a reading beyond the fault limits, lets go of one out of
\* the hysteresis band, and keeps what it was in between.
LEMMA ClassifyLatches ==
  ASSUME NEW t, NEW prev, NEW v
  PROVE  Classify(t, prev, v) = "FAULT"
           <=> \/ Beyond(t, v, "fault_high", "fault_low")
               \/ prev = "FAULT" /\ ~Cleared(t, v)
BY DEF Classify, RawStage

\* The quantities in FAULT: the latch of the abstract specification.
InFault == {q \in Quantity : stage[q] = "FAULT"}

LEMMA UpdateIsTake ==
  ASSUME ProtectionTypeOK, NEW q \in Quantity, NEW v \in Sample(q), ProtectionUpdate(q, v),
         UNCHANGED thresholds
  PROVE  Latch!Take(q)
<1>1. /\ lastValue' = [lastValue EXCEPT ![q] = v]
      /\ \A u \in Quantity \ {q} : stage'[u] = stage[u]
  BY DEF ProtectionUpdate, UpdateNonFinite, UpdateFinite, ProtectionTypeOK
<1>2. stage'[q] = "FAULT"
        <=> \/ LatchTrips(thresholds[q], v)
            \/ stage[q] = "FAULT" /\ ~LatchClears(thresholds[q], v)
  <2>1. CASE v = NonFinite
    BY <2>1 DEF ProtectionUpdate, UpdateNonFinite, ProtectionTypeOK, LatchTrips
  <2>2. CASE v # NonFinite
    <3>1. stage'[q] = Classify(thresholds[q], stage[q], v)
      BY <2>2 DEF ProtectionUpdate, UpdateFinite, ProtectionTypeOK
    <3> QED
      BY <2>2, <3>1, ClassifyLatches DEF LatchTrips, LatchClears
  <2> QED
    BY <2>1, <2>2
<1>3. InFault' = IF LatchTrips(thresholds[q], v) THEN InFault \cup {q}
                 ELSE IF LatchClears(thresholds[q], v) THEN InFault \ {q}
                 ELSE InFault
  BY <1>1, <1>2 DEF InFault
<1> QED
  BY <1>1, <1>3 DEF Latch!Take, InFault

\* A settings change that is accepted is a change of the latch's limits.
LEMMA ThresholdsIsRetune ==
  ASSUME NEW q \in Quantity, NEW t \in ThresholdChoice, SetThresholds(q, t)
  PROVE  Latch!Retune(q) \/ UNCHANGED Latch!vars
<1>1. UNCHANGED <<lastValue, stage>>
  BY DEF SetThresholds
<1>2. CASE ThresholdsValid(t)
  BY <1>1, <1>2 DEF SetThresholds, Latch!Retune
<1>3. CASE ~ThresholdsValid(t)
  BY <1>1, <1>3 DEF SetThresholds, Latch!vars
<1> QED
  BY <1>2, <1>3

LEMMA LatchStep == ProtectionTypeOK /\ [ProtectionNext]_protectionVars => [Latch!Next]_(Latch!vars)
<1> SUFFICES ASSUME ProtectionTypeOK, [ProtectionNext]_protectionVars PROVE [Latch!Next]_(Latch!vars)
  OBVIOUS
<1>1. CASE UpdateNext
  <2>1. PICK q \in Quantity : \E v \in Sample(q) : ProtectionUpdate(q, v)
    BY <1>1 DEF UpdateNext, ProtectionTypeOK
  <2>2. UNCHANGED thresholds
    BY <1>1 DEF UpdateNext
  <2>3. Latch!Take(q)
    BY <2>1, <2>2, UpdateIsTake
  <2> QED
    BY <2>1, <2>3 DEF Latch!Next
<1>2. ASSUME NEW q \in Quantity, NEW t \in ThresholdChoice, SetThresholds(q, t)
      PROVE  [Latch!Next]_(Latch!vars)
  <2>1. Latch!Retune(q) \/ UNCHANGED Latch!vars
    BY <1>2, ThresholdsIsRetune
  <2> QED
    BY <2>1 DEF Latch!Next
<1>3. CASE UNCHANGED <<thresholds, lastValue, stage>>
  BY <1>3 DEF Latch!vars
<1> QED
  BY <1>1, <1>2, <1>3 DEF ProtectionNext, BeginPass, PostOther, Dispatch, protectionVars, stageVars

\* The stage machine of every quantity, with its events, flags, passes and settings
\* changes, implements the latch: FAULT is entered on every sample that trips and
\* left only on one out of the hysteresis band.
THEOREM StagesImplementLatch == ProtectionSpec => LatchSpec
<1>1. ProtectionInit => Latch!Init
  BY DEF ProtectionInit, Latch!Init
<1> QED
  BY <1>1, LatchStep, ProtectionTypeCorrect, PTL DEF ProtectionSpec, LatchSpec, Latch!Spec

-----------------------------------------------------------------------------
(* Types of the power state machine *)

\* The definitions an action of PowerControl is made of.
USE DEF output, sensing, ui, boot

LEMMA NoteType ==
  ASSUME causes \subseteq Cause, NEW c, c \subseteq Cause, Note(c)
  PROVE  causes' \subseteq Cause
BY DEF Note, Cause

LEMMA NoDetailType == NoDetail \in [open : BOOLEAN, state : State, menu : Menu]
BY DEF NoDetail, State, Menu

\* Going to a label keeps the program counters well formed.
LEMMA GotoType ==
  ASSUME pc \in [Task -> Label], NEW t \in Task, NEW l \in Label, Goto(t, l)
  PROVE  pc' \in [Task -> Label]
BY DEF Goto

\* All of TypeOK but the history variable, which Next sets for every action.
Typed ==
  /\ state \in State /\ previousState \in State
  /\ active \in BOOLEAN /\ outputEnabled \in BOOLEAN /\ relay \in BOOLEAN
  /\ limit \in 0..50
  /\ flags \subseteq Bit
  /\ ready \in BOOLEAN /\ adcValid \in BOOLEAN
  /\ latched \in BOOLEAN /\ channelFault \in BOOLEAN
  /\ mail \in Seq({"SHUTDOWN", "RECOVERED"}) /\ Len(mail) <= MaxMail
  /\ menu \in Menu /\ history \in Seq(Menu) /\ Len(history) <= MaxHistory
  /\ detail \in [open : BOOLEAN, state : State, menu : Menu]
  /\ postPassed \in BOOLEAN /\ systemReady \in BOOLEAN
  /\ pc \in [Task -> Label] /\ after \in {"idle", "reclose", "restart"}

\* The flag constants are bits.
LEMMA FlagTypes ==
  /\ ERR_BATTERY_VOLTAGE \subseteq Bit /\ SYSTEM_FAILURE_ERROR \subseteq Bit
  /\ ERR_LOW_BAT \subseteq Bit
BY DEF Bit, ERR_BATTERY_VOLTAGE, SYSTEM_FAILURE_ERROR, ERR_LOW_BAT

\* power_on and shutdown_inverter, by either driver, keep the types.
LEMMA DriveTyped ==
  ASSUME Typed, NEW t \in Driver, Drive(t)
  PROVE  Typed'
<1>1. t \in Task
  BY DEF Driver, Task
<1>2. ASSUME Finish(t)
      PROVE  pc' \in [Task -> Label] /\ after' \in {"idle", "reclose", "restart"}
  BY <1>1, <1>2 DEF Finish, Goto, Typed, Label
<1>3. CASE RefuseStart(t)
  <2>1. flags' \subseteq Bit
    BY <1>3, FlagTypes DEF RefuseStart, CheckFlags, Typed
  <2>2. Finish(t)
    BY <1>3 DEF RefuseStart
  <2>3. active' \in BOOLEAN /\ outputEnabled' \in BOOLEAN
    BY <1>3, Zenon DEF RefuseStart, FailStart
  <2> QED
    BY <1>2, <1>3, <2>1, <2>2, <2>3 DEF RefuseStart, FailStart, Typed, State
<1>4. CASE Arm(t)
  <2>1. active' \in BOOLEAN /\ outputEnabled' \in BOOLEAN
    BY <1>4, Zenon DEF Arm
  <2> QED
    BY <1>1, <1>4, <2>1 DEF Arm, Goto, Typed, State, Label
<1>5. CASE Energise(t)
  BY <1>1, <1>5 DEF Energise, Goto, Typed, Label
<1>6. CASE EnergiseFails(t)
  <2>1. Finish(t) /\ flags' \subseteq Bit
    BY <1>6, FlagTypes DEF EnergiseFails, Typed
  <2>2. active' \in BOOLEAN
    BY <1>6, Zenon DEF EnergiseFails
  <2> QED
    BY <1>2, <1>6, <2>1, <2>2 DEF EnergiseFails, Typed, State
<1>7. CASE PublishOn(t)
  <2>1. Finish(t)
    BY <1>7 DEF PublishOn
  <2> QED
    BY <1>2, <1>7, <2>1 DEF PublishOn, Typed, State, Menu
<1>8. CASE StopIgnored(t)
  <2>1. Finish(t)
    BY <1>8 DEF StopIgnored
  <2> QED
    BY <1>2, <1>8, <2>1 DEF StopIgnored, Typed
<1>9. CASE StopBegins(t)
  BY <1>1, <1>9 DEF StopBegins, Goto, Typed, Label
<1>10. CASE OpenRelay(t)
  BY <1>1, <1>10 DEF OpenRelay, Goto, Typed, Label
<1>11. CASE PublishOff(t)
  <2>1. Finish(t)
    BY <1>11 DEF PublishOff
  <2>2. active' \in BOOLEAN
    BY <1>11, Zenon DEF PublishOff
  <2> QED
    BY <1>2, <1>11, <2>1, <2>2 DEF PublishOff, Typed, State, Menu
<1> QED
  BY <1>3, <1>4, <1>5, <1>6, <1>7, <1>8, <1>9, <1>10, <1>11 DEF Drive

\* inverter_emergency_disable, the ADC cycle and the enforcer keep the types.
LEMMA SensingTyped ==
  ASSUME Typed,
         \/ \E g \in Guardian : Disable(g) \/ PublishFault(g)
         \/ SampleReady \/ SampleLost \/ PublishSample
         \/ TakeShutdown \/ TakeRecovered
  PROVE  Typed'
<1>1. ASSUME NEW g \in Guardian, Disable(g) PROVE Typed'
  <2>1. g \in Task /\ pc' \in [Task -> Label]
    BY <1>1 DEF Guardian, Task, Disable, Goto, Typed, Label
  <2>2. relay' \in BOOLEAN
    BY <1>1, Zenon DEF Disable
  <2> QED
    BY <1>1, <2>1, <2>2 DEF Disable, Typed
<1>2. ASSUME NEW g \in Guardian, PublishFault(g) PROVE Typed'
  <2>1. g \in Task /\ pc' \in [Task -> Label]
    BY <1>2 DEF Guardian, Task, PublishFault, Goto, Typed, Label
  <2>2. active' \in BOOLEAN /\ outputEnabled' \in BOOLEAN
    BY <1>2, Zenon DEF PublishFault
  <2>3. flags' \subseteq Bit
    BY <1>2, FlagTypes DEF PublishFault, Typed
  <2> QED
    BY <1>2, <2>1, <2>2, <2>3 DEF PublishFault, Typed, State
<1>3. CASE SampleReady
  <2>1. PICK fault \in IF adcValid THEN BOOLEAN ELSE {channelFault} :
          /\ fault # channelFault => Len(mail) < MaxMail
          /\ channelFault' = fault
          /\ mail' = IF fault = channelFault THEN mail
                     ELSE Append(mail, IF fault THEN "SHUTDOWN" ELSE "RECOVERED")
          /\ flags' = (flags \cap Retained)
                        \cup (IF fault /\ ~channelFault THEN ERR_LOW_BAT ELSE {})
    BY <1>3 DEF SampleReady
  <2>2. channelFault' \in BOOLEAN
    BY <2>1, Zenon DEF Typed
  <2>3. ready' \in BOOLEAN /\ latched' \in BOOLEAN
    BY <1>3, Zenon DEF SampleReady
  <2>4. flags' \subseteq Bit
    BY <2>1, FlagTypes DEF Typed
  <2>5. mail' \in Seq({"SHUTDOWN", "RECOVERED"}) /\ Len(mail') <= MaxMail
    <3> DEFINE news == IF fault THEN "SHUTDOWN" ELSE "RECOVERED"
    <3>1. news \in {"SHUTDOWN", "RECOVERED"}
      OBVIOUS
    <3> HIDE DEF news
    <3>2. CASE fault = channelFault
      BY <2>1, <3>2 DEF Typed
    <3>3. CASE fault # channelFault
      <4>1. mail' = Append(mail, news) /\ Len(mail) < MaxMail
        BY <2>1, <3>3 DEF news
      <4> QED
        BY <3>1, <4>1, PowerAssumption DEF Typed
    <3> QED
      BY <3>2, <3>3
  <2>6. pc' \in [Task -> Label]
    BY <1>3 DEF SampleReady, Goto, Typed, Label
  <2> QED
    BY <1>3, <2>2, <2>3, <2>4, <2>5, <2>6 DEF SampleReady, Typed
<1>4. CASE SampleLost
  <2> DEFINE trip == ~latched /\ (active \/ state = "STARTING")
  <2>1. ready' \in BOOLEAN /\ latched' \in BOOLEAN
    BY <1>4, Zenon DEF SampleLost
  <2>2. flags' \subseteq Bit
    BY <1>4, FlagTypes DEF SampleLost, Typed
  <2>3. Goto("adc", IF trip THEN "disable" ELSE "publishSample")
    BY <1>4 DEF SampleLost
  <2> HIDE DEF trip
  <2>4. pc' \in [Task -> Label]
    BY <2>3 DEF Goto, Typed, Label
  <2> QED
    BY <1>4, <2>1, <2>2, <2>4 DEF SampleLost, Typed
<1>5. CASE PublishSample
  BY <1>5 DEF PublishSample, Goto, Typed, Label
<1>6. CASE TakeShutdown
  <2>1. mail' \in Seq({"SHUTDOWN", "RECOVERED"}) /\ Len(mail') <= MaxMail
    BY <1>6, PowerAssumption DEF TakeShutdown, Typed
  <2>2. pc' \in [Task -> Label]
    BY <1>6 DEF TakeShutdown, Goto, Typed, Label
  <2> QED
    BY <1>6, <2>1, <2>2 DEF TakeShutdown, Typed
<1>7. CASE TakeRecovered
  <2>1. mail' \in Seq({"SHUTDOWN", "RECOVERED"}) /\ Len(mail') <= MaxMail
    BY <1>7, PowerAssumption DEF TakeRecovered, Typed
  <2> QED
    BY <1>7, <2>1 DEF TakeRecovered, Typed
<1> QED
  BY <1>1, <1>2, <1>3, <1>4, <1>5, <1>6, <1>7

\* A restart puts every variable back among its types.
LEMMA RebootTyped ==
  ASSUME Reboot
  PROVE  Typed' /\ causes' \subseteq Cause
<1>1. pc' \in [Task -> Label]
  BY DEF Reboot, Label
<1>2. /\ active' \in BOOLEAN /\ outputEnabled' \in BOOLEAN /\ relay' \in BOOLEAN
      /\ latched' \in BOOLEAN /\ channelFault' \in BOOLEAN
  BY Zenon DEF Reboot
<1>3. adcValid' \in BOOLEAN /\ ready' \in BOOLEAN
  BY DEF Reboot
<1> QED
  BY <1>1, <1>2, <1>3, NoDetailType, PowerAssumption
     DEF Reboot, Typed, State, Menu

\* A menu that is closed and has no history.
LEMMA NoHistory ==
  << >> \in Seq(Menu) /\ Len(<< >>) <= MaxHistory /\ "NONE" \in Menu
BY PowerAssumption DEF Menu

\* The HTTP control and the button's start, stop and recovery keep the types.
LEMMA ControlTyped ==
  ASSUME Typed,
         \/ HttpOn \/ HttpOff
         \/ LongPress \/ ClearFault \/ RecoveryRefused \/ RecoveryStarts
         \/ RecloseDecision \/ Reclose
         \/ ApplyCurrentLimit \/ ApplyUpdate \/ UpdateRefused
  PROVE  Typed'
<1>1. CASE HttpOn
  <2>1. pc' \in [Task -> Label]
    BY <1>1 DEF HttpOn, Goto, Typed, Label
  <2> QED
    BY <1>1, <2>1 DEF HttpOn, Typed
<1>2. CASE HttpOff
  <2>1. pc' \in [Task -> Label]
    BY <1>2 DEF HttpOff, Goto, Typed, Label
  <2> QED
    BY <1>2, <2>1 DEF HttpOff, Typed
<1>3. CASE LongPress
  <2>1. pc' \in [Task -> Label]
    BY <1>3 DEF LongPress, Goto, Typed, Label
  <2>2. /\ menu' \in Menu /\ history' \in Seq(Menu) /\ Len(history') <= MaxHistory
        /\ detail' \in [open : BOOLEAN, state : State, menu : Menu]
    <3>1. CASE UNCHANGED <<menu, history, detail>>
      BY <3>1 DEF Typed
    <3>2. CASE menu' = "NONE" /\ history' = << >> /\ detail' = NoDetail
      BY <3>2, NoHistory, NoDetailType
    <3> QED
      BY <1>3, <3>1, <3>2 DEF LongPress, CloseMenu
  <2>3. previousState' = previousState
    BY <1>3 DEF LongPress
  <2> QED
    BY <1>3, <2>1, <2>2, <2>3 DEF LongPress, Typed
<1>4. CASE ClearFault
  <2>1. flags' \subseteq Bit /\ pc' \in [Task -> Label]
    BY <1>4 DEF ClearFault, Goto, Typed, Label
  <2> QED
    BY <1>4, <2>1 DEF ClearFault, Typed, State
<1>5. CASE RecoveryRefused
  <2>1. flags' \subseteq Bit /\ pc' \in [Task -> Label]
    BY <1>5, FlagTypes DEF RecoveryRefused, CheckFlags, Goto, Typed, Label
  <2>2. active' \in BOOLEAN /\ outputEnabled' \in BOOLEAN
    BY <1>5, Zenon DEF RecoveryRefused, FailStart
  <2> QED
    BY <1>5, <2>1, <2>2 DEF RecoveryRefused, FailStart, Typed, State
<1>6. CASE RecoveryStarts
  <2>1. pc' \in [Task -> Label]
    BY <1>6 DEF RecoveryStarts, Goto, Typed, Label
  <2> QED
    BY <1>6, <2>1 DEF RecoveryStarts, Typed
<1>7. CASE RecloseDecision
  <2>1. pc' \in [Task -> Label]
    BY <1>7 DEF RecloseDecision, Goto, Typed, Label
  <2> QED
    BY <1>7, <2>1 DEF RecloseDecision, Typed
<1>8. CASE Reclose
  <2>1. pc' \in [Task -> Label]
    BY <1>8 DEF Reclose, Goto, Typed, Label
  <2>2. relay' \in BOOLEAN
    BY <1>8, Zenon DEF Reclose
  <2> QED
    BY <1>8, <2>1, <2>2 DEF Reclose, Typed
<1>9. CASE ApplyCurrentLimit
  <2>1. limit' \in 0..50
    BY <1>9, PowerAssumption DEF ApplyCurrentLimit
  <2> QED
    BY <1>9, <2>1 DEF ApplyCurrentLimit, Typed
<1>10. CASE ApplyUpdate
  <2>1. pc' \in [Task -> Label]
    BY <1>10 DEF ApplyUpdate, Goto, Typed, Label
  <2> QED
    BY <1>10, <2>1 DEF ApplyUpdate, Typed
<1>11. CASE UpdateRefused
  <2>1. pc' \in [Task -> Label]
    BY <1>11 DEF UpdateRefused, Goto, Typed, Label
  <2> QED
    BY <1>11, <2>1 DEF UpdateRefused, Typed
<1> QED
  BY <1>1, <1>2, <1>3, <1>4, <1>5, <1>6, <1>7, <1>8, <1>9, <1>10, <1>11

\* All but the last element of a sequence.
LEMMA LastDropped ==
  ASSUME NEW S, NEW s \in Seq(S), s # << >>
  PROVE  /\ SubSeq(s, 1, Len(s) - 1) \in Seq(S)
         /\ Len(SubSeq(s, 1, Len(s) - 1)) = Len(s) - 1
<1> DEFINE n == Len(s) - 1
<1>1. Len(s) \in Nat /\ Len(s) # 0
  OBVIOUS
<1>2. n \in Nat /\ \A i \in 1..n : s[i] \in S
  BY <1>1
<1> HIDE DEF n
<1>3. SubSeq(s, 1, n) \in Seq(S) /\ Len(SubSeq(s, 1, n)) = n
  BY <1>2, SubSeqProperties
<1> QED
  BY <1>3 DEF n

\* Opening and leaving menus and views keeps the types; the history stays
\* within its depth.
LEMMA MenuTyped ==
  ASSUME Typed,
         \/ Screen \/ DoubleClick \/ OpenMenu \/ OpenSubmenu \/ EnterDetail
         \/ BackToParent \/ MenuTimeout
  PROVE  Typed'
<1>1. CASE Click
  <2>1. state' \in State
    BY <1>1 DEF Click, Typed
  <2>2. pc' \in [Task -> Label]
    BY <1>1 DEF Click, Goto, Typed, Label
  <2>3. /\ menu' \in Menu /\ history' \in Seq(Menu) /\ Len(history') <= MaxHistory
        /\ detail' \in [open : BOOLEAN, state : State, menu : Menu]
    <3>1. CASE UNCHANGED <<menu, history>>
      BY <1>1, <3>1, NoDetailType DEF Click, Typed
    <3>2. CASE menu' = "NONE" /\ history' = << >>
      BY <1>1, <3>2, NoHistory, NoDetailType DEF Click
    <3> QED
      BY <1>1, <3>1, <3>2 DEF Click
  <2> QED
    BY <1>1, <2>1, <2>2, <2>3 DEF Click, Typed
<1>2. CASE ExitDetail
  BY <1>2, NoDetailType DEF ExitDetail, Typed
<1>3. CASE BackFromDetail
  BY <1>3, NoDetailType DEF BackFromDetail, Typed
<1>4. CASE BackFallback
  <2>1. state' \in State /\ menu' \in Menu
    BY <1>4, NoHistory DEF BackFallback, Typed
  <2> QED
    BY <1>4, <2>1 DEF BackFallback, Typed
<1>5. CASE ExitDiagnostic
  <2>1. pc' \in [Task -> Label]
    BY <1>5 DEF ExitDiagnostic, Goto, Typed, Label
  <2> QED
    BY <1>5, <2>1, NoHistory DEF ExitDiagnostic, Typed
<1>6. CASE DoubleClick
  <2>1. pc' \in [Task -> Label]
    BY <1>6 DEF DoubleClick, Goto, Typed, Label
  <2>2. /\ menu' \in Menu /\ history' \in Seq(Menu) /\ Len(history') <= MaxHistory
        /\ detail' \in [open : BOOLEAN, state : State, menu : Menu]
        /\ state' \in State /\ previousState' \in State
    <3>1. CASE state = "DIAGNOSTIC"
      BY <1>6, <3>1 DEF DoubleClick, Typed
    <3>2. CASE state # "DIAGNOSTIC"
      <4>1. /\ previousState' = state /\ state' = "DIAGNOSTIC"
            /\ menu' = "DIAGNOSTIC" /\ history' = << >> /\ detail' = NoDetail
        BY <1>6, <3>2 DEF DoubleClick
      <4> QED
        BY <4>1, NoHistory, NoDetailType DEF Typed, State, Menu
    <3> QED
      BY <3>1, <3>2
  <2> QED
    BY <1>6, <2>1, <2>2 DEF DoubleClick, Typed
<1>7. CASE OpenMenu
  BY <1>7 DEF OpenMenu, Typed, Menu
<1>8. CASE OpenSubmenu
  <2>1. menu' \in Menu
    BY <1>8, PowerAssumption DEF OpenSubmenu, Menu
  <2>2. history' \in Seq(Menu) /\ Len(history') <= MaxHistory
    <3>1. CASE Len(history) < MaxHistory
      <4>1. history' = Append(history, menu)
        BY <1>8, <3>1 DEF OpenSubmenu
      <4> QED
        BY <3>1, <4>1, PowerAssumption DEF Typed
    <3>2. CASE ~(Len(history) < MaxHistory)
      BY <1>8, <3>2 DEF OpenSubmenu, Typed
    <3> QED
      BY <3>1, <3>2
  <2> QED
    BY <1>8, <2>1, <2>2 DEF OpenSubmenu, Typed
<1>9. CASE EnterDetail
  <2>1. detail' \in [open : BOOLEAN, state : State, menu : Menu]
    BY <1>9 DEF EnterDetail, Typed
  <2> QED
    BY <1>9, <2>1 DEF EnterDetail, Typed
<1>10. CASE BackToParent
  <2>1. history \in Seq(Menu) /\ history # << >> /\ Len(history) <= MaxHistory
    BY <1>10 DEF BackToParent, Typed
  <2>2. Len(history) \in 1..MaxHistory /\ history[Len(history)] \in Menu
    BY <2>1, PowerAssumption
  <2>3. /\ SubSeq(history, 1, Len(history) - 1) \in Seq(Menu)
        /\ Len(SubSeq(history, 1, Len(history) - 1)) = Len(history) - 1
    BY <2>1, LastDropped
  <2>4. menu' \in Menu /\ history' \in Seq(Menu) /\ Len(history') <= MaxHistory
    BY <1>10, <2>2, <2>3, PowerAssumption DEF BackToParent
  <2> QED
    BY <1>10, <2>4 DEF BackToParent, Typed
<1>11. CASE MenuTimeout
  BY <1>11, NoDetailType, PowerAssumption DEF MenuTimeout, Typed, Menu
<1> QED
  BY <1>1, <1>2, <1>3, <1>4, <1>5, <1>6, <1>7, <1>8, <1>9, <1>10, <1>11 DEF Screen

\* Every step keeps the types.
LEMMA TypeStep ==
  ASSUME TypeOK, [Next]_vars
  PROVE  TypeOK'
<1>1. Typed /\ causes \subseteq Cause
  BY DEF TypeOK, Typed
<1>2. ASSUME Typed', causes' \subseteq Cause PROVE TypeOK'
  BY <1>2 DEF TypeOK, Typed
<1>3. CASE Step /\ Note({})
  <2>1. Typed'
    BY <1>1, <1>3, DriveTyped, SensingTyped, ControlTyped, MenuTyped DEF Step
  <2> QED
    BY <1>1, <1>2, <1>3, <2>1, NoteType
<1>4. CASE \E g \in Guardian : Disable(g) /\ Note(IF relay' THEN {"STUCK"} ELSE {})
  <2>1. Typed'
    BY <1>1, <1>4, SensingTyped
  <2>2. PICK c \in SUBSET Cause : Note(c)
    BY <1>4 DEF Cause
  <2> QED
    BY <1>1, <1>2, <2>1, <2>2, NoteType
<1>5. CASE /\ Screen
           /\ Note(IF state' = state
                     \/ (At("button", "exitDiag") /\ state = "DIAGNOSTIC")
                   THEN {} ELSE {"OVERWRITTEN"})
  <2>1. Typed'
    BY <1>1, <1>5, MenuTyped
  <2>2. PICK c \in SUBSET Cause : Note(c)
    BY <1>5 DEF Cause
  <2> QED
    BY <1>1, <1>2, <2>1, <2>2, NoteType
<1>6. CASE \E t \in Driver : OpenFails(t)
  BY <1>2, <1>6, RebootTyped DEF OpenFails
<1>7. CASE RestartIntoUpdate
  BY <1>2, <1>7, RebootTyped DEF RestartIntoUpdate
<1>8. CASE UNCHANGED vars
  BY <1>1, <1>2, <1>8 DEF vars, Typed
<1> QED
  BY <1>3, <1>4, <1>5, <1>6, <1>7, <1>8 DEF Next

\* The initial state is well typed.
LEMMA TypeInit == Init => TypeOK
<1> SUFFICES ASSUME Init PROVE TypeOK
  OBVIOUS
<1>1. pc \in [Task -> Label] /\ causes \subseteq Cause
  BY DEF Init, Label
<1>2. /\ active \in BOOLEAN /\ outputEnabled \in BOOLEAN /\ relay \in BOOLEAN
      /\ latched \in BOOLEAN /\ channelFault \in BOOLEAN
  BY Zenon DEF Init
<1>3. adcValid \in BOOLEAN /\ ready \in BOOLEAN
  BY DEF Init
<1> QED
  BY <1>1, <1>2, <1>3, NoDetailType, PowerAssumption DEF Init, TypeOK, State, Menu

\* Whatever the tasks interleave to, the queue of the enforcer and the menu
\* history stay within their depth and every variable within its type.
THEOREM PowerTypeCorrect == Spec => []TypeOK
<1>1. TypeOK /\ [Next]_vars => TypeOK'
  BY TypeStep
<1> QED
  BY TypeInit, <1>1, PTL DEF Spec

-----------------------------------------------------------------------------
(* The relay and the start-up interlock *)

\* A step that keeps the relay, the interlock and who is on the way.
LEMMA AdmittedKept ==
  ASSUME Admitted, UNCHANGED <<boot, pc, after>>, relay' => relay
  PROVE  Admitted'
BY DEF Admitted

\* A task that goes where nobody closes the relay, or was let in to.
LEMMA AdmittedGoto ==
  ASSUME TypeOK, Admitted, UNCHANGED <<boot, after>>, relay' => systemReady,
         NEW t \in Task, NEW l, Goto(t, l),
         l \in {"powerOn", "energise", "publishOn",
                "recover", "recheck", "reclose", "closing"} => systemReady
  PROVE  Admitted'
<1>1. \A u \in Task : pc'[u] = IF u = t THEN l ELSE pc[u]
  BY DEF Goto, TypeOK
<1>2. Driver \subseteq Task /\ "button" \in Task
  BY DEF Task, Driver
<1> QED
  BY <1>1, <1>2 DEF Admitted

\* Back to the caller: the button's recovery was let in when it began.
LEMMA AdmittedFinish ==
  ASSUME TypeOK, Admitted, UNCHANGED boot, relay' => systemReady,
         NEW t \in Driver, Finish(t)
  PROVE  Admitted'
<1> DEFINE l == IF t = "button" THEN after ELSE "idle"
<1>1. t \in Task /\ Driver \subseteq Task /\ "button" \in Task
  BY DEF Task, Driver
<1>2. \A u \in Task : pc'[u] = IF u = t THEN l ELSE pc[u]
  BY <1>1 DEF Finish, Goto, TypeOK
<1>3. after' = "reclose" => after = "reclose"
  BY DEF Finish
<1>4. l \in {"powerOn", "energise", "publishOn",
             "recover", "recheck", "reclose", "closing"} => systemReady
  BY DEF Admitted, TypeOK
<1> HIDE DEF l
<1> QED
  BY <1>1, <1>2, <1>3, <1>4 DEF Admitted

\* power_on and shutdown_inverter, by either driver.
LEMMA AdmittedDrive ==
  ASSUME TypeOK, Admitted, NEW t \in Driver, Drive(t)
  PROVE  Admitted'
<1>1. t \in Task /\ (relay => systemReady)
  BY DEF Driver, Task, Admitted
<1>2. CASE RefuseStart(t)
  BY <1>1, <1>2, AdmittedFinish DEF RefuseStart
<1>3. CASE Arm(t)
  <2>1. systemReady
    BY <1>3 DEF Arm, At, Admitted
  <2> QED
    BY <1>1, <1>3, <2>1, AdmittedGoto DEF Arm
<1>4. CASE Energise(t)
  <2>1. systemReady
    BY <1>4 DEF Energise, At, Admitted
  <2> QED
    BY <1>1, <1>4, <2>1, AdmittedGoto DEF Energise
<1>5. CASE EnergiseFails(t)
  BY <1>1, <1>5, AdmittedFinish DEF EnergiseFails
<1>6. CASE PublishOn(t)
  BY <1>1, <1>6, AdmittedFinish DEF PublishOn
<1>7. CASE StopIgnored(t)
  BY <1>1, <1>7, AdmittedFinish DEF StopIgnored
<1>8. CASE StopBegins(t)
  BY <1>1, <1>8, AdmittedGoto DEF StopBegins
<1>9. CASE OpenRelay(t)
  BY <1>1, <1>9, AdmittedGoto DEF OpenRelay
<1>10. CASE PublishOff(t)
  BY <1>1, <1>10, AdmittedFinish DEF PublishOff
<1> QED
  BY <1>2, <1>3, <1>4, <1>5, <1>6, <1>7, <1>8, <1>9, <1>10 DEF Drive

\* The guardians and the ADC cycle only ever open the relay.
LEMMA AdmittedSensing ==
  ASSUME TypeOK, Admitted,
         \/ \E g \in Guardian : Disable(g) \/ PublishFault(g)
         \/ SampleReady \/ SampleLost \/ PublishSample
         \/ TakeShutdown \/ TakeRecovered
  PROVE  Admitted'
<1>1. /\ Guardian \subseteq Task /\ "adc" \in Task /\ "enforcer" \in Task
      /\ relay => systemReady
  BY DEF Guardian, Task, Admitted
<1>2. ASSUME NEW g \in Guardian, Disable(g) PROVE Admitted'
  <2>1. relay' => relay
    BY <1>2, Zenon DEF Disable
  <2> QED
    BY <1>1, <1>2, <2>1, AdmittedGoto DEF Disable
<1>3. ASSUME NEW g \in Guardian, PublishFault(g) PROVE Admitted'
  BY <1>1, <1>3, AdmittedGoto DEF PublishFault
<1>4. CASE SampleReady
  BY <1>1, <1>4, AdmittedGoto DEF SampleReady
<1>5. CASE SampleLost
  BY <1>1, <1>5, AdmittedGoto DEF SampleLost
<1>6. CASE PublishSample
  BY <1>1, <1>6, AdmittedGoto DEF PublishSample
<1>7. CASE TakeShutdown
  BY <1>1, <1>7, AdmittedGoto DEF TakeShutdown
<1>8. CASE TakeRecovered
  BY <1>8, AdmittedKept DEF TakeRecovered
<1> QED
  BY <1>2, <1>3, <1>4, <1>5, <1>6, <1>7, <1>8

\* The guards of the HTTP control and of the button.
LEMMA AdmittedControl ==
  ASSUME TypeOK, Admitted,
         \/ HttpOn \/ HttpOff
         \/ LongPress \/ ClearFault \/ RecoveryRefused \/ RecoveryStarts
         \/ RecloseDecision \/ Reclose
         \/ ApplyCurrentLimit \/ ApplyUpdate \/ UpdateRefused
  PROVE  Admitted'
<1>1. "http" \in Task /\ "button" \in Task /\ (relay => systemReady)
  BY DEF Driver, Task, Admitted
<1>2. CASE HttpOn
  BY <1>1, <1>2, AdmittedGoto DEF HttpOn, InterlocksReady
<1>3. CASE HttpOff
  BY <1>1, <1>3, AdmittedGoto DEF HttpOff
<1>4. CASE LongPress
  <2>1. PICK l : /\ Goto("button", l)
                 /\ l \in {"powerOn", "recover"} => systemReady
                 /\ l \in {"exitDiag", "powerOn", "shutdown", "recover", "idle"}
    BY <1>4 DEF LongPress
  <2>2. UNCHANGED <<boot, after, relay>>
    BY <1>4 DEF LongPress
  <2> QED
    BY <1>1, <2>1, <2>2, AdmittedGoto
<1>5. CASE ClearFault
  <2>1. systemReady
    BY <1>5 DEF ClearFault, At, Admitted
  <2> QED
    BY <1>1, <1>5, <2>1, AdmittedGoto DEF ClearFault
<1>6. CASE RecoveryRefused
  BY <1>1, <1>6, AdmittedGoto DEF RecoveryRefused
<1>7. CASE RecoveryStarts
  <2>1. systemReady /\ UNCHANGED <<boot, relay>> /\ pc' \in [Task -> {pc[t] : t \in Task} \cup {"powerOn"}]
    BY <1>7 DEF RecoveryStarts, At, Admitted, Goto, TypeOK
  <2> QED
    BY <2>1 DEF Admitted
<1>8. CASE RecloseDecision
  <2>1. systemReady
    BY <1>8 DEF RecloseDecision, At, Admitted
  <2> QED
    BY <1>1, <1>8, <2>1, AdmittedGoto DEF RecloseDecision
<1>9. CASE Reclose
  <2>1. systemReady
    BY <1>9 DEF Reclose, At, Admitted
  <2> QED
    BY <1>1, <1>9, <2>1, AdmittedGoto DEF Reclose
<1>10. CASE ApplyCurrentLimit
  BY <1>10, AdmittedKept DEF ApplyCurrentLimit
<1>11. CASE ApplyUpdate
  <2>1. PICK l \in {"shutdown", "restart"} : Goto("button", l)
    BY <1>11 DEF ApplyUpdate
  <2>2. after' = "reclose" => after = "reclose"
    BY <1>11 DEF ApplyUpdate
  <2>3. \A u \in Task : pc'[u] = IF u = "button" THEN l ELSE pc[u]
    BY <2>1 DEF Goto, TypeOK
  <2>4. UNCHANGED <<boot, relay>> /\ Driver \subseteq Task
    BY <1>11 DEF ApplyUpdate, Driver, Task
  <2> QED
    BY <1>1, <2>2, <2>3, <2>4 DEF Admitted
<1>12. CASE UpdateRefused
  BY <1>1, <1>12, AdmittedGoto DEF UpdateRefused
<1> QED
  BY <1>2, <1>3, <1>4, <1>5, <1>6, <1>7, <1>8, <1>9, <1>10, <1>11, <1>12

\* No screen leads to the relay.
LEMMA AdmittedMenu ==
  ASSUME TypeOK, Admitted,
         \/ Screen \/ DoubleClick \/ OpenMenu \/ OpenSubmenu \/ EnterDetail
         \/ BackToParent \/ MenuTimeout
  PROVE  Admitted'
<1>1. "button" \in Task /\ (relay => systemReady)
  BY DEF Driver, Task, Admitted
<1>2. CASE Click
  <2>1. UNCHANGED pc \/ Goto("button", "exitDiag")
    BY <1>2 DEF Click
  <2>2. UNCHANGED <<boot, after, relay>>
    BY <1>2 DEF Click
  <2> QED
    BY <1>1, <2>1, <2>2, AdmittedGoto, AdmittedKept
<1>3. CASE DoubleClick
  <2>1. UNCHANGED pc \/ Goto("button", "exitDiag")
    BY <1>3 DEF DoubleClick
  <2>2. UNCHANGED <<boot, after, relay>>
    BY <1>3 DEF DoubleClick
  <2> QED
    BY <1>1, <2>1, <2>2, AdmittedGoto, AdmittedKept
<1>4. CASE ExitDiagnostic
  BY <1>1, <1>4, AdmittedGoto DEF ExitDiagnostic
<1>5. CASE UNCHANGED <<output, boot, pc, after>>
  BY <1>5, AdmittedKept
<1>6. ExitDetail \/ BackFromDetail \/ BackFallback \/ OpenMenu \/ OpenSubmenu
        \/ EnterDetail \/ BackToParent \/ MenuTimeout
      => UNCHANGED <<output, boot, pc, after>>
  BY DEF ExitDetail, BackFromDetail, BackFallback, OpenMenu, OpenSubmenu,
         EnterDetail, BackToParent, MenuTimeout
<1> QED
  BY <1>2, <1>3, <1>4, <1>5, <1>6 DEF Screen

\* After a restart nobody is on the way.
LEMMA AdmittedReboot ==
  ASSUME Reboot
  PROVE  Admitted'
BY DEF Reboot, Admitted, Driver, Task

\* Whatever button presses, requests, losses of telemetry and relay failures
\* interleave to, the relay is closed only by an inverter whose self-test
\* passed and whose start-up ended with system_ready.
THEOREM InterlockHolds == Spec => []EnergisedOnlyIfReady
<1>1. Init => Admitted
  BY DEF Init, Admitted, Driver, Task
<1>2. TypeOK /\ Admitted /\ [Next]_vars => Admitted'
  <2> SUFFICES ASSUME TypeOK, Admitted, [Next]_vars PROVE Admitted'
    OBVIOUS
  <2>1. CASE Step
    BY <2>1, AdmittedDrive, AdmittedSensing, AdmittedControl, AdmittedMenu DEF Step
  <2>2. CASE \E g \in Guardian : Disable(g)
    BY <2>2, AdmittedSensing
  <2>3. CASE Screen
    BY <2>3, AdmittedMenu
  <2>4. CASE Reboot
    BY <2>4, AdmittedReboot
  <2>5. CASE UNCHANGED vars
    BY <2>5, AdmittedKept DEF vars
  <2> QED
    BY <2>1, <2>2, <2>3, <2>4, <2>5 DEF Next, OpenFails, RestartIntoUpdate
<1>3. Admitted => EnergisedOnlyIfReady
  BY DEF Admitted, EnergisedOnlyIfReady
<1> QED
  BY <1>1, <1>2, <1>3, PowerTypeCorrect, PTL DEF Spec

-----------------------------------------------------------------------------
(* The relay and the published state *)

\* A step without a cause follows states without one, and leaves no overlap.
LEMMA NoCause ==
  ASSUME NEW c, Note(c), causes' = {}
  PROVE  causes = {} /\ c = {} /\ ~Overlap'
BY DEF Note

\* Who is where after one task moved on.
LEMMA Moved ==
  ASSUME TypeOK, NEW t \in Task, NEW l, Goto(t, l)
  PROVE  \A u \in Task : pc'[u] = IF u = t THEN l ELSE pc[u]
BY DEF Goto, TypeOK

LEMMA MovedFinish ==
  ASSUME TypeOK, NEW t \in Driver, Finish(t)
  PROVE  /\ \A u \in Task \ {t} : pc'[u] = pc[u]
         /\ pc'[t] \in {"idle", "reclose", "restart"}
<1>1. t \in Task
  BY DEF Task, Driver
<1> QED
  BY <1>1 DEF Finish, Goto, TypeOK

\* A task that is about to close the relay, or has, is alone.
LEMMA Alone ==
  ASSUME ~Overlap, NEW t \in Driver, Energising(t)
  PROVE  /\ \A u \in Driver \ {t} : pc[u] = "idle"
         /\ \A g \in Guardian : pc[g] # "publishFault"
BY DEF Overlap, Disabling, At

\* power_on and shutdown_inverter, by either driver.
LEMMA InStepDrive ==
  ASSUME TypeOK, InStep, ~Overlap', NEW t \in Driver, Drive(t)
  PROVE  InStep'
<1>1. t \in Task /\ Driver = {"button", "http"} /\ Guardian = {"adc", "enforcer"}
      /\ Task = {"button", "http", "adc", "enforcer"}
  BY DEF Driver, Guardian, Task
<1>2. CASE RefuseStart(t)
  <2>1. /\ \A u \in Task \ {t} : pc'[u] = pc[u]
        /\ pc'[t] \in {"idle", "reclose", "restart"}
    BY <1>2, MovedFinish DEF RefuseStart
  <2>2. state' = "FAULT" /\ ~active' /\ relay' = relay /\ pc[t] = "powerOn"
    BY <1>2 DEF RefuseStart, FailStart, At
  <2>3. \A u \in Driver : pc[u] \notin {"energise", "publishOn", "closing"}
    BY <1>1, <2>2, Alone DEF InStep, Energising
  <2>4. ~relay
    BY <2>2, <2>3 DEF InStep, At
  <2> QED
    BY <1>1, <2>1, <2>2, <2>3, <2>4 DEF InStep, At, Disabling
<1>3. CASE Arm(t)
  <2>1. \A u \in Task : pc'[u] = IF u = t THEN "energise" ELSE pc[u]
    BY <1>1, <1>3, Moved DEF Arm
  <2>2. state' = "STARTING" /\ ~active' /\ relay' = relay /\ pc[t] = "powerOn"
    BY <1>3 DEF Arm, At
  <2>3. ~relay
    <3>1. \A u \in Driver : pc[u] # "publishOn"
      BY <2>2, Alone DEF InStep, Energising
    <3> QED
      BY <2>2, <3>1 DEF InStep, At
  <2>4. /\ \A u \in Driver \ {t} : pc'[u] = "idle"
        /\ \A g \in Guardian : pc'[g] # "publishFault"
    BY <1>1, <2>1 DEF Overlap, Energising, Disabling, At
  <2> QED
    BY <1>1, <2>1, <2>2, <2>3, <2>4 DEF InStep, At, Disabling
<1>4. CASE Energise(t)
  <2>1. \A u \in Task : pc'[u] = IF u = t THEN "publishOn" ELSE pc[u]
    BY <1>1, <1>4, Moved DEF Energise
  <2>2. relay' /\ UNCHANGED <<state, active, outputEnabled>> /\ pc[t] = "energise"
    BY <1>4 DEF Energise, At
  <2>3. /\ \A u \in Driver \ {t} : pc[u] = "idle"
        /\ \A g \in Guardian : pc[g] # "publishFault"
    BY <2>2, Alone DEF InStep, Energising
  <2> QED
    BY <1>1, <2>1, <2>2, <2>3 DEF InStep, At, Disabling
<1>5. CASE EnergiseFails(t)
  <2>1. /\ \A u \in Task \ {t} : pc'[u] = pc[u]
        /\ pc'[t] \in {"idle", "reclose", "restart"}
    BY <1>5, MovedFinish DEF EnergiseFails
  <2>2. state' = "FAULT" /\ ~active' /\ relay' = relay /\ pc[t] = "energise"
    BY <1>5 DEF EnergiseFails, At
  <2>3. /\ \A u \in Driver \ {t} : pc[u] = "idle"
        /\ \A g \in Guardian : pc[g] # "publishFault"
    BY <2>2, Alone DEF InStep, Energising
  <2> QED
    BY <1>1, <2>1, <2>2, <2>3 DEF InStep, At, Disabling
<1>6. CASE PublishOn(t)
  <2>1. /\ \A u \in Task \ {t} : pc'[u] = pc[u]
        /\ pc'[t] \in {"idle", "reclose", "restart"}
    BY <1>6, MovedFinish DEF PublishOn
  <2>2. /\ state' = "ON" /\ active' /\ outputEnabled' /\ relay' = relay
        /\ pc[t] = "publishOn"
    BY <1>6 DEF PublishOn, At
  <2>3. /\ \A u \in Driver \ {t} : pc[u] = "idle"
        /\ \A g \in Guardian : pc[g] # "publishFault"
    BY <2>2, Alone DEF InStep, Energising
  <2> QED
    BY <1>1, <2>1, <2>2, <2>3 DEF InStep, At, Disabling
<1>7. CASE StopIgnored(t)
  <2>1. /\ \A u \in Task \ {t} : pc'[u] = pc[u]
        /\ pc'[t] \in {"idle", "reclose", "restart"} /\ pc[t] = "shutdown"
    BY <1>7, MovedFinish DEF StopIgnored, At
  <2>2. UNCHANGED <<state, active, outputEnabled, relay>>
    BY <1>7 DEF StopIgnored
  <2> QED
    BY <1>1, <2>1, <2>2 DEF InStep, At, Disabling
<1>8. CASE StopBegins(t)
  <2>1. /\ \A u \in Task : pc'[u] = IF u = t THEN "open" ELSE pc[u]
        /\ pc[t] = "shutdown"
    BY <1>1, <1>8, Moved DEF StopBegins, At
  <2>2. UNCHANGED <<state, active, outputEnabled, relay>>
    BY <1>8 DEF StopBegins
  <2> QED
    BY <1>1, <2>1, <2>2 DEF InStep, At, Disabling
<1>9. CASE OpenRelay(t)
  <2>1. /\ \A u \in Task : pc'[u] = IF u = t THEN "publishOff" ELSE pc[u]
        /\ pc[t] = "open"
    BY <1>1, <1>9, Moved DEF OpenRelay, At
  <2>2. ~relay' /\ UNCHANGED <<state, active, outputEnabled>>
    BY <1>9 DEF OpenRelay
  <2>3. \A u \in Driver : pc[u] # "publishOn"
    BY <1>1, <2>1 DEF InStep, Overlap, Energising, At
  <2> QED
    BY <1>1, <2>1, <2>2, <2>3 DEF InStep, At, Disabling
<1>10. CASE PublishOff(t)
  <2>1. /\ \A u \in Task \ {t} : pc'[u] = pc[u]
        /\ pc'[t] \in {"idle", "reclose", "restart"}
    BY <1>10, MovedFinish DEF PublishOff
  <2>2. state' = "OFF" /\ ~active' /\ relay' = relay /\ pc[t] = "publishOff"
    BY <1>10 DEF PublishOff, At
  <2>3. \A u \in Driver : pc[u] \notin {"energise", "publishOn", "closing"}
    BY <1>1, <2>2 DEF InStep, Overlap, Energising, At
  <2> QED
    BY <1>1, <2>1, <2>2, <2>3 DEF InStep, At, Disabling
<1> QED
  BY <1>2, <1>3, <1>4, <1>5, <1>6, <1>7, <1>8, <1>9, <1>10 DEF Drive

\* A step that moves neither the relay nor the published state, and sends no
\* task where it would be about to move them.
LEMMA InStepElsewhere ==
  ASSUME TypeOK, InStep, ~Overlap', UNCHANGED <<state, active, outputEnabled, relay>>,
         NEW t \in Task, NEW l, \A u \in Task : pc'[u] = IF u = t THEN l ELSE pc[u],
         pc[t] \notin {"publishOn", "publishOff", "publishFault"},
         l \notin {"energise", "publishOn", "publishOff", "publishFault"},
         l \in {"powerOn", "recover", "recheck"} => state # "ON",
         l = "closing" => state = "ON"
  PROVE  InStep'
<1>1. Driver = {"button", "http"} /\ Guardian = {"adc", "enforcer"}
      /\ Task = {"button", "http", "adc", "enforcer"}
  BY DEF Driver, Guardian, Task
<1> QED
  BY <1>1 DEF InStep, At, Disabling

\* A step that moves no task and not the relay: the output is not running before
\* or after it.
LEMMA InStepStill ==
  ASSUME InStep, ~Overlap', UNCHANGED <<active, outputEnabled, relay, pc>>,
         state' = state \/ (state' # "ON" /\ state \notin {"ON", "STARTING"})
  PROVE  InStep'
BY DEF InStep, At, Disabling, Driver

\* The ADC cycle and the enforcer.
LEMMA InStepSensing ==
  ASSUME TypeOK, InStep, ~Overlap',
         \/ \E g \in Guardian : PublishFault(g) \/ (Disable(g) /\ ~relay')
         \/ SampleReady \/ SampleLost \/ PublishSample
         \/ TakeShutdown \/ TakeRecovered
  PROVE  InStep'
<1>1. Driver = {"button", "http"} /\ Guardian = {"adc", "enforcer"}
      /\ Task = {"button", "http", "adc", "enforcer"}
  BY DEF Driver, Guardian, Task
<1>2. ASSUME NEW g \in Guardian, PublishFault(g) PROVE InStep'
  <2>1. /\ \A u \in Task \ {g} : pc'[u] = pc[u]
        /\ pc'[g] \in {"publishSample", "idle"} /\ pc[g] = "publishFault"
    BY <1>1, <1>2 DEF PublishFault, Goto, At, TypeOK
  <2>2. state' = "FAULT" /\ ~active' /\ relay' = relay
    BY <1>2 DEF PublishFault
  <2>3. ~relay /\ \A u \in Driver : pc[u] \notin {"energise", "publishOn", "closing"}
    BY <1>1, <2>1 DEF InStep, Disabling, Overlap, Energising, At
  <2> QED
    BY <1>1, <2>1, <2>2, <2>3 DEF InStep, At, Disabling
<1>3. ASSUME NEW g \in Guardian, Disable(g), ~relay' PROVE InStep'
  <2>1. /\ \A u \in Task : pc'[u] = IF u = g THEN "publishFault" ELSE pc[u]
        /\ pc[g] = "disable" /\ UNCHANGED <<state, active, outputEnabled>>
    BY <1>1, <1>3, Moved DEF Disable, At
  <2>2. \A u \in Driver : pc[u] \notin {"energise", "publishOn", "closing"}
    BY <1>1, <2>1 DEF Overlap, Disabling, Energising, At
  <2> QED
    BY <1>1, <1>3, <2>1, <2>2 DEF InStep, At, Disabling
<1>4. CASE SampleReady
  BY <1>1, <1>4, Moved, InStepElsewhere DEF SampleReady, At
<1>5. CASE SampleLost
  BY <1>1, <1>5, Moved, InStepElsewhere DEF SampleLost, At
<1>6. CASE PublishSample
  BY <1>1, <1>6, Moved, InStepElsewhere DEF PublishSample, At
<1>7. CASE TakeShutdown
  BY <1>1, <1>7, Moved, InStepElsewhere DEF TakeShutdown, At
<1>8. CASE TakeRecovered
  BY <1>8, InStepStill DEF TakeRecovered
<1> QED
  BY <1>2, <1>3, <1>4, <1>5, <1>6, <1>7, <1>8

\* The HTTP control, and the button's start, stop and recovery.
LEMMA InStepControl ==
  ASSUME TypeOK, InStep, ~Overlap',
         \/ HttpOn \/ HttpOff
         \/ LongPress \/ ClearFault \/ RecoveryRefused \/ RecoveryStarts
         \/ RecloseDecision \/ Reclose
         \/ ApplyCurrentLimit \/ ApplyUpdate \/ UpdateRefused
  PROVE  InStep'
<1>1. Driver = {"button", "http"} /\ Guardian = {"adc", "enforcer"}
      /\ Task = {"button", "http", "adc", "enforcer"}
  BY DEF Driver, Guardian, Task
<1>2. CASE HttpOn
  BY <1>1, <1>2, Moved, InStepElsewhere DEF HttpOn, At
<1>3. CASE HttpOff
  BY <1>1, <1>3, Moved, InStepElsewhere DEF HttpOff, At
<1>4. CASE LongPress
  <2>1. PICK l : /\ Goto("button", l)
                 /\ l \in {"powerOn", "recover"} => state # "ON"
                 /\ l \in {"exitDiag", "powerOn", "shutdown", "recover", "idle"}
    BY <1>4 DEF LongPress
  <2>2. UNCHANGED <<state, output>> /\ pc["button"] = "idle"
    BY <1>4 DEF LongPress, Idle, At
  <2> QED
    BY <1>1, <2>1, <2>2, Moved, InStepElsewhere
<1>5. CASE ClearFault
  <2>1. /\ \A u \in Task : pc'[u] = IF u = "button" THEN "recheck" ELSE pc[u]
        /\ pc["button"] = "recover" /\ state' = "OFF" /\ UNCHANGED output
    BY <1>1, <1>5, Moved DEF ClearFault, At
  <2>2. state # "ON" /\ \A u \in Driver : pc[u] \notin {"energise", "publishOn", "closing"}
    BY <1>1, <2>1, Alone DEF InStep, Energising
  <2> QED
    BY <1>1, <2>1, <2>2 DEF InStep, At, Disabling
<1>6. CASE RecoveryRefused
  <2>1. /\ \A u \in Task : pc'[u] = IF u = "button" THEN "idle" ELSE pc[u]
        /\ pc["button"] = "recheck" /\ state' = "FAULT" /\ ~active' /\ relay' = relay
    BY <1>1, <1>6, Moved DEF RecoveryRefused, FailStart, At
  <2>2. state # "ON" /\ \A u \in Driver : pc[u] \notin {"energise", "publishOn", "closing"}
    BY <1>1, <2>1, Alone DEF InStep, Energising
  <2> QED
    BY <1>1, <2>1, <2>2 DEF InStep, At, Disabling
<1>7. CASE RecoveryStarts
  <2>1. pc["button"] = "recheck" /\ UNCHANGED <<state, output>>
    BY <1>7 DEF RecoveryStarts, At
  <2>2. state # "ON"
    BY <2>1 DEF InStep
  <2> QED
    BY <1>1, <1>7, <2>1, <2>2, Moved, InStepElsewhere DEF RecoveryStarts
<1>8. CASE RecloseDecision
  <2>1. PICK l \in {"closing", "idle"} : Goto("button", l) /\ (l = "closing" => state = "ON")
    BY <1>8 DEF RecloseDecision
  <2>2. UNCHANGED <<state, output>> /\ pc["button"] = "reclose"
    BY <1>8 DEF RecloseDecision, At
  <2> QED
    BY <1>1, <2>1, <2>2, Moved, InStepElsewhere
<1>9. CASE Reclose
  <2>1. /\ \A u \in Task : pc'[u] = IF u = "button" THEN "idle" ELSE pc[u]
        /\ pc["button"] = "closing" /\ UNCHANGED <<state, active, outputEnabled>>
    BY <1>1, <1>9, Moved DEF Reclose, At
  <2>2. /\ \A u \in Driver \ {"button"} : pc[u] = "idle"
        /\ \A g \in Guardian : pc[g] # "publishFault"
    BY <1>1, <2>1, Alone DEF InStep, Energising
  <2>3. relay
    BY <1>1, <2>1, <2>2 DEF InStep, At, Disabling
  <2>4. relay' = relay
    BY <1>9, <2>3, Zenon DEF Reclose, TypeOK
  <2> QED
    BY <1>1, <2>1, <2>2, <2>4 DEF InStep, At, Disabling
<1>10. CASE ApplyCurrentLimit
  BY <1>10, InStepStill DEF ApplyCurrentLimit
<1>11. CASE ApplyUpdate
  <2>1. PICK l \in {"shutdown", "restart"} : Goto("button", l)
    BY <1>11 DEF ApplyUpdate
  <2>2. UNCHANGED <<state, output>> /\ pc["button"] = "idle"
    BY <1>11 DEF ApplyUpdate, Idle, At
  <2> QED
    BY <1>1, <2>1, <2>2, Moved, InStepElsewhere
<1>12. CASE UpdateRefused
  BY <1>1, <1>12, Moved, InStepElsewhere DEF UpdateRefused, At
<1> QED
  BY <1>2, <1>3, <1>4, <1>5, <1>6, <1>7, <1>8, <1>9, <1>10, <1>11, <1>12

\* The screens, which put no older state back but that of before diagnostics.
LEMMA InStepMenu ==
  ASSUME TypeOK, InStep, ~Overlap', previousState \notin {"ON", "STARTING"},
         \/ Screen /\ (state' = state \/ (At("button", "exitDiag") /\ state = "DIAGNOSTIC"))
         \/ DoubleClick \/ OpenMenu \/ OpenSubmenu \/ EnterDetail
         \/ BackToParent \/ MenuTimeout
  PROVE  InStep'
<1>1. "button" \in Task
  BY DEF Driver, Task
<1>2. CASE Click /\ (state' = state \/ At("button", "exitDiag"))
  <2>1. pc["button"] = "idle" /\ UNCHANGED <<state, output>>
    BY <1>2 DEF Click, Idle, At
  <2>2. UNCHANGED pc \/ Goto("button", "exitDiag")
    BY <1>2 DEF Click
  <2> QED
    BY <1>1, <2>1, <2>2, Moved, InStepElsewhere, InStepStill
<1>3. CASE DoubleClick
  <2>1. pc["button"] = "idle" /\ UNCHANGED output /\ state \notin {"ON", "STARTING"}
    BY <1>3 DEF DoubleClick, Idle, At
  <2>2. \/ UNCHANGED state /\ Goto("button", "exitDiag")
        \/ state' = "DIAGNOSTIC" /\ UNCHANGED pc
    BY <1>3 DEF DoubleClick
  <2> QED
    BY <1>1, <2>1, <2>2, Moved, InStepElsewhere, InStepStill
<1>4. CASE ExitDiagnostic /\ (state' = state \/ state = "DIAGNOSTIC")
  <2>1. /\ \A u \in Task : pc'[u] = IF u = "button" THEN "idle" ELSE pc[u]
        /\ pc["button"] = "exitDiag" /\ UNCHANGED output
    BY <1>1, <1>4, Moved DEF ExitDiagnostic, At
  <2>2. CASE state' = state
    BY <1>1, <2>1, <2>2, InStepElsewhere
  <2>3. CASE state = "DIAGNOSTIC"
    <3>1. state' \notin {"ON", "STARTING"}
      BY <1>4 DEF ExitDiagnostic
    <3>2. /\ Driver = {"button", "http"} /\ Guardian = {"adc", "enforcer"}
          /\ Task = {"button", "http", "adc", "enforcer"}
      BY DEF Driver, Guardian, Task
    <3> QED
      BY <2>1, <2>3, <3>1, <3>2 DEF InStep, At, Disabling
  <2> QED
    BY <1>4, <2>2, <2>3
<1>5. CASE state' = state /\ UNCHANGED <<output, pc>>
  BY <1>5, InStepStill
<1>6. /\ OpenMenu \/ OpenSubmenu \/ EnterDetail \/ BackToParent \/ MenuTimeout
           => state' = state /\ UNCHANGED <<output, pc>>
      /\ ExitDetail \/ BackFromDetail \/ BackFallback
           => UNCHANGED <<output, pc>> /\ ~At("button", "exitDiag")
  BY DEF ExitDetail, BackFromDetail, BackFallback, OpenMenu, OpenSubmenu,
         EnterDetail, BackToParent, MenuTimeout, Idle, At
<1> QED
  BY <1>2, <1>3, <1>4, <1>5, <1>6 DEF Screen

\* Diagnostics are entered from no running output, so none comes back.
LEMMA NotRunningBefore ==
  ASSUME previousState \notin {"ON", "STARTING"}, [Next]_vars
  PROVE  previousState' \notin {"ON", "STARTING"}
<1>1. CASE DoubleClick
  BY <1>1 DEF DoubleClick
<1>2. CASE Reboot
  BY <1>2 DEF Reboot
<1>3. CASE UNCHANGED previousState
  BY <1>3
<1>4. ASSUME NEW t, Drive(t) PROVE UNCHANGED previousState
  BY <1>4 DEF Drive, RefuseStart, Arm, Energise, EnergiseFails, PublishOn,
              StopIgnored, StopBegins, OpenRelay, PublishOff
<1>5. ASSUME NEW g, Disable(g) \/ PublishFault(g) PROVE UNCHANGED previousState
  BY <1>5 DEF Disable, PublishFault
<1>6. SampleReady \/ SampleLost \/ PublishSample \/ TakeShutdown \/ TakeRecovered
        \/ HttpOn \/ HttpOff => UNCHANGED previousState
  BY DEF SampleReady, SampleLost, PublishSample, TakeShutdown, TakeRecovered,
         HttpOn, HttpOff
<1>7. LongPress => UNCHANGED previousState
  BY DEF LongPress
<1>8. ClearFault \/ RecoveryRefused \/ RecoveryStarts \/ RecloseDecision \/ Reclose
        \/ ApplyCurrentLimit \/ ApplyUpdate \/ UpdateRefused => UNCHANGED previousState
  BY DEF ClearFault, RecoveryRefused, RecoveryStarts, RecloseDecision, Reclose,
         ApplyCurrentLimit, ApplyUpdate, UpdateRefused
<1>9. Screen \/ OpenMenu \/ OpenSubmenu \/ EnterDetail \/ BackToParent \/ MenuTimeout
        => UNCHANGED previousState
  BY DEF Screen, Click, ExitDetail, BackFromDetail, BackFallback, ExitDiagnostic,
         OpenMenu, OpenSubmenu, EnterDetail, BackToParent, MenuTimeout
<1> QED
  BY <1>1, <1>2, <1>3, <1>4, <1>5, <1>6, <1>7, <1>8, <1>9
     DEF Next, Step, OpenFails, RestartIntoUpdate, vars

\* Every step keeps the relay explained.
LEMMA RelayStep ==
  ASSUME TypeOK, RelayExplained, [Next]_vars
  PROVE  RelayExplained'
<1>1. previousState' \notin {"ON", "STARTING"}
  BY NotRunningBefore DEF RelayExplained
<1>2. ASSUME causes' = {} PROVE InStep'
  <2>1. CASE Step /\ Note({})
    <3>1. InStep /\ ~Overlap' /\ previousState \notin {"ON", "STARTING"}
      BY <1>2, <2>1, NoCause DEF RelayExplained
    <3> QED
      BY <2>1, <3>1, InStepDrive, InStepSensing, InStepControl, InStepMenu DEF Step
  <2>2. ASSUME NEW g \in Guardian, Disable(g), Note(IF relay' THEN {"STUCK"} ELSE {})
        PROVE  InStep'
    <3>1. InStep /\ ~Overlap' /\ ~relay'
      BY <1>2, <2>2, NoCause DEF RelayExplained
    <3> QED
      BY <2>2, <3>1, InStepSensing
  <2>3. CASE /\ Screen
             /\ Note(IF state' = state
                       \/ (At("button", "exitDiag") /\ state = "DIAGNOSTIC")
                     THEN {} ELSE {"OVERWRITTEN"})
    <3>1. /\ InStep /\ ~Overlap' /\ previousState \notin {"ON", "STARTING"}
          /\ state' = state \/ (At("button", "exitDiag") /\ state = "DIAGNOSTIC")
      BY <1>2, <2>3, NoCause DEF RelayExplained
    <3> QED
      BY <2>3, <3>1, InStepMenu
  <2>4. CASE Reboot
    BY <2>4 DEF Reboot, InStep, Overlap, Energising, Disabling, At, Driver, Guardian, Task
  <2>5. CASE UNCHANGED vars
    BY <1>2, <2>5
       DEF vars, RelayExplained, InStep, Overlap, Energising, Disabling, At
  <2> QED
    BY <2>1, <2>2, <2>3, <2>4, <2>5 DEF Next, OpenFails, RestartIntoUpdate
<1> QED
  BY <1>1, <1>2 DEF RelayExplained

\* Whatever the tasks interleave to, when no operation is under way the relay, the
\* published state, active and output_enabled agree, unless two tasks were on one
\* operation, the relay did not open or a screen put an older state back.
THEOREM RelayAgrees == Spec => []RelayFollowsState
<1>1. Init => RelayExplained
  BY DEF Init, RelayExplained, InStep, Overlap, Energising, Disabling, At,
         Driver, Guardian, Task
<1>2. TypeOK /\ RelayExplained /\ [Next]_vars => RelayExplained'
  BY RelayStep
<1>3. RelayExplained => RelayFollowsState
  <2> SUFFICES ASSUME InStep, Quiet
               PROVE  /\ relay <=> state = "ON"
                      /\ active <=> relay
                      /\ relay => outputEnabled
    BY DEF RelayExplained, RelayFollowsState
  <2>1. /\ ~\E t \in Driver : At(t, "publishOn") \/ At(t, "publishOff")
        /\ ~Disabling
    BY DEF Quiet, Disabling, At, Driver, Guardian
  <2> QED
    BY <2>1 DEF InStep
<1> QED
  BY <1>1, <1>2, <1>3, PowerTypeCorrect, PTL DEF Spec
=============================================================================
