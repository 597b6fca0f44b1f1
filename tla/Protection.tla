----------------------------- MODULE Protection -----------------------------
(***************************************************************************)
(* The graduated protection state machine (src/security/protection.c) as   *)
(* the ADC task drives it from check_protections (src/app_runtime.c): each *)
(* monitored quantity moves between NORMAL, WARNING, DERATED and FAULT,    *)
(* and every change of stage posts one event to the central queue, which   *)
(* other producers share and which drops what it cannot hold.              *)
(*                                                                         *)
(* Readings and thresholds are integers; NonFinite stands for a NaN or an  *)
(* infinity.  The four updates of one pass are separate steps, because the *)
(* dispatcher and the settings task run between them.                      *)
(***************************************************************************)
EXTENDS SystemEvents, ErrorFlags, Integers, FiniteSets

ProtectionQuantity ==            \* protection_quantity_t
  {"AC_VOLTAGE", "OUTPUT_CURRENT", "TEMPERATURE", "BATTERY_VOLTAGE"}

CONSTANTS
  Quantity,        \* the quantities of this instance
  PassOrder,       \* the order check_protections updates them in
  Reading,         \* the finite readings of each quantity
  NonFinite,       \* a reading that is not a finite number
  DefaultLimits,   \* load_defaults: the thresholds of each quantity
  ThresholdChoice, \* thresholds a settings change may submit, valid or not
  Cutoff,          \* battery_profile.cutoff_voltage_v
  MaxFaultCount    \* bound on the lifetime fault counters

Bound == {"warning_high", "derate_high", "fault_high", "hysteresis_high",
          "warning_low", "derate_low", "fault_low", "hysteresis_low"}

\* protection_thresholds_t: eight limits, and whether the low ones count.
Limits == [limit : [Bound -> Int], has_low_bound : BOOLEAN]

\* thresholds_valid: no negative limit, and the stages nested on each side.
ThresholdsValid(t) ==
  /\ \A b \in Bound : t.limit[b] >= 0
  /\ t.limit["warning_high"] <= t.limit["derate_high"]
  /\ t.limit["derate_high"] <= t.limit["fault_high"]
  /\ t.has_low_bound =>
       /\ t.limit["warning_low"] >= t.limit["derate_low"]
       /\ t.limit["derate_low"] >= t.limit["fault_low"]

ASSUME ProtectionAssumption ==
  /\ Quantity \subseteq ProtectionQuantity
  /\ PassOrder \in Seq(Quantity)
  /\ Reading \in [Quantity -> SUBSET Int]
  /\ NonFinite \notin Int
  /\ DefaultLimits \in [Quantity -> Limits]
  /\ \A q \in Quantity : ThresholdsValid(DefaultLimits[q])
  /\ ThresholdChoice \subseteq Limits
  /\ Cutoff \in Int
  /\ MaxFaultCount \in Nat

VARIABLES
  thresholds,      \* s_thresholds
  stage,           \* s_state[q].stage
  lastValue,       \* s_state[q].last_value
  faultCount,      \* s_state[q].transition_count
  errorFlags,      \* sys_state.error.error_flags, as a set of flags
  todo,            \* quantities the running pass has still to update
  shutdownFate     \* history: what became of the SHUTDOWN of this FAULT

stageVars == <<thresholds, stage, lastValue, faultCount, errorFlags,
               todo, shutdownFate>>
protectionVars == <<eventQueue, stageVars>>

Stage == {"NORMAL", "WARNING", "DERATED", "FAULT"}
Fate == {"NONE", "QUEUED", "DELIVERED", "LOST"}
Sample(q) == Reading[q] \cup {NonFinite}

ProtectionInit ==
  /\ SystemEventsInit
  /\ thresholds = DefaultLimits
  /\ stage = [q \in Quantity |-> "NORMAL"]
  /\ lastValue = [q \in Quantity |-> 0]
  /\ faultCount = [q \in Quantity |-> 0]
  /\ errorFlags = {}
  /\ todo = << >>
  /\ shutdownFate = [q \in Quantity |-> "NONE"]

-----------------------------------------------------------------------------
(* classify() *)

Beyond(t, v, high, low) ==
  \/ v >= t.limit[high]
  \/ t.has_low_bound /\ v <= t.limit[low]

RawStage(t, v) ==
  IF Beyond(t, v, "fault_high", "fault_low") THEN "FAULT"
  ELSE IF Beyond(t, v, "derate_high", "derate_low") THEN "DERATED"
  ELSE IF Beyond(t, v, "warning_high", "warning_low") THEN "WARNING"
  ELSE "NORMAL"

\* The reading has left the hysteresis band of FAULT on both sides.
Cleared(t, v) ==
  /\ v < t.limit["fault_high"] - t.limit["hysteresis_high"]
  /\ t.has_low_bound => v > t.limit["fault_low"] + t.limit["hysteresis_low"]

\* Mutant: no hysteresis.
Classify_NoHysteresis(t, prev, v) == RawStage(t, v)


Classify(t, prev, v) ==
  IF prev = "FAULT" /\ ~Cleared(t, v) THEN "FAULT" ELSE RawStage(t, v)

-----------------------------------------------------------------------------
(* protection_update() *)

ActionFor(s) ==
  CASE s = "FAULT"   -> "SHUTDOWN"
    [] s = "DERATED" -> "DERATE"
    [] s = "WARNING" -> "WARN"
    [] s = "NORMAL"  -> "RECOVERED"

FlagsOf(q) ==
  CASE q = "AC_VOLTAGE"      -> ERR_AC_FAULT
    [] q = "OUTPUT_CURRENT"  -> ERR_OVERLOAD
    [] q = "TEMPERATURE"     -> ERR_OVER_TEMP
    [] q = "BATTERY_VOLTAGE" -> ERR_LOW_BAT \cup ERR_HIGH_BAT

\* The flag a FAULT raises; for the battery, the one of the side it is on.
RaisedBy(q, v) ==
  IF q # "BATTERY_VOLTAGE" THEN FlagsOf(q)
  ELSE IF v < Cutoff THEN ERR_LOW_BAT ELSE ERR_HIGH_BAT

\* The error handlers, called on a change to stage s.
FlagsAfter(q, s, v) ==
  (errorFlags \ FlagsOf(q)) \cup (IF s = "FAULT" THEN RaisedBy(q, v) ELSE {})

\* Post the event of a change of stage and remember the fate of a SHUTDOWN.
Report(q, s) ==
  /\ Post(ProtectionEvent(q, ActionFor(s)))
  /\ shutdownFate' =
       [shutdownFate EXCEPT ![q] = IF s # "FAULT" THEN "NONE"
                                   ELSE IF QueueFull THEN "LOST" ELSE "QUEUED"]

\* Mutant: the forced FAULT is not reported.
UpdateNonFinite_Silent(q) ==
  /\ faultCount[q] < MaxFaultCount
  /\ stage' = [stage EXCEPT ![q] = "FAULT"]
  /\ lastValue' = [lastValue EXCEPT ![q] = NonFinite]
  /\ faultCount' = [faultCount EXCEPT ![q] = @ + 1]
  /\ errorFlags' = errorFlags \cup ERR_SYSTEM_FAILURE
  /\ UNCHANGED <<eventQueue, shutdownFate>>

\* A reading that is not a number: FAULT at once, counted on every sample.
UpdateNonFinite(q) ==
  /\ faultCount[q] < MaxFaultCount
  /\ stage' = [stage EXCEPT ![q] = "FAULT"]
  /\ lastValue' = [lastValue EXCEPT ![q] = NonFinite]
  /\ faultCount' = [faultCount EXCEPT ![q] = @ + 1]
  /\ errorFlags' = errorFlags \cup ERR_SYSTEM_FAILURE
  /\ IF stage[q] # "FAULT" THEN Report(q, "FAULT")
                           ELSE UNCHANGED <<eventQueue, shutdownFate>>

UpdateFinite(q, v) ==
  LET next == Classify(thresholds[q], stage[q], v)
  IN  /\ lastValue' = [lastValue EXCEPT ![q] = v]
      /\ stage' = [stage EXCEPT ![q] = next]
      /\ IF next = stage[q]
           THEN UNCHANGED <<eventQueue, faultCount, errorFlags, shutdownFate>>
           ELSE /\ next = "FAULT" => faultCount[q] < MaxFaultCount
                /\ faultCount' = IF next = "FAULT"
                                   THEN [faultCount EXCEPT ![q] = @ + 1]
                                   ELSE faultCount
                /\ errorFlags' = FlagsAfter(q, next, v)
                /\ Report(q, next)

ProtectionUpdate(q, v) ==
  IF v = NonFinite THEN UpdateNonFinite(q) ELSE UpdateFinite(q, v)
-----------------------------------------------------------------------------
(* check_protections(), run by the ADC task *)

\* The pass forgets every flag but the retained ones, and updates the
\* quantities only after startup and when the last cycle's data was valid.
BeginPass(gateOpen) ==
  /\ todo = << >>
  /\ errorFlags' = errorFlags \cap Retained
  /\ todo' = IF gateOpen THEN PassOrder ELSE << >>
  /\ UNCHANGED <<eventQueue, thresholds, stage, lastValue, faultCount,
                 shutdownFate>>

UpdateNext ==
  /\ todo # << >>
  /\ \E v \in Sample(Head(todo)) : ProtectionUpdate(Head(todo), v)
  /\ todo' = Tail(todo)
  /\ UNCHANGED thresholds

\* protection_set_thresholds from a settings change: all or nothing.
SetThresholds(q, t) ==
  /\ thresholds' = IF ThresholdsValid(t) THEN [thresholds EXCEPT ![q] = t]
                                         ELSE thresholds
  /\ UNCHANGED <<eventQueue, stage, lastValue, faultCount, errorFlags, todo,
                 shutdownFate>>

-----------------------------------------------------------------------------
(* The other users of the central queue *)

\* A button click or a system event; their content does not matter here.
PostOther ==
  /\ Post([category |-> "BUTTON", priority |-> "LOW"])
  /\ UNCHANGED stageVars

\* The dispatcher task takes the oldest event for distribution.
Dispatch ==
  /\ eventQueue # << >>
  /\ Receive(Head(eventQueue))
  /\ shutdownFate' =
       [q \in Quantity |->
          IF /\ Head(eventQueue) = ProtectionEvent(q, "SHUTDOWN")
             /\ shutdownFate[q] = "QUEUED"
            THEN "DELIVERED" ELSE shutdownFate[q]]
  /\ UNCHANGED <<thresholds, stage, lastValue, faultCount, errorFlags, todo>>

ProtectionNext ==
  \/ \E gateOpen \in BOOLEAN : BeginPass(gateOpen)
  \/ UpdateNext
  \/ \E q \in Quantity, t \in ThresholdChoice : SetThresholds(q, t)
  \/ PostOther
  \/ Dispatch

ProtectionSpec == ProtectionInit /\ [][ProtectionNext]_protectionVars

\* The ADC task and the dispatcher keep running; nobody has to press buttons.
FairProtection ==
  /\ ProtectionSpec
  /\ WF_protectionVars(UpdateNext)
  /\ WF_protectionVars(Dispatch)

-----------------------------------------------------------------------------
(* Properties *)

Event ==
  [category : {"PROTECTION"}, action : {"WARN", "DERATE", "SHUTDOWN", "RECOVERED"},
   quantity : Quantity, priority : {"LOW", "NORMAL", "CRITICAL"}]
  \cup {[category |-> "BUTTON", priority |-> "LOW"]}

ProtectionTypeOK ==
  /\ eventQueue \in Seq(Event)
  /\ Len(eventQueue) <= SystemEventQueueLength
  /\ thresholds \in [Quantity -> Limits]
  /\ stage \in [Quantity -> Stage]
  /\ DOMAIN lastValue = Quantity
  /\ faultCount \in [Quantity -> 0..MaxFaultCount]
  /\ errorFlags \subseteq Bit
  /\ todo \in Seq(Quantity)
  /\ shutdownFate \in [Quantity -> Fate]

\* Every FAULT in force is accounted for: its SHUTDOWN waits in the central
\* queue, has been taken by the dispatcher, or was dropped by a full queue.
ShutdownPending(q) ==
  \E i \in 1..Len(eventQueue) : eventQueue[i] = ProtectionEvent(q, "SHUTDOWN")

FaultAccountedFor ==
  \A q \in Quantity :
    /\ (stage[q] = "FAULT") <=> (shutdownFate[q] # "NONE")
    /\ shutdownFate[q] = "QUEUED" => ShutdownPending(q)

\* A SHUTDOWN that got into the queue reaches the dispatcher, or its FAULT
\* ends first; this is what keeps the enforcer's reaction finite.
QueuedShutdownDispatched ==
  \A q \in Quantity : shutdownFate[q] = "QUEUED" ~> shutdownFate[q] # "QUEUED"

\* The stage machine implements the latch: FAULT is left only by a sample
\* out of the hysteresis band, and no tripping sample is ever missed.
LatchTrips(t, v) ==
  v = NonFinite \/ Beyond(t, v, "fault_high", "fault_low")
LatchClears(t, v) == v # NonFinite /\ Cleared(t, v)
Latch == INSTANCE FaultLatch WITH
           Sample <- Sample, Trips <- LatchTrips, Clears <- LatchClears,
           limits <- thresholds, reading <- lastValue,
           Limits <- {t \in ThresholdChoice : ThresholdsValid(t)},
           latched <- {q \in Quantity : stage[q] = "FAULT"}
LatchSpec == Latch!Spec

=============================================================================
