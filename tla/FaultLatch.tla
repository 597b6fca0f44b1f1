----------------------------- MODULE FaultLatch -----------------------------
(***************************************************************************)
(* What the protection of one set of quantities promises, whatever the     *)
(* stages below FAULT do: a latch per quantity that closes on every sample *)
(* that trips and opens only on a sample that is out of the tripping zone  *)
(* and out of the hysteresis band.  In between the latch keeps its state.  *)
(***************************************************************************)
CONSTANTS
  Quantity,          \* the protected quantities
  Sample(_),         \* the samples of a quantity
  Limits,            \* the settings a quantity may have
  Trips(_, _),       \* Trips(limits, sample): the sample must close the latch
  Clears(_, _)       \* Clears(limits, sample): the sample may open it

VARIABLES limits, reading, latched
vars == <<limits, reading, latched>>

Init == latched = {}

Take(q) ==
  \E v \in Sample(q) :
    /\ reading' = [reading EXCEPT ![q] = v]
    /\ latched' = IF Trips(limits[q], v) THEN latched \cup {q}
                  ELSE IF Clears(limits[q], v) THEN latched \ {q}
                  ELSE latched
    /\ UNCHANGED limits

Retune(q) ==
  /\ \E l \in Limits : limits' = [limits EXCEPT ![q] = l]
  /\ UNCHANGED <<reading, latched>>

Next == \E q \in Quantity : Take(q) \/ Retune(q)

Spec == Init /\ [][Next]_vars
=============================================================================
