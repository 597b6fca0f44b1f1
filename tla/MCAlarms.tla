------------------------------ MODULE MCAlarms ------------------------------
EXTENDS Alarms

MCQuantity == {"BATTERY_VOLTAGE"}

\* A warning, a fault, its recovery, the fault report of an emergency disable
\* and an ordinary one that also comes directly.
MCPosted ==
  {ProtectionEvent(q, a) : q \in MCQuantity, a \in {"WARN", "SHUTDOWN", "RECOVERED"}}
  \cup {Plain("SYSTEM", "ERROR", p) : p \in {"NORMAL", "CRITICAL"}}

MCWatched == {{"BUZZER"}, {"LED"}, {"ENFORCER"}}
MCLength == [s \in Subscriber |-> 2]
=============================================================================
