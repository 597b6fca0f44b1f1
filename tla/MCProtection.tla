---------------------------- MODULE MCProtection ----------------------------
EXTENDS Protection

CONSTANT NaN   \* model value

\* Limits drawn so that every band holds one reading: low side fault 2,
\* derate 4, warning 5, band 1; high side warning 8, derate 9, fault 11.
TwoSided ==
  [limit |-> [b \in Bound |->
     CASE b = "fault_low" -> 2 [] b = "derate_low" -> 4
       [] b = "warning_low" -> 5 [] b = "warning_high" -> 8
       [] b = "derate_high" -> 9 [] b = "fault_high" -> 11
       [] OTHER -> 1],
   has_low_bound |-> TRUE]
OneSided ==
  [limit |-> [b \in Bound |->
     CASE b = "warning_high" -> 8 [] b = "derate_high" -> 9
       [] b = "fault_high" -> 11 [] b = "hysteresis_high" -> 1 [] OTHER -> 0],
   has_low_bound |-> FALSE]

\* Not nested: rejected by thresholds_valid.
Inverted ==
  [TwoSided EXCEPT !.limit["warning_low"] = 3, !.limit["derate_high"] = 7]
\* A lower system voltage: every high limit one down.
Retuned ==
  [TwoSided EXCEPT !.limit["warning_high"] = 7, !.limit["derate_high"] = 8,
                   !.limit["fault_high"] = 10]

MCQuantity == {"BATTERY_VOLTAGE", "OUTPUT_CURRENT"}
MCBattery == {"BATTERY_VOLTAGE"}
MCOrder == <<"BATTERY_VOLTAGE", "OUTPUT_CURRENT">>
MCBatteryOrder == <<"BATTERY_VOLTAGE">>
MCLimits(q) == IF q = "BATTERY_VOLTAGE" THEN TwoSided ELSE OneSided
MCDefault == [q \in MCQuantity |-> MCLimits(q)]
MCBatteryDefault == [q \in MCBattery |-> TwoSided]
MCReading ==
  [q \in MCQuantity |->
     IF q = "BATTERY_VOLTAGE" THEN {2, 3, 4, 5, 6, 8, 9, 10, 11} ELSE {6, 11}]
MCBatteryReading == [q \in MCBattery |-> {2, 6}]
MCChoice == {Inverted, Retuned}
MCNoChoice == {}
=============================================================================
