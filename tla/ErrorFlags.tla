----------------------------- MODULE ErrorFlags -----------------------------
(***************************************************************************)
(* sys_state.error.error_flags is a bit mask, but not every named error    *)
(* has a bit of its own: several names share bits (system_errors_t in      *)
(* include/system/system_state.h), and app_runtime.c adds a name that      *)
(* differs from the enumeration's.  A mask is the set of its bits, so that *)
(* |= is \cup, &= is \cap and &= ~ is set difference.                      *)
(***************************************************************************)
Bit == {"0x01", "0x02", "0x04", "0x08", "0x10", "0x20", "0x40", "0x80"}

ERR_OVER_TEMP        == {"0x01"}
ERR_OVERLOAD         == {"0x02"}
ERR_BATTERY_VOLTAGE  == {"0x01", "0x02"}
ERR_LOW_BAT          == {"0x04"}
ERR_AC_FAULT         == {"0x08"}
ERR_FAN_FAIL         == {"0x10"}
ERR_EEPROM           == {"0x20"}
ERR_HIGH_BAT         == {"0x40"}
ERR_SHORT_CIRCUIT    == {"0x80"}
ERR_SYSTEM_FAILURE   == {"0x80", "0x10"}
SYSTEM_FAILURE_ERROR == {"0x01", "0x04"}   \* app_runtime.c

\* The flags check_protections and the fault recovery leave alone.
Retained == ERR_EEPROM \cup ERR_FAN_FAIL
=============================================================================
