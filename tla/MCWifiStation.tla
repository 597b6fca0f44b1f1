--------------------------- MODULE MCWifiStation ----------------------------
(* Two events may wait, and two things are asked for: by the user, by a
   configuration that is written, or by the start at boot and the user.  That is
   enough to disconnect and reconnect, to switch off under a search, to turn the
   policy off and on again under a supervisor, and to write a configuration after
   a Disconnect. *)
EXTENDS WifiStation
=============================================================================
