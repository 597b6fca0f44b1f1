-------------------------- MODULE MCFirmwareUpdate --------------------------
(* Three releases: the installed one, the one staged and one that overtakes it. *)
EXTENDS FirmwareUpdate
=============================================================================
