------------------------------- MODULE MCPanel -------------------------------
(* The panel, one tour per family of menus.                                   *)
EXTENDS Panel

MCTours ==
  {[menus |-> {"SETTINGS", "MONITORING"}, power |-> {"LONG"}, slow |-> "UP_DOWN", secured |-> FALSE,
    digits |-> 1, checks |-> FALSE, boot |-> {}, budget |-> 1],
   [menus |-> {"DIAGNOSTIC"}, power |-> {"LONG", "DOUBLE"}, slow |-> "POWER", secured |-> FALSE,
    digits |-> 1, checks |-> FALSE, boot |-> {}, budget |-> 1],
   [menus |-> {"SECURITY", "SYSTEM_INFO"}, power |-> {}, slow |-> "BACK", secured |-> TRUE,
    digits |-> 2, checks |-> FALSE, boot |-> {}, budget |-> 2],
   [menus |-> {"SECURITY"}, power |-> {}, slow |-> "ENTER", secured |-> FALSE,
    digits |-> 2, checks |-> FALSE, boot |-> {"DEFAULT_PIN"}, budget |-> 1],
   [menus |-> {"FACTORY_RESET"}, power |-> {}, slow |-> "ENTER", secured |-> TRUE,
    digits |-> 2, checks |-> FALSE, boot |-> {}, budget |-> 2],
   [menus |-> {}, power |-> {"TRIPLE", "LONG"}, slow |-> "NONE", secured |-> TRUE,
    digits |-> 1, checks |-> FALSE, boot |-> {}, budget |-> 0],
   [menus |-> {"WIFI_CONFIG"}, power |-> {}, slow |-> "NONE", secured |-> FALSE,
    digits |-> 1, checks |-> FALSE, boot |-> {"WIFI_ON"}, budget |-> 0],
   [menus |-> {"WIFI_CONFIG", "WIFI_SETTINGS"}, power |-> {}, slow |-> "NONE", secured |-> FALSE,
    digits |-> 1, checks |-> FALSE, boot |-> {"WIFI_ON", "LINKED"}, budget |-> 1],
   [menus |-> {"OTA"}, power |-> {}, slow |-> "NONE", secured |-> TRUE,
    digits |-> 1, checks |-> FALSE, boot |-> {"WIFI_ON", "LINKED"}, budget |-> 1],
   [menus |-> {"OTA"}, power |-> {}, slow |-> "NONE", secured |-> TRUE,
    digits |-> 1, checks |-> TRUE, boot |-> {"WIFI_ON", "LINKED"}, budget |-> 0],
   [menus |-> {"OTA"}, power |-> {}, slow |-> "NONE", secured |-> TRUE,
    digits |-> 1, checks |-> TRUE, boot |-> {}, budget |-> 0],
   [menus |-> {"OTA"}, power |-> {}, slow |-> "NONE", secured |-> FALSE,
    digits |-> 1, checks |-> TRUE, boot |-> {}, budget |-> 0],
   [menus |-> {"OTA"}, power |-> {"LONG"}, slow |-> "NONE", secured |-> FALSE,
    digits |-> 1, checks |-> TRUE, boot |-> {"STAGED", "WIFI_ON"}, budget |-> 0]}
MCModes == {"AP", "APSTA"}
=============================================================================
