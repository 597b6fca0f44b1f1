----------------------------- MODULE MCStartup ------------------------------
EXTENDS Startup
CONSTANTS dispatcher, protection
MCRequired == {dispatcher, protection}
MCBoth == BOOLEAN
=============================================================================
