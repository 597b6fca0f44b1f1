--------------------------- MODULE MCPowerControl ---------------------------
EXTENDS PowerControl
MCLimits == {30}
=============================================================================
