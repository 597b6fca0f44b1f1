----------------------------- MODULE MCFaultLog -----------------------------
EXTENDS FaultLog

CONSTANTS adc, button, events   \* model values

MCReporter == {adc, button}
=============================================================================
