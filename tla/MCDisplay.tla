------------------------------ MODULE MCDisplay ------------------------------
EXTENDS Display
=============================================================================
