-------------------------- MODULE MCNetworkServices --------------------------
EXTENDS NetworkServices
=============================================================================
