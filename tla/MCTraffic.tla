------------------------------ MODULE MCTraffic ------------------------------
EXTENDS Traffic
=============================================================================
