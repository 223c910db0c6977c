------------------------------ MODULE MCWithhold ------------------------------
EXTENDS WithholdSimulation
=============================================================================
