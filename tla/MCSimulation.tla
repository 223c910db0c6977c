---------------------------- MODULE MCSimulation ----------------------------
EXTENDS Simulation
=============================================================================
