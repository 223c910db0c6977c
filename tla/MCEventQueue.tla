---------------------------- MODULE MCEventQueue ----------------------------
EXTENDS EventQueue, TLC
EventSymmetry == Permutations(Events)
=============================================================================
