---------------------------- MODULE MCOpenMiner ----------------------------
EXTENDS OpenMiner
=============================================================================
