------------------------- MODULE MCGraphOperations -------------------------
EXTENDS Epochs
=============================================================================
