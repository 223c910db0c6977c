--------------------------- MODULE MCBitcoinSetup ---------------------------
EXTENDS BitcoinSetup
=============================================================================
