-------------------------- MODULE MCFastbootFlash --------------------------
EXTENDS FastbootFlash
=============================================================================
