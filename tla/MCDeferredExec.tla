--------------------------- MODULE MCDeferredExec ---------------------------
EXTENDS DeferredExec
=============================================================================
