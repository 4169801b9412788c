--------------------------- MODULE MCSubprocesses ---------------------------
EXTENDS Subprocesses, TLC
=============================================================================
