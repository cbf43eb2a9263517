-------------------------- MODULE MCProcessManager --------------------------
EXTENDS ProcessManager
=============================================================================
