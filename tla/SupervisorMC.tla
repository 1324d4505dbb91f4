---------------------------- MODULE SupervisorMC ----------------------------
EXTENDS Supervisor

\* One run of the thread is active, the others were replaced by it.
MCRun    == {"now", "old"}
MCActive == {"now"}
MCOwner  == {"replica1", "replica2"}
=============================================================================
