-------------------------- MODULE MCBasicScheduler --------------------------
EXTENDS BasicScheduler, MCPrograms
=============================================================================
