-------------------------- MODULE MCReactScheduler --------------------------
EXTENDS ReactEventLoopScheduler, MCPrograms
=============================================================================
