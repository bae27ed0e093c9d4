---------------------------- MODULE MCSimulator ----------------------------
EXTENDS Simulator
=============================================================================
