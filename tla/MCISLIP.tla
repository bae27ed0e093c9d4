------------------------------ MODULE MCISLIP ------------------------------
EXTENDS ISLIP
=============================================================================
