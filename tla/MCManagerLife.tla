---------------------------- MODULE MCManagerLife ----------------------------
EXTENDS ManagerLife
================================================================================
