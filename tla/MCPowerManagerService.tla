----------------------- MODULE MCPowerManagerService -----------------------
(* Instances of PowerManagerService for TLC: a slave for each machine.      *)
EXTENDS PowerManagerService
CONSTANTS loc, all
MCMachine == [s \in Slaves |-> IF s = loc THEN "LOCAL" ELSE "ALL"]
=============================================================================
