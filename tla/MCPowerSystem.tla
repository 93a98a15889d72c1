---------------------------- MODULE MCPowerSystem ----------------------------
(* Instance of PowerSystem for TLC: one slave, registered for all machines; *)
(* suspends and resumes of all machines.                                    *)
EXTENDS PowerSystem
CONSTANTS sl
MCMachine == [s \in Slaves |-> "ALL"]
MCTriggers == [st : {"SUSPEND", "RESUME"}, mach : {"ALL"}]
==============================================================================
