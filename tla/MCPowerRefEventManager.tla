----------------------- MODULE MCPowerRefEventManager -----------------------
(* Instance of PowerRefEventManager for TLC: every state, of all machines.  *)
EXTENDS PowerRefEventManager
MCTriggers == [st : TcuStates, mach : {"ALL"}]
=============================================================================
