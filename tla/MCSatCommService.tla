-------------------------- MODULE MCSatCommService --------------------------
(* Instances of SatCommService for TLC.                                     *)
EXTENDS SatCommService, TLC

CONSTANTS f1, f2

\* One frame that needs several chunks, and one that may fit in one.
MCSize == [f \in Frames |-> IF f = f1 THEN 3 ELSE 1]
=============================================================================
