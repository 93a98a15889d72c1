------------------------- MODULE MCEcallStateMachine -------------------------
(* Instances of EcallStateMachine for TLC.                                    *)
EXTENDS EcallStateMachine

\* NG and CS, both modes, every failure by itself, one redial and the last.
MCConfigs ==
    [ng : BOOLEAN, alack : BOOLEAN, redial : {"SUCCESS", "CALLORIG", "CALLDROP"},
     failed : {{}, {"T5"}, {"T6"}, {"T7"}}, attempts : {2}, only : BOOLEAN]

\* Those with at most one of automatic cleardown, a redial and a failed timer.
MCSingle == {c \in MCConfigs : \/ ~c.alack /\ c.redial = "SUCCESS"
                               \/ ~c.alack /\ c.failed = {}
                               \/ c.redial = "SUCCESS" /\ c.failed = {}}

\* CS in the normal mode, and NG with automatic cleardown in the ECALL_ONLY mode.
MCPlain == {c \in MCConfigs : ~c.ng /\ ~c.alack /\ ~c.only /\ c.redial = "SUCCESS" /\ c.failed = {}}
MCTwo   == MCPlain \cup
           {c \in MCConfigs : c.ng /\ c.alack /\ c.only /\ c.redial = "SUCCESS" /\ c.failed = {}}

eCall(n)    == [number |-> n, custom |-> FALSE, ims |-> FALSE, msd |-> TRUE]
NoMsd(n)    == [number |-> n, custom |-> FALSE, ims |-> FALSE, msd |-> FALSE]
CustomCS(n) == [number |-> n, custom |-> TRUE, ims |-> FALSE, msd |-> TRUE]
CustomNoMsd(n) == [number |-> n, custom |-> TRUE, ims |-> FALSE, msd |-> FALSE]
CustomIMS(n) == [number |-> n, custom |-> TRUE, ims |-> TRUE, msd |-> TRUE]

\* Every kind of eCall, to one number.
MCOneNumber == {eCall(112), NoMsd(112), CustomCS(112), CustomNoMsd(112), CustomIMS(112)}

\* Two numbers; the machine is not asked about hangups of a call to the second.
MCRequests == MCOneNumber \cup {CustomIMS(999)}

\* One regulatory eCall.
MCDialing == {eCall(112)}

\* In every setting, eCalls to one number as long as requests come when the procedure
\* rests; in two settings, requests at any time to two numbers, without MSD updates.
Explored ==
    \/ ~disturbed /\ \A j \in DOMAIN asked : asked[j].number = 112
    \/ /\ k \in MCTwo /\ pulls = 0
       /\ \A j \in DOMAIN asked : asked[j].number = 999 \/ (~asked[j].custom /\ asked[j].msd)
==============================================================================
