---------------------------- MODULE UplinkChannel ----------------------------
(***************************************************************************)
(* What C_SatCommService promises its client about the uplink ("ACK-paced  *)
(* uplink: Only one in-flight PDU at a time; next chunk released on ACK"): *)
(* a channel that carries one chunk at a time, gives it back, and never    *)
(* goes back inside a frame.                                               *)
(***************************************************************************)
EXTENDS Integers, Sequences

CONSTANT Chunks            \* records with a frame f and a range lo .. hi - 1

VARIABLES busy,            \* a chunk is on its way, its ACK not yet handled
          log              \* the chunks carried so far

Init == busy = FALSE /\ log = <<>>

Transmit(c) ==
    /\ ~busy
    /\ c.lo < c.hi
    /\ \A i \in 1 .. Len(log) : log[i].f = c.f => log[i].hi <= c.lo
    /\ busy' = TRUE
    /\ log' = Append(log, c)

Release ==
    /\ busy
    /\ busy' = FALSE
    /\ UNCHANGED log

Next == Release \/ \E c \in Chunks : Transmit(c)

\* What never happens, and that every chunk comes back.
SafeSpec == Init /\ [][Next]_<<busy, log>>
Spec     == SafeSpec /\ WF_<<busy, log>>(Release)
==============================================================================
