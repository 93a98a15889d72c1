--------------------------- MODULE MCAsyncTaskQueue ---------------------------
(* An instance of AsyncTaskQueue for TLC: a1 adds an async task, as the     *)
(* connection task of the event manager does, and d1 a deferred one.        *)
EXTENDS AsyncTaskQueue
CONSTANTS d1, d2, d3, a1, a2

MCAdder == [t \in {d1, d2, d3, a1, a2} |->
              CASE t = a2 -> a1 [] t = d3 -> d1 [] OTHER -> NoTask]
===============================================================================
