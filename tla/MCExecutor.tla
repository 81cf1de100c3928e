----------------------------- MODULE MCExecutor -----------------------------
(* Instances of Executor for TLC.                                          *)
EXTENDS Executor, TLC

CONSTANTS pa, ta, tb, sa

MCFd == [s \in Selectables |-> 3]
\* The executable of pa goes into the first band, all others into the last.
MCPriority == [e \in Executables |-> IF e = pa THEN 0 ELSE 9]
MCPeriod == [t \in Timers |-> IF t = ta THEN 1 ELSE 2]
=============================================================================
