------------------------------ MODULE MCSched ------------------------------
(* Values for the scheduler's constants. *)
EXTENDS Sched

\* No signal, and a stop: enough to tell a signal word that was left as the
\* allocator handed it out from one that is clear.
GarbageSets == {{}, {SIGSTOP}}

\* Memory that happens to be clear.
ClearWords == {{}}
=============================================================================
