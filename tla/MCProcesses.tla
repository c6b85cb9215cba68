---------------------------- MODULE MCProcesses ----------------------------
(* An instance of Usage, and of Processes in it: the pids but init's may be  *)
(* exchanged, and the counters.                                            *)
EXTENDS Usage, TLC

Renumbering == Permutations(Task \ {InitPid}) \cup Permutations(Field)

=============================================================================
