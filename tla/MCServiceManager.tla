-------------------------- MODULE MCServiceManager --------------------------
(* Model-checking instance of ServiceManager: clients and pids are model   *)
(* values given in the .cfg files.                                         *)
EXTENDS ServiceManager, TLC

\* Clients and pids are interchangeable; used only by runs without liveness.
Symmetry == Permutations(Clients) \cup Permutations(Pids)

=============================================================================
