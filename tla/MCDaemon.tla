------------------------------ MODULE MCDaemon ------------------------------
(* Small instances of Daemon for TLC. *)
EXTENDS Daemon, TLC

Symmetry == Permutations(Pids) \cup Permutations(Operators)
=============================================================================
