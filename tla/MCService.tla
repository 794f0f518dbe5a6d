------------------------------ MODULE MCService ------------------------------
(* Small instances of Service for TLC. *)
EXTENDS Service, TLC

\* The caller a may do everything but encrypt.
PermittedMost == {"a"} \X (AllOps \ {"encrypt"})

Symmetry == Permutations(Tasks)
==============================================================================
