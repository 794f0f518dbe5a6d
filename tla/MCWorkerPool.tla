---------------------------- MODULE MCWorkerPool ----------------------------
(* Small instances of WorkerPool for TLC. *)
EXTENDS WorkerPool, TLC

MCObjects == {<<l, "Private">> : l \in Labels} \cup {<<l, "Public">> : l \in Labels}

\* A key whose data the token may refuse, and a key that the token lacks.
SecretOnly == {<<l, "Secret">> : l \in Labels}
DecryptAndGet == [op : {"Decrypt", "GetPublicKey"}, label : Labels]

SignAndGet == [op : {"Sign", "GetPublicKey"}, label : Labels]

Symmetry == Permutations(Workers) \cup Permutations(Jobs)
=============================================================================
