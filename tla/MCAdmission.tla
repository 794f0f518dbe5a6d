----------------------------- MODULE MCAdmission -----------------------------
(* Small instances of Admission for TLC. *)
EXTENDS Admission, MCAuthz

\* Both workloads may sign with one of the keys; one of them is never granted "l".
MCLimitedFiles ==
    {<<[identity |-> i, grants |-> <<[key_label |-> "k", operations |-> {"sign"}]>>],
       [identity |-> j, grants |-> <<[key_label |-> "k", operations |-> {"sign"}]>>]>>
     : i \in {"a"}, j \in {"b"}}

AdmissionSymmetry == Permutations(Tasks) \cup Permutations(Buckets)
==============================================================================
