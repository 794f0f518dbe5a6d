------------------------------- MODULE MCAuthz -------------------------------
(* Small instances of Authz for TLC. *)
EXTENDS Authz, SequencesExt

CONSTANTS c1, c2, c3, c4

\* Two workloads with a URI, one of which shares its common name with the other; a
\* certificate that has only a common name, and one that does not parse.
MCContent ==
    LET uri(i) == [kind |-> "URI", name |-> i]
        dns(i) == [kind |-> "DNS", name |-> i]
        cn(i)  == [readable |-> TRUE, name |-> i]
    IN  c1 :> [parses |-> TRUE, names |-> <<dns("b"), uri("a")>>, cns |-> <<cn("b")>>]
     @@ c2 :> [parses |-> TRUE, names |-> <<uri("b"), uri("a")>>, cns |-> <<cn("b")>>]
     @@ c3 :> [parses |-> TRUE, names |-> <<>>, cns |-> <<cn("b")>>]
     @@ c4 :> [parses |-> FALSE, names |-> <<>>, cns |-> <<>>]

Grants == [key_label : Keys, operations : {Operations}]
Workloads(n) == [identity : Identities, grants : BoundedSeq(Grants, n)]

\* Files with two entries of a grant, or one entry of two, repeated names included.
MCFiles == BoundedSeq(Workloads(1), 2) \cup BoundedSeq(Workloads(2), 1)

Symmetry == Permutations(Tasks)
==============================================================================
