-------------------------- MODULE MCDocumentServices --------------------------
(***************************************************************************)
(* Instances of DocumentServices for TLC.  Clients, documents and names of *)
(* documents are treated alike; users are not (one of them is a super      *)
(* administrator).                                                         *)
(***************************************************************************)
EXTENDS DocumentServices, TLC

Symmetry == Permutations(Clients) \cup Permutations(Documents) \cup Permutations(DocumentNames)

\* Paths with folders that are missing, or are there in the other case.
a == <<"a", "lower">>
A == <<"a", "upper">>
Paths == {<<a>>, <<A>>, <<a, a>>, <<A, a>>, <<a, A, a>>, <<A, a, A>>}

=============================================================================
