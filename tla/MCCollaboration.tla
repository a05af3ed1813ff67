-------------------------- MODULE MCCollaboration ---------------------------
(***************************************************************************)
(* Collaboration on small instances.  Users, clients and hashes are        *)
(* interchangeable: no definition orders or singles out one.               *)
(***************************************************************************)
EXTENDS Collaboration, TLC

Symmetry == {p @@ q @@ h : p \in Permutations(Users), q \in Permutations(Clients),
                     h \in Permutations(Hashes)}

=============================================================================
