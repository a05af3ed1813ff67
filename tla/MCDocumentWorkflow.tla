------------------------- MODULE MCDocumentWorkflow -------------------------
(***************************************************************************)
(* DocumentWorkflow on small instances.  Processes, drafts, names and      *)
(* contents are interchangeable: no definition orders or singles out one.  *)
(***************************************************************************)
EXTENDS DocumentWorkflow, TLC

Symmetry ==
    {p @@ q @@ r @@ s : p \in Permutations(Instances),
                        q \in Permutations(DraftIds),
                        r \in Permutations(Names),
                        s \in Permutations(Contents)}

=============================================================================
