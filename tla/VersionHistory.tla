--------------------------- MODULE VersionHistory ---------------------------
(***************************************************************************)
(* What a document promises its readers: every branch has a history of     *)
(* published versions that only ever grows, by one version at a time.  A   *)
(* version name is used once per branch, a draft is published at most      *)
(* once, and no version repeats the content of the one before it.          *)
(***************************************************************************)
EXTENDS Naturals, Sequences

CONSTANTS Branches, DraftIds, Names, Contents

VARIABLE published   \* the published versions of each branch, oldest first

Entry == [draft : DraftIds, name : Names, content : Contents]

TypeOK == published \in [Branches -> Seq(Entry)]

Init == published = [b \in Branches |-> <<>>]

IsPublished(d) ==
    \E b \in Branches : \E k \in DOMAIN published[b] : published[b][k].draft = d

Publish(b, entry) ==
    LET past == published[b]
    IN  /\ ~IsPublished(entry.draft)
        /\ \A k \in DOMAIN past : past[k].name # entry.name
        /\ past # <<>> => past[Len(past)].content # entry.content
        /\ published' = [published EXCEPT ![b] = Append(past, entry)]

Next == \E b \in Branches, entry \in Entry : Publish(b, entry)

Spec == Init /\ [][Next]_published

=============================================================================
