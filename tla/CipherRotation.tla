---------------------------- MODULE CipherRotation ----------------------------
(***************************************************************************)
(* The secrets of tokens and shares are sealed with a key of a key ring.   *)
(* An instance that starts with a new active key seals what an older key   *)
(* sealed once more and saves all of it in one transaction, while requests *)
(* of other instances create, use and withdraw the same rows.              *)
(***************************************************************************)
EXTENDS DocumentShares, McpTokens

RotationCall ==
    [kind : {"rotate"}, step : {"ready"},
     tokens : [Tokens -> TokenRow \cup {None}], shares : [Shares -> ShareRow \cup {None}]]

Stale(table) == {k \in DOMAIN table : table[k] # None /\ table[k].sealed = "old"}
Resealed(row) == [row EXCEPT !.sealed = "new", !.stamp = @ + 1]

RotateCiphertexts(c) ==
    /\ Free(c, "rotate")
    /\ Stale(token) # {} \/ Stale(share) # {}
    /\ Enter(c, [kind |-> "rotate", step |-> "ready", tokens |-> token, shares |-> share])
    /\ UNCHANGED <<rows, workload, shareVars, tokenVars>>

\* All rows are saved or, if one of them changed meanwhile, none.
LoadedIsCurrent(r) ==
    /\ \A t \in Stale(r.tokens) : token[t].stamp = r.tokens[t].stamp
    /\ \A s \in Stale(r.shares) : share[s].stamp = r.shares[s].stamp

SaveRotation(c) ==
    LET r == call[c] IN
    /\ At(c, {"rotate"}, "ready")
    /\ IF LoadedIsCurrent(r)
         THEN /\ SaveTokens([t \in Stale(r.tokens) |-> Resealed(r.tokens[t])])
              /\ share' = [s \in Shares |-> IF s \in Stale(r.shares)
                                              THEN Resealed(r.shares[s]) ELSE share[s]]
         ELSE UNCHANGED <<token, share>>
    /\ Leave(c)
    /\ UNCHANGED <<rows, workload, proofs, textual, drafts>>

RotationNext == \E c \in Clients : RotateCiphertexts(c) \/ SaveRotation(c)

=============================================================================
