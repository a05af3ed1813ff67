--------------------------- MODULE DocumentServices ---------------------------
(***************************************************************************)
(* Shares, tokens, the rotation of what they are sealed with, and          *)
(* conversations, over the same rows: requests of every kind run beside    *)
(* each other and beside the events of the workspace.                      *)
(***************************************************************************)
EXTENDS CipherRotation, AiChat, Library

vars == <<rows, workload, call, shareVars, tokenVars, chatVars, libraryVars>>

TypeInvariant ==
    /\ WorkspaceTypeOK /\ ShareTypeOK /\ TokenTypeOK /\ ChatTypeOK /\ LibraryTypeOK
    /\ \A c \in Clients :
          call[c] \in {Idle} \cup ShareCall \cup TokenCall \cup RotationCall
                          \cup ChatCall \cup LibraryCall

Init == WorkspaceInit /\ ShareInit /\ TokenInit /\ ChatInit /\ LibraryInit

Next ==
    \/ WorkspaceEvent /\ UNCHANGED <<shareVars, tokenVars, chatVars, libraryVars>>
    \/ ShareNext /\ UNCHANGED <<tokenVars, chatVars, libraryVars>>
    \/ TokenNext /\ UNCHANGED <<shareVars, chatVars, libraryVars>>
    \/ RotationNext /\ UNCHANGED <<chatVars, libraryVars>>
    \/ ChatNext /\ UNCHANGED <<shareVars, tokenVars, libraryVars>>
    \/ LibraryNext /\ UNCHANGED <<shareVars, tokenVars, chatVars>>

Spec == Init /\ [][Next]_vars

\* What was withdrawn stays withdrawn: a share, whoever withdrew it, and a token,
\* whatever was loaded before it was (RevokeDocumentShare, RevokeMCPToken and every
\* other writer of their rows: lists that mark what expired, calls that keep the
\* time of use, the rotation of ciphertexts).
WithdrawnStaysWithdrawn == RevokedShares /\ RevokedTokens

=============================================================================
