--------------------------- MODULE MCGmailServer ---------------------------
(* Small instances of GmailServer for TLC. *)
EXTENDS GmailServer, TLC

\* A scope at each target, and one that no share server serves.
MCScopes == {<<"UPDATE_SHARE1", "KEYSERVER">>, <<"UPDATE_SHARE1", "RECOVERYSERVER">>}

Symmetry == Permutations(Users) \cup Permutations(Conns)
            \cup Permutations(SessionNonces) \cup Permutations(OpNonces)

=============================================================================
