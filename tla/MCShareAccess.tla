--------------------------- MODULE MCShareAccess ---------------------------
(* Small instances of ShareAccess for TLC. *)
EXTENDS ShareAccess, TLC

\* The Key Server's operations, and a pair that no server serves.
MCKeyScopes == {<<op, "KEYSERVER">> : op \in ServedBy["KEYSERVER"]}
               \cup {<<"UPDATE_SHARE1", "RECOVERYSERVER">>}

\* The Recovery Server's operations, and one of the other server's.
MCRecoveryScopes == {<<op, "RECOVERYSERVER">> : op \in ServedBy["RECOVERYSERVER"]}
                    \cup {<<"FETCH_SHARE1", "KEYSERVER">>}

Symmetry == Permutations(Users) \cup Permutations(SessionNonces)
            \cup Permutations(OpNonces) \cup Permutations(KeyThreads)
            \cup Permutations(Shares)

=============================================================================
