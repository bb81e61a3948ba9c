----------------------------- MODULE MCAccounts -----------------------------
(* Small instances of Accounts for TLC. *)
EXTENDS Accounts, TLC

CONSTANTS n1, sp, sk

\* n1 is a plain name.  The line of sp is loaded as one of n1's, that of sk is
\* skipped.
MCEntry == [n \in Names |-> CASE n = sp -> n1 [] n = sk -> None [] OTHER -> n]

Symmetry == Permutations(Threads) \cup Permutations(Passwords)

=============================================================================
