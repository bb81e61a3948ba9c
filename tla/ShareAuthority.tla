--------------------------- MODULE ShareAuthority ---------------------------
(***************************************************************************)
(* What the two share servers and the Gmail server promise together about  *)
(* the shares they keep, without sessions, verify calls, threads or clocks:*)
(*                                                                         *)
(*   - a share is touched only on the strength of a grant, issued to one   *)
(*     user for one operation at one server;                               *)
(*   - a grant pays for at most one operation, exactly the one it names,   *)
(*     at a server that offers it, and it may lapse before it is used;     *)
(*   - STORE keeps the first share; only UPDATE replaces a stored share,   *)
(*     and nothing ever removes one.                                       *)
(***************************************************************************)
EXTENDS Naturals

CONSTANTS Users, Grants, Shares, Targets, Operations, ServedBy, None

VARIABLES
    grant,   \* what each grant was issued for
    live,    \* the grants that may still be used
    store    \* the share each server keeps for each user

vars == <<grant, live, store>>

StoreOps  == {"STORE_SHARE1", "STORE_SHARE2"}
UpdateOps == {"UPDATE_SHARE1", "UPDATE_SHARE2"}

Init ==
    /\ grant = [n \in Grants |-> None]
    /\ live = {}
    /\ store = [srv \in Targets |-> [u \in Users |-> None]]

Issue(n, u, op, target) ==
    /\ grant[n] = None
    /\ grant' = [grant EXCEPT ![n] =
            [username |-> u, operation |-> op, target_service |-> target]]
    /\ live' = live \cup {n}
    /\ UNCHANGED store

Lapse ==
    /\ \E S \in SUBSET live : S # {} /\ live' = live \ S
    /\ UNCHANGED <<grant, store>>

\* The share kept for u at srv after an operation that carries share s: a
\* storage error or a refusal leaves it alone.
MayBecome(op, old, s, new) ==
    \/ new = old
    \/ op \in StoreOps /\ old = None /\ new = s
    \/ op \in UpdateOps /\ new = s

Perform(n) ==
    /\ n \in live
    /\ grant[n].operation \in ServedBy[grant[n].target_service]
    /\ live' = live \ {n}
    /\ LET u == grant[n].username
           srv == grant[n].target_service
       IN  \E s \in Shares, new \in Shares \cup {None} :
             /\ MayBecome(grant[n].operation, store[srv][u], s, new)
             /\ store' = [store EXCEPT ![srv][u] = new]
    /\ UNCHANGED grant

Next ==
    \/ \E n \in Grants, u \in Users, op \in Operations, target \in Targets :
            Issue(n, u, op, target)
    \/ Lapse
    \/ \E n \in Grants : Perform(n)

Spec == Init /\ [][Next]_vars

=============================================================================
