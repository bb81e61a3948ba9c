--------------------------- MODULE ShareRotation ---------------------------
(***************************************************************************)
(* The client's handling of one account's three key shares: client.cpp's   *)
(* main (signup, login, menu) and recover_account_flow, on each device the *)
(* account is used from, against the shares the two servers keep.          *)
(*                                                                         *)
(* A share call is the client's view of one request of ShareAccess: the    *)
(* server passes it when the caller's session is current, then carries it  *)
(* out at most once; it may be refused, its answer may be lost, and the    *)
(* server may carry it out after the client is gone.                       *)
(*                                                                         *)
(* Two shares reconstruct the private key when they come from the same     *)
(* split_private_key call, and garbage otherwise.  A split is therefore    *)
(* [key, id] and stands for each of its three shares; where a share is     *)
(* kept says which of the three it is.                                     *)
(*                                                                         *)
(* The client sets no receive timeout before it handles email: this module *)
(* covers the runs of the client that do not.                              *)
(***************************************************************************)
EXTENDS Naturals, FiniteSets

CONSTANTS
    Devices,
    Keys,          \* private keys generate_keys may produce
    SplitIds,      \* what tells the splits in use apart (recycled)
    MaxFaults,     \* bound on crashes, lost devices, refusals, disk errors ...
    None,
    Torn,          \* a key file that was left half written
    RefusalText    \* an error text that the client takes for a share

ASSUME NumbersAssumption == /\ Keys \subseteq Nat /\ SplitIds \subseteq Nat
                            /\ MaxFaults \in Nat

\* The client never runs out of new keys and splits: there are more names than
\* the servers, the devices and the orphans, one for each fault, can hold.
ASSUME NamesAssumption ==
    /\ IsFiniteSet(Devices) /\ IsFiniteSet(Keys) /\ IsFiniteSet(SplitIds)
    /\ Cardinality(SplitIds) > 2 + 3 * Cardinality(Devices) + MaxFaults
    /\ Cardinality(Keys) > 3 + 5 * Cardinality(Devices) + 2 * MaxFaults

VARIABLES
    clientPublicKeys,  \* Key Server: the account's registered key
    clientShare1,      \* Key Server: its Share1
    shareStore,        \* Recovery Server: its Share2
    pem,               \* each device: <client_id>_private_key.pem
    share3,            \* each device: <client_id>_share3.enc
    dev,               \* each device: the running client, if any
    session,           \* the device whose session token is valid
    orphans,           \* passed requests whose client is gone
    faults             \* how much went wrong so far

serverVars == <<clientPublicKeys, clientShare1, shareStore>>
deviceVars == <<pem, share3>>
vars == <<serverVars, deviceVars, dev, session, orphans, faults>>

Splits == [key : Keys, id : SplitIds]

\* No key file and a torn one hold no key; neither nothing nor an error text is
\* a share.
ASSUME MarkersAssumption == /\ {None, Torn} \cap Keys = {} /\ None # Torn
                            /\ {None, RefusalText} \cap Splits = {}

Writes == {"register", "store1", "store2", "update1", "update2"}
Calls  == Writes \cup {"login1", "fetch1", "fetch2"}
KeyServerCalls == Calls \ {"store2", "fetch2", "update2"}
Places == {"off", "keys", "split", "menu", "save3", "savepem"} \cup Calls

Off == [pc |-> "off", passed |-> FALSE, key_sock |-> FALSE, pkey |-> None,
        share1 |-> None, new |-> None, needs_recovery |-> FALSE, outcome |-> None]

Init ==
    /\ clientPublicKeys = None /\ clientShare1 = None /\ shareStore = None
    /\ pem = [d \in Devices |-> None]
    /\ share3 = [d \in Devices |-> None]
    /\ dev = [d \in Devices |-> Off]
    /\ session = None
    /\ orphans = {}
    /\ faults = 0

-----------------------------------------------------------------------------
(* Splits and keys *)

Agree(a, b) == a \in Splits /\ a = b

\* reconstruct_private_key and pem_string_to_evp_pkey.
reconstruct(a, b) == IF Agree(a, b) THEN a.key ELSE None

KnownShares ==
    {clientShare1, shareStore} \cup {share3[d] : d \in Devices}
    \cup {dev[d].share1 : d \in Devices} \cup {dev[d].new : d \in Devices}
    \cup {o.share : o \in orphans}

KnownKeys ==
    {clientPublicKeys} \cup {pem[d] : d \in Devices} \cup {dev[d].pkey : d \in Devices}
    \cup {s.key : s \in KnownShares \cap Splits} \cup {o.key : o \in orphans}

Least(S) == CHOOSE x \in S : \A y \in S : x <= y

\* generate_keys and split_private_key draw something new every time.
generate_keys == Least(Keys \ KnownKeys)
split_private_key(k) ==
    [key |-> k, id |-> Least(SplitIds \ {x.id : x \in KnownShares \cap Splits})]

SomethingFails == faults < MaxFaults /\ faults' = faults + 1

-----------------------------------------------------------------------------
(* What the client does when a call returns: ok says whether it reported   *)
(* success, got is the share it received, None for the empty string.       *)

\* Mutant of after_register: the stash is not looked at.
after_register_unchecked(me) == [me EXCEPT !.pc = "store1"]

after_register(me) == [me EXCEPT !.pc = IF me.new = None THEN "menu" ELSE "store1"]
after_store1(me)   == [me EXCEPT !.pc = "store2"]
after_store2(me)   == [me EXCEPT !.pc = "menu", !.new = None]

\* The login branch: Share1 + Share3, or the menu with the key file's key.
after_login1(me, got, local) ==
    LET k == reconstruct(got, local)
    IN  [me EXCEPT !.pc = "menu",
                   !.pkey = IF k = None THEN @ ELSE k,
                   !.needs_recovery = (k = None)]

recovery_failed(me) ==
    [me EXCEPT !.pc = "menu", !.share1 = None]

after_fetch1(me, got) ==
    IF got = None THEN recovery_failed(me)
                  ELSE [me EXCEPT !.pc = "fetch2", !.share1 = got]

\* Reconstruct from Share1 + Share2, and split the key anew.
after_fetch2(me, got) ==
    LET k == reconstruct(me.share1, got)
    IN  IF k = None THEN recovery_failed(me)
        ELSE [me EXCEPT !.pc = "update1", !.share1 = None, !.pkey = k,
                        !.new = split_private_key(k)]

\* Mutant of after_update1: the key is split once more for the second server.
after_update1_splitAgain(me, ok) ==
    IF ok THEN [me EXCEPT !.pc = "update2", !.new = split_private_key(me.pkey)]
    ELSE [me EXCEPT !.pc = "savepem", !.new = None, !.outcome = "NotRotated"]

\* Stop before Share2 and Share3 when Share1 was not replaced ...
after_update1(me, ok) ==
    IF ok THEN [me EXCEPT !.pc = "update2"]
    ELSE [me EXCEPT !.pc = "savepem", !.new = None, !.outcome = "NotRotated"]

\* ... and before Share3 when Share2 was not.
after_update2(me, ok) ==
    IF ok THEN [me EXCEPT !.pc = "save3"]
    ELSE [me EXCEPT !.pc = "savepem", !.new = None, !.outcome = "HalfRotated"]

After(d, ok, got) ==
    LET me == [dev[d] EXCEPT !.passed = FALSE]
    IN  CASE me.pc = "register" -> after_register(me)
          [] me.pc = "store1"   -> after_store1(me)
          [] me.pc = "store2"   -> after_store2(me)
          [] me.pc = "login1"   -> after_login1(me, got, share3[d])
          [] me.pc = "fetch1"   -> after_fetch1(me, got)
          [] me.pc = "fetch2"   -> after_fetch2(me, got)
          [] me.pc = "update1"  -> after_update1(me, ok)
          [] me.pc = "update2"  -> after_update2(me, ok)

-----------------------------------------------------------------------------
(* A call, at the server and on its way *)

Request(d) == [op |-> dev[d].pc, key |-> dev[d].pkey, share |-> dev[d].new]

\* Mutants of carry_out: UPDATE_SHARE1 keeps what is there; registration does not.
carry_out_firstKept(r) ==
    /\ clientPublicKeys' = IF r.op = "register" /\ clientPublicKeys = None
                           THEN r.key ELSE clientPublicKeys
    /\ clientShare1' = IF r.op \in {"store1", "update1"} /\ clientShare1 = None
                       THEN r.share ELSE clientShare1
    /\ shareStore' = IF r.op = "update2" \/ (r.op = "store2" /\ shareStore = None)
                     THEN r.share ELSE shareStore

carry_out_reRegister(r) ==
    /\ clientPublicKeys' = IF r.op = "register" THEN r.key ELSE clientPublicKeys
    /\ clientShare1' = IF r.op = "update1" \/ (r.op = "store1" /\ clientShare1 = None)
                       THEN r.share ELSE clientShare1
    /\ shareStore' = IF r.op = "update2" \/ (r.op = "store2" /\ shareStore = None)
                     THEN r.share ELSE shareStore

\* STORE and registration keep what is there; UPDATE replaces it.
carry_out(r) ==
    /\ clientPublicKeys' = IF r.op = "register" /\ clientPublicKeys = None
                           THEN r.key ELSE clientPublicKeys
    /\ clientShare1' = IF r.op = "update1" \/ (r.op = "store1" /\ clientShare1 = None)
                       THEN r.share ELSE clientShare1
    /\ shareStore' = IF r.op = "update2" \/ (r.op = "store2" /\ shareStore = None)
                     THEN r.share ELSE shareStore

Calling(d)   == dev[d].pc \in Calls
Connected(d) == dev[d].pc \in KeyServerCalls => dev[d].key_sock

\* The server's gates (ShareAccess): the session token is valid.
Pass(d) ==
    /\ Calling(d) /\ ~dev[d].passed /\ Connected(d)
    /\ session = d
    /\ dev' = [dev EXCEPT ![d].passed = TRUE]
    /\ UNCHANGED <<serverVars, deviceVars, session, orphans, faults>>

\* The server carries the request out and the client gets the answer.
Answer(d) ==
    /\ Calling(d) /\ dev[d].passed
    /\ carry_out(Request(d))
    /\ dev' = [dev EXCEPT ![d] = After(d, TRUE,
            IF @.pc = "fetch2" THEN shareStore ELSE clientShare1)]
    /\ UNCHANGED <<deviceVars, session, orphans, faults>>

\* The call fails without effect: no operation token, a gate that says no, or
\* no answer from the Gmail server.  The two gates' error texts are sent with
\* their terminating NUL, which the fetch calls do not expect.
Fail(d) ==
    /\ Calling(d) /\ ~dev[d].passed
    /\ \E got \in {None, RefusalText} :
            dev' = [dev EXCEPT ![d] = After(d, FALSE, got)]
    /\ UNCHANGED <<serverVars, deviceVars, session, orphans>>

Refuse(d) ==
    /\ Connected(d)
    /\ IF session # d THEN UNCHANGED faults ELSE SomethingFails
    /\ Fail(d)

\* The Key Server connection is gone for the rest of this run of the client.
NoConnection(d) ==
    /\ Calling(d) /\ ~Connected(d)
    /\ dev' = [dev EXCEPT ![d] = After(d, FALSE, None)]
    /\ UNCHANGED <<serverVars, deviceVars, session, orphans, faults>>

\* STORAGE_ERROR: the server cannot open its file; or SIGN_ERROR: it cannot
\* sign the key it was to register.  A key is served before its file is opened,
\* a share is not.
StorageError(d) ==
    /\ dev[d].pc \in Writes /\ dev[d].passed
    /\ SomethingFails
    /\ \/ UNCHANGED serverVars
       \/ dev[d].pc = "register" /\ carry_out(Request(d))
    /\ dev' = [dev EXCEPT ![d] = After(d, FALSE, None)]
    /\ UNCHANGED <<deviceVars, session, orphans>>

\* What is left at the server when the caller of a passed request goes away.
Orphaned(d) == IF dev[d].passed /\ dev[d].pc \in Writes THEN {Request(d)} ELSE {}

\* The connection to the server breaks during the call.
LoseConnection(d) ==
    /\ Calling(d) /\ Connected(d)
    /\ SomethingFails
    /\ orphans' = orphans \cup Orphaned(d)
    /\ dev' = [dev EXCEPT ![d] =
            [After(d, FALSE, None) EXCEPT !.key_sock = @ /\ dev[d].pc \notin KeyServerCalls]]
    /\ UNCHANGED <<serverVars, deviceVars, session>>

\* The server gets to a request whose client is gone.
CarryOutOrphan(r) ==
    /\ r \in orphans
    /\ carry_out(r)
    /\ orphans' = orphans \ {r}
    /\ UNCHANGED <<deviceVars, dev, session, faults>>

-----------------------------------------------------------------------------
(* The client *)

\* Both connections are made and authentication succeeds: the new session
\* replaces the account's previous one.
Start(d) ==
    /\ dev[d].pc = "off"
    /\ dev' = [dev EXCEPT ![d].pc = "keys", ![d].key_sock = TRUE]
    /\ session' = d
    /\ UNCHANGED <<serverVars, deviceVars, orphans, faults>>

\* The connection ends, and with it whatever session the account has.
Stop(d) ==
    /\ dev' = [dev EXCEPT ![d] = Off]
    /\ session' = None

\* load_or_generate_keys finds a key file: load it, then the login branch.
LoadKey(d) ==
    /\ dev[d].pc = "keys" /\ pem[d] \in Keys
    /\ dev' = [dev EXCEPT ![d].pkey = pem[d],
                          ![d].pc = IF share3[d] = None THEN "menu" ELSE "login1",
                          ![d].needs_recovery = (share3[d] = None)]
    /\ UNCHANGED <<serverVars, deviceVars, session, orphans, faults>>

\* It finds one that does not decrypt: "Exiting".
CannotLoadKey(d) ==
    /\ dev[d].pc = "keys" /\ pem[d] = Torn
    /\ Stop(d)
    /\ UNCHANGED <<serverVars, deviceVars, orphans, faults>>

\* What is left of a file that is opened for writing when writing it fails: the
\* old one, when it cannot be opened, or a truncated one.
FailedWrite(file, d, truncated) ==
    {file, [file EXCEPT ![d] = truncated]}

\* It finds none: a new key, saved unless the disk says no.
GenerateKey(d) ==
    /\ dev[d].pc = "keys" /\ pem[d] = None
    /\ dev' = [dev EXCEPT ![d].pkey = generate_keys, ![d].pc = "split"]
    /\ \/ pem' = [pem EXCEPT ![d] = generate_keys] /\ UNCHANGED faults
       \/ pem' \in FailedWrite(pem, d, Torn) /\ SomethingFails
    /\ UNCHANGED <<serverVars, share3, session, orphans>>

\* Its three shares: Share3 is saved, the others are stashed for the upload.  One
\* of the two may fail, or the split that both need.
SplitKey(d) ==
    /\ dev[d].pc = "split"
    /\ LET new == split_private_key(dev[d].pkey)
           saved == [share3 EXCEPT ![d] = new]
           stashed == [dev EXCEPT ![d].new = new, ![d].pc = "register"]
           lost == [dev EXCEPT ![d].pc = "register"]
       IN  \/ share3' = saved /\ dev' = stashed /\ UNCHANGED faults
           \/ share3' = saved /\ dev' = lost /\ SomethingFails
           \/ /\ share3' \in FailedWrite(share3, d, None)
              /\ dev' = stashed /\ SomethingFails
           \/ UNCHANGED share3 /\ dev' = lost /\ SomethingFails
    /\ UNCHANGED <<serverVars, pem, session, orphans>>

\* Menu choice 3.
recover_account_flow(d) ==
    /\ dev[d].pc = "menu"
    /\ dev' = [dev EXCEPT ![d].pc = "fetch1", ![d].outcome = None]
    /\ UNCHANGED <<serverVars, deviceVars, session, orphans, faults>>

\* Mutant of save_local_share3: an existing file is kept.
save_local_share3_keeping(d) ==
    /\ dev[d].pc = "save3"
    /\ share3' = [share3 EXCEPT ![d] = IF @ = None THEN dev[d].new ELSE @]
    /\ dev' = [dev EXCEPT ![d].pc = "savepem", ![d].new = None]
    /\ UNCHANGED <<serverVars, pem, session, orphans, faults>>

\* The last step of the rotation.  "All three shares rotated and now agree" is
\* printed whether or not the new Share3 was saved.
save_local_share3(d) ==
    /\ dev[d].pc = "save3"
    /\ \/ share3' = [share3 EXCEPT ![d] = dev[d].new] /\ UNCHANGED faults
       \/ share3' \in FailedWrite(share3, d, None) /\ SomethingFails
    /\ dev' = [dev EXCEPT ![d].pc = "savepem", ![d].new = None]
    /\ UNCHANGED <<serverVars, pem, session, orphans>>

\* The recovered key replaces the key file's, however far the rotation got.
save_private_key(d) ==
    /\ dev[d].pc = "savepem"
    /\ \/ pem' = [pem EXCEPT ![d] = dev[d].pkey] /\ UNCHANGED faults
       \/ pem' \in FailedWrite(pem, d, Torn) /\ SomethingFails
    /\ dev' = [dev EXCEPT ![d].pc = "menu"]
    /\ UNCHANGED <<serverVars, share3, session, orphans>>

\* Menu choice 0.
Exit(d) ==
    /\ dev[d].pc = "menu"
    /\ Stop(d)
    /\ UNCHANGED <<serverVars, deviceVars, orphans, faults>>

-----------------------------------------------------------------------------
(* What goes wrong around it *)

\* The client dies, perhaps with a file truncated and not yet written.
Crash(d) ==
    /\ dev[d].pc # "off"
    /\ SomethingFails
    /\ Stop(d)
    /\ orphans' = orphans \cup Orphaned(d)
    /\ \/ UNCHANGED pem
       \/ dev[d].pc = "savepem" /\ pem' = [pem EXCEPT ![d] = Torn]
       \/ dev[d].pc = "keys" /\ pem[d] = None /\ pem' = [pem EXCEPT ![d] = Torn]
    /\ \/ UNCHANGED share3
       \/ dev[d].pc \in {"split", "save3"} /\ share3' = [share3 EXCEPT ![d] = None]
    /\ UNCHANGED <<serverVars>>

\* The session ends under the client: its 120 s pass, another connection of
\* the account closes, the Gmail connection breaks, the Gmail server restarts.
SessionLost ==
    /\ session # None
    /\ SomethingFails
    /\ session' = None
    /\ UNCHANGED <<serverVars, deviceVars, dev, orphans>>

\* The device is lost: another one takes its place, with nothing on it.
LoseDevice(d) ==
    /\ dev[d].pc = "off"
    /\ SomethingFails
    /\ pem' = [pem EXCEPT ![d] = None]
    /\ share3' = [share3 EXCEPT ![d] = None]
    /\ UNCHANGED <<serverVars, dev, session, orphans>>

-----------------------------------------------------------------------------

\* Steps the program takes by itself when nothing goes wrong any more.
Proceed(d) ==
    \/ Pass(d) \/ Answer(d) \/ NoConnection(d)
    \/ session # d /\ Refuse(d)
    \/ LoadKey(d) \/ CannotLoadKey(d) \/ GenerateKey(d) \/ SplitKey(d)
    \/ save_local_share3(d) \/ save_private_key(d)

Client(d) ==
    \/ Start(d) \/ recover_account_flow(d) \/ Exit(d)
    \/ Proceed(d)
    \/ Refuse(d) \/ StorageError(d) \/ LoseConnection(d) \/ Crash(d) \/ LoseDevice(d)

Next ==
    \/ \E d \in Devices : Client(d)
    \/ \E r \in orphans : CarryOutOrphan(r)
    \/ SessionLost

Spec == Init /\ [][Next]_vars

\* The machines keep running, and the user keeps starting the client, asking
\* for recovery, and leaving to log in again.
Fairness ==
    /\ \A d \in Devices :
         /\ WF_vars(Proceed(d)) /\ WF_vars(Start(d))
         /\ SF_vars(recover_account_flow(d)) /\ SF_vars(Exit(d))
    /\ WF_vars(\E r \in orphans : CarryOutOrphan(r))

FairSpec == Spec /\ Fairness

-----------------------------------------------------------------------------
(* Properties *)

Shares == Splits \cup {None, RefusalText}

\* The shares and keys are where their kind belongs, and a client is never at
\* a step without what the step needs.
TypeOK ==
    /\ clientPublicKeys \in Keys \cup {None}
    /\ {clientShare1, shareStore} \subseteq Splits \cup {None}
    /\ pem \in [Devices -> Keys \cup {None, Torn}]
    /\ share3 \in [Devices -> Splits \cup {None}]
    /\ session \in Devices \cup {None}
    /\ \A r \in orphans : r.op \in Writes /\ r.key \in Keys /\ r.share \in Splits \cup {None}
    /\ \A d \in Devices :
         /\ dev[d].pc \in Places
         /\ dev[d].share1 \in Shares
         /\ dev[d].pc \notin {"off", "keys"} => dev[d].pkey \in Keys
         /\ dev[d].pc \in {"store1", "store2", "update1", "update2", "save3"} => dev[d].new \in Splits
         /\ dev[d].passed => dev[d].pc \in Calls
    /\ faults \in 0..MaxFaults

AllAgree == \E d \in Devices : Agree(clientShare1, shareStore) /\ shareStore = share3[d]

SomePairAgrees ==
    \/ Agree(clientShare1, shareStore)
    \/ \E d \in Devices : Agree(clientShare1, share3[d]) \/ Agree(shareStore, share3[d])

\* A client that replaced Share1 is about to replace Share2, or one that
\* replaced Share2 to save Share3.
RotationUnderWay ==
    \E d \in Devices : \/ dev[d].pc = "update2" /\ dev[d].new = clientShare1
                       \/ dev[d].pc = "save3" /\ dev[d].new = shareStore

\* "Any 2 of the 3 shares reconstruct the key": from the moment two shares
\* agree, some two always do, but for the middle of a rotation, whose client
\* holds all three new shares.
SecretKept == SomePairAgrees \/ RotationUnderWay

SecretNeverLost == [][SecretKept => SecretKept']_vars

\* The key the servers' shares reconstruct is the one mail is encrypted to.
RecoveryRestoresRegisteredKey ==
    clientPublicKeys # None /\ Agree(clientShare1, shareStore)
        => clientShare1.key = clientPublicKeys

\* From a state where the servers' shares agree, nothing is under way and
\* nothing fails any more, a user who goes on asking for recovery gets there.
AtRest == orphans = {} /\ \A d \in Devices : dev[d].pc \in {"off", "menu"}

RecoveryConverges ==
    faults = MaxFaults /\ AtRest /\ Agree(clientShare1, shareStore) ~> AllAgree

\* "Run account recovery again immediately to re-rotate and bring all three
\* shares back into agreement" (update 2).
RecoveringAgainRepairs ==
    (\E d \in Devices : dev[d].outcome = "HalfRotated") ~> AllAgree

=============================================================================
