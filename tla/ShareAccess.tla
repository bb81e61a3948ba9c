---------------------------- MODULE ShareAccess ----------------------------
(***************************************************************************)
(* The share handlers of keyserver.cpp (Share1) and recovery_server.cpp    *)
(* (Share2) composed with GmailServer, which they ask twice per request:   *)
(* VERIFY for the session token, VERIFY_OP for the operation token.        *)
(*                                                                         *)
(* Each client of a share server has a detached thread (handleClient) that *)
(* serves one request after another.  Between the two verdicts and the     *)
(* locked section that touches the share, every other thread and the Gmail *)
(* server may step: sessions end, tokens expire, processes restart.        *)
(***************************************************************************)
EXTENDS GmailServer

CONSTANTS
    KeyThreads,        \* handleClient threads of the Key Server
    RecoveryThreads,   \* handleClient threads of the Recovery Server
    Shares             \* share texts

ASSUME ThreadsAssumption == KeyThreads \cap RecoveryThreads = {}
ASSUME SharesAssumption == Shares # {} /\ None \notin Shares
ASSUME NoneIsNoPayload == None \notin OpPayload \cup OperationToken

VARIABLES
    thr,         \* local state of each share server thread
    abandoned,   \* VERIFY_OP requests whose sender no longer waits for the answer
    store,       \* file_mutex: clientShare1 and shareStore
    performed    \* history: operations carried out on each operation token

shareVars == <<thr, abandoned, store, performed>>
vars      == <<gmailVars, shareVars>>

Threads == KeyThreads \cup RecoveryThreads

\* The operations whose handlers each server has (by operation-token name).
ServedBy ==
    [srv \in Targets |->
        IF srv = "KEYSERVER" THEN {"STORE_SHARE1", "FETCH_SHARE1", "UPDATE_SHARE1"}
                             ELSE {"STORE_SHARE2", "GET_SHARE", "UPDATE_SHARE2"}]

\* kTargetService in each server's verifyOperationToken.
ServerOf(th) == IF th \in KeyThreads THEN "KEYSERVER" ELSE "RECOVERYSERVER"

Idle == [pc |-> "idle", operation |-> None, username |-> None,
         op_token |-> None, share |-> None]

\* Mutant of Requests: empty fields are not refused.
Requests_emptyShare(th) ==
    [operation : ServedBy[ServerOf(th)], username : Users,
     session_token : SessionNonces, op_token : OpNonces, share : Shares \cup {None}]

\* The requests a thread can parse: its server's commands, no field empty; only
\* the commands that write carry a share.
Requests(th) ==
    {r \in [operation : ServedBy[ServerOf(th)], username : Users,
            session_token : SessionNonces, op_token : OpNonces,
            share : Shares \cup {None}] :
        (r.share = None) <=> r.operation \in {"FETCH_SHARE1", "GET_SHARE"}}

VerifyOpRequests ==
    [username : Users, operation : kValidOps, target_service : Targets, op_token : OpNonces]

VerifyOpRequest(th) ==
    [username |-> thr[th].username, operation |-> thr[th].operation,
     target_service |-> ServerOf(th), op_token |-> thr[th].op_token]

Init ==
    /\ GmailInit
    /\ thr = [th \in Threads |-> Idle]
    /\ abandoned = {}
    /\ store = [srv \in Targets |-> [u \in Users |-> None]]
    /\ performed = [n \in OpNonces |-> 0]

-----------------------------------------------------------------------------
(* The two gates *)

\* The local check: the payload names this user and has not expired.  (That
\* the signature is the Gmail server's goes without saying: see sessionTokens.)
verifyTokenSignature(u, t) ==
    /\ sessionTokens[t] # None
    /\ sessionTokens[t].username = u
    /\ now <= sessionTokens[t].expires_at

\* A request r is received and passes verifyWithGmailServer: the local check,
\* then VERIFY at the Gmail server.  It quotes tokens that were issued at some
\* time to somebody, its own or stale ones, and may repeat an earlier request.
\* A refusal (IDENTITY_VERIFICATION_FAILED, or no answer) leaves no trace.
verifyWithGmailServer(th, r) ==
    /\ thr[th].pc = "idle"
    /\ opTokens[r.op_token] # None
    /\ verifyTokenSignature(r.username, r.session_token)
    /\ isSessionValid(r.username, r.session_token)
    /\ thr' = [thr EXCEPT ![th] =
            [pc |-> "waiting", operation |-> r.operation, username |-> r.username,
             op_token |-> r.op_token, share |-> r.share]]
    /\ UNCHANGED <<gmailVars, abandoned, store, performed>>

\* verifyOperationToken: VERIFY_OP is sent and the Gmail server decides it.  A
\* verdict other than VALID is answered OP_TOKEN_VERIFICATION_FAILED.
verifyOperationToken(th) ==
    /\ thr[th].pc = "waiting"
    /\ LET v == VerifyOpRequest(th)
       IN  /\ consume(v.username, v.operation, v.target_service, v.op_token)
           /\ thr' = [thr EXCEPT ![th] =
                IF OpTokenValid(v.username, v.operation, v.target_service, v.op_token)
                THEN [@ EXCEPT !.pc = "granted"]
                ELSE Idle]
    /\ UNCHANGED <<now, sessionVars, opTokens, abandoned, store, performed>>

\* The same for a request whose sender gave up: the token is consumed for nothing.
handleAbandonedVerifyOp(v) ==
    /\ v \in abandoned
    /\ consume(v.username, v.operation, v.target_service, v.op_token)
    /\ abandoned' = abandoned \ {v}
    /\ UNCHANGED <<now, sessionVars, opTokens, thr, store, performed>>

\* What becomes of the VERIFY_OP requests of threads that stop waiting.
abandon(ths) ==
    abandoned' = abandoned \cup {VerifyOpRequest(th) : th \in {x \in ths : thr[x].pc = "waiting"}}

\* The Gmail server cannot be reached, or 3 s pass without an answer (which
\* may have been sent: "granted" is also the state of an answer on its way).
giveUp(th) ==
    /\ thr[th].pc # "idle"
    /\ thr' = [thr EXCEPT ![th] = Idle]
    /\ abandon({th})
    /\ UNCHANGED <<gmailVars, store, performed>>

-----------------------------------------------------------------------------
(* The locked sections *)

\* A handler that got past both gates runs to its end, and answers.
carryOut(th) ==
    /\ thr[th].pc = "granted"
    /\ performed' = [performed EXCEPT ![thr[th].op_token] = @ + 1]
    /\ thr' = [thr EXCEPT ![th] = Idle]
    /\ UNCHANGED <<gmailVars, abandoned>>

\* Appended to the server's file, then set in its map; nothing at all when
\* the file cannot be opened (STORAGE_ERROR).
persist(srv, u, share) ==
    \/ store' = [store EXCEPT ![srv][u] = share]
    \/ UNCHANGED store

\* Mutant of storeUnlessPresent: presence is not looked at.
storeUnlessPresent_overwriting(srv, u, share) == persist(srv, u, share)

\* First come, first kept: an existing share is refused (SHARE1_EXISTS).
storeUnlessPresent(srv, u, share) ==
    IF store[srv][u] # None THEN UNCHANGED store ELSE persist(srv, u, share)

storeShare1(th) ==
    /\ thr[th].operation = "STORE_SHARE1"
    /\ storeUnlessPresent("KEYSERVER", thr[th].username, thr[th].share)
    /\ carryOut(th)

fetchShare1(th) ==
    /\ thr[th].operation = "FETCH_SHARE1"
    /\ UNCHANGED store
    /\ carryOut(th)

updateShare1(th) ==
    /\ thr[th].operation = "UPDATE_SHARE1"
    /\ persist("KEYSERVER", thr[th].username, thr[th].share)
    /\ carryOut(th)

storeShare(th) ==
    /\ thr[th].operation = "STORE_SHARE2"
    /\ storeUnlessPresent("RECOVERYSERVER", thr[th].username, thr[th].share)
    /\ carryOut(th)

getShare(th) ==
    /\ thr[th].operation = "GET_SHARE"
    /\ UNCHANGED store
    /\ carryOut(th)

updateShare(th) ==
    /\ thr[th].operation = "UPDATE_SHARE2"
    /\ persist("RECOVERYSERVER", thr[th].username, thr[th].share)
    /\ carryOut(th)

\* A share server dies and starts again: its threads are gone, its map is
\* rebuilt from its file, which holds every share the map held.  (What the Key
\* Server loads when key_store.txt is missing is not modelled here.)
ShareServerRestart(srv) ==
    LET mine == {th \in Threads : ServerOf(th) = srv}
    IN  /\ thr' = [th \in Threads |-> IF th \in mine THEN Idle ELSE thr[th]]
        /\ abandon(mine)
        /\ UNCHANGED <<gmailVars, store, performed>>

-----------------------------------------------------------------------------

\* handleClient of each server: a command selects its handler.
Gates(th) ==
    \/ \E r \in Requests(th) : verifyWithGmailServer(th, r)
    \/ verifyOperationToken(th)
    \/ giveUp(th)

KeyServerThread(th) ==
    Gates(th) \/ storeShare1(th) \/ fetchShare1(th) \/ updateShare1(th)

RecoveryServerThread(th) ==
    Gates(th) \/ storeShare(th) \/ getShare(th) \/ updateShare(th)

\* A restart of the Gmail server also cuts the connections of its callers.
Gmail ==
    \/ (Tick \/ \E c \in Conns : ClientThread(c)) /\ UNCHANGED shareVars
    \/ GmailRestart /\ abandoned' = {} /\ UNCHANGED <<thr, store, performed>>

Next ==
    \/ Gmail
    \/ \E v \in abandoned : handleAbandonedVerifyOp(v)
    \/ \E th \in KeyThreads : KeyServerThread(th)
    \/ \E th \in RecoveryThreads : RecoveryServerThread(th)
    \/ \E srv \in Targets : ShareServerRestart(srv)

Spec == Init /\ [][Next]_vars

-----------------------------------------------------------------------------
(* Properties *)

ThreadState ==
    [pc : {"idle", "waiting", "granted"}, operation : kValidOps \cup {None},
     username : Users \cup {None}, op_token : OpNonces \cup {None},
     share : Shares \cup {None}]

\* Every variable holds what its C++ type says.  A thread past the first gate
\* has every field of a request, and an operation its server has a handler for.
TypeOK ==
    /\ GmailTypeOK
    /\ thr \in [Threads -> ThreadState]
    /\ \A th \in Threads : thr[th].pc # "idle" =>
         /\ thr[th].operation \in ServedBy[ServerOf(th)]
         /\ thr[th].username \in Users
         /\ thr[th].op_token \in OpNonces
         /\ thr[th].share = None => thr[th].operation \in {"FETCH_SHARE1", "GET_SHARE"}
    /\ abandoned \subseteq VerifyOpRequests
    /\ store \in [Targets -> [Users -> Shares \cup {None}]]
    /\ performed \in [OpNonces -> Nat]

\* "Two concurrent VERIFY_OP calls for the same token cannot both succeed":
\* an operation token pays for one operation in its whole life, whatever
\* repeats the request, at whichever server, across timeouts and restarts.
AtMostOnce == \A n \in OpNonces : performed[n] <= 1

\* A thread past both gates works for the user, on the operation and at the
\* server its operation token was issued for.
GrantMatchesToken ==
    \A th \in Threads : thr[th].pc = "granted" =>
        LET token == opTokens[thr[th].op_token]
        IN  /\ token # None
            /\ token.username = thr[th].username
            /\ token.operation = thr[th].operation
            /\ token.target_service = ServerOf(th)

\* The two servers with their gates implement ShareAuthority.  A grant is live
\* while the Gmail server would still accept it, and while a thread whose
\* VERIFY_OP was answered VALID has not carried its operation out.
LiveGrants ==
    {n \in OpNonces : \/ Spendable(n)
                      \/ \E th \in Threads : thr[th].pc = "granted" /\ thr[th].op_token = n}

GrantOf(token) ==
    [username |-> token.username, operation |-> token.operation,
     target_service |-> token.target_service]

Authority == INSTANCE ShareAuthority WITH
    Grants     <- OpNonces,
    Operations <- kValidOps,
    grant      <- [n \in OpNonces |-> IF opTokens[n] = None THEN None
                                      ELSE GrantOf(opTokens[n])],
    live       <- LiveGrants

\* Every behaviour of the servers is one that ShareAuthority allows.
ImplementsShareAuthority == Authority!Spec

=============================================================================
