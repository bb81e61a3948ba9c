---------------------------- MODULE GmailServer ----------------------------
(***************************************************************************)
(* The login sessions and the one-time operation tokens of gmailserver.cpp.*)
(*                                                                         *)
(* Each client connection is served by a detached thread (handleClient),   *)
(* and each connection to the verify port by another one                   *)
(* (handleVerifyConnection).  The threads share two maps, each behind its  *)
(* own mutex: activeSessions and activeOpTokens.  A step of this module is *)
(* one critical section, or one stretch of code outside them.              *)
(*                                                                         *)
(* A token is a signed text that nobody but the server can produce, so it  *)
(* is represented by its nonce; what its payload says is kept in           *)
(* sessionTokens and opTokens.  The signing key pair is on disk: payloads  *)
(* stay verifiable when the server restarts, the two maps do not survive.  *)
(***************************************************************************)
EXTENDS Naturals, FiniteSets

CONSTANTS
    Users,                      \* user names
    Conns,                      \* client connections (one thread each)
    SessionNonces,              \* nonces generateSessionToken may draw
    OpNonces,                   \* nonces generateOperationToken may draw
    Scopes,                     \* the <<operation, target>> pairs asked for
    SESSION_TOKEN_TTL_SECONDS,
    OP_TOKEN_TTL_SECONDS,
    MaxTime,                    \* bound on the clock
    None                        \* "not there": no entry, no token, no name

kValidOps == {"STORE_SHARE1", "STORE_SHARE2", "FETCH_SHARE1",
              "GET_SHARE", "UPDATE_SHARE1", "UPDATE_SHARE2"}

Targets == {"KEYSERVER", "RECOVERYSERVER"}

ASSUME ScopesAssumption == Scopes \subseteq kValidOps \X Targets
ASSUME TimeAssumption == /\ SESSION_TOKEN_TTL_SECONDS \in Nat
                         /\ OP_TOKEN_TTL_SECONDS \in Nat
                         /\ MaxTime \in Nat
ASSUME NoneAssumption == None \notin Users \cup SessionNonces \cup OpNonces

VARIABLES
    now,             \* time(nullptr)
    sessionTokens,   \* payload of each session token generated so far
    opTokens,        \* payload of each operation token generated so far
    conn,            \* local state of each handleClient thread
    activeSessions,  \* session_mutex: username -> {token, connected}
    activeOpTokens   \* op_token_mutex: nonce -> OperationToken

sessionVars == <<sessionTokens, conn, activeSessions>>
opTokenVars == <<opTokens, activeOpTokens>>
gmailVars   == <<now, sessionTokens, opTokens, conn, activeSessions, activeOpTokens>>

SessionPayload == [username : Users, expires_at : Nat]
OpPayload      == [username : Users, operation : kValidOps,
                   target_service : Targets, expires_at : Nat]
OperationToken == [username : Users, operation : kValidOps,
                   target_service : Targets, expires_at : Nat, used : BOOLEAN]
SessionInfo    == [token : SessionNonces, connected : BOOLEAN]
Phases         == {"closed", "auth", "starting", "serving"}
Connection     == [phase : Phases, username : Users \cup {None},
                   token : SessionNonces \cup {None}]

Closed == [phase |-> "closed", username |-> None, token |-> None]

GmailInit ==
    /\ now = 0
    /\ sessionTokens = [t \in SessionNonces |-> None]
    /\ opTokens = [n \in OpNonces |-> None]
    /\ conn = [c \in Conns |-> Closed]
    /\ activeSessions = [u \in Users |-> None]
    /\ activeOpTokens = [n \in OpNonces |-> None]

-----------------------------------------------------------------------------
(* What the verify port answers. *)

\* Mutant of isSessionValid: any session of the user will do.
isSessionValid_anyToken(u, t) ==
    /\ activeSessions[u] # None
    /\ activeSessions[u].connected
    /\ now <= sessionTokens[t].expires_at

\* isSessionValid: there is an entry, it is connected, it holds this very
\* token, and the expiry signed into the token has not passed.
isSessionValid(u, t) ==
    /\ activeSessions[u] # None
    /\ activeSessions[u].connected
    /\ activeSessions[u].token = t
    /\ now <= sessionTokens[t].expires_at

\* Mutants of OpTokenValid: the operation, or the target, is not compared.
OpTokenValid_anyOperation(u, op, target, n) ==
    LET ot == activeOpTokens[n]
    IN  ot # None /\ ~ot.used /\ now <= ot.expires_at
        /\ ot.username = u /\ ot.target_service = target

OpTokenValid_anyTarget(u, op, target, n) ==
    LET ot == activeOpTokens[n]
    IN  ot # None /\ ~ot.used /\ now <= ot.expires_at
        /\ ot.username = u /\ ot.operation = op

\* The verdict VALID of verifyAndConsumeOperationToken; every other verdict
\* (USED, EXPIRED, WRONG_OPERATION, ...) is a refusal to the share servers.
OpTokenValid(u, op, target, n) ==
    LET ot == activeOpTokens[n]
    IN  /\ ot # None
        /\ ot.username = u
        /\ ~ot.used
        /\ now <= ot.expires_at
        /\ ot.operation = op
        /\ ot.target_service = target

\* Mutants of consume: a valid token is not marked; the mark is the verdict.
consume_unmarked(u, op, target, n) == UNCHANGED activeOpTokens

consume_verdictAsMark(u, op, target, n) ==
    activeOpTokens' = IF activeOpTokens[n] = None THEN activeOpTokens
                      ELSE [activeOpTokens EXCEPT ![n].used = OpTokenValid(u, op, target, n)]

\* The locked section of verifyAndConsumeOperationToken: a valid token is
\* marked used under the same acquisition of op_token_mutex that found it valid.
consume(u, op, target, n) ==
    activeOpTokens' = IF OpTokenValid(u, op, target, n)
                      THEN [activeOpTokens EXCEPT ![n].used = TRUE]
                      ELSE activeOpTokens

-----------------------------------------------------------------------------
(* handleClient: one action per step of a client's thread. *)

Tick ==
    /\ now < MaxTime
    /\ now' = now + 1
    /\ UNCHANGED <<sessionVars, opTokenVars>>

\* main: a connection is accepted and gets its thread.
accept(c) ==
    /\ conn[c].phase = "closed"
    /\ conn' = [conn EXCEPT ![c].phase = "auth"]
    /\ UNCHANGED <<now, sessionTokens, activeSessions, opTokenVars>>

\* A login or signup that fails.  The thread has overwritten its local
\* username by then, and keeps it.
AuthRejected(c, u) ==
    /\ conn[c].phase = "auth"
    /\ conn' = [conn EXCEPT ![c].username = u]
    /\ UNCHANGED <<now, sessionTokens, activeSessions, opTokenVars>>

\* A login or signup that succeeds: generateSessionToken draws and signs a
\* token, outside session_mutex.
generateSessionToken(c, u, t) ==
    /\ conn[c].phase = "auth"
    /\ sessionTokens[t] = None
    /\ sessionTokens' = [sessionTokens EXCEPT ![t] =
            [username |-> u, expires_at |-> now + SESSION_TOKEN_TTL_SECONDS]]
    /\ conn' = [conn EXCEPT ![c] = [phase |-> "starting", username |-> u, token |-> t]]
    /\ UNCHANGED <<now, activeSessions, opTokenVars>>

\* The same, when drawing or signing fails: startSession returns "", the
\* reply is AUTH_SUCCESS all the same, and the thread serves commands.
AuthAcceptedWithoutToken(c, u) ==
    /\ conn[c].phase = "auth"
    /\ conn' = [conn EXCEPT ![c] = [phase |-> "serving", username |-> u, token |-> None]]
    /\ UNCHANGED <<now, sessionTokens, activeSessions, opTokenVars>>

\* startSession's locked section: the user's entry is replaced.
startSession(c) ==
    /\ conn[c].phase = "starting"
    /\ activeSessions' = [activeSessions EXCEPT ![conn[c].username] =
            [token |-> conn[c].token, connected |-> TRUE]]
    /\ conn' = [conn EXCEPT ![c].phase = "serving"]
    /\ UNCHANGED <<now, sessionTokens, opTokenVars>>

\* Mutants of endSession: not called; it makes an entry where there is none.
endSession_skipped(u) == UNCHANGED activeSessions

endSession_inserting(u) ==
    activeSessions' = IF u = None THEN activeSessions
                      ELSE [activeSessions EXCEPT ![u] =
                              [token |-> IF @ = None THEN None ELSE @.token, connected |-> FALSE]]

\* endSession: whatever session the user NAME has is marked disconnected.
endSession(u) ==
    activeSessions' = IF u # None /\ activeSessions[u] # None
                      THEN [activeSessions EXCEPT ![u].connected = FALSE]
                      ELSE activeSessions

\* The thread leaves its loops: exit command, disconnect, or a connection
\* that never authenticated.
EndConnection(c) ==
    /\ conn[c].phase \in {"auth", "serving"}
    /\ endSession(conn[c].username)
    /\ conn' = [conn EXCEPT ![c] = Closed]
    /\ UNCHANGED <<now, sessionTokens, opTokenVars>>

\* REQUEST_OP_TOKEN: any valid operation with any valid target, on the strength
\* of being in the authenticated loop; the session's expiry is not looked at.
generateOperationToken(c, scope, n) ==
    /\ conn[c].phase = "serving"
    /\ opTokens[n] = None
    /\ LET payload == [username |-> conn[c].username, operation |-> scope[1],
                       target_service |-> scope[2],
                       expires_at |-> now + OP_TOKEN_TTL_SECONDS]
       IN  /\ opTokens' = [opTokens EXCEPT ![n] = payload]
           /\ activeOpTokens' = [activeOpTokens EXCEPT ![n] =
                [username |-> payload.username, operation |-> payload.operation,
                 target_service |-> payload.target_service,
                 expires_at |-> payload.expires_at, used |-> FALSE]]
    /\ UNCHANGED <<now, sessionVars>>

\* handleVerifyConnection's VERIFY_OP for some caller.
VerifyOp(u, scope, n) ==
    /\ opTokens[n] # None
    /\ consume(u, scope[1], scope[2], n)
    /\ UNCHANGED <<now, sessionVars, opTokens>>

\* The process dies (write to a closed socket, kill, power) and main runs
\* again: the maps are empty, the signing keys are loaded from their files.
GmailRestart ==
    /\ conn' = [c \in Conns |-> Closed]
    /\ activeSessions' = [u \in Users |-> None]
    /\ activeOpTokens' = [n \in OpNonces |-> None]
    /\ UNCHANGED <<now, sessionTokens, opTokens>>

-----------------------------------------------------------------------------

ClientThread(c) ==
    \/ accept(c)
    \/ \E u \in Users : AuthRejected(c, u)
    \/ \E u \in Users, t \in SessionNonces : generateSessionToken(c, u, t)
    \/ \E u \in Users : AuthAcceptedWithoutToken(c, u)
    \/ startSession(c)
    \/ EndConnection(c)
    \/ \E scope \in Scopes, n \in OpNonces : generateOperationToken(c, scope, n)

GmailNext ==
    \/ Tick
    \/ \E c \in Conns : ClientThread(c)
    \/ \E u \in Users, scope \in Scopes, n \in OpNonces : VerifyOp(u, scope, n)
    \/ GmailRestart

GmailSpec == GmailInit /\ [][GmailNext]_gmailVars

-----------------------------------------------------------------------------
(* Properties *)

\* Each map holds the kind of entry its C++ type says, and a thread past
\* authentication has a user, and a token while startSession enters it.
GmailTypeOK ==
    /\ now \in Nat
    /\ sessionTokens \in [SessionNonces -> SessionPayload \cup {None}]
    /\ opTokens \in [OpNonces -> OpPayload \cup {None}]
    /\ conn \in [Conns -> Connection]
    /\ \A c \in Conns :
         /\ conn[c].phase \in {"starting", "serving"} => conn[c].username \in Users
         /\ conn[c].phase = "starting" => conn[c].token \in SessionNonces
    /\ activeSessions \in [Users -> SessionInfo \cup {None}]
    /\ activeOpTokens \in [OpNonces -> OperationToken \cup {None}]

\* A session the map calls connected is the session of a connection that is
\* being served: whatever the order in which logins of one user overlap,
\* fail, end or are cut by a restart, no dead connection leaves a session
\* behind that the verify port would still accept.
ConnectedSessionHasItsConnection ==
    \A u \in Users :
        activeSessions[u] # None /\ activeSessions[u].connected =>
            \E c \in Conns : conn[c] = [phase |-> "serving", username |-> u,
                                        token |-> activeSessions[u].token]

\* A session that has ended (closed, replaced by a later login, expired or
\* lost in a restart) is never accepted again.  Only a token whose login is
\* still on its way into the map may become valid.
NoSessionRevival ==
    [][\A u \in Users, t \in SessionNonces :
         /\ sessionTokens[t] # None
         /\ ~isSessionValid(u, t)
         /\ \A c \in Conns : ~(conn[c].phase = "starting" /\ conn[c].token = t)
         => ~isSessionValid(u, t)']_gmailVars

Spendable(n) ==
    /\ activeOpTokens[n] # None
    /\ ~activeOpTokens[n].used
    /\ now <= activeOpTokens[n].expires_at

\* "Used once, then invalidated": an operation token that was issued and is
\* no longer good, because it was consumed, expired or was forgotten in a
\* restart, is never good again.
OpTokenNeverRevived ==
    [][\A n \in OpNonces :
         opTokens[n] # None /\ ~Spendable(n) => ~Spendable(n)']_gmailVars

\* What the comments on SessionInfo ("session token, currently connected?")
\* and isSessionValid ("a currently-connected, valid session") say: while the
\* connection that holds the user's current token is being served, the
\* session counts as connected.
LiveConnectionKeepsSession ==
    \A c \in Conns :
        /\ conn[c].phase = "serving" /\ conn[c].token # None
        /\ activeSessions[conn[c].username].token = conn[c].token
        => activeSessions[conn[c].username].connected

=============================================================================
