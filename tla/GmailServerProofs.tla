------------------------- MODULE GmailServerProofs -------------------------
(***************************************************************************)
(* What holds of GmailServer for any users, connections, nonces, scopes and*)
(* lifetimes, and however long it runs.                                    *)
(***************************************************************************)
EXTENDS GmailServer, TLAPS

-----------------------------------------------------------------------------
(* Types *)

\* Marking a token used keeps the map's type (verifyAndConsumeOperationToken).
LEMMA ConsumeTypeOK ==
    ASSUME GmailTypeOK, NEW u, NEW op, NEW target, NEW n \in OpNonces,
           consume(u, op, target, n)
    PROVE  activeOpTokens' \in [OpNonces -> OperationToken \cup {None}]
<1>1. CASE OpTokenValid(u, op, target, n)
  <2>1. activeOpTokens[n] \in OperationToken
    BY <1>1 DEF OpTokenValid, GmailTypeOK
  <2>2. [activeOpTokens[n] EXCEPT !.used = TRUE] \in OperationToken
    BY <2>1 DEF OperationToken
  <2>3. activeOpTokens' = [activeOpTokens EXCEPT ![n] = [activeOpTokens[n] EXCEPT !.used = TRUE]]
    BY <1>1 DEF consume
  <2> QED BY <2>2, <2>3 DEF GmailTypeOK
<1>2. CASE ~OpTokenValid(u, op, target, n)
  BY <1>2 DEF consume, GmailTypeOK
<1> QED BY <1>1, <1>2

\* Ending a session keeps the map's type (endSession).
LEMMA EndSessionTypeOK ==
    ASSUME GmailTypeOK, NEW u \in Users \cup {None}, endSession(u)
    PROVE  activeSessions' \in [Users -> SessionInfo \cup {None}]
<1>1. CASE u # None /\ activeSessions[u] # None
  <2>1. u \in Users /\ activeSessions[u] \in SessionInfo
    BY <1>1 DEF GmailTypeOK
  <2>2. [activeSessions[u] EXCEPT !.connected = FALSE] \in SessionInfo
    BY <2>1 DEF SessionInfo
  <2>3. activeSessions' = [activeSessions EXCEPT ![u] = [activeSessions[u] EXCEPT !.connected = FALSE]]
    BY <1>1 DEF endSession
  <2> QED BY <2>1, <2>2, <2>3 DEF GmailTypeOK
<1>2. CASE ~(u # None /\ activeSessions[u] # None)
  BY <1>2 DEF endSession, GmailTypeOK
<1> QED BY <1>1, <1>2

\* Every step of a client's thread keeps the types (handleClient).
LEMMA ClientThreadTypeOK ==
    ASSUME GmailTypeOK, NEW c \in Conns, ClientThread(c)
    PROVE  GmailTypeOK'
<1> USE DEF GmailTypeOK
<1>1. conn[c] \in Connection
  OBVIOUS
<1>2. CASE accept(c)
  BY <1>1, <1>2 DEF accept, Connection, Phases, opTokenVars
<1>3. ASSUME NEW u \in Users, AuthRejected(c, u)
      PROVE  GmailTypeOK'
  BY <1>1, <1>3 DEF AuthRejected, Connection, opTokenVars
<1>4. ASSUME NEW u \in Users, NEW t \in SessionNonces, generateSessionToken(c, u, t)
      PROVE  GmailTypeOK'
  <2>1. now + SESSION_TOKEN_TTL_SECONDS \in Nat
    BY TimeAssumption
  <2> QED BY <1>4, <2>1 DEF generateSessionToken, SessionPayload, Connection, Phases, opTokenVars
<1>5. ASSUME NEW u \in Users, AuthAcceptedWithoutToken(c, u)
      PROVE  GmailTypeOK'
  BY <1>5 DEF AuthAcceptedWithoutToken, Connection, Phases, opTokenVars
<1>6. CASE startSession(c)
  <2>1. conn' \in [Conns -> Connection]
    BY <1>1, <1>6 DEF startSession, Connection, Phases
  <2>2. activeSessions' \in [Users -> SessionInfo \cup {None}]
    <3>1. conn[c].username \in Users /\ conn[c].token \in SessionNonces
      BY <1>6 DEF startSession
    <3>2. [token |-> conn[c].token, connected |-> TRUE] \in SessionInfo
      BY <3>1 DEF SessionInfo
    <3> QED BY <1>6, <3>1, <3>2 DEF startSession
  <2> QED BY <1>6, <2>1, <2>2 DEF startSession, opTokenVars
<1>7. CASE EndConnection(c)
  <2>1. conn[c].username \in Users \cup {None}
    BY <1>1 DEF Connection
  <2>2. activeSessions' \in [Users -> SessionInfo \cup {None}]
    BY <1>7, <2>1, EndSessionTypeOK DEF EndConnection
  <2>3. conn' \in [Conns -> Connection]
    BY <1>7 DEF EndConnection, Closed, Connection, Phases
  <2> QED BY <1>7, <2>2, <2>3 DEF EndConnection, Closed, opTokenVars
<1>8. ASSUME NEW scope \in Scopes, NEW n \in OpNonces, generateOperationToken(c, scope, n)
      PROVE  GmailTypeOK'
  <2>1. /\ conn[c].username \in Users
        /\ scope[1] \in kValidOps /\ scope[2] \in Targets
        /\ now + OP_TOKEN_TTL_SECONDS \in Nat
    BY <1>8, ScopesAssumption, TimeAssumption DEF generateOperationToken
  <2> DEFINE payload == [username |-> conn[c].username, operation |-> scope[1],
                         target_service |-> scope[2],
                         expires_at |-> now + OP_TOKEN_TTL_SECONDS]
             entry   == [username |-> payload.username, operation |-> payload.operation,
                         target_service |-> payload.target_service,
                         expires_at |-> payload.expires_at, used |-> FALSE]
  <2>2. payload \in OpPayload /\ entry \in OperationToken
    BY <2>1 DEF OpPayload, OperationToken
  <2>3. /\ opTokens' = [opTokens EXCEPT ![n] = payload]
        /\ activeOpTokens' = [activeOpTokens EXCEPT ![n] = entry]
        /\ UNCHANGED <<now, sessionVars>>
    BY <1>8 DEF generateOperationToken
  <2> HIDE DEF payload, entry
  <2> QED BY <2>2, <2>3 DEF sessionVars
<1> QED BY <1>2, <1>3, <1>4, <1>5, <1>6, <1>7, <1>8 DEF ClientThread

\* The initial state has the types.
LEMMA InitTypeOK == GmailInit => GmailTypeOK
BY DEF GmailInit, GmailTypeOK, Closed, Connection, Phases

\* The clock and a restart keep the types (main).
LEMMA EnvironmentTypeOK ==
    ASSUME GmailTypeOK, Tick \/ GmailRestart
    PROVE  GmailTypeOK'
<1>1. CASE Tick
  BY <1>1 DEF Tick, GmailTypeOK, sessionVars, opTokenVars
<1>2. CASE GmailRestart
  BY <1>2 DEF GmailRestart, GmailTypeOK, Closed, Connection, Phases
<1> QED BY <1>1, <1>2

\* Every variable of the Gmail server always has its type.
THEOREM GmailTypeCorrect == GmailSpec => []GmailTypeOK
<1>1. GmailTypeOK /\ [GmailNext]_gmailVars => GmailTypeOK'
  <2> SUFFICES ASSUME GmailTypeOK, [GmailNext]_gmailVars
               PROVE  GmailTypeOK'
    OBVIOUS
  <2>1. CASE Tick \/ GmailRestart
    BY <2>1, EnvironmentTypeOK
  <2>2. ASSUME NEW c \in Conns, ClientThread(c)
        PROVE  GmailTypeOK'
    BY <2>2, ClientThreadTypeOK
  <2>3. ASSUME NEW u \in Users, NEW scope \in Scopes, NEW n \in OpNonces,
               VerifyOp(u, scope, n)
        PROVE  GmailTypeOK'
    <3>1. activeOpTokens' \in [OpNonces -> OperationToken \cup {None}]
      BY <2>3, ConsumeTypeOK DEF VerifyOp
    <3> QED BY <2>3, <3>1 DEF VerifyOp, GmailTypeOK, sessionVars
  <2>4. CASE UNCHANGED gmailVars
    BY <2>4 DEF gmailVars, GmailTypeOK
  <2> QED BY <2>1, <2>2, <2>3, <2>4 DEF GmailNext
<1> QED BY <1>1, InitTypeOK, PTL DEF GmailSpec

-----------------------------------------------------------------------------
(* Sessions *)

\* No dead connection leaves a connected session behind: startSession enters
\* a session only for the connection it serves, and that connection ends
\* through endSession on its own user's entry.
THEOREM SessionsHaveConnections == GmailSpec => []ConnectedSessionHasItsConnection
<1> DEFINE Inv == ConnectedSessionHasItsConnection
           Serves(c, u) == conn[c] = [phase |-> "serving", username |-> u,
                                      token |-> activeSessions[u].token]
<1>1. GmailInit => Inv
  BY DEF GmailInit, ConnectedSessionHasItsConnection
<1>2. GmailTypeOK /\ Inv /\ [GmailNext]_gmailVars => Inv'
  <2> SUFFICES ASSUME GmailTypeOK, Inv, [GmailNext]_gmailVars,
                      NEW u \in Users, activeSessions'[u] # None, activeSessions'[u].connected
               PROVE  \E c \in Conns : Serves(c, u)'
    BY DEF ConnectedSessionHasItsConnection
  <2>1. CASE UNCHANGED <<conn, activeSessions>>
    BY <2>1 DEF ConnectedSessionHasItsConnection
  <2>2. ASSUME NEW c \in Conns, conn[c].phase # "serving",
               conn' = [conn EXCEPT ![c] = conn'[c]], UNCHANGED activeSessions
        PROVE  \E d \in Conns : Serves(d, u)'
    <3>1. PICK d \in Conns : Serves(d, u)
      BY <2>2 DEF ConnectedSessionHasItsConnection
    <3>2. d # c
      BY <2>2, <3>1
    <3> QED BY <2>2, <3>1, <3>2 DEF GmailTypeOK
  <2>3. ASSUME NEW c \in Conns, startSession(c)
        PROVE  \E d \in Conns : Serves(d, u)'
    <3>1. conn[c] \in Connection
      BY DEF GmailTypeOK
    <3>2. CASE u = conn[c].username
      <4>1. Serves(c, u)'
        BY <2>3, <3>1, <3>2 DEF startSession, Connection, GmailTypeOK
      <4> QED BY <4>1
    <3>3. CASE u # conn[c].username
      <4>1. activeSessions'[u] = activeSessions[u]
        BY <2>3, <3>3 DEF startSession, GmailTypeOK
      <4>2. PICK d \in Conns : Serves(d, u)
        BY <4>1 DEF ConnectedSessionHasItsConnection
      <4>3. d # c
        BY <2>3, <4>2 DEF startSession
      <4> QED BY <2>3, <4>1, <4>2, <4>3 DEF startSession, GmailTypeOK
    <3> QED BY <3>2, <3>3
  <2>4. ASSUME NEW c \in Conns, EndConnection(c)
        PROVE  \E d \in Conns : Serves(d, u)'
    <3>1. u # conn[c].username
      BY <2>4, NoneAssumption DEF EndConnection, endSession, GmailTypeOK, SessionInfo
    <3>2. activeSessions'[u] = activeSessions[u]
      BY <2>4, <3>1 DEF EndConnection, endSession, GmailTypeOK
    <3>3. PICK d \in Conns : Serves(d, u)
      BY <3>2 DEF ConnectedSessionHasItsConnection
    <3>4. d # c
      BY <3>1, <3>3
    <3> QED BY <2>4, <3>2, <3>3, <3>4 DEF EndConnection, GmailTypeOK
  <2>5. CASE GmailRestart
    BY <2>5 DEF GmailRestart
  <2>6. ASSUME NEW c \in Conns, ClientThread(c)
        PROVE  \E d \in Conns : Serves(d, u)'
    <3>1. ASSUME \/ accept(c)
                 \/ \E v \in Users : AuthRejected(c, v) \/ AuthAcceptedWithoutToken(c, v)
                 \/ \E v \in Users, t \in SessionNonces : generateSessionToken(c, v, t)
          PROVE  \E d \in Conns : Serves(d, u)'
      <4>1. /\ conn[c].phase # "serving"
            /\ conn' = [conn EXCEPT ![c] = conn'[c]]
            /\ UNCHANGED activeSessions
        BY <3>1 DEF accept, AuthRejected, AuthAcceptedWithoutToken, generateSessionToken, GmailTypeOK
      <4> QED BY <4>1, <2>2
    <3>2. CASE \E scope \in Scopes, n \in OpNonces : generateOperationToken(c, scope, n)
      BY <3>2, <2>1 DEF generateOperationToken, sessionVars
    <3> QED BY <2>6, <2>3, <2>4, <3>1, <3>2 DEF ClientThread
  <2> QED BY <2>1, <2>5, <2>6
          DEF GmailNext, Tick, VerifyOp, sessionVars, gmailVars
<1> QED BY <1>1, <1>2, GmailTypeCorrect, PTL DEF GmailSpec

\* A session that has ended is never accepted again: only startSession makes
\* a session valid, and only the one whose token it brings.
THEOREM SessionsDoNotRevive == GmailSpec => NoSessionRevival
<1> DEFINE Revival(u, t) ==
        /\ sessionTokens[t] # None
        /\ ~isSessionValid(u, t)
        /\ \A c \in Conns : ~(conn[c].phase = "starting" /\ conn[c].token = t)
        /\ isSessionValid(u, t)'
<1>1. GmailTypeOK /\ [GmailNext]_gmailVars
        => \A u \in Users, t \in SessionNonces : ~Revival(u, t)
  <2> SUFFICES ASSUME GmailTypeOK, [GmailNext]_gmailVars,
                      NEW u \in Users, NEW t \in SessionNonces, Revival(u, t)
               PROVE  FALSE
    OBVIOUS
  <2>1. now \in Nat /\ sessionTokens[t].expires_at \in Nat
    BY DEF GmailTypeOK, SessionPayload
  <2>2. ASSUME activeSessions'[u] = activeSessions[u], now' >= now,
               sessionTokens'[t] = sessionTokens[t], now' \in Nat
        PROVE  FALSE
    BY <2>1, <2>2 DEF isSessionValid
  <2>3. CASE Tick
    BY <2>1, <2>2, <2>3 DEF Tick, sessionVars
  <2>4. CASE GmailRestart
    BY <2>4 DEF GmailRestart, isSessionValid
  <2>5. ASSUME NEW c \in Conns, startSession(c)
        PROVE  FALSE
    <3>1. CASE u = conn[c].username
      BY <2>5, <3>1 DEF startSession, isSessionValid, GmailTypeOK
    <3>2. CASE u # conn[c].username
      BY <2>1, <2>2, <2>5, <3>2 DEF startSession, GmailTypeOK
    <3> QED BY <3>1, <3>2
  <2>6. ASSUME NEW c \in Conns, EndConnection(c)
        PROVE  FALSE
    <3>1. activeSessions'[u] = activeSessions[u] \/ ~activeSessions'[u].connected
      BY <2>6 DEF EndConnection, endSession, GmailTypeOK, SessionInfo
    <3> QED BY <2>1, <2>2, <2>6, <3>1 DEF EndConnection, isSessionValid
  <2>7. ASSUME NEW c \in Conns, NEW v \in Users, NEW s \in SessionNonces,
               generateSessionToken(c, v, s)
        PROVE  FALSE
    <3>1. s # t
      BY <2>7 DEF generateSessionToken
    <3> QED BY <2>1, <2>2, <2>7, <3>1 DEF generateSessionToken, GmailTypeOK
  <2>8. CASE UNCHANGED <<now, sessionTokens, activeSessions>>
    BY <2>1, <2>2, <2>8
  <2>9. ASSUME NEW c \in Conns, ClientThread(c)
        PROVE  FALSE
    <3>1. CASE \/ accept(c)
               \/ \E v \in Users : AuthRejected(c, v) \/ AuthAcceptedWithoutToken(c, v)
               \/ \E scope \in Scopes, n \in OpNonces : generateOperationToken(c, scope, n)
      BY <2>8, <3>1 DEF accept, AuthRejected, AuthAcceptedWithoutToken,
                        generateOperationToken, sessionVars
    <3> QED BY <2>5, <2>6, <2>7, <2>9, <3>1 DEF ClientThread
  <2> QED BY <2>3, <2>4, <2>8, <2>9
          DEF GmailNext, VerifyOp, sessionVars, gmailVars
<1>2. GmailTypeOK /\ [GmailNext]_gmailVars
        => [\A u \in Users, t \in SessionNonces :
              /\ sessionTokens[t] # None
              /\ ~isSessionValid(u, t)
              /\ \A c \in Conns : ~(conn[c].phase = "starting" /\ conn[c].token = t)
              => ~isSessionValid(u, t)']_gmailVars
  BY <1>1
<1> QED BY <1>2, GmailTypeCorrect, PTL DEF GmailSpec, NoSessionRevival

-----------------------------------------------------------------------------
(* Operation tokens *)

\* A token that was issued and is no longer good is never good again: the
\* clock does not go back, and no critical section clears used or makes an
\* entry for a nonce that was drawn before.
THEOREM OpTokensDoNotRevive == GmailSpec => OpTokenNeverRevived
<1>1. GmailTypeOK /\ [GmailNext]_gmailVars
        => \A n \in OpNonces : opTokens[n] # None /\ ~Spendable(n) => ~Spendable(n)'
  <2> SUFFICES ASSUME GmailTypeOK, [GmailNext]_gmailVars, NEW n \in OpNonces,
                      opTokens[n] # None, ~Spendable(n), Spendable(n)'
               PROVE  FALSE
    OBVIOUS
  <2>1. now \in Nat /\ (activeOpTokens[n] # None => activeOpTokens[n] \in OperationToken)
    BY DEF GmailTypeOK
  <2>2. ASSUME activeOpTokens'[n] = activeOpTokens[n], now' >= now, now' \in Nat
        PROVE  FALSE
    BY <2>1, <2>2 DEF Spendable, OperationToken
  <2>3. CASE Tick
    BY <2>1, <2>2, <2>3 DEF Tick, opTokenVars
  <2>4. CASE GmailRestart
    BY <2>4 DEF GmailRestart, Spendable
  <2>5. ASSUME NEW u, NEW op, NEW target, NEW m \in OpNonces,
               consume(u, op, target, m), UNCHANGED now
        PROVE  FALSE
    <3>1. activeOpTokens'[n] = activeOpTokens[n] \/ activeOpTokens'[n].used
      BY <2>1, <2>5 DEF consume, GmailTypeOK, OpTokenValid, OperationToken
    <3> QED BY <2>1, <2>2, <2>5, <3>1 DEF Spendable
  <2>6. ASSUME NEW c \in Conns, ClientThread(c)
        PROVE  FALSE
    <3>1. ASSUME NEW scope \in Scopes, NEW m \in OpNonces, generateOperationToken(c, scope, m)
          PROVE  FALSE
      <4>1. m # n
        BY <3>1 DEF generateOperationToken
      <4>2. activeOpTokens'[n] = activeOpTokens[n] /\ UNCHANGED now
        BY <3>1, <4>1 DEF generateOperationToken, GmailTypeOK
      <4> QED BY <2>1, <2>2, <4>2
    <3>2. CASE UNCHANGED <<now, activeOpTokens>>
      BY <2>1, <2>2, <3>2
    <3> QED BY <2>6, <3>1, <3>2
            DEF ClientThread, accept, AuthRejected, generateSessionToken,
                AuthAcceptedWithoutToken, startSession, EndConnection, opTokenVars
  <2>7. CASE UNCHANGED gmailVars
    BY <2>1, <2>2, <2>7 DEF gmailVars
  <2> QED BY <2>3, <2>4, <2>5, <2>6, <2>7 DEF GmailNext, VerifyOp
<1>2. GmailTypeOK /\ [GmailNext]_gmailVars
        => [\A n \in OpNonces : opTokens[n] # None /\ ~Spendable(n) => ~Spendable(n)']_gmailVars
  BY <1>1
<1> QED BY <1>2, GmailTypeCorrect, PTL DEF GmailSpec, OpTokenNeverRevived

=============================================================================
