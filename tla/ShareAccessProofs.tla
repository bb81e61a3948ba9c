------------------------- MODULE ShareAccessProofs -------------------------
(***************************************************************************)
(* What holds of the share servers' gates for any users, threads, tokens   *)
(* and shares.  The inductive invariant is IInv below: TypeOK, and what    *)
(* ties the state of an operation token (opTokens, activeOpTokens) to the  *)
(* threads that hold it and to the operations it has paid for.             *)
(***************************************************************************)
EXTENDS ShareAccess, GmailServerProofs

\* Consumed, or forgotten by a restart: VERIFY_OP will not answer VALID.
Gone(n) == activeOpTokens[n] = None \/ activeOpTokens[n].used

\* A nonce that was not drawn yet has left no trace.
Fresh == \A n \in OpNonces :
            opTokens[n] = None => activeOpTokens[n] = None /\ performed[n] = 0

\* The map's entry says what was signed into the token.
Backed == \A n \in OpNonces : activeOpTokens[n] # None =>
            /\ opTokens[n] # None
            /\ activeOpTokens[n].username = opTokens[n].username
            /\ activeOpTokens[n].operation = opTokens[n].operation
            /\ activeOpTokens[n].target_service = opTokens[n].target_service

\* A granted thread's token is gone, and has paid for nothing yet ...
Held == \A th \in Threads : thr[th].pc = "granted" =>
            /\ opTokens[thr[th].op_token] # None
            /\ Gone(thr[th].op_token)
            /\ performed[thr[th].op_token] = 0

\* ... and it is the only thread that holds it.
Unique == \A a, b \in Threads :
            /\ thr[a].pc = "granted" /\ thr[b].pc = "granted"
            /\ thr[a].op_token = thr[b].op_token
            => a = b

\* A token that has paid for an operation is gone.
Spent == \A n \in OpNonces : performed[n] > 0 => Gone(n)

Tokens == Fresh /\ Backed /\ Held /\ Unique /\ Spent /\ AtMostOnce /\ GrantMatchesToken

IInv == TypeOK /\ Tokens

-----------------------------------------------------------------------------
(* Types *)

\* What TypeOK says of one thread.
ThreadTypeOK(th, t) ==
    /\ t \in ThreadState
    /\ t.pc # "idle" =>
         /\ t.operation \in ServedBy[ServerOf(th)]
         /\ t.username \in Users
         /\ t.op_token \in OpNonces
         /\ t.share = None => t.operation \in {"FETCH_SHARE1", "GET_SHARE"}

\* The type invariant, thread by thread.
LEMMA ThreadTypes ==
    ASSUME NEW th \in Threads, TypeOK
    PROVE  ThreadTypeOK(th, thr[th])
BY DEF TypeOK, ThreadTypeOK

\* A thread that handles no request has its type.
LEMMA IdleTypeOK == ASSUME NEW th \in Threads PROVE ThreadTypeOK(th, Idle)
BY DEF ThreadTypeOK, ThreadState, Idle

\* Every thread runs on one of the two share servers.
LEMMA ServerOfType ==
    ASSUME NEW th \in Threads
    PROVE  ServerOf(th) \in Targets /\ ServedBy[ServerOf(th)] \subseteq kValidOps
BY DEF ServerOf, Targets, ServedBy, kValidOps

\* A thread that waits has sent a well-formed VERIFY_OP request.
LEMMA VerifyOpRequestType ==
    ASSUME TypeOK, NEW th \in Threads, thr[th].pc # "idle"
    PROVE  VerifyOpRequest(th) \in VerifyOpRequests
BY ThreadTypes, ServerOfType DEF VerifyOpRequest, VerifyOpRequests, ThreadTypeOK

\* The VERIFY_OP requests of threads that stop waiting are well formed.
LEMMA AbandonTypeOK ==
    ASSUME TypeOK, NEW ths, ths \subseteq Threads, abandon(ths)
    PROVE  abandoned' \subseteq VerifyOpRequests
BY VerifyOpRequestType DEF abandon, TypeOK

\* A thread's step keeps the types when it keeps those it can disturb.
LEMMA ThreadStepTypeOK ==
    ASSUME TypeOK, NEW th \in Threads, NEW t, ThreadTypeOK(th, t),
           thr' = [thr EXCEPT ![th] = t], GmailTypeOK',
           abandoned' \subseteq VerifyOpRequests,
           store' \in [Targets -> [Users -> Shares \cup {None}]],
           performed' \in [OpNonces -> Nat]
    PROVE  TypeOK'
BY DEF TypeOK, ThreadTypeOK

\* What leaves the Gmail server alone keeps its types.
LEMMA GmailUnchangedTypeOK ==
    ASSUME TypeOK, UNCHANGED gmailVars PROVE GmailTypeOK'
BY DEF TypeOK, GmailTypeOK, gmailVars

\* The locked sections: storing a share, then the answer.
LEMMA PersistTypeOK ==
    ASSUME TypeOK, NEW srv \in Targets, NEW u \in Users, NEW s \in Shares,
           persist(srv, u, s)
    PROVE  store' \in [Targets -> [Users -> Shares \cup {None}]]
BY DEF persist, TypeOK

\* Carrying an operation out keeps the types of what it changes.
LEMMA CarryOutTypeOK ==
    ASSUME TypeOK, NEW th \in Threads, carryOut(th),
           store' \in [Targets -> [Users -> Shares \cup {None}]]
    PROVE  TypeOK'
<1>1. thr[th].op_token \in OpNonces
  BY ThreadTypes DEF carryOut, ThreadTypeOK
<1>2. performed' \in [OpNonces -> Nat]
  BY <1>1 DEF carryOut, TypeOK
<1>3. thr' = [thr EXCEPT ![th] = Idle] /\ UNCHANGED gmailVars /\ abandoned' \subseteq VerifyOpRequests
  BY DEF carryOut, TypeOK
<1> QED BY <1>2, <1>3, IdleTypeOK, GmailUnchangedTypeOK, ThreadStepTypeOK

\* The gates: each leaves the thread waiting, granted or idle.
LEMMA GatesTypeOK ==
    ASSUME TypeOK, NEW th \in Threads, Gates(th)
    PROVE  TypeOK'
<1>1. ASSUME NEW r \in Requests(th), verifyWithGmailServer(th, r)
      PROVE  TypeOK'
  <2> DEFINE t == [pc |-> "waiting", operation |-> r.operation, username |-> r.username,
                   op_token |-> r.op_token, share |-> r.share]
  <2>1. ThreadTypeOK(th, t)
    BY ServerOfType DEF Requests, ThreadTypeOK, ThreadState
  <2>2. /\ thr' = [thr EXCEPT ![th] = t]
        /\ UNCHANGED <<gmailVars, abandoned, store, performed>>
    BY <1>1 DEF verifyWithGmailServer
  <2> HIDE DEF t
  <2> QED BY <2>1, <2>2, GmailUnchangedTypeOK, ThreadStepTypeOK DEF TypeOK
<1>2. CASE verifyOperationToken(th)
  <2> DEFINE v == VerifyOpRequest(th)
             t == IF OpTokenValid(v.username, v.operation, v.target_service, v.op_token)
                  THEN [thr[th] EXCEPT !.pc = "granted"] ELSE Idle
  <2>1. /\ thr[th].pc = "waiting"
        /\ consume(v.username, v.operation, v.target_service, v.op_token)
        /\ thr' = [thr EXCEPT ![th] = t]
        /\ UNCHANGED <<now, sessionVars, opTokens, abandoned, store, performed>>
    BY <1>2 DEF verifyOperationToken
  <2>2. v.op_token \in OpNonces
    BY <2>1, VerifyOpRequestType DEF VerifyOpRequests
  <2>3. GmailTypeOK'
    <3>1. activeOpTokens' \in [OpNonces -> OperationToken \cup {None}]
      BY <2>1, <2>2, ConsumeTypeOK DEF TypeOK
    <3> QED BY <2>1, <3>1 DEF TypeOK, GmailTypeOK, sessionVars
  <2>4. ThreadTypeOK(th, t)
    <3>1. ThreadTypeOK(th, [thr[th] EXCEPT !.pc = "granted"])
      BY <2>1, ThreadTypes DEF ThreadTypeOK, ThreadState
    <3> QED BY <3>1, IdleTypeOK
  <2> HIDE DEF v, t
  <2> QED BY <2>1, <2>3, <2>4, ThreadStepTypeOK DEF TypeOK
<1>3. CASE giveUp(th)
  <2>1. abandoned' \subseteq VerifyOpRequests
    BY <1>3, AbandonTypeOK DEF giveUp
  <2> QED BY <1>3, <2>1, IdleTypeOK, GmailUnchangedTypeOK, ThreadStepTypeOK DEF giveUp, TypeOK
<1> QED BY <1>1, <1>2, <1>3 DEF Gates

\* The six handlers of the share servers.
Handler(th) ==
    \/ storeShare1(th) \/ fetchShare1(th) \/ updateShare1(th)
    \/ storeShare(th) \/ getShare(th) \/ updateShare(th)

\* Every handler keeps the types.
LEMMA HandlerTypeOK ==
    ASSUME TypeOK, NEW th \in Threads, Handler(th)
    PROVE  TypeOK'
<1> DEFINE StoreOK == store' \in [Targets -> [Users -> Shares \cup {None}]]
<1>1. carryOut(th) /\ thr[th].pc = "granted"
  BY DEF Handler, storeShare1, fetchShare1, updateShare1, storeShare, getShare, updateShare, carryOut
<1>2. ThreadTypeOK(th, thr[th])
  BY ThreadTypes
<1>3. thr[th].username \in Users
  BY <1>1, <1>2 DEF ThreadTypeOK
<1>4. ASSUME thr[th].operation \notin {"FETCH_SHARE1", "GET_SHARE"}
      PROVE  thr[th].share \in Shares
  BY <1>1, <1>2, <1>4 DEF ThreadTypeOK, ThreadState
<1>5. ASSUME NEW srv \in Targets, thr[th].share \in Shares,
             \/ persist(srv, thr[th].username, thr[th].share)
             \/ storeUnlessPresent(srv, thr[th].username, thr[th].share)
      PROVE  StoreOK
  BY <1>3, <1>5, PersistTypeOK DEF storeUnlessPresent, TypeOK
<1>6. ASSUME storeShare1(th) \/ updateShare1(th) PROVE StoreOK
  BY <1>4, <1>5, <1>6 DEF storeShare1, updateShare1, Targets
<1>7. ASSUME storeShare(th) \/ updateShare(th) PROVE StoreOK
  BY <1>4, <1>5, <1>7 DEF storeShare, updateShare, Targets
<1>8. ASSUME fetchShare1(th) \/ getShare(th) PROVE StoreOK
  BY <1>8 DEF fetchShare1, getShare, TypeOK
<1>9. StoreOK
  BY <1>6, <1>7, <1>8 DEF Handler
<1> QED BY <1>1, <1>9, CarryOutTypeOK

\* Every step of the share servers and the Gmail server keeps the types.
LEMMA TypeInvariant == TypeOK /\ [Next]_vars => TypeOK'
<1> SUFFICES ASSUME TypeOK, [Next]_vars PROVE TypeOK'
  OBVIOUS
<1>1. GmailTypeOK
  BY DEF TypeOK
<1>2. ASSUME GmailTypeOK', UNCHANGED <<thr, store, performed>>,
             abandoned' \subseteq VerifyOpRequests
      PROVE  TypeOK'
  BY <1>2 DEF TypeOK
<1>3. CASE Gmail
  <2>1. GmailTypeOK'
    BY <1>1, <1>3, ClientThreadTypeOK, EnvironmentTypeOK DEF Gmail
  <2> QED BY <1>2, <1>3, <2>1 DEF Gmail, shareVars, TypeOK
<1>4. ASSUME NEW v \in abandoned, handleAbandonedVerifyOp(v)
      PROVE  TypeOK'
  <2>1. v.op_token \in OpNonces
    BY DEF TypeOK, VerifyOpRequests
  <2>2. activeOpTokens' \in [OpNonces -> OperationToken \cup {None}]
    BY <1>1, <1>4, <2>1, ConsumeTypeOK DEF handleAbandonedVerifyOp
  <2>3. GmailTypeOK'
    BY <1>1, <1>4, <2>2 DEF handleAbandonedVerifyOp, GmailTypeOK, sessionVars
  <2> QED BY <1>2, <1>4, <2>3 DEF handleAbandonedVerifyOp, TypeOK
<1>5. ASSUME NEW th \in Threads, Gates(th) \/ Handler(th)
      PROVE  TypeOK'
  BY <1>5, GatesTypeOK, HandlerTypeOK
<1>6. ASSUME NEW srv \in Targets, ShareServerRestart(srv)
      PROVE  TypeOK'
  <2> DEFINE mine == {th \in Threads : ServerOf(th) = srv}
  <2>1. abandoned' \subseteq VerifyOpRequests
    BY <1>6, AbandonTypeOK DEF ShareServerRestart
  <2>2. \A th \in Threads : thr'[th] = Idle \/ thr'[th] = thr[th]
    BY <1>6 DEF ShareServerRestart
  <2>3. \A th \in Threads : ThreadTypeOK(th, thr'[th])
    BY <2>2, ThreadTypes, IdleTypeOK
  <2>4. thr' \in [Threads -> ThreadState]
    BY <1>6, <2>3 DEF ShareServerRestart, ThreadTypeOK
  <2> QED BY <1>6, <2>1, <2>3, <2>4, GmailUnchangedTypeOK
          DEF ShareServerRestart, TypeOK, ThreadTypeOK
<1>7. CASE UNCHANGED vars
  BY <1>2, <1>7, GmailUnchangedTypeOK DEF vars, shareVars, TypeOK
<1> QED BY <1>3, <1>4, <1>5, <1>6, <1>7
        DEF Next, KeyServerThread, RecoveryServerThread, Handler, Threads

\* Every variable of the share servers always has its type, and no thread is
\* past a gate without what the gate looked at.
THEOREM TypeCorrect == Spec => []TypeOK
<1>1. Init => TypeOK
  BY InitTypeOK DEF Init, TypeOK, Idle, ThreadState
<1> QED BY <1>1, TypeInvariant, PTL DEF Spec

-----------------------------------------------------------------------------
(* Operation tokens and what they pay for *)

\* A step preserves Tokens when it grants nothing, carries nothing out and
\* at most uses up or forgets entries of activeOpTokens.
LEMMA NothingGranted ==
    ASSUME TypeOK, Tokens, UNCHANGED <<opTokens, performed>>,
           \A th \in Threads : thr'[th].pc = "granted" => thr'[th] = thr[th],
           \A n \in OpNonces :
              \/ activeOpTokens'[n] = activeOpTokens[n]
              \/ activeOpTokens'[n] = None
              \/ /\ activeOpTokens[n] # None
                 /\ activeOpTokens'[n] = [activeOpTokens[n] EXCEPT !.used = TRUE]
    PROVE  Tokens'
<1> USE DEF Tokens
<1>1. \A th \in Threads : thr[th].pc = "granted" => thr[th].op_token \in OpNonces
  BY ThreadTypes DEF ThreadTypeOK
<1>2. \A n \in OpNonces : activeOpTokens[n] # None => activeOpTokens[n] \in OperationToken
  BY DEF TypeOK, GmailTypeOK
<1>3. \A n \in OpNonces : Gone(n) => Gone(n)'
  BY <1>2 DEF Gone, OperationToken
<1>4. Fresh'
  BY DEF Fresh
<1>5. Backed'
  BY <1>2 DEF Backed, OperationToken
<1>6. Held'
  BY <1>1, <1>3 DEF Held
<1>7. Unique'
  BY DEF Unique
<1>8. Spent' /\ AtMostOnce'
  BY <1>3 DEF Spent, AtMostOnce
<1>9. GrantMatchesToken'
  BY DEF GrantMatchesToken
<1> QED BY <1>4, <1>5, <1>6, <1>7, <1>8, <1>9

\* What consume does to the map, whatever its arguments.
LEMMA ConsumeUsesUp ==
    ASSUME TypeOK, NEW u, NEW op, NEW target, NEW m \in OpNonces, consume(u, op, target, m),
           NEW n \in OpNonces
    PROVE  \/ activeOpTokens'[n] = activeOpTokens[n]
           \/ /\ activeOpTokens[n] # None
              /\ activeOpTokens'[n] = [activeOpTokens[n] EXCEPT !.used = TRUE]
BY DEF consume, OpTokenValid, TypeOK, GmailTypeOK

\* A thread's step to a state that is not granted grants nothing.
LEMMA NotGranted ==
    ASSUME TypeOK, NEW th \in Threads, NEW t, thr' = [thr EXCEPT ![th] = t], t.pc # "granted",
           NEW x \in Threads, thr'[x].pc = "granted"
    PROVE  thr'[x] = thr[x]
BY DEF TypeOK

\* A new operation token is unused, and its nonce has left no trace so far.
LEMMA IssueKeepsTokens ==
    ASSUME TypeOK, Tokens, NEW c \in Conns, NEW scope \in Scopes, NEW n \in OpNonces,
           generateOperationToken(c, scope, n), UNCHANGED shareVars
    PROVE  Tokens'
<1> DEFINE payload == [username |-> conn[c].username, operation |-> scope[1],
                       target_service |-> scope[2],
                       expires_at |-> now + OP_TOKEN_TTL_SECONDS]
           entry   == [username |-> payload.username, operation |-> payload.operation,
                       target_service |-> payload.target_service,
                       expires_at |-> payload.expires_at, used |-> FALSE]
<1>1. /\ opTokens[n] = None
      /\ opTokens' = [opTokens EXCEPT ![n] = payload]
      /\ activeOpTokens' = [activeOpTokens EXCEPT ![n] = entry]
      /\ UNCHANGED <<thr, performed>>
  BY DEF generateOperationToken, shareVars
<1>2. payload # None /\ entry # None
  <2>1. conn[c].username \in Users /\ now + OP_TOKEN_TTL_SECONDS \in Nat
    BY TimeAssumption DEF generateOperationToken, TypeOK, GmailTypeOK
  <2>2. scope[1] \in kValidOps /\ scope[2] \in Targets
    BY ScopesAssumption
  <2>3. payload \in OpPayload /\ entry \in OperationToken
    BY <2>1, <2>2 DEF OpPayload, OperationToken
  <2> HIDE DEF payload, entry
  <2> QED BY <2>3, NoneIsNoPayload
<1>3. /\ entry.username = payload.username
      /\ entry.operation = payload.operation
      /\ entry.target_service = payload.target_service
  OBVIOUS
<1>4. opTokens'[n] = payload /\ activeOpTokens'[n] = entry
  BY <1>1 DEF TypeOK, GmailTypeOK
<1>5. \A m \in OpNonces \ {n} :
         opTokens'[m] = opTokens[m] /\ activeOpTokens'[m] = activeOpTokens[m]
  BY <1>1 DEF TypeOK, GmailTypeOK
<1>6. performed[n] = 0 /\ \A th \in Threads :
         thr[th].pc = "granted" => thr[th].op_token \in OpNonces \ {n}
  BY <1>1, ThreadTypes DEF Tokens, Fresh, Held, ThreadTypeOK
<1> HIDE DEF payload, entry
<1> USE DEF Tokens
<1>7. Fresh' /\ Backed'
  BY <1>1, <1>2, <1>3, <1>4, <1>5 DEF Fresh, Backed
<1>8. Held' /\ Unique' /\ GrantMatchesToken'
  BY <1>1, <1>5, <1>6 DEF Held, Unique, GrantMatchesToken, Gone
<1>9. Spent' /\ AtMostOnce'
  BY <1>1, <1>5, <1>6 DEF Spent, AtMostOnce, Gone
<1> QED BY <1>7, <1>8, <1>9

\* The Gmail server's own steps.
LEMMA GmailKeepsTokens ==
    ASSUME TypeOK, Tokens, Gmail
    PROVE  Tokens'
<1>1. CASE UNCHANGED <<opTokens, activeOpTokens, thr, performed>>
  BY <1>1, NothingGranted
<1>2. CASE GmailRestart /\ UNCHANGED <<thr, performed>>
  BY <1>2, NothingGranted DEF GmailRestart
<1>3. ASSUME NEW c \in Conns, ClientThread(c), UNCHANGED shareVars
      PROVE  Tokens'
  BY <1>1, <1>3, IssueKeepsTokens
     DEF ClientThread, accept, AuthRejected, generateSessionToken,
         AuthAcceptedWithoutToken, startSession, EndConnection, opTokenVars, shareVars
<1> QED BY <1>1, <1>2, <1>3 DEF Gmail, Tick, opTokenVars, shareVars

\* VERIFY_OP answered VALID: the token was unused until now, so no other
\* thread holds it and it has paid for nothing.
LEMMA VerifyKeepsTokens ==
    ASSUME TypeOK, Tokens, NEW th \in Threads, verifyOperationToken(th)
    PROVE  Tokens'
<1> DEFINE v == VerifyOpRequest(th)
<1>1. PICK n \in OpNonces : n = thr[th].op_token /\ n = v.op_token
  BY VerifyOpRequestType DEF VerifyOpRequests, VerifyOpRequest, verifyOperationToken
<1>2. /\ thr[th].pc = "waiting"
      /\ consume(v.username, v.operation, v.target_service, n)
      /\ UNCHANGED <<opTokens, performed>>
  BY <1>1 DEF verifyOperationToken
<1>3. CASE ~OpTokenValid(v.username, v.operation, v.target_service, n)
  <2>1. thr' = [thr EXCEPT ![th] = Idle]
    BY <1>1, <1>3 DEF verifyOperationToken
  <2>2. Idle.pc # "granted"
    BY DEF Idle
  <2> QED BY <1>1, <1>2, <2>1, <2>2, ConsumeUsesUp, NotGranted, NothingGranted
<1>4. CASE OpTokenValid(v.username, v.operation, v.target_service, n)
  <2>1. /\ activeOpTokens[n] # None /\ ~activeOpTokens[n].used
        /\ activeOpTokens[n].username = thr[th].username
        /\ activeOpTokens[n].operation = thr[th].operation
        /\ activeOpTokens[n].target_service = ServerOf(th)
    BY <1>1, <1>4 DEF OpTokenValid, VerifyOpRequest
  <2>2. activeOpTokens[n] \in OperationToken
    BY <2>1 DEF TypeOK, GmailTypeOK
  <2>3. /\ opTokens[n] # None /\ performed[n] = 0
        /\ opTokens[n].username = thr[th].username
        /\ opTokens[n].operation = thr[th].operation
        /\ opTokens[n].target_service = ServerOf(th)
        /\ \A x \in Threads : thr[x].pc = "granted" => thr[x].op_token # n
    BY <2>1 DEF Tokens, Backed, Held, Spent, Gone, TypeOK
  <2>4. activeOpTokens' = [activeOpTokens EXCEPT ![n] = [activeOpTokens[n] EXCEPT !.used = TRUE]]
    BY <1>2, <1>4 DEF consume
  <2>5. thr' = [thr EXCEPT ![th] = [thr[th] EXCEPT !.pc = "granted"]]
    BY <1>1, <1>4 DEF verifyOperationToken
  <2>6. /\ thr'[th].pc = "granted" /\ thr'[th].op_token = n
        /\ thr'[th].username = thr[th].username /\ thr'[th].operation = thr[th].operation
        /\ \A x \in Threads \ {th} : thr'[x] = thr[x]
    BY <1>1, <2>5, ThreadTypes DEF TypeOK, ThreadTypeOK, ThreadState
  <2>7. \A m \in OpNonces : Gone(m) => Gone(m)'
    BY <2>2, <2>4 DEF Gone, TypeOK, GmailTypeOK, OperationToken
  <2>8. Gone(n)'
    BY <2>2, <2>4 DEF Gone, TypeOK, GmailTypeOK, OperationToken
  <2>9. \A x \in Threads : thr[x].pc = "granted" => thr[x].op_token \in OpNonces
    BY ThreadTypes DEF ThreadTypeOK
  <2> HIDE DEF v
  <2> USE DEF Tokens
  <2>10. Fresh' /\ Backed'
    BY <1>2, <2>1, <2>2, <2>3, <2>4 DEF Fresh, Backed, TypeOK, GmailTypeOK, OperationToken
  <2>11. Held' /\ Unique'
    BY <1>2, <2>3, <2>6, <2>7, <2>8, <2>9 DEF Held, Unique
  <2>12. Spent' /\ AtMostOnce'
    BY <1>2, <2>7 DEF Spent, AtMostOnce
  <2>13. GrantMatchesToken'
    BY <1>2, <2>3, <2>6 DEF GrantMatchesToken
  <2> QED BY <2>10, <2>11, <2>12, <2>13
<1> QED BY <1>3, <1>4

\* Carrying the operation out: the thread lets go of its token, which pays
\* for the first time.
LEMMA CarryOutKeepsTokens ==
    ASSUME TypeOK, Tokens, NEW th \in Threads, carryOut(th)
    PROVE  Tokens'
<1> DEFINE n == thr[th].op_token
<1>1. /\ thr[th].pc = "granted"
      /\ performed' = [performed EXCEPT ![n] = performed[n] + 1]
      /\ thr' = [thr EXCEPT ![th] = Idle]
      /\ UNCHANGED <<opTokens, activeOpTokens>>
  BY DEF carryOut, gmailVars
<1>2. n \in OpNonces
  BY <1>1, ThreadTypes DEF ThreadTypeOK
<1>3. opTokens[n] # None /\ Gone(n) /\ performed[n] = 0
  BY <1>1 DEF Tokens, Held
<1>4. performed'[n] = 1 /\ \A m \in OpNonces \ {n} : performed'[m] = performed[m]
  BY <1>1, <1>2, <1>3 DEF TypeOK
<1>5. \A x \in Threads : thr'[x].pc = "granted" =>
         /\ thr'[x] = thr[x]
         /\ thr[x].op_token \in OpNonces \ {n}
  BY <1>1, ThreadTypes DEF Tokens, Unique, TypeOK, Idle, ThreadTypeOK
<1> HIDE DEF n
<1> USE DEF Tokens
<1>6. Fresh' /\ Backed'
  BY <1>1, <1>3, <1>4 DEF Fresh, Backed
<1>7. Held' /\ Unique' /\ GrantMatchesToken'
  BY <1>1, <1>4, <1>5 DEF Held, Unique, GrantMatchesToken, Gone
<1>8. Spent' /\ AtMostOnce'
  BY <1>1, <1>3, <1>4 DEF Spent, AtMostOnce, Gone
<1> QED BY <1>6, <1>7, <1>8

\* IInv is inductive.
LEMMA InductiveInvariant == IInv /\ [Next]_vars => IInv'
<1> SUFFICES ASSUME TypeOK, Tokens, [Next]_vars PROVE Tokens'
  BY TypeInvariant DEF IInv
<1>1. CASE Gmail
  BY <1>1, GmailKeepsTokens
<1>2. ASSUME NEW v \in abandoned, handleAbandonedVerifyOp(v)
      PROVE  Tokens'
  <2>1. v.op_token \in OpNonces
    BY DEF TypeOK, VerifyOpRequests
  <2> QED BY <1>2, <2>1, ConsumeUsesUp, NothingGranted DEF handleAbandonedVerifyOp
<1>3. ASSUME NEW th \in Threads, NEW r \in Requests(th), verifyWithGmailServer(th, r)
      PROVE  Tokens'
  BY <1>3, NotGranted, NothingGranted DEF verifyWithGmailServer, gmailVars
<1>4. ASSUME NEW th \in Threads, giveUp(th)
      PROVE  Tokens'
  <2>1. Idle.pc # "granted"
    BY DEF Idle
  <2> QED BY <1>4, <2>1, NotGranted, NothingGranted DEF giveUp, gmailVars
<1>5. ASSUME NEW th \in Threads, Gates(th)
      PROVE  Tokens'
  BY <1>3, <1>4, <1>5, VerifyKeepsTokens DEF Gates
<1>6. ASSUME NEW th \in Threads, Handler(th)
      PROVE  Tokens'
  BY <1>6, CarryOutKeepsTokens
     DEF Handler, storeShare1, fetchShare1, updateShare1, storeShare, getShare, updateShare
<1>7. ASSUME NEW srv \in Targets, ShareServerRestart(srv)
      PROVE  Tokens'
  <2>1. \A th \in Threads : thr'[th].pc = "granted" => thr'[th] = thr[th]
    BY <1>7 DEF ShareServerRestart, Idle
  <2> QED BY <1>7, <2>1, NothingGranted DEF ShareServerRestart, gmailVars
<1>8. CASE UNCHANGED vars
  BY <1>8, NothingGranted DEF vars, gmailVars, shareVars
<1> QED BY <1>1, <1>2, <1>5, <1>6, <1>7, <1>8
        DEF Next, KeyServerThread, RecoveryServerThread, Handler, Threads

\* IInv always holds.
LEMMA InvariantHolds == Spec => []IInv
<1>1. Init => IInv
  <2>1. Init => TypeOK
    BY InitTypeOK DEF Init, TypeOK, Idle, ThreadState
  <2>2. Init => Tokens
    BY DEF Init, GmailInit, Tokens, Fresh, Backed, Held, Unique, Spent, AtMostOnce,
           GrantMatchesToken, Idle
  <2> QED BY <2>1, <2>2 DEF IInv
<1> QED BY <1>1, InductiveInvariant, PTL DEF Spec

\* An operation token pays for one operation in its whole life.
THEOREM OneOperationPerToken == Spec => []AtMostOnce
<1>1. IInv => AtMostOnce
  BY DEF IInv, Tokens
<1> QED BY <1>1, InvariantHolds, PTL

\* What a server carries out is what the token it rests on was issued for.
THEOREM NoGrantBeyondToken == Spec => []GrantMatchesToken
<1>1. IInv => GrantMatchesToken
  BY DEF IInv, Tokens
<1> QED BY <1>1, InvariantHolds, PTL

-----------------------------------------------------------------------------
(* Refinement: every step is a step of ShareAuthority or leaves it alone *)

\* A step that issues and stores nothing, and makes no grant live, is a lapse
\* of grants or nothing at all.
LEMMA LapseOrStutter ==
    ASSUME UNCHANGED <<opTokens, store>>, LiveGrants' \subseteq LiveGrants
    PROVE  [Authority!Next]_Authority!vars
<1>1. CASE LiveGrants' = LiveGrants
  BY <1>1 DEF Authority!vars
<1>2. CASE LiveGrants' # LiveGrants
  <2> DEFINE S == LiveGrants \ LiveGrants'
  <2>1. S \in SUBSET LiveGrants /\ S # {} /\ LiveGrants' = LiveGrants \ S
    BY <1>2
  <2>2. Authority!Lapse
    BY <2>1 DEF Authority!Lapse
  <2> QED BY <2>2 DEF Authority!Next
<1> QED BY <1>1, <1>2

\* When no token becomes spendable, and every thread that is granted was so on
\* the same token or takes a spendable one, no grant becomes live.
LEMMA NoGrantBecomesLive ==
    ASSUME \A n \in OpNonces : Spendable(n)' => Spendable(n),
           \A th \in Threads : thr'[th].pc = "granted" =>
              \/ thr[th].pc = "granted" /\ thr'[th].op_token = thr[th].op_token
              \/ Spendable(thr'[th].op_token)
    PROVE  LiveGrants' \subseteq LiveGrants
BY DEF LiveGrants

\* The map of operation tokens after a restart, or after consume, or later.
LEMMA NoneBecomesSpendable ==
    ASSUME TypeOK, now' \in Nat, now' >= now,
           \A n \in OpNonces :
              \/ activeOpTokens'[n] = activeOpTokens[n]
              \/ activeOpTokens'[n] = None
              \/ /\ activeOpTokens[n] # None
                 /\ activeOpTokens'[n] = [activeOpTokens[n] EXCEPT !.used = TRUE]
    PROVE  \A n \in OpNonces : Spendable(n)' => Spendable(n)
<1> SUFFICES ASSUME NEW n \in OpNonces, Spendable(n)'
             PROVE  Spendable(n)
  OBVIOUS
<1>1. now \in Nat /\ (activeOpTokens[n] # None => activeOpTokens[n] \in OperationToken)
  BY DEF TypeOK, GmailTypeOK
<1>2. activeOpTokens'[n] = activeOpTokens[n]
  BY <1>1 DEF Spendable, OperationToken
<1> QED BY <1>1, <1>2 DEF Spendable, OperationToken

\* Issuing an operation token issues a grant.
LEMMA IssueIsIssue ==
    ASSUME TypeOK, NEW c \in Conns, NEW scope \in Scopes, NEW n \in OpNonces,
           generateOperationToken(c, scope, n), UNCHANGED shareVars
    PROVE  Authority!Next
<1> DEFINE u == conn[c].username
           payload == [username |-> u, operation |-> scope[1], target_service |-> scope[2],
                       expires_at |-> now + OP_TOKEN_TTL_SECONDS]
           entry   == [username |-> payload.username, operation |-> payload.operation,
                       target_service |-> payload.target_service,
                       expires_at |-> payload.expires_at, used |-> FALSE]
           G == [m \in OpNonces |-> IF opTokens[m] = None THEN None ELSE GrantOf(opTokens[m])]
<1>1. /\ u \in Users /\ scope[1] \in kValidOps /\ scope[2] \in Targets
      /\ now \in Nat /\ now + OP_TOKEN_TTL_SECONDS \in Nat
  BY ScopesAssumption, TimeAssumption DEF generateOperationToken, TypeOK, GmailTypeOK
<1>2. payload \in OpPayload /\ entry \in OperationToken
  BY <1>1 DEF OpPayload, OperationToken
<1>3. payload # None /\ entry # None
  <2> HIDE DEF payload, entry
  <2> QED BY <1>2, NoneIsNoPayload
<1>4. /\ opTokens[n] = None
      /\ opTokens' = [opTokens EXCEPT ![n] = payload]
      /\ activeOpTokens' = [activeOpTokens EXCEPT ![n] = entry]
      /\ UNCHANGED <<now, thr, store>>
  BY DEF generateOperationToken, shareVars
<1>5. /\ opTokens'[n] = payload /\ activeOpTokens'[n] = entry
      /\ \A m \in OpNonces \ {n} :
            opTokens'[m] = opTokens[m] /\ activeOpTokens'[m] = activeOpTokens[m]
  BY <1>4 DEF TypeOK, GmailTypeOK
<1>6. ~entry.used /\ now <= entry.expires_at
  BY <1>1, TimeAssumption
<1>7. GrantOf(payload) = [username |-> u, operation |-> scope[1], target_service |-> scope[2]]
  BY DEF GrantOf
<1> HIDE DEF payload, entry
<1>8. LiveGrants' = LiveGrants \cup {n}
  BY <1>3, <1>4, <1>5, <1>6 DEF LiveGrants, Spendable
<1>9. G[n] = None
  BY <1>4
<1>10. G' = [G EXCEPT ![n] = GrantOf(payload)]
  BY <1>3, <1>5
<1>11. Authority!Issue(n, u, scope[1], scope[2])
  BY <1>4, <1>7, <1>8, <1>9, <1>10 DEF Authority!Issue
<1> QED BY <1>1, <1>11 DEF Authority!Next

\* What a handler does to the share is what its operation may do.
LEMMA HandlerWrites ==
    ASSUME TypeOK, NEW th \in Threads, Handler(th)
    PROVE  \E s \in Shares, new \in Shares \cup {None} :
              LET srv == ServerOf(th)
                  u == thr[th].username
              IN  /\ Authority!MayBecome(thr[th].operation, store[srv][u], s, new)
                  /\ store' = [store EXCEPT ![srv][u] = new]
<1> DEFINE srv == ServerOf(th)
           u == thr[th].username
           op == thr[th].operation
           share == thr[th].share
           Goal == \E s \in Shares, new \in Shares \cup {None} :
                      /\ Authority!MayBecome(op, store[srv][u], s, new)
                      /\ store' = [store EXCEPT ![srv][u] = new]
<1>1. thr[th].pc = "granted"
  BY DEF Handler, storeShare1, fetchShare1, updateShare1, storeShare, getShare, updateShare, carryOut
<1>2. /\ op \in ServedBy[srv] /\ u \in Users /\ srv \in Targets
      /\ share = None => op \in {"FETCH_SHARE1", "GET_SHARE"}
      /\ share \in Shares \cup {None}
  BY <1>1, ThreadTypes, ServerOfType DEF ThreadTypeOK, ThreadState
<1>3. srv = IF op \in {"STORE_SHARE1", "FETCH_SHARE1", "UPDATE_SHARE1"}
            THEN "KEYSERVER" ELSE "RECOVERYSERVER"
  BY <1>2 DEF ServedBy, Targets
<1>4. store[srv][u] \in Shares \cup {None}
  BY <1>2 DEF TypeOK
<1>5. ASSUME UNCHANGED store PROVE Goal
  <2>1. store' = [store EXCEPT ![srv][u] = store[srv][u]]
    BY <1>2, <1>5 DEF TypeOK
  <2>2. \A s \in Shares : Authority!MayBecome(op, store[srv][u], s, store[srv][u])
    BY DEF Authority!MayBecome
  <2> QED BY <1>4, <2>1, <2>2, SharesAssumption
<1>6. ASSUME op \in {"UPDATE_SHARE1", "UPDATE_SHARE2"}, persist(srv, u, share)
      PROVE  Goal
  <2>1. share \in Shares /\ Authority!MayBecome(op, store[srv][u], share, share)
    BY <1>2, <1>6 DEF Authority!MayBecome, Authority!UpdateOps
  <2> QED BY <1>5, <1>6, <2>1 DEF persist
<1>7. ASSUME op \in {"STORE_SHARE1", "STORE_SHARE2"}, storeUnlessPresent(srv, u, share)
      PROVE  Goal
  <2>1. CASE store[srv][u] = None
    <3>1. share \in Shares /\ Authority!MayBecome(op, store[srv][u], share, share)
      BY <1>2, <1>7, <2>1 DEF Authority!MayBecome, Authority!StoreOps
    <3> QED BY <1>5, <1>7, <2>1, <3>1 DEF persist, storeUnlessPresent
  <2>2. CASE store[srv][u] # None
    BY <1>5, <1>7, <2>2 DEF storeUnlessPresent
  <2> QED BY <2>1, <2>2
<1>8. Goal
  BY <1>3, <1>5, <1>6, <1>7
     DEF Handler, storeShare1, fetchShare1, updateShare1, storeShare, getShare, updateShare
<1> QED BY <1>8

\* Carrying an operation out uses the grant of its token up.
LEMMA HandlerIsPerform ==
    ASSUME IInv, NEW th \in Threads, Handler(th)
    PROVE  Authority!Next
<1> USE DEF IInv, Tokens
<1>1. /\ carryOut(th) /\ thr[th].pc = "granted"
      /\ thr' = [thr EXCEPT ![th] = Idle]
      /\ UNCHANGED <<now, opTokens, activeOpTokens>>
  BY DEF Handler, storeShare1, fetchShare1, updateShare1, storeShare, getShare, updateShare,
         carryOut, gmailVars
<1>2. PICK n \in OpNonces : n = thr[th].op_token
  BY <1>1, ThreadTypes DEF ThreadTypeOK
<1>3. /\ opTokens[n] # None /\ Gone(n)
      /\ opTokens[n].username = thr[th].username
      /\ opTokens[n].operation = thr[th].operation
      /\ opTokens[n].target_service = ServerOf(th)
  BY <1>1, <1>2 DEF Held, GrantMatchesToken
<1>4. thr[th].operation \in ServedBy[ServerOf(th)]
  BY <1>1, ThreadTypes DEF ThreadTypeOK
<1>5. n \in LiveGrants
  BY <1>1, <1>2 DEF LiveGrants
<1>6. LiveGrants' = LiveGrants \ {n}
  <2>1. \A m \in OpNonces : Spendable(m)' <=> Spendable(m)
    BY <1>1 DEF Spendable
  <2>2. ~Spendable(n)
    BY <1>3 DEF Spendable, Gone
  <2>3. \A x \in Threads : thr'[x] = IF x = th THEN Idle ELSE thr[x]
    BY <1>1 DEF TypeOK
  <2>4. \A x \in Threads : thr[x].pc = "granted" /\ thr[x].op_token = n => x = th
    BY <1>1, <1>2 DEF Unique
  <2>5. Idle.pc # "granted"
    BY DEF Idle
  <2> QED BY <1>2, <2>1, <2>2, <2>3, <2>4, <2>5 DEF LiveGrants
<1> DEFINE G == [m \in OpNonces |-> IF opTokens[m] = None THEN None ELSE GrantOf(opTokens[m])]
<1>7. /\ G[n].username = thr[th].username
      /\ G[n].operation = thr[th].operation
      /\ G[n].target_service = ServerOf(th)
  BY <1>3 DEF GrantOf
<1>8. G' = G
  BY <1>1
<1>9. \E s \in Shares, new \in Shares \cup {None} :
         /\ Authority!MayBecome(G[n].operation, store[G[n].target_service][G[n].username], s, new)
         /\ store' = [store EXCEPT ![G[n].target_service][G[n].username] = new]
  BY <1>7, HandlerWrites
<1>10. Authority!Perform(n)
  BY <1>4, <1>5, <1>6, <1>7, <1>8, <1>9 DEF Authority!Perform
<1> QED BY <1>10 DEF Authority!Next

\* Every step of the servers is a step of ShareAuthority, or none.
LEMMA StepSimulation == IInv /\ [Next]_vars => [Authority!Next]_Authority!vars
<1> SUFFICES ASSUME IInv, [Next]_vars PROVE [Authority!Next]_Authority!vars
  OBVIOUS
<1>1. TypeOK /\ now \in Nat
  BY DEF IInv, TypeOK, GmailTypeOK
<1>2. ASSUME UNCHANGED <<opTokens, store>>, now' \in Nat, now' >= now,
             \A n \in OpNonces :
                \/ activeOpTokens'[n] = activeOpTokens[n]
                \/ activeOpTokens'[n] = None
                \/ /\ activeOpTokens[n] # None
                   /\ activeOpTokens'[n] = [activeOpTokens[n] EXCEPT !.used = TRUE],
             \A th \in Threads : thr'[th].pc = "granted" =>
                \/ thr[th].pc = "granted" /\ thr'[th].op_token = thr[th].op_token
                \/ Spendable(thr'[th].op_token)
      PROVE  [Authority!Next]_Authority!vars
  BY <1>1, <1>2, NoneBecomesSpendable, NoGrantBecomesLive, LapseOrStutter
<1>3. ASSUME UNCHANGED <<opTokens, store, activeOpTokens, thr>>, now' \in Nat, now' >= now
      PROVE  [Authority!Next]_Authority!vars
  BY <1>2, <1>3
<1>4. CASE Gmail
  <2>1. CASE Tick /\ UNCHANGED shareVars
    BY <1>1, <1>3, <2>1 DEF Tick, opTokenVars, shareVars
  <2>2. CASE GmailRestart /\ UNCHANGED <<thr, store>>
    BY <1>1, <1>2, <2>2 DEF GmailRestart
  <2>3. ASSUME NEW c \in Conns, ClientThread(c), UNCHANGED shareVars
        PROVE  [Authority!Next]_Authority!vars
    BY <1>1, <1>3, <2>3, IssueIsIssue
       DEF ClientThread, accept, AuthRejected, generateSessionToken,
           AuthAcceptedWithoutToken, startSession, EndConnection, opTokenVars, shareVars
  <2> QED BY <1>4, <2>1, <2>2, <2>3 DEF Gmail
<1>5. ASSUME NEW v \in abandoned, handleAbandonedVerifyOp(v)
      PROVE  [Authority!Next]_Authority!vars
  <2>1. v.op_token \in OpNonces
    BY <1>1 DEF TypeOK, VerifyOpRequests
  <2> QED BY <1>1, <1>2, <1>5, <2>1, ConsumeUsesUp DEF handleAbandonedVerifyOp
<1>6. ASSUME NEW th \in Threads, NEW r \in Requests(th), verifyWithGmailServer(th, r)
      PROVE  [Authority!Next]_Authority!vars
  BY <1>1, <1>2, <1>6, NotGranted DEF verifyWithGmailServer, gmailVars
<1>7. ASSUME NEW th \in Threads, verifyOperationToken(th)
      PROVE  [Authority!Next]_Authority!vars
  <2> DEFINE v == VerifyOpRequest(th)
  <2>1. /\ thr[th].pc = "waiting"
        /\ consume(v.username, v.operation, v.target_service, v.op_token)
        /\ UNCHANGED <<now, opTokens, store>>
    BY <1>7 DEF verifyOperationToken
  <2>2. v.op_token \in OpNonces /\ v.op_token = thr[th].op_token
    BY <1>1, <2>1, VerifyOpRequestType DEF VerifyOpRequests, VerifyOpRequest
  <2>3. ASSUME NEW x \in Threads, thr'[x].pc = "granted"
        PROVE  \/ thr[x].pc = "granted" /\ thr'[x].op_token = thr[x].op_token
               \/ Spendable(thr'[x].op_token)
    <3>1. CASE OpTokenValid(v.username, v.operation, v.target_service, v.op_token)
      <4>1. thr' = [thr EXCEPT ![th] = [thr[th] EXCEPT !.pc = "granted"]]
        BY <1>7, <3>1 DEF verifyOperationToken
      <4>2. Spendable(v.op_token)
        BY <3>1 DEF OpTokenValid, Spendable
      <4>3. thr'[th].op_token = thr[th].op_token
        BY <1>1, <4>1, ThreadTypes DEF TypeOK, ThreadTypeOK, ThreadState
      <4> QED BY <1>1, <2>2, <2>3, <4>1, <4>2, <4>3 DEF TypeOK
    <3>2. CASE ~OpTokenValid(v.username, v.operation, v.target_service, v.op_token)
      <4>1. thr' = [thr EXCEPT ![th] = Idle]
        BY <1>7, <3>2 DEF verifyOperationToken
      <4>2. Idle.pc # "granted"
        BY DEF Idle
      <4> QED BY <1>1, <2>3, <4>1, <4>2, NotGranted
    <3> QED BY <3>1, <3>2
  <2> QED BY <1>1, <1>2, <2>1, <2>2, <2>3, ConsumeUsesUp
<1>8. ASSUME NEW th \in Threads, giveUp(th)
      PROVE  [Authority!Next]_Authority!vars
  <2>1. Idle.pc # "granted"
    BY DEF Idle
  <2> QED BY <1>1, <1>2, <1>8, <2>1, NotGranted DEF giveUp, gmailVars
<1>9. ASSUME NEW th \in Threads, Handler(th)
      PROVE  [Authority!Next]_Authority!vars
  BY <1>9, HandlerIsPerform
<1>10. ASSUME NEW srv \in Targets, ShareServerRestart(srv)
       PROVE  [Authority!Next]_Authority!vars
  <2>1. \A th \in Threads : thr'[th].pc = "granted" => thr'[th] = thr[th]
    BY <1>10 DEF ShareServerRestart, Idle
  <2> QED BY <1>1, <1>2, <1>10, <2>1 DEF ShareServerRestart, gmailVars
<1>11. CASE UNCHANGED vars
  BY <1>1, <1>3, <1>11 DEF vars, gmailVars, shareVars
<1> QED BY <1>4, <1>5, <1>6, <1>7, <1>8, <1>9, <1>10, <1>11
        DEF Next, Gates, KeyServerThread, RecoveryServerThread, Handler, Threads

\* The servers with their two gates implement ShareAuthority: a share changes
\* only on the strength of a grant, at most once for each, as its operation
\* allows.
THEOREM SharesOnAuthority == Spec => ImplementsShareAuthority
<1>1. Init => Authority!Init
  <2> SUFFICES ASSUME Init PROVE Authority!Init
    OBVIOUS
  <2>1. LiveGrants = {}
    BY DEF Init, GmailInit, LiveGrants, Spendable, Idle
  <2>2. [n \in OpNonces |-> IF opTokens[n] = None THEN None ELSE GrantOf(opTokens[n])]
            = [n \in OpNonces |-> None]
    BY DEF Init, GmailInit
  <2> QED BY <2>1, <2>2 DEF Init, Authority!Init
<1> QED BY <1>1, InvariantHolds, StepSimulation, PTL DEF Spec, ImplementsShareAuthority, Authority!Spec

=============================================================================
