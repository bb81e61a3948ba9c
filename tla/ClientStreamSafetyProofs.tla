--------------------- MODULE ClientStreamSafetyProofs ---------------------
(***************************************************************************)
(* What holds of ClientStream's Gmail connection, of the mails that are    *)
(* read over it and of account recovery, for any names, mails, chunks,     *)
(* abandoned calls, restarts and faults.                                   *)
(***************************************************************************)
EXTENDS ClientStreamProofs

-----------------------------------------------------------------------------
(* The Gmail connection in step *)

\* The request that a call which waits at p has sent.
AskedWith(p, c, r) ==
    \/ p = "stored" /\ r.command = "EMAIL_SEND"
    \/ p = "mails" /\ r.command = "4"
    \/ p = "status" /\ r.command = "REQUEST_OP_TOKEN" /\ r.of = c.operation

\* The answer to it, in one record.
AnsweredWith(p, c, s) ==
    \/ p = "stored" /\ s = <<Item("OK:EMAIL_STORED", None, TRUE)>>
    \/ p = "mails" /\ s = <<Item("No emails found", None, FALSE), Item("END", None, TRUE)>>
    \/ p = "mails" /\ \E ms \in Seq(Mails) : ms # <<>> /\ s = Chunked(ms, {})
    \/ p = "status" /\ s = <<Item("OP_TOKEN", None, FALSE), Item("token", c.operation, TRUE)>>
    \/ p = "token" /\ s = <<Item("token", c.operation, TRUE)>>

\* There is nothing on the connection but the request of the call that waits, or
\* the answer to it.
InStep(p, c, q, s) ==
    \/ p \notin OnGmail /\ q = <<>> /\ s = <<>>
    \/ p \in OnGmail /\ s = <<>> /\ \E r : q = <<r>> /\ AskedWith(p, c, r)
    \/ p \in OnGmail /\ q = <<>> /\ AnsweredWith(p, c, s)

\* Nothing is collected from a record whose END marker has not come.
NothingCollected(b) == b = <<>>

\* Share requests with a token for what they ask.
FittingRequests ==
    {r \in KeyRequests : /\ r.command = "4" => r.token = "FETCH_SHARE1"
                         /\ r.command = "5" => r.token = "UPDATE_SHARE1"}

StepInv ==
    ~slipped => /\ InStep(pc, call, toGmail, fromGmail) /\ NothingCollected(buffer)
                /\ toKey \in Seq(FittingRequests)

\* A call that waits for the Gmail Server and has asked nothing has its answer.
LEMMA AnswerIsThere ==
    ASSUME NEW p, NEW c, NEW q, NEW s, InStep(p, c, q, s), s # <<>>
    PROVE  p \in OnGmail /\ q = <<>> /\ AnsweredWith(p, c, s)
BY DEF InStep

\* When a client waits for something else, a request makes it wait for the answer.
LEMMA AskInStep ==
    ASSUME NEW p, NEW c, InStep(p, c, toGmail, fromGmail), p \notin OnGmail,
           NEW r, toGmail' = Append(toGmail, r), NEW np \in OnGmail, NEW nc, AskedWith(np, nc, r)
    PROVE  InStep(np, nc, toGmail', fromGmail)
<1>1. toGmail = <<>> /\ fromGmail = <<>>
  BY DEF InStep
<1>2. toGmail' = <<r>>
  BY <1>1
<1> QED BY <1>1, <1>2 DEF InStep

\* A sequence whose last entry alone ends a record is one record.
LEMMA OneRecord ==
    ASSUME TypeInv, fromGmail # <<>>,
           \A j \in 1..(Len(fromGmail) - 1) : ~fromGmail[j].last
    PROVE  /\ RecordAtHead = Len(fromGmail)
           /\ DropItems(RecordAtHead) => fromGmail' = <<>>
           /\ SubSeq(fromGmail, 1, RecordAtHead) = fromGmail
<1>1. /\ fromGmail \in Seq(GmailItems) /\ fromGmail[Len(fromGmail)].last
  BY DEF TypeInv, TextFits, WholeAnswers
<1>2. /\ RecordAtHead \in 1..Len(fromGmail) /\ Len(fromGmail) \in Nat
      /\ fromGmail[RecordAtHead].last
  BY <1>1, RecordLemma
<1>3. RecordAtHead = Len(fromGmail)
  BY <1>2
<1>4. ASSUME DropItems(RecordAtHead) PROVE fromGmail' = <<>>
  <2>1. fromGmail' \in Seq(GmailItems) /\ Len(fromGmail') = Len(fromGmail) - RecordAtHead
    <3>1. RecordAtHead \in 0..Len(fromGmail)
      BY <1>2
    <3> QED BY <1>4, <3>1, DropTypes DEF WholeAnswers
  <2>2. Len(fromGmail') = 0
    BY <1>2, <1>3, <2>1
  <2> QED BY <2>1, <2>2, EmptySeq
<1>5. SubSeq(fromGmail, 1, RecordAtHead) = fromGmail
  BY <1>1, <1>3, SubSeqFull
<1> QED BY <1>3, <1>4, <1>5

\* A mailbox that is not cut is one record, and it has an END marker.
LEMMA UncutMailbox ==
    ASSUME NEW ms \in Seq(Mails), ms # <<>>
    PROVE  /\ Len(Chunked(ms, {})) \in Nat /\ Len(Chunked(ms, {})) > 0
           /\ \A j \in 1..(Len(Chunked(ms, {})) - 1) : ~Chunked(ms, {})[j].last
           /\ \E k \in 1..Len(Chunked(ms, {})) : Chunked(ms, {})[k].kind = "END"
<1> DEFINE n == Len(ms)
           c == Chunked(ms, {})
<1>1. /\ n \in Nat /\ n > 0 /\ Len(c) = 3 * n
      /\ \A k \in 1..n : /\ c[3 * k - 2] = Item("front", ms[k], 3 * k - 2 \in {})
                         /\ c[3 * k - 1] = Item("back", ms[k], 3 * k - 1 \in {})
                         /\ c[3 * k] = Item("END", None, 3 * k \in {} \cup {3 * n})
  BY ChunkedItems
<1> HIDE DEF c
<1>2. ASSUME NEW j \in 1..(3 * n), j < 3 * n PROVE c[j].last = FALSE
  <2>1. PICK k \in 1..n : j = 3 * k - 2 \/ j = 3 * k - 1 \/ j = 3 * k
    BY <1>1, ThreeAMail
  <2> DEFINE a == j \in {}
             b == j \in {} \cup {3 * n}
  <2>2. a = FALSE
    OBVIOUS
  <2>3. b = FALSE
    BY <1>1, <1>2
  <2>4. \/ c[j] = Item("front", ms[k], a)
        \/ c[j] = Item("back", ms[k], a)
        \/ c[j] = Item("END", None, b)
    BY <1>1, <2>1
  <2> HIDE DEF a, b
  <2> QED BY <2>2, <2>3, <2>4 DEF Item
<1>3. c[3 * n].kind = "END" /\ 3 * n \in 1..(3 * n)
  <2> DEFINE b == 3 * n \in {} \cup {3 * n}
  <2>1. c[3 * n] = Item("END", None, b)
    BY <1>1
  <2> HIDE DEF b
  <2>2. c[3 * n].kind = "END"
    BY <2>1, ItemFields
  <2> QED BY <1>1, <2>2
<1>4. /\ Len(c) \in Nat /\ Len(c) > 0
      /\ \A j \in 1..(Len(c) - 1) : ~c[j].last
      /\ \E k \in 1..Len(c) : c[k].kind = "END"
  <2>1. 3 * n \in Nat /\ 3 * n > 0 /\ Len(c) = 3 * n
    BY <1>1
  <2>2. ASSUME NEW j \in 1..(3 * n - 1) PROVE ~c[j].last
    <3>1. j \in 1..(3 * n) /\ j < 3 * n
      BY <2>1
    <3> QED BY <1>2, <3>1
  <2> QED BY <1>3, <2>1, <2>2
<1> QED BY <1>4 DEF c

\* A request for a key carries no token; a share request's token fits when it is for
\* the operation that the call is about.
LEMMA RequestsFit ==
    /\ \A n \in Names \cup {None} : KeyRequest(n) \in FittingRequests
    /\ ShareRequest("4", "FETCH_SHARE1", 0) \in FittingRequests
    /\ \A x \in Splits : ShareRequest("5", "UPDATE_SHARE1", x) \in FittingRequests
<1>1. \A n \in Names \cup {None} : KeyRequest(n) \in FittingRequests
  BY RequestTypes DEF KeyRequest, FittingRequests
<1>2. ShareRequest("4", "FETCH_SHARE1", 0) \in FittingRequests
  <2>1. "FETCH_SHARE1" \in Operations
    BY DEF Operations
  <2> QED BY <2>1, RequestTypes DEF ShareRequest, FittingRequests
<1>3. \A x \in Splits : ShareRequest("5", "UPDATE_SHARE1", x) \in FittingRequests
  <2>1. "UPDATE_SHARE1" \in Operations
    BY DEF Operations
  <2> QED BY <2>1, RequestTypes DEF ShareRequest, FittingRequests
<1> QED BY <1>1, <1>2, <1>3

\* The next mail is processed, or the call is over: nothing is sent to the Gmail Server.
LEMMA ProcessNextInStep ==
    ASSUME toKey \in Seq(FittingRequests), NEW rest \in Seq(FoundMails), ProcessNext(rest)
    PROVE  toKey' \in Seq(FittingRequests) /\ pc' \notin OnGmail
<1>1. CASE rest = <<>>
  BY <1>1 DEF ProcessNext, EndCall, OnGmail
<1>2. CASE rest # <<>>
  <2>1. Head(rest).name \in Names \cup {None}
    <3>1. Head(rest) \in FoundMails
      BY <1>2, HeadTailProperties
    <3> QED BY <3>1, RegisteredAssumption DEF FoundMails
  <2>2. toKey' = Append(toKey, KeyRequest(Head(rest).name)) /\ pc' = "key"
    BY <1>2 DEF ProcessNext, AskForKey
  <2> QED BY <2>1, <2>2, RequestsFit, AppendProperties DEF OnGmail
<1> QED BY <1>1, <1>2

\* An answer of the Key Server, or its absence, makes the client wait for something
\* else, or send the Gmail Server the one request that it then waits for.
LEMMA OnKeyAnswerInStep ==
    ASSUME TypeInv, StepInv, ~slipped, NEW answer, OnKeyAnswer(answer), fromGmail' = fromGmail
    PROVE  InStep(pc', call', toGmail', fromGmail') /\ toKey' \in Seq(FittingRequests)
<1>1. InStep(pc, call, toGmail, fromGmail) /\ toKey \in Seq(FittingRequests) /\ pc \in OnKey
  BY OnKeyAnswerTurn DEF StepInv
<1>2. pc \notin OnGmail /\ toGmail = <<>> /\ fromGmail = <<>>
  BY <1>1 DEF InStep, OnKey, OnGmail
<1>3. ASSUME NEW r, toGmail' = Append(toGmail, r), pc' \in OnGmail, AskedWith(pc', call', r),
             UNCHANGED toKey
      PROVE  InStep(pc', call', toGmail', fromGmail') /\ toKey' \in Seq(FittingRequests)
  <2>1. InStep(pc', call', toGmail', fromGmail)
    BY <1>1, <1>2, <1>3, AskInStep
  <2> QED BY <1>1, <1>3, <2>1
<1>4. ASSUME pc' \notin OnGmail, UNCHANGED toGmail
      PROVE  InStep(pc', call', toGmail', fromGmail')
  BY <1>2, <1>4 DEF InStep
<1>5. ASSUME EndCall, UNCHANGED <<toGmail, toKey>>
      PROVE  InStep(pc', call', toGmail', fromGmail') /\ toKey' \in Seq(FittingRequests)
  BY <1>1, <1>4, <1>5 DEF EndCall, OnGmail
<1>6. ASSUME NEW op, AskForToken(op), call'.operation = op, UNCHANGED toKey
      PROVE  InStep(pc', call', toGmail', fromGmail') /\ toKey' \in Seq(FittingRequests)
  <2> DEFINE r == GmailRequest("REQUEST_OP_TOKEN", op, None)
  <2>1. toGmail' = Append(toGmail, r) /\ pc' = "status"
    BY <1>6 DEF AskForToken
  <2>2. AskedWith(pc', call', r)
    BY <1>6, <2>1 DEF AskedWith, GmailRequest
  <2> HIDE DEF r
  <2> QED BY <1>3, <1>6, <2>1, <2>2 DEF OnGmail
<1>7. CASE SendWithKey(answer)
  <2>1. CASE answer.kind = "key"
    <3> DEFINE r == GmailRequest("EMAIL_SEND", call.recipient, answer.of)
    <3>1. toGmail' = Append(toGmail, r) /\ pc' = "stored" /\ UNCHANGED toKey
      BY <1>7, <2>1 DEF SendWithKey
    <3>2. AskedWith(pc', call', r)
      BY <3>1 DEF AskedWith, GmailRequest
    <3> HIDE DEF r
    <3> QED BY <1>3, <3>1, <3>2 DEF OnGmail
  <2>2. CASE answer.kind # "key"
    BY <1>5, <1>7, <2>2 DEF SendWithKey
  <2> QED BY <2>1, <2>2
<1>8. CASE ShowMail(answer)
  <2>1. ProcessNext(Tail(todo)) /\ UNCHANGED toGmail /\ pc = "key" /\ call.recipient = None
    BY <1>8 DEF ShowMail
  <2>2. Tail(todo) \in Seq(FoundMails)
    BY <2>1, HeadTailProperties DEF TypeInv, TodoFits
  <2> QED BY <1>1, <1>4, <2>1, <2>2, ProcessNextInStep
<1>9. CASE FetchedShare1(answer)
  <2>1. UNCHANGED toKey
    BY <1>9 DEF FetchedShare1
  <2>2. CASE answer = Silence
    BY <1>5, <1>9, <2>1, <2>2 DEF FetchedShare1
  <2>3. CASE answer # Silence
    <3>1. AskForToken("GET_SHARE") /\ call' = [call EXCEPT !.operation = "GET_SHARE",
                                    !.split = IF answer.kind = "share" THEN answer.of ELSE None]
      BY <1>9, <2>3 DEF FetchedShare1
    <3>2. call \in Calls
      BY DEF TypeInv, CallFits
    <3>3. call'.operation = "GET_SHARE"
      BY <3>1, <3>2 DEF Calls
    <3> QED BY <1>6, <2>1, <3>1, <3>3
  <2> QED BY <2>2, <2>3
<1>10. CASE UpdatedShare1(answer)
  <2>1. UNCHANGED toKey
    BY <1>10 DEF UpdatedShare1
  <2>2. CASE answer.kind # "SHARE1_UPDATED"
    BY <1>5, <1>10, <2>1, <2>2 DEF UpdatedShare1
  <2>3. CASE answer.kind = "SHARE1_UPDATED"
    <3>1. AskForToken("UPDATE_SHARE2") /\ call' = [call EXCEPT !.operation = "UPDATE_SHARE2"]
      BY <1>10, <2>3 DEF UpdatedShare1
    <3>2. call \in Calls
      BY DEF TypeInv, CallFits
    <3>3. call'.operation = "UPDATE_SHARE2"
      BY <3>1, <3>2 DEF Calls
    <3> QED BY <1>6, <2>1, <3>1, <3>3
  <2> QED BY <2>2, <2>3
<1> QED BY <1>7, <1>8, <1>9, <1>10 DEF OnKeyAnswer

\* The menu sends one request, to one of the servers.
LEMMA MenuInStep ==
    ASSUME TypeInv, StepInv, Menu
    PROVE  StepInv'
<1>0. SUFFICES ASSUME ~slipped'
               PROVE  /\ InStep(pc', call', toGmail', fromGmail') /\ NothingCollected(buffer')
                      /\ toKey' \in Seq(FittingRequests)
  BY DEF StepInv
<1>1. /\ ~slipped /\ UNCHANGED <<buffer, fromGmail>> /\ pc = "menu"
  BY <1>0 DEF Menu, send_email, receive_emails, recover_account_flow, AtMenu, gmailStream
<1>2. /\ InStep(pc, call, toGmail, fromGmail) /\ NothingCollected(buffer)
      /\ toKey \in Seq(FittingRequests) /\ pc \notin OnGmail
  BY <1>1 DEF StepInv, OnGmail
<1>3. toGmail = <<>> /\ fromGmail = <<>>
  BY <1>2 DEF InStep
<1>4. ASSUME NEW r, toGmail' = Append(toGmail, r), pc' \in OnGmail, AskedWith(pc', call', r)
      PROVE  InStep(pc', call', toGmail', fromGmail')
  <2>1. InStep(pc', call', toGmail', fromGmail)
    BY <1>2, <1>4, AskInStep
  <2> QED BY <1>1, <2>1
<1>5. ASSUME NEW r \in Names, send_email(r)
      PROVE  InStep(pc', call', toGmail', fromGmail') /\ toKey' \in Seq(FittingRequests)
  <2>1. pc' = "key" /\ toGmail' = toGmail /\ toKey' = Append(toKey, KeyRequest(r))
    BY <1>5 DEF send_email, AskForKey, gmailStream
  <2>2. InStep(pc', call', toGmail', fromGmail')
    BY <1>1, <1>3, <2>1 DEF InStep, OnGmail
  <2> QED BY <1>2, <2>1, <2>2, RequestsFit, AppendProperties
<1>6. ASSUME receive_emails
      PROVE  InStep(pc', call', toGmail', fromGmail') /\ toKey' \in Seq(FittingRequests)
  <2> DEFINE r == GmailRequest("4", None, None)
  <2>1. toGmail' = Append(toGmail, r) /\ pc' = "mails" /\ toKey' = toKey
    BY <1>6 DEF receive_emails, keyStream
  <2>2. AskedWith(pc', call', r)
    BY <2>1 DEF AskedWith, GmailRequest
  <2> HIDE DEF r
  <2> QED BY <1>2, <1>4, <2>1, <2>2 DEF OnGmail
<1>7. ASSUME recover_account_flow
      PROVE  InStep(pc', call', toGmail', fromGmail') /\ toKey' \in Seq(FittingRequests)
  <2> DEFINE r == GmailRequest("REQUEST_OP_TOKEN", "FETCH_SHARE1", None)
  <2>1. /\ toGmail' = Append(toGmail, r) /\ pc' = "status" /\ toKey' = toKey
        /\ call' = [call EXCEPT !.operation = "FETCH_SHARE1"]
    BY <1>7 DEF recover_account_flow, AskForToken, keyStream
  <2>2. call'.operation = "FETCH_SHARE1"
    BY <2>1 DEF TypeInv, CallFits, Calls
  <2>3. AskedWith(pc', call', r)
    BY <2>1, <2>2 DEF AskedWith, GmailRequest
  <2> HIDE DEF r
  <2> QED BY <1>2, <1>4, <2>1, <2>3 DEF OnGmail
<1> QED BY <1>1, <1>2, <1>5, <1>6, <1>7 DEF Menu, NothingCollected

\* An answer is one record: it is read whole, and nothing is left of it.
LEMMA AnswerIsRecord ==
    ASSUME TypeInv, fromGmail # <<>>, AnsweredWith(pc, call, fromGmail), pc \in {"stored", "mails"}
    PROVE  /\ DropItems(RecordAtHead) => fromGmail' = <<>>
           /\ SubSeq(fromGmail, 1, RecordAtHead) = fromGmail
           /\ pc = "mails" => \E k \in 1..Len(fromGmail) : fromGmail[k].kind = "END"
<1>1. CASE fromGmail = <<Item("OK:EMAIL_STORED", None, TRUE)>> /\ pc = "stored"
  <2>1. Len(fromGmail) = 1
    BY <1>1
  <2>2. \A j \in 1..(Len(fromGmail) - 1) : ~fromGmail[j].last
    BY <2>1
  <2> QED BY <1>1, <2>2, OneRecord
<1>2. CASE fromGmail = <<Item("No emails found", None, FALSE), Item("END", None, TRUE)>>
  <2> DEFINE x == Item("No emails found", None, FALSE)
             y == Item("END", None, TRUE)
  <2>1. x.last = FALSE
    BY DEF Item
  <2>2. y.kind = "END"
    BY DEF Item
  <2>3. fromGmail = <<x, y>>
    BY <1>2
  <2> HIDE DEF x, y
  <2>4. Len(fromGmail) = 2
    BY <2>3
  <2>5. fromGmail[1] = x /\ fromGmail[2] = y
    BY <2>3
  <2>6. \A j \in 1..(Len(fromGmail) - 1) : j = 1
    BY <2>4
  <2>7. ~fromGmail[1].last
    BY <2>1, <2>5
  <2>8. \A j \in 1..(Len(fromGmail) - 1) : ~fromGmail[j].last
    BY <2>6, <2>7
  <2>9. 2 \in 1..Len(fromGmail) /\ fromGmail[2].kind = "END"
    BY <2>2, <2>4, <2>5
  <2> QED BY <2>8, <2>9, OneRecord
<1>3. ASSUME NEW ms \in Seq(Mails), ms # <<>>, fromGmail = Chunked(ms, {})
      PROVE  /\ DropItems(RecordAtHead) => fromGmail' = <<>>
             /\ SubSeq(fromGmail, 1, RecordAtHead) = fromGmail
             /\ pc = "mails" => \E k \in 1..Len(fromGmail) : fromGmail[k].kind = "END"
  <2>1. /\ \A j \in 1..(Len(fromGmail) - 1) : ~fromGmail[j].last
        /\ \E k \in 1..Len(fromGmail) : fromGmail[k].kind = "END"
    BY <1>3, UncutMailbox
  <2> QED BY <2>1, OneRecord
<1> QED BY <1>1, <1>2, <1>3 DEF AnsweredWith

\* The answer to EMAIL_SEND, and the mails, are read whole.
LEMMA ReadRecordInStep ==
    ASSUME TypeInv, StepInv, ReceiveStored \/ ReceiveMails
    PROVE  StepInv'
<1>0. SUFFICES ASSUME ~slipped'
               PROVE  /\ InStep(pc', call', toGmail', fromGmail') /\ NothingCollected(buffer')
                      /\ toKey' \in Seq(FittingRequests)
  BY DEF StepInv
<1>1. /\ ~slipped /\ pc \in {"stored", "mails"} /\ fromGmail # <<>> /\ DropItems(RecordAtHead)
      /\ UNCHANGED toGmail
  BY <1>0 DEF ReceiveStored, ReceiveMails
<1>2. /\ InStep(pc, call, toGmail, fromGmail) /\ buffer = <<>>
      /\ toKey \in Seq(FittingRequests)
  BY <1>1 DEF StepInv, NothingCollected
<1>3. toGmail = <<>> /\ AnsweredWith(pc, call, fromGmail)
  BY <1>1, <1>2, AnswerIsThere
<1>4. /\ fromGmail' = <<>> /\ SubSeq(fromGmail, 1, RecordAtHead) = fromGmail
      /\ pc = "mails" => \E k \in 1..Len(fromGmail) : fromGmail[k].kind = "END"
  BY <1>1, <1>3, AnswerIsRecord
<1>5. CASE ReceiveStored
  <2>1. pc' = "menu" /\ UNCHANGED <<buffer, toKey>>
    BY <1>5 DEF ReceiveStored, EndCall, keyStream
  <2> QED BY <1>1, <1>2, <1>3, <1>4, <2>1 DEF InStep, OnGmail, NothingCollected
<1>6. CASE ReceiveMails
  <2>1. Received = fromGmail
    <3>1. fromGmail \in Seq(GmailItems)
      BY DEF TypeInv, TextFits, WholeAnswers
    <3> QED BY <1>2, <1>4, <3>1, ConcatEmptySeq DEF Received
  <2>2. ProcessNext(MailsIn(fromGmail)) /\ buffer' = <<>>
    BY <1>4, <1>6, <2>1 DEF ReceiveMails
  <2>3. MailsIn(fromGmail) \in Seq(FoundMails)
    BY MailsInTypes DEF TypeInv, TextFits, WholeAnswers
  <2>4. toKey' \in Seq(FittingRequests) /\ pc' \notin OnGmail
    BY <1>2, <2>2, <2>3, ProcessNextInStep
  <2> QED BY <1>1, <1>3, <1>4, <2>2, <2>4 DEF InStep, NothingCollected
<1> QED BY <1>1, <1>5, <1>6

\* The line OP_TOKEN is read, and the token stays.
LEMMA ReadStatusInStep ==
    ASSUME TypeInv, StepInv, ReadStatus
    PROVE  StepInv'
<1>0. SUFFICES ASSUME ~slipped'
               PROVE  /\ InStep(pc', call', toGmail', fromGmail') /\ NothingCollected(buffer')
                      /\ toKey' \in Seq(FittingRequests)
  BY DEF StepInv
<1>1. /\ ~slipped /\ pc = "status" /\ LineIsThere /\ DropItems(LineAtHead)
      /\ UNCHANGED <<buffer, toKey, toGmail>>
  BY <1>0 DEF ReadStatus, keyStream
<1>2. /\ InStep(pc, call, toGmail, fromGmail) /\ NothingCollected(buffer)
      /\ toKey \in Seq(FittingRequests) /\ fromGmail \in Seq(GmailItems)
  BY <1>1 DEF StepInv, TypeInv, TextFits, WholeAnswers
<1>3. fromGmail # <<>>
  BY <1>1 DEF LineIsThere
<1> DEFINE x == Item("OP_TOKEN", None, FALSE)
           y == Item("token", call.operation, TRUE)
<1>4. toGmail = <<>> /\ fromGmail = <<x, y>>
  <2>1. toGmail = <<>> /\ AnsweredWith(pc, call, fromGmail)
    BY <1>2, <1>3, AnswerIsThere
  <2>2. pc # "stored" /\ pc # "mails" /\ pc # "token"
    BY <1>1
  <2> QED BY <2>1, <2>2, Zenon DEF AnsweredWith
<1>5. x.kind = "OP_TOKEN"
  BY DEF Item
<1>6. InStep("token", call, <<>>, <<y>>)
  BY DEF InStep, AnsweredWith, OnGmail
<1> HIDE DEF x, y
<1>7. Len(fromGmail) = 2
  BY <1>4
<1>8. fromGmail[1] = x /\ fromGmail[2] = y /\ Head(fromGmail) = x
  BY <1>4
<1>9. LineAtHead = 1
  <2>1. /\ LineAtHead \in 1..2 /\ \A j \in 1..(LineAtHead - 1) : ~EndsLine(fromGmail[j])
    BY <1>1, <1>2, <1>7, LineLemma
  <2>2. EndsLine(fromGmail[1])
    BY <1>5, <1>8 DEF EndsLine
  <2> QED BY <2>1, <2>2
<1>10. pc' = "token" /\ call' = call
  BY <1>5, <1>8, <1>9 DEF ReadStatus
<1>11. fromGmail' = <<y>>
  <2>1. fromGmail' \in Seq(GmailItems) /\ Len(fromGmail') = 1 /\ fromGmail'[1] = fromGmail[2]
    <3>1. 1 \in 0..Len(fromGmail) /\ DropItems(1)
      BY <1>1, <1>7, <1>9
    <3>2. /\ WholeAnswers(fromGmail') /\ Len(fromGmail') = Len(fromGmail) - 1
          /\ \A k \in 1..(Len(fromGmail) - 1) : fromGmail'[k] = fromGmail[1 + k]
      BY <3>1, DropTypes
    <3> QED BY <1>7, <3>2 DEF WholeAnswers
  <2> QED BY <1>8, <2>1
<1> QED BY <1>1, <1>2, <1>4, <1>6, <1>10, <1>11

\* The token is read that the call has asked for, and goes into a request for what
\* the call is about.
LEMMA ReadTokenInStep ==
    ASSUME TypeInv, StepInv, ReadToken
    PROVE  StepInv'
<1>0. SUFFICES ASSUME ~slipped'
               PROVE  /\ InStep(pc', call', toGmail', fromGmail') /\ NothingCollected(buffer')
                      /\ toKey' \in Seq(FittingRequests)
  BY DEF StepInv
<1>1. /\ ~slipped /\ pc = "token" /\ LineIsThere /\ DropItems(LineAtHead)
      /\ UseToken(fromGmail[LineAtHead].of) /\ UNCHANGED buffer
  BY <1>0 DEF ReadToken
<1>2. /\ InStep(pc, call, toGmail, fromGmail) /\ NothingCollected(buffer)
      /\ toKey \in Seq(FittingRequests) /\ fromGmail \in Seq(GmailItems)
  BY <1>1 DEF StepInv, TypeInv, TextFits, WholeAnswers
<1>3. fromGmail # <<>>
  BY <1>1 DEF LineIsThere
<1> DEFINE y == Item("token", call.operation, TRUE)
<1>4. toGmail = <<>> /\ fromGmail = <<y>>
  <2>1. toGmail = <<>> /\ AnsweredWith(pc, call, fromGmail)
    BY <1>2, <1>3, AnswerIsThere
  <2>2. pc # "stored" /\ pc # "mails" /\ pc # "status"
    BY <1>1
  <2> QED BY <2>1, <2>2, Zenon DEF AnsweredWith
<1>5. y.of = call.operation
  BY DEF Item
<1> HIDE DEF y
<1>6. LineAtHead = 1 /\ Len(fromGmail) = 1 /\ fromGmail[1] = y
  <2>1. Len(fromGmail) = 1 /\ fromGmail[1] = y
    BY <1>4
  <2> QED BY <1>1, <1>2, <2>1, LineLemma
<1>7. fromGmail' = <<>>
  <2>1. fromGmail' = SubSeq(fromGmail, 2, 1)
    BY <1>1, <1>6 DEF DropItems
  <2> QED BY <1>4, <2>1
<1>8. UseToken(call.operation)
  BY <1>1, <1>5, <1>6
<1>9. call \in Calls
  BY DEF TypeInv, CallFits
<1>10. InStep(pc', call', toGmail', fromGmail') /\ toKey' \in Seq(FittingRequests)
  <2>1. CASE pc' \notin OnGmail /\ UNCHANGED <<toKey, toGmail>>
    BY <1>2, <1>4, <1>7, <2>1 DEF InStep
  <2>2. CASE /\ call.operation = "FETCH_SHARE1"
             /\ toKey' = Append(toKey, ShareRequest("4", call.operation, 0))
             /\ pc' = "share1" /\ UNCHANGED toGmail
    BY <1>2, <1>4, <1>7, <2>2, RequestsFit, AppendProperties DEF InStep, OnGmail
  <2>3. CASE /\ call.operation = "UPDATE_SHARE1"
             /\ toKey' = Append(toKey, ShareRequest("5", call.operation, call.split))
             /\ pc' = "updated" /\ UNCHANGED toGmail
    <3>1. call.split \in Splits
      BY <2>3 DEF TypeInv, CallFits
    <3> QED BY <1>2, <1>4, <1>7, <2>3, <3>1, RequestsFit, AppendProperties DEF InStep, OnGmail
  <2>4. CASE /\ call' = [call EXCEPT !.operation = "UPDATE_SHARE1", !.split = splits + 1]
             /\ AskForToken("UPDATE_SHARE1") /\ UNCHANGED toKey
    <3> DEFINE r == GmailRequest("REQUEST_OP_TOKEN", "UPDATE_SHARE1", None)
    <3>1. call'.operation = "UPDATE_SHARE1"
      BY <1>9, <2>4 DEF Calls
    <3>2. pc' = "status" /\ toGmail' = <<r>>
      BY <1>4, <2>4 DEF AskForToken
    <3>3. AskedWith(pc', call', r)
      BY <3>1, <3>2 DEF AskedWith, GmailRequest
    <3> HIDE DEF r
    <3> QED BY <1>2, <1>7, <2>4, <3>2, <3>3 DEF InStep, OnGmail
  <2>5. ASSUME EndCall PROVE pc' \notin OnGmail
    BY <2>5 DEF EndCall, OnGmail
  <2> QED BY <1>8, <2>1, <2>2, <2>3, <2>4, <2>5 DEF UseToken
<1> QED BY <1>1, <1>2, <1>10

\* The Gmail Server answers the one request that is there, in one record unless the
\* mailbox is cut.
LEMMA GmailServerInStep ==
    ASSUME TypeInv, StepInv, GmailServer
    PROVE  StepInv'
<1>0. SUFFICES ASSUME ~slipped'
               PROVE  /\ InStep(pc', call', toGmail', fromGmail') /\ NothingCollected(buffer')
                      /\ toKey' \in Seq(FittingRequests)
  BY DEF StepInv
<1>1. /\ toGmail # <<>> /\ toGmail' = Tail(toGmail) /\ UNCHANGED <<pc, call, buffer, toKey>>
  BY DEF GmailServer, keyStream
<1>2. ~slipped
  BY <1>0 DEF GmailServer, RequestOpToken, EmailSend, RetrieveEmails
<1>3. /\ InStep(pc, call, toGmail, fromGmail) /\ NothingCollected(buffer)
      /\ toKey \in Seq(FittingRequests)
  BY <1>2 DEF StepInv
<1>4. pc \in OnGmail /\ fromGmail = <<>> /\ \E r : toGmail = <<r>> /\ AskedWith(pc, call, r)
  BY <1>1, <1>3 DEF InStep
<1>5. PICK r : toGmail = <<r>> /\ AskedWith(pc, call, r)
  BY <1>4
<1>6. Head(toGmail) = r /\ toGmail' = <<>>
  BY <1>1, <1>5
<1>7. AnsweredWith(pc, call, fromGmail')
  <2>1. ASSUME NEW t \in Seq(GmailItems), fromGmail' = fromGmail \o t PROVE fromGmail' = t
    BY <1>4, <2>1, ConcatEmptySeq
  <2>2. CASE RequestOpToken(r)
    <3>1. pc = "status" /\ r.of = call.operation
      BY <1>5, <2>2 DEF AskedWith, RequestOpToken
    <3> DEFINE x == Item("OP_TOKEN", None, FALSE)
               y == Item("token", call.operation, TRUE)
    <3>2. fromGmail' = <<>> \o <<x, y>>
      BY <1>0, <1>4, <2>2, <3>1 DEF RequestOpToken
    <3>3. AnsweredWith("status", call, <<x, y>>)
      BY DEF AnsweredWith
    <3> HIDE DEF x, y
    <3>4. fromGmail' = <<x, y>>
      BY <3>2
    <3> QED BY <3>1, <3>3, <3>4
  <2>3. CASE EmailSend(r)
    <3>1. pc = "stored"
      BY <1>5, <2>3 DEF AskedWith, EmailSend
    <3> DEFINE y == Item("OK:EMAIL_STORED", None, TRUE)
    <3>2. fromGmail' = Append(<<>>, y)
      BY <1>4, <2>3 DEF EmailSend
    <3>3. AnsweredWith("stored", call, <<y>>)
      BY DEF AnsweredWith
    <3> HIDE DEF y
    <3>4. fromGmail' = <<y>>
      BY <3>2
    <3> QED BY <3>1, <3>3, <3>4
  <2>4. CASE RetrieveEmails(r) /\ mailbox = <<>>
    <3>1. pc = "mails"
      BY <1>5, <2>4 DEF AskedWith, RetrieveEmails
    <3> DEFINE x == Item("No emails found", None, FALSE)
               y == Item("END", None, TRUE)
    <3>2. fromGmail' = <<>> \o <<x, y>>
      BY <1>4, <2>4 DEF RetrieveEmails
    <3>3. AnsweredWith("mails", call, <<x, y>>)
      BY DEF AnsweredWith
    <3> HIDE DEF x, y
    <3>4. fromGmail' = <<x, y>>
      BY <3>2
    <3> QED BY <3>1, <3>3, <3>4
  <2>5. CASE RetrieveEmails(r) /\ mailbox # <<>>
    <3>1. pc = "mails"
      BY <1>5, <2>5 DEF AskedWith, RetrieveEmails
    <3>2. PICK cuts : fromGmail' = fromGmail \o Chunked(mailbox, cuts) /\ slipped' = (slipped \/ cuts # {})
      BY <2>5 DEF RetrieveEmails
    <3>3. cuts = {}
      BY <1>0, <3>2
    <3>4. mailbox \in Seq(Mails) /\ Chunked(mailbox, {}) \in Seq(GmailItems)
      BY <2>5, ChunkedIsWhole DEF TypeInv, StoresFit, WholeAnswers
    <3>5. fromGmail' = Chunked(mailbox, {})
      BY <2>1, <3>2, <3>3, <3>4
    <3> QED BY <2>5, <3>1, <3>4, <3>5 DEF AnsweredWith
  <2>6. RequestOpToken(r) \/ EmailSend(r) \/ RetrieveEmails(r)
    BY <1>6 DEF GmailServer
  <2> QED BY <2>2, <2>3, <2>4, <2>5, <2>6
<1> QED BY <1>1, <1>3, <1>4, <1>6, <1>7 DEF InStep

\* Every step keeps the connection in step, or moves it.
LEMMA NextStepInv == TypeInv /\ StepInv /\ [Next]_vars => StepInv'
<1> SUFFICES ASSUME TypeInv, StepInv, [Next]_vars PROVE StepInv'
  OBVIOUS
<1>1. CASE Menu
  BY <1>1, MenuInStep
<1>2. CASE ReceiveFromKey
  <2>1. /\ OnKeyAnswer(Head(fromKey)) /\ UNCHANGED <<buffer, fromGmail, slipped>>
    BY <1>2 DEF ReceiveFromKey
  <2> QED BY <2>1, OnKeyAnswerInStep DEF StepInv
<1>3. CASE ReceiveStored \/ ReceiveMails \/ ReadStatus \/ ReadToken
  BY <1>3, ReadRecordInStep, ReadStatusInStep, ReadTokenInStep
<1>4. CASE KeyServer
  <2>1. /\ toKey # <<>> /\ toKey' = Tail(toKey)
        /\ UNCHANGED <<pc, call, buffer, toGmail, fromGmail, slipped>>
    BY <1>4 DEF KeyServer, gmailStream
  <2> QED BY <2>1, HeadTailProperties DEF StepInv
<1>5. CASE GmailServer
  BY <1>5, GmailServerInStep
<1>6. ASSUME NEW s \in Services, GiveUp(s) PROVE StepInv'
  <2>1. CASE s = "key"
    <3>1. OnKeyAnswer(Silence) /\ UNCHANGED <<buffer, fromGmail, slipped>>
      BY <1>6, <2>1 DEF GiveUp
    <3> QED BY <3>1, OnKeyAnswerInStep DEF StepInv
  <2>2. CASE s = "gmail"
    BY <1>6, <2>2 DEF GiveUp, StepInv
  <2> QED BY <2>1, <2>2 DEF Services
<1>7. CASE Restart
  BY <1>7, EmptySeq DEF Restart, StepInv, InStep, NothingCollected, OnGmail
<1>8. ASSUME NEW m \in Mails, storeEmail(m) PROVE StepInv'
  BY <1>8 DEF storeEmail, keyStream, gmailStream, StepInv
<1>9. CASE (\E split \in Splits : LateUpdate(split)) \/ LateRetrieve \/ UNCHANGED vars
  <2>1. UNCHANGED <<pc, call, buffer, toKey, toGmail, fromGmail, slipped>>
    BY <1>9 DEF LateUpdate, LateRetrieve, vars, keyStream, gmailStream
  <2> QED BY <2>1 DEF StepInv
<1> QED BY <1>1, <1>2, <1>3, <1>4, <1>5, <1>6, <1>7, <1>8, <1>9 DEF Next, Receive

\* Nothing is on the connection at first.
LEMMA InitStepInv == Init => StepInv
BY EmptySeq DEF Init, StepInv, InStep, NothingCollected, OnGmail

\* In step, every share request carries the token it needs.
LEMMA StepInvImpliesTokensFit == StepInv => TokensFitUntilSlip
<1> SUFFICES ASSUME StepInv, ~slipped, NEW k \in 1..Len(toKey)
             PROVE  /\ toKey[k].command = "4" => toKey[k].token = "FETCH_SHARE1"
                    /\ toKey[k].command = "5" => toKey[k].token = "UPDATE_SHARE1"
  BY DEF TokensFitUntilSlip
<1>1. toKey[k] \in FittingRequests
  BY ElementOfSeq DEF StepInv
<1> QED BY <1>1 DEF FittingRequests

\* As long as no chunk boundary, give-up or refused token moved the Gmail connection, a
\* token is sent with the request it was made for (request_operation_token and the
\* share functions of client.cpp).
THEOREM TokensFitUntilSlipHolds == Spec => []TokensFitUntilSlip
<1>1. Typed => TypeInv
  BY DEF Typed
<1> QED BY <1>1, InitTyped, NextTyped, InitStepInv, NextStepInv, StepInvImpliesTokensFit, PTL DEF Spec

-----------------------------------------------------------------------------
(* The mails in a text, and those that receive_emails finds in it *)

\* The mails whose text ends in s, and those that are still to be processed.
BackMails(s) == {s[k].of : k \in {j \in 1..Len(s) : s[j].kind = "back"}}
TodoMails(t) == {t[k].mail : k \in 1..Len(t)}

\* A mail as process_email takes it from an undamaged text.
Named(m) == [mail |-> m, name |-> m.sender]

LEMMA InFlightParts == InFlight = BackMails(fromGmail) \cup BackMails(buffer) \cup TodoMails(todo)
BY DEF InFlight, BackMails, TodoMails

\* Two texts in a row.
LEMMA BackMailsConcat ==
    ASSUME NEW s \in Seq(GmailItems), NEW t \in Seq(GmailItems)
    PROVE  BackMails(s \o t) = BackMails(s) \cup BackMails(t)
<1> DEFINE u == s \o t
<1>1. /\ Len(s) \in Nat /\ Len(t) \in Nat /\ Len(u) = Len(s) + Len(t)
      /\ \A i \in 1..(Len(s) + Len(t)) : u[i] = IF i <= Len(s) THEN s[i] ELSE t[i - Len(s)]
  BY ConcatProperties, LenProperties
<1> HIDE DEF u
<1>2. ASSUME NEW k \in 1..Len(u), u[k].kind = "back"
      PROVE  u[k].of \in BackMails(s) \cup BackMails(t)
  <2>1. CASE k <= Len(s)
    <3>1. k \in 1..Len(s) /\ u[k] = s[k]
      BY <1>1, <2>1
    <3> QED BY <1>2, <3>1 DEF BackMails
  <2>2. CASE k > Len(s)
    <3>1. k - Len(s) \in 1..Len(t) /\ u[k] = t[k - Len(s)]
      BY <1>1, <2>2
    <3> QED BY <1>2, <3>1 DEF BackMails
  <2> QED BY <1>1, <2>1, <2>2
<1>3. ASSUME NEW k \in 1..Len(s), s[k].kind = "back" PROVE s[k].of \in BackMails(u)
  <2>1. k \in 1..Len(u) /\ u[k] = s[k]
    BY <1>1
  <2> QED BY <1>3, <2>1 DEF BackMails
<1>4. ASSUME NEW k \in 1..Len(t), t[k].kind = "back" PROVE t[k].of \in BackMails(u)
  <2>1. Len(s) + k \in 1..Len(u) /\ u[Len(s) + k] = t[k]
    BY <1>1
  <2> QED BY <1>4, <2>1 DEF BackMails
<1>5. BackMails(u) = BackMails(s) \cup BackMails(t)
  BY <1>2, <1>3, <1>4 DEF BackMails
<1> QED BY <1>5 DEF u

\* What a read takes and what it leaves.
LEMMA ReadSplits ==
    ASSUME NEW S, NEW s \in Seq(S), NEW n \in 0..Len(s)
    PROVE  /\ SubSeq(s, 1, n) \in Seq(S) /\ SubSeq(s, n + 1, Len(s)) \in Seq(S)
           /\ SubSeq(s, 1, n) \o SubSeq(s, n + 1, Len(s)) = s
<1>1. Len(s) \in Nat /\ \A i \in 1..Len(s) : s[i] \in S
  BY ElementOfSeq, LenProperties
<1>2. 1 \in Int /\ n \in Int /\ n + 1 \in Int /\ Len(s) \in Int
  BY <1>1
<1>3. \A i \in 1..n : s[i] \in S
  BY <1>1
<1>4. \A i \in (n + 1)..Len(s) : s[i] \in S
  BY <1>1
<1>5. SubSeq(s, 1, n) \in Seq(S)
  BY <1>2, <1>3, SubSeqProperties
<1>6. SubSeq(s, n + 1, Len(s)) \in Seq(S)
  BY <1>2, <1>4, SubSeqProperties
<1>7. SubSeq(s, 1, n) \o SubSeq(s, n + 1, Len(s)) = s
  <2>1. 1 \in 1..(Len(s) + 1) /\ n \in (1 - 1)..Len(s) /\ Len(s) \in n..Len(s)
    BY <1>1
  <2>2. SubSeq(s, 1, n) \o SubSeq(s, n + 1, Len(s)) = SubSeq(s, 1, Len(s))
    BY <2>1, ConcatAdjacentSubSeq
  <2> QED BY <2>2, SubSeqFull
<1> QED BY <1>5, <1>6, <1>7

\* Lines hold no mail, a mailbox its own.
LEMMA LinesHoldNoMail ==
    ASSUME NEW x, NEW y, x.kind # "back", y.kind # "back"
    PROVE  BackMails(<<y>>) = {} /\ BackMails(<<x, y>>) = {}
<1>1. Len(<<y>>) = 1 /\ <<y>>[1] = y /\ Len(<<x, y>>) = 2 /\ <<x, y>>[1] = x /\ <<x, y>>[2] = y
  OBVIOUS
<1>2. BackMails(<<y>>) = {}
  BY <1>1 DEF BackMails
<1>3. BackMails(<<x, y>>) = {}
  <2> DEFINE u == <<x, y>>
  <2>1. Len(u) = 2 /\ u[1] = x /\ u[2] = y
    BY <1>1
  <2> HIDE DEF u
  <2>2. \A k \in 1..Len(u) : k = 1 \/ k = 2
    BY <2>1
  <2>3. BackMails(u) = {}
    BY <2>1, <2>2 DEF BackMails
  <2> QED BY <2>3 DEF u
<1> QED BY <1>2, <1>3

LEMMA MailboxItems ==
    ASSUME NEW ms \in Seq(Mails), ms # <<>>, NEW cuts, NEW k \in 1..Len(ms)
    PROVE  /\ Chunked(ms, cuts)[3 * k - 2].kind = "front" /\ Chunked(ms, cuts)[3 * k].kind = "END"
           /\ Chunked(ms, cuts)[3 * k - 1].kind = "back" /\ Chunked(ms, cuts)[3 * k - 1].of = ms[k]
<1> DEFINE c == Chunked(ms, cuts)
           x == 3 * k - 2 \in cuts
           y == 3 * k - 1 \in cuts
           z == 3 * k \in cuts \cup {3 * Len(ms)}
<1>1. /\ c[3 * k - 2] = Item("front", ms[k], x) /\ c[3 * k - 1] = Item("back", ms[k], y)
      /\ c[3 * k] = Item("END", None, z)
  BY ChunkedItems
<1> HIDE DEF c, x, y, z
<1>2. /\ c[3 * k - 2].kind = "front" /\ c[3 * k].kind = "END"
      /\ c[3 * k - 1].kind = "back" /\ c[3 * k - 1].of = ms[k]
  BY <1>1, ItemFields
<1> QED BY <1>2 DEF c

LEMMA MailboxHoldsItsMails ==
    ASSUME NEW ms \in Seq(Mails), ms # <<>>, NEW cuts
    PROVE  BackMails(Chunked(ms, cuts)) = {ms[k] : k \in 1..Len(ms)}
<1> DEFINE n == Len(ms)
           c == Chunked(ms, cuts)
<1>1. n \in Nat /\ Len(c) = 3 * n
  BY ChunkedItems
<1>2. \A k \in 1..n : /\ c[3 * k - 2].kind = "front" /\ c[3 * k].kind = "END"
                      /\ c[3 * k - 1].kind = "back" /\ c[3 * k - 1].of = ms[k]
  BY MailboxItems
<1> HIDE DEF c
<1>3. ASSUME NEW i \in 1..(3 * n), c[i].kind = "back" PROVE c[i].of \in {ms[k] : k \in 1..n}
  <2>1. PICK k \in 1..n : i = 3 * k - 2 \/ i = 3 * k - 1 \/ i = 3 * k
    BY <1>1, ThreeAMail
  <2>2. c[3 * k - 2].kind = "front" /\ c[3 * k].kind = "END" /\ c[3 * k - 1].of = ms[k]
    BY <1>2
  <2>3. c[i].kind = "back"
    BY <1>3
  <2>4. i = 3 * k - 1
    BY <2>1, <2>2, <2>3
  <2>5. c[i].of = ms[k]
    BY <2>2, <2>4
  <2> QED BY <2>5
<1>4. ASSUME NEW k \in 1..n PROVE ms[k] \in BackMails(c)
  <2>1. 3 * k - 1 \in 1..Len(c)
    BY <1>1
  <2>2. 3 * k - 1 \in {j \in 1..Len(c) : c[j].kind = "back"} /\ c[3 * k - 1].of = ms[k]
    BY <1>2, <2>1
  <2> QED BY <2>2 DEF BackMails
<1>5. BackMails(c) \subseteq {ms[k] : k \in 1..n}
  BY <1>1, <1>3 DEF BackMails
<1>6. {ms[k] : k \in 1..n} \subseteq BackMails(c)
  BY <1>4
<1> QED BY <1>5, <1>6 DEF c

\* The two items of a mail are taken for that mail, with its sender's name.
LEMMA PairIsMail ==
    ASSUME NEW seg, NEW m, Len(seg) = 2, seg[1].kind = "front", seg[2].kind = "back", seg[2].of = m
    PROVE  MailIn(seg) = <<Named(m)>>
<1>1. \A k \in 1..Len(seg) : k = 1 \/ k = 2
  OBVIOUS
<1>2. /\ Len(seg) >= 2
      /\ \A k \in 1..Len(seg) : (seg[k].kind = "front") <=> (k = Len(seg) - 1)
      /\ \A k \in 1..Len(seg) : (seg[k].kind = "back") <=> (k = Len(seg))
  BY <1>1
<1>3. MailIn(seg) = <<[mail |-> seg[Len(seg)].of,
                       name |-> IF Len(seg) = 2 THEN seg[Len(seg)].of.sender ELSE None]>>
  BY <1>2 DEF MailIn
<1> QED BY <1>3 DEF Named

\* receive_emails finds every mail of a mailbox, in order, with its sender's name,
\* however it was cut on its way.
LEMMA MailboxIsFound ==
    ASSUME NEW ms \in Seq(Mails), ms # <<>>, NEW cuts
    PROVE  /\ Len(MailsIn(Chunked(ms, cuts))) = Len(ms)
           /\ \A k \in 1..Len(ms) : MailsIn(Chunked(ms, cuts))[k] = Named(ms[k])
<1> DEFINE n == Len(ms)
           c == Chunked(ms, cuts)
<1>1. n \in Nat /\ n > 0 /\ Len(c) = 3 * n
  BY ChunkedItems
<1>2. c \in Seq(GmailItems)
  BY ChunkedIsWhole DEF WholeAnswers
<1>3. \A k \in 1..n : /\ c[3 * k - 2].kind = "front" /\ c[3 * k].kind = "END"
                      /\ c[3 * k - 1].kind = "back" /\ c[3 * k - 1].of = ms[k]
  BY MailboxItems
<1> HIDE DEF c
<1>4. PICK g : LoopRun(c, g) /\ MailsIn(c) = g[3 * n].mails
  BY <1>1, MailsInLoop
<1>5. \A k \in 0..(3 * n) : g[k].mails \in Seq(FoundMails)
  BY <1>1, <1>2, <1>4, LoopTypes
<1> DEFINE S == {k \in 0..n : /\ g[3 * k].start = 3 * k + 1 /\ Len(g[3 * k].mails) = k
                              /\ \A j \in 1..k : g[3 * k].mails[j] = Named(ms[j])}
<1>6. 0 \in S
  <2>1. g[3 * 0].start = 3 * 0 + 1 /\ g[3 * 0].mails = <<>>
    BY <1>4 DEF LoopRun, LoopStart
  <2>2. Len(g[3 * 0].mails) = 0
    BY <2>1, EmptySeq
  <2>3. 0 \in 0..n
    BY <1>1
  <2> HIDE DEF n
  <2> QED BY <2>1, <2>2, <2>3
<1>7. ASSUME NEW k \in 0..(n - 1), k \in S PROVE k + 1 \in S
  <2>1. /\ k + 1 \in 1..n /\ 3 * (k + 1) - 2 = 3 * k + 1 /\ 3 * (k + 1) - 1 = 3 * k + 2
        /\ 3 * (k + 1) = 3 * k + 3 /\ k \in Nat
    BY <1>1
  <2>2. /\ c[3 * k + 1].kind = "front" /\ c[3 * k + 2].kind = "back" /\ c[3 * k + 3].kind = "END"
        /\ c[3 * k + 2].of = ms[k + 1]
    <3> HIDE DEF n
    <3> QED BY <1>3, <2>1
  <2>3. /\ g[3 * k].start = 3 * k + 1 /\ Len(g[3 * k].mails) = k
        /\ \A j \in 1..k : g[3 * k].mails[j] = Named(ms[j])
    BY <1>7
  <2> HIDE DEF S
  <2> DEFINE i == 3 * k
             seg == SubSeq(c, i + 1, i + 2)
  <2>4. /\ i + 1 \in 1..(3 * n) /\ i + 2 \in 1..(3 * n) /\ i + 3 \in 1..(3 * n) /\ i \in 0..(3 * n)
        /\ (i + 1) - 1 = i /\ (i + 2) - 1 = i + 1 /\ (i + 3) - 1 = i + 2 /\ i \in Nat
    BY <1>1, <2>1
  <2>5. \A j \in 1..(3 * n) : g[j] = LoopStep(c, g[j - 1], j)
    BY <1>1, <1>4 DEF LoopRun
  <2>6. g[i + 1] = g[i]
    <3>1. g[i + 1] = LoopStep(c, g[i], i + 1)
      BY <2>4, <2>5
    <3> QED BY <2>2, <3>1 DEF LoopStep
  <2>7. g[i + 2] = g[i]
    <3>1. g[i + 2] = LoopStep(c, g[i + 1], i + 2)
      BY <2>4, <2>5
    <3> QED BY <2>2, <2>6, <3>1 DEF LoopStep
  <2>8. g[i + 3] = [mails |-> g[i].mails \o MailIn(seg), start |-> i + 4]
    <3>1. g[i + 3] = LoopStep(c, g[i + 2], i + 3)
      BY <2>4, <2>5
    <3>2. LoopStep(c, g[i], i + 3) =
            [mails |-> g[i].mails \o MailIn(SubSeq(c, g[i].start, (i + 3) - 1)), start |-> (i + 3) + 1]
      BY <2>2 DEF LoopStep
    <3>3. (i + 3) + 1 = i + 4 /\ g[i].start = i + 1
      BY <2>3, <2>4
    <3> QED BY <2>4, <2>7, <3>1, <3>2, <3>3
  <2>9. MailIn(seg) = <<Named(ms[k + 1])>>
    <3>1. \A j \in (i + 1)..(i + 2) : c[j] \in GmailItems
      BY <1>1, <1>2, <2>4, ElementOfSeq
    <3>2. /\ Len(seg) = (i + 2) - (i + 1) + 1
          /\ \A j \in 1..((i + 2) - (i + 1) + 1) : seg[j] = c[(i + 1) + j - 1]
      <4>1. i + 1 \in Int /\ i + 2 \in Int /\ i + 1 <= i + 2
        BY <2>4
      <4> QED BY <3>1, <4>1, SubSeqProperties
    <3> HIDE DEF seg
    <3>3. Len(seg) = 2 /\ seg[1] = c[i + 1] /\ seg[2] = c[i + 2]
      BY <2>4, <3>2
    <3> QED BY <2>2, <3>3, PairIsMail
  <2> DEFINE f == g[i].mails
             x == Named(ms[k + 1])
  <2>10. f \in Seq(FoundMails) /\ Len(f) = k /\ \A j \in 1..k : f[j] = Named(ms[j])
    BY <1>5, <2>3, <2>4
  <2>11. x \in FoundMails
    <3>1. ms[k + 1] \in Mails
      BY <2>1, ElementOfSeq
    <3> QED BY <3>1 DEF Named, FoundMails, Mails
  <2>12. g[i + 3].mails = f \o <<x>> /\ g[i + 3].start = i + 4
    <3> DEFINE y == MailIn(seg)
    <3>1. y = <<x>> /\ g[i + 3] = [mails |-> f \o y, start |-> i + 4]
      BY <2>8, <2>9
    <3> HIDE DEF y, x, f, i, seg
    <3> QED BY <3>1
  <2> HIDE DEF f, x
  <2>13. f \o <<x>> = Append(f, x)
    BY <2>10, <2>11, AppendIsConcat
  <2>14. Len(g[i + 3].mails) = k + 1
    BY <2>10, <2>11, <2>12, <2>13, AppendProperties
  <2>15. ASSUME NEW j \in 1..(k + 1) PROVE g[i + 3].mails[j] = Named(ms[j])
    <3>1. CASE j = k + 1
      <4>1. Append(f, x)[Len(f) + 1] = x
        BY <2>10, <2>11, AppendProperties
      <4> QED BY <2>10, <2>12, <2>13, <3>1, <4>1 DEF x
    <3>2. CASE j # k + 1
      <4>1. j \in 1..Len(f)
        BY <2>1, <2>10, <3>2
      <4>2. Append(f, x)[j] = f[j]
        BY <2>10, <2>11, <4>1, AppendProperties
      <4> QED BY <2>10, <2>12, <2>13, <4>1, <4>2
    <3> QED BY <3>1, <3>2
  <2>16. 3 * (k + 1) = i + 3 /\ 3 * (k + 1) + 1 = i + 4 /\ k + 1 \in 0..n
    BY <2>1
  <2> HIDE DEF i
  <2> QED BY <2>12, <2>14, <2>15, <2>16 DEF S
<1>8. n \in S
  <2> HIDE DEF S, n
  <2>1. \A k \in 0..n : k \in S
    BY <1>1, <1>6, <1>7, UpTo
  <2> QED BY <1>1, <2>1
<1>9. Len(MailsIn(c)) = n /\ \A k \in 1..n : MailsIn(c)[k] = Named(ms[k])
  BY <1>4, <1>8
<1> QED BY <1>9 DEF c

\* h gives for each mail in f the place up to top where its text ends in text: each
\* its own, in order.
Origins(text, f, top, h) ==
    \A j \in 1..Len(f) :
        /\ h[j] \in 1..top /\ text[h[j]].kind = "back" /\ text[h[j]].of = f[j].mail
        /\ \A i \in 1..(j - 1) : h[i] < h[j]

\* The last item of a segment ends a mail behind those that were found before.
LEMMA OneMoreOrigin ==
    ASSUME NEW text, NEW f \in Seq(FoundMails), NEW x \in FoundMails, NEW top \in Nat, NEW h,
           Origins(text, f, top, h),
           NEW k \in Nat, top < k, text[k].kind = "back", text[k].of = x.mail
    PROVE  \E hh : Origins(text, f \o <<x>>, k, hh)
<1> DEFINE n == Len(f)
           hh == [j \in 1..(n + 1) |-> IF j = n + 1 THEN k ELSE h[j]]
<1>1. /\ n \in Nat /\ Len(f \o <<x>>) = n + 1 /\ (f \o <<x>>)[n + 1] = x
      /\ \A j \in 1..n : (f \o <<x>>)[j] = f[j]
  BY AppendIsConcat, AppendProperties, LenProperties
<1>2. /\ hh[n + 1] = k /\ \A j \in 1..n : hh[j] = h[j]
  BY <1>1
<1> HIDE DEF hh
<1>3. \A j \in 1..n : /\ h[j] \in 1..top /\ text[h[j]].kind = "back" /\ text[h[j]].of = f[j].mail
                      /\ \A i \in 1..(j - 1) : h[i] < h[j]
  BY DEF Origins
<1>4. ASSUME NEW j \in 1..(n + 1)
      PROVE  /\ hh[j] \in 1..k /\ text[hh[j]].kind = "back" /\ text[hh[j]].of = (f \o <<x>>)[j].mail
             /\ \A i \in 1..(j - 1) : hh[i] < hh[j]
  <2>1. CASE j = n + 1
    <3>1. \A i \in 1..n : h[i] < k
      BY <1>3
    <3>2. hh[j] = k /\ (f \o <<x>>)[j] = x
      BY <1>1, <1>2, <2>1
    <3>3. \A i \in 1..(j - 1) : hh[i] < hh[j]
      BY <1>1, <1>2, <2>1, <3>1, <3>2
    <3> QED BY <3>2, <3>3
  <2>2. CASE j # n + 1
    <3>1. j \in 1..n
      BY <1>1, <2>2
    <3>2. hh[j] = h[j] /\ (f \o <<x>>)[j] = f[j]
      BY <1>1, <1>2, <3>1
    <3>3. /\ h[j] \in 1..top /\ text[h[j]].kind = "back" /\ text[h[j]].of = f[j].mail
          /\ \A i \in 1..(j - 1) : h[i] < h[j]
      BY <1>3, <3>1
    <3>4. \A i \in 1..(j - 1) : hh[i] < hh[j]
      BY <1>1, <1>2, <3>1, <3>2, <3>3
    <3> QED BY <3>2, <3>3, <3>4
  <2> QED BY <2>1, <2>2
<1>5. Origins(text, f \o <<x>>, k, hh)
  BY <1>1, <1>4 DEF Origins
<1> QED BY <1>5

\* No mail is found that is not in the text, and none more often than it is there.
LEMMA MailsHaveOrigins ==
    ASSUME NEW text \in Seq(GmailItems)
    PROVE  \E h : Origins(text, MailsIn(text), Len(text), h)
<1> DEFINE N == Len(text)
<1>1. N \in Nat
  BY LenProperties
<1>2. PICK g : LoopRun(text, g) /\ MailsIn(text) = g[N].mails
  BY <1>1, MailsInLoop
<1>3. \A k \in 0..N : g[k].mails \in Seq(FoundMails) /\ g[k].start \in 1..(k + 1)
  BY <1>2, LoopTypes
<1> DEFINE S == {k \in 0..N : \E h : Origins(text, g[k].mails, g[k].start - 1, h)}
<1>4. 0 \in S
  <2>1. g[0].mails = <<>>
    BY <1>2 DEF LoopRun, LoopStart
  <2>2. Len(g[0].mails) = 0
    BY <2>1, EmptySeq
  <2>3. Origins(text, g[0].mails, g[0].start - 1, g)
    BY <2>2 DEF Origins
  <2>4. 0 \in 0..N
    BY <1>1
  <2> HIDE DEF N
  <2> QED BY <2>3, <2>4
<1>5. ASSUME NEW k \in 0..(N - 1), k \in S PROVE k + 1 \in S
  <2>1. k + 1 \in 1..N /\ k + 1 \in 0..N /\ k \in 0..N /\ g[k + 1] = LoopStep(text, g[k], k + 1)
    BY <1>1, <1>2 DEF LoopRun
  <2>2. PICK h : Origins(text, g[k].mails, g[k].start - 1, h)
    BY <1>5
  <2> HIDE DEF S
  <2> DEFINE f == g[k].mails
             a == g[k].start
             seg == SubSeq(text, a, k)
  <2>3. f \in Seq(FoundMails) /\ a \in 1..(k + 1) /\ k \in Nat
    BY <1>1, <1>3, <2>1
  <2>4. CASE text[k + 1].kind # "END"
    <3>1. g[k + 1] = g[k]
      BY <2>1, <2>4 DEF LoopStep
    <3>2. Origins(text, g[k + 1].mails, g[k + 1].start - 1, h)
      BY <2>2, <3>1
    <3> QED BY <2>1, <3>2 DEF S
  <2>5. CASE text[k + 1].kind = "END"
    <3>1. g[k + 1] = [mails |-> f \o MailIn(seg), start |-> k + 2]
      <4>1. LoopStep(text, g[k], k + 1) =
              [mails |-> f \o MailIn(SubSeq(text, a, (k + 1) - 1)), start |-> (k + 1) + 1]
        BY <2>5 DEF LoopStep
      <4>2. (k + 1) - 1 = k /\ (k + 1) + 1 = k + 2
        BY <1>1
      <4> QED BY <2>1, <4>1, <4>2
    <3>2. \A i \in a..k : text[i] \in GmailItems
      BY <1>1, <2>1, <2>3, ElementOfSeq
    <3>3. /\ seg \in Seq(GmailItems) /\ Len(seg) = IF a <= k THEN k - a + 1 ELSE 0
          /\ \A i \in 1..(k - a + 1) : seg[i] = text[a + i - 1]
      BY <2>3, <3>2, SubSeqProperties
    <3> HIDE DEF seg
    <3> DEFINE y == MailIn(seg)
    <3>4. g[k + 1].mails = f \o y /\ g[k + 1].start = k + 2
      <4> HIDE DEF y, f
      <4> QED BY <3>1 DEF y
    <3>5. CASE y = <<>>
      <4>1. g[k + 1].mails = f
        <5> HIDE DEF y, f
        <5> QED BY <2>3, <3>4, <3>5, ConcatEmptySeq
      <4>2. Origins(text, f, k + 1, h)
        <5>1. \A j \in 1..Len(f) : h[j] \in 1..(a - 1)
          BY <2>2 DEF Origins
        <5>2. \A j \in 1..Len(f) : h[j] \in 1..(k + 1)
          BY <2>3, <5>1
        <5> QED BY <2>2, <5>2 DEF Origins
      <4>3. (k + 2) - 1 = k + 1
        BY <2>3
      <4> HIDE DEF f
      <4>4. Origins(text, g[k + 1].mails, g[k + 1].start - 1, h)
        BY <3>4, <4>1, <4>2, <4>3
      <4> QED BY <2>1, <4>4 DEF S
    <3>6. ASSUME Len(seg) \in Nat, Len(seg) >= 2, seg[Len(seg)].kind = "back",
                 NEW x \in FoundMails, x.mail = seg[Len(seg)].of, y = <<x>>
          PROVE  k + 1 \in S
      <4> HIDE DEF f, a, y
      <4>1. a <= k /\ Len(seg) = k - a + 1 /\ a \in Nat
        BY <2>3, <3>3, <3>6
      <4>2. Len(seg) \in 1..(k - a + 1) /\ a + Len(seg) - 1 = k
        BY <2>3, <4>1
      <4>3. a - 1 < k /\ a - 1 \in Nat
        BY <2>3, <4>1
      <4>4. text[k].kind = "back" /\ text[k].of = x.mail
        <5>1. seg[Len(seg)] = text[a + Len(seg) - 1]
          BY <3>3, <4>2
        <5> QED BY <3>6, <4>2, <5>1
      <4>5. Origins(text, f, a - 1, h)
        BY <2>2 DEF f, a
      <4>6. PICK hh : Origins(text, f \o <<x>>, k, hh)
        BY <2>3, <4>3, <4>4, <4>5, OneMoreOrigin
      <4>7. \A j \in 1..Len(f \o <<x>>) : hh[j] \in 1..k
        BY <4>6 DEF Origins
      <4>8. \A j \in 1..Len(f \o <<x>>) : hh[j] \in 1..(k + 1)
        BY <2>3, <4>7
      <4>9. Origins(text, f \o <<x>>, k + 1, hh)
        BY <4>6, <4>8 DEF Origins
      <4>10. g[k + 1].mails = f \o <<x>> /\ g[k + 1].start - 1 = k + 1
        BY <2>3, <3>4, <3>6
      <4>11. Origins(text, g[k + 1].mails, g[k + 1].start - 1, hh)
        BY <4>9, <4>10
      <4> QED BY <2>1, <4>11 DEF S
    <3> HIDE DEF y
    <3>7. \/ y = <<>>
          \/ /\ Len(seg) \in Nat /\ Len(seg) >= 2 /\ seg[Len(seg)].kind = "back"
             /\ \E x \in FoundMails : x.mail = seg[Len(seg)].of /\ y = <<x>>
      BY <3>3, MailInLemma DEF y
    <3> QED BY <3>5, <3>6, <3>7
  <2> QED BY <2>4, <2>5
<1>6. N \in S
  <2> HIDE DEF S, N
  <2>1. \A k \in 0..N : k \in S
    BY <1>1, <1>4, <1>5, UpTo
  <2> QED BY <1>1, <2>1
<1>7. PICK h : Origins(text, g[N].mails, g[N].start - 1, h)
  BY <1>6
<1>8. \A j \in 1..Len(g[N].mails) : h[j] \in 1..N
  <2>1. g[N].start \in 1..(N + 1)
    BY <1>1, <1>3
  <2>2. \A j \in 1..Len(g[N].mails) : h[j] \in 1..(g[N].start - 1)
    BY <1>7 DEF Origins
  <2> QED BY <1>1, <2>1, <2>2
<1>9. Origins(text, g[N].mails, N, h)
  BY <1>7, <1>8 DEF Origins
<1> QED BY <1>2, <1>9

\* So what is to be processed was in the text.
LEMMA FoundInText ==
    ASSUME NEW text \in Seq(GmailItems)
    PROVE  TodoMails(MailsIn(text)) \subseteq BackMails(text)
<1>1. PICK h : Origins(text, MailsIn(text), Len(text), h)
  BY MailsHaveOrigins
<1> DEFINE f == MailsIn(text)
<1>2. ASSUME NEW j \in 1..Len(f) PROVE f[j].mail \in BackMails(text)
  <2>1. h[j] \in 1..Len(text) /\ text[h[j]].kind = "back" /\ text[h[j]].of = f[j].mail
    BY <1>1 DEF Origins
  <2>2. h[j] \in {i \in 1..Len(text) : text[i].kind = "back"}
    BY <2>1
  <2> HIDE DEF f
  <2>3. text[h[j]].of \in BackMails(text)
    BY <2>2 DEF BackMails
  <2> QED BY <2>1, <2>3
<1> QED BY <1>2 DEF TodoMails

\* A mail that is processed is no longer to be processed; the others are.
LEMMA TodoMailsTail ==
    ASSUME NEW t \in Seq(FoundMails), t # <<>>
    PROVE  TodoMails(t) = {Head(t).mail} \cup TodoMails(Tail(t))
<1>1. /\ Len(t) \in Nat /\ Len(t) > 0 /\ Len(Tail(t)) = Len(t) - 1 /\ Head(t) = t[1]
      /\ \A k \in 1..Len(Tail(t)) : Tail(t)[k] = t[k + 1]
  BY TailLemma
<1>2. ASSUME NEW k \in 1..Len(t) PROVE t[k].mail \in {Head(t).mail} \cup TodoMails(Tail(t))
  <2>1. CASE k = 1
    BY <1>1, <2>1
  <2>2. CASE k # 1
    <3>1. k - 1 \in 1..Len(Tail(t)) /\ Tail(t)[k - 1] = t[k]
      BY <1>1, <2>2
    <3> QED BY <3>1 DEF TodoMails
  <2> QED BY <2>1, <2>2
<1>3. ASSUME NEW k \in 1..Len(Tail(t)) PROVE Tail(t)[k].mail \in TodoMails(t)
  <2>1. k + 1 \in 1..Len(t) /\ Tail(t)[k] = t[k + 1]
    BY <1>1
  <2> QED BY <2>1 DEF TodoMails
<1>4. Head(t).mail \in TodoMails(t)
  BY <1>1 DEF TodoMails
<1> QED BY <1>2, <1>3, <1>4 DEF TodoMails

-----------------------------------------------------------------------------
(* No mail is lost *)

\* A mail on its way that no chunk, restart, timeout or delay put at risk is on
\* connections that are in step.
InFlightInStep == \A m \in InFlight \ atRisk : ~slipped /\ gaveUp["key"] = 0

\* Its sender's name came with it.
NamesFit(t, risk) == \A k \in 1..Len(t) : t[k].mail \notin risk => t[k] = Named(t[k].mail)

\* The answer about a name.
KeyAnswer(n) == IF n \in Registered THEN [kind |-> "key", of |-> n]
                                    ELSE [kind |-> "CLIENT_NOT_FOUND", of |-> None]

\* The Key Server connection holds the request for n's key, or the answer to it.
AskedFor(n, q, s) ==
    \/ q = <<KeyRequest(n)>> /\ s = <<>>
    \/ q = <<>> /\ s = <<KeyAnswer(n)>>

\* process_email waits for the key of the sender of the mail that is next.
NextIsAsked ==
    gaveUp["key"] = 0 /\ pc = "key" /\ todo # <<>> => AskedFor(Head(todo).name, toKey, fromKey)

Base == Typed /\ StepInv /\ LagInv
Traced == InFlightInStep /\ NamesFit(todo, atRisk) /\ NextIsAsked /\ NothingLost
MailInv == Base /\ Traced

LEMMA EmptyHoldsNoMail == BackMails(<<>>) = {} /\ TodoMails(<<>>) = {}
<1>1. Len(<<>>) = 0
  BY EmptySeq
<1> QED BY <1>1 DEF BackMails, TodoMails

\* Such a mail is in the mailbox that receive_emails is about to read, or still to be
\* processed.
LEMMA WhereInFlight ==
    ASSUME TypeInv, StepInv, InFlightInStep, NEW m \in InFlight, m \notin atRisk
    PROVE  /\ ~slipped /\ gaveUp["key"] = 0 /\ toGmail = <<>> /\ buffer = <<>>
           /\ \/ /\ pc = "mails" /\ todo = <<>> /\ m \in BackMails(fromGmail)
                 /\ \E ms \in Seq(Mails) : ms # <<>> /\ fromGmail = Chunked(ms, {})
              \/ pc = "key" /\ fromGmail = <<>> /\ m \in TodoMails(todo)
<1>1. ~slipped /\ gaveUp["key"] = 0
  BY DEF InFlightInStep
<1>2. buffer = <<>> /\ InStep(pc, call, toGmail, fromGmail)
  BY <1>1 DEF StepInv, NothingCollected
<1>3. m \in BackMails(fromGmail) \/ m \in TodoMails(todo)
  BY <1>2, InFlightParts, EmptyHoldsNoMail
<1>4. CASE pc \notin OnGmail
  <2>1. toGmail = <<>> /\ fromGmail = <<>>
    BY <1>2, <1>4 DEF InStep
  <2>2. m \in TodoMails(todo)
    BY <1>3, <2>1, EmptyHoldsNoMail
  <2>3. pc = "key"
    BY <2>2, EmptyHoldsNoMail DEF TypeInv, TodoFits
  <2> QED BY <1>1, <1>2, <2>1, <2>2, <2>3
<1>5. CASE pc \in OnGmail
  <2>1. todo = <<>>
    BY <1>5 DEF TypeInv, TodoFits, OnGmail
  <2>2. m \in BackMails(fromGmail) /\ fromGmail # <<>>
    BY <1>3, <2>1, EmptyHoldsNoMail
  <2>3. toGmail = <<>> /\ AnsweredWith(pc, call, fromGmail)
    BY <1>2, <2>2, AnswerIsThere
  <2>4. pc = "mails" /\ \E ms \in Seq(Mails) : ms # <<>> /\ fromGmail = Chunked(ms, {})
    <3>1. \A y : y.kind # "back" => fromGmail # <<y>>
      BY <2>2, LinesHoldNoMail
    <3>2. \A x, y : x.kind # "back" /\ y.kind # "back" => fromGmail # <<x, y>>
      BY <2>2, LinesHoldNoMail
    <3>3. \A of, last : Item("OK:EMAIL_STORED", of, last).kind # "back"
      BY DEF Item
    <3>4. \A of, last : Item("token", of, last).kind # "back"
      BY DEF Item
    <3>5. \A of, last : Item("No emails found", of, last).kind # "back"
      BY DEF Item
    <3>6. \A of, last : Item("END", of, last).kind # "back"
      BY DEF Item
    <3>7. \A of, last : Item("OP_TOKEN", of, last).kind # "back"
      BY DEF Item
    <3>8. fromGmail # <<Item("OK:EMAIL_STORED", None, TRUE)>>
      BY <3>1, <3>3, Zenon
    <3>9. fromGmail # <<Item("token", call.operation, TRUE)>>
      BY <3>1, <3>4, Zenon
    <3>10. fromGmail # <<Item("No emails found", None, FALSE), Item("END", None, TRUE)>>
      BY <3>2, <3>5, <3>6, Zenon
    <3>11. fromGmail # <<Item("OP_TOKEN", None, FALSE), Item("token", call.operation, TRUE)>>
      BY <3>2, <3>4, <3>7, Zenon
    <3> QED BY <2>3, <3>8, <3>9, <3>10, <3>11, Zenon DEF AnsweredWith
  <2> QED BY <1>1, <1>2, <2>1, <2>2, <2>3, <2>4
<1> QED BY <1>4, <1>5

\* Where a step leaves the mailbox alone, every mail on its way stays so, is put at risk
\* or is shown, and what else is on its way is at risk.
LEMMA NothingLostStep ==
    ASSUME MailInv, UNCHANGED <<mailbox, arrived>>, arrived \subseteq Mails,
           atRisk \subseteq atRisk', InFlight' \subseteq InFlight \cup atRisk',
           InFlight' \subseteq atRisk' \/ (slipped' = slipped /\ gaveUp'["key"] = gaveUp["key"]),
           \A m \in Mails : processed[m] > 0 => processed'[m] > 0,
           \A m \in InFlight \ atRisk : m \in InFlight' \/ m \in atRisk' \/ processed'[m] > 0
    PROVE  InFlightInStep' /\ NothingLost'
<1>1. InFlightInStep'
  <2> SUFFICES ASSUME NEW m \in InFlight', m \notin atRisk' PROVE ~slipped' /\ gaveUp'["key"] = 0
    BY DEF InFlightInStep
  <2>1. m \in InFlight \ atRisk /\ slipped' = slipped /\ gaveUp'["key"] = gaveUp["key"]
    OBVIOUS
  <2> QED BY <2>1 DEF MailInv, Traced, InFlightInStep
<1>2. NothingLost'
  <2> SUFFICES ASSUME NEW m \in arrived
               PROVE  \/ \E k \in 1..Len(mailbox) : mailbox[k] = m
                      \/ m \in InFlight' \/ processed'[m] > 0 \/ m \in atRisk'
    BY DEF NothingLost
  <2>1. \/ \E k \in 1..Len(mailbox) : mailbox[k] = m
        \/ m \in InFlight \ atRisk \/ processed[m] > 0 \/ m \in atRisk
    BY DEF MailInv, Traced, NothingLost
  <2>2. m \in Mails
    OBVIOUS
  <2> QED BY <2>1, <2>2
<1> QED BY <1>1, <1>2

\* The next mail's sender is asked for on a connection with nothing else on it.
LEMMA ProcessNextAsks ==
    ASSUME NEW rest, ProcessNext(rest), toKey = <<>>, fromKey' = <<>>
    PROVE  NextIsAsked'
<1>1. CASE rest = <<>>
  BY <1>1 DEF ProcessNext, NextIsAsked
<1>2. CASE rest # <<>>
  <2>1. todo' = rest /\ toKey' = Append(<<>>, KeyRequest(Head(rest).name))
    BY <1>2 DEF ProcessNext, AskForKey
  <2>2. toKey' = <<KeyRequest(Head(todo').name)>>
    BY <2>1
  <2> QED BY <2>2 DEF NextIsAsked, AskedFor
<1> QED BY <1>1, <1>2

\* The Key Server answers about the name it was asked about.
LEMMA KeyServerAnswers ==
    ASSUME NextIsAsked, KeyServer
    PROVE  NextIsAsked'
<1>1. toKey # <<>> /\ toKey' = Tail(toKey) /\ UNCHANGED <<pc, todo, gaveUp>>
  BY DEF KeyServer
<1> SUFFICES ASSUME gaveUp["key"] = 0, pc = "key", todo # <<>>
             PROVE  AskedFor(Head(todo).name, toKey', fromKey')
  BY <1>1 DEF NextIsAsked
<1> DEFINE n == Head(todo).name
<1>2. toKey = <<KeyRequest(n)>> /\ fromKey = <<>>
  BY <1>1 DEF NextIsAsked, AskedFor
<1> HIDE DEF n
<1>3. toKey' = <<>> /\ Head(toKey) = KeyRequest(n)
  BY <1>1, <1>2
<1>4. Head(toKey).command = "2" /\ Head(toKey).name = n
  BY <1>3 DEF KeyRequest
<1>5. fetchClientKey(Head(toKey))
  BY <1>4 DEF KeyServer, fetchShare1, updateShare1, RefuseShareRequest
<1>6. fromKey' = Append(<<>>, KeyAnswer(n))
  BY <1>2, <1>4, <1>5 DEF fetchClientKey, KeyAnswer
<1>7. fromKey' = <<KeyAnswer(n)>>
  BY <1>6
<1> QED BY <1>3, <1>7 DEF AskedFor, n

\* A step that touches neither the mails nor what they are at risk of.
LEMMA MailsLeftAlone ==
    ASSUME MailInv, NextIsAsked',
           UNCHANGED <<fromGmail, buffer, todo, mailbox, arrived, processed, atRisk, slipped>>,
           gaveUp'["key"] = gaveUp["key"]
    PROVE  Traced'
<1>1. InFlight' = InFlight
  BY DEF InFlight
<1>2. InFlightInStep'
  BY <1>1 DEF MailInv, Traced, InFlightInStep
<1>3. NothingLost'
  BY <1>1 DEF MailInv, Traced, NothingLost
<1>4. NamesFit(todo', atRisk')
  BY DEF MailInv, Traced
<1> QED BY <1>2, <1>3, <1>4 DEF Traced

\* The names of the mails that are left.
LEMMA TailNames ==
    ASSUME NEW t \in Seq(FoundMails), t # <<>>, NEW risk, NamesFit(t, risk)
    PROVE  /\ Head(t).mail \notin risk => Head(t) = Named(Head(t).mail)
           /\ NamesFit(Tail(t), risk)
<1>1. /\ Len(t) \in Nat /\ Len(t) > 0 /\ Len(Tail(t)) = Len(t) - 1 /\ Head(t) = t[1]
      /\ \A k \in 1..Len(Tail(t)) : Tail(t)[k] = t[k + 1]
  BY TailLemma
<1>2. \A k \in 1..Len(Tail(t)) : k + 1 \in 1..Len(t)
  BY <1>1
<1>3. 1 \in 1..Len(t)
  BY <1>1
<1> QED BY <1>1, <1>2, <1>3 DEF NamesFit

\* More is at risk.
LEMMA NamesStayFit ==
    ASSUME NEW t, NEW risk, NamesFit(t, risk), NEW more, risk \subseteq more
    PROVE  NamesFit(t, more)
BY DEF NamesFit

\* A mail is shown when the key that came is its sender's.
LEMMA ShowMailCounts ==
    ASSUME TypeInv, NEW answer, ShowMail(answer)
    PROVE  /\ todo # <<>> /\ todo \in Seq(FoundMails) /\ Head(todo) \in FoundMails
           /\ todo' = Tail(todo) /\ ProcessNext(Tail(todo)) /\ pc = "key"
           /\ \A m \in Mails : processed[m] > 0 => processed'[m] > 0
           /\ answer.kind = "key" /\ answer.of = Head(todo).mail.sender
                => processed'[Head(todo).mail] = processed[Head(todo).mail] + 1
<1>1. /\ pc = "key" /\ call.recipient = None /\ ProcessNext(Tail(todo))
      /\ processed' = IF answer.kind = "key" /\ answer.of = Head(todo).mail.sender
                      THEN [processed EXCEPT ![Head(todo).mail] = @ + 1] ELSE processed
  BY DEF ShowMail
<1>2. todo # <<>> /\ todo \in Seq(FoundMails)
  BY <1>1 DEF TypeInv, TodoFits
<1>3. Head(todo) \in FoundMails /\ todo' = Tail(todo)
  BY <1>1, <1>2, HeadTailProperties DEF ProcessNext
<1>4. Head(todo).mail \in Mails
  BY <1>3 DEF FoundMails
<1>5. processed \in [Mails -> Nat]
  BY DEF TypeInv, StoresFit
<1>6. CASE answer.kind = "key" /\ answer.of = Head(todo).mail.sender
  <2>1. processed' = [processed EXCEPT ![Head(todo).mail] = @ + 1]
    BY <1>1, <1>6
  <2>2. processed'[Head(todo).mail] = processed[Head(todo).mail] + 1
    BY <1>4, <1>5, <2>1
  <2>3. \A m \in Mails : processed[m] > 0 => processed'[m] > 0
    BY <1>4, <1>5, <2>1
  <2> QED BY <1>1, <1>2, <1>3, <2>2, <2>3
<1>7. CASE ~(answer.kind = "key" /\ answer.of = Head(todo).mail.sender)
  <2>1. processed' = processed
    BY <1>1, <1>7
  <2> QED BY <1>1, <1>2, <1>3, <1>7, <2>1
<1> QED BY <1>6, <1>7

\* process_email gets its answer: the mail is shown, or it was at risk.
LEMMA ReceiveFromKeyTraces ==
    ASSUME MailInv, ReceiveFromKey
    PROVE  Traced'
<1>1. /\ fromKey # <<>> /\ fromKey' = ReadHead /\ OnKeyAnswer(Head(fromKey))
      /\ UNCHANGED <<buffer, fromGmail, mailbox, arrived, atRisk, gaveUp, slipped>>
  BY DEF ReceiveFromKey
<1>2. TypeInv /\ StepInv /\ LagInv /\ InFlightInStep /\ NamesFit(todo, atRisk) /\ NextIsAsked
  BY DEF MailInv, Base, Typed, Traced
<1> DEFINE answer == Head(fromKey)
<1>3. CASE ShowMail(answer)
  <2>1. /\ todo # <<>> /\ todo \in Seq(FoundMails) /\ Head(todo) \in FoundMails
        /\ todo' = Tail(todo) /\ ProcessNext(Tail(todo)) /\ pc = "key"
        /\ \A m \in Mails : processed[m] > 0 => processed'[m] > 0
        /\ answer.kind = "key" /\ answer.of = Head(todo).mail.sender
             => processed'[Head(todo).mail] = processed[Head(todo).mail] + 1
    BY <1>2, <1>3, ShowMailCounts
  <2>2. TodoMails(todo) = {Head(todo).mail} \cup TodoMails(todo')
    BY <2>1, TodoMailsTail
  <2>3. InFlight' = BackMails(fromGmail) \cup BackMails(buffer) \cup TodoMails(todo')
    BY <1>1 DEF InFlight, BackMails, TodoMails
  <2>4. InFlight = BackMails(fromGmail) \cup BackMails(buffer) \cup TodoMails(todo)
    BY InFlightParts
  <2>5. ASSUME Head(todo).mail \notin atRisk PROVE processed'[Head(todo).mail] > 0
    <3> DEFINE m == Head(todo).mail
    <3>1. m \in InFlight
      BY <2>2, <2>4
    <3>2. gaveUp["key"] = 0
      BY <1>2, <2>5, <3>1, WhereInFlight
    <3>3. AskedFor(Head(todo).name, toKey, fromKey)
      BY <1>2, <2>1, <3>2 DEF NextIsAsked
    <3>4. fromKey = <<KeyAnswer(Head(todo).name)>>
      BY <1>1, <3>3 DEF AskedFor
    <3>5. Head(todo) = Named(m) /\ m \in Mails
      BY <1>2, <2>1, <2>5, TailNames DEF FoundMails
    <3>6. Head(todo).name = m.sender /\ m.sender \in Registered
      BY <3>5 DEF Named, Mails
    <3>7. answer = KeyAnswer(m.sender)
      BY <3>4, <3>6
    <3>8. answer.kind = "key" /\ answer.of = m.sender
      BY <3>6, <3>7 DEF KeyAnswer
    <3>9. processed[m] \in Nat
      BY <1>2, <3>5 DEF TypeInv, StoresFit
    <3> QED BY <2>1, <3>8, <3>9
  <2>6. \A m \in InFlight \ atRisk : m \in InFlight' \/ m \in atRisk' \/ processed'[m] > 0
    BY <2>2, <2>3, <2>4, <2>5
  <2>7. arrived \subseteq Mails
    BY <1>2 DEF TypeInv, StoresFit
  <2>8. InFlightInStep' /\ NothingLost'
    <3>1. InFlight' \subseteq InFlight
      BY <2>2, <2>3, <2>4
    <3> QED BY <1>1, <2>1, <2>6, <2>7, <3>1, NothingLostStep
  <2>9. NamesFit(todo', atRisk')
    BY <1>1, <1>2, <2>1, TailNames
  <2>10. NextIsAsked'
    <3>1. CASE gaveUp["key"] = 0
      <4>1. toKey \in Seq(KeyRequests) /\ fromKey \in Seq(KeyAnswers) /\ fromKey' = Tail(fromKey)
        BY <1>1, <1>2, <2>1 DEF TypeInv, QueuesFit, ReadHead
      <4>2. Len(toKey) + Len(fromKey) = 1 /\ Len(toKey) \in Nat /\ Len(fromKey) \in Nat /\ Len(fromKey) > 0
        BY <1>1, <1>2, <2>1, <3>1, <4>1, TailLemma, LenProperties
           DEF LagInv, KeyLag, Unread, Awaited, OnKey
      <4>3. Len(toKey) = 0 /\ Len(fromKey') = 0 /\ fromKey' \in Seq(KeyAnswers)
        <5>1. Tail(fromKey) \in Seq(KeyAnswers) /\ Len(Tail(fromKey)) = Len(fromKey) - 1
          BY <1>1, <4>1, TailLemma
        <5> QED BY <4>1, <4>2, <5>1
      <4>4. toKey = <<>> /\ fromKey' = <<>>
        BY <4>1, <4>3, EmptySeq
      <4> QED BY <2>1, <4>4, ProcessNextAsks
    <3>2. CASE gaveUp["key"] # 0
      BY <1>1, <3>2 DEF NextIsAsked
    <3> QED BY <3>1, <3>2
  <2> QED BY <2>8, <2>9, <2>10 DEF Traced
<1>4. CASE SendWithKey(answer) \/ FetchedShare1(answer) \/ UpdatedShare1(answer)
  <2>1. UNCHANGED <<todo, processed>> /\ pc' # "key"
    BY <1>4 DEF SendWithKey, FetchedShare1, UpdatedShare1, EndCall, AskForToken
  <2>2. NextIsAsked'
    BY <2>1 DEF NextIsAsked
  <2> QED BY <1>1, <2>1, <2>2, MailsLeftAlone
<1> QED BY <1>1, <1>3, <1>4 DEF OnKeyAnswer

\* Other answers of the Gmail Server are read: no mail at no risk is there.
LEMMA DropTraces ==
    ASSUME MailInv, NEW n \in 0..Len(fromGmail), DropItems(n), pc \in {"stored", "status", "token"},
           pc' # "key", UNCHANGED <<buffer, todo, mailbox, arrived, processed, atRisk, gaveUp, slipped>>
    PROVE  Traced'
<1>1. TypeInv /\ StepInv /\ InFlightInStep /\ NamesFit(todo, atRisk)
  BY DEF MailInv, Base, Typed, Traced
<1>2. fromGmail \in Seq(GmailItems) /\ fromGmail' = SubSeq(fromGmail, n + 1, Len(fromGmail))
  BY <1>1 DEF TypeInv, TextFits, WholeAnswers, DropItems
<1>3. BackMails(fromGmail') \subseteq BackMails(fromGmail)
  <2>1. /\ SubSeq(fromGmail, 1, n) \in Seq(GmailItems) /\ fromGmail' \in Seq(GmailItems)
        /\ SubSeq(fromGmail, 1, n) \o fromGmail' = fromGmail
    BY <1>2, ReadSplits
  <2> QED BY <2>1, BackMailsConcat
<1>4. InFlight' \subseteq InFlight
  <2>1. InFlight' = BackMails(fromGmail') \cup BackMails(buffer) \cup TodoMails(todo)
    BY DEF InFlight, BackMails, TodoMails
  <2> QED BY <1>3, <2>1, InFlightParts
<1>5. InFlight \subseteq atRisk
  BY <1>1, WhereInFlight
<1>6. arrived \subseteq Mails
  BY <1>1 DEF TypeInv, StoresFit
<1>7. InFlightInStep' /\ NothingLost'
  BY <1>4, <1>5, <1>6, NothingLostStep
<1>8. NamesFit(todo', atRisk') /\ NextIsAsked'
  BY <1>1 DEF NextIsAsked
<1> QED BY <1>7, <1>8 DEF Traced

\* The mails are read: those of a mailbox that came whole go to process_email.
LEMMA ReceiveMailsTraces ==
    ASSUME MailInv, ReceiveMails
    PROVE  Traced'
<1>0. TypeInv /\ StepInv /\ LagInv /\ InFlightInStep /\ NamesFit(todo, atRisk)
  BY DEF MailInv, Base, Typed, Traced
<1>1. /\ pc = "mails" /\ fromGmail # <<>> /\ DropItems(RecordAtHead)
      /\ UNCHANGED <<fromKey, mailbox, arrived, processed, atRisk, gaveUp, slipped>>
  BY DEF ReceiveMails, mailVars
<1> DEFINE n == RecordAtHead
           record == SubSeq(fromGmail, 1, n)
<1>2. n \in 0..Len(fromGmail) /\ Len(fromGmail) \in Nat
  BY <1>0, <1>1, ReadsEnd
<1>3. fromGmail \in Seq(GmailItems) /\ buffer \in Seq(GmailItems) /\ todo = <<>>
  BY <1>0, <1>1 DEF TypeInv, TextFits, WholeAnswers, TodoFits
<1>4. fromGmail' = SubSeq(fromGmail, n + 1, Len(fromGmail))
  BY <1>1 DEF DropItems
<1>5. /\ record \in Seq(GmailItems) /\ fromGmail' \in Seq(GmailItems)
      /\ record \o fromGmail' = fromGmail
  BY <1>2, <1>3, <1>4, ReadSplits
<1>6. Received = buffer \o record
  BY DEF Received
<1> HIDE DEF n, record
<1>7. BackMails(fromGmail) = BackMails(record) \cup BackMails(fromGmail')
  BY <1>5, BackMailsConcat
<1>8. Received \in Seq(GmailItems) /\ BackMails(Received) = BackMails(buffer) \cup BackMails(record)
  BY <1>3, <1>5, <1>6, BackMailsConcat, ConcatProperties
<1>9. InFlight = BackMails(fromGmail) \cup BackMails(buffer)
  BY <1>3, InFlightParts, EmptyHoldsNoMail
<1>10. InFlight' = BackMails(fromGmail') \cup BackMails(buffer') \cup TodoMails(todo')
  BY DEF InFlight, BackMails, TodoMails
<1>11. arrived \subseteq Mails
  BY <1>0 DEF TypeInv, StoresFit
<1>12. CASE \E k \in 1..Len(Received) : Received[k].kind = "END"
  <2>1. ProcessNext(MailsIn(Received)) /\ buffer' = <<>>
    BY <1>12 DEF ReceiveMails
  <2>2. todo' = MailsIn(Received)
    BY <2>1 DEF ProcessNext
  <2>3. TodoMails(todo') \subseteq BackMails(Received)
    BY <1>8, <2>2, FoundInText
  <2>4. InFlight' \subseteq InFlight
    BY <1>7, <1>8, <1>9, <1>10, <2>1, <2>3, EmptyHoldsNoMail
  <2>5. ASSUME NEW m \in InFlight, m \notin atRisk
        PROVE  /\ m \in TodoMails(todo')
               /\ \A k \in 1..Len(todo') : todo'[k] = Named(todo'[k].mail)
    <3>1. /\ buffer = <<>> /\ m \in BackMails(fromGmail)
          /\ \E ms \in Seq(Mails) : ms # <<>> /\ fromGmail = Chunked(ms, {})
      BY <1>0, <1>1, <2>5, WhereInFlight
    <3>2. PICK ms \in Seq(Mails) : ms # <<>> /\ fromGmail = Chunked(ms, {})
      BY <3>1
    <3>3. AnsweredWith(pc, call, fromGmail)
      BY <1>1, <3>2 DEF AnsweredWith
    <3>4. record = fromGmail
      BY <1>0, <1>1, <3>3, AnswerIsRecord DEF record, n
    <3>5. Received = fromGmail
      BY <1>3, <1>6, <3>1, <3>4, ConcatEmptySeq
    <3>6. Len(todo') = Len(ms) /\ \A k \in 1..Len(ms) : todo'[k] = Named(ms[k])
      BY <2>2, <3>2, <3>5, MailboxIsFound
    <3>7. \A k \in 1..Len(ms) : todo'[k].mail = ms[k]
      <4>1. \A x : Named(x).mail = x
        BY DEF Named
      <4> QED BY <3>6, <4>1
    <3>8. m \in {ms[k] : k \in 1..Len(ms)}
      BY <3>1, <3>2, MailboxHoldsItsMails
    <3> QED BY <3>6, <3>7, <3>8 DEF TodoMails
  <2>6. InFlightInStep' /\ NothingLost'
    <3>1. \A m \in InFlight \ atRisk : m \in InFlight'
      BY <1>10, <2>5
    <3> QED BY <1>1, <1>11, <2>4, <3>1, NothingLostStep
  <2>7. NamesFit(todo', atRisk')
    <3> SUFFICES ASSUME NEW k \in 1..Len(todo'), todo'[k].mail \notin atRisk
                 PROVE  todo'[k] = Named(todo'[k].mail)
      BY <1>1 DEF NamesFit
    <3>1. todo'[k].mail \in InFlight
      BY <1>10, <2>4 DEF TodoMails
    <3> QED BY <2>5, <3>1
  <2>8. NextIsAsked'
    <3>1. CASE gaveUp["key"] = 0
      <4>1. toKey \in Seq(KeyRequests) /\ fromKey \in Seq(KeyAnswers)
        BY <1>0 DEF TypeInv, QueuesFit
      <4>2. Len(toKey) + Len(fromKey) = 0 /\ Len(toKey) \in Nat /\ Len(fromKey) \in Nat
        BY <1>0, <1>1, <3>1, <4>1, LenProperties DEF LagInv, KeyLag, Unread, Awaited, OnKey
      <4>3. toKey = <<>> /\ fromKey = <<>>
        BY <4>1, <4>2, EmptySeq
      <4> QED BY <1>1, <2>1, <4>3, ProcessNextAsks
    <3>2. CASE gaveUp["key"] # 0
      BY <1>1, <3>2 DEF NextIsAsked
    <3> QED BY <3>1, <3>2
  <2> QED BY <2>6, <2>7, <2>8 DEF Traced
<1>13. CASE ~\E k \in 1..Len(Received) : Received[k].kind = "END"
  <2>1. buffer' = Received /\ UNCHANGED <<pc, todo>>
    BY <1>13 DEF ReceiveMails
  <2>2. InFlight' = InFlight
    BY <1>3, <1>7, <1>8, <1>9, <1>10, <2>1, EmptyHoldsNoMail
  <2>3. InFlightInStep' /\ NothingLost'
    BY <1>1, <1>11, <2>2, NothingLostStep
  <2>4. NamesFit(todo', atRisk') /\ NextIsAsked'
    BY <1>0, <1>1, <2>1 DEF NextIsAsked
  <2> QED BY <2>3, <2>4 DEF Traced
<1> QED BY <1>12, <1>13

\* The Gmail Server answers: nothing at no risk was on its way to the client, and a
\* mailbox comes whole or at risk.
LEMMA GmailServerTraces ==
    ASSUME MailInv, GmailServer
    PROVE  Traced'
<1>0. TypeInv /\ StepInv /\ InFlightInStep /\ NamesFit(todo, atRisk) /\ NextIsAsked /\ NothingLost
  BY DEF MailInv, Base, Typed, Traced
<1> DEFINE r == Head(toGmail)
<1>1. /\ toGmail # <<>>
      /\ UNCHANGED <<pc, buffer, todo, toKey, fromKey, arrived, processed, gaveUp>>
      /\ RequestOpToken(r) \/ EmailSend(r) \/ RetrieveEmails(r)
  BY DEF GmailServer, keyStream
<1> HIDE DEF r
<1>2. InFlight \subseteq atRisk
  BY <1>0, <1>1, WhereInFlight
<1>3. NextIsAsked'
  BY <1>0, <1>1 DEF NextIsAsked
<1>4. fromGmail \in Seq(GmailItems) /\ mailbox \in Seq(Mails) /\ arrived \subseteq Mails
  BY <1>0 DEF TypeInv, TextFits, WholeAnswers, StoresFit
<1>5. ASSUME NEW t \in Seq(GmailItems), fromGmail' = fromGmail \o t
      PROVE  InFlight' = InFlight \cup BackMails(t)
  <2>1. InFlight' = BackMails(fromGmail') \cup BackMails(buffer) \cup TodoMails(todo)
    BY <1>1 DEF InFlight, BackMails, TodoMails
  <2>2. BackMails(fromGmail') = BackMails(fromGmail) \cup BackMails(t)
    BY <1>4, <1>5, BackMailsConcat
  <2> QED BY <2>1, <2>2, InFlightParts
<1>6. ASSUME NEW x \in GmailItems, NEW y \in GmailItems, x.kind # "back", y.kind # "back",
             fromGmail' = fromGmail \o <<x, y>> \/ fromGmail' = fromGmail \o <<y>>,
             UNCHANGED <<mailbox, atRisk>>
      PROVE  Traced'
  <2>1. <<x, y>> \in Seq(GmailItems) /\ <<y>> \in Seq(GmailItems)
    OBVIOUS
  <2>2. InFlight' = InFlight
    BY <1>5, <1>6, <2>1, LinesHoldNoMail
  <2>3. InFlightInStep' /\ NothingLost'
    BY <1>1, <1>2, <1>4, <1>6, <2>2, NothingLostStep
  <2> QED BY <1>0, <1>1, <1>3, <1>6, <2>3 DEF Traced
<1>7. CASE RequestOpToken(r)
  <2> DEFINE a == Item("OP_TOKEN", None, FALSE)
             b == Item("token", r.of, TRUE)
             c == Item("ERROR", None, FALSE)
             d == Item("NUL", None, TRUE)
  <2>1. UNCHANGED <<mailbox, atRisk>> /\ (fromGmail' = fromGmail \o <<a, b>> \/ fromGmail' = fromGmail \o <<c, d>>)
    BY <1>7 DEF RequestOpToken
  <2>2. r.of \in Operations
    <3>1. Head(toGmail) \in SentRequests
      BY <1>0, <1>1, HeadTailProperties DEF TypeInv, QueuesFit
    <3> QED BY <1>7, <3>1 DEF RequestOpToken, SentRequests, r
  <2>3. a \in GmailItems /\ c \in GmailItems /\ d \in GmailItems
    BY DEF Item, GmailItems
  <2>4. b \in GmailItems
    BY <2>2 DEF Item, GmailItems
  <2>5. a.kind # "back" /\ c.kind # "back" /\ d.kind # "back"
    BY DEF Item
  <2>6. b.kind # "back"
    BY DEF Item
  <2> HIDE DEF a, b, c, d
  <2> QED BY <1>6, <2>1, <2>3, <2>4, <2>5, <2>6
<1>8. CASE EmailSend(r)
  <2> DEFINE a == Item("OK:EMAIL_STORED", None, TRUE)
  <2>1. UNCHANGED <<mailbox, atRisk>> /\ fromGmail' = Append(fromGmail, a)
    BY <1>8 DEF EmailSend
  <2>2. a \in GmailItems
    BY DEF Item, GmailItems
  <2>3. a.kind # "back"
    BY DEF Item
  <2> HIDE DEF a
  <2>4. fromGmail' = fromGmail \o <<a>>
    BY <1>4, <2>1, <2>2, AppendIsConcat
  <2> QED BY <1>6, <2>1, <2>2, <2>3, <2>4
<1>9. CASE RetrieveEmails(r) /\ mailbox = <<>>
  <2> DEFINE a == Item("No emails found", None, FALSE)
             b == Item("END", None, TRUE)
  <2>1. UNCHANGED <<mailbox, atRisk>> /\ fromGmail' = fromGmail \o <<a, b>>
    BY <1>9 DEF RetrieveEmails
  <2>2. a \in GmailItems /\ b \in GmailItems
    BY DEF Item, GmailItems
  <2>3. a.kind # "back" /\ b.kind # "back"
    BY DEF Item
  <2> HIDE DEF a, b
  <2> QED BY <1>6, <2>1, <2>2, <2>3
<1>10. CASE RetrieveEmails(r) /\ mailbox # <<>>
  <2> DEFINE all == {mailbox[k] : k \in 1..Len(mailbox)}
  <2>1. PICK cuts : /\ fromGmail' = fromGmail \o Chunked(mailbox, cuts)
                    /\ slipped' = (slipped \/ cuts # {})
                    /\ atRisk' = IF slipped' \/ gaveUp["key"] > 0 THEN atRisk \cup all ELSE atRisk
    BY <1>10 DEF RetrieveEmails
  <2>2. Chunked(mailbox, cuts) \in Seq(GmailItems) /\ BackMails(Chunked(mailbox, cuts)) = all
    BY <1>4, <1>10, ChunkedIsWhole, MailboxHoldsItsMails DEF WholeAnswers
  <2>3. InFlight' = InFlight \cup all
    BY <1>5, <2>1, <2>2
  <2>4. /\ atRisk \subseteq atRisk'
        /\ (slipped' \/ gaveUp["key"] > 0) => all \subseteq atRisk'
    BY <2>1
  <2>5. gaveUp["key"] \in Nat
    BY <1>0 DEF TypeInv, CountersFit, Services
  <2>6. InFlightInStep'
    <3> SUFFICES ASSUME NEW m \in InFlight', m \notin atRisk'
                 PROVE  ~slipped' /\ gaveUp["key"] = 0
      BY <1>1 DEF InFlightInStep
    <3>1. m \in all
      BY <1>2, <2>3, <2>4
    <3> QED BY <2>4, <2>5, <3>1
  <2>7. NothingLost'
    <3> SUFFICES ASSUME NEW m \in arrived
                 PROVE  m \in InFlight' \/ processed[m] > 0 \/ m \in atRisk'
      BY <1>1 DEF NothingLost
    <3>1. \/ \E k \in 1..Len(mailbox) : mailbox[k] = m
          \/ m \in InFlight \/ processed[m] > 0 \/ m \in atRisk
      BY <1>0 DEF NothingLost
    <3> QED BY <2>3, <2>4, <3>1
  <2>8. NamesFit(todo', atRisk')
    BY <1>0, <1>1, <2>4, NamesStayFit
  <2> QED BY <1>3, <2>6, <2>7, <2>8 DEF Traced
<1> QED BY <1>1, <1>7, <1>8, <1>9, <1>10

\* Another user's mail arrives, in the mailbox.
LEMMA StoreEmailTraces ==
    ASSUME MailInv, NEW x \in Mails, storeEmail(x)
    PROVE  Traced'
<1>0. TypeInv /\ InFlightInStep /\ NamesFit(todo, atRisk) /\ NextIsAsked /\ NothingLost
  BY DEF MailInv, Base, Typed, Traced
<1>1. /\ mailbox' = Append(mailbox, x) /\ arrived' = arrived \cup {x}
      /\ UNCHANGED <<pc, buffer, todo, toKey, fromKey, fromGmail, processed, atRisk, gaveUp, slipped>>
  BY DEF storeEmail, keyStream, gmailStream
<1>2. InFlight' = InFlight
  BY <1>1 DEF InFlight
<1>3. mailbox \in Seq(Mails)
  BY <1>0 DEF TypeInv, StoresFit
<1>4. /\ Len(mailbox') = Len(mailbox) + 1 /\ Len(mailbox) \in Nat /\ mailbox'[Len(mailbox) + 1] = x
      /\ \A k \in 1..Len(mailbox) : mailbox'[k] = mailbox[k]
  BY <1>1, <1>3, AppendLemma
<1>5. NothingLost'
  <2> SUFFICES ASSUME NEW m \in arrived'
               PROVE  \/ \E k \in 1..Len(mailbox') : mailbox'[k] = m
                      \/ m \in InFlight \/ processed[m] > 0 \/ m \in atRisk
    BY <1>1, <1>2 DEF NothingLost
  <2>1. CASE m = x
    <3>1. Len(mailbox) + 1 \in 1..Len(mailbox')
      BY <1>4
    <3> QED BY <1>4, <2>1, <3>1
  <2>2. CASE m \in arrived /\ \E k \in 1..Len(mailbox) : mailbox[k] = m
    <3>1. \A k \in 1..Len(mailbox) : k \in 1..Len(mailbox')
      BY <1>4
    <3> QED BY <1>4, <2>2, <3>1
  <2>3. CASE m \in arrived /\ ~\E k \in 1..Len(mailbox) : mailbox[k] = m
    BY <1>0, <2>3 DEF NothingLost
  <2> QED BY <1>1, <2>1, <2>2, <2>3
<1> QED BY <1>0, <1>1, <1>2, <1>5 DEF Traced, InFlightInStep, NextIsAsked

\* An answer is not waited for: every mail on its way is at risk from then on.
LEMMA GiveUpTraces ==
    ASSUME MailInv, NEW s \in Services, GiveUp(s)
    PROVE  Traced'
<1>0. TypeInv /\ NamesFit(todo, atRisk) /\ NextIsAsked
  BY DEF MailInv, Base, Typed, Traced
<1>1. /\ gaveUp' = [gaveUp EXCEPT ![s] = @ + 1] /\ atRisk' = atRisk \cup InFlight
      /\ UNCHANGED <<mailbox, arrived>>
  BY DEF GiveUp
<1>2. gaveUp \in [Services -> Nat] /\ arrived \subseteq Mails
  BY <1>0 DEF TypeInv, CountersFit, StoresFit
<1>3. InFlight' = BackMails(fromGmail') \cup BackMails(buffer') \cup TodoMails(todo')
  BY DEF InFlight, BackMails, TodoMails
<1>4. ASSUME InFlight' \subseteq InFlight, NamesFit(todo', atRisk), NextIsAsked',
             \A m \in Mails : processed[m] > 0 => processed'[m] > 0
      PROVE  Traced'
  <2>1. InFlightInStep' /\ NothingLost'
    BY <1>1, <1>2, <1>4, NothingLostStep
  <2>2. NamesFit(todo', atRisk')
    BY <1>1, <1>4, NamesStayFit
  <2> QED BY <1>4, <2>1, <2>2 DEF Traced
<1>5. CASE s = "key"
  <2>1. OnKeyAnswer(Silence) /\ UNCHANGED <<buffer, fromGmail>>
    BY <1>5 DEF GiveUp
  <2>2. gaveUp'["key"] # 0
    BY <1>1, <1>2, <1>5 DEF Services
  <2>3. NextIsAsked'
    BY <2>2 DEF NextIsAsked
  <2>4. CASE ShowMail(Silence)
    <3>1. /\ todo # <<>> /\ todo \in Seq(FoundMails) /\ todo' = Tail(todo)
          /\ \A m \in Mails : processed[m] > 0 => processed'[m] > 0
      BY <1>0, <2>4, ShowMailCounts
    <3>2. TodoMails(todo') \subseteq TodoMails(todo)
      BY <3>1, TodoMailsTail
    <3>3. InFlight' \subseteq InFlight
      BY <1>3, <2>1, <3>2, InFlightParts
    <3>4. NamesFit(todo', atRisk)
      BY <1>0, <3>1, TailNames
    <3> QED BY <1>4, <2>3, <3>1, <3>3, <3>4
  <2>5. CASE SendWithKey(Silence) \/ FetchedShare1(Silence) \/ UpdatedShare1(Silence)
    <3>1. UNCHANGED <<todo, processed>>
      BY <2>5 DEF SendWithKey, FetchedShare1, UpdatedShare1
    <3>2. InFlight' = InFlight
      BY <2>1, <3>1 DEF InFlight
    <3> QED BY <1>0, <1>4, <2>3, <3>1, <3>2
  <2> QED BY <2>1, <2>4, <2>5 DEF OnKeyAnswer
<1>6. CASE s = "gmail"
  <2>1. /\ EndCall /\ buffer' = <<>> /\ fromGmail' = <<>> /\ UNCHANGED <<todo, processed>>
    BY <1>6 DEF GiveUp
  <2>2. InFlight' \subseteq InFlight
    BY <1>3, <2>1, InFlightParts, EmptyHoldsNoMail
  <2>3. NextIsAsked'
    BY <2>1 DEF NextIsAsked, EndCall
  <2> QED BY <1>0, <1>4, <2>1, <2>2, <2>3
<1> QED BY <1>5, <1>6 DEF Services

\* The client starts anew: what was on its way is gone.
LEMMA RestartTraces ==
    ASSUME MailInv, Restart
    PROVE  Traced'
<1>1. /\ fromGmail' = <<>> /\ buffer' = <<>> /\ todo' = <<>> /\ pc' = "menu"
      /\ atRisk' = atRisk \cup InFlight /\ UNCHANGED <<mailbox, arrived, processed>>
  BY DEF Restart
<1>2. InFlight' = {}
  <2>1. InFlight' = BackMails(fromGmail') \cup BackMails(buffer') \cup TodoMails(todo')
    BY DEF InFlight, BackMails, TodoMails
  <2> QED BY <1>1, <2>1, EmptyHoldsNoMail
<1>3. arrived \subseteq Mails
  BY DEF MailInv, Base, Typed, TypeInv, StoresFit
<1>4. InFlightInStep' /\ NothingLost'
  BY <1>1, <1>2, <1>3, NothingLostStep
<1>5. NamesFit(todo', atRisk') /\ NextIsAsked'
  BY <1>1, EmptySeq DEF NamesFit, NextIsAsked
<1> QED BY <1>4, <1>5 DEF Traced

\* A mailbox is fetched for an ended client: its mails are at risk, or they stay.
LEMMA LateRetrieveTraces ==
    ASSUME MailInv, LateRetrieve
    PROVE  Traced'
<1>0. /\ InFlightInStep /\ NamesFit(todo, atRisk) /\ NextIsAsked /\ NothingLost
      /\ mailbox \in Seq(Mails)
  BY DEF MailInv, Base, Typed, Traced, TypeInv, StoresFit
<1> DEFINE all == {mailbox[k] : k \in 1..Len(mailbox)}
<1>1. /\ mailbox' = mailbox \/ mailbox' = <<>>
      /\ atRisk' = atRisk \/ atRisk' = atRisk \cup all
      /\ mailbox' = <<>> => atRisk' = atRisk \cup all
      /\ UNCHANGED <<pc, toKey, fromKey, fromGmail, buffer, todo, arrived, processed, gaveUp, slipped>>
  BY DEF LateRetrieve, ClearMailbox, keyStream, gmailStream
<1>2. InFlight' = InFlight
  BY <1>1 DEF InFlight
<1>3. atRisk \subseteq atRisk'
  BY <1>1
<1>4. NothingLost'
  <2> SUFFICES ASSUME NEW m \in arrived
               PROVE  \/ \E k \in 1..Len(mailbox') : mailbox'[k] = m
                      \/ m \in InFlight \/ processed[m] > 0 \/ m \in atRisk'
    BY <1>1, <1>2 DEF NothingLost
  <2>1. \/ \E k \in 1..Len(mailbox) : mailbox[k] = m
        \/ m \in InFlight \/ processed[m] > 0 \/ m \in atRisk
    BY <1>0 DEF NothingLost
  <2>2. CASE \E k \in 1..Len(mailbox) : mailbox[k] = m
    <3>1. m \in all
      BY <2>2
    <3> QED BY <1>1, <2>2, <3>1
  <2> QED BY <1>3, <2>1, <2>2
<1>5. InFlightInStep'
  <2> SUFFICES ASSUME NEW m \in InFlight, m \notin atRisk' PROVE ~slipped /\ gaveUp["key"] = 0
    BY <1>1, <1>2 DEF InFlightInStep
  <2> QED BY <1>0, <1>3 DEF InFlightInStep
<1>6. NamesFit(todo', atRisk') /\ NextIsAsked'
  BY <1>0, <1>1, <1>3, NamesStayFit DEF NextIsAsked
<1> QED BY <1>4, <1>5, <1>6 DEF Traced

\* A line or a record is read that is not about mails.
LEMMA OtherReadsTrace ==
    ASSUME MailInv, ReceiveStored \/ ReadStatus \/ ReadToken
    PROVE  Traced'
<1>1. TypeInv
  BY DEF MailInv, Base, Typed
<1>2. UNCHANGED <<buffer, todo, mailbox, arrived, processed, atRisk, gaveUp, slipped>>
  BY DEF ReceiveStored, ReadStatus, ReadToken, mailVars
<1>3. pc \in {"stored", "status", "token"}
  BY DEF ReceiveStored, ReadStatus, ReadToken
<1>4. pc' # "key"
  BY DEF ReceiveStored, ReadStatus, ReadToken, EndCall, UseToken, AskForToken
<1>5. \E n \in 0..Len(fromGmail) : DropItems(n)
  <2>1. CASE ReceiveStored
    BY <1>1, <2>1, ReadsEnd DEF ReceiveStored
  <2>2. CASE ReadStatus \/ ReadToken
    BY <1>1, <2>2, ReadsEnd DEF ReadStatus, ReadToken
  <2> QED BY <2>1, <2>2
<1> QED BY <1>2, <1>3, <1>4, <1>5, DropTraces

\* Every step keeps the trace of every mail.
LEMMA NextTraced == MailInv /\ [Next]_vars => Traced'
<1> SUFFICES ASSUME MailInv, [Next]_vars PROVE Traced'
  OBVIOUS
<1>1. TypeInv /\ NextIsAsked
  BY DEF MailInv, Base, Typed, Traced
<1>2. CASE Menu
  <2>1. /\ pc = "menu"
        /\ UNCHANGED <<fromGmail, buffer, todo, mailbox, arrived, processed, atRisk, slipped, gaveUp>>
    BY <1>2 DEF Menu, send_email, receive_emails, recover_account_flow, AtMenu, gmailStream, mailVars
  <2>2. todo' = <<>>
    BY <1>1, <2>1 DEF TypeInv, TodoFits
  <2>3. NextIsAsked'
    BY <2>2 DEF NextIsAsked
  <2> QED BY <2>1, <2>3, MailsLeftAlone
<1>3. CASE ReceiveFromKey
  BY <1>3, ReceiveFromKeyTraces
<1>4. CASE ReceiveMails
  BY <1>4, ReceiveMailsTraces
<1>5. CASE ReceiveStored \/ ReadStatus \/ ReadToken
  BY <1>5, OtherReadsTrace
<1>6. CASE KeyServer
  <2>1. UNCHANGED <<fromGmail, buffer, todo, mailbox, arrived, processed, atRisk, slipped, gaveUp>>
    BY <1>6 DEF KeyServer, gmailStream, mailVars
  <2> QED BY <1>1, <1>6, <2>1, KeyServerAnswers, MailsLeftAlone
<1>7. CASE GmailServer
  BY <1>7, GmailServerTraces
<1>8. ASSUME NEW s \in Services, GiveUp(s) PROVE Traced'
  BY <1>8, GiveUpTraces
<1>9. CASE Restart
  BY <1>9, RestartTraces
<1>10. ASSUME NEW m \in Mails, storeEmail(m) PROVE Traced'
  BY <1>10, StoreEmailTraces
<1>11. CASE (\E split \in Splits : LateUpdate(split)) \/ UNCHANGED vars
  <2>1. UNCHANGED <<pc, toKey, fromKey, fromGmail, buffer, todo, mailbox, arrived, processed,
                    atRisk, slipped, gaveUp>>
    BY <1>11 DEF LateUpdate, vars, keyStream, gmailStream, mailVars
  <2>2. NextIsAsked'
    BY <1>1, <2>1 DEF NextIsAsked
  <2> QED BY <2>1, <2>2, MailsLeftAlone
<1>12. CASE LateRetrieve
  BY <1>12, LateRetrieveTraces
<1> QED BY <1>2, <1>3, <1>4, <1>5, <1>6, <1>7, <1>8, <1>9, <1>10, <1>11, <1>12 DEF Next, Receive

LEMMA NextMailInv == MailInv /\ [Next]_vars => MailInv'
<1> SUFFICES ASSUME MailInv, [Next]_vars PROVE MailInv'
  OBVIOUS
<1>1. Typed /\ TypeInv /\ StepInv /\ LagInv
  BY DEF MailInv, Base, Typed
<1>2. Traced' /\ Typed'
  BY <1>1, NextTraced, NextTyped
<1>3. StepInv' /\ LagInv'
  BY <1>1, NextStepInv, NextLagInv
<1> QED BY <1>2, <1>3 DEF MailInv, Base

\* No mail has arrived at first.
LEMMA InitMailInv == Init => MailInv
<1> SUFFICES ASSUME Init PROVE MailInv
  OBVIOUS
<1>1. todo = <<>> /\ fromGmail = <<>> /\ buffer = <<>> /\ arrived = {}
  BY DEF Init
<1>2. InFlight = {}
  BY <1>1, InFlightParts, EmptyHoldsNoMail
<1>3. Traced
  BY <1>1, <1>2, EmptySeq DEF Traced, InFlightInStep, NamesFit, NextIsAsked, NothingLost
<1> QED BY <1>3, InitTyped, InitStepInv, InitLagInv DEF MailInv, Base

\* Every mail of a registered sender is in the mailbox, on its way, or was shown, unless
\* it was in an answer that was cut into chunks, cut off by a restart or a timeout, or
\* read out of step, or it was fetched for a client that had ended (retrieveEmails,
\* receive_emails, process_email).
THEOREM NothingLostHolds == Spec => []NothingLost
<1>1. MailInv => NothingLost
  BY DEF MailInv, Traced
<1> QED BY <1>1, InitMailInv, NextMailInv, PTL DEF Spec

-----------------------------------------------------------------------------
(* How often something is in a sequence *)

Places(s, X) == {k \in 1..Len(s) : s[k] \in X}
Count(s, X) == Cardinality(Places(s, X))

\* It is a number.
LEMMA CountType ==
    ASSUME NEW S, NEW s \in Seq(S), NEW X
    PROVE  IsFiniteSet(Places(s, X)) /\ Count(s, X) \in Nat
<1>1. Len(s) \in Nat
  BY LenProperties
<1>2. IsFiniteSet(1..Len(s))
  BY <1>1, FS_Interval
<1>3. Places(s, X) \in SUBSET (1..Len(s))
  BY DEF Places
<1>4. IsFiniteSet(Places(s, X))
  BY <1>2, <1>3, FS_Subset
<1> QED BY <1>4, FS_CardinalityType DEF Count

\* When each place of the one has its own in the other, there are no more of them.
LEMMA CountAtMost ==
    ASSUME NEW S, NEW s \in Seq(S), NEW X, NEW T, NEW t \in Seq(T), NEW Y, NEW h,
           \A k \in Places(s, X) : h[k] \in Places(t, Y),
           \A j, k \in Places(s, X) : h[j] = h[k] => j = k
    PROVE  Count(s, X) <= Count(t, Y)
<1> DEFINE f == [k \in Places(s, X) |-> h[k]]
<1>1. f \in [Places(s, X) -> Places(t, Y)] /\ \A j, k \in Places(s, X) : f[j] = f[k] => j = k
  OBVIOUS
<1> HIDE DEF f
<1>2. f \in Injection(Places(s, X), Places(t, Y))
  BY <1>1 DEF Injection, IsInjective
<1>3. IsFiniteSet(Places(t, Y))
  BY CountType
<1> QED BY <1>2, <1>3, FS_Injection DEF Count

\* In nothing, in one entry, and in two.
LEMMA CountShort ==
    ASSUME NEW X, NEW x
    PROVE  Count(<<>>, X) = 0 /\ Count(<<x>>, X) = IF x \in X THEN 1 ELSE 0
<1>1. Places(<<>>, X) = {}
  <2>1. Len(<<>>) = 0
    BY EmptySeq
  <2> QED BY <2>1 DEF Places
<1>2. Places(<<x>>, X) = IF x \in X THEN {1} ELSE {}
  <2> DEFINE s == <<x>>
  <2>1. Len(s) = 1 /\ s[1] = x
    OBVIOUS
  <2> HIDE DEF s
  <2>2. Places(s, X) = IF x \in X THEN {1} ELSE {}
    BY <2>1 DEF Places
  <2> QED BY <2>2 DEF s
<1> QED BY <1>1, <1>2, FS_EmptySet, FS_Singleton DEF Count

LEMMA CountPair ==
    ASSUME NEW X, NEW x, NEW y, x \notin X, y \notin X
    PROVE  Count(<<x, y>>, X) = 0
<1> DEFINE s == <<x, y>>
<1>1. Len(s) = 2 /\ s[1] = x /\ s[2] = y
  OBVIOUS
<1> HIDE DEF s
<1>2. \A k \in 1..Len(s) : k = 1 \/ k = 2
  BY <1>1
<1>3. Places(s, X) = {}
  BY <1>1, <1>2 DEF Places
<1>4. Count(s, X) = 0
  BY <1>3, FS_EmptySet DEF Count
<1> QED BY <1>4 DEF s

\* In two sequences in a row, with one more entry, and after one has been taken.
LEMMA CountConcat ==
    ASSUME NEW S, NEW s \in Seq(S), NEW t \in Seq(S), NEW X
    PROVE  Count(s \o t, X) = Count(s, X) + Count(t, X)
<1> DEFINE n == Len(s)
           u == s \o t
           A == Places(s, X)
           B == Places(t, X)
           C == {n + k : k \in B}
           f == [k \in B |-> n + k]
<1>1. /\ n \in Nat /\ Len(t) \in Nat /\ Len(u) = n + Len(t)
      /\ \A i \in 1..(n + Len(t)) : u[i] = IF i <= n THEN s[i] ELSE t[i - n]
  BY ConcatProperties, LenProperties
<1>2. IsFiniteSet(A) /\ IsFiniteSet(B) /\ Count(s, X) \in Nat /\ Count(t, X) \in Nat
  BY CountType
<1>3. B \subseteq Nat /\ A \subseteq 1..n
  BY <1>1 DEF Places
<1>4. IsFiniteSet(C) /\ Cardinality(C) = Cardinality(B)
  <2>1. f \in [B -> C]
    OBVIOUS
  <2>2. \A j, k \in B : f[j] = f[k] => j = k
    BY <1>1, <1>3
  <2>3. \A c \in C : \E k \in B : f[k] = c
    OBVIOUS
  <2> HIDE DEF f, B, C
  <2>4. f \in Bijection(B, C)
    BY <2>1, <2>2, <2>3 DEF Bijection, Injection, Surjection, IsInjective
  <2>5. ExistsBijection(B, C)
    BY <2>4 DEF ExistsBijection
  <2> QED BY <1>2, <2>5, FS_Bijection
<1>5. Places(u, X) = A \cup C
  <2> HIDE DEF u
  <2>1. ASSUME NEW i \in Places(u, X) PROVE i \in A \cup C
    <3>1. i \in 1..(n + Len(t)) /\ u[i] \in X
      BY <1>1 DEF Places
    <3>2. CASE i <= n
      BY <1>1, <3>1, <3>2 DEF Places
    <3>3. CASE i > n
      <4>1. i - n \in 1..Len(t) /\ t[i - n] \in X /\ i = n + (i - n)
        BY <1>1, <3>1, <3>3
      <4>2. i - n \in B
        BY <4>1 DEF Places
      <4> QED BY <4>1, <4>2
    <3> QED BY <1>1, <3>1, <3>2, <3>3
  <2>2. ASSUME NEW i \in A PROVE i \in Places(u, X)
    <3>1. i \in 1..n /\ s[i] \in X
      BY DEF Places
    <3>2. i \in 1..(n + Len(t)) /\ i <= n
      BY <1>1, <3>1
    <3> QED BY <1>1, <3>1, <3>2 DEF Places
  <2>3. ASSUME NEW k \in B PROVE n + k \in Places(u, X)
    <3>1. k \in 1..Len(t) /\ t[k] \in X
      BY DEF Places
    <3>2. n + k \in 1..(n + Len(t)) /\ ~(n + k <= n) /\ (n + k) - n = k
      BY <1>1, <3>1
    <3> QED BY <1>1, <3>1, <3>2 DEF Places
  <2> HIDE DEF A, B
  <2> QED BY <2>1, <2>2, <2>3
<1>6. A \cap C = {}
  <2>1. \A i \in A : i <= n
    BY <1>1, <1>3
  <2>2. \A k \in B : k > 0 /\ k \in Nat
    BY <1>1 DEF Places
  <2>3. \A i \in C : ~(i <= n)
    BY <1>1, <2>2
  <2> QED BY <2>1, <2>3
<1> HIDE DEF A, B, C, u, n
<1>7. Cardinality(A \cup C) = Cardinality(A) + Cardinality(C)
  <2>1. Cardinality(A \cup C) = Cardinality(A) + Cardinality(C) - Cardinality(A \cap C)
    BY <1>2, <1>4, FS_Union
  <2>2. Cardinality(A \cap C) = 0
    BY <1>6, FS_EmptySet
  <2>3. Cardinality(A) \in Nat /\ Cardinality(C) \in Nat
    BY <1>2, <1>4, FS_CardinalityType
  <2> QED BY <2>1, <2>2, <2>3
<1>8. Count(s, X) = Cardinality(A) /\ Count(t, X) = Cardinality(B) /\ Count(u, X) = Cardinality(A \cup C)
  BY <1>5 DEF Count, A, B
<1>9. Count(u, X) = Count(s, X) + Count(t, X)
  BY <1>4, <1>7, <1>8
<1> QED BY <1>9 DEF u

LEMMA CountAppend ==
    ASSUME NEW S, NEW s \in Seq(S), NEW x \in S, NEW X
    PROVE  Count(Append(s, x), X) = Count(s, X) + IF x \in X THEN 1 ELSE 0
<1>1. Append(s, x) = s \o <<x>> /\ <<x>> \in Seq(S)
  BY AppendIsConcat
<1>2. Count(s \o <<x>>, X) = Count(s, X) + Count(<<x>>, X)
  BY <1>1, CountConcat
<1> QED BY <1>1, <1>2, CountShort

LEMMA CountTail ==
    ASSUME NEW S, NEW s \in Seq(S), s # <<>>, NEW X
    PROVE  Count(s, X) = Count(Tail(s), X) + IF Head(s) \in X THEN 1 ELSE 0
<1>1. Len(s) \in Nat /\ Len(s) > 0 /\ Head(s) = s[1] /\ Head(s) \in S /\ Tail(s) \in Seq(S)
  BY TailLemma, HeadTailProperties
<1>2. s = <<s[1]>> \o SubSeq(s, 2, Len(s))
  <2>1. 1 \in 1..Len(s) /\ Len(s) \in 1..Len(s)
    BY <1>1
  <2>2. SubSeq(s, 1, Len(s)) = <<s[1]>> \o SubSeq(s, 1 + 1, Len(s))
    BY <2>1, SubSeqRecursiveFirst
  <2> QED BY <2>2, SubSeqFull
<1>3. s = <<Head(s)>> \o Tail(s)
  BY <1>1, <1>2, TailIsSubSeq
<1>4. <<Head(s)>> \in Seq(S)
  BY <1>1
<1> DEFINE h == <<Head(s)>>
           t == Tail(s)
<1>5. h \in Seq(S) /\ t \in Seq(S) /\ s = h \o t
  BY <1>1, <1>3, <1>4
<1>6. Count(h, X) = IF Head(s) \in X THEN 1 ELSE 0
  BY CountShort
<1> HIDE DEF h, t
<1>7. Count(h \o t, X) = Count(h, X) + Count(t, X)
  BY <1>5, CountConcat
<1>8. Count(t, X) \in Nat
  BY <1>5, CountType
<1>9. Count(s, X) = Count(t, X) + IF Head(s) \in X THEN 1 ELSE 0
  <2>1. CASE Head(s) \in X
    BY <1>5, <1>6, <1>7, <1>8, <2>1
  <2>2. CASE Head(s) \notin X
    BY <1>5, <1>6, <1>7, <1>8, <2>2
  <2> QED BY <2>1, <2>2
<1> QED BY <1>9 DEF t

-----------------------------------------------------------------------------
(* No mail is shown twice *)

\* The text of m, and m taken out of a text.
Backs(m) == {i \in GmailItems : i.kind = "back" /\ i.of = m}
Entries(m) == {e \in FoundMails : e.mail = m}

\* How often m is in the mailbox, and how often it has left it: on its way, to be
\* processed, and shown.
InBox(m) == Count(mailbox, {m})
Left(m) == Count(fromGmail, Backs(m)) + Count(buffer, Backs(m)) + Count(todo, Entries(m)) + processed[m]

HasArrived(m) == IF m \in arrived THEN 1 ELSE 0

\* A mail arrives once, and only a mailbox that could not be cleared keeps what it gives.
CopyInv ==
    \A m \in Mails : /\ InBox(m) <= HasArrived(m)
                     /\ InBox(m) + Left(m) <= faults + HasArrived(m)

\* A text holds each mail that is found in it at least as often as it is found.
LEMMA FoundCount ==
    ASSUME NEW text \in Seq(GmailItems), NEW m
    PROVE  Count(MailsIn(text), Entries(m)) <= Count(text, Backs(m))
<1> DEFINE f == MailsIn(text)
<1>1. PICK h : Origins(text, f, Len(text), h)
  BY MailsHaveOrigins
<1>2. f \in Seq(FoundMails) /\ Len(f) \in Nat /\ Len(text) \in Nat
  BY MailsInTypes, LenProperties
<1> HIDE DEF f
<1>3. ASSUME NEW j \in Places(f, Entries(m)) PROVE h[j] \in Places(text, Backs(m))
  <2>1. j \in 1..Len(f) /\ f[j].mail = m
    BY DEF Places, Entries
  <2>2. h[j] \in 1..Len(text) /\ text[h[j]].kind = "back" /\ text[h[j]].of = m
    BY <1>1, <2>1 DEF Origins
  <2>3. text[h[j]] \in GmailItems
    BY <2>2, ElementOfSeq
  <2> QED BY <2>2, <2>3 DEF Places, Backs
<1>4. ASSUME NEW j \in Places(f, Entries(m)), NEW k \in Places(f, Entries(m)), h[j] = h[k]
      PROVE  j = k
  <2>1. j \in 1..Len(f) /\ k \in 1..Len(f)
    BY DEF Places
  <2>2. h[j] \in 1..Len(text) /\ h[k] \in 1..Len(text)
    BY <1>1, <2>1 DEF Origins
  <2>3. ~(j < k)
    <3>1. j < k => h[j] < h[k]
      BY <1>1, <1>2, <2>1 DEF Origins
    <3> QED BY <1>2, <1>4, <2>2, <3>1
  <2>4. ~(k < j)
    <3>1. k < j => h[k] < h[j]
      BY <1>1, <1>2, <2>1 DEF Origins
    <3> QED BY <1>2, <1>4, <2>2, <3>1
  <2> QED BY <1>2, <2>1, <2>3, <2>4
<1>5. Count(f, Entries(m)) <= Count(text, Backs(m))
  BY <1>2, <1>3, <1>4, CountAtMost
<1> QED BY <1>5 DEF f

\* A mailbox as it is sent holds no mail more often than the file does.
LEMMA MailboxCount ==
    ASSUME NEW ms \in Seq(Mails), ms # <<>>, NEW cuts, NEW m
    PROVE  Count(Chunked(ms, cuts), Backs(m)) <= Count(ms, {m})
<1> DEFINE n == Len(ms)
           c == Chunked(ms, cuts)
           h == [i \in Nat |-> (i + 1) \div 3]
<1>1. n \in Nat /\ Len(c) = 3 * n
  BY ChunkedItems
<1>2. \A k \in 1..n : /\ c[3 * k - 2].kind = "front" /\ c[3 * k].kind = "END"
                      /\ c[3 * k - 1].kind = "back" /\ c[3 * k - 1].of = ms[k]
  BY MailboxItems
<1>3. c \in Seq(GmailItems)
  BY ChunkedIsWhole DEF WholeAnswers
<1> HIDE DEF c
<1>4. ASSUME NEW i \in Places(c, Backs(m))
      PROVE  i \in Nat /\ h[i] \in Places(ms, {m}) /\ i = 3 * h[i] - 1
  <2>1. i \in 1..(3 * n) /\ c[i].kind = "back" /\ c[i].of = m
    BY <1>1 DEF Places, Backs
  <2>2. PICK k \in 1..n : i = 3 * k - 2 \/ i = 3 * k - 1 \/ i = 3 * k
    BY <1>1, <2>1, ThreeAMail
  <2>3. c[3 * k - 2].kind = "front" /\ c[3 * k].kind = "END" /\ c[3 * k - 1].of = ms[k]
    BY <1>2
  <2>4. i = 3 * k - 1
    BY <2>1, <2>2, <2>3
  <2>5. i \in Nat /\ (i + 1) \div 3 = k
    BY <1>1, <2>4
  <2>6. h[i] = k /\ ms[k] = m
    BY <2>1, <2>3, <2>4, <2>5
  <2> HIDE DEF h
  <2>7. k \in Places(ms, {m})
    BY <2>6 DEF Places
  <2> QED BY <2>4, <2>5, <2>6, <2>7
<1> HIDE DEF h
<1>5. \A i, j \in Places(c, Backs(m)) : h[i] = h[j] => i = j
  BY <1>4
<1>6. Count(c, Backs(m)) <= Count(ms, {m})
  BY <1>3, <1>4, <1>5, CountAtMost
<1> QED BY <1>6 DEF c

\* Each of the counts is a number.
LEMMA CountsAreNumbers ==
    ASSUME TypeInv, NEW m \in Mails
    PROVE  /\ InBox(m) \in Nat /\ Count(fromGmail, Backs(m)) \in Nat /\ Count(buffer, Backs(m)) \in Nat
           /\ Count(todo, Entries(m)) \in Nat /\ processed[m] \in Nat /\ faults \in Nat
           /\ Left(m) \in Nat
<1>1. InBox(m) \in Nat
  BY CountType DEF TypeInv, StoresFit, InBox
<1>2. Count(fromGmail, Backs(m)) \in Nat /\ Count(buffer, Backs(m)) \in Nat
  BY CountType DEF TypeInv, TextFits, WholeAnswers
<1>3. Count(todo, Entries(m)) \in Nat
  BY CountType DEF TypeInv, TodoFits
<1>4. processed[m] \in Nat
  BY DEF TypeInv, StoresFit
<1>5. faults \in Nat
  BY BoundsAssumption DEF TypeInv, CountersFit
<1> QED BY <1>1, <1>2, <1>3, <1>4, <1>5 DEF Left

\* Where a step adds no copy of a mail that has left the mailbox.
LEMMA NoCopyAdded ==
    ASSUME TypeInv, TypeInv', CopyInv, UNCHANGED <<mailbox, arrived>>, faults <= faults',
           \A m \in Mails : Left(m)' <= Left(m)
    PROVE  CopyInv'
<1> SUFFICES ASSUME NEW m \in Mails
             PROVE  /\ InBox(m)' <= HasArrived(m)'
                    /\ InBox(m)' + Left(m)' <= faults' + HasArrived(m)'
  BY DEF CopyInv
<1>1. InBox(m) <= HasArrived(m) /\ InBox(m) + Left(m) <= faults + HasArrived(m)
  BY DEF CopyInv
<1>2. InBox(m)' = InBox(m) /\ HasArrived(m)' = HasArrived(m) /\ HasArrived(m) \in Nat
  BY DEF InBox, HasArrived
<1>3. InBox(m) \in Nat /\ Left(m) \in Nat /\ faults \in Nat
  BY CountsAreNumbers
<1>4. faults' \in Nat
  BY BoundsAssumption DEF TypeInv, CountersFit
<1>5. Left(m)' \in Nat
  <2>1. Count(fromGmail', Backs(m)) \in Nat /\ Count(buffer', Backs(m)) \in Nat
    BY CountType DEF TypeInv, TextFits, WholeAnswers
  <2>2. Count(todo', Entries(m)) \in Nat
    BY CountType DEF TypeInv, TodoFits
  <2>3. processed'[m] \in Nat
    BY DEF TypeInv, StoresFit
  <2> QED BY <2>1, <2>2, <2>3 DEF Left
<1>6. Left(m)' <= Left(m)
  OBVIOUS
<1> QED BY <1>1, <1>2, <1>3, <1>4, <1>5, <1>6

\* A mail that is shown is no longer to be processed.
LEMMA ShowMailMoves ==
    ASSUME TypeInv, NEW answer, ShowMail(answer), NEW m \in Mails
    PROVE  Count(todo', Entries(m)) + processed'[m] <= Count(todo, Entries(m)) + processed[m]
<1>1. todo # <<>> /\ todo \in Seq(FoundMails) /\ Head(todo) \in FoundMails /\ todo' = Tail(todo)
  BY ShowMailCounts
<1>2. processed' = IF answer.kind = "key" /\ answer.of = Head(todo).mail.sender
                   THEN [processed EXCEPT ![Head(todo).mail] = @ + 1] ELSE processed
  BY DEF ShowMail
<1>3. processed \in [Mails -> Nat]
  BY DEF TypeInv, StoresFit
<1>4. Head(todo) \in Entries(m) <=> Head(todo).mail = m
  BY <1>1 DEF Entries
<1>5. Count(todo, Entries(m)) = Count(todo', Entries(m)) + IF Head(todo) \in Entries(m) THEN 1 ELSE 0
  BY <1>1, CountTail
<1>6. Tail(todo) \in Seq(FoundMails)
  BY <1>1, HeadTailProperties
<1>7. Count(todo', Entries(m)) \in Nat
  BY <1>1, <1>6, CountType
<1>8. processed'[m] <= processed[m] + IF Head(todo).mail = m THEN 1 ELSE 0
  <2>1. CASE processed' = processed
    BY <1>3, <2>1
  <2>2. CASE processed' = [processed EXCEPT ![Head(todo).mail] = @ + 1]
    BY <1>3, <2>2
  <2> QED BY <1>2, <2>1, <2>2
<1>9. processed[m] \in Nat /\ processed'[m] \in Nat
  <2>1. CASE processed' = processed
    BY <1>3, <2>1
  <2>2. CASE processed' = [processed EXCEPT ![Head(todo).mail] = @ + 1]
    BY <1>3, <2>2
  <2> QED BY <1>2, <1>3, <2>1, <2>2
<1>10. CASE Head(todo).mail = m
  <2>1. Count(todo, Entries(m)) = Count(todo', Entries(m)) + 1 /\ processed'[m] <= processed[m] + 1
    BY <1>4, <1>5, <1>8, <1>10
  <2> QED BY <1>7, <1>9, <2>1
<1>11. CASE Head(todo).mail # m
  <2>1. Count(todo, Entries(m)) = Count(todo', Entries(m)) + 0 /\ processed'[m] <= processed[m] + 0
    BY <1>4, <1>5, <1>8, <1>11
  <2> QED BY <1>7, <1>9, <2>1
<1> QED BY <1>10, <1>11

\* What the other answers of the Key Server leave alone.
LEMMA OtherKeyAnswers ==
    ASSUME NEW answer, SendWithKey(answer) \/ FetchedShare1(answer) \/ UpdatedShare1(answer)
    PROVE  UNCHANGED <<todo, processed>>
BY DEF SendWithKey, FetchedShare1, UpdatedShare1

\* process_email gets its answer, or gives up: the copies are as many or fewer.
LEMMA KeyAnswerCopies ==
    ASSUME TypeInv, TypeInv', CopyInv, NEW answer, OnKeyAnswer(answer),
           UNCHANGED <<buffer, fromGmail, mailbox, arrived, faults>>
    PROVE  CopyInv'
<1>1. faults <= faults'
  BY BoundsAssumption DEF TypeInv, CountersFit
<1>2. ASSUME NEW m \in Mails PROVE Left(m)' <= Left(m)
  <2>1. Count(todo', Entries(m)) + processed'[m] <= Count(todo, Entries(m)) + processed[m]
    <3>1. CASE ShowMail(answer)
      BY <3>1, ShowMailMoves
    <3>2. CASE SendWithKey(answer) \/ FetchedShare1(answer) \/ UpdatedShare1(answer)
      <4>1. UNCHANGED <<todo, processed>>
        BY <3>2, OtherKeyAnswers
      <4> QED BY <4>1, CountsAreNumbers
    <3> QED BY <3>1, <3>2 DEF OnKeyAnswer
  <2>2. Count(todo', Entries(m)) \in Nat /\ processed'[m] \in Nat
    <3>1. todo' \in Seq(FoundMails)
      BY DEF TypeInv, TodoFits
    <3>2. Count(todo', Entries(m)) \in Nat
      BY <3>1, CountType
    <3>3. processed'[m] \in Nat
      BY DEF TypeInv, StoresFit
    <3> QED BY <3>2, <3>3
  <2> DEFINE a == Count(fromGmail, Backs(m))
             b == Count(buffer, Backs(m))
  <2>3. a \in Nat /\ b \in Nat /\ Count(todo, Entries(m)) \in Nat /\ processed[m] \in Nat
    BY CountsAreNumbers
  <2>4. Left(m)' = a + b + Count(todo', Entries(m)) + processed'[m]
    BY DEF Left
  <2>5. Left(m) = a + b + Count(todo, Entries(m)) + processed[m]
    BY DEF Left
  <2> HIDE DEF a, b
  <2> QED BY <2>1, <2>2, <2>3, <2>4, <2>5
<1> QED BY <1>1, <1>2, NoCopyAdded

\* A read takes the items it drops from the connection.
LEMMA ReadCount ==
    ASSUME TypeInv, NEW n \in 0..Len(fromGmail), DropItems(n), NEW m
    PROVE  /\ Count(fromGmail, Backs(m)) = Count(SubSeq(fromGmail, 1, n), Backs(m)) + Count(fromGmail', Backs(m))
           /\ Count(SubSeq(fromGmail, 1, n), Backs(m)) \in Nat /\ Count(fromGmail', Backs(m)) \in Nat
           /\ SubSeq(fromGmail, 1, n) \in Seq(GmailItems)
<1>1. fromGmail \in Seq(GmailItems) /\ fromGmail' = SubSeq(fromGmail, n + 1, Len(fromGmail))
  BY DEF TypeInv, TextFits, WholeAnswers, DropItems
<1>2. /\ SubSeq(fromGmail, 1, n) \in Seq(GmailItems) /\ fromGmail' \in Seq(GmailItems)
      /\ SubSeq(fromGmail, 1, n) \o fromGmail' = fromGmail
  BY <1>1, ReadSplits
<1> DEFINE a == SubSeq(fromGmail, 1, n)
           b == fromGmail'
<1>3. a \in Seq(GmailItems) /\ b \in Seq(GmailItems) /\ a \o b = fromGmail
  BY <1>2
<1> HIDE DEF a, b
<1>4. Count(a \o b, Backs(m)) = Count(a, Backs(m)) + Count(b, Backs(m))
  BY <1>3, CountConcat
<1>5. Count(a, Backs(m)) \in Nat /\ Count(b, Backs(m)) \in Nat
  BY <1>3, CountType
<1>6. Count(fromGmail, Backs(m)) = Count(a, Backs(m)) + Count(b, Backs(m))
  BY <1>3, <1>4
<1> QED BY <1>3, <1>5, <1>6 DEF a, b

\* An answer that is not about mails is read.
LEMMA OtherReadsCopies ==
    ASSUME TypeInv, TypeInv', CopyInv, ReceiveStored \/ ReadStatus \/ ReadToken
    PROVE  CopyInv'
<1>1. UNCHANGED <<buffer, todo, mailbox, arrived, processed, faults>>
  BY DEF ReceiveStored, ReadStatus, ReadToken, mailVars
<1>2. \E n \in 0..Len(fromGmail) : DropItems(n)
  <2>1. CASE ReceiveStored
    BY <2>1, ReadsEnd DEF ReceiveStored
  <2>2. CASE ReadStatus \/ ReadToken
    BY <2>2, ReadsEnd DEF ReadStatus, ReadToken
  <2> QED BY <2>1, <2>2
<1>3. PICK n \in 0..Len(fromGmail) : DropItems(n)
  BY <1>2
<1>4. ASSUME NEW m \in Mails PROVE Left(m)' <= Left(m)
  <2> DEFINE a == Count(fromGmail, Backs(m))
             b == Count(buffer, Backs(m))
             c == Count(todo, Entries(m))
  <2>1. a \in Nat /\ b \in Nat /\ c \in Nat /\ processed[m] \in Nat
    BY CountsAreNumbers
  <2>2. Count(fromGmail', Backs(m)) \in Nat /\ Count(fromGmail', Backs(m)) <= a
    BY <1>3, ReadCount
  <2>3. Left(m)' = Count(fromGmail', Backs(m)) + b + c + processed[m] /\ Left(m) = a + b + c + processed[m]
    BY <1>1 DEF Left
  <2> HIDE DEF a, b, c
  <2> QED BY <2>1, <2>2, <2>3
<1>5. faults <= faults'
  BY <1>1, BoundsAssumption DEF TypeInv, CountersFit
<1> QED BY <1>1, <1>4, <1>5, NoCopyAdded

\* The mails are read: each is found at most as often as it was sent.
LEMMA ReceiveMailsCopies ==
    ASSUME TypeInv, TypeInv', CopyInv, ReceiveMails
    PROVE  CopyInv'
<1>1. /\ pc = "mails" /\ fromGmail # <<>> /\ DropItems(RecordAtHead)
      /\ UNCHANGED <<mailbox, arrived, processed, faults>>
  BY DEF ReceiveMails, mailVars
<1>2. RecordAtHead \in 0..Len(fromGmail)
  BY <1>1, ReadsEnd
<1>3. faults <= faults' /\ buffer \in Seq(GmailItems) /\ todo = <<>>
  BY <1>1, BoundsAssumption DEF TypeInv, CountersFit, TextFits, TodoFits
<1>4. ASSUME NEW m \in Mails PROVE Left(m)' <= Left(m)
  <2> DEFINE record == SubSeq(fromGmail, 1, RecordAtHead)
             a == Count(record, Backs(m))
             b == Count(buffer, Backs(m))
             d == Count(fromGmail', Backs(m))
  <2>1. /\ Count(fromGmail, Backs(m)) = a + d /\ a \in Nat /\ d \in Nat /\ record \in Seq(GmailItems)
    BY <1>1, <1>2, ReadCount
  <2>2. Received \in Seq(GmailItems) /\ Count(Received, Backs(m)) = b + a
    <3> HIDE DEF record
    <3>1. Received = buffer \o record
      BY DEF Received, record
    <3>2. Count(buffer \o record, Backs(m)) = b + Count(record, Backs(m))
      BY <1>3, <2>1, CountConcat
    <3> QED BY <1>3, <2>1, <3>1, <3>2, ConcatProperties
  <2> HIDE DEF record, a
  <2>3. b \in Nat /\ processed[m] \in Nat
    BY CountsAreNumbers
  <2>4. Count(todo, Entries(m)) = 0
    BY <1>3, CountShort
  <2>5. Left(m) = (a + d) + b + 0 + processed[m]
    BY <2>1, <2>4 DEF Left
  <2>6. Left(m)' = d + Count(buffer', Backs(m)) + Count(todo', Entries(m)) + processed[m]
    BY <1>1 DEF Left
  <2>7. CASE \E k \in 1..Len(Received) : Received[k].kind = "END"
    <3>1. ProcessNext(MailsIn(Received)) /\ buffer' = <<>>
      BY <2>7 DEF ReceiveMails
    <3>2. todo' = MailsIn(Received)
      BY <3>1 DEF ProcessNext
    <3>3. Count(buffer', Backs(m)) = 0
      BY <3>1, CountShort
    <3>4. Count(todo', Entries(m)) <= b + a
      BY <2>2, <3>2, FoundCount
    <3>5. Count(todo', Entries(m)) \in Nat
      BY CountType DEF TypeInv, TodoFits
    <3> HIDE DEF b, d
    <3> QED BY <2>1, <2>3, <2>5, <2>6, <3>3, <3>4, <3>5
  <2>8. CASE ~\E k \in 1..Len(Received) : Received[k].kind = "END"
    <3>1. buffer' = Received /\ todo' = todo
      BY <2>8 DEF ReceiveMails
    <3>2. Count(buffer', Backs(m)) = b + a /\ Count(todo', Entries(m)) = 0
      BY <2>2, <2>4, <3>1
    <3> HIDE DEF b, d
    <3> QED BY <2>1, <2>3, <2>5, <2>6, <3>2
  <2> QED BY <2>7, <2>8
<1> QED BY <1>1, <1>3, <1>4, NoCopyAdded

\* The Gmail Server answers: a mailbox goes out and is cleared, or a fault is counted.
LEMMA GmailServerCopies ==
    ASSUME TypeInv, TypeInv', CopyInv, GmailServer
    PROVE  CopyInv'
<1> DEFINE r == Head(toGmail)
<1>1. /\ toGmail # <<>> /\ UNCHANGED <<buffer, todo, arrived, processed>>
      /\ RequestOpToken(r) \/ EmailSend(r) \/ RetrieveEmails(r)
  BY DEF GmailServer
<1> HIDE DEF r
<1>2. fromGmail \in Seq(GmailItems) /\ mailbox \in Seq(Mails) /\ faults \in Nat /\ faults' \in Nat
  BY BoundsAssumption DEF TypeInv, TextFits, WholeAnswers, StoresFit, CountersFit
<1>3. ASSUME NEW t \in Seq(GmailItems), fromGmail' = fromGmail \o t, NEW m \in Mails
      PROVE  Left(m)' = Left(m) + Count(t, Backs(m))
  <2> DEFINE a == Count(fromGmail, Backs(m))
             b == Count(buffer, Backs(m))
             c == Count(todo, Entries(m))
             d == Count(t, Backs(m))
  <2>1. a \in Nat /\ b \in Nat /\ c \in Nat /\ processed[m] \in Nat /\ d \in Nat
    BY CountsAreNumbers, CountType
  <2>2. Count(fromGmail', Backs(m)) = a + d
    BY <1>2, <1>3, CountConcat
  <2>3. Left(m)' = (a + d) + b + c + processed[m] /\ Left(m) = a + b + c + processed[m]
    BY <1>1, <2>2 DEF Left
  <2> HIDE DEF a, b, c, d
  <2>4. Left(m)' = Left(m) + d
    BY <2>1, <2>3
  <2> QED BY <2>4 DEF d
<1>4. ASSUME NEW x \in GmailItems, NEW y \in GmailItems, x.kind # "back", y.kind # "back",
             fromGmail' = fromGmail \o <<x, y>> \/ fromGmail' = fromGmail \o <<y>>,
             mailbox' = mailbox, faults <= faults'
      PROVE  CopyInv'
  <2>1. <<x, y>> \in Seq(GmailItems) /\ <<y>> \in Seq(GmailItems) /\ <<x>> \in Seq(GmailItems)
    OBVIOUS
  <2>2. ASSUME NEW m \in Mails PROVE Left(m)' <= Left(m)
    <3>1. x \notin Backs(m) /\ y \notin Backs(m)
      BY <1>4 DEF Backs
    <3>2. Count(<<x>>, Backs(m)) = 0 /\ Count(<<y>>, Backs(m)) = 0
      BY <3>1, CountShort
    <3>3. Count(<<x, y>>, Backs(m)) = 0
      BY <3>1, CountPair
    <3>4. Left(m)' = Left(m) + 0
      BY <1>3, <1>4, <2>1, <3>2, <3>3
    <3>5. Left(m) \in Nat
      BY CountsAreNumbers
    <3> QED BY <3>4, <3>5
  <2> QED BY <1>1, <1>4, <2>2, NoCopyAdded
<1>5. CASE RequestOpToken(r)
  <2> DEFINE a == Item("OP_TOKEN", None, FALSE)
             b == Item("token", r.of, TRUE)
             c == Item("ERROR", None, FALSE)
             d == Item("NUL", None, TRUE)
  <2>1. /\ mailbox' = mailbox /\ (faults' = faults \/ faults' = faults + 1)
        /\ fromGmail' = fromGmail \o <<a, b>> \/ fromGmail' = fromGmail \o <<c, d>>
    BY <1>5 DEF RequestOpToken
  <2>2. r.of \in Operations
    <3>1. Head(toGmail) \in SentRequests
      BY <1>1, HeadTailProperties DEF TypeInv, QueuesFit
    <3> QED BY <1>5, <3>1 DEF RequestOpToken, SentRequests, r
  <2>3. a \in GmailItems /\ c \in GmailItems /\ d \in GmailItems
    BY DEF Item, GmailItems
  <2>4. b \in GmailItems
    BY <2>2 DEF Item, GmailItems
  <2>5. a.kind # "back" /\ c.kind # "back" /\ d.kind # "back"
    BY DEF Item
  <2>6. b.kind # "back"
    BY DEF Item
  <2>7. faults <= faults'
    BY <1>2, <2>1
  <2> HIDE DEF a, b, c, d
  <2> QED BY <1>4, <2>1, <2>3, <2>4, <2>5, <2>6, <2>7
<1>6. CASE EmailSend(r)
  <2> DEFINE a == Item("OK:EMAIL_STORED", None, TRUE)
  <2>1. mailbox' = mailbox /\ faults' = faults /\ fromGmail' = Append(fromGmail, a)
    BY <1>6 DEF EmailSend
  <2>2. a \in GmailItems
    BY DEF Item, GmailItems
  <2>3. a.kind # "back"
    BY DEF Item
  <2> HIDE DEF a
  <2>4. fromGmail' = fromGmail \o <<a>>
    BY <1>2, <2>1, <2>2, AppendIsConcat
  <2>5. faults <= faults'
    BY <1>2, <2>1
  <2> QED BY <1>4, <2>1, <2>2, <2>3, <2>4, <2>5
<1>7. CASE RetrieveEmails(r) /\ mailbox = <<>>
  <2> DEFINE a == Item("No emails found", None, FALSE)
             b == Item("END", None, TRUE)
  <2>1. mailbox' = mailbox /\ faults' = faults /\ fromGmail' = fromGmail \o <<a, b>>
    BY <1>7 DEF RetrieveEmails
  <2>2. a \in GmailItems /\ b \in GmailItems
    BY DEF Item, GmailItems
  <2>3. a.kind # "back" /\ b.kind # "back"
    BY DEF Item
  <2> HIDE DEF a, b
  <2>4. faults <= faults'
    BY <1>2, <2>1
  <2> QED BY <1>4, <2>1, <2>2, <2>3, <2>4
<1>8. CASE RetrieveEmails(r) /\ mailbox # <<>>
  <2>1. PICK cuts : fromGmail' = fromGmail \o Chunked(mailbox, cuts) /\ ClearMailbox
    BY <1>8 DEF RetrieveEmails
  <2>2. Chunked(mailbox, cuts) \in Seq(GmailItems)
    BY <1>2, <1>8, ChunkedIsWhole DEF WholeAnswers
  <2> SUFFICES ASSUME NEW m \in Mails
               PROVE  /\ InBox(m)' <= HasArrived(m)'
                      /\ InBox(m)' + Left(m)' <= faults' + HasArrived(m)'
    BY DEF CopyInv
  <2> DEFINE d == Count(Chunked(mailbox, cuts), Backs(m))
  <2>3. d <= InBox(m) /\ d \in Nat
    BY <1>2, <1>8, <2>2, MailboxCount, CountType DEF InBox
  <2>4. Left(m)' = Left(m) + d
    BY <1>3, <2>1, <2>2
  <2> HIDE DEF d
  <2>5. InBox(m) <= HasArrived(m) /\ InBox(m) + Left(m) <= faults + HasArrived(m)
    BY DEF CopyInv
  <2>6. HasArrived(m)' = HasArrived(m) /\ HasArrived(m) \in {0, 1}
    BY <1>1 DEF HasArrived
  <2>7. InBox(m) \in Nat /\ Left(m) \in Nat
    BY CountsAreNumbers
  <2>8. CASE mailbox' = <<>> /\ faults' = faults
    <3>1. InBox(m)' = 0
      BY <2>8, CountShort DEF InBox
    <3> QED BY <1>2, <2>3, <2>4, <2>5, <2>6, <2>7, <2>8, <3>1
  <2>9. CASE mailbox' = mailbox /\ faults' = faults + 1
    <3>1. InBox(m)' = InBox(m)
      BY <2>9 DEF InBox
    <3> QED BY <1>2, <2>3, <2>4, <2>5, <2>6, <2>7, <2>9, <3>1
  <2> QED BY <2>1, <2>8, <2>9 DEF ClearMailbox
<1> QED BY <1>1, <1>5, <1>6, <1>7, <1>8

\* What a connection that is given up or closed held is gone.
LEMMA DroppedCopies ==
    ASSUME TypeInv, TypeInv', CopyInv, UNCHANGED <<mailbox, arrived, processed, faults>>,
           fromGmail' = <<>>, buffer' = <<>>, todo' = todo \/ todo' = <<>>
    PROVE  CopyInv'
<1>1. ASSUME NEW m \in Mails PROVE Left(m)' <= Left(m)
  <2> DEFINE a == Count(fromGmail, Backs(m))
             b == Count(buffer, Backs(m))
             c == Count(todo, Entries(m))
             d == Count(todo', Entries(m))
  <2>1. a \in Nat /\ b \in Nat /\ c \in Nat /\ processed[m] \in Nat
    BY CountsAreNumbers
  <2>2. Count(fromGmail', Backs(m)) = 0 /\ Count(buffer', Backs(m)) = 0 /\ (d = c \/ d = 0)
    BY CountShort
  <2>3. Left(m)' = 0 + 0 + d + processed[m] /\ Left(m) = a + b + c + processed[m]
    BY <2>2 DEF Left
  <2> HIDE DEF a, b, c, d
  <2> QED BY <2>1, <2>2, <2>3
<1>2. faults <= faults'
  BY BoundsAssumption DEF TypeInv, CountersFit
<1> QED BY <1>1, <1>2, NoCopyAdded

\* A mail arrives that has not arrived before.
LEMMA StoreEmailCopies ==
    ASSUME TypeInv, CopyInv, NEW x \in Mails, storeEmail(x)
    PROVE  CopyInv'
<1>1. /\ mailbox' = Append(mailbox, x) /\ arrived' = arrived \cup {x} /\ x \notin arrived
      /\ UNCHANGED <<buffer, todo, fromGmail, processed, faults>>
  BY DEF storeEmail, gmailStream
<1>2. mailbox \in Seq(Mails)
  BY DEF TypeInv, StoresFit
<1> SUFFICES ASSUME NEW m \in Mails
             PROVE  /\ InBox(m)' <= HasArrived(m)'
                    /\ InBox(m)' + Left(m)' <= faults' + HasArrived(m)'
  BY DEF CopyInv
<1>3. InBox(m) <= HasArrived(m) /\ InBox(m) + Left(m) <= faults + HasArrived(m)
  BY DEF CopyInv
<1>4. InBox(m) \in Nat /\ Left(m) \in Nat /\ faults \in Nat
  BY CountsAreNumbers
<1>5. Left(m)' = Left(m)
  BY <1>1 DEF Left
<1>6. InBox(m)' = InBox(m) + IF x \in {m} THEN 1 ELSE 0
  BY <1>1, <1>2, CountAppend DEF InBox
<1>7. CASE x = m
  <2>1. InBox(m)' = InBox(m) + 1 /\ HasArrived(m) = 0 /\ HasArrived(m)' = 1
    BY <1>1, <1>6, <1>7 DEF HasArrived
  <2> QED BY <1>1, <1>3, <1>4, <1>5, <2>1
<1>8. CASE x # m
  <2>1. InBox(m)' = InBox(m) + 0 /\ HasArrived(m)' = HasArrived(m) /\ HasArrived(m) \in Nat
    BY <1>1, <1>6, <1>8 DEF HasArrived
  <2> QED BY <1>1, <1>3, <1>4, <1>5, <2>1
<1> QED BY <1>7, <1>8

\* The mailbox is cleared for an ended client, or it stays and one more fault counts.
LEMMA LateRetrieveCopies ==
    ASSUME TypeInv, CopyInv, LateRetrieve
    PROVE  CopyInv'
<1> SUFFICES ASSUME NEW m \in Mails
             PROVE  /\ InBox(m)' <= HasArrived(m)'
                    /\ InBox(m)' + Left(m)' <= faults' + HasArrived(m)'
  BY DEF CopyInv
<1>1. UNCHANGED <<buffer, todo, fromGmail, arrived, processed>>
  BY DEF LateRetrieve, gmailStream
<1>2. \/ mailbox' = mailbox /\ (faults' = faults \/ faults' = faults + 1)
      \/ mailbox' = <<>> /\ faults' = faults
  BY DEF LateRetrieve, ClearMailbox
<1>3. InBox(m) <= HasArrived(m) /\ InBox(m) + Left(m) <= faults + HasArrived(m)
  BY DEF CopyInv
<1>4. InBox(m) \in Nat /\ Left(m) \in Nat /\ faults \in Nat
  BY CountsAreNumbers
<1>5. HasArrived(m)' = HasArrived(m) /\ HasArrived(m) \in Nat /\ Left(m)' = Left(m)
  BY <1>1 DEF HasArrived, Left
<1>6. InBox(m)' = InBox(m) \/ InBox(m)' = 0
  BY <1>2, CountShort DEF InBox
<1>7. faults' = faults \/ faults' = faults + 1
  BY <1>2
<1> HIDE DEF InBox, Left, HasArrived
<1> QED BY <1>3, <1>4, <1>5, <1>6, <1>7

\* Every step keeps the count of the copies.
LEMMA NextCopyInv == Typed /\ CopyInv /\ [Next]_vars => CopyInv'
<1> SUFFICES ASSUME TypeInv, LateFits, CopyInv, [Next]_vars PROVE CopyInv'
  BY DEF Typed
<1>1. TypeInv'
  BY NextTypeInv
<1>2. ASSUME UNCHANGED <<fromGmail, buffer, todo, mailbox, arrived, processed, faults>>
      PROVE  CopyInv'
  BY <1>2 DEF CopyInv, InBox, Left, HasArrived
<1>3. CASE Menu
  BY <1>2, <1>3 DEF Menu, send_email, receive_emails, recover_account_flow, gmailStream, mailVars
<1>4. CASE ReceiveFromKey
  <2>1. OnKeyAnswer(Head(fromKey)) /\ UNCHANGED <<buffer, fromGmail, mailbox, arrived, faults>>
    BY <1>4 DEF ReceiveFromKey
  <2> QED BY <1>1, <2>1, KeyAnswerCopies
<1>5. CASE ReceiveMails
  BY <1>1, <1>5, ReceiveMailsCopies
<1>6. CASE ReceiveStored \/ ReadStatus \/ ReadToken
  BY <1>1, <1>6, OtherReadsCopies
<1>7. CASE KeyServer
  BY <1>2, <1>7 DEF KeyServer, gmailStream, mailVars
<1>8. CASE GmailServer
  BY <1>1, <1>8, GmailServerCopies
<1>9. ASSUME NEW s \in Services, GiveUp(s) PROVE CopyInv'
  <2>1. UNCHANGED <<mailbox, arrived, faults>>
    BY <1>9 DEF GiveUp
  <2>2. CASE s = "key"
    <3>1. OnKeyAnswer(Silence) /\ UNCHANGED <<buffer, fromGmail>>
      BY <1>9, <2>2 DEF GiveUp
    <3> QED BY <1>1, <2>1, <3>1, KeyAnswerCopies
  <2>3. CASE s = "gmail"
    <3>1. fromGmail' = <<>> /\ buffer' = <<>> /\ UNCHANGED <<todo, processed>>
      BY <1>9, <2>3 DEF GiveUp
    <3> QED BY <1>1, <2>1, <3>1, DroppedCopies
  <2> QED BY <2>2, <2>3 DEF Services
<1>10. CASE Restart
  BY <1>1, <1>10, DroppedCopies DEF Restart
<1>11. ASSUME NEW m \in Mails, storeEmail(m) PROVE CopyInv'
  BY <1>11, StoreEmailCopies
<1>12. CASE (\E split \in Splits : LateUpdate(split)) \/ UNCHANGED vars
  BY <1>2, <1>12 DEF LateUpdate, vars, gmailStream, mailVars
<1>13. CASE LateRetrieve
  BY <1>2, <1>13, LateRetrieveCopies
<1> QED BY <1>3, <1>4, <1>5, <1>6, <1>7, <1>8, <1>9, <1>10, <1>11, <1>12, <1>13 DEF Next, Receive

\* There is no mail at first.
LEMMA InitCopyInv == Init => CopyInv
<1> SUFFICES ASSUME Init, NEW m \in Mails
             PROVE  InBox(m) <= HasArrived(m) /\ InBox(m) + Left(m) <= faults + HasArrived(m)
  BY DEF CopyInv
<1>1. /\ mailbox = <<>> /\ fromGmail = <<>> /\ buffer = <<>> /\ todo = <<>>
      /\ arrived = {} /\ processed[m] = 0 /\ faults = 0
  BY DEF Init
<1>2. InBox(m) = 0 /\ Left(m) = 0 + 0 + 0 + 0
  BY <1>1, CountShort DEF InBox, Left
<1>3. HasArrived(m) = 0
  BY <1>1 DEF HasArrived
<1> QED BY <1>1, <1>2, <1>3

\* A mail is shown at most once more than the mailbox could not be cleared, whatever is
\* cut, dropped, read late or read after a restart (retrieveEmails, receive_emails).
THEOREM NoMailTwiceHolds == Spec => []NoMailTwice
<1>1. TypeInv /\ CopyInv => NoMailTwice
  <2> SUFFICES ASSUME TypeInv, CopyInv, NEW m \in Mails PROVE processed[m] <= 1 + faults
    BY DEF NoMailTwice
  <2>1. InBox(m) + Left(m) <= faults + HasArrived(m)
    BY DEF CopyInv
  <2>2. HasArrived(m) = 0 \/ HasArrived(m) = 1
    BY DEF HasArrived
  <2> DEFINE a == Count(fromGmail, Backs(m))
             b == Count(buffer, Backs(m))
             c == Count(todo, Entries(m))
  <2>3. /\ a \in Nat /\ b \in Nat /\ c \in Nat
        /\ InBox(m) \in Nat /\ processed[m] \in Nat /\ faults \in Nat
    BY CountsAreNumbers
  <2>4. Left(m) = a + b + c + processed[m]
    BY DEF Left
  <2> HIDE DEF a, b, c
  <2> QED BY <2>1, <2>2, <2>3, <2>4
<1>2. Typed => TypeInv
  BY DEF Typed
<1> QED BY <1>1, <1>2, InitTyped, NextTyped, InitCopyInv, NextCopyInv, PTL DEF Spec

-----------------------------------------------------------------------------
(* Recovery *)

\* What fetchShare1 may answer; not SHARE1_UPDATED.
FetchAnswer(a) == a.kind \in {"share", "refusal"}

\* The answer that the client reads next, or last, is to a fetch of Share1.
FirstIsFetch(q, s) ==
    IF s # <<>> THEN FetchAnswer(s[1]) ELSE q # <<>> /\ q[1].command = "4"
LastIsFetch(q, s) ==
    IF q # <<>> THEN q[Len(q)].command = "4" ELSE s # <<>> /\ FetchAnswer(s[Len(s)])

\* The Key Server has replaced Share1 for this split, whatever an ended client's request
\* made of it then.
Replaced(split) == share1 = split \/ overtaken

\* Nothing is on the connection but the update of Share1, or the answer to it.
UpdateUnderWay(q, s, split, done) ==
    \/ s = <<>> /\ \E r : q = <<r>> /\ r.command = "5" /\ r.split = split
    \/ q = <<>> /\ \E a : s = <<a>> /\ (a.kind = "SHARE1_UPDATED" => done)

\* Share1 has been asked for, and the new Share1 has not been confirmed.
Recovering(op) == op \in {"GET_SHARE", "UPDATE_SHARE1"}

\* Where each step of recover_account_flow stands with the Key Server.
ConfirmInv ==
    /\ pc = "share1" => LastIsFetch(toKey, fromKey)
    /\ pc = "updated" /\ Unread = 1
         => UpdateUnderWay(toKey, fromKey, call.split, Replaced(call.split))
    /\ Recovering(call.operation) /\ Unread = Awaited + 1 => FirstIsFetch(toKey, fromKey)
    /\ call.operation = "UPDATE_SHARE2" /\ Unread < 2 => Unread = 0 /\ Replaced(call.split)

\* Where a call is over, or is not about shares.
LEMMA NoRecovery ==
    ASSUME call'.operation = None, pc' \notin {"share1", "updated"}
    PROVE  ConfirmInv'
<1>1. None # "GET_SHARE" /\ None # "UPDATE_SHARE1" /\ None # "UPDATE_SHARE2"
  BY NoneAssumption DEF Operations
<1> QED BY <1>1 DEF ConfirmInv, Recovering

\* A step that leaves the Key Server connection and Share1 alone.
LEMMA SharesLeftAlone ==
    ASSUME ConfirmInv, UNCHANGED <<toKey, fromKey>>, Replaced(call.split) => Replaced(call.split)',
           call' = call, pc' = pc \/ (pc \notin OnKey /\ pc' \notin OnKey)
    PROVE  ConfirmInv'
<1>1. Unread' = Unread /\ Awaited' = Awaited
  BY DEF Unread, Awaited
<1>2. pc' = "share1" => pc = "share1"
  BY DEF OnKey
<1>3. pc' = "updated" => pc = "updated"
  BY DEF OnKey
<1>4. UpdateUnderWay(toKey, fromKey, call.split, Replaced(call.split))
        => UpdateUnderWay(toKey', fromKey', call'.split, Replaced(call.split)')
  BY DEF UpdateUnderWay
<1> QED BY <1>1, <1>2, <1>3, <1>4 DEF ConfirmInv

\* What is on the Key Server connection, in numbers.
LEMMA KeyQueues ==
    ASSUME TypeInv, LagInv
    PROVE  /\ toKey \in Seq(KeyRequests) /\ fromKey \in Seq(KeyAnswers)
           /\ Len(toKey) \in Nat /\ Len(fromKey) \in Nat
           /\ Unread = Len(toKey) + Len(fromKey) /\ Awaited <= Unread
           /\ pc \in OnKey => Awaited = 1
           /\ pc \notin OnKey => Awaited = 0
<1>1. toKey \in Seq(KeyRequests) /\ fromKey \in Seq(KeyAnswers)
  BY DEF TypeInv, QueuesFit
<1>2. Len(toKey) \in Nat /\ Len(fromKey) \in Nat
  BY <1>1, LenProperties
<1>3. gaveUp["key"] \in Nat
  BY DEF TypeInv, CountersFit, Services
<1>4. (pc \in OnKey => Awaited = 1) /\ (pc \notin OnKey => Awaited = 0)
  BY DEF Awaited
<1>5. Unread = Len(toKey) + Len(fromKey)
  BY DEF Unread
<1>6. gaveUp["key"] + Awaited <= Unread
  BY DEF LagInv, KeyLag
<1>7. Awaited <= Unread
  BY <1>2, <1>3, <1>4, <1>5, <1>6
<1> QED BY <1>1, <1>2, <1>4, <1>5, <1>7

\* The Key Server answers requests in their order; its answer to a fetch is one, and
\* SHARE1_UPDATED says what it has done.
LEMMA KeyServerConfirms ==
    ASSUME TypeInv, LagInv, ConfirmInv, KeyServer
    PROVE  ConfirmInv'
<1> DEFINE r == Head(toKey)
<1>1. /\ toKey # <<>> /\ toKey' = Tail(toKey) /\ UNCHANGED <<pc, call>>
      /\ fetchClientKey(r) \/ fetchShare1(r) \/ updateShare1(r) \/ RefuseShareRequest(r)
  BY DEF KeyServer
<1>2. /\ toKey \in Seq(KeyRequests) /\ fromKey \in Seq(KeyAnswers)
      /\ Len(toKey) \in Nat /\ Len(fromKey) \in Nat
      /\ Unread = Len(toKey) + Len(fromKey)
  BY KeyQueues
<1>3. /\ Len(toKey) > 0 /\ r = toKey[1] /\ toKey' \in Seq(KeyRequests) /\ Len(toKey') = Len(toKey) - 1
      /\ \A k \in 1..Len(toKey') : toKey'[k] = toKey[k + 1]
  BY <1>1, <1>2, TailLemma
<1> HIDE DEF r
<1>4. PICK a : /\ fromKey' = Append(fromKey, a)
               /\ r.command = "4" => FetchAnswer(a)
               /\ a.kind = "SHARE1_UPDATED" => share1' = r.split
  <2>1. CASE fetchClientKey(r)
    <3> DEFINE a == IF r.name \in Registered THEN [kind |-> "key", of |-> r.name]
                                             ELSE [kind |-> "CLIENT_NOT_FOUND", of |-> None]
    <3>1. fromKey' = Append(fromKey, a) /\ r.command = "2"
      BY <2>1 DEF fetchClientKey
    <3>2. a.kind # "SHARE1_UPDATED"
      OBVIOUS
    <3> HIDE DEF a
    <3> QED BY <3>1, <3>2
  <2>2. CASE fetchShare1(r)
    <3> DEFINE a == [kind |-> "share", of |-> share1]
    <3>1. fromKey' = Append(fromKey, a)
      BY <2>2 DEF fetchShare1
    <3>2. a.kind = "share"
      OBVIOUS
    <3> HIDE DEF a
    <3> QED BY <3>1, <3>2 DEF FetchAnswer
  <2>3. CASE updateShare1(r)
    <3> DEFINE a == [kind |-> "SHARE1_UPDATED", of |-> None]
    <3>1. fromKey' = Append(fromKey, a) /\ r.command = "5" /\ share1' = r.split
      BY <2>3 DEF updateShare1
    <3> HIDE DEF a
    <3> QED BY <3>1
  <2>4. CASE RefuseShareRequest(r)
    <3> DEFINE a == [kind |-> "refusal", of |-> None]
    <3>1. fromKey' = Append(fromKey, a)
      BY <2>4 DEF RefuseShareRequest
    <3>2. a.kind = "refusal"
      OBVIOUS
    <3> HIDE DEF a
    <3> QED BY <3>1, <3>2 DEF FetchAnswer
  <2> QED BY <1>1, <2>1, <2>2, <2>3, <2>4
<1>5. /\ Len(fromKey') = Len(fromKey) + 1 /\ fromKey'[Len(fromKey) + 1] = a /\ fromKey' # <<>>
      /\ \A k \in 1..Len(fromKey) : fromKey'[k] = fromKey[k]
  <2>1. /\ Len(fromKey') = Len(fromKey) + 1 /\ fromKey'[Len(fromKey) + 1] = a
        /\ \A k \in 1..Len(fromKey) : fromKey'[k] = fromKey[k]
    BY <1>2, <1>4, AppendLemma
  <2>2. fromKey' # <<>>
    BY <1>2, <2>1, EmptySeq
  <2> QED BY <2>1, <2>2
<1>6. ASSUME LastIsFetch(toKey, fromKey) PROVE LastIsFetch(toKey', fromKey')
  <2>1. toKey[Len(toKey)].command = "4"
    BY <1>1, <1>6 DEF LastIsFetch
  <2>2. CASE Len(toKey) = 1
    <3>1. toKey' = <<>>
      BY <1>3, <2>2, EmptySeq
    <3>2. FetchAnswer(a)
      BY <1>3, <1>4, <2>1, <2>2
    <3> QED BY <1>5, <3>1, <3>2 DEF LastIsFetch
  <2>3. CASE Len(toKey) # 1
    <3>1. Len(toKey') \in 1..Len(toKey') /\ Len(toKey') + 1 = Len(toKey) /\ Len(toKey') > 0
      BY <1>2, <1>3, <2>3
    <3>2. toKey' # <<>>
      BY <3>1, EmptySeq
    <3> QED BY <1>3, <2>1, <3>1, <3>2 DEF LastIsFetch
  <2> QED BY <2>2, <2>3
<1>7. ASSUME FirstIsFetch(toKey, fromKey) PROVE FirstIsFetch(toKey', fromKey')
  <2>1. CASE fromKey = <<>>
    <3>1. r.command = "4" /\ Len(fromKey) = 0
      BY <1>3, <1>7, <2>1, EmptySeq DEF FirstIsFetch
    <3>2. fromKey'[1] = a
      BY <1>5, <3>1
    <3> QED BY <1>4, <1>5, <3>1, <3>2 DEF FirstIsFetch
  <2>2. CASE fromKey # <<>>
    <3>1. FetchAnswer(fromKey[1]) /\ 1 \in 1..Len(fromKey)
      BY <1>2, <1>7, <2>2, EmptySeq DEF FirstIsFetch
    <3> QED BY <1>5, <3>1 DEF FirstIsFetch
  <2> QED BY <2>1, <2>2
<1>8. ASSUME pc = "updated", Unread = 1
      PROVE  UpdateUnderWay(toKey', fromKey', call.split, Replaced(call.split)')
  <2>1. UpdateUnderWay(toKey, fromKey, call.split, Replaced(call.split))
    BY <1>8 DEF ConfirmInv
  <2>2. fromKey = <<>> /\ \E x : toKey = <<x>> /\ x.command = "5" /\ x.split = call.split
    BY <1>1, <2>1 DEF UpdateUnderWay
  <2>3. PICK x : toKey = <<x>> /\ x.split = call.split
    BY <2>2
  <2>4. r = x /\ toKey' = <<>>
    BY <1>1, <2>3 DEF r
  <2>5. fromKey' = <<a>>
    BY <1>4, <2>2
  <2>6. a.kind = "SHARE1_UPDATED" => Replaced(call.split)'
    BY <1>1, <1>4, <2>3, <2>4 DEF Replaced
  <2> QED BY <2>4, <2>5, <2>6 DEF UpdateUnderWay
<1>9. ASSUME call.operation = "UPDATE_SHARE2", Unread < 2 PROVE FALSE
  <2>1. Unread = 0
    BY <1>9 DEF ConfirmInv
  <2> QED BY <1>2, <1>3, <2>1
<1>10. Unread' = Unread /\ Awaited' = Awaited
  <2>1. Unread' = Len(toKey') + Len(fromKey')
    BY DEF Unread
  <2> QED BY <1>1, <1>2, <1>3, <1>5, <2>1 DEF Awaited
<1> QED BY <1>1, <1>6, <1>7, <1>8, <1>9, <1>10 DEF ConfirmInv

\* A call that is over has no operation.
LEMMA EndCallConfirms ==
    ASSUME EndCall
    PROVE  ConfirmInv'
BY NoRecovery DEF EndCall, NoCall

\* The answers that do not take recovery further end it, or are not for it.
LEMMA OtherAnswersConfirm ==
    ASSUME TypeInv, NEW answer, OnKeyAnswer(answer),
           FetchedShare1(answer) => answer = Silence,
           UpdatedShare1(answer) => answer.kind # "SHARE1_UPDATED"
    PROVE  ConfirmInv'
<1>1. pc = "key" => call.operation = None
  BY DEF TypeInv, CallFits
<1>2. CASE SendWithKey(answer)
  <2>1. CASE answer.kind = "key"
    BY <1>1, <1>2, <2>1, NoRecovery DEF SendWithKey
  <2>2. CASE answer.kind # "key"
    BY <1>2, <2>2, EndCallConfirms DEF SendWithKey
  <2> QED BY <2>1, <2>2
<1>3. CASE ShowMail(answer)
  <2>1. pc = "key" /\ ProcessNext(Tail(todo))
    BY <1>3 DEF ShowMail
  <2>2. CASE Tail(todo) = <<>>
    BY <2>1, <2>2, EndCallConfirms DEF ProcessNext
  <2>3. CASE Tail(todo) # <<>>
    BY <1>1, <2>1, <2>3, NoRecovery DEF ProcessNext, AskForKey
  <2> QED BY <2>2, <2>3
<1>4. CASE FetchedShare1(answer)
  BY <1>4, EndCallConfirms DEF FetchedShare1
<1>5. CASE UpdatedShare1(answer)
  BY <1>5, EndCallConfirms DEF UpdatedShare1
<1> QED BY <1>2, <1>3, <1>4, <1>5 DEF OnKeyAnswer

\* An answer is read: when it is one that an abandoned call left, the answer to the
\* fetch is what is read as the answer to the update.
LEMMA ReceiveFromKeyConfirms ==
    ASSUME TypeInv, LagInv, ConfirmInv, ReceiveFromKey
    PROVE  ConfirmInv'
<1> DEFINE answer == Head(fromKey)
<1>1. /\ pc \in OnKey /\ fromKey # <<>> /\ fromKey' = ReadHead /\ OnKeyAnswer(answer)
      /\ UNCHANGED <<share1, overtaken>>
  BY DEF ReceiveFromKey, shareVars, lateShares
<1>2. /\ toKey \in Seq(KeyRequests) /\ fromKey \in Seq(KeyAnswers)
      /\ Len(toKey) \in Nat /\ Len(fromKey) \in Nat
      /\ Unread = Len(toKey) + Len(fromKey) /\ Awaited = 1
  BY <1>1, KeyQueues
<1>3. /\ Len(fromKey) > 0 /\ answer = fromKey[1] /\ answer \in KeyAnswers
      /\ Len(Tail(fromKey)) = Len(fromKey) - 1
      /\ \A k \in 1..Len(Tail(fromKey)) : Tail(fromKey)[k] = fromKey[k + 1]
  BY <1>1, <1>2, TailLemma, HeadTailProperties
<1>9. ASSUME fromKey' = Tail(fromKey)
      PROVE  /\ fromKey' \in Seq(KeyAnswers) /\ Len(fromKey') = Len(fromKey) - 1
             /\ \A k \in 1..Len(fromKey') : fromKey'[k] = fromKey[k + 1]
  BY <1>1, <1>2, <1>3, <1>9, HeadTailProperties
<1>10. pc # "updated" \/ answer.kind = "SHARE1_UPDATED" => fromKey' = Tail(fromKey)
  BY <1>1 DEF ReadHead, ReadsOf
<1> HIDE DEF answer
<1>4. call \in Calls
  BY DEF TypeInv, CallFits
<1>5. CASE FetchedShare1(answer) /\ answer # Silence
  <2>1. /\ pc = "share1" /\ pc' = "status" /\ toKey' = toKey
        /\ call' = [call EXCEPT !.operation = "GET_SHARE",
                                !.split = IF answer.kind = "share" THEN answer.of ELSE None]
    BY <1>5 DEF FetchedShare1, AskForToken
  <2>2. call'.operation = "GET_SHARE"
    BY <1>4, <2>1 DEF Calls
  <2>4. /\ fromKey' \in Seq(KeyAnswers) /\ Len(fromKey') = Len(fromKey) - 1
        /\ \A k \in 1..Len(fromKey') : fromKey'[k] = fromKey[k + 1]
    BY <1>9, <1>10, <2>1
  <2>5. Unread' = Len(toKey) + Len(fromKey') /\ Awaited' = 0
    BY <2>1 DEF Unread, Awaited, OnKey
  <2>3. ASSUME Unread' = Awaited' + 1 PROVE FirstIsFetch(toKey', fromKey')
    <3>0. Len(toKey) + Len(fromKey) = 2
      BY <1>2, <1>3, <2>3, <2>4, <2>5
    <3>1. LastIsFetch(toKey, fromKey)
      BY <2>1 DEF ConfirmInv
    <3>2. CASE toKey = <<>>
      <4>1. Len(toKey) = 0
        BY <3>2, EmptySeq
      <4>2. Len(fromKey) = 2 /\ Len(fromKey') = 1
        <5>1. Len(fromKey) = 2
          <6> DEFINE a == Len(toKey)
                     b == Len(fromKey)
          <6>1. a + b = 2 /\ a = 0 /\ b \in Nat
            BY <1>2, <3>0, <4>1
          <6> HIDE DEF a, b
          <6>2. b = 2
            BY <6>1
          <6> QED BY <6>2 DEF b
        <5>2. Len(fromKey') = Len(fromKey) - 1
          BY <2>4
        <5> QED BY <5>1, <5>2
      <4>3. fromKey'[1] = fromKey[2] /\ fromKey' # <<>>
        <5>1. 1 \in 1..Len(fromKey') /\ 1 + 1 = 2
          BY <4>2
        <5>2. fromKey' # <<>>
          <6>1. Len(<<>>) = 0 /\ Len(fromKey') = 1
            BY <4>2, EmptySeq
          <6> QED BY <6>1
        <5>3. fromKey'[1] = fromKey[1 + 1]
          BY <2>4, <5>1
        <5> QED BY <5>1, <5>2, <5>3
      <4>4. FetchAnswer(fromKey[2])
        BY <3>1, <3>2, <4>2 DEF LastIsFetch
      <4> QED BY <4>3, <4>4 DEF FirstIsFetch
    <3>3. CASE toKey # <<>>
      <4>1. Len(toKey) > 0
        BY <1>2, <3>3, EmptySeq
      <4>2. Len(toKey) = 1 /\ Len(fromKey') = 0
        <5> DEFINE a == Len(toKey)
                   b == Len(fromKey)
                   c == Len(fromKey')
        <5>1. a + b = 2 /\ a \in Nat /\ b \in Nat
          BY <1>2, <3>0
        <5>2. a > 0 /\ b > 0 /\ c = b - 1
          BY <1>3, <2>4, <4>1
        <5> HIDE DEF a, b, c
        <5>3. a = 1 /\ c = 0
          BY <5>1, <5>2
        <5> QED BY <5>3 DEF a, c
      <4>3. fromKey' = <<>>
        BY <2>4, <4>2, EmptySeq
      <4> QED BY <2>1, <3>1, <3>3, <4>2, <4>3 DEF FirstIsFetch, LastIsFetch
    <3> QED BY <3>2, <3>3
  <2> QED BY <1>1, <2>1, <2>2, <2>3 DEF ConfirmInv
<1>6. CASE UpdatedShare1(answer) /\ answer.kind = "SHARE1_UPDATED"
  <2>1. /\ pc = "updated" /\ pc' = "status"
        /\ call' = [call EXCEPT !.operation = "UPDATE_SHARE2"]
    BY <1>6 DEF UpdatedShare1, AskForToken
  <2>2. call'.operation = "UPDATE_SHARE2" /\ call'.split = call.split
    BY <1>4, <2>1 DEF Calls
  <2>3. ~Recovering(call'.operation)
    BY <2>2 DEF Recovering
  <2>4. /\ Len(fromKey') = Len(fromKey) - 1 /\ toKey' = toKey
    BY <1>6, <1>9, <1>10 DEF UpdatedShare1
  <2>5. Unread' = Unread - 1
    BY <1>2, <2>4 DEF Unread
  <2>6. Unread # 2
    <3> SUFFICES ASSUME Unread = 2 PROVE FALSE
      OBVIOUS
    <3>1. call.operation = "UPDATE_SHARE1"
      BY <2>1 DEF TypeInv, CallFits
    <3>2. FirstIsFetch(toKey, fromKey)
      BY <1>2, <3>1 DEF ConfirmInv, Recovering
    <3>3. FetchAnswer(answer)
      BY <1>1, <1>3, <3>2 DEF FirstIsFetch
    <3> QED BY <1>6, <3>3 DEF FetchAnswer
  <2>7. ASSUME Unread = 1 PROVE Replaced(call.split)'
    <3>1. UpdateUnderWay(toKey, fromKey, call.split, Replaced(call.split))
      BY <2>1, <2>7 DEF ConfirmInv
    <3>2. PICK a : fromKey = <<a>> /\ (a.kind = "SHARE1_UPDATED" => Replaced(call.split))
      BY <1>1, <3>1 DEF UpdateUnderWay
    <3>3. answer = a
      BY <1>3, <3>2
    <3>4. Replaced(call.split)
      BY <1>6, <3>2, <3>3
    <3> QED BY <1>1, <2>2, <3>4 DEF Replaced
  <2>8. ASSUME Unread' < 2 PROVE Unread' = 0 /\ Replaced(call.split)'
    <3>1. Unread = 1
      BY <1>2, <1>3, <2>5, <2>6, <2>8
    <3> QED BY <2>5, <2>7, <3>1
  <2> QED BY <2>1, <2>2, <2>3, <2>8 DEF ConfirmInv, Replaced
<1>7. CASE /\ FetchedShare1(answer) => answer = Silence
           /\ UpdatedShare1(answer) => answer.kind # "SHARE1_UPDATED"
  BY <1>1, <1>7, OtherAnswersConfirm
<1>8. \/ FetchedShare1(answer) /\ answer # Silence
      \/ UpdatedShare1(answer) /\ answer.kind = "SHARE1_UPDATED"
      \/ /\ FetchedShare1(answer) => answer = Silence
         /\ UpdatedShare1(answer) => answer.kind # "SHARE1_UPDATED"
  OBVIOUS
<1> QED BY <1>5, <1>6, <1>7, <1>8

\* A share request is sent behind what is on the connection.
LEMMA ReadTokenConfirms ==
    ASSUME TypeInv, LagInv, ConfirmInv, ReadToken
    PROVE  ConfirmInv'
<1> DEFINE token == fromGmail[LineAtHead].of
<1>1. pc = "token" /\ UseToken(token) /\ UNCHANGED fromKey
  BY DEF ReadToken
<1> HIDE DEF token
<1>2. /\ toKey \in Seq(KeyRequests) /\ fromKey \in Seq(KeyAnswers)
      /\ Len(toKey) \in Nat /\ Len(fromKey) \in Nat
      /\ Unread = Len(toKey) + Len(fromKey) /\ Awaited = 0
  BY <1>1, KeyQueues DEF OnKey
<1>3. call \in Calls
  BY DEF TypeInv, CallFits
<1>4. ASSUME NEW r, toKey' = Append(toKey, r)
      PROVE  /\ toKey' # <<>> /\ toKey'[Len(toKey')] = r
             /\ FirstIsFetch(toKey, fromKey) => FirstIsFetch(toKey', fromKey')
             /\ Unread' = Unread + 1
             /\ Unread = 0 => toKey' = <<r>> /\ fromKey' = <<>>
  <2>1. /\ Len(toKey') = Len(toKey) + 1 /\ toKey'[Len(toKey) + 1] = r
        /\ \A k \in 1..Len(toKey) : toKey'[k] = toKey[k]
    BY <1>2, <1>4, AppendLemma
  <2>2. toKey' # <<>>
    BY <1>2, <2>1, EmptySeq
  <2>3. ASSUME FirstIsFetch(toKey, fromKey) PROVE FirstIsFetch(toKey', fromKey')
    <3>1. CASE fromKey = <<>>
      <4>1. toKey # <<>> /\ toKey[1].command = "4"
        BY <2>3, <3>1 DEF FirstIsFetch
      <4>2. 1 \in 1..Len(toKey)
        BY <1>2, <4>1, EmptySeq
      <4> QED BY <1>1, <2>1, <2>2, <3>1, <4>1, <4>2 DEF FirstIsFetch
    <3>2. CASE fromKey # <<>>
      BY <1>1, <2>3, <3>2 DEF FirstIsFetch
    <3> QED BY <3>1, <3>2
  <2>5. Unread' = Unread + 1
    BY <1>1, <1>2, <2>1 DEF Unread
  <2>4. ASSUME Unread = 0 PROVE toKey' = <<r>> /\ fromKey' = <<>>
    <3>1. Len(toKey) = 0 /\ Len(fromKey) = 0
      BY <1>2, <2>4
    <3>2. toKey = <<>> /\ fromKey = <<>>
      BY <1>2, <3>1, EmptySeq
    <3> QED BY <1>1, <1>4, <3>2
  <2> QED BY <2>1, <2>2, <2>3, <2>4, <2>5
<1>5. CASE /\ call.operation = "FETCH_SHARE1"
           /\ toKey' = Append(toKey, ShareRequest("4", token, 0))
           /\ pc' = "share1" /\ UNCHANGED <<call, share1>>
  <2> DEFINE r == ShareRequest("4", token, 0)
  <2>1. r.command = "4"
    BY DEF ShareRequest
  <2>2. toKey' = Append(toKey, r)
    BY <1>5
  <2> HIDE DEF r
  <2>3. LastIsFetch(toKey', fromKey')
    BY <1>4, <2>1, <2>2 DEF LastIsFetch
  <2> QED BY <1>5, <2>3 DEF ConfirmInv, Recovering
<1>6. CASE /\ call.operation = "GET_SHARE" /\ UNCHANGED toKey
           /\ call' = [call EXCEPT !.operation = "UPDATE_SHARE1", !.split = splits + 1]
           /\ AskForToken("UPDATE_SHARE1")
  <2>1. call'.operation = "UPDATE_SHARE1" /\ pc' = "status"
    BY <1>3, <1>6 DEF Calls, AskForToken
  <2>2. Unread' = Unread /\ Awaited' = 0
    BY <1>1, <1>6, <2>1 DEF Unread, Awaited, OnKey
  <2>3. Unread' = Awaited' + 1 => FirstIsFetch(toKey', fromKey')
    BY <1>1, <1>2, <1>6, <2>2 DEF ConfirmInv, Recovering
  <2> QED BY <2>1, <2>3 DEF ConfirmInv
<1>7. CASE /\ call.operation = "UPDATE_SHARE1"
           /\ toKey' = Append(toKey, ShareRequest("5", token, call.split))
           /\ pc' = "updated" /\ UNCHANGED <<call, share1>>
  <2> DEFINE r == ShareRequest("5", token, call.split)
  <2>1. r.command = "5" /\ r.split = call.split
    BY DEF ShareRequest
  <2>2. toKey' = Append(toKey, r)
    BY <1>7
  <2> HIDE DEF r
  <2>5. Unread' = Unread + 1 /\ Awaited' = 1
    BY <1>4, <1>7, <2>2 DEF Awaited, OnKey
  <2>3. Unread' = 1 => UpdateUnderWay(toKey', fromKey', call.split, Replaced(call.split)')
    <3>1. Unread' = 1 => Unread = 0
      BY <1>2, <2>5
    <3> QED BY <1>4, <2>1, <2>2, <3>1 DEF UpdateUnderWay
  <2>4. Unread' = Awaited' + 1 => FirstIsFetch(toKey', fromKey')
    <3>1. Unread = 1 => FirstIsFetch(toKey, fromKey)
      BY <1>2, <1>7 DEF ConfirmInv, Recovering
    <3>2. Unread' = Awaited' + 1 => Unread = 1
      BY <1>2, <2>5
    <3> QED BY <1>4, <2>2, <3>1, <3>2
  <2>6. call'.operation # "UPDATE_SHARE2" /\ call' = call /\ pc' = "updated"
    BY <1>7
  <2> QED BY <2>3, <2>4, <2>6 DEF ConfirmInv, Replaced
<1>8. ASSUME EndCall PROVE ConfirmInv'
  BY <1>8, EndCallConfirms
<1> QED BY <1>1, <1>5, <1>6, <1>7, <1>8 DEF UseToken, shareVars

\* Every step keeps it.
LEMMA NextConfirmInv == TypeInv /\ LagInv /\ ConfirmInv /\ [Next]_vars => ConfirmInv'
<1> SUFFICES ASSUME TypeInv, LagInv, ConfirmInv, [Next]_vars PROVE ConfirmInv'
  OBVIOUS
<1>1. pc \in {"menu", "mails"} => call = NoCall
  BY DEF TypeInv, CallFits
<1>2. call \in Calls /\ NoCall.operation = None
  BY DEF TypeInv, CallFits, NoCall
<1>3. CASE Menu
  <2>1. pc = "menu" /\ call.operation = None
    BY <1>1, <1>2, <1>3 DEF Menu, send_email, receive_emails, recover_account_flow, AtMenu
  <2>2. ASSUME NEW r \in Names, send_email(r) PROVE ConfirmInv'
    <3>1. pc' = "key" /\ call' = [call EXCEPT !.recipient = r]
      BY <2>2 DEF send_email, AskForKey
    <3>2. call'.operation = None
      BY <1>2, <2>1, <3>1 DEF Calls
    <3> QED BY <3>1, <3>2, NoRecovery
  <2>3. CASE receive_emails
    BY <2>1, <2>3, NoRecovery DEF receive_emails
  <2>4. CASE recover_account_flow
    <3>1. pc' = "status" /\ call' = [call EXCEPT !.operation = "FETCH_SHARE1"]
      BY <2>4 DEF recover_account_flow, AskForToken
    <3>2. call'.operation = "FETCH_SHARE1"
      BY <1>2, <3>1 DEF Calls
    <3> QED BY <3>1, <3>2 DEF ConfirmInv, Recovering
  <2> QED BY <1>3, <2>2, <2>3, <2>4 DEF Menu
<1>4. CASE ReceiveFromKey
  BY <1>4, ReceiveFromKeyConfirms
<1>5. CASE ReceiveStored
  BY <1>5, EndCallConfirms DEF ReceiveStored
<1>6. CASE ReceiveMails
  <2>1. call' = NoCall /\ pc' \notin {"share1", "updated"}
    BY <1>1, <1>6 DEF ReceiveMails, ProcessNext, EndCall, AskForKey
  <2> QED BY <1>2, <2>1, NoRecovery
<1>7. CASE ReadStatus
  <2>1. UNCHANGED <<toKey, fromKey, share1, overtaken>>
    BY <1>7 DEF ReadStatus, keyStream, shareVars, lateShares
  <2>2. EndCall \/ (pc = "status" /\ pc' = "token" /\ call' = call)
    BY <1>7 DEF ReadStatus
  <2> QED BY <2>1, <2>2, EndCallConfirms, SharesLeftAlone DEF OnKey, Replaced
<1>8. CASE ReadToken
  BY <1>8, ReadTokenConfirms
<1>9. CASE KeyServer
  BY <1>9, KeyServerConfirms
<1>10. CASE \/ GmailServer \/ (\E m \in Mails : storeEmail(m)) \/ LateRetrieve \/ UNCHANGED vars
  <2>1. UNCHANGED <<pc, call, toKey, fromKey, share1, overtaken>>
    BY <1>10 DEF GmailServer, storeEmail, LateRetrieve, vars, keyStream, shareVars, lateShares
  <2> QED BY <2>1, SharesLeftAlone DEF Replaced
<1>11. ASSUME NEW s \in Services, GiveUp(s) PROVE ConfirmInv'
  <2>1. CASE s = "key"
    <3>1. OnKeyAnswer(Silence)
      BY <1>11, <2>1 DEF GiveUp
    <3>2. Silence.kind # "SHARE1_UPDATED"
      BY DEF Silence
    <3> QED BY <3>1, <3>2, OtherAnswersConfirm
  <2>2. CASE s = "gmail"
    BY <1>11, <2>2, EndCallConfirms DEF GiveUp
  <2> QED BY <2>1, <2>2 DEF Services
<1>12. CASE Restart
  BY <1>2, <1>12, NoRecovery DEF Restart
<1>13. ASSUME NEW split \in Splits, LateUpdate(split) PROVE ConfirmInv'
  <2>1. UNCHANGED <<pc, call, toKey, fromKey>> /\ (overtaken' = TRUE \/ UNCHANGED <<share1, overtaken>>)
    BY <1>13 DEF LateUpdate, keyStream
  <2>2. Replaced(call.split) => Replaced(call.split)'
    BY <2>1 DEF Replaced
  <2> QED BY <2>1, <2>2, SharesLeftAlone
<1> QED BY <1>3, <1>4, <1>5, <1>6, <1>7, <1>8, <1>9, <1>10, <1>11, <1>12, <1>13 DEF Next, Receive

\* There is no recovery at first.
LEMMA InitConfirmInv == Init => ConfirmInv
<1> SUFFICES ASSUME Init PROVE ConfirmInv
  OBVIOUS
<1>1. pc = "menu" /\ call.operation = None
  BY DEF Init, NoCall
<1>2. None # "GET_SHARE" /\ None # "UPDATE_SHARE1" /\ None # "UPDATE_SHARE2"
  BY NoneAssumption DEF Operations
<1> QED BY <1>1, <1>2 DEF ConfirmInv, Recovering

\* When recover_account_flow goes on to replace Share2, Share1 has been replaced by the
\* share of the same split, whatever the late request of an ended client made of it
\* then, unless two answers are left over on the connection: with one, what is read for
\* the answer to the update is the answer to the fetch, and update_share1_on_keyserver
\* stops there.
THEOREM ConfirmedUpdateHappenedHolds == Spec => []ConfirmedUpdateHappened
<1>1. ConfirmInv => ConfirmedUpdateHappened
  BY DEF ConfirmInv, ConfirmedUpdateHappened, Replaced
<1>2. Typed => TypeInv
  BY DEF Typed
<1> QED BY <1>1, <1>2, InitTyped, NextTyped, InitLagInv, NextLagInv, InitConfirmInv, NextConfirmInv, PTL
        DEF Spec

=============================================================================
