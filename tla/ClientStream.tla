---------------------------- MODULE ClientStream ----------------------------
(***************************************************************************)
(* The two standing connections of client.cpp, to the Gmail Server and to  *)
(* the Key Server, and everything a user at the menu sends over them: mail *)
(* out, mail in, account recovery.  Requests and answers carry no number:  *)
(* the next answer read is taken for the answer to the last request.       *)
(*                                                                         *)
(* An answer is a TLS record.  tls_recv returns (the rest of) one record,  *)
(* tls_read_line one line, so the Gmail stream is a sequence of items that *)
(* say whether they end a line and whether they end a record.  An answer   *)
(* of the Key Server is one item.  update_share1_on_keyserver reads 255    *)
(* bytes, every other call more than any answer has: it alone can leave    *)
(* the rest of an answer, and only if that is not its own.                 *)
(*                                                                         *)
(* When a client ends, the servers' threads for it go on with what it had  *)
(* sent: late requests, which change what the next client finds.           *)
(***************************************************************************)
EXTENDS Naturals, Sequences, FiniteSets

CONSTANTS
    Names,        \* user names this client writes to
    Registered,   \* those with a key at the Key Server; they write to us
    MaxMails,     \* bound: mails that other users send us
    MaxCuts,      \* bound: chunk boundaries inside one retrieval's answer
    MaxGiveUps,   \* bound: answers not waited for, per connection's lifetime
    MaxTogether,  \* bound: stored mails and such answers, together
    MaxFaults,    \* bound: op tokens refused, mailboxes not cleared
    MaxSplits,    \* bound: new splits made by recoveries
    MaxUnread,    \* bound: left in the Gmail streams when a call starts
    MaxLate,      \* bound: retrievals that ended clients left behind
    KeyReads,     \* reads of 255 bytes that a signed key takes
    ShareReads,   \* and that a Share1 takes
    None

ASSUME RegisteredAssumption == Registered \subseteq Names /\ None \notin Names
ASSUME BoundsAssumption ==
    {MaxMails, MaxCuts, MaxGiveUps, MaxFaults, MaxSplits, MaxUnread, MaxLate,
     MaxTogether} \subseteq Nat
ASSUME ReadsAssumption == {KeyReads, ShareReads} \subseteq Nat \ {0}

VARIABLES
    pc,          \* what the client's thread waits for
    call,        \* its local variables: recipient, operation, new split
    buffer,      \* receive_emails: all_emails
    todo,        \* receive_emails: mails split off but not yet processed
    timed,       \* the connections that tls_set_recv_timeout was called on
    toKey,       \* requests on their way to the Key Server
    fromKey,     \* its answers
    toGmail,     \* requests on their way to the Gmail Server
    fromGmail,   \* its answers
    mailbox,     \* <client>_emails.txt
    share1,      \* the split Share1 stems from, at the Key Server
    share2,      \* the split Share2 stems from, at the Recovery Server
    splits,      \* history: new splits made
    lateUpdates, \* UPDATE_SHARE1s of ended clients, by split, not yet carried out
    overtaken,   \* history: Share1 is what such a request put there
    arrived,     \* history: mails stored for this client
    processed,   \* history: how often each mail was shown to the user
    lateRetrievals, \* "4"s of ended clients that are not yet carried out
    atRisk,      \* history: mails in an answer that was cut, left or read late
    gaveUp,      \* history: answers this client stopped waiting for
    slipped,     \* history: the Gmail stream may hold lines nobody waits for
    faults       \* history: op tokens refused, mailboxes not cleared

keyStream   == <<toKey, fromKey>>
gmailStream == <<toGmail, fromGmail>>
lateShares  == <<lateUpdates, overtaken>>
shareVars   == <<share1, share2, splits, lateShares>>
mailVars    == <<mailbox, arrived, processed, lateRetrievals>>
vars == <<pc, call, buffer, todo, timed, keyStream, gmailStream, mailVars,
          shareVars, atRisk, gaveUp, slipped, faults>>

Services   == {"key", "gmail"}
Operations == {"FETCH_SHARE1", "GET_SHARE", "UPDATE_SHARE1", "UPDATE_SHARE2"}
Mails      == [id : 1..MaxMails, sender : Registered]
Splits     == 0..MaxSplits
NoCall     == [recipient |-> None, operation |-> None, split |-> 0]

ASSUME NoneAssumption == None \notin Operations

\* What the client waits for, by connection.
OnKey   == {"key", "share1", "updated"}
OnGmail == {"stored", "mails", "status", "token"}

Init ==
    /\ pc = "menu" /\ call = NoCall /\ buffer = <<>> /\ todo = <<>> /\ timed = {}
    /\ toKey = <<>> /\ fromKey = <<>> /\ toGmail = <<>> /\ fromGmail = <<>>
    /\ mailbox = <<>> /\ arrived = {} /\ processed = [m \in Mails |-> 0]
    /\ share1 = 0 /\ share2 = 0 /\ splits = 0
    /\ lateUpdates = {} /\ overtaken = FALSE /\ lateRetrievals = 0
    /\ atRisk = {} /\ gaveUp = [s \in Services |-> 0]
    /\ slipped = FALSE /\ faults = 0

-----------------------------------------------------------------------------
(* Text on the Gmail connection *)

Item(kind, of, last) == [kind |-> kind, of |-> of, last |-> last]

\* A packet is cut in two where a chunk ends inside it: "front" has no newline
\* yet.  "NUL" is the stray byte behind ERROR:OP_TOKEN_GENERATION_FAILED\n.
EndsLine(i) == i.kind \notin {"front", "NUL"}

FirstIndex(s, P(_)) == CHOOSE k \in 1..Len(s) : P(s[k]) /\ \A j \in 1..(k - 1) : ~P(s[j])

RecordAtHead == FirstIndex(fromGmail, LAMBDA i : i.last)
LineAtHead   == FirstIndex(fromGmail, EndsLine)
LineIsThere  == \E k \in 1..Len(fromGmail) : EndsLine(fromGmail[k])

\* The first k items are read; what follows stays for the next read.
DropItems(k) == fromGmail' = SubSeq(fromGmail, k + 1, Len(fromGmail))

\* The text between two END markers, as process_email sees it: seven parts make a
\* mail.  Other lines before it become part of the sender's name.
MailIn(seg) ==
    LET n == Len(seg)
    IN  IF /\ n >= 2
           /\ \A k \in 1..n : (seg[k].kind = "front") <=> (k = n - 1)
           /\ \A k \in 1..n : (seg[k].kind = "back") <=> (k = n)
        THEN <<[mail |-> seg[n].of, name |-> IF n = 2 THEN seg[n].of.sender ELSE None]>>
        ELSE <<>>

\* Mutant of MailsIn: the loop ends with the first mail.
MailsIn_firstOnly(text) ==
    MailIn(SubSeq(text, 1, (CHOOSE k \in 1..Len(text) :
        text[k].kind = "END" /\ \A j \in 1..(k - 1) : text[j].kind # "END") - 1))

\* The loop over "---EMAIL_END---" in receive_emails.  Text behind the last
\* marker is dropped with the buffer.
MailsIn(text) ==
    LET f[k \in 0..Len(text)] ==       \* [found so far, start of the open segment]
          IF k = 0 THEN [mails |-> <<>>, start |-> 1]
          ELSE IF text[k].kind # "END" THEN f[k - 1]
          ELSE [mails |-> f[k - 1].mails \o MailIn(SubSeq(text, f[k - 1].start, k - 1)),
                start |-> k + 1]
    IN  f[Len(text)].mails

-----------------------------------------------------------------------------
(* The menu: a call starts by sending its first request. *)

KeyRequest(name) == [command |-> "2", name |-> name, token |-> None, split |-> 0]
ShareRequest(command, token, split) ==
    [command |-> command, name |-> None, token |-> token, split |-> split]
GmailRequest(command, of, key) == [command |-> command, of |-> of, key |-> key]

AtMenu == pc = "menu" /\ Len(toGmail) + Len(fromGmail) <= MaxUnread

\* get_recipient_pubkey up to its receive: it puts the 5 s timeout on the
\* connection, where it stays.
AskForKey(name) ==
    /\ toKey' = Append(toKey, KeyRequest(name))
    /\ timed' = timed \cup {"key"}
    /\ pc' = "key"

\* request_operation_token up to its first tls_read_line.
AskForToken(op) ==
    /\ toGmail' = Append(toGmail, GmailRequest("REQUEST_OP_TOKEN", op, None))
    /\ pc' = "status"

\* Option 1, send_email.
send_email(r) ==
    /\ AtMenu
    /\ AskForKey(r)
    /\ call' = [call EXCEPT !.recipient = r]
    /\ UNCHANGED <<buffer, todo, fromKey, gmailStream, mailVars, shareVars,
                   atRisk, gaveUp, slipped, faults>>

\* Option 2, receive_emails: the 5 s timeout stays on this connection too.
receive_emails ==
    /\ AtMenu
    /\ toGmail' = Append(toGmail, GmailRequest("4", None, None))
    /\ timed' = timed \cup {"gmail"}
    /\ pc' = "mails"
    /\ UNCHANGED <<call, buffer, todo, keyStream, fromGmail, mailVars, shareVars,
                   atRisk, gaveUp, slipped, faults>>

\* Option 3, recover_account_flow: Share1 is fetched first.
recover_account_flow ==
    /\ AtMenu /\ splits < MaxSplits
    /\ AskForToken("FETCH_SHARE1")
    /\ call' = [call EXCEPT !.operation = "FETCH_SHARE1"]
    /\ UNCHANGED <<buffer, todo, timed, keyStream, fromGmail, mailVars, shareVars,
                   atRisk, gaveUp, slipped, faults>>

\* Mutant of EndCall: local variables outlive the call.
EndCall_keepsCall == pc' = "menu" /\ UNCHANGED call

EndCall == pc' = "menu" /\ call' = NoCall

-----------------------------------------------------------------------------
(* Answers *)

Silence == [kind |-> "silence", of |-> None]

\* Mutants of SendWithKey: the signature is not checked; the Gmail Server's
\* answer is not waited for.
SendWithKey_unsigned(answer) ==
    /\ pc = "key" /\ call.recipient # None
    /\ toGmail' = Append(toGmail, GmailRequest("EMAIL_SEND", call.recipient, answer.of))
    /\ pc' = "stored" /\ UNCHANGED <<call, todo, timed, toKey, processed>>

SendWithKey_notWaiting(answer) ==
    /\ pc = "key" /\ call.recipient # None
    /\ toGmail' = IF answer.kind = "key"
                  THEN Append(toGmail, GmailRequest("EMAIL_SEND", call.recipient, answer.of))
                  ELSE toGmail
    /\ EndCall
    /\ UNCHANGED <<todo, timed, toKey, processed>>

\* send_email goes on when the answer is a key that the Key Server signed.
\* The signature says nothing about whose key it is.
SendWithKey(answer) ==
    /\ pc = "key" /\ call.recipient # None
    /\ IF answer.kind = "key"
       THEN /\ toGmail' = Append(toGmail, GmailRequest("EMAIL_SEND", call.recipient, answer.of))
            /\ pc' = "stored" /\ UNCHANGED call
       ELSE EndCall /\ UNCHANGED toGmail
    /\ UNCHANGED <<todo, timed, toKey, processed>>

\* receive_emails: the next mail is processed, or the call is over.
ProcessNext(rest) ==
    /\ todo' = rest
    /\ IF rest = <<>> THEN EndCall /\ UNCHANGED <<toKey, timed>>
                      ELSE AskForKey(Head(rest).name) /\ UNCHANGED call

\* process_email: the mail is shown if its signatures fit the key that came.
ShowMail(answer) ==
    /\ pc = "key" /\ call.recipient = None
    /\ LET m == Head(todo).mail
       IN  processed' = IF answer.kind = "key" /\ answer.of = m.sender
                        THEN [processed EXCEPT ![m] = @ + 1] ELSE processed
    /\ ProcessNext(Tail(todo))
    /\ UNCHANGED toGmail

\* fetch_share1_from_keyserver takes every text but the six it knows for Share1
\* (the gates' refusals are one byte longer than those it knows); with anything
\* but a share the reconstruction that follows GET_SHARE fails.
FetchedShare1(answer) ==
    /\ pc = "share1"
    /\ IF answer = Silence THEN EndCall /\ UNCHANGED toGmail
       ELSE /\ call' = [call EXCEPT !.operation = "GET_SHARE",
                                    !.split = IF answer.kind = "share" THEN answer.of ELSE None]
            /\ AskForToken("GET_SHARE")
    /\ UNCHANGED <<todo, timed, toKey, processed>>

\* Mutant of UpdatedShare1: every answer is taken for SHARE1_UPDATED.
UpdatedShare1_any(answer) ==
    /\ pc = "updated"
    /\ call' = [call EXCEPT !.operation = "UPDATE_SHARE2"]
    /\ AskForToken("UPDATE_SHARE2")
    /\ UNCHANGED <<todo, timed, toKey, processed>>

\* update_share1_on_keyserver: only SHARE1_UPDATED lets recovery go on.
UpdatedShare1(answer) ==
    /\ pc = "updated"
    /\ IF answer.kind = "SHARE1_UPDATED"
       THEN /\ call' = [call EXCEPT !.operation = "UPDATE_SHARE2"]
            /\ AskForToken("UPDATE_SHARE2")
       ELSE EndCall /\ UNCHANGED toGmail
    /\ UNCHANGED <<todo, timed, toKey, processed>>

OnKeyAnswer(answer) ==
    \/ SendWithKey(answer)
    \/ ShowMail(answer)
    \/ FetchedShare1(answer)
    \/ UpdatedShare1(answer)

\* The reads of 255 bytes that an answer takes: all answers but keys, shares and
\* what is left of them fit one.
ReadsOf(answer) ==
    CASE answer.kind = "key"   -> KeyReads
      [] answer.kind = "share" -> ShareReads
      [] answer.kind = "rest"  -> answer.of
      [] OTHER                 -> 1

\* What is left of a long answer is no key (the signature does not fit), no share
\* and no SHARE1_UPDATED.
RestOf(answer) == [kind |-> "rest", of |-> ReadsOf(answer) - 1]

\* The answers behind one tls_recv on the Key Server connection.
ReadHead ==
    IF pc = "updated" /\ ReadsOf(Head(fromKey)) > 1
    THEN [fromKey EXCEPT ![1] = RestOf(Head(fromKey))] ELSE Tail(fromKey)

\* tls_recv on the Key Server connection returns an answer, or a part of one.
ReceiveFromKey ==
    /\ pc \in OnKey /\ fromKey # <<>>
    /\ fromKey' = ReadHead
    /\ OnKeyAnswer(Head(fromKey))
    /\ UNCHANGED <<buffer, fromGmail, mailbox, arrived, lateRetrievals, shareVars,
                   atRisk, gaveUp, slipped, faults>>

\* tls_recv on the Gmail connection: the answer to EMAIL_SEND is only printed.
ReceiveStored ==
    /\ pc = "stored" /\ fromGmail # <<>>
    /\ DropItems(RecordAtHead)
    /\ EndCall
    /\ UNCHANGED <<buffer, todo, timed, keyStream, toGmail, mailVars, shareVars,
                   atRisk, gaveUp, slipped, faults>>

Received == buffer \o SubSeq(fromGmail, 1, RecordAtHead)

\* The receive loop: it ends with the record in which the first END marker is,
\* whatever else the server has sent or will send.
ReceiveMails ==
    /\ pc = "mails" /\ fromGmail # <<>>
    /\ DropItems(RecordAtHead)
    /\ IF \E k \in 1..Len(Received) : Received[k].kind = "END"
       THEN ProcessNext(MailsIn(Received)) /\ buffer' = <<>>
       ELSE buffer' = Received /\ UNCHANGED <<pc, call, todo, timed, toKey>>
    /\ UNCHANGED <<fromKey, toGmail, mailVars, shareVars, atRisk, gaveUp, slipped, faults>>

\* request_operation_token: the first line must be OP_TOKEN.
ReadStatus ==
    /\ pc = "status" /\ LineIsThere
    /\ DropItems(LineAtHead)
    /\ IF LineAtHead = 1 /\ Head(fromGmail).kind = "OP_TOKEN"
       THEN pc' = "token" /\ UNCHANGED call
       ELSE EndCall
    /\ UNCHANGED <<buffer, todo, timed, keyStream, toGmail, mailVars, shareVars,
                   atRisk, gaveUp, slipped, faults>>

\* The Recovery Server is asked over a connection of its own, which nothing
\* can be left on; it refuses a token for another operation, and may refuse.
RecoveryServerAgrees(token) == token = call.operation

\* The share request that the token was for.
UseToken(token) ==
    \/ /\ call.operation = "FETCH_SHARE1"
       /\ toKey' = Append(toKey, ShareRequest("4", token, 0))
       /\ pc' = "share1" /\ UNCHANGED <<call, toGmail, shareVars>>
    \/ /\ call.operation = "GET_SHARE"     \* Share1 + Share2, then a new split
       /\ RecoveryServerAgrees(token) /\ call.split = share2 /\ splits < MaxSplits
       /\ splits' = splits + 1
       /\ call' = [call EXCEPT !.operation = "UPDATE_SHARE1", !.split = splits + 1]
       /\ AskForToken("UPDATE_SHARE1") /\ UNCHANGED <<toKey, share1, share2, lateShares>>
    \/ /\ call.operation = "UPDATE_SHARE1"
       /\ toKey' = Append(toKey, ShareRequest("5", token, call.split))
       /\ pc' = "updated" /\ UNCHANGED <<call, toGmail, shareVars>>
    \/ /\ call.operation = "UPDATE_SHARE2" /\ RecoveryServerAgrees(token)
       /\ share2' = call.split
       /\ EndCall /\ UNCHANGED <<toKey, toGmail, share1, splits, lateShares>>
    \/ /\ call.operation \in {"GET_SHARE", "UPDATE_SHARE2"}   \* refused
       /\ EndCall /\ UNCHANGED <<toKey, toGmail, shareVars>>

\* request_operation_token: the second line is the token, whatever it says.
ReadToken ==
    /\ pc = "token" /\ LineIsThere
    /\ DropItems(LineAtHead)
    /\ UseToken(fromGmail[LineAtHead].of)
    /\ UNCHANGED <<buffer, todo, timed, fromKey, mailVars, atRisk, gaveUp, slipped, faults>>

\* Mails that left the mailbox and have not been dealt with.
InFlight == {fromGmail[k].of : k \in {j \in 1..Len(fromGmail) : fromGmail[j].kind = "back"}}
            \cup {buffer[k].of : k \in {j \in 1..Len(buffer) : buffer[j].kind = "back"}}
            \cup {todo[k].mail : k \in 1..Len(todo)}

\* Nothing to read for the call that waits.
NothingToRead(s) ==
    IF s = "key" THEN pc \in OnKey /\ fromKey = <<>>
    ELSE \/ pc \in {"stored", "mails"} /\ fromGmail = <<>>
         \/ pc \in {"status", "token"} /\ ~LineIsThere

\* What keeps the number of mails and of answers given up low.
WithinBound == Cardinality(arrived) + gaveUp["key"] + gaveUp["gmail"] < MaxTogether

\* Five seconds without an answer, on a connection that some earlier call put
\* the timeout on: the call fails, its answer is still to come.
GiveUp(s) ==
    /\ s \in timed /\ NothingToRead(s)
    /\ gaveUp["key"] + gaveUp["gmail"] < MaxGiveUps /\ WithinBound
    /\ gaveUp' = [gaveUp EXCEPT ![s] = @ + 1]
    /\ atRisk' = atRisk \cup InFlight
    /\ \/ s = "key" /\ OnKeyAnswer(Silence) /\ UNCHANGED <<buffer, fromGmail, slipped>>
       \/ /\ s = "gmail" /\ EndCall
          /\ buffer' = <<>> /\ fromGmail' = <<>> /\ slipped' = TRUE
          /\ UNCHANGED <<todo, timed, toKey, toGmail, processed>>
    /\ UNCHANGED <<fromKey, mailbox, arrived, lateRetrievals, shareVars, faults>>

\* What the client sent and the servers have not yet taken up: the shares to be
\* replaced by requests that the gates may let through, and the retrievals.
PendingUpdates ==
    {toKey[k].split : k \in {j \in 1..Len(toKey) :
        toKey[j].command = "5" /\ toKey[j].token = "UPDATE_SHARE1"}}
PendingRetrievals == {k \in 1..Len(toGmail) : toGmail[k].command = "4"}

\* The client exits or dies, and is started again with new connections.  The
\* threads of the old ones still read what was sent.
Restart ==
    /\ pc' = "menu" /\ call' = NoCall /\ buffer' = <<>> /\ todo' = <<>> /\ timed' = {}
    /\ toKey' = <<>> /\ fromKey' = <<>> /\ toGmail' = <<>> /\ fromGmail' = <<>>
    /\ atRisk' = atRisk \cup InFlight
    /\ gaveUp' = [s \in Services |-> 0] /\ slipped' = FALSE
    /\ lateUpdates' = lateUpdates \cup PendingUpdates
    /\ lateRetrievals' = lateRetrievals + Cardinality(PendingRetrievals)
    /\ lateRetrievals' <= MaxLate
    /\ UNCHANGED <<mailbox, arrived, processed, share1, share2, splits, overtaken, faults>>

-----------------------------------------------------------------------------
(* The servers' threads for this client, and the other users *)

\* Mutant of fetchClientKey: the request is dropped when the name is unknown.
fetchClientKey_silent(r) ==
    /\ r.command = "2"
    /\ fromKey' = IF r.name \in Registered
                  THEN Append(fromKey, [kind |-> "key", of |-> r.name]) ELSE fromKey
    /\ UNCHANGED <<share1, overtaken>>

\* fetchClientKey: the key with the Key Server's signature, or CLIENT_NOT_FOUND.
fetchClientKey(r) ==
    /\ r.command = "2"
    /\ fromKey' = Append(fromKey, IF r.name \in Registered
                                  THEN [kind |-> "key", of |-> r.name]
                                  ELSE [kind |-> "CLIENT_NOT_FOUND", of |-> None])
    /\ UNCHANGED <<share1, overtaken>>

\* fetchShare1, when the gates let the token through.
fetchShare1(r) ==
    /\ r.command = "4" /\ r.token = "FETCH_SHARE1"
    /\ fromKey' = Append(fromKey, [kind |-> "share", of |-> share1])
    /\ UNCHANGED <<share1, overtaken>>

\* updateShare1, the same.
updateShare1(r) ==
    /\ r.command = "5" /\ r.token = "UPDATE_SHARE1"
    /\ share1' = r.split /\ overtaken' = FALSE
    /\ fromKey' = Append(fromKey, [kind |-> "SHARE1_UPDATED", of |-> None])

\* The gates refuse: no session, or a token for something else, used or expired.
RefuseShareRequest(r) ==
    /\ r.command \in {"4", "5"}
    /\ fromKey' = Append(fromKey, [kind |-> "refusal", of |-> None])
    /\ UNCHANGED <<share1, overtaken>>

KeyServer ==
    /\ toKey # <<>>
    /\ toKey' = Tail(toKey)
    /\ \/ fetchClientKey(Head(toKey))
       \/ fetchShare1(Head(toKey))
       \/ updateShare1(Head(toKey))
       \/ RefuseShareRequest(Head(toKey))
    /\ UNCHANGED <<pc, call, buffer, todo, timed, gmailStream, mailVars, share2, splits,
                   lateUpdates, atRisk, gaveUp, slipped, faults>>

\* updateShare1 on the connection of an ended client.  The gates refuse it when its
\* session is over by then; nobody reads the answer.
LateUpdate(split) ==
    /\ split \in lateUpdates /\ lateUpdates' = lateUpdates \ {split}
    /\ \/ share1' = split /\ overtaken' = TRUE
       \/ UNCHANGED <<share1, overtaken>>
    /\ UNCHANGED <<pc, call, buffer, todo, timed, keyStream, gmailStream, mailVars,
                   share2, splits, atRisk, gaveUp, slipped, faults>>

\* Mutant of RequestOpToken: a refusal is not answered.
RequestOpToken_silent(r) ==
    /\ r.command = "REQUEST_OP_TOKEN"
    /\ \/ /\ fromGmail' = fromGmail \o <<Item("OP_TOKEN", None, FALSE), Item("token", r.of, TRUE)>>
          /\ UNCHANGED <<slipped, faults>>
       \/ /\ faults < MaxFaults /\ faults' = faults + 1
          /\ UNCHANGED <<fromGmail, slipped>>
    /\ UNCHANGED <<mailbox, atRisk>>

\* REQUEST_OP_TOKEN.  When no token can be made the error line is followed
\* by a NUL, in the same record (tls_send of 34 bytes).
RequestOpToken(r) ==
    /\ r.command = "REQUEST_OP_TOKEN"
    /\ \/ /\ fromGmail' = fromGmail \o <<Item("OP_TOKEN", None, FALSE), Item("token", r.of, TRUE)>>
          /\ UNCHANGED <<slipped, faults>>
       \/ /\ faults < MaxFaults /\ faults' = faults + 1 /\ slipped' = TRUE
          /\ fromGmail' = fromGmail \o <<Item("ERROR", None, FALSE), Item("NUL", None, TRUE)>>
    /\ UNCHANGED <<mailbox, atRisk>>

\* EMAIL_SEND: the packet goes to the recipient's mailbox, which nobody reads here.
EmailSend(r) ==
    /\ r.command = "EMAIL_SEND"
    /\ fromGmail' = Append(fromGmail, Item("OK:EMAIL_STORED", None, TRUE))
    /\ UNCHANGED <<mailbox, atRisk, slipped, faults>>

\* A mailbox as it is sent: chunks of BUFFER_SIZE, one record each, that end
\* behind the items in cuts, and behind the last one.
Chunked(mails, cuts) ==
    [k \in 1..(3 * Len(mails)) |->
        LET m == mails[(k + 2) \div 3]
        IN  CASE k % 3 = 1 -> Item("front", m, k \in cuts)
              [] k % 3 = 2 -> Item("back", m, k \in cuts)
              [] k % 3 = 0 -> Item("END", None, k \in cuts \cup {3 * Len(mails)})]

\* Mutant of ClearMailbox: the file keeps its content.
ClearMailbox_never == UNCHANGED <<mailbox, faults>>

\* retrieveEmails truncates the file it has read; when it cannot, the mails are
\* returned all the same.
ClearMailbox ==
    \/ mailbox' = <<>> /\ UNCHANGED faults
    \/ faults < MaxFaults /\ faults' = faults + 1 /\ UNCHANGED mailbox

\* "4": retrieveEmails and the loop that sends its result.
RetrieveEmails(r) ==
    /\ r.command = "4"
    /\ IF mailbox = <<>>
       THEN /\ fromGmail' = fromGmail \o <<Item("No emails found", None, FALSE), Item("END", None, TRUE)>>
            /\ UNCHANGED <<mailbox, atRisk, slipped, faults>>
       ELSE \E cuts \in SUBSET (1..(3 * Len(mailbox) - 1)) :
              /\ Cardinality(cuts) <= MaxCuts
              /\ fromGmail' = fromGmail \o Chunked(mailbox, cuts)
              /\ slipped' = (slipped \/ cuts # {})
              /\ atRisk' = IF slipped' \/ gaveUp["key"] > 0
                           THEN atRisk \cup {mailbox[k] : k \in 1..Len(mailbox)} ELSE atRisk
              /\ ClearMailbox

GmailServer ==
    /\ toGmail # <<>>
    /\ toGmail' = Tail(toGmail)
    /\ \/ RequestOpToken(Head(toGmail))
       \/ EmailSend(Head(toGmail))
       \/ RetrieveEmails(Head(toGmail))
    /\ UNCHANGED <<pc, call, buffer, todo, timed, keyStream, arrived, processed,
                   lateRetrievals, shareVars, gaveUp>>

\* "4" on the connection of an ended client: retrieveEmails hands the mails to nobody.
LateRetrieve ==
    /\ lateRetrievals > 0 /\ lateRetrievals' = lateRetrievals - 1
    /\ IF mailbox = <<>> THEN UNCHANGED <<mailbox, faults>> ELSE ClearMailbox
    /\ atRisk' = IF mailbox' = <<>> THEN atRisk \cup {mailbox[k] : k \in 1..Len(mailbox)}
                 ELSE atRisk
    /\ UNCHANGED <<pc, call, buffer, todo, timed, keyStream, gmailStream, arrived, processed,
                   shareVars, gaveUp, slipped>>

\* Another user's EMAIL_SEND for this client: storeEmail appends it.
storeEmail(m) ==
    /\ m \notin arrived /\ m.id = Cardinality(arrived) + 1 /\ m.id <= MaxMails /\ WithinBound
    /\ mailbox' = Append(mailbox, m)
    /\ arrived' = arrived \cup {m}
    /\ UNCHANGED <<pc, call, buffer, todo, timed, keyStream, gmailStream, processed,
                   lateRetrievals, shareVars, atRisk, gaveUp, slipped, faults>>

-----------------------------------------------------------------------------

Menu == (\E r \in Names : send_email(r)) \/ receive_emails \/ recover_account_flow

Receive == ReceiveFromKey \/ ReceiveStored \/ ReceiveMails \/ ReadStatus \/ ReadToken

Next ==
    \/ Menu \/ Receive \/ KeyServer \/ GmailServer
    \/ \E s \in Services : GiveUp(s)
    \/ Restart
    \/ (\E split \in Splits : LateUpdate(split)) \/ LateRetrieve
    \/ \E m \in Mails : storeEmail(m)

Spec == Init /\ [][Next]_vars

\* The servers' threads answer what they are asked, and a receive with something
\* to read returns.
FairSpec == Spec /\ WF_vars(KeyServer) /\ WF_vars(GmailServer) /\ WF_vars(Receive)

-----------------------------------------------------------------------------
(* Properties *)

GmailItems ==
    [kind : {"front", "back"}, of : Mails, last : BOOLEAN]
    \cup [kind : {"token"}, of : Operations, last : BOOLEAN]
    \cup [kind : {"END", "No emails found", "OP_TOKEN", "ERROR", "NUL", "OK:EMAIL_STORED"},
          of : {None}, last : BOOLEAN]
GmailRequests ==
    [command : {"REQUEST_OP_TOKEN", "EMAIL_SEND", "4"},
     of : Operations \cup Names \cup {None}, key : Registered \cup {None}]
KeyRequests ==
    [command : {"2"}, name : Names \cup {None}, token : {None}, split : {0}]
    \cup [command : {"4", "5"}, name : {None}, token : Operations, split : Splits]
KeyAnswers ==
    [kind : {"key"}, of : Registered] \cup [kind : {"share"}, of : Splits]
    \cup [kind : {"rest"}, of : Nat \ {0}]
    \cup [kind : {"CLIENT_NOT_FOUND", "SHARE1_UPDATED", "refusal"}, of : {None}]

\* Every variable holds what its place in the code says; what the client waits
\* for goes with the local variables of the function that waits.
TypeOK ==
    /\ pc \in {"menu"} \cup OnKey \cup OnGmail
    /\ call \in [recipient : Names \cup {None}, operation : Operations \cup {None},
                 split : Splits \cup {None}]
    /\ pc \in {"status", "token", "share1", "updated"} => call.operation \in Operations
    /\ pc = "share1" => call.operation = "FETCH_SHARE1"
    /\ pc = "updated" => call.operation = "UPDATE_SHARE1"
    /\ pc = "key" => (call.recipient = None) <=> (todo # <<>>)
    /\ buffer \in Seq(GmailItems)
    /\ todo \in Seq([mail : Mails, name : Registered \cup {None}])
    /\ timed \subseteq Services
    /\ toKey \in Seq(KeyRequests) /\ fromKey \in Seq(KeyAnswers)
    /\ toGmail \in Seq(GmailRequests) /\ fromGmail \in Seq(GmailItems)
    /\ mailbox \in Seq(Mails) /\ arrived \subseteq Mails /\ atRisk \subseteq Mails
    /\ processed \in [Mails -> Nat]
    /\ share1 \in Splits /\ share2 \in Splits /\ splits \in Splits
    /\ lateUpdates \subseteq Splits /\ overtaken \in BOOLEAN /\ lateRetrievals \in 0..MaxLate
    /\ gaveUp \in [Services -> 0..MaxGiveUps]
    /\ slipped \in BOOLEAN /\ faults \in 0..MaxFaults

\* What is unread or unanswered on the Key Server connection beyond the call that
\* waits.
Unread == Len(toKey) + Len(fromKey)
Awaited == IF pc \in OnKey THEN 1 ELSE 0

\* No request and no answer on the Key Server connection is ever lost or made up.
\* While every call waited for its answer nothing is left over.  For every call
\* that stopped waiting one answer is, for as long as the client runs, and one more
\* for an update that read only a part of such an answer; a recovery updates at
\* most once.
KeyLag ==
    /\ gaveUp["key"] = 0 => Unread = Awaited
    /\ gaveUp["key"] + Awaited <= Unread
    /\ Unread <= gaveUp["key"] + Awaited + splits

\* Until an answer of the Key Server was not waited for, a mail on its way is
\* encrypted with its recipient's key, whatever was called before.
OwnKeyUntilGiveUp ==
    gaveUp["key"] = 0 =>
        \A k \in 1..Len(toGmail) :
            toGmail[k].command = "EMAIL_SEND" => toGmail[k].key = toGmail[k].of

\* The Gmail connection is in step, unless a chunk boundary, a give-up or a
\* refused op token moved it: a token is then sent with the request it is for.
TokensFitUntilSlip ==
    ~slipped => \A k \in 1..Len(toKey) :
        /\ toKey[k].command = "4" => toKey[k].token = "FETCH_SHARE1"
        /\ toKey[k].command = "5" => toKey[k].token = "UPDATE_SHARE1"

\* When recovery goes on to replace Share2, Share1 has been replaced by the share
\* of the same split, unless the late request of an ended client came behind it.  It
\* takes two answers left over to make an earlier SHARE1_UPDATED count for this
\* call: with one, the update reads the answer to its own recovery's fetch.
ConfirmedUpdateHappened ==
    call.operation = "UPDATE_SHARE2" /\ Unread < 2 => share1 = call.split \/ overtaken

\* A mail is shown at most once more than the mailbox could not be cleared.
NoMailTwice == \A m \in Mails : processed[m] <= 1 + faults

\* Every mail of a registered sender is in the mailbox, on its way, or was
\* shown, except those that were in an answer that was cut into chunks, cut off by
\* a restart or a timeout, or read out of step, or that was fetched for an ended
\* client.
NothingLost ==
    \A m \in arrived :
        \/ \E k \in 1..Len(mailbox) : mailbox[k] = m
        \/ m \in InFlight
        \/ processed[m] > 0
        \/ m \in atRisk

\* Every call returns to the menu, also those whose connection has slipped and
\* that wait without a timeout.
CallsReturn == (pc # "menu") ~> (pc = "menu")

\* client.cpp:1171, "Receive all email data": when receive_emails is over and
\* its answer came in time, no mail of it is left unread on the connection.
AllMailReceived == pc = "menu" /\ gaveUp["gmail"] = 0 => InFlight = {}

=============================================================================
