# Secure email: a TLA+ model of its key shares, tokens, accounts, keys and mail

The program is an encrypted email system of four processes. A **client** keeps
an RSA key pair; mail is encrypted to the recipient's public key and signed. The
private key is split into three Shamir shares, any two of which give it back:
Share1 is kept by the **Key Server**, Share2 by the **Recovery Server**, Share3
in an encrypted file on the device. The **Gmail Server** authenticates users and
hands out two kinds of signed tokens: a session token per login, and a one-time
operation token per request that touches a share. Both share servers ask the
Gmail Server's verify port about both tokens before they act.

The model follows the code in `src/`; every definition is tied to its lines in
`PROJECT.json` (`map`).

## 1. Inventory

| Component | State | Operations | Talks to |
|---|---|---|---|
| Gmail Server, sessions and tokens (`gmailserver.cpp`) | `activeSessions` (user -> token, connected) under `session_mutex`; `activeOpTokens` (nonce -> operation, target, expiry, used) under `op_token_mutex`; signing keys on disk | login/signup, end of a connection, `REQUEST_OP_TOKEN`, `VERIFY`, `VERIFY_OP`, restart | clients; both share servers (verify port) |
| Gmail Server, accounts | `userDatabase`, `users.txt` under `file_mutex` | `loadUserDatabase` (on every connection), `registerUser`, `authenticateUser` | clients |
| Gmail Server, mailboxes | a file per user under `file_mutex` | `storeEmail`, `retrieveEmails` (reads, then truncates), `EMAIL_SEND` framing by `END` | clients |
| Key Server, shares (`keyserver.cpp`) | `clientShare1`, `share1_store.txt` under `file_mutex` | store, fetch, update Share1 | clients; verify port |
| Key Server, public keys | `clientPublicKeys`, `clientSignatures`, `key_store.txt` under the same mutex | register, fetch, load at start | clients; verify port |
| Recovery Server (`recovery_server.cpp`) | `shareStore`, `recovery_store.txt` under `file_mutex` | store, get, update Share2 | clients; verify port |
| Client (`client.cpp`) | key file, Share3 file, key in memory, two standing connections | signup, login (Share1 + Share3), account recovery (Share1 + Share2, then a new split), mail | all three servers |
| Shamir (`shamir.cpp`) | none | `split_private_key`, `reconstruct_private_key` over GF(256) | client |
| Transport (`tls_common.cpp`) | sockets | connect, accept, send, receive, receive timeout | all |

Every server runs one detached thread per connection. Nothing but the mutexes
orders the threads. Files are appended to; processes may die at any point
(a write to a closed connection is enough, as no process ignores SIGPIPE) and
are started again by hand.

What is hard here, and which component it makes hard:

* **Two-step checks.** A share handler asks `VERIFY`, then `VERIFY_OP`, then
  takes its lock; the session and the share may change in between, and an answer
  may be lost after the token was consumed (share servers).
* **A session entry keyed by user name** that several connections of the user
  write and end (Gmail Server).
* **A rotation over three places** with no transaction: Share1, Share2, Share3
  are replaced one after the other, and each replacement may fail, or happen
  although it was reported as failed, or happen late (client and share servers).
* **Several devices of one account**, whose logins end each other's sessions.
* **Signup in steps** that later runs do not complete.
* **Half-written files** after a crash; memory and file that disagree.
* **Byte streams**: requests and answers without numbers, error texts, chunks,
  timeouts and late answers on a standing connection (client).
* **A map without a mutex** that every connection's thread loads, reads and
  writes (Gmail Server's accounts).
* **Arithmetic by tables** over GF(256), with zero operands (Shamir).

What makes each component correct:

* Gmail tokens: an accepted session belongs to a connection that is served; what
  has ended stays ended; an operation token is good once.
* Share servers: a share is touched only on the strength of a token that was
  issued for that user, operation and server, once; STORE never replaces, UPDATE
  does, nothing removes a share.
* Client: the account's secret survives (two shares agree), recovery gives back
  the registered key, and ends with three shares in agreement.
* Accounts: a name is given to one user; an account on file can log in; loading
  the file again gives nobody another password.
* Mailboxes and mail: a stored mail is delivered once or still stored; a mail is
  encrypted with its recipient's key; an answer is taken for its own request.
* Key store: after a crash a server serves what it promised to keep; everybody
  gets the same key of a client.
* Shamir: any two shares of a split give the secret, one tells nothing, shares of
  two splits do not fit.

The sections below say under which conditions each of these is true of the code.

## 2. Modules

| Module | What it is |
|---|---|
| `GmailServer` | sessions and operation tokens: the client threads, the verify port, time, restarts |
| `ShareAuthority` | abstract: grants and the shares they pay for, with no sessions, threads, clocks or calls |
| `ShareAccess` | extends `GmailServer` by both share servers' handlers; refines `ShareAuthority` |
| `ShareRotation` | the client's signup, login and recovery on the devices of one account |
| `ClientStream` | the menu of one client over its two standing connections: mail out, mail in, recovery; the mailbox |
| `KeyStore` | the maps of both share servers, the files behind them, torn writes, crashes, loading |
| `Accounts` | the Gmail Server's account map and `users.txt`, with a thread per connection |
| `Shamir` | GF(256) by tables, splitting and reconstructing a key |
| `GmailServerProofs`, `ShareAccessProofs`, `KeyStoreProofs`, `AccountsProofs`, `ShareRotationProofs`, `ShamirProofs` | theorems and proofs |
| `ClientStreamProofs`, `ClientStreamSafetyProofs` | theorems and proofs about `ClientStream`: the counts, the types and the loop; what rests on both |
| `MC...` | small instances for TLC |

How they fit together: `ShareAccess` extends `GmailServer`, so that its handlers
ask the very tokens and sessions of that module. `ShareRotation` and
`ClientStream` take a share call as `ShareAccess` shows it to be, and a split as
`Shamir` shows it to be (two shares of one split fit, two of different ones do
not). `KeyStore` opens up the locked section that is one step in `ShareAccess`.

Operators whose comment calls them a mutant of another one are what a plausible
bug would make of it. No specification uses them: they show that a property can
fail (`mutants` in `PROJECT.json`).

### GmailServer

`conn[c]` is the local state of a `handleClient` thread. `phase` says where it
is: before authentication, between drawing the session token and entering it
into the map (`startSession` draws outside `session_mutex`), or serving commands.
The thread's `username` is overwritten by failed logins too, as in the code, and
`EndConnection` calls `endSession` on whatever it holds.

A token is its nonce; `sessionTokens` and `opTokens` keep what was signed. The
signing keys are on disk, so both survive `GmailRestart`, which empties the two
maps. `consume` is the locked section of `verifyAndConsumeOperationToken`:
verdict and mark in one step. `generateOperationToken` is one step although the
nonce is drawn before the lock: nobody knows the nonce until the entry is made.

### ShareAccess and ShareAuthority

`thr[th]` is a `handleClient` thread of one of the share servers. It is idle,
waiting for the answer to `VERIFY_OP`, or granted (the answer was VALID, or is
on its way and will be read). A request goes through

    verifyWithGmailServer -> verifyOperationToken -> storeShare1 | fetchShare1 | ...

with every other thread, the Gmail Server, time and restarts in between. `giveUp`
is the 3 s timeout or an unreachable Gmail Server: the thread goes idle, and its
request may still be processed (`abandoned`). Requests quote any token ever
issued to anybody, and may be repeated. `performed` counts the operations each
token has paid for; no guard reads it.

`ShareAuthority` knows grants (user, operation, target) that are issued, lapse,
or pay for one operation, and what the operation may do to the share. Under the
refinement mapping a grant is live while the Gmail Server would accept it, or
while a thread granted on it has not acted. `ImplementsShareAuthority` says that
every behaviour of the servers is one of `ShareAuthority`.

### ShareRotation

One account, its shares at the two servers, and `dev[d]`, the client on each
device. Two shares give the key back when they stem from one split and are
garbage otherwise (the code's own comment in `recover_account_flow`), so a split
is a record [key, id]; it stands for each of its shares, and where it is kept says
which one it is. Names of keys and splits no longer in use are recycled, which
keeps the state space finite without bounding how often a user recovers.

A share call is what `ShareAccess` makes of it, seen from the client: `Pass` (the
gates let it through), then `Answer` (the server acts and the answer arrives).
`Refuse`, `StorageError`, `LoseConnection` are its failures: after a `StorageError`
a share is not replaced, but a key may be registered all the same, as the Key Server
sets its maps before it opens the file. A request that has
passed when its caller goes away is kept in `orphans` and carried out later, or
after the next calls. `Refuse` may hand a *text* to a fetch: the Key Server and the
Recovery Server send the refusals of the two gates with 29 bytes, NUL included,
which the client compares with 28-character strings.

`Start` to `Exit` are `main`: connect and log in (which replaces the account's
session), load or generate the key, split and upload, log in with Share1 + Share3,
the menu, recovery. A file that cannot be written stays what it was, or, when it was
opened, is left truncated (`FailedWrite`): a `Torn` key file or no Share3, while the
client runs on; the split that a signup uploads may fail too (`SplitKey`). `Crash` may
leave such files as well; `LoseDevice` replaces a device by an empty one. `SessionLost` is the 120 s
lifetime, the end of any other connection of the account, or a restart.

### ClientStream

Requests and answers on the two standing connections carry no number: the client
takes the next thing it reads for the answer to the last thing it sent. The
Gmail stream is a sequence of items, each marked where it ends a line
(`tls_read_line` reads up to there) and where it ends a TLS record (`tls_recv`
returns one record, or what a line read has left of it). An answer of the Key
Server is one item. `update_share1_on_keyserver` reads 255 bytes, which its own
answers fit in; a key or a Share1 that an earlier call did not wait for does not:
it is read in part, and its rest stays as the next answer (`ReadHead`; `KeyReads` and
`ShareReads` are the reads that a key and a share take). All other calls read more
than any answer of the Key Server has.

`pc` is the receive that the client's thread waits in: for a key, for Share1,
for the update's answer (Key Server); for a mail to be stored, for mails, for the
token request's status line and then the token (Gmail Server). `send_email`
asks for the recipient's key and sends the mail encrypted with *whatever key the
answer held*; `receive_emails` reads records until the text has an END marker,
cuts it into mails and asks for each sender's key; recovery is the two token
requests, Share1 (Share2 comes over a connection of its own, so it is one step),
and the rotation. `tls_set_recv_timeout` puts a connection into `timed`, for
good, as in the code: a receive on it may give up when there is nothing to read,
and the answer that comes later stays in the stream. The server's side are
`KeyServer` and `GmailServer`, which answer the oldest request; the Gmail Server's
answer to a retrieval may be cut into chunks, before a packet's end ("front" and
"back") or between packets, and the mailbox may fail to be emptied.

`Restart` ends the client and starts it again with new connections. The servers'
threads for the old ones go on with what it had sent: an UPDATE_SHARE1 that is still
carried out or refused (`LateUpdate`; `overtaken` remembers that Share1 is what such a
request put there), and a "4" that empties the mailbox for nobody (`LateRetrieve`).

`KeyLag`, `TokensFitUntilSlip`, `OwnKeyUntilGiveUp` say what stays right for how
long: one answer of the Key Server that was not waited for shifts all later ones,
and each recovery whose update reads a part of such an answer shifts them by one more.
A mail is then encrypted with another user's key, which README.md:104 of the program
rules out. `atRisk` and `slipped` are histories: the mails of an answer that was cut,
cut off, read out of step or fetched for an ended client, and whether the Gmail stream
may hold lines that nobody waits for.

### KeyStore

A handler in the locked section is a record in `holder`, taken when it gets
`file_mutex`, dropped when it leaves, with the steps in the order of
the code: `registerClientKey` sets the maps, then opens the file; the share
handlers open the file, write, and set the map. In between the server may crash.
`file[s][c]` is what loading would give for a client: a file is only appended to
and the last line of a client counts. A short write (full disk, power cut) leaves
a line without its newline (`tail`): the next line is glued to it. A line torn
inside the value or glued is read back as `Garbled`; one torn inside the
name is a `JunkName`. Loading follows `loadExistingKeys`, with its return before
the Share1s are read when `key_store.txt` does not exist (`blind`).

### Accounts

`thr[t]` is a `handleClient` thread: it loads `users.txt` line by line into
`userDatabase`, then logs in or signs up. The map has no mutex, so putting a *new* name into
it, which restructures it, takes two steps; a use of the map in between may miss
names, and one of two puts may be lost. `raced` remembers that this happened, as
what the process does then is undefined: the properties promise nothing after it.
`registerUser` looks the name up, hashes (slowly), puts the name into the map
without looking again, and appends the line under `file_mutex`; the answer is
AUTH_SUCCESS also when the file could not be opened. A line is cut at its first
space when it is read back, wherever the name ends: `Entry` says under which name the
line of a name is loaded. A name with a space is usually skipped (`None`), as what follows
its first word is no hash; but the line of `bob $argon2id$x` is taken for one of
bob's, with a hash that fits no password (`Garbled`). A name that such a line is loaded
over is `Shadowed`.

### Shamir

The code's tables and arithmetic on bytes. A split is drawn byte by byte, the
coefficient being any byte; a finished split may be put together and split again,
as recovery does. The field's definition (`Times`: shift and reduce, bit by bit)
is the reference; it uses none of the tables. The exclusive or `^^` is written out as a
sum over the nine bits of a doubled byte, because nothing can be proved of the recursive
one in `Bitwise`.

## 3. Runs

| Run | Instance | Shows |
|---|---|---|
| `gmail_tokens` | 2 users, 2 connections, 2 session nonces, 1 operation nonce, 2 scopes, lifetimes 2 and 1, clock to 3 | types; `ConnectedSessionHasItsConnection`, `NoSessionRevival`, `OpTokenNeverRevived` |
| `share_races` | 1 user, 1 operation token, 2 Key Server threads, 4 scopes | types; `AtMostOnce`; `GrantMatchesToken`; refinement |
| `share_rewrites` | 1 user, 2 operation tokens, 1 Recovery Server thread, 2 shares | refinement, through a second store or update |
| `rotation_one_fault` | 1 device, any one fault, with fairness | types; `SecretNeverLost`, `RecoveryRestoresRegisteredKey`, `RecoveryConverges` |
| `rotation_two_devices` | 2 devices, no fault | `SecretNeverLost` under overlapping clients |
| `client_stream` | 2 recipients, one of them registered; 2 mails, 2 give-ups, or one of each; 1 chunk cut, 1 fault, 1 new split, 1 late retrieval, with fairness | types; `KeyLag`, `OwnKeyUntilGiveUp`, `TokensFitUntilSlip`, `ConfirmedUpdateHappened`, `NoMailTwice`, `NothingLost`, `CallsReturn` |
| `key_store` | 3 clients, 2 values, 7 kinds of request over 3 files, 1 torn write, any number of crashes | types; `ServesWhatItPromised`, `DamageIsBounded`, `OneKeyFetched` |
| `accounts` | 2 threads, 3 names: a plain one, one whose line is loaded over the first one's entry, one whose line is skipped; 2 passwords, 2 lines, any number of restarts | types; `OneAccountPerName`, `ReloadChangesNothing`, `SavedNamesAreKnown` |
| `shamir` | every key of one byte with every coefficient; 9 keys of two bytes; split again with 2 coefficients | the field, division, `AnyTwoSharesReconstruct`, `RecoveryKeepsKey`, `OneShareSaysNothing`, `OldSharesDoNotFit` |

Bounds. Two connections of one user and a second user are what it takes for one
to end the other's session; lifetimes of 2 and 1 in a clock of 3 make each token
valid, at its last second, and expired, and let a session outlive an operation
token. A token can be misused by the same thread again, by a second thread, at
the wrong server, for the wrong operation: 2 threads and 4 scopes. Overwriting
needs two tokens and two shares; `share_rewrites` stops the clock (the other run
has it). Session and operation nonces are used once each, as the code's 256-bit
nonces are. For the rotation, one fault with arbitrarily many recoveries on one
device, and two devices with arbitrarily many recoveries, logins and exits each;
`MCKeys` and `MCSplitIds` are as many names as `NamesAssumption` asks for two
devices, so that a fresh one always exists. Symmetry is used only where the properties are
invariants or action properties or the refinement's safety part.

`client_stream`: two mails are one answer with an END marker in its middle, and
one more mail for the next retrieval; one cut can fall at each place of
an answer; one give-up is enough to shift all later answers, and calls
are unbounded after it. Mails and give-ups share a bound (`MaxTogether` = 2), as a graph
with more of them is too large for liveness; the theorems of section 4 have all numbers
of both. A late share is left when a recovery's fetch is given up before it splits, and the
next recovery's update reads a part of an answer; an earlier SHARE1_UPDATED that counts
for the present one takes two recoveries that split, which only the theorem of
`ConfirmedUpdateHappened` covers. A signed key is about 800 bytes and a Share1
about 1700: 4 and 7 reads of 255 bytes. A call starts only when at most `MaxUnread` items are
left in the Gmail streams: 3 is a whole mail with its END marker, so that the next calls also
run behind a mail that the last retrieval left unread.

`key_store`: a torn line damages its own client and the next one in the
file, and must leave the third client alone. `accounts`: two threads race; two
lines are a first and a second account, or a double one.
`shamir`: a byte is split independently of the others, so one-byte keys show the
arithmetic and two-byte keys that bytes keep their places; the theorems of section 4
have keys of any length.

With *two* faults `SecretNeverLost` and `RecoveryRestoresRegisteredKey` cannot
be promised: a client that dies between the two updates and a lost device leave
no two shares that agree, and a key file lost twice in signup leaves shares of a key that
is not the registered one. That is the design's limit rather than a bug.

Fairness. `rotation_one_fault`: the machines keep running (weak fairness
of each client's own next step and of the servers' pending requests), the user
keeps starting the client (weak), and, whenever the menu comes up again and
again, eventually chooses recovery and eventually leaves to log in again (strong,
as the menu is left and re-entered). The code has no timeout in these calls
that would justify more. `client_stream`: weak fairness of the two servers'
threads, which answer what they have received, and of a receive that has something
to read. Nothing is assumed of the user, of other people's mail, of timeouts or
of faults; `CallsReturn` holds because every request is answered, even where an
answer is taken for another. Faults are never fair.

Runs that fail on purpose. Each checks one sentence of the repository against
what the code does (`findings`):

| Run | Sentence | What happens |
|---|---|---|
| `login_overlap` | `gmailserver.cpp:58` "currently connected?" | the end of an older connection, or of one whose login failed, marks the live session disconnected; every share request of that client is refused from then on |
| `claim_recover_again` | `client.cpp:1517` "Run account recovery again immediately" | after a half rotation recovery combines the two shares that no longer match; it fails forever |
| `claim_all_mail` | `client.cpp:1171` "Receive all email data" | the loop ends with the first END marker; mails behind it, already gone from the mailbox, stay unread and are taken for the next answer |

Met on the way and not given runs:

* "All three shares rotated and now agree" is printed when Share3 could not be
  saved (`client.cpp:1537`); "Shares NOT rotated" when Share1 *was* replaced and
  only the answer was lost (`client.cpp:1502`).
* "this client_id should already be registered" (`client.cpp:1608`) is not so
  after an interrupted first run, and no later run registers. A new device goes to
  the menu with a key that is not the account's (`client.cpp:1604`). After a
  crash in `save_private_key` the client exits before the menu that offers
  recovery (`client.cpp:1594`).
* Refusals sent with their NUL are 29 bytes and are compared with 28-character
  strings (`client.cpp:792`, `keyserver.cpp:730` and `738`): the text is kept as Share1.
* A late answer of the Key Server shifts all later ones: a mail is encrypted with
  the key of the recipient asked for before. A rotation that meets one which is longer than
  the 255 bytes it reads (`client.cpp:485`) adds to the lag: after two recoveries an
  earlier SHARE1_UPDATED can be taken for the present one's.
* A client that is gone still replaces Share1, or empties the mailbox, when its last
  request is reached late (`keyserver.cpp:820`, `gmailserver.cpp:704`).
* `loadExistingKeys` returns before it reads the Share1s when there is no
  `key_store.txt` (`keyserver.cpp:893`), in spite of `updateShare1`'s comment that
  the state on disk converges to the map's (`833`).
* Two signups of one name that overlap are both accepted; an account whose name
  has a space is gone after a restart; so is one whose line could not be written.
* The line of a user named `bob $argon2id$x` is loaded as bob's (`gmailserver.cpp:551`):
  from the next connection on bob's password does not fit.
* A registration that ends in STORAGE_ERROR leaves its key in the map
  (`keyserver.cpp:537`): it is handed out until the restart, another one after it.
* Lines are appended unchecked: a torn one spoils the next client's as well.

## 4. Proofs

The `...Proofs` modules are checked by TLAPS; their theorems hold for any sets of
users, connections, threads, nonces, shares, names and keys (finite or not, but for
`Clients` and the sets of `ShareRotation`), and any lifetimes, bounds and numbers of
faults, unless the theorem names its own.

Assumptions on the constants: scopes are pairs of a known operation and target
(`ScopesAssumption`, checked by `REQUEST_OP_TOKEN`); lifetimes and bounds are naturals
(`TimeAssumption`, `BoundsAssumption`, `BoundAssumption`, `LinesAssumption`);
`None` and the other markers are none of the values they stand in for
(`NoneAssumption`, `NoneIsNoPayload`, `SharesAssumption`, `MarkersAssumption`,
`NoHolderAssumption`, `GarbledAssumption`); a thread belongs to one server (`ThreadsAssumption`);
requests name stores, clients and values that exist (`RequestsAssumption`); there
are finitely many clients (`ClientsAssumption`, for the counting in
`DamageIsBounded`); who writes to us is a user (`RegisteredAssumption`); an answer
takes at least one read (`ReadsAssumption`); a line is loaded under its own name, a name
that is loaded under itself, or not at all (`EntryAssumption`); private keys are texts of at least one byte and
coefficients are bytes (`PemsAssumption`, `DrawsAssumption`); keys and
splits are told apart by numbers (`NumbersAssumption`), of which there are more than
the servers, the devices and the late requests, one for each fault, can hold
(`NamesAssumption`): the code draws its keys and coefficients at random and never
runs out of them.

| Theorem | Property | Rests on |
|---|---|---|
| `GmailTypeCorrect` | `GmailTypeOK` | inductive by itself |
| `SessionsHaveConnections` | `ConnectedSessionHasItsConnection` | inductive with the types: entries are made for a serving connection and ended with it |
| `SessionsDoNotRevive` | `NoSessionRevival` | the types; a case per critical section |
| `OpTokensDoNotRevive` | `OpTokenNeverRevived` | the types; the mark is never cleared and a nonce is drawn once |
| `ShareAccessProofs!TypeCorrect` | `TypeOK` | inductive by itself |
| `OneOperationPerToken` | `AtMostOnce` | `IInv` |
| `NoGrantBeyondToken` | `GrantMatchesToken` | `IInv` |
| `SharesOnAuthority` | `ImplementsShareAuthority` | `IInv`, and `StepSimulation`: a lemma per kind of step |
| `KeyStoreProofs!TypeCorrect` | `TypeOK` | inductive by itself |
| `ServesWhatItPromisedHolds` | `ServesWhatItPromised` | `StoreInv` |
| `OneKeyFetchedHolds` | `OneKeyFetched` | `StoreInv` and `KeyInv` |
| `DamageIsBoundedHolds` | `DamageIsBounded` | `DamageInv` |
| `KeyLagHolds` | `KeyLag` | `LagInv`: with `QueuesOK` it is inductive |
| `OwnKeyUntilGiveUpHolds` | `OwnKeyUntilGiveUp` | `LagInv` and `OwnKeyInv` |
| `ClientStreamProofs!TypeCorrect` | `TypeOK` | `TypeInv`: whole answers in the queues, and what the loop finds in them |
| `TokensFitUntilSlipHolds` | `TokensFitUntilSlip` | `StepInv` |
| `NothingLostHolds` | `NothingLost` | `StepInv`, `LagInv` and `Traced` |
| `NoMailTwiceHolds` | `NoMailTwice` | `CopyInv` |
| `ConfirmedUpdateHappenedHolds` | `ConfirmedUpdateHappened` | `LagInv` and `ConfirmInv` |
| `ShareRotationProofs!TypeCorrect` | `TypeOK` | `TypeInv`, with a count of the names in use |
| `RecoveryRestoresRegisteredKeyHolds` (one device, at most one fault) | `RecoveryRestoresRegisteredKey` | `KeyInv` |
| `SecretNeverLostOneDevice` (one device, at most one fault) | `SecretNeverLost` | `SecretInv` |
| `SecretNeverLostNoFault` (any devices, no fault) | `SecretNeverLost` | `TidyInv` |
| `AccountsProofs!TypeCorrect` | `TypeOK` | inductive by itself |
| `SavedNamesAreKnownHolds` | `SavedNamesAreKnown` | `KnownInv` |
| `OneAccountPerNameHolds` | `OneAccountPerName` | `KnownInv` and `NamesInv` |
| `ReloadChangesNothingHolds` | `ReloadChangesNothing` | `KnownInv` and `NamesInv` |
| `SplitInvHolds` | | `SplitInv`, inductive by itself |
| `ShamirProofs!TypeCorrect` | `TypeOK` | `SplitInv` |
| `GfMulIsMultiplicationHolds` | `GfMulIsMultiplication` | `SplitInv` and `MulIsTimes` |
| `DivisionUndoesMultiplicationHolds` | `DivisionUndoesMultiplication` | `SplitInv`, `MulIsTimes` and `DivUndoes` |
| `AnyTwoSharesReconstructHolds` | `AnyTwoSharesReconstruct` | `SplitInv` and `TwoShares` |
| `RecoveryKeepsKeyHolds` | `RecoveryKeepsKey` | `SplitInv` and `TwoShares` |
| `OneShareSaysNothingHolds` | `OneShareSaysNothing` | `SplitInv` and `OnePoint` |
| `OldSharesDoNotFitHolds` | `OldSharesDoNotFit` | `SplitInv` and `TwoShares` |

**Tokens.** `AtMostOnce` is not inductive: nothing in it says why a granted thread's token has
not paid yet. `IInv` adds what does: an undrawn nonce has left no trace (`Fresh`);
the map's entry agrees with the signed token (`Backed`); a granted thread's
token is consumed or forgotten and has paid for nothing (`Held`); no two threads are
granted on one token (`Unique`); a token that has paid is consumed or forgotten
(`Spent`). One lemma (`NothingGranted`) covers every step that grants nothing and
carries nothing out; issuing, verifying and carrying out have a lemma each. TLC
agrees with `IInv` on the instance of `share_races`.

`StepSimulation` sorts the steps by what they are above: `REQUEST_OP_TOKEN` is
`Issue` (`IssueIsIssue`), a handler's critical section is `Perform` on the token
its thread holds (`HandlerIsPerform`), and every other step lets grants lapse or
changes nothing `ShareAuthority` can see (`LapseOrStutter`). The last needs that no
step makes a spent token spendable again (`NoneBecomesSpendable`).

**Stores.** `ServesWhatItPromised` speaks of the map; a crash makes it the
file's. `StoreInv` therefore says, while no write was torn, that each file gives back
what was promised (`FilesKeepPromises`), that a handler that has written holds
what was promised (`WrittenIsPromised`), and the same of the maps outside the
locked section (`MapsKeepPromises`). `KeyInv` adds for the registered keys:
a key that is fetched or promised is the one in the map (`MapKeyIsPromised`,
`FetchedIsPromised`), and a registration under way has found no other (`KeyInMapFirst`,
`RegisteringIsNew`). `DamageInv` is a potential: the entries that are broken,
plus one for each file with a torn end, which the next line
will join, are at most two per short write.

**Answers.** `KeyLag` is a count: a request adds one and makes the client
wait, an answer moves from one queue to the other, a receive takes one, a give-up
leaves one, and an update that reads an answer in part leaves its rest. `LagInv` charges
the last to the recovery's split: it leaves room for one more answer while an update
is under way (`Updating`), and until the first give-up there is none to be read in
part, as only the update is on the connection (`AskedToUpdate`).
`OwnKeyInv` says that before the first give-up the one request or answer
on the Key Server connection is the call's own (`AskedForRecipient`), so that the
key it brings is the recipient's.

**Mail.** The types need to know what `receive_emails` finds in a text. The loop is
a function defined by recursion on the place in the text; it is shown to exist, and
to find only mails that are in the text, by looking at the least place where this
would fail (`LoopDefined`, `LoopTypes`). `StepInv` says what the Gmail connection
holds while it is in step: nothing, or the one request of the call that waits, or the
answer to it in one record; so a token that is read is the one that was asked for.
`Traced` adds that a mail that nothing has put at risk is on connections that are in
step, came with its sender's name, and that the Key Server was asked about this name:
that is why it is shown when its turn comes. `CopyInv` counts the copies of a mail,
in the mailbox, on the way, to be processed and shown: a retrieval moves
them or, for an ended client, drops them; a mailbox that cannot be cleared adds one and
costs a fault. `ConfirmInv` is the order of the answers on the Key Server connection that
the count of `KeyLag` does not show. A call that waits for Share1 has asked for it last
(`LastIsFetch`); so with one answer left over, the one that the update reads is
its own recovery's fetch (`FirstIsFetch`), which is no SHARE1_UPDATED; with none left over
it is the update's own (`UpdateUnderWay`), which the server has carried out then, whatever
a late request made of Share1 since (`Replaced`).

**Rotation.** `OrphansOK` charges each late request to a fault; so the shares and keys
in use are few (`KnownSharesBound`), a fresh split or key exists, and is none of those
in use (`FreshSplit`, `FreshKey`). This holds for any number of devices and faults.

`KeyInv` (recovery gives back the registered key) tells apart where the account stands:
no key was generated (`Untouched`), a signup goes its way (`SigningUp`), or the servers
have a key and two shares of it (`Settled`), which nothing undoes. A fault in between
leaves a fourth case: all there is of the account, late requests included, belongs to
one key (`OneKey`), as a second fault would be needed to make the device generate another.
A key that is served although its registration failed, and a key file that a failed
write has left torn, are of this case.

`SecretInv` (two shares that fit are not lost) has a half before the fault (`Smooth`:
Share3 fits Share2, Share1 fits it or what is about to replace it) and a half after it
(`Rest`: one of the two is left). A step without a fault keeps each half, one with a
fault leads from the first to the second (`HalfByHalf`). What makes `Rest` inductive is
what a late request finds (`Expected`: a late update of Share2 brings the share that
fits Share1, and no recovery can be on its way past it) and what a device without a key
file finds (`NoFile`: two shares that fit, or a signup in order), because it will sign
up again and overwrite Share3. Before there is a Share2, the two shares that fit are
Share1 and a Share3, and no step changes either (`SharesStay`).

`TidyInv` is for any number of devices, whose logins cut off each other's rotations: no
client carries a split that another one saved or carries (`Apart`), because splits are
fresh; so the client that is to save a Share3 does not overwrite the one that fits.

The bounds of these theorems are the ones the code has. With two faults both properties
fail on one device (section 3). With two devices one fault is enough to lose the secret:
the second device logs in and cuts off a signup before Share2 is stored, or a rotation
between its two updates; then the first device is lost, whose Share3 was all that fitted
the share of a server (TLC finds this with `MaxFaults` = 1). With two devices
the registered key may not be the shares' even without a fault: a login cuts off a signup
after the registration, and the second device stores the shares of its own key (TLC
finds that too).

**Accounts.** `KnownInv` follows a thread that loads: without a race one thread
at a time changes the map (`OneChange`); the lines a thread has passed are in it, and
so are those appended behind the end it reads up to (`LoadedSoFar`), because a
name is put before its line is written (`PutBeforeSaved`). When the thread
is at the end, all lines are. `NamesInv` is about an *undisturbed* name: a signup
that is not refused was the only one, the name was given to nobody, and until
it is saved no line gives it another password in the map (`NewToMap`): the map has its own
or, if a cut name's line is loaded over it, no password at all (`Has`); what was given is on
file (`GivenOnFile`), and only what was given (`FileIsGiven`). A restart empties the
map, but whoever answers logins then has loaded the file: `SavedNamesAreKnown` is
the link between the two. TLC agrees with both on the instance of `accounts`.

**Shares.** The provers know neither `^` nor GF(256), so the field comes first.
A number is its nine bits (`SameBits`), and each bit of an exclusive or is the last bit of
a sum (`XorBits`): that gives its laws, and that doubling modulo 0x11B is linear
(`DoubledLinear`), hence multiplying by the generator 3 is. Its powers are written
out in 15 rows of 17; each is checked to be 3 times the one before, the last one to lead
back to 1 (`RowsFollow`, `RowsJoin`), and all bytes but 0 to be among them
(`PowersAreAll`). `exp_table` is these powers (`PowerIsEntry`), so that `log_table` undoes
it (`LogInverts`) and `gf_mul` by a byte is multiplying by 3 as many times as its
logarithm says (`TimesPowerSteps`). From there on it distributes over exclusive
or (`MulDistributes`), associates, has inverses (`InvIsInverse`), and is long
multiplication (`MulIsTimes`), for all bytes.

A split is a line for each byte of the key. Two points of a line give its value at 0; one
point of each of two lines through the same value gives it only if the lines are the
same (`TwoPoints`), and every byte is one point of just one line through a given value
(`OnePoint`). `SplitInv` says that the bodies, and the shares of the split before, are points
of lines through the key's bytes. That Share 1 and Share 2 give this very key makes
recovery keep it (`RecoveredKey`), and so the shares of the split before stay points of
lines through its bytes.

The theorems are about `Spec`, or a `FairSpec` that implies it. TLC agrees with `KeyInv`
and `SecretInv` on the instance of `rotation_one_fault`, with `TidyInv` on that of
`rotation_two_devices` and with `SplitInv` on that of `shamir`. Every invariant and action
property of the passing runs is a theorem. Only model-checked: liveness
(`RecoveryConverges`, `CallsReturn`, and the claims that fail), which is out of the provers'
reach.

## 5. What is not modelled

* Cryptography: signatures, encryption and key derivation are taken to do what
  they are for. Tokens cannot be forged, shares of different splits give garbage
  (`OldSharesDoNotFit` is about the arithmetic; that garbage is no PEM is assumed).
* `client_id` and the Gmail user name are entered separately; they are taken to
  be the same. The password is taken to be the right one.
* The receive timeout in `ShareRotation`, which covers runs without mail;
  `ClientStream` has it, for one device.
* Restarts of the share servers in `ShareRotation` (a `LoseConnection` to the
  client) and `ShareAccess`, and with them a Key Server that comes back without a key
  it served but could not save; `KeyStore` has them.
* A line of `users.txt` that is torn by a short write and merges with the next one
  (`gmailserver.cpp:567`); `KeyStore` has this for the other files.
* The assignment of a hash to an entry that the account map already has
  (`gmailserver.cpp:557`) is one step and no race in `Accounts`, though another thread may
  read or assign the same entry at that time.
* In `ClientStream`: a late update of Share2, whose connection is the
  call's own (`ShareRotation` has it); mail larger than MAX_EMAIL_SIZE; a chunk boundary inside an
  END marker; the mailboxes of other users; a timeout between two records of one
  answer, which become readable together.
* TLS contexts, handshakes and the accept loops: I/O with no state but the
  sockets. What they do to the others are calls that fail and answers that are
  lost or late. One slow handshake stops an accept loop; a model of that would
  say no more than that a blocked call blocks.
* The certificate script has no state. What the Shamir test program asserts of some
  keys is in `Shamir`'s properties.

## 6. Plan

Done: `GmailServer`, `ShareAccess` over it and `ShareAuthority` above it,
`ShareRotation`, `KeyStore`, `Accounts`, `ClientStream` with the mailbox,
`Shamir`; the proofs of section 4, which cover every invariant and action property
of the passing runs.

Left, in order of importance:

1. `ShareRotation` with the standing connection of `ClientStream`: a late answer
   in the middle of a rotation on two devices.
2. Theorems for more devices and faults than one, with properties that name what is
   lost: which devices' Share3 still fits, and after how many faults none does.
3. What `ShareRotation` and `ClientStream` take of a share call, as a refinement of
   `ShareAuthority` seen from one client.
