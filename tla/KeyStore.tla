------------------------------ MODULE KeyStore ------------------------------
(***************************************************************************)
(* The maps of the two share servers and the files behind them:            *)
(*                                                                         *)
(*   "key"     clientPublicKeys, key_store.txt       (Key Server)          *)
(*   "share1"  clientShare1, share1_store.txt        (Key Server)          *)
(*   "share2"  shareStore, recovery_store.txt        (Recovery Server)     *)
(*                                                                         *)
(* A file is only appended to, a line per entry, and read when its server  *)
(* starts; of two lines for one client the last counts.  A handler holds   *)
(* its server's file_mutex through the steps below.  The two gates before  *)
(* it are ShareAccess's subject: whoever gets here has passed them.        *)
(***************************************************************************)
EXTENDS Naturals, FiniteSets

CONSTANTS
    Clients, Values,   \* client names; keys and shares
    Requests,          \* the <<store, client, value>> that are asked to be written
    MaxShortWrites,    \* bound: writes that a full disk or a power cut tears
    None,              \* no entry, no thread in the locked section
    Garbled,           \* an entry read back from a torn or a merged line
    JunkName           \* a line torn before the end of its client's name

Stores  == {"key", "share1", "share2"}
Servers == {"KEYSERVER", "RECOVERYSERVER"}
Server(s) == IF s = "share2" THEN "RECOVERYSERVER" ELSE "KEYSERVER"

ASSUME RequestsAssumption == Requests \subseteq Stores \X Clients \X Values
ASSUME ClientsAssumption == IsFiniteSet(Clients)
ASSUME BoundAssumption == MaxShortWrites \in Nat
ASSUME MarkersAssumption ==
    /\ {None, Garbled} \cap Values = {} /\ None # Garbled
    /\ {None, JunkName} \cap Clients = {} /\ None # JunkName

VARIABLES
    memory,       \* each server's maps
    file,         \* what loading each file would give for each client
    tail,         \* whose line ends the file without its newline
    keyFile,      \* key_store.txt exists
    holder,       \* the handler that holds each file_mutex: what it writes, how far
    promised,     \* history: the last value each file was asked to keep
    fetched,      \* history: the keys handed out for each client
    unsaved,      \* history: clients whose registration ended in STORAGE_ERROR
    blind,        \* history: the Key Server started without reading Share1s
    shortWrites   \* history: torn writes

vars == <<memory, file, tail, keyFile, holder, promised, fetched, unsaved, blind, shortWrites>>

Entry   == Values \cup {None, Garbled}
Holders == [store : Stores, client : Clients, value : Values, written : BOOLEAN]

ASSUME NoHolderAssumption == None \notin Holders

Init ==
    /\ memory = [s \in Stores |-> [c \in Clients |-> None]]
    /\ file = memory /\ promised = memory
    /\ tail = [s \in Stores |-> None]
    /\ keyFile = FALSE
    /\ holder = [srv \in Servers |-> None]
    /\ fetched = [c \in Clients |-> {}]
    /\ unsaved = {} /\ blind = FALSE /\ shortWrites = 0

-----------------------------------------------------------------------------
(* Handlers enter their locked sections. *)

\* Mutant of TakeLock: the other server's mutex.
TakeLock_other(s, c, v) ==
    LET srv == CHOOSE x \in Servers : x # Server(s)
    IN  /\ holder[srv] = None
        /\ holder' = [holder EXCEPT ![srv] =
                [store |-> s, client |-> c, value |-> v, written |-> FALSE]]

TakeLock(s, c, v) ==
    /\ holder[Server(s)] = None
    /\ holder' = [holder EXCEPT ![Server(s)] =
            [store |-> s, client |-> c, value |-> v, written |-> FALSE]]

\* The first key stays (CLIENT_EXISTS); the maps are set before the file is.
registerClientKey(c, v) ==
    /\ memory["key"][c] = None
    /\ TakeLock("key", c, v)
    /\ memory' = [memory EXCEPT !["key"][c] = v]
    /\ UNCHANGED <<file, tail, keyFile, promised, fetched, unsaved, blind, shortWrites>>

\* storeShare1, storeShare: a share that is there is not overwritten.
storeShare(s, c, v) ==
    /\ s # "key" /\ memory[s][c] = None
    /\ TakeLock(s, c, v)
    /\ UNCHANGED <<memory, file, tail, keyFile, promised, fetched, unsaved, blind, shortWrites>>

\* updateShare1, updateShare.
updateShare(s, c, v) ==
    /\ s # "key"
    /\ TakeLock(s, c, v)
    /\ UNCHANGED <<memory, file, tail, keyFile, promised, fetched, unsaved, blind, shortWrites>>

\* Mutant of fetchClientKey: the map is read without the mutex.
fetchClientKey_unlocked(c) ==
    /\ memory["key"][c] # None
    /\ fetched' = [fetched EXCEPT ![c] = @ \cup {memory["key"][c]}]
    /\ UNCHANGED <<memory, file, tail, keyFile, holder, promised, unsaved, blind, shortWrites>>

fetchClientKey(c) ==
    /\ holder["KEYSERVER"] = None
    /\ memory["key"][c] # None
    /\ fetched' = [fetched EXCEPT ![c] = @ \cup {memory["key"][c]}]
    /\ UNCHANGED <<memory, file, tail, keyFile, holder, promised, unsaved, blind, shortWrites>>

-----------------------------------------------------------------------------
(* The append, and what becomes of it. *)

Writing(srv) == holder[srv] # None /\ ~holder[srv].written

\* From here on the handler goes on as if the line were in the file.
AppendDone(srv) ==
    LET h == holder[srv]
    IN  /\ holder' = [holder EXCEPT ![srv].written = TRUE]
        /\ promised' = [promised EXCEPT ![h.store][h.client] = h.value]
        /\ keyFile' = (keyFile \/ h.store = "key")
        /\ UNCHANGED <<memory, fetched, unsaved, blind>>

\* Mutant of LineAdded: of two lines for one client the first counts.
LineAdded_firstCounts(s, c, v) ==
    [file[s] EXCEPT ![c] = IF @ = None THEN v ELSE @]

\* A whole line is written.  Behind an unterminated line it merges with it: the
\* entry of that line's client is garbled and the new one is not there.
LineAdded(s, c, v) ==
    IF tail[s] = None THEN [file[s] EXCEPT ![c] = v]
    ELSE [d \in Clients |-> IF d = tail[s] THEN Garbled ELSE file[s][d]]

appendLine(srv) ==
    /\ Writing(srv)
    /\ LET h == holder[srv]
       IN  /\ file' = [file EXCEPT ![h.store] = LineAdded(h.store, h.client, h.value)]
           /\ tail' = [tail EXCEPT ![h.store] = None]
    /\ AppendDone(srv)
    /\ UNCHANGED shortWrites

\* Only a part of the line is written.  Nobody looks: the stream's state is not
\* tested after << and close().  The part may be nothing, some of the name, or
\* more, which reads back as an entry cut short, or not at all, or, when just the
\* newline is missing, as the entry.
shortWrite(srv) ==
    /\ Writing(srv) /\ shortWrites < MaxShortWrites
    /\ shortWrites' = shortWrites + 1
    /\ LET s == holder[srv].store
           c == holder[srv].client
           v == holder[srv].value
       IN  \/ UNCHANGED <<file, tail>>
           \/ /\ tail[s] = None
              /\ tail' = [tail EXCEPT ![s] = JunkName] /\ UNCHANGED file
           \/ /\ tail[s] = None
              /\ tail' = [tail EXCEPT ![s] = c]
              /\ \E e \in {file[s][c], Garbled, v} : file' = [file EXCEPT ![s][c] = e]
           \/ /\ tail[s] \in Clients
              /\ file' = [file EXCEPT ![s][tail[s]] = Garbled] /\ UNCHANGED tail
    /\ AppendDone(srv)

\* The file cannot be opened: STORAGE_ERROR.  A key stays in the maps.
openFails(srv) ==
    /\ Writing(srv)
    /\ holder' = [holder EXCEPT ![srv] = None]
    /\ unsaved' = IF holder[srv].store = "key" THEN unsaved \cup {holder[srv].client} ELSE unsaved
    /\ UNCHANGED <<memory, file, tail, keyFile, promised, fetched, blind, shortWrites>>

\* Mutant of answer: a share's map entry is not replaced.
answer_fileOnly(srv) ==
    /\ holder[srv] # None /\ holder[srv].written
    /\ holder' = [holder EXCEPT ![srv] = None]
    /\ UNCHANGED <<memory, file, tail, keyFile, promised, fetched, unsaved, blind, shortWrites>>

\* A share's map entry follows its line; the answer is sent, the lock released.
answer(srv) ==
    /\ holder[srv] # None /\ holder[srv].written
    /\ memory' = [memory EXCEPT ![holder[srv].store][holder[srv].client] = holder[srv].value]
    /\ holder' = [holder EXCEPT ![srv] = None]
    /\ UNCHANGED <<file, tail, keyFile, promised, fetched, unsaved, blind, shortWrites>>

-----------------------------------------------------------------------------
(* Crash and start *)

\* loadExistingKeys and loadExistingShares: without a key_store.txt the Key
\* Server returns before it opens share1_store.txt.
Loaded(s) == IF s = "share1" /\ ~keyFile THEN [c \in Clients |-> None] ELSE file[s]

\* A server dies, at any point of any handler, and is started again.
Restart(srv) ==
    /\ memory' = [s \in Stores |-> IF Server(s) = srv THEN Loaded(s) ELSE memory[s]]
    /\ holder' = [holder EXCEPT ![srv] = None]
    /\ blind' = IF srv = "KEYSERVER" THEN ~keyFile ELSE blind
    /\ UNCHANGED <<file, tail, keyFile, promised, fetched, unsaved, shortWrites>>

-----------------------------------------------------------------------------

Next ==
    \/ \E r \in Requests :
         \/ r[1] = "key" /\ registerClientKey(r[2], r[3])
         \/ storeShare(r[1], r[2], r[3])
         \/ updateShare(r[1], r[2], r[3])
    \/ \E c \in Clients : fetchClientKey(c)
    \/ \E srv \in Servers :
         appendLine(srv) \/ shortWrite(srv) \/ openFails(srv) \/ answer(srv) \/ Restart(srv)

Spec == Init /\ [][Next]_vars

-----------------------------------------------------------------------------
(* Properties *)

\* Maps and files hold entries of the right kind, and a handler holds the mutex
\* of the server whose store it writes.
TypeOK ==
    /\ memory \in [Stores -> [Clients -> Entry]]
    /\ file \in [Stores -> [Clients -> Entry]]
    /\ tail \in [Stores -> Clients \cup {None, JunkName}]
    /\ keyFile \in BOOLEAN
    /\ holder \in [Servers -> Holders \cup {None}]
    /\ \A srv \in Servers : holder[srv] # None => Server(holder[srv].store) = srv
    /\ promised \in [Stores -> [Clients -> Values \cup {None}]]
    /\ fetched \in [Clients -> SUBSET Entry]
    /\ unsaved \subseteq Clients
    /\ blind \in BOOLEAN
    /\ shortWrites \in Nat

\* keyserver.cpp, updateShare1: "appending the new value here is sufficient for
\* the on-disk state to converge to the same thing the in-memory map has".
\* Whatever crashes come in between, a server that is in no locked section serves
\* what its file was last asked to keep: unless a write was torn, or the
\* Key Server started without key_store.txt and did not look at the Share1s.
ServesWhatItPromised ==
    shortWrites = 0 =>
        \A s \in Stores, c \in Clients :
            /\ holder[Server(s)] = None
            /\ promised[s][c] # None
            /\ ~(s = "share1" /\ blind)
            => memory[s][c] = promised[s][c]

\* The entries that a file does not give back as they were written.
Damaged == {e \in Stores \X Clients : file[e[1]][e[2]] # promised[e[1]][e[2]]}

\* A torn write costs two entries at most: its own, and the next line written
\* behind it.  All later lines are read back as they were written.
DamageIsBounded == Cardinality(Damaged) <= 2 * shortWrites

\* Everybody who asks for a client's key gets the same one, for ever, across
\* races of registrations, crashes and restarts: unless a write was torn, or the
\* client's registration ended in STORAGE_ERROR with its key in the map.
OneKeyFetched ==
    shortWrites = 0 =>
        \A c \in Clients \ unsaved : Cardinality(fetched[c]) <= 1

=============================================================================
