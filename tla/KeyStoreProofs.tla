--------------------------- MODULE KeyStoreProofs ---------------------------
(***************************************************************************)
(* What holds of KeyStore for any clients, values, requests and number of  *)
(* torn writes, and however long it runs.                                  *)
(***************************************************************************)
EXTENDS KeyStore, FiniteSetTheorems, TLAPS

-----------------------------------------------------------------------------
(* Types *)

\* The initial state has the types: empty maps, empty files.
LEMMA InitTypeOK == Init => TypeOK
<1> SUFFICES ASSUME Init PROVE TypeOK
  OBVIOUS
<1>1. /\ memory \in [Stores -> [Clients -> Entry]] /\ file = memory
      /\ promised \in [Stores -> [Clients -> Values \cup {None}]]
  BY DEF Init, Entry
<1>2. /\ tail \in [Stores -> Clients \cup {None, JunkName}]
      /\ holder = [srv \in Servers |-> None]
      /\ fetched \in [Clients -> SUBSET Entry]
  BY DEF Init
<1>3. keyFile \in BOOLEAN /\ unsaved \subseteq Clients /\ blind \in BOOLEAN /\ shortWrites \in Nat
  BY DEF Init
<1> QED BY <1>1, <1>2, <1>3 DEF TypeOK

\* Entering a locked section (lock_guard in each handler) keeps the types.
LEMMA TakeLockTypeOK ==
    ASSUME TypeOK, NEW s \in Stores, NEW c \in Clients, NEW v \in Values, TakeLock(s, c, v)
    PROVE  /\ holder' \in [Servers -> Holders \cup {None}]
           /\ \A srv \in Servers : holder'[srv] # None => Server(holder'[srv].store) = srv
<1> DEFINE h == [store |-> s, client |-> c, value |-> v, written |-> FALSE]
<1>1. h \in Holders /\ h.store = s
  BY DEF Holders
<1>2. Server(s) \in Servers
  BY DEF Server, Servers
<1>3. holder' = [holder EXCEPT ![Server(s)] = h]
  BY DEF TakeLock
<1> HIDE DEF h
<1> QED BY <1>1, <1>2, <1>3 DEF TypeOK

\* What a handler that holds a mutex looks like.
LEMMA HolderType ==
    ASSUME TypeOK, NEW srv \in Servers, holder[srv] # None
    PROVE  /\ holder[srv] \in Holders
           /\ holder[srv].store \in Stores /\ holder[srv].client \in Clients
           /\ holder[srv].value \in Values /\ holder[srv].written \in BOOLEAN
           /\ Server(holder[srv].store) = srv
BY DEF TypeOK, Holders

\* The steps behind the append (AppendDone: what appendLine and shortWrite share).
LEMMA AppendTypeOK ==
    ASSUME TypeOK, NEW srv \in Servers, Writing(srv), AppendDone(srv)
    PROVE  /\ holder' \in [Servers -> Holders \cup {None}]
           /\ \A x \in Servers : holder'[x] # None => Server(holder'[x].store) = x
           /\ promised' \in [Stores -> [Clients -> Values \cup {None}]]
           /\ keyFile' \in BOOLEAN
<1>1. holder[srv] # None
  BY DEF Writing
<1> DEFINE h == holder[srv]
           w == [h EXCEPT !.written = TRUE]
<1>2. h \in Holders /\ Server(h.store) = srv
  BY <1>1, HolderType
<1>3. w \in Holders /\ w.store = h.store
  BY <1>2 DEF Holders
<1>4. holder' = [holder EXCEPT ![srv] = w]
  BY DEF AppendDone
<1>5. /\ promised' = [promised EXCEPT ![h.store][h.client] = h.value]
      /\ keyFile' = (keyFile \/ h.store = "key")
  BY DEF AppendDone
<1>6. h.store \in Stores /\ h.client \in Clients /\ h.value \in Values
  BY <1>2 DEF Holders
<1> HIDE DEF h, w
<1>7. /\ holder' \in [Servers -> Holders \cup {None}]
      /\ \A x \in Servers : holder'[x] # None => Server(holder'[x].store) = x
  BY <1>2, <1>3, <1>4 DEF TypeOK
<1>8. promised' \in [Stores -> [Clients -> Values \cup {None}]]
  BY <1>5, <1>6 DEF TypeOK
<1>9. keyFile' \in BOOLEAN
  BY <1>5 DEF TypeOK
<1> QED BY <1>7, <1>8, <1>9

\* What a line that is appended makes of its file (loadExistingKeys reads it back).
LEMMA LineAddedType ==
    ASSUME TypeOK, NEW s \in Stores, NEW c \in Clients, NEW v \in Values
    PROVE  LineAdded(s, c, v) \in [Clients -> Entry]
<1>1. file[s] \in [Clients -> Entry] /\ v \in Entry /\ Garbled \in Entry
  BY DEF TypeOK, Entry
<1>2. [file[s] EXCEPT ![c] = v] \in [Clients -> Entry]
  BY <1>1
<1>3. [d \in Clients |-> IF d = tail[s] THEN Garbled ELSE file[s][d]] \in [Clients -> Entry]
  BY <1>1
<1> QED BY <1>2, <1>3 DEF LineAdded

\* What loading a file makes of a map (loadExistingKeys, loadExistingShares).
LEMMA LoadedType ==
    ASSUME TypeOK, NEW s \in Stores
    PROVE  Loaded(s) \in [Clients -> Entry]
BY DEF TypeOK, Loaded, Entry

\* Every step keeps the types.
LEMMA NextTypeOK == TypeOK /\ [Next]_vars => TypeOK'
<1> SUFFICES ASSUME TypeOK, [Next]_vars PROVE TypeOK'
  OBVIOUS
<1>1. CASE UNCHANGED vars
  BY <1>1 DEF vars, TypeOK
<1>2. ASSUME NEW c \in Clients, NEW v \in Values, registerClientKey(c, v)
      PROVE  TypeOK'
  <2>1. "key" \in Stores /\ v \in Entry
    BY DEF Stores, Entry
  <2>2. TakeLock("key", c, v)
    BY <1>2 DEF registerClientKey
  <2>3. /\ holder' \in [Servers -> Holders \cup {None}]
        /\ \A srv \in Servers : holder'[srv] # None => Server(holder'[srv].store) = srv
    BY <2>1, <2>2, TakeLockTypeOK
  <2>4. memory' \in [Stores -> [Clients -> Entry]]
    BY <1>2, <2>1 DEF registerClientKey, TypeOK
  <2> QED BY <1>2, <2>3, <2>4 DEF registerClientKey, TypeOK
<1>3. ASSUME NEW s \in Stores, NEW c \in Clients, NEW v \in Values,
             storeShare(s, c, v) \/ updateShare(s, c, v)
      PROVE  TypeOK'
  <2>1. TakeLock(s, c, v)
    BY <1>3 DEF storeShare, updateShare
  <2>2. /\ holder' \in [Servers -> Holders \cup {None}]
        /\ \A srv \in Servers : holder'[srv] # None => Server(holder'[srv].store) = srv
    BY <2>1, TakeLockTypeOK
  <2> QED BY <1>3, <2>2 DEF storeShare, updateShare, TypeOK
<1>4. ASSUME NEW c \in Clients, fetchClientKey(c)
      PROVE  TypeOK'
  <2>1. memory["key"][c] \in Entry
    BY DEF TypeOK, Stores
  <2> QED BY <1>4, <2>1 DEF fetchClientKey, TypeOK
<1>5. ASSUME NEW srv \in Servers, appendLine(srv)
      PROVE  TypeOK'
  <2> DEFINE h == holder[srv]
  <2>1. Writing(srv) /\ AppendDone(srv) /\ shortWrites' = shortWrites
    BY <1>5 DEF appendLine
  <2>2. h.store \in Stores /\ h.client \in Clients /\ h.value \in Values
    BY <2>1, HolderType DEF Writing
  <2>3. /\ file' = [file EXCEPT ![h.store] = LineAdded(h.store, h.client, h.value)]
        /\ tail' = [tail EXCEPT ![h.store] = None]
    BY <1>5 DEF appendLine
  <2>4. LineAdded(h.store, h.client, h.value) \in [Clients -> Entry]
    BY <2>2, LineAddedType
  <2> HIDE DEF h
  <2>5. file' \in [Stores -> [Clients -> Entry]] /\ tail' \in [Stores -> Clients \cup {None, JunkName}]
    BY <2>3, <2>4 DEF TypeOK
  <2> QED BY <2>1, <2>5, AppendTypeOK DEF TypeOK, AppendDone
<1>6. ASSUME NEW srv \in Servers, shortWrite(srv)
      PROVE  TypeOK'
  <2> DEFINE s == holder[srv].store
             c == holder[srv].client
             v == holder[srv].value
  <2>1. Writing(srv) /\ AppendDone(srv) /\ shortWrites' = shortWrites + 1
    BY <1>6 DEF shortWrite
  <2>2. s \in Stores /\ c \in Clients /\ v \in Values
    BY <2>1, HolderType DEF Writing
  <2>3. \/ UNCHANGED <<file, tail>>
        \/ tail' = [tail EXCEPT ![s] = JunkName] /\ UNCHANGED file
        \/ /\ tail' = [tail EXCEPT ![s] = c]
           /\ \E e \in {file[s][c], Garbled, v} : file' = [file EXCEPT ![s][c] = e]
        \/ /\ tail[s] \in Clients
           /\ file' = [file EXCEPT ![s][tail[s]] = Garbled] /\ UNCHANGED tail
    BY <1>6 DEF shortWrite
  <2> HIDE DEF s, c, v
  <2>4. {file[s][c], Garbled, v} \subseteq Entry
    BY <2>2 DEF TypeOK, Entry
  <2>5. tail' \in [Stores -> Clients \cup {None, JunkName}]
    BY <2>2, <2>3 DEF TypeOK
  <2>6. file' = file \/ \E d \in Clients, e \in Entry : file' = [file EXCEPT ![s][d] = e]
    <3>1. c \in Clients /\ file[s][c] \in Entry /\ Garbled \in Entry /\ v \in Entry
      BY <2>2, <2>4
    <3>2. ASSUME NEW e \in {file[s][c], Garbled, v}, file' = [file EXCEPT ![s][c] = e]
          PROVE  \E d \in Clients, x \in Entry : file' = [file EXCEPT ![s][d] = x]
      <4>1. e \in Entry
        BY <2>4
      <4> QED BY <3>1, <3>2, <4>1
    <3>3. ASSUME tail[s] \in Clients, file' = [file EXCEPT ![s][tail[s]] = Garbled]
          PROVE  \E d \in Clients, x \in Entry : file' = [file EXCEPT ![s][d] = x]
      BY <3>1, <3>3
    <3> QED BY <2>3, <3>2, <3>3
  <2>7. file' \in [Stores -> [Clients -> Entry]]
    <3>1. CASE file' = file
      BY <3>1 DEF TypeOK
    <3>2. ASSUME NEW d \in Clients, NEW e \in Entry, file' = [file EXCEPT ![s][d] = e]
          PROVE  file' \in [Stores -> [Clients -> Entry]]
      BY <2>2, <3>2 DEF TypeOK
    <3> QED BY <2>6, <3>1, <3>2
  <2>8. /\ holder' \in [Servers -> Holders \cup {None}]
        /\ \A x \in Servers : holder'[x] # None => Server(holder'[x].store) = x
        /\ promised' \in [Stores -> [Clients -> Values \cup {None}]]
        /\ keyFile' \in BOOLEAN
    BY <2>1, AppendTypeOK
  <2>9. UNCHANGED <<memory, fetched, unsaved, blind>>
    BY <2>1 DEF AppendDone
  <2> QED BY <2>1, <2>5, <2>7, <2>8, <2>9 DEF TypeOK
<1>7. ASSUME NEW srv \in Servers, openFails(srv)
      PROVE  TypeOK'
  <2>1. holder[srv].client \in Clients
    BY <1>7, HolderType DEF openFails, Writing
  <2> QED BY <1>7, <2>1 DEF openFails, TypeOK
<1>8. ASSUME NEW srv \in Servers, answer(srv)
      PROVE  TypeOK'
  <2> DEFINE h == holder[srv]
  <2>1. h.store \in Stores /\ h.client \in Clients /\ h.value \in Entry
    BY <1>8, HolderType DEF answer, Entry
  <2>2. memory' = [memory EXCEPT ![h.store][h.client] = h.value]
    BY <1>8 DEF answer
  <2> HIDE DEF h
  <2>3. memory' \in [Stores -> [Clients -> Entry]]
    BY <2>1, <2>2 DEF TypeOK
  <2> QED BY <1>8, <2>3 DEF answer, TypeOK
<1>9. ASSUME NEW srv \in Servers, Restart(srv)
      PROVE  TypeOK'
  <2>1. memory' \in [Stores -> [Clients -> Entry]]
    BY <1>9, LoadedType DEF Restart, TypeOK
  <2> QED BY <1>9, <2>1 DEF Restart, TypeOK
<1>10. \A r \in Requests : r[1] \in Stores /\ r[2] \in Clients /\ r[3] \in Values
  BY RequestsAssumption
<1> QED BY <1>1, <1>2, <1>3, <1>4, <1>5, <1>6, <1>7, <1>8, <1>9, <1>10 DEF Next

\* Maps and files hold entries of the right kind, and a handler holds the mutex
\* of the server whose store it writes.
THEOREM TypeCorrect == Spec => []TypeOK
BY InitTypeOK, NextTypeOK, PTL DEF Spec

-----------------------------------------------------------------------------
(* Files, maps and what was promised *)

\* As long as no write was torn, each file is what it was asked to keep.
FilesKeepPromises ==
    shortWrites = 0 => \A s \in Stores : tail[s] = None /\ file[s] = promised[s]

\* The handler that appended a line but has not answered holds the value.
WrittenIsPromised ==
    \A srv \in Servers :
        holder[srv] # None /\ holder[srv].written =>
            promised[holder[srv].store][holder[srv].client] = holder[srv].value

WrittenFor(s, c) ==
    LET h == holder[Server(s)]
    IN  h # None /\ h.written /\ h.store = s /\ h.client = c

\* A map has what was promised, or a handler is about to put it there.
MapsKeepPromises ==
    shortWrites = 0 =>
        \A s \in Stores, c \in Clients :
            promised[s][c] # None /\ ~(s = "share1" /\ blind) =>
                memory[s][c] = promised[s][c] \/ WrittenFor(s, c)

StoreInv == TypeOK /\ FilesKeepPromises /\ WrittenIsPromised /\ MapsKeepPromises

\* Nothing is promised, and nobody holds a mutex, at first.
LEMMA InitStoreInv == Init => StoreInv
<1> SUFFICES ASSUME Init PROVE StoreInv
  OBVIOUS
<1>1. \A s \in Stores : tail[s] = None /\ file[s] = promised[s]
  BY DEF Init
<1>2. \A srv \in Servers : holder[srv] = None
  BY DEF Init
<1>3. \A s \in Stores, c \in Clients : promised[s][c] = None
  BY DEF Init
<1> QED BY <1>1, <1>2, <1>3, InitTypeOK
        DEF StoreInv, FilesKeepPromises, WrittenIsPromised, MapsKeepPromises

\* Entering a locked section promises nothing; the three lemmas on promises do
\* not depend on a handler that has not written.
LEMMA TakeLockStoreInv ==
    ASSUME StoreInv, NEW s \in Stores, NEW c \in Clients, NEW v \in Values, TakeLock(s, c, v),
           UNCHANGED <<file, tail, promised, blind, shortWrites>>,
           \/ UNCHANGED memory
           \/ memory[s][c] = None /\ memory' = [memory EXCEPT ![s][c] = v]
    PROVE  FilesKeepPromises' /\ WrittenIsPromised' /\ MapsKeepPromises'
<1> DEFINE h == [store |-> s, client |-> c, value |-> v, written |-> FALSE]
<1>1. /\ holder[Server(s)] = None
      /\ holder' = [holder EXCEPT ![Server(s)] = h]
  BY DEF TakeLock
<1>2. h.written = FALSE /\ Server(s) \in Servers /\ \A z \in Stores : Server(z) \in Servers
  BY DEF Server, Servers
<1> HIDE DEF h
<1>3. \A srv \in Servers : holder'[srv] # None /\ holder'[srv].written
        => srv # Server(s) /\ holder'[srv] = holder[srv]
  BY <1>1, <1>2 DEF StoreInv, TypeOK
<1>4. FilesKeepPromises'
  BY DEF StoreInv, FilesKeepPromises
<1>5. WrittenIsPromised'
  BY <1>3 DEF StoreInv, WrittenIsPromised
<1>6. MapsKeepPromises'
  <2> SUFFICES ASSUME shortWrites = 0, NEW z \in Stores, NEW d \in Clients,
                      promised[z][d] # None, ~(z = "share1" /\ blind)
               PROVE  memory'[z][d] = promised[z][d] \/ WrittenFor(z, d)'
    BY DEF MapsKeepPromises
  <2>1. memory[z][d] = promised[z][d] \/ WrittenFor(z, d)
    BY DEF StoreInv, MapsKeepPromises
  <2>2. CASE WrittenFor(z, d)
    <3>1. Server(z) # Server(s)
      BY <2>2, <1>1 DEF WrittenFor
    <3>2. holder'[Server(z)] = holder[Server(z)]
      BY <3>1, <1>1, <1>2 DEF StoreInv, TypeOK
    <3> QED BY <2>2, <3>2 DEF WrittenFor
  <2>3. CASE memory[z][d] = promised[z][d]
    <3>1. ~(memory[s][c] = None /\ z = s /\ d = c)
      BY <2>3
    <3>2. memory'[z][d] = memory[z][d]
      BY <3>1 DEF StoreInv, TypeOK
    <3> QED BY <2>3, <3>2
  <2> QED BY <2>1, <2>2, <2>3
<1> QED BY <1>4, <1>5, <1>6

\* Marking the line as written promises its value; the other server's handler, if
\* there is one, writes to another store (appendLine and shortWrite).
LEMMA AppendWrittenIsPromised ==
    ASSUME StoreInv, NEW srv \in Servers, Writing(srv), AppendDone(srv)
    PROVE  WrittenIsPromised'
<1> DEFINE h == holder[srv]
           w == [h EXCEPT !.written = TRUE]
<1>1. /\ h \in Holders /\ Server(h.store) = srv
      /\ h.store \in Stores /\ h.client \in Clients /\ h.value \in Values
  BY HolderType DEF StoreInv, Writing
<1>2. /\ holder' = [holder EXCEPT ![srv] = w]
      /\ promised' = [promised EXCEPT ![h.store][h.client] = h.value]
  BY DEF AppendDone
<1>3. w.store = h.store /\ w.client = h.client /\ w.value = h.value
  BY <1>1 DEF Holders
<1> HIDE DEF h, w
<1> SUFFICES ASSUME NEW x \in Servers, holder'[x] # None, holder'[x].written
             PROVE  promised'[holder'[x].store][holder'[x].client] = holder'[x].value
  BY DEF WrittenIsPromised
<1>4. CASE x = srv
  <2>1. holder'[x] = w
    BY <1>2, <1>4 DEF StoreInv, TypeOK
  <2> QED BY <1>1, <1>2, <1>3, <2>1 DEF StoreInv, TypeOK
<1>5. CASE x # srv
  <2>1. holder'[x] = holder[x]
    BY <1>2, <1>5 DEF StoreInv, TypeOK
  <2>2. /\ holder[x].store \in Stores /\ holder[x].client \in Clients /\ Server(holder[x].store) = x
        /\ promised[holder[x].store][holder[x].client] = holder[x].value
    BY <2>1, HolderType DEF StoreInv, WrittenIsPromised
  <2>3. holder[x].store # h.store
    BY <1>1, <1>5, <2>2
  <2> QED BY <1>1, <1>2, <2>1, <2>2, <2>3 DEF StoreInv, TypeOK
<1> QED BY <1>4, <1>5

\* The handler's line is in the file: now it is promised, and it is written.
LEMMA AppendStoreInv ==
    ASSUME StoreInv, NEW srv \in Servers, appendLine(srv)
    PROVE  FilesKeepPromises' /\ WrittenIsPromised' /\ MapsKeepPromises'
<1> DEFINE h == holder[srv]
           w == [h EXCEPT !.written = TRUE]
<1>1. /\ h # None /\ h.written = FALSE /\ h \in Holders /\ Server(h.store) = srv
      /\ h.store \in Stores /\ h.client \in Clients /\ h.value \in Values
  BY HolderType DEF StoreInv, appendLine, Writing
<1>2. /\ file' = [file EXCEPT ![h.store] = LineAdded(h.store, h.client, h.value)]
      /\ tail' = [tail EXCEPT ![h.store] = None]
      /\ holder' = [holder EXCEPT ![srv] = w]
      /\ promised' = [promised EXCEPT ![h.store][h.client] = h.value]
      /\ UNCHANGED <<memory, blind, shortWrites>>
  BY DEF appendLine, AppendDone
<1>3. /\ w \in Holders /\ w.written /\ w.store = h.store /\ w.client = h.client /\ w.value = h.value
  BY <1>1 DEF Holders
<1>4. w # None
  BY <1>3, NoHolderAssumption
<1> HIDE DEF h, w
<1>5. FilesKeepPromises'
  <2> SUFFICES ASSUME shortWrites = 0, NEW s \in Stores
               PROVE  tail'[s] = None /\ file'[s] = promised'[s]
    BY <1>2 DEF FilesKeepPromises
  <2>1. \A z \in Stores : tail[z] = None /\ file[z] = promised[z]
    BY DEF StoreInv, FilesKeepPromises
  <2>2. LineAdded(h.store, h.client, h.value) = [promised[h.store] EXCEPT ![h.client] = h.value]
    BY <1>1, <2>1 DEF LineAdded
  <2> QED BY <1>1, <1>2, <2>1, <2>2 DEF StoreInv, TypeOK
<1>6. WrittenIsPromised'
  BY AppendWrittenIsPromised DEF appendLine
<1>7. MapsKeepPromises'
  <2> SUFFICES ASSUME shortWrites = 0, NEW z \in Stores, NEW d \in Clients,
                      promised'[z][d] # None, ~(z = "share1" /\ blind)
               PROVE  memory[z][d] = promised'[z][d] \/ WrittenFor(z, d)'
    BY <1>2 DEF MapsKeepPromises
  <2>1. CASE z = h.store /\ d = h.client
    <3>1. holder'[Server(z)] = w
      BY <1>1, <1>2, <2>1 DEF StoreInv, TypeOK
    <3> QED BY <1>3, <1>4, <2>1, <3>1 DEF WrittenFor
  <2>2. CASE ~(z = h.store /\ d = h.client)
    <3>1. promised'[z][d] = promised[z][d]
      BY <1>1, <1>2, <2>2 DEF StoreInv, TypeOK
    <3>2. memory[z][d] = promised[z][d] \/ WrittenFor(z, d)
      BY <3>1 DEF StoreInv, MapsKeepPromises
    <3>3. ASSUME WrittenFor(z, d) PROVE WrittenFor(z, d)'
      <4>1. Server(z) # srv
        BY <1>1, <3>3 DEF WrittenFor, h
      <4>2. holder'[Server(z)] = holder[Server(z)] /\ Server(z) \in Servers
        BY <1>2, <4>1 DEF StoreInv, TypeOK, Server, Servers
      <4> QED BY <3>3, <4>2 DEF WrittenFor
    <3> QED BY <3>1, <3>2, <3>3
  <2> QED BY <2>1, <2>2
<1> QED BY <1>5, <1>6, <1>7

\* The other steps: what a handler drops was not promised, what it puts into the
\* map was, and a restart reads what was promised.
LEMMA NextStoreInv == StoreInv /\ [Next]_vars => StoreInv'
<1> SUFFICES ASSUME StoreInv, [Next]_vars
             PROVE  FilesKeepPromises' /\ WrittenIsPromised' /\ MapsKeepPromises'
  BY NextTypeOK DEF StoreInv
<1> TypeOK
  BY DEF StoreInv
<1>1. ASSUME UNCHANGED <<memory, file, tail, holder, promised, blind, shortWrites>>
      PROVE  FilesKeepPromises' /\ WrittenIsPromised' /\ MapsKeepPromises'
  <2>1. FilesKeepPromises'
    BY <1>1 DEF StoreInv, FilesKeepPromises
  <2>2. WrittenIsPromised'
    BY <1>1 DEF StoreInv, WrittenIsPromised
  <2>3. MapsKeepPromises'
    BY <1>1 DEF StoreInv, MapsKeepPromises, WrittenFor
  <2> QED BY <2>1, <2>2, <2>3
<1>2. ASSUME NEW c \in Clients, NEW v \in Values, registerClientKey(c, v)
      PROVE  FilesKeepPromises' /\ WrittenIsPromised' /\ MapsKeepPromises'
  <2>1. /\ "key" \in Stores /\ TakeLock("key", c, v)
        /\ memory["key"][c] = None /\ memory' = [memory EXCEPT !["key"][c] = v]
        /\ UNCHANGED <<file, tail, promised, blind, shortWrites>>
    BY <1>2 DEF registerClientKey, Stores
  <2> QED BY <2>1, TakeLockStoreInv
<1>3. ASSUME NEW s \in Stores, NEW c \in Clients, NEW v \in Values,
             storeShare(s, c, v) \/ updateShare(s, c, v)
      PROVE  FilesKeepPromises' /\ WrittenIsPromised' /\ MapsKeepPromises'
  <2>1. /\ TakeLock(s, c, v) /\ UNCHANGED memory
        /\ UNCHANGED <<file, tail, promised, blind, shortWrites>>
    BY <1>3 DEF storeShare, updateShare
  <2> QED BY <2>1, TakeLockStoreInv
<1>4. ASSUME NEW c \in Clients, fetchClientKey(c)
      PROVE  FilesKeepPromises' /\ WrittenIsPromised' /\ MapsKeepPromises'
  BY <1>1, <1>4 DEF fetchClientKey
<1>5. ASSUME NEW srv \in Servers, appendLine(srv)
      PROVE  FilesKeepPromises' /\ WrittenIsPromised' /\ MapsKeepPromises'
  BY <1>5, AppendStoreInv
<1>6. ASSUME NEW srv \in Servers, shortWrite(srv)
      PROVE  FilesKeepPromises' /\ WrittenIsPromised' /\ MapsKeepPromises'
  <2>1. shortWrites' # 0
    BY <1>6 DEF shortWrite, TypeOK
  <2>2. WrittenIsPromised'
    BY <1>6, AppendWrittenIsPromised DEF shortWrite
  <2> QED BY <2>1, <2>2 DEF FilesKeepPromises, MapsKeepPromises
<1>7. ASSUME NEW srv \in Servers, openFails(srv) \/ answer(srv)
      PROVE  FilesKeepPromises' /\ WrittenIsPromised' /\ MapsKeepPromises'
  <2> DEFINE h == holder[srv]
  <2>1. /\ h # None /\ h \in Holders /\ Server(h.store) = srv
        /\ h.store \in Stores /\ h.client \in Clients /\ h.value \in Values
    BY <1>7, HolderType DEF openFails, answer, Writing
  <2>2. /\ holder' = [holder EXCEPT ![srv] = None]
        /\ UNCHANGED <<file, tail, promised, blind, shortWrites>>
    BY <1>7 DEF openFails, answer
  <2>3. \/ ~h.written /\ memory' = memory
        \/ h.written /\ memory' = [memory EXCEPT ![h.store][h.client] = h.value]
    BY <1>7 DEF openFails, answer, Writing
  <2>4. h.written => promised[h.store][h.client] = h.value
    BY <2>1 DEF StoreInv, WrittenIsPromised
  <2>5. \A z \in Stores, d \in Clients :
          WrittenFor(z, d) => WrittenFor(z, d)' \/ (h.written /\ z = h.store /\ d = h.client)
    <3> SUFFICES ASSUME NEW z \in Stores, NEW d \in Clients, WrittenFor(z, d), Server(z) # srv
                 PROVE  WrittenFor(z, d)'
      BY DEF WrittenFor
    <3>1. holder'[Server(z)] = holder[Server(z)]
      BY <2>2 DEF TypeOK, Server, Servers
    <3> QED BY <3>1 DEF WrittenFor
  <2> HIDE DEF h
  <2>6. FilesKeepPromises'
    BY <2>2 DEF StoreInv, FilesKeepPromises
  <2>7. WrittenIsPromised'
    BY <2>2 DEF StoreInv, WrittenIsPromised, TypeOK
  <2>8. MapsKeepPromises'
    <3> SUFFICES ASSUME shortWrites = 0, NEW z \in Stores, NEW d \in Clients,
                        promised[z][d] # None, ~(z = "share1" /\ blind)
                 PROVE  memory'[z][d] = promised[z][d] \/ WrittenFor(z, d)'
      BY <2>2 DEF MapsKeepPromises
    <3>1. memory[z][d] = promised[z][d] \/ WrittenFor(z, d)
      BY DEF StoreInv, MapsKeepPromises
    <3>2. CASE h.written /\ z = h.store /\ d = h.client
      <4>1. memory'[z][d] = h.value
        BY <2>1, <2>3, <3>2 DEF TypeOK
      <4> QED BY <2>4, <3>2, <4>1
    <3>3. CASE ~(h.written /\ z = h.store /\ d = h.client)
      <4>1. memory'[z][d] = memory[z][d]
        BY <2>1, <2>3, <3>3 DEF TypeOK
      <4> QED BY <2>5, <3>1, <3>3, <4>1
    <3> QED BY <3>2, <3>3
  <2> QED BY <2>6, <2>7, <2>8
<1>8. ASSUME NEW srv \in Servers, Restart(srv)
      PROVE  FilesKeepPromises' /\ WrittenIsPromised' /\ MapsKeepPromises'
  <2>1. FilesKeepPromises'
    BY <1>8 DEF Restart, StoreInv, FilesKeepPromises
  <2>2. WrittenIsPromised'
    BY <1>8 DEF Restart, StoreInv, WrittenIsPromised, TypeOK
  <2>3. MapsKeepPromises'
    <3> SUFFICES ASSUME shortWrites = 0, NEW z \in Stores, NEW d \in Clients,
                        promised[z][d] # None, ~(z = "share1" /\ blind')
                 PROVE  memory'[z][d] = promised[z][d] \/ WrittenFor(z, d)'
      BY <1>8 DEF Restart, MapsKeepPromises
    <3>1. CASE Server(z) = srv
      <4>1. memory'[z] = Loaded(z) /\ blind' = (IF srv = "KEYSERVER" THEN ~keyFile ELSE blind)
        BY <1>8, <3>1 DEF Restart
      <4>2. Loaded(z) = file[z]
        BY <3>1, <4>1 DEF Loaded, Server
      <4>3. file[z] = promised[z]
        BY DEF StoreInv, FilesKeepPromises
      <4> QED BY <4>1, <4>2, <4>3
    <3>2. CASE Server(z) # srv
      <4>1. /\ memory'[z] = memory[z] /\ holder'[Server(z)] = holder[Server(z)]
        BY <1>8, <3>2 DEF Restart, TypeOK, Server, Servers
      <4>2. ~(z = "share1" /\ blind)
        BY <1>8, <3>2 DEF Restart, Server, Servers
      <4>3. memory[z][d] = promised[z][d] \/ WrittenFor(z, d)
        BY <4>2 DEF StoreInv, MapsKeepPromises
      <4> QED BY <4>1, <4>3 DEF WrittenFor
    <3> QED BY <3>1, <3>2
  <2> QED BY <2>1, <2>2, <2>3
<1>9. \A r \in Requests : r[1] \in Stores /\ r[2] \in Clients /\ r[3] \in Values
  BY RequestsAssumption
<1>10. CASE UNCHANGED vars
  BY <1>1, <1>10 DEF vars
<1> QED BY <1>2, <1>3, <1>4, <1>5, <1>6, <1>7, <1>8, <1>9, <1>10 DEF Next

\* keyserver.cpp, updateShare1, "the on-disk state [converges] to the same thing
\* the in-memory map has": a server in no locked section serves what its file was
\* last asked to keep, whatever crashed before (loadExistingKeys, loadExistingShares).
THEOREM ServesWhatItPromisedHolds == Spec => []ServesWhatItPromised
<1>1. StoreInv => ServesWhatItPromised
  BY DEF StoreInv, MapsKeepPromises, WrittenFor, ServesWhatItPromised
<1> QED BY <1>1, InitStoreInv, NextStoreInv, PTL DEF Spec

-----------------------------------------------------------------------------
(* One key per client *)

\* A registration that has not appended its line yet.
Registering(c) ==
    LET h == holder["KEYSERVER"]
    IN  h # None /\ h.store = "key" /\ ~h.written /\ h.client = c

\* The handler that writes a key has put it into the map before.
KeyInMapFirst ==
    LET h == holder["KEYSERVER"]
    IN  h # None /\ h.store = "key" => memory["key"][h.client] = h.value

\* Who is being registered has no key on file: it would have been in the map.
RegisteringIsNew ==
    shortWrites = 0 => \A c \in Clients : Registering(c) => promised["key"][c] = None

\* A key in the map is the one on file, but for a registration under way and for
\* one that ended in STORAGE_ERROR.
MapKeyIsPromised ==
    shortWrites = 0 => \A c \in Clients \ unsaved :
        memory["key"][c] # None /\ ~Registering(c) => promised["key"][c] = memory["key"][c]

\* What was handed out is what is on file.
FetchedIsPromised ==
    shortWrites = 0 => \A c \in Clients \ unsaved :
        None \notin fetched[c] /\ fetched[c] \subseteq {promised["key"][c]}

KeyInv == KeyInMapFirst /\ RegisteringIsNew /\ MapKeyIsPromised /\ FetchedIsPromised

\* No key is in the map, and none was handed out, at first.
LEMMA InitKeyInv == Init => KeyInv
<1> SUFFICES ASSUME Init PROVE KeyInv
  OBVIOUS
<1>1. holder["KEYSERVER"] = None
  BY DEF Init, Servers
<1>2. \A c \in Clients : memory["key"][c] = None /\ fetched[c] = {}
  BY DEF Init, Stores
<1> QED BY <1>1, <1>2
        DEF KeyInv, KeyInMapFirst, RegisteringIsNew, MapKeyIsPromised, FetchedIsPromised, Registering

\* A registration starts (registerClientKey): nothing is on file for its client,
\* as otherwise the map would have it.
LEMMA RegisterKeyInv ==
    ASSUME StoreInv, KeyInv, NEW c \in Clients, NEW v \in Values, registerClientKey(c, v)
    PROVE  KeyInv'
<1> DEFINE h == [store |-> "key", client |-> c, value |-> v, written |-> FALSE]
<1>1. /\ holder["KEYSERVER"] = None /\ memory["key"][c] = None
      /\ holder' = [holder EXCEPT !["KEYSERVER"] = h]
      /\ memory' = [memory EXCEPT !["key"][c] = v]
      /\ UNCHANGED <<promised, fetched, unsaved, shortWrites>>
  BY DEF registerClientKey, TakeLock, Server
<1>2. h.store = "key" /\ h.client = c /\ h.value = v
  OBVIOUS
<1>3. "key" \in Stores /\ "KEYSERVER" \in Servers /\ Server("key") = "KEYSERVER"
  BY DEF Stores, Servers, Server
<1> HIDE DEF h
<1>4. holder'["KEYSERVER"] = h
  BY <1>1, <1>3 DEF StoreInv, TypeOK
<1>5. memory'["key"] = [memory["key"] EXCEPT ![c] = v] /\ memory["key"] \in [Clients -> Entry]
  BY <1>1, <1>3 DEF StoreInv, TypeOK
<1>6. shortWrites = 0 => promised["key"][c] = None
  BY <1>1, <1>3 DEF StoreInv, MapsKeepPromises, WrittenFor
<1>7. \A d \in Clients : Registering(d)' => d = c
  BY <1>2, <1>4 DEF Registering
<1>8. KeyInMapFirst'
  BY <1>2, <1>4, <1>5 DEF KeyInMapFirst
<1>9. RegisteringIsNew'
  BY <1>1, <1>6, <1>7 DEF RegisteringIsNew
<1>10. MapKeyIsPromised'
  <2> SUFFICES ASSUME shortWrites = 0, NEW d \in Clients \ unsaved,
                      memory'["key"][d] # None, ~Registering(d)'
               PROVE  promised["key"][d] = memory'["key"][d]
    BY <1>1 DEF MapKeyIsPromised
  <2>1. CASE d = c
    <3>1. h \in Holders /\ h.written = FALSE
      BY <1>3 DEF h, Holders
    <3>2. h # None
      BY <3>1, NoHolderAssumption
    <3> QED BY <1>2, <1>4, <2>1, <3>1, <3>2 DEF Registering
  <2>2. CASE d # c
    <3>1. memory'["key"][d] = memory["key"][d]
      BY <1>5, <2>2
    <3>2. ~Registering(d)
      BY <1>1 DEF Registering
    <3> QED BY <3>1, <3>2 DEF KeyInv, MapKeyIsPromised
  <2> QED BY <2>1, <2>2
<1>11. FetchedIsPromised'
  BY <1>1 DEF KeyInv, FetchedIsPromised
<1> QED BY <1>8, <1>9, <1>10, <1>11 DEF KeyInv

\* A line is appended (appendLine).  If it is a key's, none was on file before, so
\* none was handed out before.
LEMMA AppendKeyInv ==
    ASSUME StoreInv, KeyInv, NEW srv \in Servers, appendLine(srv)
    PROVE  KeyInv'
<1> DEFINE h == holder[srv]
           w == [h EXCEPT !.written = TRUE]
<1>1. /\ h # None /\ h.written = FALSE /\ h \in Holders /\ Server(h.store) = srv
      /\ h.store \in Stores /\ h.client \in Clients /\ h.value \in Values
  BY HolderType DEF StoreInv, appendLine, Writing
<1>2. /\ holder' = [holder EXCEPT ![srv] = w]
      /\ promised' = [promised EXCEPT ![h.store][h.client] = h.value]
      /\ UNCHANGED <<memory, fetched, unsaved, shortWrites>>
  BY DEF appendLine, AppendDone
<1>3. w.written /\ w.store = h.store /\ w.client = h.client /\ w.value = h.value
  BY <1>1 DEF Holders
<1>4. "KEYSERVER" \in Servers /\ "key" \in Stores
  BY DEF Servers, Stores
<1>5. CASE srv = "KEYSERVER" /\ h.store = "key"
  <2>1. Registering(h.client) /\ memory["key"][h.client] = h.value
    BY <1>1, <1>5 DEF Registering, KeyInv, KeyInMapFirst
  <2> HIDE DEF h, w
  <2>2. holder'["KEYSERVER"] = w
    BY <1>2, <1>5 DEF StoreInv, TypeOK
  <2>3. promised'["key"] = [promised["key"] EXCEPT ![h.client] = h.value]
    BY <1>1, <1>2, <1>5 DEF StoreInv, TypeOK
  <2>4. promised["key"] \in [Clients -> Values \cup {None}]
    BY <1>4 DEF StoreInv, TypeOK
  <2>5. \A d \in Clients : ~Registering(d)'
    BY <1>3, <2>2 DEF Registering
  <2>6. \A d \in Clients : d # h.client => ~Registering(d)
    BY <2>1 DEF Registering
  <2>7. KeyInMapFirst'
    BY <1>2, <1>3, <2>1, <2>2 DEF KeyInMapFirst
  <2>8. RegisteringIsNew'
    BY <2>5 DEF RegisteringIsNew
  <2>9. MapKeyIsPromised'
    <3> SUFFICES ASSUME shortWrites = 0, NEW d \in Clients \ unsaved, memory["key"][d] # None
                 PROVE  promised'["key"][d] = memory["key"][d]
      BY <1>2 DEF MapKeyIsPromised
    <3>1. CASE d = h.client
      BY <2>1, <2>3, <2>4, <3>1
    <3>2. CASE d # h.client
      BY <2>3, <2>4, <2>6, <3>2 DEF KeyInv, MapKeyIsPromised
    <3> QED BY <3>1, <3>2
  <2>10. FetchedIsPromised'
    <3> SUFFICES ASSUME shortWrites = 0, NEW d \in Clients \ unsaved
                 PROVE  None \notin fetched[d] /\ fetched[d] \subseteq {promised'["key"][d]}
      BY <1>2 DEF FetchedIsPromised
    <3>1. None \notin fetched[d] /\ fetched[d] \subseteq {promised["key"][d]}
      BY DEF KeyInv, FetchedIsPromised
    <3>2. CASE d = h.client
      <4>1. promised["key"][d] = None
        BY <2>1, <3>2 DEF KeyInv, RegisteringIsNew
      <4> QED BY <3>1, <4>1
    <3>3. CASE d # h.client
      BY <2>3, <2>4, <3>1, <3>3
    <3> QED BY <3>2, <3>3
  <2> QED BY <2>7, <2>8, <2>9, <2>10 DEF KeyInv
<1>6. CASE ~(srv = "KEYSERVER" /\ h.store = "key")
  <2>1. h.store # "key"
    BY <1>1, <1>6 DEF Server
  <2> HIDE DEF h, w
  <2>2. promised'["key"] = promised["key"]
    BY <1>1, <1>2, <2>1 DEF StoreInv, TypeOK
  <2>3. \/ holder'["KEYSERVER"] = holder["KEYSERVER"]
        \/ holder'["KEYSERVER"] = w /\ holder["KEYSERVER"] = h
    BY <1>2, <1>4 DEF StoreInv, TypeOK, h
  <2>4. \A d \in Clients : Registering(d)' <=> Registering(d)
    BY <1>3, <2>1, <2>3 DEF Registering
  <2>5. KeyInMapFirst'
    BY <1>2, <1>3, <2>1, <2>3 DEF KeyInv, KeyInMapFirst
  <2> QED BY <1>2, <2>2, <2>4, <2>5
          DEF KeyInv, RegisteringIsNew, MapKeyIsPromised, FetchedIsPromised
<1> QED BY <1>5, <1>6

\* Every step keeps one key per client.
LEMMA NextKeyInv == StoreInv /\ KeyInv /\ [Next]_vars => KeyInv'
<1> SUFFICES ASSUME StoreInv, KeyInv, [Next]_vars PROVE KeyInv'
  OBVIOUS
<1>1. TypeOK /\ "KEYSERVER" \in Servers /\ "key" \in Stores /\ Server("key") = "KEYSERVER"
  BY DEF StoreInv, Servers, Stores, Server
<1>2. ASSUME UNCHANGED <<memory, holder, promised, fetched, unsaved, shortWrites>>
      PROVE  KeyInv'
  BY <1>2 DEF KeyInv, KeyInMapFirst, RegisteringIsNew, MapKeyIsPromised, FetchedIsPromised, Registering
<1>3. ASSUME NEW c \in Clients, NEW v \in Values, registerClientKey(c, v)
      PROVE  KeyInv'
  BY <1>3, RegisterKeyInv
<1>4. ASSUME NEW s \in Stores, NEW c \in Clients, NEW v \in Values,
             storeShare(s, c, v) \/ updateShare(s, c, v)
      PROVE  KeyInv'
  <2> DEFINE h == [store |-> s, client |-> c, value |-> v, written |-> FALSE]
  <2>1. /\ s # "key" /\ holder[Server(s)] = None
        /\ holder' = [holder EXCEPT ![Server(s)] = h]
        /\ UNCHANGED <<memory, promised, fetched, unsaved, shortWrites>>
    BY <1>4 DEF storeShare, updateShare, TakeLock
  <2>2. h.store = s
    OBVIOUS
  <2> HIDE DEF h
  <2>3. \/ holder'["KEYSERVER"] = holder["KEYSERVER"]
        \/ holder'["KEYSERVER"] = h /\ holder["KEYSERVER"] = None
    BY <1>1, <2>1 DEF TypeOK
  <2>4. \A d \in Clients : Registering(d)' <=> Registering(d)
    BY <2>1, <2>2, <2>3 DEF Registering
  <2>5. KeyInMapFirst'
    BY <2>1, <2>2, <2>3 DEF KeyInv, KeyInMapFirst
  <2> QED BY <2>1, <2>4, <2>5 DEF KeyInv, RegisteringIsNew, MapKeyIsPromised, FetchedIsPromised
<1>5. ASSUME NEW c \in Clients, fetchClientKey(c)
      PROVE  KeyInv'
  <2>1. /\ holder["KEYSERVER"] = None /\ memory["key"][c] # None
        /\ fetched' = [fetched EXCEPT ![c] = @ \cup {memory["key"][c]}]
        /\ UNCHANGED <<memory, holder, promised, unsaved, shortWrites>>
    BY <1>5 DEF fetchClientKey
  <2>2. KeyInMapFirst' /\ RegisteringIsNew' /\ MapKeyIsPromised'
    BY <2>1 DEF KeyInv, KeyInMapFirst, RegisteringIsNew, MapKeyIsPromised, Registering
  <2>3. FetchedIsPromised'
    <3> SUFFICES ASSUME shortWrites = 0, NEW d \in Clients \ unsaved
                 PROVE  None \notin fetched'[d] /\ fetched'[d] \subseteq {promised["key"][d]}
      BY <2>1 DEF FetchedIsPromised
    <3>1. None \notin fetched[d] /\ fetched[d] \subseteq {promised["key"][d]}
      BY DEF KeyInv, FetchedIsPromised
    <3>2. CASE d = c
      <4>1. promised["key"][c] = memory["key"][c]
        BY <2>1, <3>2 DEF KeyInv, MapKeyIsPromised, Registering
      <4>2. fetched'[c] = fetched[c] \cup {memory["key"][c]}
        BY <2>1 DEF StoreInv, TypeOK
      <4> QED BY <2>1, <3>1, <3>2, <4>1, <4>2
    <3>3. CASE d # c
      <4>1. fetched'[d] = fetched[d]
        BY <2>1, <3>3 DEF StoreInv, TypeOK
      <4> QED BY <3>1, <4>1
    <3> QED BY <3>2, <3>3
  <2> QED BY <2>2, <2>3 DEF KeyInv
<1>6. ASSUME NEW srv \in Servers, appendLine(srv)
      PROVE  KeyInv'
  BY <1>6, AppendKeyInv
<1>7. ASSUME NEW srv \in Servers, shortWrite(srv)
      PROVE  KeyInv'
  <2>1. shortWrites' # 0
    BY <1>7 DEF shortWrite, StoreInv, TypeOK
  <2>2. KeyInMapFirst'
    <3>1. /\ holder' = [holder EXCEPT ![srv].written = TRUE] /\ memory' = memory
          /\ holder[srv] # None
      BY <1>7 DEF shortWrite, AppendDone, Writing
    <3>2. CASE srv = "KEYSERVER"
      <4>1. holder["KEYSERVER"] \in Holders
        BY <1>1, <3>1, <3>2, HolderType
      <4>2. /\ holder'["KEYSERVER"].store = holder["KEYSERVER"].store
            /\ holder'["KEYSERVER"].client = holder["KEYSERVER"].client
            /\ holder'["KEYSERVER"].value = holder["KEYSERVER"].value
        BY <1>1, <3>1, <3>2, <4>1 DEF TypeOK, Holders
      <4> QED BY <3>1, <3>2, <4>2 DEF KeyInv, KeyInMapFirst
    <3>3. CASE srv # "KEYSERVER"
      <4>1. holder'["KEYSERVER"] = holder["KEYSERVER"]
        BY <1>1, <3>1, <3>3 DEF TypeOK
      <4> QED BY <3>1, <4>1 DEF KeyInv, KeyInMapFirst
    <3> QED BY <3>2, <3>3
  <2> QED BY <2>1, <2>2 DEF KeyInv, RegisteringIsNew, MapKeyIsPromised, FetchedIsPromised
<1>8. ASSUME NEW srv \in Servers, openFails(srv)
      PROVE  KeyInv'
  <2> DEFINE h == holder[srv]
  <2>1. /\ h # None /\ Server(h.store) = srv /\ h.store \in Stores /\ h.client \in Clients
        /\ holder' = [holder EXCEPT ![srv] = None]
        /\ unsaved' = (IF h.store = "key" THEN unsaved \cup {h.client} ELSE unsaved)
        /\ UNCHANGED <<memory, promised, fetched, shortWrites>>
    BY <1>1, <1>8, HolderType DEF openFails, Writing
  <2>2. /\ holder'["KEYSERVER"] = None \/ holder'["KEYSERVER"] = holder["KEYSERVER"]
    BY <1>1, <2>1 DEF TypeOK
  <2>3. \A d \in Clients : /\ Registering(d)' => Registering(d)
                           /\ d \notin unsaved' /\ Registering(d) => Registering(d)'
    <3> SUFFICES ASSUME NEW d \in Clients
                 PROVE  /\ Registering(d)' => Registering(d)
                        /\ d \notin unsaved' /\ Registering(d) => Registering(d)'
      OBVIOUS
    <3>1. CASE srv = "KEYSERVER"
      <4>1. holder'["KEYSERVER"] = None
        BY <1>1, <2>1, <3>1 DEF TypeOK
      <4> QED BY <2>1, <3>1, <4>1 DEF Registering
    <3>2. CASE srv # "KEYSERVER"
      <4>1. holder'["KEYSERVER"] = holder["KEYSERVER"]
        BY <1>1, <2>1, <3>2 DEF TypeOK
      <4> QED BY <4>1 DEF Registering
    <3> QED BY <3>1, <3>2
  <2>4. KeyInMapFirst'
    BY <2>1, <2>2 DEF KeyInv, KeyInMapFirst
  <2>5. unsaved \subseteq unsaved'
    BY <2>1
  <2> QED BY <2>1, <2>3, <2>4, <2>5
          DEF KeyInv, RegisteringIsNew, MapKeyIsPromised, FetchedIsPromised
<1>9. ASSUME NEW srv \in Servers, answer(srv)
      PROVE  KeyInv'
  <2> DEFINE h == holder[srv]
  <2>1. /\ h # None /\ h.written /\ Server(h.store) = srv
        /\ h.store \in Stores /\ h.client \in Clients
        /\ holder' = [holder EXCEPT ![srv] = None]
        /\ memory' = [memory EXCEPT ![h.store][h.client] = h.value]
        /\ UNCHANGED <<promised, fetched, unsaved, shortWrites>>
    BY <1>1, <1>9, HolderType DEF answer
  <2>2. memory'["key"] = memory["key"]
    <3>1. CASE h.store = "key"
      <4>1. memory["key"][h.client] = h.value
        BY <2>1, <3>1 DEF KeyInv, KeyInMapFirst, Server
      <4> QED BY <1>1, <2>1, <3>1, <4>1 DEF TypeOK
    <3>2. CASE h.store # "key"
      BY <1>1, <2>1, <3>2 DEF TypeOK
    <3> QED BY <3>1, <3>2
  <2>3. \A d \in Clients : Registering(d)' <=> Registering(d)
    BY <1>1, <2>1 DEF Registering, TypeOK
  <2>4. KeyInMapFirst'
    BY <1>1, <2>1, <2>2 DEF KeyInv, KeyInMapFirst, TypeOK
  <2> QED BY <2>1, <2>2, <2>3, <2>4
          DEF KeyInv, RegisteringIsNew, MapKeyIsPromised, FetchedIsPromised
<1>10. ASSUME NEW srv \in Servers, Restart(srv)
      PROVE  KeyInv'
  <2>1. UNCHANGED <<promised, fetched, unsaved, shortWrites>>
    BY <1>10 DEF Restart
  <2>2. CASE srv = "KEYSERVER"
    <3>1. holder'["KEYSERVER"] = None /\ memory'["key"] = file["key"]
      BY <1>1, <1>10, <2>2 DEF Restart, Loaded, TypeOK
    <3>2. shortWrites = 0 => file["key"] = promised["key"]
      BY <1>1 DEF StoreInv, FilesKeepPromises
    <3> QED BY <2>1, <3>1, <3>2
            DEF KeyInv, KeyInMapFirst, RegisteringIsNew, MapKeyIsPromised, FetchedIsPromised, Registering
  <2>3. CASE srv # "KEYSERVER"
    <3>1. holder'["KEYSERVER"] = holder["KEYSERVER"] /\ memory'["key"] = memory["key"]
      BY <1>1, <1>10, <2>3 DEF Restart, TypeOK
    <3> QED BY <2>1, <3>1
            DEF KeyInv, KeyInMapFirst, RegisteringIsNew, MapKeyIsPromised, FetchedIsPromised, Registering
  <2> QED BY <2>2, <2>3
<1>11. \A r \in Requests : r[1] \in Stores /\ r[2] \in Clients /\ r[3] \in Values
  BY RequestsAssumption
<1>12. CASE UNCHANGED vars
  BY <1>2, <1>12 DEF vars
<1> QED BY <1>3, <1>4, <1>5, <1>6, <1>7, <1>8, <1>9, <1>10, <1>11, <1>12 DEF Next

\* Everybody who asks for a client's key gets the same one, for ever, across races
\* of registrations, crashes and restarts (registerClientKey, fetchClientKey).
THEOREM OneKeyFetchedHolds == Spec => []OneKeyFetched
<1>1. StoreInv /\ KeyInv => OneKeyFetched
  <2> SUFFICES ASSUME KeyInv, shortWrites = 0, NEW c \in Clients \ unsaved
               PROVE  Cardinality(fetched[c]) <= 1
    BY DEF OneKeyFetched
  <2>1. fetched[c] = {} \/ fetched[c] = {promised["key"][c]}
    BY DEF KeyInv, FetchedIsPromised
  <2>2. Cardinality({}) = 0 /\ Cardinality({promised["key"][c]}) = 1
    BY FS_EmptySet, FS_Singleton
  <2> QED BY <2>1, <2>2
<1> QED BY <1>1, InitStoreInv, NextStoreInv, InitKeyInv, NextKeyInv, PTL DEF Spec

-----------------------------------------------------------------------------
(* What a torn write costs *)

\* Files whose last line is torn: the next line will be lost with it.
Torn == {s \in Stores : tail[s] # None}

\* Entries that a file does not give back, and those that the next line takes along.
Broken == {e \in Stores \X Clients : e \in Damaged \/ tail[e[1]] = e[2]}

\* Two for a torn write: its own entry, and the line that will be written behind it.
DamageInv == Cardinality(Broken) + Cardinality(Torn) <= 2 * shortWrites

\* A set that gains at most one element gains at most one in size.
LEMMA OneMore ==
    ASSUME NEW S, IsFiniteSet(S), NEW x, NEW T, T \subseteq S \cup {x}
    PROVE  IsFiniteSet(T) /\ Cardinality(T) <= Cardinality(S) + 1
<1>1. /\ IsFiniteSet(S \cup {x}) /\ Cardinality(S \cup {x}) <= Cardinality(S) + 1
      /\ Cardinality(S) \in Nat /\ Cardinality(S \cup {x}) \in Nat
  BY FS_AddElement, FS_CardinalityType
<1>2. IsFiniteSet(T) /\ Cardinality(T) <= Cardinality(S \cup {x})
  BY <1>1, FS_Subset
<1>3. Cardinality(T) \in Nat
  BY <1>2, FS_CardinalityType
<1> QED BY <1>1, <1>2, <1>3

\* There are finitely many stores and clients.
LEMMA BrokenIsFinite ==
    /\ IsFiniteSet(Stores \X Clients) /\ IsFiniteSet(Stores)
    /\ IsFiniteSet(Broken) /\ IsFiniteSet(Torn) /\ IsFiniteSet(Broken') /\ IsFiniteSet(Torn')
    /\ Cardinality(Broken) \in Nat /\ Cardinality(Torn) \in Nat
    /\ Cardinality(Broken') \in Nat /\ Cardinality(Torn') \in Nat
<1>1. IsFiniteSet(Stores)
  <2>1. IsFiniteSet({}) /\ Stores = (({} \cup {"key"}) \cup {"share1"}) \cup {"share2"}
    BY FS_EmptySet DEF Stores
  <2> QED BY <2>1, FS_AddElement
<1>2. IsFiniteSet(Stores \X Clients)
  BY <1>1, ClientsAssumption, FS_Product
<1>3. /\ Broken \subseteq Stores \X Clients /\ Broken' \subseteq Stores \X Clients
      /\ Torn \subseteq Stores /\ Torn' \subseteq Stores
  BY DEF Broken, Torn
<1>4. IsFiniteSet(Broken) /\ IsFiniteSet(Torn) /\ IsFiniteSet(Broken') /\ IsFiniteSet(Torn')
  BY <1>1, <1>2, <1>3, FS_Subset
<1> QED BY <1>1, <1>2, <1>4, FS_CardinalityType

\* Nothing is damaged at first.
LEMMA InitDamageInv == Init => DamageInv
<1> SUFFICES ASSUME Init PROVE DamageInv
  OBVIOUS
<1>1. \A s \in Stores : tail[s] = None
  BY DEF Init
<1>2. file = promised /\ shortWrites = 0
  BY DEF Init
<1>3. Torn = {}
  BY <1>1 DEF Torn
<1>4. Broken = {}
  BY <1>1, <1>2, MarkersAssumption DEF Broken, Damaged
<1> QED BY <1>2, <1>3, <1>4, FS_EmptySet DEF DamageInv

\* A line that is appended whole (appendLine) makes good what it replaces; behind a
\* torn line it is lost, and the torn line is the last one no more.
LEMMA AppendDamageInv ==
    ASSUME TypeOK, DamageInv, NEW srv \in Servers, appendLine(srv)
    PROVE  DamageInv'
<1> DEFINE s == holder[srv].store
           c == holder[srv].client
           v == holder[srv].value
<1>1. s \in Stores /\ c \in Clients /\ v \in Values
  BY HolderType DEF appendLine, Writing
<1>2. /\ file' = [file EXCEPT ![s] = LineAdded(s, c, v)]
      /\ tail' = [tail EXCEPT ![s] = None]
      /\ promised' = [promised EXCEPT ![s][c] = v]
      /\ shortWrites' = shortWrites
  BY DEF appendLine, AppendDone
<1> HIDE DEF s, c, v
<1>3. \A z \in Stores, d \in Clients :
        /\ z # s => file'[z][d] = file[z][d] /\ promised'[z][d] = promised[z][d] /\ tail'[z] = tail[z]
        /\ file'[s] = LineAdded(s, c, v) /\ tail'[s] = None
        /\ promised'[s][d] = IF d = c THEN v ELSE promised[s][d]
  BY <1>1, <1>2 DEF TypeOK
<1>4. None \notin Clients
  BY MarkersAssumption
<1>5. CASE tail[s] = None
  <2>1. \A d \in Clients : LineAdded(s, c, v)[d] = IF d = c THEN v ELSE file[s][d]
    BY <1>1, <1>5 DEF LineAdded, TypeOK
  <2>2. Broken' \subseteq Broken
    <3> SUFFICES ASSUME NEW z \in Stores, NEW d \in Clients,
                        file'[z][d] # promised'[z][d] \/ tail'[z] = d
                 PROVE  file[z][d] # promised[z][d] \/ tail[z] = d
      BY DEF Broken, Damaged
    <3>1. CASE z = s
      BY <1>3, <1>4, <2>1, <3>1
    <3>2. CASE z # s
      BY <1>3, <3>2
    <3> QED BY <3>1, <3>2
  <2>3. Torn' \subseteq Torn
    BY <1>2 DEF Torn, TypeOK
  <2>4. Cardinality(Broken') <= Cardinality(Broken) /\ Cardinality(Torn') <= Cardinality(Torn)
    BY <2>2, <2>3, BrokenIsFinite, FS_Subset
  <2> QED BY <1>2, <2>4, BrokenIsFinite DEF DamageInv, TypeOK
<1>6. CASE tail[s] # None
  <2>1. \A d \in Clients : LineAdded(s, c, v)[d] = IF d = tail[s] THEN Garbled ELSE file[s][d]
    BY <1>6 DEF LineAdded
  <2>2. Broken' \subseteq Broken \cup {<<s, c>>}
    <3> SUFFICES ASSUME NEW z \in Stores, NEW d \in Clients, <<z, d>> # <<s, c>>,
                        file'[z][d] # promised'[z][d] \/ tail'[z] = d
                 PROVE  file[z][d] # promised[z][d] \/ tail[z] = d
      BY DEF Broken, Damaged
    <3>1. CASE z = s
      BY <1>3, <1>4, <2>1, <3>1
    <3>2. CASE z # s
      BY <1>3, <3>2
    <3> QED BY <3>1, <3>2
  <2>3. s \in Torn /\ Torn' = Torn \ {s}
    BY <1>1, <1>2, <1>6 DEF Torn, TypeOK
  <2>4. Cardinality(Torn') = Cardinality(Torn) - 1
    BY <2>3, BrokenIsFinite, FS_RemoveElement
  <2>5. Cardinality(Broken') <= Cardinality(Broken) + 1
    BY <2>2, BrokenIsFinite, OneMore
  <2> QED BY <1>2, <2>4, <2>5, BrokenIsFinite DEF DamageInv, TypeOK
<1> QED BY <1>5, <1>6

\* A torn write breaks its own entry, and may leave one more torn line.
LEMMA ShortWriteDamageInv ==
    ASSUME TypeOK, DamageInv, NEW srv \in Servers, shortWrite(srv)
    PROVE  DamageInv'
<1> DEFINE s == holder[srv].store
           c == holder[srv].client
           v == holder[srv].value
<1>1. s \in Stores /\ c \in Clients /\ v \in Values
  BY HolderType DEF shortWrite, Writing
<1>2. /\ \/ UNCHANGED <<file, tail>>
         \/ tail[s] = None /\ tail' = [tail EXCEPT ![s] = JunkName] /\ UNCHANGED file
         \/ /\ tail[s] = None
            /\ tail' = [tail EXCEPT ![s] = c]
            /\ \E e \in {file[s][c], Garbled, v} : file' = [file EXCEPT ![s][c] = e]
         \/ /\ tail[s] \in Clients
            /\ file' = [file EXCEPT ![s][tail[s]] = Garbled] /\ UNCHANGED tail
      /\ promised' = [promised EXCEPT ![s][c] = v]
      /\ shortWrites' = shortWrites + 1
  BY DEF shortWrite, AppendDone
<1> HIDE DEF s, c, v
<1>3. None \notin Clients /\ JunkName \notin Clients
  BY MarkersAssumption
<1>4. \A z \in Stores, d \in Clients : <<z, d>> # <<s, c>> => promised'[z][d] = promised[z][d]
  BY <1>1, <1>2 DEF TypeOK
<1>5. \A z \in Stores, d \in Clients :
        <<z, d>> # <<s, c>> => tail'[z] # d \/ tail[z] = d
  BY <1>1, <1>2, <1>3 DEF TypeOK
<1>6. \A z \in Stores, d \in Clients :
        <<z, d>> # <<s, c>> => file'[z][d] = file[z][d] \/ tail[z] = d
  <2>1. CASE UNCHANGED file
    BY <2>1
  <2>2. ASSUME NEW e, file' = [file EXCEPT ![s][c] = e]
        PROVE  \A z \in Stores, d \in Clients : <<z, d>> # <<s, c>> => file'[z][d] = file[z][d]
    BY <1>1, <2>2 DEF TypeOK
  <2>3. CASE tail[s] \in Clients /\ file' = [file EXCEPT ![s][tail[s]] = Garbled]
    BY <1>1, <2>3 DEF TypeOK
  <2> QED BY <1>2, <2>1, <2>2, <2>3
<1>7. Broken' \subseteq Broken \cup {<<s, c>>}
  <2> SUFFICES ASSUME NEW z \in Stores, NEW d \in Clients, <<z, d>> # <<s, c>>,
                      file'[z][d] # promised'[z][d] \/ tail'[z] = d
               PROVE  file[z][d] # promised[z][d] \/ tail[z] = d
    BY DEF Broken, Damaged
  <2> QED BY <1>4, <1>5, <1>6
<1>8. Torn' \subseteq Torn \cup {s}
  BY <1>2 DEF Torn, TypeOK
<1>9. Cardinality(Broken') <= Cardinality(Broken) + 1 /\ Cardinality(Torn') <= Cardinality(Torn) + 1
  BY <1>7, <1>8, BrokenIsFinite, OneMore
<1> QED BY <1>2, <1>9, BrokenIsFinite DEF DamageInv, TypeOK

\* Nothing else touches the files, or what was promised.
LEMMA NextDamageInv == TypeOK /\ DamageInv /\ [Next]_vars => DamageInv'
<1> SUFFICES ASSUME TypeOK, DamageInv, [Next]_vars PROVE DamageInv'
  OBVIOUS
<1>1. ASSUME UNCHANGED <<file, tail, promised, shortWrites>>
      PROVE  DamageInv'
  <2>1. Broken' = Broken /\ Torn' = Torn
    BY <1>1 DEF Broken, Damaged, Torn
  <2> QED BY <1>1, <2>1 DEF DamageInv
<1>2. CASE UNCHANGED vars
  BY <1>1, <1>2 DEF vars
<1>3. ASSUME NEW s, NEW c, NEW v,
             registerClientKey(c, v) \/ storeShare(s, c, v) \/ updateShare(s, c, v)
      PROVE  DamageInv'
  BY <1>1, <1>3 DEF registerClientKey, storeShare, updateShare
<1>4. ASSUME NEW c, fetchClientKey(c)
      PROVE  DamageInv'
  BY <1>1, <1>4 DEF fetchClientKey
<1>5. ASSUME NEW srv \in Servers, openFails(srv) \/ answer(srv) \/ Restart(srv)
      PROVE  DamageInv'
  BY <1>1, <1>5 DEF openFails, answer, Restart
<1> QED BY <1>2, <1>3, <1>4, <1>5, AppendDamageInv, ShortWriteDamageInv DEF Next

\* A torn write costs two entries at most, whatever is appended behind it
\* (saveKeysToFile, saveShare1ToFile, saveShareToFile).
THEOREM DamageIsBoundedHolds == Spec => []DamageIsBounded
<1>1. TypeOK /\ DamageInv => DamageIsBounded
  <2> SUFFICES ASSUME TypeOK, DamageInv PROVE Cardinality(Damaged) <= 2 * shortWrites
    BY DEF DamageIsBounded
  <2>1. Damaged \subseteq Broken
    BY DEF Broken, Damaged
  <2>2. Cardinality(Damaged) <= Cardinality(Broken) /\ Cardinality(Damaged) \in Nat
    BY <2>1, BrokenIsFinite, FS_Subset, FS_CardinalityType
  <2> QED BY <2>2, BrokenIsFinite DEF DamageInv, TypeOK
<1> QED BY <1>1, InitTypeOK, NextTypeOK, InitDamageInv, NextDamageInv, PTL DEF Spec

=============================================================================
