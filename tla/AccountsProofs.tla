--------------------------- MODULE AccountsProofs ---------------------------
(***************************************************************************)
(* What holds of Accounts for any threads, names, passwords and number of  *)
(* lines in users.txt, and however often the Gmail Server is restarted.    *)
(***************************************************************************)
EXTENDS Accounts, SequenceTheorems, TLAPS

-----------------------------------------------------------------------------
(* Types *)

\* What a thread needs for what it is doing, in a file of len lines.
Placed(x, len) ==
    /\ x.pc \in {"loading", "loading_put"} => x.line > 0
    /\ x.pc = "loading_put" => x.line <= len
    /\ x.pc \in {"hashing", "registering_put", "saving"} =>
         x.name \in Names /\ x.password \in Passwords

HistoryOK ==
    /\ given \subseteq Names /\ again \subseteq given
    /\ overlapped \subseteq Names /\ unsaved \subseteq Names
    /\ raced \in BOOLEAN

\* A step of one thread keeps the threads' types when its new state has them, and
\* the file, which threads at a line of it rely on, does not get shorter.
LEMMA ThreadTypes ==
    ASSUME TypeOK, NEW t \in Threads, NEW x \in ThreadState,
           thr' = [thr EXCEPT ![t] = x], Placed(x, Len(usersFile)'),
           Len(usersFile) \in Nat, Len(usersFile)' \in Nat, Len(usersFile)' >= Len(usersFile)
    PROVE  /\ thr' \in [Threads -> ThreadState]
           /\ \A u \in Threads : Placed(thr'[u], Len(usersFile)')
<1>1. thr \in [Threads -> ThreadState] /\ \A u \in Threads : Placed(thr[u], Len(usersFile))
  BY DEF TypeOK, Placed
<1>2. thr' \in [Threads -> ThreadState] /\ thr'[t] = x
  BY <1>1
<1>3. ASSUME NEW u \in Threads, u # t PROVE Placed(thr'[u], Len(usersFile)')
  <2>1. thr'[u] = thr[u] /\ thr[u].line \in Nat
    BY <1>1, <1>3 DEF ThreadState
  <2>2. Placed(thr[u], Len(usersFile))
    BY <1>1
  <2> QED BY <2>1, <2>2 DEF Placed
<1>4. Placed(thr'[t], Len(usersFile)')
  BY <1>2 DEF Placed
<1> QED BY <1>2, <1>3, <1>4

\* TypeOK in parts.
LEMMA TypeParts ==
    TypeOK <=> /\ userDatabase \in [Names -> Hashes \cup {None}]
               /\ usersFile \in Seq(Line)
               /\ thr \in [Threads -> ThreadState]
               /\ \A t \in Threads : Placed(thr[t], Len(usersFile))
               /\ HistoryOK
BY DEF TypeOK, Placed, HistoryOK

\* The file is a sequence, so it has a length.
LEMMA FileLength == TypeOK => Len(usersFile) \in Nat
BY LenProperties DEF TypeOK

\* The initial state has the types: an empty map, no file, no thread.
LEMMA InitTypeOK == Init => TypeOK
<1> SUFFICES ASSUME Init PROVE TypeOK
  OBVIOUS
<1>1. Off \in ThreadState
  BY DEF Off, ThreadState
<1>2. usersFile \in Seq(Line)
  BY EmptySeq DEF Init
<1>3. \A t \in Threads : thr[t] = Off
  BY DEF Init
<1> QED BY <1>1, <1>2, <1>3 DEF Init, TypeOK, Off

\* A line of the file is an account.
LEMMA LineTypes ==
    ASSUME TypeOK, NEW k \in Nat, k > 0, k <= Len(usersFile)
    PROVE  usersFile[k].name \in Names /\ usersFile[k].password \in Passwords
<1>1. Len(usersFile) \in Nat
  BY FileLength
<1>2. usersFile[k] \in Line
  BY <1>1, ElementOfSeq DEF TypeOK
<1> QED BY <1>2 DEF Line

\* The line of a plain name is loaded as it was saved, any other line under a plain
\* name with a hash of nobody's, or not at all.
LEMMA LoadedLine ==
    ASSUME NEW l, l.name \in Names, l.password \in Passwords
    PROVE  /\ LoadedName(l) \in Names \cup {None}
           /\ LoadedHash(l) \in Hashes /\ LoadedHash(l) # None
           /\ l.name \notin Spaced => LoadedName(l) = l.name /\ LoadedHash(l) = l.password
           /\ LoadedName(l) # l.name => LoadedHash(l) = Garbled
           /\ LoadedName(l) = l.name => LoadedHash(l) = l.password
BY EntryAssumption, NoneAssumption DEF LoadedName, LoadedHash, Hashes, Spaced

\* The types after a step of one thread that leaves the file alone.
LEMMA FileKeptTypeOK ==
    ASSUME TypeOK, NEW t \in Threads, NEW x \in ThreadState,
           thr' = [thr EXCEPT ![t] = x], Placed(x, Len(usersFile)'),
           userDatabase' \in [Names -> Hashes \cup {None}],
           UNCHANGED usersFile, HistoryOK'
    PROVE  TypeOK'
<1>0. Len(usersFile) \in Nat /\ usersFile' = usersFile
  BY FileLength
<1>1. Len(usersFile)' \in Nat /\ Len(usersFile)' >= Len(usersFile)
  BY <1>0
<1>2. /\ thr' \in [Threads -> ThreadState]
      /\ \A u \in Threads : Placed(thr'[u], Len(usersFile)')
  BY <1>0, <1>1, ThreadTypes
<1> QED BY <1>2, TypeParts DEF TypeOK, Placed, HistoryOK

\* loadUserDatabase keeps the types.
LEMMA LoadTypeOK ==
    ASSUME TypeOK, NEW t \in Threads,
           accept(t) \/ LoadKnown(t) \/ LoadNew(t) \/ LoadPut(t) \/ LoadEnd(t)
    PROVE  TypeOK'
<1>1. /\ thr[t] \in ThreadState /\ Placed(thr[t], Len(usersFile))
      /\ thr[t].line \in Nat /\ thr[t].until \in Nat
      /\ Len(usersFile) \in Nat
  BY FileLength DEF TypeOK, ThreadState, Placed
<1>2. HistoryOK
  BY TypeParts
<1>3. LineToLoad(t) \/ thr[t].pc = "loading_put" =>
        LoadedHash(usersFile[thr[t].line]) \in Hashes
  BY <1>1, LineTypes, LoadedLine DEF LineToLoad, Placed
<1>4. CASE accept(t)
  <2> DEFINE y == [thr[t] EXCEPT !.pc = "loading"]
             z == [y EXCEPT !.line = 1]
             x == [z EXCEPT !.until = Len(usersFile)]
  <2>a. y \in ThreadState /\ y.pc = "loading"
    BY <1>1 DEF ThreadState
  <2>b. z \in ThreadState /\ z.pc = "loading" /\ z.line = 1
    <3> HIDE DEF y
    <3> QED BY <2>a DEF ThreadState
  <2>1. x \in ThreadState /\ Placed(x, Len(usersFile)')
    <3> HIDE DEF z
    <3> QED BY <1>1, <2>b DEF ThreadState, Placed
  <2>2. thr' = [thr EXCEPT ![t] = x]
    BY <1>4 DEF accept, TypeOK
  <2>3. HistoryOK' /\ UNCHANGED <<userDatabase, usersFile>>
    BY <1>2, <1>4 DEF accept, HistoryOK
  <2> HIDE DEF x
  <2> QED BY <2>1, <2>2, <2>3, FileKeptTypeOK DEF TypeOK
<1>5. CASE LoadKnown(t)
  <2> DEFINE x == [thr[t] EXCEPT !.line = @ + 1]
  <2>1. x \in ThreadState /\ Placed(x, Len(usersFile)')
    BY <1>1, <1>5 DEF ThreadState, Placed, LoadKnown, LineToLoad
  <2>2. thr' = [thr EXCEPT ![t] = x]
    BY <1>5 DEF LoadKnown, TypeOK
  <2>3. userDatabase' \in [Names -> Hashes \cup {None}]
    BY <1>3, <1>5 DEF LoadKnown, LineToLoad, TypeOK
  <2>4. HistoryOK' /\ UNCHANGED usersFile
    BY <1>2, <1>5 DEF LoadKnown, UsesMap, OthersChange, HistoryOK
  <2> HIDE DEF x
  <2> QED BY <2>1, <2>2, <2>3, <2>4, FileKeptTypeOK
<1>6. CASE LoadNew(t)
  <2> DEFINE x == [thr[t] EXCEPT !.pc = "loading_put"]
  <2>1. x \in ThreadState /\ Placed(x, Len(usersFile)')
    BY <1>1, <1>6 DEF ThreadState, Placed, LoadNew, LineToLoad
  <2>2. thr' = [thr EXCEPT ![t] = x]
    BY <1>6 DEF LoadNew, TypeOK
  <2>3. HistoryOK' /\ UNCHANGED <<userDatabase, usersFile>>
    BY <1>2, <1>6 DEF LoadNew, UsesMap, OthersChange, HistoryOK
  <2> HIDE DEF x
  <2> QED BY <2>1, <2>2, <2>3, FileKeptTypeOK DEF TypeOK
<1>7. CASE LoadPut(t)
  <2> DEFINE y == [thr[t] EXCEPT !.pc = "loading"]
             x == [y EXCEPT !.line = @ + 1]
  <2>a. y \in ThreadState /\ y.pc = "loading" /\ y.line = thr[t].line
    BY <1>1 DEF ThreadState
  <2>1. x \in ThreadState /\ Placed(x, Len(usersFile)')
    <3> HIDE DEF y
    <3> QED BY <1>1, <2>a DEF ThreadState, Placed
  <2>2. thr' = [thr EXCEPT ![t] = x]
    BY <1>7 DEF LoadPut, TypeOK
  <2>3. userDatabase' \in [Names -> Hashes \cup {None}]
    BY <1>3, <1>7 DEF LoadPut, Put, TypeOK
  <2>4. HistoryOK' /\ UNCHANGED usersFile
    BY <1>2, <1>7 DEF LoadPut, HistoryOK
  <2> HIDE DEF x
  <2> QED BY <2>1, <2>2, <2>3, <2>4, FileKeptTypeOK
<1>8. CASE LoadEnd(t)
  <2> DEFINE x == [Off EXCEPT !.pc = "auth"]
  <2>1. x \in ThreadState /\ Placed(x, Len(usersFile)')
    BY DEF Off, ThreadState, Placed
  <2>2. HistoryOK' /\ UNCHANGED <<userDatabase, usersFile>>
    BY <1>2, <1>8 DEF LoadEnd, HistoryOK
  <2> HIDE DEF x
  <2> QED BY <1>8, <2>1, <2>2, FileKeptTypeOK DEF LoadEnd, x, TypeOK
<1> QED BY <1>4, <1>5, <1>6, <1>7, <1>8

\* Logging in, signing up and the end of a connection keep the types.
LEMMA AuthTypeOK ==
    ASSUME TypeOK, NEW t \in Threads,
           \/ \E n \in Names : authenticateUser(t, n)
           \/ \E n \in Names, p \in Passwords : registerUser(t, n, p)
           \/ HashFails(t) \/ Hashed(t) \/ RegisterPut(t) \/ close(t)
    PROVE  TypeOK'
<1>1. thr[t] \in ThreadState /\ Placed(thr[t], Len(usersFile))
  BY TypeParts DEF ThreadState
<1>2. HistoryOK /\ userDatabase \in [Names -> Hashes \cup {None}]
  BY TypeParts
<1>3. Off \in ThreadState /\ Placed(Off, Len(usersFile)')
  BY DEF Off, ThreadState, Placed
<1>4. ASSUME NEW n \in Names, authenticateUser(t, n) PROVE TypeOK'
  <2> DEFINE x == [thr[t] EXCEPT !.pc = "serving"]
  <2>1. x \in ThreadState /\ Placed(x, Len(usersFile)')
    BY <1>1 DEF ThreadState, Placed
  <2>2. thr' = [thr EXCEPT ![t] = x]
    BY <1>4 DEF authenticateUser, TypeOK
  <2>3. HistoryOK' /\ UNCHANGED <<userDatabase, usersFile>>
    BY <1>2, <1>4 DEF authenticateUser, UsesMap, OthersChange, HistoryOK
  <2> HIDE DEF x
  <2> QED BY <1>2, <2>1, <2>2, <2>3, FileKeptTypeOK
<1>5. ASSUME NEW n \in Names, NEW p \in Passwords, registerUser(t, n, p)
      PROVE  TypeOK'
  <2> DEFINE y == [thr[t] EXCEPT !.pc = "hashing"]
             z == [y EXCEPT !.name = n]
             x == [z EXCEPT !.password = p]
  <2>1. y \in ThreadState /\ y.pc = "hashing"
    BY <1>1 DEF ThreadState
  <2>2. z \in ThreadState /\ z.pc = "hashing" /\ z.name = n
    <3> HIDE DEF y
    <3> QED BY <2>1 DEF ThreadState
  <2>3. x \in ThreadState /\ Placed(x, Len(usersFile)')
    <3> HIDE DEF z
    <3> QED BY <2>2 DEF ThreadState, Placed
  <2>4. thr' = [thr EXCEPT ![t] = x]
    BY <1>5 DEF registerUser, TypeOK
  <2>5. HistoryOK' /\ UNCHANGED <<userDatabase, usersFile>>
    BY <1>2, <1>5 DEF registerUser, UsesMap, OthersChange, HistoryOK
  <2> HIDE DEF x
  <2> QED BY <1>2, <2>3, <2>4, <2>5, FileKeptTypeOK
<1>6. CASE HashFails(t) \/ close(t)
  <2> DEFINE x == thr'[t]
  <2>1. x \in ThreadState /\ Placed(x, Len(usersFile)') /\ thr' = [thr EXCEPT ![t] = x]
    BY <1>3, <1>6 DEF HashFails, close, TypeOK, ThreadState, Placed, Off
  <2>2. HistoryOK' /\ UNCHANGED <<userDatabase, usersFile>>
    BY <1>2, <1>6 DEF HashFails, close, HistoryOK
  <2> HIDE DEF x
  <2> QED BY <1>2, <2>1, <2>2, FileKeptTypeOK
<1>7. CASE Hashed(t)
  <2> DEFINE x == [thr[t] EXCEPT !.pc = "registering_put"]
  <2>1. x \in ThreadState /\ Placed(x, Len(usersFile)')
    BY <1>1, <1>7 DEF Hashed, ThreadState, Placed
  <2>2. thr' = [thr EXCEPT ![t] = x]
    BY <1>7 DEF Hashed, TypeOK
  <2>3. HistoryOK' /\ UNCHANGED <<userDatabase, usersFile>>
    BY <1>2, <1>7 DEF Hashed, UsesMap, OthersChange, HistoryOK
  <2> HIDE DEF x
  <2> QED BY <1>2, <2>1, <2>2, <2>3, FileKeptTypeOK
<1>8. CASE RegisterPut(t)
  <2> DEFINE x == [thr[t] EXCEPT !.pc = "saving"]
  <2>1. x \in ThreadState /\ Placed(x, Len(usersFile)')
    BY <1>1, <1>8 DEF RegisterPut, ThreadState, Placed
  <2>2. thr' = [thr EXCEPT ![t] = x]
    BY <1>8 DEF RegisterPut, TypeOK
  <2>3. userDatabase' \in [Names -> Hashes \cup {None}]
    BY <1>1, <1>2, <1>8 DEF RegisterPut, Put, Placed, Hashes
  <2>4. HistoryOK' /\ UNCHANGED usersFile
    BY <1>2, <1>8 DEF RegisterPut, HistoryOK
  <2> HIDE DEF x
  <2> QED BY <2>1, <2>2, <2>3, <2>4, FileKeptTypeOK
<1> QED BY <1>4, <1>5, <1>6, <1>7, <1>8

\* What a signup's last step does to the file: nothing, or one line more.
LEMMA SavedFile ==
    ASSUME TypeOK, NEW t \in Threads, saveUserDatabase(t)
    PROVE  \/ usersFile' = usersFile
           \/ /\ usersFile' \in Seq(Line)
              /\ Len(usersFile)' = Len(usersFile) + 1
              /\ \A k \in 1..Len(usersFile) : usersFile'[k] = usersFile[k]
              /\ usersFile'[Len(usersFile) + 1] =
                   [name |-> thr[t].name, password |-> thr[t].password]
<1>1. [name |-> thr[t].name, password |-> thr[t].password] \in Line
  BY DEF saveUserDatabase, TypeOK, Line
<1>2. usersFile \in Seq(Line)
  BY DEF TypeOK
<1> QED BY <1>1, <1>2, AppendProperties DEF saveUserDatabase

\* The last step of a signup, which may add a line, keeps the types.
LEMMA SaveTypeOK ==
    ASSUME TypeOK, NEW t \in Threads, saveUserDatabase(t)
    PROVE  TypeOK'
<1>1. HistoryOK /\ userDatabase \in [Names -> Hashes \cup {None}]
  BY TypeParts
<1>2. thr[t].name \in Names
  BY DEF saveUserDatabase, TypeOK
<1>3. HistoryOK' /\ userDatabase' = userDatabase
  BY <1>1, <1>2 DEF saveUserDatabase, HistoryOK
<1>4. Len(usersFile) \in Nat /\ usersFile \in Seq(Line)
  BY FileLength DEF TypeOK
<1>5. /\ usersFile' \in Seq(Line)
      /\ Len(usersFile)' \in Nat /\ Len(usersFile)' >= Len(usersFile)
  <2>1. CASE usersFile' = usersFile
    BY <1>4, <2>1
  <2>2. CASE usersFile' \in Seq(Line) /\ Len(usersFile)' = Len(usersFile) + 1
    BY <1>4, <2>2
  <2> QED BY <2>1, <2>2, SavedFile
<1> DEFINE x == [Off EXCEPT !.pc = "serving"]
<1>6. x \in ThreadState /\ Placed(x, Len(usersFile)')
  BY DEF Off, ThreadState, Placed
<1>7. thr' = [thr EXCEPT ![t] = x]
  BY DEF saveUserDatabase
<1> HIDE DEF x
<1>8. /\ thr' \in [Threads -> ThreadState]
      /\ \A u \in Threads : Placed(thr'[u], Len(usersFile)')
  BY <1>4, <1>5, <1>6, <1>7, ThreadTypes
<1> QED BY <1>1, <1>3, <1>5, <1>8 DEF TypeOK, Placed, HistoryOK

\* A restart empties the map and ends all threads.
LEMMA RestartTypeOK == TypeOK /\ GmailRestart => TypeOK'
<1> SUFFICES ASSUME TypeOK, GmailRestart PROVE TypeOK'
  OBVIOUS
<1>1. Off \in ThreadState /\ Placed(Off, Len(usersFile)')
  BY DEF Off, ThreadState, Placed
<1>2. thr' \in [Threads -> ThreadState] /\ \A u \in Threads : thr'[u] = Off
  BY <1>1 DEF GmailRestart
<1>3. /\ userDatabase' \in [Names -> Hashes \cup {None}]
      /\ usersFile' = usersFile
  BY DEF GmailRestart
<1>4. HistoryOK'
  BY TypeParts DEF GmailRestart, HistoryOK
<1> QED BY <1>1, <1>2, <1>3, <1>4 DEF TypeOK, Placed, HistoryOK

\* Every step keeps the types.
LEMMA StepTypeOK == TypeOK /\ [Next]_vars => TypeOK'
<1> SUFFICES ASSUME TypeOK, [Next]_vars PROVE TypeOK'
  OBVIOUS
<1>1. CASE UNCHANGED vars
  BY <1>1 DEF vars, TypeOK
<1>2. CASE GmailRestart
  BY <1>2, RestartTypeOK
<1>3. ASSUME NEW t \in Threads, ClientThread(t) PROVE TypeOK'
  BY <1>3, LoadTypeOK, AuthTypeOK, SaveTypeOK, ZenonT(30) DEF ClientThread
<1> QED BY <1>1, <1>2, <1>3 DEF Next

\* The map and the file always hold accounts, and a thread that works on a line
\* is at a line of the file.
THEOREM TypeCorrect == Spec => []TypeOK
<1> QED BY InitTypeOK, StepTypeOK, PTL DEF Spec

-----------------------------------------------------------------------------
(* What a thread that answers logins knows *)

Loading(t) == thr[t].pc \in {"loading", "loading_put"}
SignsUp(t) == thr[t].pc \in {"hashing", "registering_put", "saving"}

\* The name at line k is in the map (or it has a space).
Known(k) == usersFile[k].name \notin Spaced => userDatabase[usersFile[k].name] # None

\* Without a race, two threads do not change the map at the same time.
OneChange ==
    ~raced => \A t \in Threads, u \in Threads : Changing(t) /\ Changing(u) => t = u

\* What a loading thread has read is in the map, and so is what was appended
\* behind the end that it reads up to.
LoadedSoFar ==
    ~raced => \A t \in Threads : Loading(t) =>
        \A k \in 1..Len(usersFile) : k < thr[t].line \/ k > thr[t].until => Known(k)

\* An account is in the map before its line is written.
PutBeforeSaved ==
    ~raced => \A t \in Threads : thr[t].pc = "saving" => userDatabase[thr[t].name] # None

KnownInv == OneChange /\ LoadedSoFar /\ PutBeforeSaved /\ SavedNamesAreKnown

\* A thread's step is its own.
LEMMA OthersKept ==
    ASSUME TypeOK, NEW t \in Threads, ClientThread(t)
    PROVE  \A u \in Threads : u # t => thr'[u] = thr[u]
BY DEF TypeOK, ClientThread, accept, LoadKnown, LoadNew, LoadPut, LoadEnd,
       authenticateUser, registerUser, HashFails, Hashed, RegisterPut,
       saveUserDatabase, close

\* What a thread does next.
LEMMA Moves ==
    ASSUME TypeOK, NEW t \in Threads, ClientThread(t)
    PROVE  /\ Changing(t)' => LoadNew(t) \/ Hashed(t)
           /\ Loading(t)' => accept(t) \/ LoadKnown(t) \/ LoadNew(t) \/ LoadPut(t)
           /\ SignsUp(t)' => \/ \E n \in Names, p \in Passwords : registerUser(t, n, p)
                             \/ Hashed(t) \/ RegisterPut(t)
           /\ thr'[t].pc = "saving" => RegisterPut(t)
           /\ thr'[t].pc \notin {"off", "loading", "loading_put"} =>
                LoadEnd(t) \/ thr[t].pc \notin {"off", "loading", "loading_put"}
<1>1. accept(t) \/ LoadPut(t) => thr'[t].pc = "loading"
  <2>1. thr \in [Threads -> ThreadState]
    BY DEF TypeOK
  <2>2. accept(t) => thr'[t].pc = "loading"
    BY <2>1 DEF accept, ThreadState
  <2>3. LoadPut(t) => thr'[t].pc = "loading"
    BY <2>1 DEF LoadPut, ThreadState
  <2> QED BY <2>2, <2>3
<1>2. LoadKnown(t) => thr'[t].pc = "loading"
  BY DEF TypeOK, LoadKnown, LineToLoad
<1>3. LoadNew(t) => thr'[t].pc = "loading_put"
  BY DEF TypeOK, LoadNew
<1>4. LoadEnd(t) => thr'[t].pc = "auth"
  BY DEF TypeOK, LoadEnd, Off
<1>5. close(t) => thr'[t].pc = "off"
  BY DEF TypeOK, close, Off
<1>6. \A n \in Names : authenticateUser(t, n) => thr'[t].pc = "serving" /\ thr[t].pc = "auth"
  BY DEF TypeOK, authenticateUser
<1>7. \A n \in Names, p \in Passwords : registerUser(t, n, p) =>
        thr'[t].pc = "hashing" /\ thr[t].pc = "auth"
  BY DEF TypeOK, registerUser
<1>8. HashFails(t) => thr'[t].pc = "auth" /\ thr[t].pc = "hashing"
  BY DEF TypeOK, HashFails, Off
<1>9. Hashed(t) => thr'[t].pc = "registering_put" /\ thr[t].pc = "hashing"
  BY DEF TypeOK, Hashed
<1>10. RegisterPut(t) => thr'[t].pc = "saving" /\ thr[t].pc = "registering_put"
  BY DEF TypeOK, RegisterPut
<1>11. saveUserDatabase(t) => thr'[t].pc = "serving" /\ thr[t].pc = "saving"
  BY DEF TypeOK, saveUserDatabase, Off
<1>12. \/ accept(t) \/ LoadKnown(t) \/ LoadNew(t) \/ LoadPut(t) \/ LoadEnd(t)
       \/ \E n \in Names : authenticateUser(t, n)
       \/ \E n \in Names, p \in Passwords : registerUser(t, n, p)
       \/ HashFails(t) \/ Hashed(t) \/ RegisterPut(t) \/ saveUserDatabase(t)
       \/ close(t)
  BY DEF ClientThread
<1> QED
  BY <1>1, <1>2, <1>3, <1>4, <1>5, <1>6, <1>7, <1>8, <1>9, <1>10, <1>11, <1>12
  DEF Changing, Loading, SignsUp

\* A change to the map that nobody disturbs takes place.
LEMMA PutTakesPlace ==
    ASSUME TypeOK, OneChange, ~raced, NEW t \in Threads, NEW n, NEW p,
           Changing(t), Put(t, n, p)
    PROVE  userDatabase' = [userDatabase EXCEPT ![n] = p]
BY DEF OneChange, Put, OthersChange

\* Names do not leave the map while the process lives.
LEMMA MapGrows ==
    ASSUME TypeOK, OneChange, ~raced, NEW t \in Threads, ClientThread(t)
    PROVE  \A n \in Names : userDatabase[n] # None => userDatabase'[n] # None
<1>1. userDatabase \in [Names -> Hashes \cup {None}] /\ None \notin Passwords
  BY NoneAssumption DEF TypeOK
<1>2. thr[t].pc = "loading_put" \/ LineToLoad(t) =>
        LoadedHash(usersFile[thr[t].line]) # None
  <2>1. thr[t].line \in Nat /\ Len(usersFile) \in Nat
    BY FileLength DEF TypeOK, ThreadState
  <2> QED BY <2>1, LineTypes, LoadedLine DEF TypeOK, LineToLoad
<1>3. CASE LoadKnown(t)
  BY <1>1, <1>2, <1>3 DEF LoadKnown
<1>4. CASE LoadPut(t)
  BY <1>1, <1>2, <1>4, PutTakesPlace DEF LoadPut, Changing
<1>5. CASE RegisterPut(t)
  <2>1. thr[t].name \in Names /\ thr[t].password \in Passwords
    BY <1>5 DEF RegisterPut, TypeOK
  <2> QED BY <1>1, <1>5, <2>1, PutTakesPlace DEF RegisterPut, Changing
<1>6. CASE UNCHANGED userDatabase
  BY <1>6
<1> QED
  BY <1>3, <1>4, <1>5, <1>6 DEF ClientThread, accept, LoadNew, LoadEnd,
     authenticateUser, registerUser, HashFails, Hashed, saveUserDatabase, close

\* Lines stay what they are; one may follow, written by a thread that saves.
LEMMA FileGrows ==
    ASSUME TypeOK, NEW t \in Threads, ClientThread(t)
    PROVE  /\ Len(usersFile) \in Nat
           /\ \/ usersFile' = usersFile
              \/ /\ thr[t].pc = "saving" /\ UNCHANGED userDatabase
                 /\ Len(usersFile)' = Len(usersFile) + 1
                 /\ \A k \in 1..Len(usersFile) : usersFile'[k] = usersFile[k]
                 /\ usersFile'[Len(usersFile) + 1] =
                      [name |-> thr[t].name, password |-> thr[t].password]
<1>1. CASE saveUserDatabase(t)
  BY <1>1, SavedFile, FileLength DEF saveUserDatabase
<1>2. CASE UNCHANGED usersFile
  BY <1>2, FileLength
<1> QED
  BY <1>1, <1>2 DEF ClientThread, accept, LoadKnown, LoadNew, LoadPut, LoadEnd,
     authenticateUser, registerUser, HashFails, Hashed, RegisterPut, close

\* Who is known stays known, and who is added to the file is known.
LEMMA KnownKept ==
    ASSUME TypeOK, OneChange, PutBeforeSaved, ~raced,
           NEW t \in Threads, ClientThread(t), NEW k \in 1..Len(usersFile)',
           k \in 1..Len(usersFile) => Known(k)
    PROVE  Known(k)'
<1>1. Len(usersFile) \in Nat
  BY FileGrows
<1>2. CASE k \in 1..Len(usersFile)
  <2>1. usersFile'[k] = usersFile[k]
    BY <1>1, <1>2, FileGrows
  <2>2. usersFile[k].name \in Names
    BY <1>1, <1>2, LineTypes
  <2> QED BY <1>2, <2>1, <2>2, MapGrows DEF Known
<1>3. CASE k \notin 1..Len(usersFile)
  <2>1. /\ thr[t].pc = "saving" /\ UNCHANGED userDatabase
        /\ k = Len(usersFile) + 1
        /\ usersFile'[k] = [name |-> thr[t].name, password |-> thr[t].password]
    BY <1>1, <1>3, FileGrows
  <2> QED BY <2>1 DEF Known, PutBeforeSaved
<1> QED BY <1>2, <1>3

\* A race is not forgotten.
LEMMA RaceStays == TypeOK /\ Next /\ ~raced' => ~raced
BY DEF TypeOK, Next, GmailRestart, ClientThread, accept, LoadKnown, LoadNew, LoadPut,
       LoadEnd, authenticateUser, registerUser, HashFails, Hashed, RegisterPut,
       saveUserDatabase, close, UsesMap

\* Only a thread that sees nobody else at it starts to change the map.
LEMMA OneChangeKept ==
    ASSUME TypeOK, OneChange, ~raced, ~raced', NEW t \in Threads, ClientThread(t)
    PROVE  OneChange'
<1>1. \A u \in Threads : u # t => thr'[u] = thr[u]
  BY OthersKept
<1>2. Changing(t)' => \A u \in Threads : Changing(u) => u = t
  <2>1. CASE LoadNew(t)
    BY <2>1 DEF LoadNew, UsesMap, OthersChange, TypeOK
  <2>2. CASE Hashed(t)
    BY <2>2 DEF Hashed, UsesMap, OthersChange, TypeOK
  <2>3. CASE ~LoadNew(t) /\ ~Hashed(t)
    BY <2>3, Moves
  <2> QED BY <2>1, <2>2, <2>3
<1> QED BY <1>1, <1>2 DEF OneChange, Changing

\* Every step of loadUserDatabase leaves behind a line whose name is in the map.
LEMMA LoadedSoFarKept ==
    ASSUME TypeOK, KnownInv, ~raced, NEW t \in Threads, ClientThread(t)
    PROVE  LoadedSoFar'
<1> SUFFICES ASSUME NEW u \in Threads, Loading(u)', NEW k \in 1..Len(usersFile)',
                    k < thr'[u].line \/ k > thr'[u].until
             PROVE  Known(k)'
  BY DEF LoadedSoFar
<1>1. Len(usersFile) \in Nat /\ (k \in 1..Len(usersFile) => usersFile'[k] = usersFile[k])
  BY FileGrows
<1>2. SUFFICES ASSUME k \in 1..Len(usersFile), ~Known(k) PROVE Known(k)'
  BY KnownKept DEF KnownInv
<1>3. CASE u # t
  BY <1>2, <1>3, OthersKept, KnownKept DEF KnownInv, LoadedSoFar, Loading
<1>4. CASE u = t
  <2>1. thr[t].line \in Nat /\ thr[t].until \in Nat
    BY DEF TypeOK, ThreadState
  <2>2. CASE accept(t)
    <3>1. thr'[t].line = 1 /\ thr'[t].until = Len(usersFile)
      BY <2>2 DEF accept, TypeOK
    <3> QED BY <1>1, <1>2, <1>4, <3>1
  <2>3. CASE LoadKnown(t)
    <3>1. /\ thr'[t].line = thr[t].line + 1 /\ thr'[t].until = thr[t].until
          /\ thr[t].pc = "loading"
      BY <2>3 DEF LoadKnown, LineToLoad, TypeOK
    <3>2. k = thr[t].line
      BY <1>2, <1>4, <2>1, <3>1 DEF KnownInv, LoadedSoFar, Loading
    <3>3. LoadedName(usersFile[k]) = usersFile[k].name
      BY <1>1, <1>2, LineTypes, LoadedLine DEF Known
    <3>4. userDatabase[usersFile[k].name] # None
      BY <1>1, <1>2, <2>3, <3>2, <3>3, LineTypes, NoneAssumption DEF LoadKnown
    <3> QED BY <1>2, <3>4 DEF Known
  <2>4. CASE LoadNew(t)
    <3>1. /\ thr'[t].line = thr[t].line /\ thr'[t].until = thr[t].until
          /\ thr[t].pc = "loading"
      BY <2>4 DEF LoadNew, LineToLoad, TypeOK
    <3> QED BY <1>2, <1>4, <3>1 DEF KnownInv, LoadedSoFar, Loading
  <2>5. CASE LoadPut(t)
    <3>1. /\ thr'[t].line = thr[t].line + 1 /\ thr'[t].until = thr[t].until
          /\ thr[t].pc = "loading_put"
      BY <2>5 DEF LoadPut, TypeOK
    <3>2. k = thr[t].line
      BY <1>2, <1>4, <2>1, <3>1 DEF KnownInv, LoadedSoFar, Loading
    <3>3. /\ usersFile[k].name \in Names /\ usersFile[k].password \in Passwords
          /\ LoadedName(usersFile[k]) = usersFile[k].name
          /\ LoadedHash(usersFile[k]) = usersFile[k].password
      BY <1>1, <1>2, LineTypes, LoadedLine DEF Known
    <3>4. userDatabase' = [userDatabase EXCEPT ![usersFile[k].name] = usersFile[k].password]
      BY <2>5, <3>1, <3>2, <3>3, PutTakesPlace DEF LoadPut, Changing, KnownInv
    <3> QED BY <1>1, <1>2, <3>3, <3>4, NoneAssumption DEF Known, TypeOK
  <2> QED BY <1>4, <2>2, <2>3, <2>4, <2>5, Moves
<1> QED BY <1>3, <1>4

\* RegisterPut puts the account into the map.
LEMMA PutBeforeSavedKept ==
    ASSUME TypeOK, KnownInv, ~raced, NEW t \in Threads, ClientThread(t)
    PROVE  PutBeforeSaved'
<1> SUFFICES ASSUME NEW u \in Threads, thr'[u].pc = "saving"
             PROVE  userDatabase'[thr'[u].name] # None
  BY DEF PutBeforeSaved
<1>1. CASE u # t
  <2>1. thr'[u] = thr[u] /\ thr[u].name \in Names
    BY <1>1, OthersKept DEF TypeOK
  <2> QED BY <2>1, MapGrows DEF KnownInv, PutBeforeSaved
<1>2. CASE u = t /\ RegisterPut(t)
  <2>1. thr[t].name \in Names /\ thr[t].password \in Passwords /\ thr'[t].name = thr[t].name
    BY <1>2 DEF RegisterPut, TypeOK
  <2>2. userDatabase' = [userDatabase EXCEPT ![thr[t].name] = thr[t].password]
    BY <1>2, <2>1, PutTakesPlace DEF RegisterPut, Changing, KnownInv
  <2> QED BY <1>2, <2>1, <2>2, NoneAssumption DEF TypeOK
<1> QED BY <1>1, <1>2, Moves

\* A thread starts to answer logins when it has loaded the file to its end.
LEMMA SavedNamesKept ==
    ASSUME TypeOK, KnownInv, ~raced, NEW t \in Threads, ClientThread(t)
    PROVE  SavedNamesAreKnown'
<1> DEFINE Answers(u) == thr[u].pc \notin {"off", "loading", "loading_put"}
<1> SUFFICES ASSUME NEW u \in Threads, Answers(u)', NEW k \in 1..Len(usersFile)'
             PROVE  Known(k)'
  BY DEF SavedNamesAreKnown, Known
<1>1. Len(usersFile) \in Nat
  BY FileGrows
<1>2. CASE \E w \in Threads : Answers(w)
  BY <1>2, KnownKept DEF KnownInv, SavedNamesAreKnown, Known
<1>3. CASE LoadEnd(t)
  <2>1. thr[t].line \in Nat /\ thr[t].until \in Nat /\ thr[t].line > thr[t].until
    BY <1>3 DEF LoadEnd, TypeOK, ThreadState
  <2>2. k \in 1..Len(usersFile) => Known(k)
    BY <1>1, <1>3, <2>1 DEF LoadEnd, KnownInv, LoadedSoFar, Loading
  <2> QED BY <2>2, KnownKept DEF KnownInv
<1>4. CASE ~LoadEnd(t) /\ ~\E w \in Threads : Answers(w)
  <2>1. u = t
    BY <1>4, OthersKept
  <2> QED BY <1>4, <2>1, Moves
<1> QED BY <1>2, <1>3, <1>4

\* A restart leaves no thread, and the invariant nothing to say.
LEMMA KnownRestart == GmailRestart => KnownInv'
<1> SUFFICES ASSUME GmailRestart PROVE KnownInv'
  OBVIOUS
<1>1. \A t \in Threads : thr'[t].pc = "off"
  BY DEF GmailRestart, Off
<1> QED BY <1>1 DEF KnownInv, OneChange, LoadedSoFar, PutBeforeSaved,
                    SavedNamesAreKnown, Changing, Loading

\* Every step keeps what a thread that answers logins needs.
LEMMA KnownStep == TypeOK /\ KnownInv /\ [Next]_vars => KnownInv'
<1> SUFFICES ASSUME TypeOK, KnownInv, [Next]_vars PROVE KnownInv'
  OBVIOUS
<1>1. CASE UNCHANGED vars
  BY <1>1 DEF vars, KnownInv, OneChange, LoadedSoFar, PutBeforeSaved,
     SavedNamesAreKnown, Changing, Loading, Known
<1>2. CASE GmailRestart
  BY <1>2, KnownRestart
<1>3. CASE raced'
  BY <1>3 DEF KnownInv, OneChange, LoadedSoFar, PutBeforeSaved, SavedNamesAreKnown
<1>4. ASSUME ~raced', NEW t \in Threads, ClientThread(t) PROVE KnownInv'
  <2>1. ~raced
    BY <1>4, RaceStays DEF Next
  <2> QED BY <1>4, <2>1, OneChangeKept, LoadedSoFarKept, PutBeforeSavedKept,
             SavedNamesKept DEF KnownInv
<1>5. TypeOK'
  BY StepTypeOK
<1> QED BY <1>1, <1>2, <1>3, <1>4, <1>5 DEF Next, TypeOK

\* At first there is no thread.
LEMMA InitKnown == Init => KnownInv
<1> SUFFICES ASSUME Init PROVE KnownInv
  OBVIOUS
<1>1. \A t \in Threads : thr[t].pc = "off"
  BY DEF Init, Off
<1> QED BY <1>1 DEF KnownInv, OneChange, LoadedSoFar, PutBeforeSaved,
                    SavedNamesAreKnown, Changing, Loading

\* As long as the map is not used while it changes, a thread that answers logins
\* knows every name in users.txt, those that others added meanwhile included (but
\* for names with a space, which are not loaded as they are).
THEOREM SavedNamesAreKnownHolds == Spec => []SavedNamesAreKnown
<1>1. KnownInv => SavedNamesAreKnown
  BY DEF KnownInv
<1> QED BY InitTypeOK, StepTypeOK, InitKnown, KnownStep, <1>1, PTL DEF Spec

-----------------------------------------------------------------------------
(* Whose account a name is *)

OnFile(n) == \E k \in 1..Len(usersFile) : usersFile[k].name = n

\* The map has p for n, or what the line of a cut name gave it.
Has(n, p) ==
    \/ userDatabase[n] = p
    \/ Shadowed(n) /\ userDatabase[n] = Garbled

\* Of an undisturbed name there is at most one signup that was not refused, it is
\* the first, and once it is in the map no other password gets there.
NewToMap ==
    \A n \in Names : Undisturbed(n) =>
        \A t \in Threads : SignsUp(t) /\ thr[t].name = n =>
            /\ n \notin given
            /\ \A u \in Threads : SignsUp(u) /\ thr[u].name = n => u = t
            /\ thr[t].pc = "saving" => Has(n, thr[t].password)

GivenOnFile == \A n \in given : Undisturbed(n) => OnFile(n)
FileIsGiven == \A k \in 1..Len(usersFile) : usersFile[k].name \in given

NamesInv ==
    /\ NewToMap /\ GivenOnFile /\ FileIsGiven
    /\ OneAccountPerName /\ ReloadChangesNothing

\* A disturbed name stays one.
LEMMA DisturbedStays ==
    ASSUME TypeOK, [Next]_vars, NEW n \in Names, Undisturbed(n)'
    PROVE  Undisturbed(n) /\ ~raced /\ ~raced'
<1>1. ~raced /\ ~raced'
  BY RaceStays DEF Undisturbed, vars
<1>2. overlapped \subseteq overlapped' /\ unsaved \subseteq unsaved'
  BY DEF TypeOK, Next, vars, GmailRestart, ClientThread, accept, LoadKnown, LoadNew,
     LoadPut, LoadEnd, authenticateUser, registerUser, HashFails, Hashed,
     RegisterPut, saveUserDatabase, close
<1> QED BY <1>1, <1>2 DEF Undisturbed

\* A name without a disturbance that is on file is in the map of a server that
\* answers.
LEMMA OnFileInMap ==
    ASSUME TypeOK, SavedNamesAreKnown, NEW t \in Threads, thr[t].pc = "auth",
           NEW n \in Names, Undisturbed(n), OnFile(n)
    PROVE  userDatabase[n] # None
BY DEF SavedNamesAreKnown, Undisturbed, OnFile

\* A signup that is not refused is the first of an undisturbed name.
LEMMA SignupIsNew ==
    ASSUME TypeOK, KnownInv, NamesInv, NEW t \in Threads, NEW n \in Names,
           NEW p \in Passwords, registerUser(t, n, p), Undisturbed(n)', Undisturbed(n), ~raced'
    PROVE  /\ n \notin given
           /\ \A u \in Threads : ~(SignsUp(u) /\ thr[u].name = n)
<1>1. userDatabase[n] = None
  BY DEF registerUser, MayFind, UsesMap, TypeOK
<1>2. n \notin given
  BY <1>1, OnFileInMap DEF registerUser, KnownInv, NamesInv, GivenOnFile
<1>3. SigningUp(n) = {}
  BY DEF registerUser, Undisturbed
<1>4. ASSUME NEW u \in Threads, SignsUp(u), thr[u].name = n PROVE FALSE
  <2>1. thr[u].pc = "saving"
    BY <1>3, <1>4 DEF SigningUp, SignsUp
  <2>2. Has(n, thr[u].password) /\ thr[u].password \in Passwords
    BY <1>4, <2>1 DEF NamesInv, NewToMap, TypeOK
  <2> QED BY <1>1, <2>2, NoneAssumption DEF Has
<1> QED BY <1>2, <1>4

\* Who signs up for n after a step did before, with the same password, or has just
\* found n free.
LEMMA SignupSteps ==
    ASSUME TypeOK, NEW t \in Threads, ClientThread(t), NEW u \in Threads,
           NEW n \in Names, SignsUp(u)', thr'[u].name = n
    PROVE  \/ SignsUp(u) /\ thr[u].name = n /\ thr'[u].password = thr[u].password
           \/ u = t /\ thr'[u].pc = "hashing" /\ \E p \in Passwords : registerUser(t, n, p)
<1>1. CASE u # t
  BY <1>1, OthersKept DEF SignsUp
<1>2. CASE u = t /\ (Hashed(t) \/ RegisterPut(t))
  BY <1>2 DEF Hashed, RegisterPut, SignsUp, TypeOK, ThreadState
<1>3. ASSUME NEW m \in Names, NEW p \in Passwords, registerUser(t, m, p), u = t
      PROVE  m = n /\ thr'[u].pc = "hashing"
  BY <1>3 DEF registerUser, TypeOK, ThreadState
<1> QED BY <1>1, <1>2, <1>3, Moves

\* A cut name's line stays on file.
LEMMA ShadowedStays ==
    ASSUME TypeOK, NEW t \in Threads, ClientThread(t), NEW n \in Names, Shadowed(n)
    PROVE  Shadowed(n)'
<1>1. PICK k \in 1..Len(usersFile) : usersFile[k].name # n /\ LoadedName(usersFile[k]) = n
  BY DEF Shadowed
<1>2. Len(usersFile) \in Nat
  BY FileGrows
<1>3. k \in 1..Len(usersFile)' /\ usersFile'[k] = usersFile[k]
  <2>1. CASE usersFile' = usersFile
    BY <2>1
  <2>2. CASE usersFile' # usersFile
    <3>1. /\ Len(usersFile)' = Len(usersFile) + 1
          /\ \A j \in 1..Len(usersFile) : usersFile'[j] = usersFile[j]
      BY <2>2, FileGrows
    <3> QED BY <1>2, <3>1
  <2> QED BY <2>1, <2>2
<1> QED BY <1>1, <1>3 DEF Shadowed, LoadedName

\* What loading line k puts into the map.
LEMMA LineWrites ==
    ASSUME TypeOK, NEW k \in 1..Len(usersFile), NEW n \in Names,
           userDatabase'[n] # userDatabase[n], UNCHANGED usersFile,
           \/ UNCHANGED userDatabase
           \/ userDatabase' = [userDatabase EXCEPT ![LoadedName(usersFile[k])] =
                                 LoadedHash(usersFile[k])]
    PROVE  \/ usersFile[k].name = n /\ userDatabase'[n] = usersFile[k].password
           \/ Shadowed(n)' /\ userDatabase'[n] = Garbled
<1>1. userDatabase \in [Names -> Hashes \cup {None}] /\ Len(usersFile) \in Nat
  BY FileLength DEF TypeOK
<1>2. LoadedName(usersFile[k]) = n /\ userDatabase'[n] = LoadedHash(usersFile[k])
  BY <1>1
<1>3. usersFile[k].name \in Names /\ usersFile[k].password \in Passwords
  BY <1>1, LineTypes
<1>4. CASE usersFile[k].name = n
  BY <1>2, <1>3, <1>4, LoadedLine
<1>5. CASE usersFile[k].name # n
  <2>1. userDatabase'[n] = Garbled
    BY <1>2, <1>3, <1>5, LoadedLine
  <2>2. Shadowed(n)
    BY <1>2, <1>5 DEF Shadowed
  <2>3. Shadowed(n)'
    BY <2>2 DEF Shadowed, LoadedName
  <2> QED BY <2>1, <2>3
<1> QED BY <1>4, <1>5

\* A password changes in the map by a line of the file, or by a signup.
LEMMA MapWrites ==
    ASSUME TypeOK, NEW t \in Threads, ClientThread(t), NEW n \in Names,
           userDatabase'[n] # userDatabase[n]
    PROVE  /\ usersFile' = usersFile
           /\ \/ \E k \in 1..Len(usersFile) :
                   usersFile[k].name = n /\ userDatabase'[n] = usersFile[k].password
              \/ Shadowed(n)' /\ userDatabase'[n] = Garbled
              \/ RegisterPut(t) /\ thr[t].name = n
<1>1. /\ userDatabase \in [Names -> Hashes \cup {None}]
      /\ thr[t].line \in Nat /\ Len(usersFile) \in Nat
  BY FileLength DEF TypeOK, ThreadState
<1>2. CASE LoadKnown(t)
  <2>1. thr[t].line \in 1..Len(usersFile)
    BY <1>1, <1>2 DEF LoadKnown, LineToLoad, TypeOK
  <2>2. UNCHANGED usersFile /\ ~RegisterPut(t)
    BY <1>2 DEF LoadKnown, LineToLoad, RegisterPut
  <2>3. \/ UNCHANGED userDatabase
        \/ userDatabase' = [userDatabase EXCEPT ![LoadedName(usersFile[thr[t].line])] =
                              LoadedHash(usersFile[thr[t].line])]
    BY <1>2 DEF LoadKnown
  <2> QED BY <2>1, <2>2, <2>3, LineWrites
<1>3. CASE LoadPut(t)
  <2>1. thr[t].line \in 1..Len(usersFile)
    BY <1>1, <1>3 DEF LoadPut, TypeOK
  <2>2. UNCHANGED usersFile
    BY <1>3 DEF LoadPut
  <2>3. \/ UNCHANGED userDatabase
        \/ userDatabase' = [userDatabase EXCEPT ![LoadedName(usersFile[thr[t].line])] =
                              LoadedHash(usersFile[thr[t].line])]
    BY <1>3 DEF LoadPut, Put
  <2> QED BY <2>1, <2>2, <2>3, LineWrites
<1>4. CASE RegisterPut(t)
  <2>1. thr[t].name \in Names
    BY <1>4 DEF RegisterPut, TypeOK
  <2> QED BY <1>1, <1>4, <2>1 DEF RegisterPut, Put
<1>5. CASE UNCHANGED userDatabase
  BY <1>5
<1> QED
  BY <1>2, <1>3, <1>4, <1>5 DEF ClientThread, accept, LoadNew, LoadEnd,
     authenticateUser, registerUser, HashFails, Hashed, saveUserDatabase, close

\* A name is given to the signup that saves it.
LEMMA GivenSteps ==
    ASSUME TypeOK, NEW t \in Threads, ClientThread(t)
    PROVE  \/ UNCHANGED <<given, again>>
           \/ /\ saveUserDatabase(t) /\ thr[t].pc = "saving" /\ thr[t].name \in Names
              /\ given' = given \cup {thr[t].name}
              /\ again' = again \cup ({thr[t].name} \cap given)
              /\ ~SignsUp(t)'
<1>1. CASE saveUserDatabase(t)
  BY <1>1 DEF saveUserDatabase, TypeOK, SignsUp, Off
<1> QED
  BY <1>1 DEF ClientThread, accept, LoadKnown, LoadNew, LoadPut, LoadEnd,
     authenticateUser, registerUser, HashFails, Hashed, RegisterPut, close

\* Nobody signs up for a name on file.
LEMMA SignupNotOnFile ==
    ASSUME NamesInv, NEW n \in Names, Undisturbed(n),
           NEW t \in Threads, SignsUp(t), thr[t].name = n
    PROVE  ~OnFile(n)
BY DEF NamesInv, NewToMap, FileIsGiven, OnFile

\* The one signup of an undisturbed name stays the one.
LEMMA NewToMapKept ==
    ASSUME TypeOK, KnownInv, NamesInv, NEW t \in Threads, ClientThread(t)
    PROVE  NewToMap'
<1> SUFFICES ASSUME NEW n \in Names, Undisturbed(n)', NEW u \in Threads,
                    SignsUp(u)', thr'[u].name = n
             PROVE  /\ n \notin given'
                    /\ \A w \in Threads : SignsUp(w)' /\ thr'[w].name = n => w = u
                    /\ thr'[u].pc = "saving" => Has(n, thr[u].password)'
  BY DEF NewToMap
<1>1. Undisturbed(n) /\ ~raced /\ ~raced'
  BY DisturbedStays DEF Next
<1>2. CASE \E p \in Passwords : registerUser(t, n, p)
  <2>1. /\ n \notin given
        /\ \A w \in Threads : ~(SignsUp(w) /\ thr[w].name = n)
    BY <1>1, <1>2, SignupIsNew
  <2>2. given' = given
    BY <1>2 DEF registerUser
  <2> QED BY <2>1, <2>2, SignupSteps
<1>3. CASE ~\E p \in Passwords : registerUser(t, n, p)
  <2>1. /\ SignsUp(u) /\ thr[u].name = n /\ thr'[u].password = thr[u].password
        /\ \A w \in Threads : SignsUp(w)' /\ thr'[w].name = n =>
             SignsUp(w) /\ thr[w].name = n
    BY <1>3, SignupSteps
  <2>2. /\ n \notin given
        /\ \A w \in Threads : SignsUp(w) /\ thr[w].name = n => w = u
        /\ thr[u].pc = "saving" => Has(n, thr[u].password)
    BY <1>1, <2>1 DEF NamesInv, NewToMap
  <2>3. n \notin given'
    BY <2>1, <2>2, GivenSteps DEF SignsUp
  <2>4. ASSUME thr'[u].pc = "saving" PROVE Has(n, thr[u].password)'
    <3>1. CASE RegisterPut(t) /\ u = t
      <4>1. userDatabase' = [userDatabase EXCEPT ![n] = thr[t].password]
        BY <1>1, <2>1, <3>1, PutTakesPlace DEF RegisterPut, Changing, KnownInv
      <4> QED BY <2>1, <3>1, <4>1 DEF TypeOK, Has
    <3>2. CASE ~(RegisterPut(t) /\ u = t)
      <4>1. thr[u].pc = "saving"
        BY <2>4, <3>2, OthersKept, Moves
      <4>2. ~OnFile(n)
        BY <1>1, <2>1, SignupNotOnFile
      <4>3. ~(RegisterPut(t) /\ thr[t].name = n)
        BY <2>2, <3>2 DEF RegisterPut, SignsUp
      <4>4. \/ userDatabase'[n] = userDatabase[n]
            \/ Shadowed(n)' /\ userDatabase'[n] = Garbled
        BY <4>2, <4>3, MapWrites DEF OnFile
      <4>5. Shadowed(n) => Shadowed(n)'
        BY ShadowedStays
      <4>6. Has(n, thr[u].password)
        BY <2>2, <4>1
      <4> QED BY <2>1, <4>4, <4>5, <4>6 DEF Has
    <3> QED BY <3>1, <3>2
  <2> QED BY <2>1, <2>2, <2>3, <2>4
<1> QED BY <1>2, <1>3

\* What is on file stays there, and what is added has a name that was given.
LEMMA FileAndGivenKept ==
    ASSUME TypeOK, KnownInv, NamesInv, NEW t \in Threads, ClientThread(t)
    PROVE  GivenOnFile' /\ FileIsGiven'
<1>1. Len(usersFile) \in Nat
  BY FileGrows
<1>2. ASSUME NEW n \in Names, OnFile(n) PROVE OnFile(n)'
  <2>1. PICK k \in 1..Len(usersFile) : usersFile[k].name = n
    BY <1>2 DEF OnFile
  <2>2. k \in 1..Len(usersFile)' /\ usersFile'[k] = usersFile[k]
    <3>1. CASE usersFile' = usersFile
      BY <3>1
    <3>2. CASE usersFile' # usersFile
      <4>1. /\ Len(usersFile)' = Len(usersFile) + 1
            /\ \A j \in 1..Len(usersFile) : usersFile'[j] = usersFile[j]
        BY <3>2, FileGrows
      <4> QED BY <1>1, <4>1
    <3> QED BY <3>1, <3>2
  <2> QED BY <2>1, <2>2 DEF OnFile
<1>3. ASSUME NEW n \in given', Undisturbed(n)' PROVE OnFile(n)'
  <2>1. n \in Names /\ Undisturbed(n)
    BY <1>3, StepTypeOK, DisturbedStays DEF Next, TypeOK
  <2>2. CASE n \in given
    BY <1>2, <2>1, <2>2 DEF NamesInv, GivenOnFile
  <2>3. CASE n \notin given
    <3>1. saveUserDatabase(t) /\ thr[t].name = n
      BY <1>3, <2>3, GivenSteps
    <3>2. usersFile' = Append(usersFile, [name |-> n, password |-> thr[t].password])
      BY <1>3, <3>1 DEF saveUserDatabase, Undisturbed
    <3>3. /\ Len(usersFile)' = Len(usersFile) + 1
          /\ usersFile'[Len(usersFile) + 1].name = n
      BY <1>1, <3>1, <3>2, AppendProperties DEF TypeOK, Line, saveUserDatabase
    <3> QED BY <1>1, <3>3 DEF OnFile
  <2> QED BY <2>2, <2>3
<1>4. ASSUME NEW k \in 1..Len(usersFile)' PROVE usersFile'[k].name \in given'
  <2>1. given \subseteq given'
    BY GivenSteps
  <2>2. CASE usersFile' = usersFile
    BY <1>4, <2>1, <2>2 DEF NamesInv, FileIsGiven
  <2>3. CASE usersFile' # usersFile
    <3>1. /\ thr[t].pc = "saving" /\ Len(usersFile)' = Len(usersFile) + 1
          /\ \A j \in 1..Len(usersFile) : usersFile'[j] = usersFile[j]
          /\ usersFile'[Len(usersFile) + 1] =
               [name |-> thr[t].name, password |-> thr[t].password]
      BY <2>3, FileGrows
    <3>2. saveUserDatabase(t)
      BY <2>3 DEF ClientThread, accept, LoadKnown, LoadNew, LoadPut, LoadEnd, close,
         authenticateUser, registerUser, HashFails, Hashed, RegisterPut
    <3>3. thr[t].name \in given'
      BY <3>2 DEF saveUserDatabase
    <3> QED BY <1>1, <1>4, <2>1, <3>1, <3>3 DEF NamesInv, FileIsGiven
  <2> QED BY <2>2, <2>3
<1> QED BY <1>3, <1>4 DEF GivenOnFile, FileIsGiven

\* The one signup of an undisturbed name finds it given to nobody.
LEMMA OneAccountKept ==
    ASSUME TypeOK, KnownInv, NamesInv, NEW t \in Threads, ClientThread(t)
    PROVE  OneAccountPerName'
<1> SUFFICES ASSUME NEW n \in again', Undisturbed(n)' PROVE FALSE
  BY DEF OneAccountPerName
<1>1. n \in Names
  BY StepTypeOK DEF Next, TypeOK
<1>2. Undisturbed(n)
  BY <1>1, DisturbedStays DEF Next
<1>3. n \notin again
  BY <1>2 DEF NamesInv, OneAccountPerName
<1>4. thr[t].pc = "saving" /\ thr[t].name = n /\ n \in given
  BY <1>3, GivenSteps
<1> QED BY <1>1, <1>2, <1>4 DEF NamesInv, NewToMap, SignsUp

\* The line of an undisturbed name is its only one, and its password is the one in
\* the map.
LEMMA ReloadKept ==
    ASSUME TypeOK, KnownInv, NamesInv, NEW t \in Threads, ClientThread(t)
    PROVE  ReloadChangesNothing'
<1> SUFFICES ASSUME NEW n \in Names, Undisturbed(n)',
                    NEW k \in 1..Len(usersFile)', usersFile'[k].name = n
             PROVE  /\ \/ userDatabase'[n] \in {None, usersFile'[k].password}
                       \/ Shadowed(n)' /\ userDatabase'[n] = Garbled
                    /\ \A j \in 1..Len(usersFile)' : usersFile'[j].name = n => j = k
  BY DEF ReloadChangesNothing
<1>1. Undisturbed(n)
  BY DisturbedStays DEF Next
<1>2. Len(usersFile) \in Nat /\ (Shadowed(n) => Shadowed(n)')
  BY FileGrows, ShadowedStays
<1>3. CASE usersFile' = usersFile
  <2>1. /\ \/ userDatabase[n] \in {None, usersFile[k].password}
           \/ Shadowed(n) /\ userDatabase[n] = Garbled
        /\ \A j \in 1..Len(usersFile) : usersFile[j].name = n => j = k
    BY <1>1, <1>3 DEF NamesInv, ReloadChangesNothing
  <2>2. OnFile(n)
    BY <1>3 DEF OnFile
  <2>3. ~(RegisterPut(t) /\ thr[t].name = n)
    BY <1>1, <2>2, SignupNotOnFile DEF RegisterPut, SignsUp
  <2>4. \/ userDatabase'[n] \in {userDatabase[n], usersFile[k].password}
        \/ Shadowed(n)' /\ userDatabase'[n] = Garbled
    BY <2>1, <2>3, MapWrites
  <2> QED BY <1>2, <1>3, <2>1, <2>4
<1>4. CASE usersFile' # usersFile
  <2>1. /\ thr[t].pc = "saving" /\ UNCHANGED userDatabase
        /\ Len(usersFile)' = Len(usersFile) + 1
        /\ \A j \in 1..Len(usersFile) : usersFile'[j] = usersFile[j]
        /\ usersFile'[Len(usersFile) + 1] =
             [name |-> thr[t].name, password |-> thr[t].password]
    BY <1>4, FileGrows
  <2>2. CASE thr[t].name = n
    <3>1. ~OnFile(n) /\ Has(n, thr[t].password)
      BY <1>1, <2>1, <2>2, SignupNotOnFile DEF SignsUp, NamesInv, NewToMap
    <3>2. \A j \in 1..Len(usersFile)' : usersFile'[j].name = n => j = Len(usersFile) + 1
      BY <1>2, <2>1, <3>1 DEF OnFile
    <3>3. k = Len(usersFile) + 1 /\ usersFile'[k].password = thr[t].password
      BY <2>1, <3>2
    <3> QED BY <1>2, <2>1, <3>1, <3>2, <3>3 DEF Has
  <2>3. CASE thr[t].name # n
    <3>1. \A j \in 1..Len(usersFile)' : usersFile'[j].name = n =>
            j \in 1..Len(usersFile) /\ usersFile[j].name = n
      BY <1>2, <2>1, <2>3
    <3> QED BY <1>1, <1>2, <2>1, <3>1 DEF NamesInv, ReloadChangesNothing
  <2> QED BY <2>2, <2>3
<1> QED BY <1>3, <1>4

\* A restart empties the map: there is nothing in it that the file could change.
LEMMA NamesRestart == TypeOK /\ NamesInv /\ GmailRestart => NamesInv'
<1> SUFFICES ASSUME TypeOK, NamesInv, GmailRestart PROVE NamesInv'
  OBVIOUS
<1>1. \A t \in Threads : thr'[t].pc = "off"
  BY DEF GmailRestart, Off
<1>2. UNCHANGED <<usersFile, given, again, overlapped, unsaved, raced>>
  BY DEF GmailRestart
<1>3. \A n \in Names : userDatabase'[n] = None
  BY DEF GmailRestart
<1> QED BY <1>1, <1>2, <1>3 DEF NamesInv, NewToMap, GivenOnFile, FileIsGiven, OnFile,
           OneAccountPerName, ReloadChangesNothing, SignsUp, Undisturbed, Shadowed

\* Every step keeps whose account a name is.
LEMMA NamesStep == TypeOK /\ KnownInv /\ NamesInv /\ [Next]_vars => NamesInv'
<1> SUFFICES ASSUME TypeOK, KnownInv, NamesInv, [Next]_vars PROVE NamesInv'
  OBVIOUS
<1>1. CASE UNCHANGED vars
  BY <1>1 DEF vars, NamesInv, NewToMap, GivenOnFile, FileIsGiven, OnFile,
     OneAccountPerName, ReloadChangesNothing, SignsUp, Undisturbed, Has, Shadowed,
     LoadedName
<1>2. CASE GmailRestart
  BY <1>2, NamesRestart
<1>3. ASSUME NEW t \in Threads, ClientThread(t) PROVE NamesInv'
  BY <1>3, NewToMapKept, FileAndGivenKept, OneAccountKept, ReloadKept DEF NamesInv
<1> QED BY <1>1, <1>2, <1>3 DEF Next

\* The initial state has no account.
LEMMA InitNames == Init => NamesInv
<1> SUFFICES ASSUME Init PROVE NamesInv
  OBVIOUS
<1>1. \A t \in Threads : thr[t].pc = "off"
  BY DEF Init, Off
<1>2. 1..Len(usersFile) = {} /\ given = {} /\ again = {}
  BY EmptySeq DEF Init
<1> QED BY <1>1, <1>2 DEF NamesInv, NewToMap, GivenOnFile, FileIsGiven,
           OneAccountPerName, ReloadChangesNothing, SignsUp

\* A name is given to one user, unless two signups of it overlapped, its line could
\* not be written, its name has a space, or the map was used while it changed.
THEOREM OneAccountPerNameHolds == Spec => []OneAccountPerName
<1>1. NamesInv => OneAccountPerName
  BY DEF NamesInv
<1> QED BY InitTypeOK, StepTypeOK, InitKnown, KnownStep, InitNames, NamesStep, <1>1, PTL DEF Spec

\* Nor does loading the file again, as every connection does, give such a name
\* another password.  Where the line of a name with a space is loaded under it, it
\* may be left with a hash that is nobody's password.
THEOREM ReloadChangesNothingHolds == Spec => []ReloadChangesNothing
<1>1. NamesInv => ReloadChangesNothing
  BY DEF NamesInv
<1> QED BY InitTypeOK, StepTypeOK, InitKnown, KnownStep, InitNames, NamesStep, <1>1, PTL DEF Spec

=============================================================================
