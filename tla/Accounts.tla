------------------------------ MODULE Accounts ------------------------------
(***************************************************************************)
(* The accounts of gmailserver.cpp: userDatabase, an unordered_map that    *)
(* every client thread reads and writes without a mutex, and users.txt,    *)
(* which each thread loads into it when its connection starts and to which *)
(* a signup appends a line, under file_mutex.                              *)
(*                                                                         *)
(* Putting a name into the map that is not there changes the structure of  *)
(* the map and takes two steps here.  Looking up or putting in a name while*)
(* another thread is between the two is a data race: the lookup may miss   *)
(* what is there, one of two new entries may get lost, the process may die.*)
(*                                                                         *)
(* A line is cut at its first space when it is loaded, wherever the name   *)
(* that was saved ends.  The line of a name with a space is skipped, or it *)
(* is loaded under its first word when what follows looks like a hash: the *)
(* line "bob $argon2id$x $argon2id$..." is taken for one of bob's.         *)
(***************************************************************************)
EXTENDS Naturals, Sequences, FiniteSets

CONSTANTS
    Threads,     \* handleClient threads
    Names,       \* user names
    Entry,       \* what a name's line is loaded under; None: it is skipped
    Passwords,
    Garbled,     \* the hash that a cut name's line is loaded with: no password's
    MaxLines,    \* bound: lines in users.txt, written or on their way
    None

\* The names with a space in them: loading does not give them back.
Spaced == {n \in Names : Entry[n] # n}

ASSUME EntryAssumption == Entry \in [Names -> (Names \ Spaced) \cup {None}]
ASSUME NoneAssumption == None \notin Names \cup Passwords \cup {Garbled}
ASSUME GarbledAssumption == Garbled \notin Passwords
ASSUME LinesAssumption == MaxLines \in Nat

VARIABLES
    userDatabase,   \* user name -> hash; a hash is named by its password
    usersFile,      \* the lines of users.txt
    thr,            \* local state of each thread
    given,          \* history: names that a signup got
    again,          \* history: names that one more signup got
    overlapped,     \* history: names that two signups were given at the same time
    unsaved,        \* history: names whose line could not be written
    raced           \* history: the map was used while another thread changed it

vars == <<userDatabase, usersFile, thr, given, again, overlapped, unsaved, raced>>

Off  == [pc |-> "off", line |-> 0, until |-> 0, name |-> None, password |-> None]
Line == [name : Names, password : Passwords]

Init ==
    /\ userDatabase = [n \in Names |-> None]
    /\ usersFile = <<>>
    /\ thr = [t \in Threads |-> Off]
    /\ given = {} /\ again = {}
    /\ overlapped = {} /\ unsaved = {} /\ raced = FALSE

-----------------------------------------------------------------------------
(* The map *)

\* Between the two steps of a change to the map.
Changing(t) == thr[t].pc \in {"loading_put", "registering_put"}
OthersChange(t) == \E x \in Threads \ {t} : Changing(x)

\* What userDatabase.count or operator[] may find.
MayFind(t, n) == {userDatabase[n]} \cup (IF OthersChange(t) THEN {None} ELSE {})

UsesMap(t) == raced' = (raced \/ OthersChange(t))

\* The second step of a change: the entry is there, or, next to another change,
\* may be lost.
Put(t, n, p) ==
    \/ userDatabase' = [userDatabase EXCEPT ![n] = p]
    \/ OthersChange(t) /\ UNCHANGED userDatabase

\* Signups of n that have looked n up, and have not put it into the map.
SigningUp(n) ==
    {t \in Threads : thr[t].pc \in {"hashing", "registering_put"} /\ thr[t].name = n}

-----------------------------------------------------------------------------
(* loadUserDatabase, at the start of every connection *)

\* The thread starts and opens the file (no file is an empty file).
accept(t) ==
    /\ thr[t].pc = "off"
    /\ thr' = [thr EXCEPT ![t].pc = "loading", ![t].line = 1, ![t].until = Len(usersFile)]
    /\ UNCHANGED <<userDatabase, usersFile, given, again, overlapped, unsaved, raced>>

\* A line is cut at its first space; what follows must start with $argon2id$.
LoadedName(l) == Entry[l.name]
LoadedHash(l) == IF Entry[l.name] = l.name THEN l.password ELSE Garbled

LineToLoad(t) == thr[t].pc = "loading" /\ thr[t].line <= Len(usersFile)

\* A line whose name is in the map: its hash is assigned.  Or a line that is no
\* account: it is skipped.
LoadKnown(t) ==
    /\ LineToLoad(t)
    /\ LET l == usersFile[thr[t].line]
       IN  \/ /\ LoadedName(l) # None
              /\ userDatabase[LoadedName(l)] # None
              /\ userDatabase' = [userDatabase EXCEPT ![LoadedName(l)] = LoadedHash(l)]
              /\ UsesMap(t)
           \/ LoadedName(l) = None /\ UNCHANGED <<userDatabase, raced>>
    /\ thr' = [thr EXCEPT ![t].line = @ + 1]
    /\ UNCHANGED <<usersFile, given, again, overlapped, unsaved>>

\* A line whose name is new to the map.
LoadNew(t) ==
    /\ LineToLoad(t)
    /\ LoadedName(usersFile[thr[t].line]) # None
    /\ None \in MayFind(t, LoadedName(usersFile[thr[t].line]))
    /\ UsesMap(t)
    /\ thr' = [thr EXCEPT ![t].pc = "loading_put"]
    /\ UNCHANGED <<userDatabase, usersFile, given, again, overlapped, unsaved>>

LoadPut(t) ==
    /\ thr[t].pc = "loading_put"
    /\ Put(t, LoadedName(usersFile[thr[t].line]), LoadedHash(usersFile[thr[t].line]))
    /\ thr' = [thr EXCEPT ![t].pc = "loading", ![t].line = @ + 1]
    /\ UNCHANGED <<usersFile, given, again, overlapped, unsaved, raced>>

\* Mutant of LoadEnd: the thread serves its client while it loads.
LoadEnd_early(t) ==
    /\ thr[t].pc = "loading"
    /\ thr' = [thr EXCEPT ![t] = [Off EXCEPT !.pc = "auth"]]
    /\ UNCHANGED <<userDatabase, usersFile, given, again, overlapped, unsaved, raced>>

\* The end of the file, as it was when it was opened or as it is now.
LoadEnd(t) ==
    /\ thr[t].pc = "loading" /\ thr[t].line > thr[t].until
    /\ thr' = [thr EXCEPT ![t] = [Off EXCEPT !.pc = "auth"]]
    /\ UNCHANGED <<userDatabase, usersFile, given, again, overlapped, unsaved, raced>>

-----------------------------------------------------------------------------
(* handleClient's authentication loop *)

\* authenticateUser succeeds.  (A login that fails changes nothing here.)
authenticateUser(t, n) ==
    /\ thr[t].pc = "auth"
    /\ MayFind(t, n) \cap Passwords # {}
    /\ UsesMap(t)
    /\ thr' = [thr EXCEPT ![t].pc = "serving"]
    /\ UNCHANGED <<userDatabase, usersFile, given, again, overlapped, unsaved>>

\* Mutant of registerUser: whether the name is taken is not looked up.
registerUser_unchecked(t, n, p) ==
    /\ thr[t].pc = "auth"
    /\ UsesMap(t)
    /\ Len(usersFile) + Cardinality({x \in Threads : thr[x].name # None}) < MaxLines
    /\ thr' = [thr EXCEPT ![t].pc = "hashing", ![t].name = n, ![t].password = p]
    /\ overlapped' = overlapped \cup (IF SigningUp(n) # {} THEN {n} ELSE {})
    /\ UNCHANGED <<userDatabase, usersFile, given, again, unsaved>>

\* registerUser finds the name free, and goes on to hash the password.
registerUser(t, n, p) ==
    /\ thr[t].pc = "auth"
    /\ None \in MayFind(t, n)
    /\ UsesMap(t)
    /\ Len(usersFile) + Cardinality({x \in Threads : thr[x].name # None}) < MaxLines
    /\ thr' = [thr EXCEPT ![t].pc = "hashing", ![t].name = n, ![t].password = p]
    /\ overlapped' = overlapped \cup (IF SigningUp(n) # {} THEN {n} ELSE {})
    /\ UNCHANGED <<userDatabase, usersFile, given, again, unsaved>>

\* Mutant of HashFails: an empty hash is an account too.
HashFails_kept(t) ==
    /\ thr[t].pc = "hashing"
    /\ UsesMap(t)
    /\ thr' = [thr EXCEPT ![t].pc = "registering_put", ![t].password = None]
    /\ UNCHANGED <<userDatabase, usersFile, given, again, overlapped, unsaved>>

\* hashPassword returns "" (out of memory): USER_EXISTS, no account.
HashFails(t) ==
    /\ thr[t].pc = "hashing"
    /\ thr' = [thr EXCEPT ![t] = [Off EXCEPT !.pc = "auth"]]
    /\ UNCHANGED <<userDatabase, usersFile, given, again, overlapped, unsaved, raced>>

\* The name is not looked up again before it is put into the map.
Hashed(t) ==
    /\ thr[t].pc = "hashing"
    /\ UsesMap(t)
    /\ thr' = [thr EXCEPT ![t].pc = "registering_put"]
    /\ UNCHANGED <<userDatabase, usersFile, given, again, overlapped, unsaved>>

RegisterPut(t) ==
    /\ thr[t].pc = "registering_put"
    /\ Put(t, thr[t].name, thr[t].password)
    /\ thr' = [thr EXCEPT ![t].pc = "saving"]
    /\ UNCHANGED <<usersFile, given, again, overlapped, unsaved, raced>>

\* Mutant of saveUserDatabase: the file is not opened for appending.
saveUserDatabase_truncates(t) ==
    /\ thr[t].pc = "saving"
    /\ usersFile' = <<[name |-> thr[t].name, password |-> thr[t].password]>>
    /\ given' = given \cup {thr[t].name}
    /\ again' = again \cup ({thr[t].name} \cap given)
    /\ thr' = [thr EXCEPT ![t] = [Off EXCEPT !.pc = "serving"]]
    /\ UNCHANGED <<userDatabase, overlapped, unsaved, raced>>

\* saveUserDatabase, under file_mutex; AUTH_SUCCESS also when the file cannot
\* be opened.
saveUserDatabase(t) ==
    /\ thr[t].pc = "saving"
    /\ \/ /\ usersFile' = Append(usersFile, [name |-> thr[t].name, password |-> thr[t].password])
          /\ UNCHANGED unsaved
       \/ unsaved' = unsaved \cup {thr[t].name} /\ UNCHANGED usersFile
    /\ given' = given \cup {thr[t].name}
    /\ again' = again \cup ({thr[t].name} \cap given)
    /\ thr' = [thr EXCEPT ![t] = [Off EXCEPT !.pc = "serving"]]
    /\ UNCHANGED <<userDatabase, overlapped, raced>>

\* The connection ends.
close(t) ==
    /\ thr[t].pc \in {"auth", "serving"}
    /\ thr' = [thr EXCEPT ![t] = Off]
    /\ UNCHANGED <<userDatabase, usersFile, given, again, overlapped, unsaved, raced>>

\* The process dies and starts again, with an empty map.
GmailRestart ==
    /\ userDatabase' = [n \in Names |-> None]
    /\ thr' = [t \in Threads |-> Off]
    /\ UNCHANGED <<usersFile, given, again, overlapped, unsaved, raced>>

-----------------------------------------------------------------------------

ClientThread(t) ==
    \/ accept(t) \/ LoadKnown(t) \/ LoadNew(t) \/ LoadPut(t) \/ LoadEnd(t)
    \/ \E n \in Names : authenticateUser(t, n)
    \/ \E n \in Names, p \in Passwords : registerUser(t, n, p)
    \/ HashFails(t) \/ Hashed(t) \/ RegisterPut(t) \/ saveUserDatabase(t)
    \/ close(t)

Next == (\E t \in Threads : ClientThread(t)) \/ GmailRestart

Spec == Init /\ [][Next]_vars

-----------------------------------------------------------------------------
(* Properties *)

ThreadState ==
    [pc : {"off", "loading", "loading_put", "auth", "hashing", "registering_put", "saving", "serving"},
     line : Nat, until : Nat, name : Names \cup {None}, password : Passwords \cup {None}]

Hashes == Passwords \cup {Garbled}

\* Map and file hold accounts; a thread that changes the map for a line is at a
\* line of the file, one that registers has a name and a password.
TypeOK ==
    /\ userDatabase \in [Names -> Hashes \cup {None}]
    /\ usersFile \in Seq(Line)
    /\ thr \in [Threads -> ThreadState]
    /\ \A t \in Threads :
         /\ thr[t].pc \in {"loading", "loading_put"} => thr[t].line > 0
         /\ thr[t].pc = "loading_put" => thr[t].line <= Len(usersFile)
         /\ thr[t].pc \in {"hashing", "registering_put", "saving"} =>
              thr[t].name \in Names /\ thr[t].password \in Passwords
    /\ given \subseteq Names /\ again \subseteq given
    /\ overlapped \subseteq Names /\ unsaved \subseteq Names
    /\ raced \in BOOLEAN

\* What spares a name the hazards below: no two signups of it at a time, its
\* line written, no data race on the map, and no space in it.
Undisturbed(n) == n \notin overlapped \cup unsaved \cup Spaced /\ ~raced

\* A name is given to one user: whatever restarts and reloads happen, a signup is
\* refused once one for that name was accepted.
OneAccountPerName == \A n \in again : ~Undisturbed(n)

\* A line on file is loaded under n, and is not n's.
Shadowed(n) ==
    \E k \in 1..Len(usersFile) : usersFile[k].name # n /\ LoadedName(usersFile[k]) = n

\* Every later connection loads the file over the map.  That gives nobody another
\* password: the file has one line for a name, and the map agrees with it, or has
\* what a cut name's line gave it, which is no password's.
ReloadChangesNothing ==
    \A n \in Names : Undisturbed(n) =>
        \A k \in 1..Len(usersFile) : usersFile[k].name = n =>
            /\ \/ userDatabase[n] \in {None, usersFile[k].password}
               \/ Shadowed(n) /\ userDatabase[n] = Garbled
            /\ \A j \in 1..Len(usersFile) : usersFile[j].name = n => j = k

\* A thread that answers logins knows every name on file, also those that were
\* added since it started.
SavedNamesAreKnown ==
    (\E t \in Threads : thr[t].pc \notin {"off", "loading", "loading_put"}) /\ ~raced =>
        \A k \in 1..Len(usersFile) :
            usersFile[k].name \notin Spaced => userDatabase[usersFile[k].name] # None

=============================================================================
