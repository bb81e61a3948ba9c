------------------------ MODULE ShareRotationProofs ------------------------
(***************************************************************************)
(* What holds of ShareRotation for any keys and splits, as long as there   *)
(* are enough of them to draw a new one (NamesAssumption): the types for   *)
(* any devices and any number of faults; that recovery gives back the      *)
(* registered key and that the secret is never lost, for one device and at *)
(* most one fault; that it is never lost for any devices without a fault.  *)
(***************************************************************************)
EXTENDS ShareRotation, FunctionTheorems, FiniteSetTheorems, WellFoundedInduction, TLAPS

-----------------------------------------------------------------------------
(* Fresh names *)

\* A non-empty set of numbers has a least one.
LEMMA LeastIsLeast ==
    ASSUME NEW S, S \subseteq Nat, S # {}
    PROVE  Least(S) \in S
<1> DEFINE R == {ss \in Nat \X Nat : ss[1] < ss[2]}
<1>1. IsWellFoundedOn(R, Nat)
  BY NatLessThanWellFounded DEF OpToRel
<1>2. \A x, y \in Nat : x < y => <<x, y>> \in R
  OBVIOUS
<1> HIDE DEF R
<1>3. PICK x \in S : \A y \in S : ~ (<<y, x>> \in R)
  BY <1>1, WFMin
<1>4. \A y \in S : ~(y < x)
  BY <1>2, <1>3
<1>5. \A y \in S : x <= y
  BY <1>4
<1> QED BY <1>5 DEF Least

\* There is a name that is not among fewer used ones, and Least finds it.
LEMMA FreshName ==
    ASSUME NEW S, S \subseteq Nat, IsFiniteSet(S), NEW U, IsFiniteSet(U),
           Cardinality(U) < Cardinality(S)
    PROVE  Least(S \ U) \in S \ U
<1>1. S \ U # {}
  <2> SUFFICES ASSUME S \subseteq U PROVE FALSE
    OBVIOUS
  <2>1. Cardinality(S) <= Cardinality(U)
    BY FS_Subset
  <2> QED BY <2>1, FS_CardinalityType
<1> QED BY <1>1, LeastIsLeast

\* A function has at most as many values as arguments.
LEMMA ImageBound ==
    ASSUME NEW S, IsFiniteSet(S), NEW f
    PROVE  /\ IsFiniteSet({f[x] : x \in S})
           /\ Cardinality({f[x] : x \in S}) <= Cardinality(S)
<1> DEFINE T == {f[x] : x \in S}
           g == [x \in S |-> f[x]]
<1>1. g \in Surjection(S, T)
  BY DEF Surjection
<1> HIDE DEF T, g
<1>2. IsFiniteSet(T) /\ Cardinality(T) <= Cardinality(S)
  BY <1>1, FS_Surjection
<1> QED BY <1>2 DEF T

\* Two sets together have at most as many elements as each for itself.
LEMMA UnionBound ==
    ASSUME NEW S, IsFiniteSet(S), NEW T, IsFiniteSet(T),
           NEW m \in Nat, NEW n \in Nat, Cardinality(S) <= m, Cardinality(T) <= n
    PROVE  IsFiniteSet(S \cup T) /\ Cardinality(S \cup T) <= m + n
<1>1. IsFiniteSet(S \cup T) /\ Cardinality(S \cup T) = Cardinality(S) + Cardinality(T) - Cardinality(S \cap T)
  BY FS_Union
<1>2. Cardinality(S) \in Nat /\ Cardinality(T) \in Nat /\ Cardinality(S \cap T) \in Nat
  BY FS_CardinalityType, FS_Intersection
<1> QED BY <1>1, <1>2

\* Sets of one and of two elements.
LEMMA SmallSets ==
    ASSUME NEW x, NEW y
    PROVE  /\ IsFiniteSet({x}) /\ Cardinality({x}) <= 1
           /\ IsFiniteSet({x, y}) /\ Cardinality({x, y}) <= 2
<1>1. IsFiniteSet({x}) /\ Cardinality({x}) = 1
  BY FS_Singleton
<1>2. /\ IsFiniteSet({x} \cup {y})
      /\ Cardinality({x} \cup {y}) = IF y \in {x} THEN Cardinality({x}) ELSE Cardinality({x}) + 1
  BY <1>1, FS_AddElement
<1>3. {x} \cup {y} = {x, y}
  OBVIOUS
<1>4. Cardinality({x, y}) = 1 \/ Cardinality({x, y}) = 2
  BY <1>1, <1>2, <1>3
<1> QED BY <1>1, <1>2, <1>3, <1>4

-----------------------------------------------------------------------------
(* The type invariant, with what it rests on, in parts *)

ClientState ==
    [pc : Places, passed : BOOLEAN, key_sock : BOOLEAN, pkey : Keys \cup {None},
     share1 : Shares, new : Splits \cup {None}, needs_recovery : BOOLEAN,
     outcome : {None, "NotRotated", "HalfRotated"}]

\* A client has what it needs where it is, and no split before it made one.
Ready(x) ==
    /\ x.pc \notin {"off", "keys"} => x.pkey \in Keys
    /\ x.pc \in {"store1", "store2", "update1", "update2", "save3"} => x.new \in Splits
    /\ x.pc \in {"off", "keys", "split"} => x.new = None
    /\ x.passed => x.pc \in Calls

ServersOK ==
    /\ clientPublicKeys \in Keys \cup {None}
    /\ clientShare1 \in Splits \cup {None} /\ shareStore \in Splits \cup {None}
    /\ session \in Devices \cup {None}

FilesOK ==
    /\ pem \in [Devices -> Keys \cup {None, Torn}]
    /\ share3 \in [Devices -> Splits \cup {None}]

ClientsOK ==
    /\ dev \in [Devices -> ClientState]
    /\ \A d \in Devices : Ready(dev[d])

RequestOK(r) ==
    /\ r.op \in Writes /\ r.key \in Keys /\ r.share \in Splits \cup {None}
    /\ r.op # "register" => r.share \in Splits

\* Each orphan cost a fault.
OrphansOK ==
    /\ faults \in 0..MaxFaults
    /\ IsFiniteSet(orphans) /\ Cardinality(orphans) <= faults
    /\ \A r \in orphans : RequestOK(r)

TypeInv == ServersOK /\ FilesOK /\ ClientsOK /\ OrphansOK

LEMMA TypeInvImpliesTypeOK == TypeInv => TypeOK
BY DEF TypeInv, TypeOK, ServersOK, FilesOK, ClientsOK, OrphansOK, RequestOK, ClientState, Ready

LEMMA InitTypeInv == Init => TypeInv
<1> SUFFICES ASSUME Init PROVE TypeInv
  OBVIOUS
<1>1. ServersOK /\ FilesOK
  BY DEF Init, ServersOK, FilesOK
<1>2. Off \in ClientState /\ Ready(Off)
  BY DEF Off, ClientState, Ready, Places, Shares
<1>3. ClientsOK
  BY <1>2 DEF Init, ClientsOK
<1>4. OrphansOK
  BY FS_EmptySet, NumbersAssumption DEF Init, OrphansOK
<1> QED BY <1>1, <1>3, <1>4 DEF TypeInv

-----------------------------------------------------------------------------
(* What the account's shares and keys are in use, and that there are others *)

D == Cardinality(Devices)

\* A value per device: at most as many as there are devices.
LEMMA PerDevice ==
    ASSUME NEW f
    PROVE  /\ IsFiniteSet({f[d] : d \in Devices})
           /\ Cardinality({f[d] : d \in Devices}) <= D
BY ImageBound, NamesAssumption DEF D

LEMMA NumbersOfNames ==
    /\ D \in Nat /\ MaxFaults \in Nat
    /\ Cardinality(SplitIds) \in Nat /\ Cardinality(Keys) \in Nat
    /\ Cardinality(SplitIds) > 2 + 3 * D + MaxFaults
    /\ Cardinality(Keys) > 3 + 5 * D + 2 * MaxFaults
BY NamesAssumption, NumbersAssumption, FS_CardinalityType DEF D

\* The servers know two shares, a device three, an orphan one.
LEMMA KnownSharesBound ==
    ASSUME TypeInv
    PROVE  IsFiniteSet(KnownShares) /\ Cardinality(KnownShares) <= 2 + 3 * D + MaxFaults
<1> DEFINE A == {clientShare1, shareStore}
           f == [d \in Devices |-> dev[d].share1]
           g == [d \in Devices |-> dev[d].new]
           h == [o \in orphans |-> o.share]
           B == {share3[d] : d \in Devices}
           C == {f[d] : d \in Devices}
           E == {g[d] : d \in Devices}
           F == {h[o] : o \in orphans}
<1>1. IsFiniteSet(A) /\ Cardinality(A) <= 2
  BY SmallSets
<1>2. /\ IsFiniteSet(B) /\ Cardinality(B) <= D
      /\ IsFiniteSet(C) /\ Cardinality(C) <= D
      /\ IsFiniteSet(E) /\ Cardinality(E) <= D
  <2> HIDE DEF f, g
  <2> QED BY PerDevice
<1>3. IsFiniteSet(F) /\ Cardinality(F) <= MaxFaults
  <2>1. IsFiniteSet(orphans) /\ Cardinality(orphans) <= faults /\ faults \in 0..MaxFaults
    BY DEF TypeInv, OrphansOK
  <2>2. IsFiniteSet(F) /\ Cardinality(F) <= Cardinality(orphans)
    <3> HIDE DEF h
    <3> QED BY <2>1, ImageBound
  <2>3. Cardinality(F) \in Nat /\ Cardinality(orphans) \in Nat
    BY <2>1, <2>2, FS_CardinalityType
  <2> HIDE DEF F
  <2> QED BY <2>1, <2>2, <2>3, NumbersAssumption
<1>4. KnownShares = ((A \cup B) \cup (C \cup E)) \cup F
  BY DEF KnownShares
<1> HIDE DEF A, B, C, E, F
<1>5. D \in Nat /\ MaxFaults \in Nat
  BY NumbersOfNames
<1>6. IsFiniteSet(A \cup B) /\ Cardinality(A \cup B) <= 2 + D
  BY <1>1, <1>2, <1>5, UnionBound
<1>7. IsFiniteSet(C \cup E) /\ Cardinality(C \cup E) <= D + D
  BY <1>2, <1>5, UnionBound
<1>8. IsFiniteSet((A \cup B) \cup (C \cup E)) /\ Cardinality((A \cup B) \cup (C \cup E)) <= (2 + D) + (D + D)
  <2>1. 2 + D \in Nat /\ D + D \in Nat
    BY <1>5
  <2> QED BY <1>6, <1>7, <2>1, UnionBound
<1>9. IsFiniteSet(KnownShares) /\ Cardinality(KnownShares) <= ((2 + D) + (D + D)) + MaxFaults
  <2>1. (2 + D) + (D + D) \in Nat
    BY <1>5
  <2> QED BY <1>3, <1>4, <1>5, <1>8, <2>1, UnionBound
<1> QED BY <1>5, <1>9

\* The split that the client draws is a new one.
LEMMA FreshSplit ==
    ASSUME TypeInv, NEW k \in Keys
    PROVE  /\ split_private_key(k) \in Splits
           /\ split_private_key(k).key = k
           /\ split_private_key(k) \notin KnownShares
<1> DEFINE K == KnownShares \cap Splits
           f == [x \in K |-> x.id]
           U == {f[x] : x \in K}
<1>1. IsFiniteSet(K) /\ Cardinality(K) <= 2 + 3 * D + MaxFaults
  <2>1. IsFiniteSet(KnownShares) /\ Cardinality(KnownShares) <= 2 + 3 * D + MaxFaults
    BY KnownSharesBound
  <2>2. IsFiniteSet(K) /\ Cardinality(K) <= Cardinality(KnownShares)
    BY <2>1, FS_Intersection
  <2>3. Cardinality(K) \in Nat /\ Cardinality(KnownShares) \in Nat
    BY <2>1, <2>2, FS_CardinalityType
  <2> HIDE DEF K
  <2> QED BY <2>1, <2>2, <2>3, NumbersOfNames
<1>2. IsFiniteSet(U) /\ Cardinality(U) <= Cardinality(K)
  <2> HIDE DEF f, K
  <2> QED BY <1>1, ImageBound
<1>3. U = {x.id : x \in K}
  OBVIOUS
<1>4. Cardinality(U) < Cardinality(SplitIds)
  <2>1. Cardinality(U) \in Nat /\ Cardinality(K) \in Nat
    BY <1>1, <1>2, FS_CardinalityType
  <2> HIDE DEF U, K
  <2> QED BY <1>1, <1>2, <2>1, NumbersOfNames
<1>5. Least(SplitIds \ U) \in SplitIds \ U
  <2> HIDE DEF U
  <2> QED BY <1>2, <1>4, FreshName, NamesAssumption, NumbersAssumption
<1> DEFINE i == Least(SplitIds \ U)
<1>6. split_private_key(k) = [key |-> k, id |-> i]
  BY <1>3 DEF split_private_key
<1>7. i \in SplitIds /\ \A x \in K : x.id # i
  BY <1>5
<1> HIDE DEF i, U, f
<1> QED BY <1>6, <1>7 DEF Splits

\* The key that the client generates is a key.
LEMMA FreshKey ==
    ASSUME TypeInv
    PROVE  generate_keys \in Keys
<1> DEFINE K == KnownShares \cap Splits
           f == [d \in Devices |-> dev[d].pkey]
           g == [x \in K |-> x.key]
           h == [o \in orphans |-> o.key]
           A == {clientPublicKeys}
           B == {pem[d] : d \in Devices}
           C == {f[d] : d \in Devices}
           E == {g[x] : x \in K}
           F == {h[o] : o \in orphans}
<1>1. D \in Nat /\ MaxFaults \in Nat
  BY NumbersOfNames
<1>2. IsFiniteSet(A) /\ Cardinality(A) <= 1
  BY SmallSets
<1>3. /\ IsFiniteSet(B) /\ Cardinality(B) <= D
      /\ IsFiniteSet(C) /\ Cardinality(C) <= D
  <2> HIDE DEF f
  <2> QED BY PerDevice
<1>4. IsFiniteSet(E) /\ Cardinality(E) <= 2 + 3 * D + MaxFaults
  <2>1. IsFiniteSet(KnownShares) /\ Cardinality(KnownShares) <= 2 + 3 * D + MaxFaults
    BY KnownSharesBound
  <2>2. IsFiniteSet(K) /\ Cardinality(K) <= Cardinality(KnownShares)
    BY <2>1, FS_Intersection
  <2>3. IsFiniteSet(E) /\ Cardinality(E) <= Cardinality(K)
    <3> HIDE DEF g, K
    <3> QED BY <2>2, ImageBound
  <2>4. Cardinality(K) \in Nat /\ Cardinality(KnownShares) \in Nat /\ Cardinality(E) \in Nat
    BY <2>1, <2>2, <2>3, FS_CardinalityType
  <2> HIDE DEF K, E
  <2> QED BY <1>1, <2>1, <2>2, <2>3, <2>4
<1>5. IsFiniteSet(F) /\ Cardinality(F) <= MaxFaults
  <2>1. IsFiniteSet(orphans) /\ Cardinality(orphans) <= faults /\ faults \in 0..MaxFaults
    BY DEF TypeInv, OrphansOK
  <2>2. IsFiniteSet(F) /\ Cardinality(F) <= Cardinality(orphans)
    <3> HIDE DEF h
    <3> QED BY <2>1, ImageBound
  <2>3. Cardinality(F) \in Nat /\ Cardinality(orphans) \in Nat
    BY <2>1, <2>2, FS_CardinalityType
  <2> HIDE DEF F
  <2> QED BY <1>1, <2>1, <2>2, <2>3
<1>6. KnownKeys = ((A \cup B) \cup (C \cup E)) \cup F
  BY DEF KnownKeys
<1> HIDE DEF A, B, C, E, F
<1>7. IsFiniteSet(A \cup B) /\ Cardinality(A \cup B) <= 1 + D
  BY <1>1, <1>2, <1>3, UnionBound
<1>8. IsFiniteSet(C \cup E) /\ Cardinality(C \cup E) <= D + (2 + 3 * D + MaxFaults)
  <2>1. 2 + 3 * D + MaxFaults \in Nat
    BY <1>1
  <2> QED BY <1>1, <1>3, <1>4, <2>1, UnionBound
<1>9. /\ IsFiniteSet((A \cup B) \cup (C \cup E))
      /\ Cardinality((A \cup B) \cup (C \cup E)) <= (1 + D) + (D + (2 + 3 * D + MaxFaults))
  <2>1. 1 + D \in Nat /\ D + (2 + 3 * D + MaxFaults) \in Nat
    BY <1>1
  <2> QED BY <1>7, <1>8, <2>1, UnionBound
<1>10. /\ IsFiniteSet(KnownKeys)
       /\ Cardinality(KnownKeys) <= ((1 + D) + (D + (2 + 3 * D + MaxFaults))) + MaxFaults
  <2>1. (1 + D) + (D + (2 + 3 * D + MaxFaults)) \in Nat
    BY <1>1
  <2> QED BY <1>1, <1>5, <1>6, <1>9, <2>1, UnionBound
<1>11. Cardinality(KnownKeys) \in Nat
  BY <1>10, FS_CardinalityType
<1>12. Cardinality(KnownKeys) < Cardinality(Keys)
  BY <1>10, <1>11, NumbersOfNames
<1> QED BY <1>10, <1>12, FreshName, NamesAssumption, NumbersAssumption DEF generate_keys

-----------------------------------------------------------------------------
(* The types are preserved *)

\* The client, with its call returned.
Returned(d) == [dev[d] EXCEPT !.passed = FALSE]

\* After, call by call.
LEMMA AfterCall ==
    ASSUME NEW d, NEW ok, NEW got
    PROVE  /\ dev[d].pc = "register" => After(d, ok, got) = after_register(Returned(d))
           /\ dev[d].pc = "store1" => After(d, ok, got) = after_store1(Returned(d))
           /\ dev[d].pc = "store2" => After(d, ok, got) = after_store2(Returned(d))
           /\ dev[d].pc = "login1" => After(d, ok, got) = after_login1(Returned(d), got, share3[d])
           /\ dev[d].pc = "fetch1" => After(d, ok, got) = after_fetch1(Returned(d), got)
           /\ dev[d].pc = "fetch2" => After(d, ok, got) = after_fetch2(Returned(d), got)
           /\ dev[d].pc = "update1" => After(d, ok, got) = after_update1(Returned(d), ok)
           /\ dev[d].pc = "update2" => After(d, ok, got) = after_update2(Returned(d), ok)
<1>1. (Returned(d)).pc = dev[d].pc
  BY DEF Returned
<1> QED BY <1>1 DEF After, Returned

LEMMA CallsAre ==
    \A pc : pc \in Calls => pc \in {"register", "store1", "store2", "login1", "fetch1",
                                    "fetch2", "update1", "update2"}
BY DEF Calls, Writes

\* Two shares that agree give the key of their split.
LEMMA ReconstructIsKey ==
    ASSUME NEW a, NEW b, reconstruct(a, b) # None
    PROVE  a \in Splits /\ a = b /\ reconstruct(a, b) = a.key /\ a.key \in Keys
BY DEF reconstruct, Agree, Splits

\* What a returned call makes of each part of its client's state.
AfterEffect(d, ok, got, x) ==
    /\ x \in ClientState /\ x.passed = FALSE /\ x.key_sock = dev[d].key_sock
    /\ dev[d].pc = "register" =>
         /\ x.pc = IF dev[d].new = None THEN "menu" ELSE "store1"
         /\ x.new = dev[d].new /\ x.pkey = dev[d].pkey
    /\ dev[d].pc = "store1" =>
         /\ x.pc = "store2"
         /\ x.new = dev[d].new /\ x.pkey = dev[d].pkey
    /\ dev[d].pc = "store2" =>
         /\ x.pc = "menu"
         /\ x.new = None /\ x.pkey = dev[d].pkey
    /\ dev[d].pc = "login1" =>
         /\ x.pc = "menu" /\ x.new = dev[d].new
         /\ x.pkey = dev[d].pkey \/ (Agree(got, share3[d]) /\ x.pkey = got.key)
    /\ dev[d].pc = "fetch1" =>
         /\ \/ got = None /\ x.pc = "menu"
            \/ got # None /\ x.pc = "fetch2" /\ x.share1 = got
         /\ x.new = dev[d].new /\ x.pkey = dev[d].pkey
    /\ dev[d].pc = "fetch2" =>
         \/ x.pc = "menu" /\ x.new = dev[d].new /\ x.pkey = dev[d].pkey
         \/ /\ x.pc = "update1" /\ Agree(dev[d].share1, got) /\ x.pkey = got.key
            /\ x.new = split_private_key(got.key)
    /\ dev[d].pc = "update1" =>
         /\ x.pc = IF ok THEN "update2" ELSE "savepem"
         /\ x.new = IF ok THEN dev[d].new ELSE None
         /\ x.pkey = dev[d].pkey
    /\ dev[d].pc = "update2" =>
         /\ x.pc = IF ok THEN "save3" ELSE "savepem"
         /\ x.new = IF ok THEN dev[d].new ELSE None
         /\ x.pkey = dev[d].pkey

LEMMA AfterFields ==
    ASSUME TypeInv, NEW d \in Devices, Calling(d), NEW ok \in BOOLEAN, NEW got \in Shares
    PROVE  AfterEffect(d, ok, got, After(d, ok, got))
<1>x. PICK x : x = After(d, ok, got)
  OBVIOUS
<1> DEFINE me == Returned(d)
<1>1. dev[d] \in ClientState
  BY DEF TypeInv, ClientsOK
<1>2. /\ me \in ClientState /\ me.passed = FALSE
      /\ me.pc = dev[d].pc /\ me.key_sock = dev[d].key_sock /\ me.new = dev[d].new
      /\ me.pkey = dev[d].pkey /\ me.share1 = dev[d].share1
  BY <1>1 DEF Returned, ClientState
<1> HIDE DEF me
<1>p. {"menu", "store1", "store2", "fetch2", "update1", "update2", "save3", "savepem"} \subseteq Places
  BY DEF Places, Calls, Writes
<1>3. ASSUME dev[d].pc = "register"
      PROVE  /\ x \in ClientState /\ x.passed = FALSE /\ x.key_sock = dev[d].key_sock
             /\ x.pc = IF dev[d].new = None THEN "menu" ELSE "store1"
             /\ x.new = dev[d].new /\ x.pkey = dev[d].pkey
  <2>1. x = [me EXCEPT !.pc = IF me.new = None THEN "menu" ELSE "store1"]
    BY <1>3, <1>x, AfterCall DEF me, after_register
  <2>2. x \in ClientState
    BY <1>2, <1>p, <2>1 DEF ClientState
  <2>3. x.passed = me.passed /\ x.key_sock = me.key_sock
    BY <1>2, <2>1 DEF ClientState
  <2>4. /\ x.pc = IF dev[d].new = None THEN "menu" ELSE "store1"
        /\ x.new = dev[d].new /\ x.pkey = dev[d].pkey
    BY <1>2, <2>1 DEF ClientState
  <2> QED BY <1>2, <2>2, <2>3, <2>4
<1>4. ASSUME dev[d].pc = "store1"
      PROVE  /\ x \in ClientState /\ x.passed = FALSE /\ x.key_sock = dev[d].key_sock
             /\ x.pc = "store2"
             /\ x.new = dev[d].new /\ x.pkey = dev[d].pkey
  <2>1. x = [me EXCEPT !.pc = "store2"]
    BY <1>4, <1>x, AfterCall DEF me, after_store1
  <2>2. x \in ClientState
    BY <1>2, <1>p, <2>1 DEF ClientState
  <2>3. x.passed = me.passed /\ x.key_sock = me.key_sock
    BY <1>2, <2>1 DEF ClientState
  <2>4. /\ x.pc = "store2"
        /\ x.new = dev[d].new /\ x.pkey = dev[d].pkey
    BY <1>2, <2>1 DEF ClientState
  <2> QED BY <1>2, <2>2, <2>3, <2>4
<1>5. ASSUME dev[d].pc = "store2"
      PROVE  /\ x \in ClientState /\ x.passed = FALSE /\ x.key_sock = dev[d].key_sock
             /\ x.pc = "menu"
             /\ x.new = None /\ x.pkey = dev[d].pkey
  <2>1. x = [me EXCEPT !.pc = "menu", !.new = None]
    BY <1>5, <1>x, AfterCall DEF me, after_store2
  <2>2. x \in ClientState
    BY <1>2, <1>p, <2>1 DEF ClientState
  <2>3. x.passed = me.passed /\ x.key_sock = me.key_sock
    BY <1>2, <2>1 DEF ClientState
  <2>4. /\ x.pc = "menu"
        /\ x.new = None /\ x.pkey = dev[d].pkey
    BY <1>2, <2>1 DEF ClientState
  <2> QED BY <1>2, <2>2, <2>3, <2>4
<1>6. ASSUME dev[d].pc = "login1"
      PROVE  /\ x \in ClientState /\ x.passed = FALSE /\ x.key_sock = dev[d].key_sock
             /\ x.pc = "menu" /\ x.new = dev[d].new
             /\ x.pkey = dev[d].pkey \/ (Agree(got, share3[d]) /\ x.pkey = got.key)
  <2> DEFINE k == reconstruct(got, share3[d])
             b == (k = None)
  <2>1. x = [me EXCEPT !.pc = "menu", !.pkey = IF k = None THEN @ ELSE k, !.needs_recovery = b]
    <3>1. x = after_login1(me, got, share3[d])
      BY <1>6, <1>x, AfterCall DEF me
    <3> QED BY <3>1 DEF after_login1
  <2>2. k = None \/ (k \in Keys /\ Agree(got, share3[d]) /\ k = got.key)
    BY ReconstructIsKey DEF Agree
  <2>3. b \in BOOLEAN
    OBVIOUS
  <2> HIDE DEF k, b
  <2>4. x \in ClientState
    BY <1>2, <1>p, <2>1, <2>2, <2>3 DEF ClientState
  <2>5. x.passed = me.passed /\ x.key_sock = me.key_sock
    BY <1>2, <2>1 DEF ClientState
  <2>6. x.pc = "menu" /\ x.new = me.new /\ x.pkey = IF k = None THEN me.pkey ELSE k
    BY <1>2, <2>1 DEF ClientState
  <2>7. x.pkey = me.pkey \/ (Agree(got, share3[d]) /\ x.pkey = got.key)
    BY <2>2, <2>6
  <2> QED BY <1>2, <2>4, <2>5, <2>6, <2>7
<1>7. ASSUME dev[d].pc = "fetch1"
      PROVE  /\ x \in ClientState /\ x.passed = FALSE /\ x.key_sock = dev[d].key_sock
             /\ \/ got = None /\ x.pc = "menu"
                \/ got # None /\ x.pc = "fetch2" /\ x.share1 = got
             /\ x.new = dev[d].new /\ x.pkey = dev[d].pkey
  <2>1. x = IF got = None THEN [me EXCEPT !.pc = "menu", !.share1 = None]
            ELSE [me EXCEPT !.pc = "fetch2", !.share1 = got]
    <3>1. x = after_fetch1(me, got)
      BY <1>7, <1>x, AfterCall DEF me
    <3> QED BY <3>1 DEF after_fetch1, recovery_failed
  <2>2. None \in Shares
    BY DEF Shares
  <2>3. x \in ClientState
    BY <1>2, <1>p, <2>1, <2>2 DEF ClientState
  <2>4. x.passed = me.passed /\ x.key_sock = me.key_sock
    BY <1>2, <2>1 DEF ClientState
  <2>5. /\ \/ got = None /\ x.pc = "menu"
           \/ got # None /\ x.pc = "fetch2" /\ x.share1 = got
        /\ x.new = me.new /\ x.pkey = me.pkey
    BY <1>2, <2>1 DEF ClientState
  <2> QED BY <1>2, <2>3, <2>4, <2>5
<1>8. ASSUME dev[d].pc = "fetch2"
      PROVE  /\ x \in ClientState /\ x.passed = FALSE /\ x.key_sock = dev[d].key_sock
             /\ \/ x.pc = "menu" /\ x.new = dev[d].new /\ x.pkey = dev[d].pkey
                \/ /\ x.pc = "update1" /\ Agree(dev[d].share1, got) /\ x.pkey = got.key
                   /\ x.new = split_private_key(got.key)
  <2> DEFINE k == reconstruct(me.share1, got)
             new == split_private_key(k)
  <2>1. x = IF k = None THEN [me EXCEPT !.pc = "menu", !.share1 = None]
            ELSE [me EXCEPT !.pc = "update1", !.share1 = None, !.pkey = k, !.new = new]
    <3>1. x = after_fetch2(me, got)
      BY <1>8, <1>x, AfterCall DEF me
    <3> QED BY <3>1 DEF after_fetch2, recovery_failed
  <2>2. k # None => k \in Keys /\ Agree(me.share1, got) /\ k = got.key
    BY ReconstructIsKey DEF Agree
  <2>3. k # None => new \in Splits /\ new = split_private_key(got.key)
    BY <2>2, FreshSplit
  <2>4. None \in Shares
    BY DEF Shares
  <2> HIDE DEF k, new
  <2>5. x \in ClientState
    BY <1>2, <1>p, <2>1, <2>2, <2>3, <2>4 DEF ClientState
  <2>6. x.passed = me.passed /\ x.key_sock = me.key_sock
    BY <1>2, <2>1 DEF ClientState
  <2>7. \/ x.pc = "menu" /\ x.new = me.new /\ x.pkey = me.pkey
        \/ k # None /\ x.pc = "update1" /\ x.pkey = k /\ x.new = new
    BY <1>2, <2>1 DEF ClientState
  <2>8. \/ x.pc = "menu" /\ x.new = dev[d].new /\ x.pkey = dev[d].pkey
        \/ /\ x.pc = "update1" /\ Agree(dev[d].share1, got) /\ x.pkey = got.key
           /\ x.new = split_private_key(got.key)
    BY <1>2, <2>2, <2>3, <2>7
  <2> QED BY <1>2, <2>5, <2>6, <2>8
<1>9. ASSUME dev[d].pc = "update1"
       PROVE  /\ x \in ClientState /\ x.passed = FALSE /\ x.key_sock = dev[d].key_sock
              /\ x.pc = IF ok THEN "update2" ELSE "savepem"
              /\ x.new = IF ok THEN dev[d].new ELSE None
              /\ x.pkey = dev[d].pkey
  <2>1. x = IF ok THEN [me EXCEPT !.pc = "update2"]
            ELSE [me EXCEPT !.pc = "savepem", !.new = None, !.outcome = "NotRotated"]
    <3>1. x = after_update1(me, ok)
      BY <1>9, <1>x, AfterCall DEF me
    <3> QED BY <3>1 DEF after_update1
  <2>2. x \in ClientState
    BY <1>2, <1>p, <2>1 DEF ClientState
  <2>3. x.passed = me.passed /\ x.key_sock = me.key_sock
    BY <1>2, <2>1 DEF ClientState
  <2>4. /\ x.pc = IF ok THEN "update2" ELSE "savepem"
        /\ x.new = IF ok THEN me.new ELSE None
        /\ x.pkey = me.pkey
    BY <1>2, <2>1 DEF ClientState
  <2> QED BY <1>2, <2>2, <2>3, <2>4
<1>10. ASSUME dev[d].pc = "update2"
       PROVE  /\ x \in ClientState /\ x.passed = FALSE /\ x.key_sock = dev[d].key_sock
              /\ x.pc = IF ok THEN "save3" ELSE "savepem"
              /\ x.new = IF ok THEN dev[d].new ELSE None
              /\ x.pkey = dev[d].pkey
  <2>1. x = IF ok THEN [me EXCEPT !.pc = "save3"]
            ELSE [me EXCEPT !.pc = "savepem", !.new = None, !.outcome = "HalfRotated"]
    <3>1. x = after_update2(me, ok)
      BY <1>10, <1>x, AfterCall DEF me
    <3> QED BY <3>1 DEF after_update2
  <2>2. x \in ClientState
    BY <1>2, <1>p, <2>1 DEF ClientState
  <2>3. x.passed = me.passed /\ x.key_sock = me.key_sock
    BY <1>2, <2>1 DEF ClientState
  <2>4. /\ x.pc = IF ok THEN "save3" ELSE "savepem"
        /\ x.new = IF ok THEN me.new ELSE None
        /\ x.pkey = me.pkey
    BY <1>2, <2>1 DEF ClientState
  <2> QED BY <1>2, <2>2, <2>3, <2>4
<1>11. dev[d].pc \in {"register", "store1", "store2", "login1", "fetch1", "fetch2", "update1", "update2"}
  BY CallsAre DEF Calling
<1>12. x \in ClientState /\ x.passed = FALSE /\ x.key_sock = dev[d].key_sock
  BY <1>3, <1>4, <1>5, <1>6, <1>7, <1>8, <1>9, <1>10, <1>11
<1>13. AfterEffect(d, ok, got, x)
  BY <1>3, <1>4, <1>5, <1>6, <1>7, <1>8, <1>9, <1>10, <1>12 DEF AfterEffect
<1> QED BY <1>x, <1>13

\* A call that returns leaves its client with what it needs.
LEMMA AfterType ==
    ASSUME TypeInv, NEW d \in Devices, Calling(d), NEW ok \in BOOLEAN, NEW got \in Shares
    PROVE  /\ After(d, ok, got) \in ClientState /\ Ready(After(d, ok, got))
           /\ After(d, ok, got).key_sock = dev[d].key_sock
           /\ After(d, ok, got).passed = FALSE
<1>1. dev[d] \in ClientState /\ Ready(dev[d])
  BY DEF TypeInv, ClientsOK
<1>2. dev[d].pkey \in Keys
  <2>1. dev[d].pc \notin {"off", "keys"}
    BY CallsAre DEF Calling
  <2> QED BY <1>1, <2>1 DEF Ready
<1>x. PICK x : x = After(d, ok, got)
  OBVIOUS
<1>3. AfterEffect(d, ok, got, x)
  <2>1. AfterEffect(d, ok, got, After(d, ok, got))
    BY AfterFields, Zenon
  <2> QED BY <1>x, <2>1
<1>4. x \in ClientState /\ x.passed = FALSE /\ x.key_sock = dev[d].key_sock
  BY <1>3 DEF AfterEffect
<1>5. x.pc \notin {"off", "keys", "split"} /\ x.pkey \in Keys
  <2>1. \A a : Agree(got, a) => got.key \in Keys
    BY DEF Agree, Splits
  <2>2. Agree(dev[d].share1, got) => got.key \in Keys
    BY DEF Agree, Splits
  <2>3. dev[d].pc \in {"register", "store1", "store2", "login1", "fetch1", "fetch2", "update1", "update2"}
    BY CallsAre DEF Calling
  <2> QED BY <1>2, <1>3, <2>1, <2>2, <2>3 DEF AfterEffect
<1>6. x.pc \in {"store1", "store2", "update1", "update2", "save3"} => x.new \in Splits
  <2>1. Agree(dev[d].share1, got) => split_private_key(got.key) \in Splits
    <3>1. Agree(dev[d].share1, got) => got.key \in Keys
      BY DEF Agree, Splits
    <3> QED BY <3>1, FreshSplit
  <2>2. dev[d].new \in Splits \cup {None}
    BY <1>1 DEF ClientState
  <2>3. dev[d].pc \in {"store1", "store2", "update1", "update2", "save3"} => dev[d].new \in Splits
    BY <1>1 DEF Ready
  <2>4. dev[d].pc \in {"register", "store1", "store2", "login1", "fetch1", "fetch2", "update1", "update2"}
    BY CallsAre DEF Calling
  <2> QED BY <1>3, <2>1, <2>2, <2>3, <2>4 DEF AfterEffect
<1> QED BY <1>x, <1>4, <1>5, <1>6 DEF Ready

\* One client's new state keeps the clients' types.
LEMMA ClientStep ==
    ASSUME ClientsOK, NEW d \in Devices, NEW x \in ClientState, Ready(x),
           dev' = [dev EXCEPT ![d] = x]
    PROVE  ClientsOK'
BY DEF ClientsOK

\* What a client asks of a server, if it is a write.
LEMMA RequestType ==
    ASSUME TypeInv, NEW d \in Devices, dev[d].pc \in Writes
    PROVE  RequestOK(Request(d))
<1>1. dev[d] \in ClientState /\ Ready(dev[d])
  BY DEF TypeInv, ClientsOK
<1>2. Request(d).op = dev[d].pc /\ Request(d).key = dev[d].pkey /\ Request(d).share = dev[d].new
  BY DEF Request
<1>3. dev[d].pkey \in Keys
  BY <1>1 DEF Ready, Writes
<1> HIDE DEF Request
<1> QED BY <1>1, <1>2, <1>3 DEF RequestOK, ClientState, Ready, Writes

\* A server that carries out a request has a key or a share of it.
LEMMA CarryOutType ==
    ASSUME ServersOK, NEW r, carry_out(r), session' \in Devices \cup {None},
           \/ r.op \notin Writes \/ RequestOK(r)
    PROVE  ServersOK'
BY DEF ServersOK, carry_out, RequestOK, Writes

\* A passed write whose caller goes away, for the price of a fault.
LEMMA OrphanType ==
    ASSUME TypeInv, NEW d \in Devices, SomethingFails, orphans' = orphans \cup Orphaned(d)
    PROVE  OrphansOK'
<1>1. /\ faults \in 0..MaxFaults /\ IsFiniteSet(orphans) /\ Cardinality(orphans) <= faults
      /\ \A r \in orphans : RequestOK(r)
  BY DEF TypeInv, OrphansOK
<1>2. faults' \in 0..MaxFaults /\ faults' = faults + 1 /\ faults \in Nat
  BY <1>1, NumbersAssumption DEF SomethingFails
<1>3. Orphaned(d) = {} \/ (Orphaned(d) = {Request(d)} /\ RequestOK(Request(d)))
  BY RequestType DEF Orphaned
<1>4. \A r \in orphans' : RequestOK(r)
  BY <1>1, <1>3
<1>5. Cardinality(orphans) \in Nat
  BY <1>1, FS_CardinalityType
<1>6. IsFiniteSet(orphans') /\ (Cardinality(orphans') = Cardinality(orphans)
                                \/ Cardinality(orphans') = Cardinality(orphans) + 1)
  <2>1. CASE Orphaned(d) = {}
    <3>1. orphans' = orphans
      BY <2>1
    <3> QED BY <1>1, <3>1
  <2>2. CASE Orphaned(d) = {Request(d)}
    <3>1. orphans' = orphans \cup {Request(d)}
      BY <2>2
    <3> HIDE DEF Request
    <3> QED BY <1>1, <3>1, FS_AddElement
  <2> QED BY <1>3, <2>1, <2>2
<1>7. Cardinality(orphans') <= faults'
  BY <1>1, <1>2, <1>5, <1>6
<1> QED BY <1>2, <1>4, <1>6, <1>7 DEF OrphansOK

\* Another fault, and no other orphan.
LEMMA FaultType ==
    ASSUME OrphansOK, SomethingFails \/ UNCHANGED faults, UNCHANGED orphans
    PROVE  OrphansOK'
<1>1. /\ faults \in 0..MaxFaults /\ IsFiniteSet(orphans) /\ Cardinality(orphans) <= faults
      /\ \A r \in orphans : RequestOK(r)
  BY DEF OrphansOK
<1>2. Cardinality(orphans) \in Nat
  BY <1>1, FS_CardinalityType
<1>3. faults' \in 0..MaxFaults /\ Cardinality(orphans') <= faults'
  BY <1>1, <1>2, NumbersAssumption DEF SomethingFails
<1> QED BY <1>1, <1>3 DEF OrphansOK

LEMMA SharesKnown == TypeInv => clientShare1 \in Shares /\ shareStore \in Shares
BY DEF TypeInv, ServersOK, Shares

\* A client whose call returns, without anything else it could disturb.
LEMMA ReturnType ==
    ASSUME TypeInv, NEW d \in Devices, Calling(d), NEW ok \in BOOLEAN, NEW got \in Shares,
           dev' = [dev EXCEPT ![d] = After(d, ok, got)]
    PROVE  ClientsOK'
<1>1. After(d, ok, got) \in ClientState /\ Ready(After(d, ok, got))
  BY AfterType, Zenon
<1>2. PICK x : x = After(d, ok, got)
  OBVIOUS
<1>3. x \in ClientState /\ Ready(x) /\ dev' = [dev EXCEPT ![d] = x]
  BY <1>1, <1>2
<1> QED BY <1>3, ClientStep DEF TypeInv

LEMMA PassType ==
    ASSUME TypeInv, NEW d \in Devices, Pass(d)
    PROVE  TypeInv'
<1> DEFINE x == [dev[d] EXCEPT !.passed = TRUE]
<1>1. dev[d] \in ClientState /\ Ready(dev[d]) /\ dev[d].pc \in Calls
  BY DEF TypeInv, ClientsOK, Pass, Calling
<1>2. x \in ClientState /\ x.pc = dev[d].pc /\ x.pkey = dev[d].pkey /\ x.new = dev[d].new
  BY <1>1 DEF ClientState
<1>3. dev' = [dev EXCEPT ![d] = x]
  BY DEF Pass
<1> HIDE DEF x
<1>4. Ready(x)
  BY <1>1, <1>2 DEF Ready
<1>5. ClientsOK'
  BY <1>2, <1>3, <1>4, ClientStep DEF TypeInv
<1>6. ServersOK' /\ FilesOK' /\ OrphansOK'
  BY DEF Pass, TypeInv, ServersOK, FilesOK, OrphansOK, serverVars, deviceVars
<1> QED BY <1>5, <1>6 DEF TypeInv

LEMMA AnswerType ==
    ASSUME TypeInv, NEW d \in Devices, Answer(d)
    PROVE  TypeInv'
<1>1. PICK got \in Shares : dev' = [dev EXCEPT ![d] = After(d, TRUE, got)]
  <2>1. dev \in [Devices -> ClientState]
    BY DEF TypeInv, ClientsOK
  <2>2. dev' = [dev EXCEPT ![d] = After(d, TRUE, IF dev[d].pc = "fetch2" THEN shareStore ELSE clientShare1)]
    BY <2>1 DEF Answer
  <2>3. (IF dev[d].pc = "fetch2" THEN shareStore ELSE clientShare1) \in Shares
    BY SharesKnown
  <2> QED BY <2>2, <2>3
<1>2. ClientsOK'
  <2>1. Calling(d) /\ TRUE \in BOOLEAN
    BY DEF Answer
  <2> QED BY <1>1, <2>1, ReturnType, Zenon
<1>3. ServersOK'
  <2>1. carry_out(Request(d)) /\ session' \in Devices \cup {None} /\ ServersOK
    BY DEF Answer, TypeInv, ServersOK
  <2>2. Request(d).op \notin Writes \/ RequestOK(Request(d))
    <3>1. Request(d).op = dev[d].pc
      BY DEF Request
    <3> QED BY <3>1, RequestType
  <2> QED BY <2>1, <2>2, CarryOutType
<1>4. FilesOK' /\ OrphansOK'
  BY DEF Answer, TypeInv, FilesOK, OrphansOK, deviceVars
<1> QED BY <1>2, <1>3, <1>4 DEF TypeInv

LEMMA FailType ==
    ASSUME TypeInv, NEW d \in Devices, Fail(d)
    PROVE  ServersOK' /\ FilesOK' /\ ClientsOK'
<1>1. PICK got \in {None, RefusalText} : dev' = [dev EXCEPT ![d] = After(d, FALSE, got)]
  BY DEF Fail
<1>2. got \in Shares /\ Calling(d) /\ FALSE \in BOOLEAN
  BY DEF Fail, Shares
<1>3. ClientsOK'
  BY <1>1, <1>2, ReturnType, Zenon
<1> QED BY <1>3 DEF Fail, TypeInv, ServersOK, FilesOK, serverVars, deviceVars

LEMMA RefuseType ==
    ASSUME TypeInv, NEW d \in Devices, Refuse(d)
    PROVE  TypeInv'
<1>1. Fail(d) /\ (SomethingFails \/ UNCHANGED faults)
  BY DEF Refuse
<1>2. OrphansOK'
  BY <1>1, FaultType DEF Fail, TypeInv
<1> QED BY <1>1, <1>2, FailType DEF TypeInv

LEMMA NoConnectionType ==
    ASSUME TypeInv, NEW d \in Devices, NoConnection(d)
    PROVE  TypeInv'
<1>1. Calling(d) /\ dev' = [dev EXCEPT ![d] = After(d, FALSE, None)] /\ FALSE \in BOOLEAN /\ None \in Shares
  BY DEF NoConnection, Shares
<1>2. ClientsOK'
  BY <1>1, ReturnType, Zenon
<1> QED BY <1>2 DEF NoConnection, TypeInv, ServersOK, FilesOK, OrphansOK, serverVars, deviceVars

LEMMA StorageErrorType ==
    ASSUME TypeInv, NEW d \in Devices, StorageError(d)
    PROVE  TypeInv'
<1>1. Calling(d) /\ dev' = [dev EXCEPT ![d] = After(d, FALSE, None)] /\ FALSE \in BOOLEAN /\ None \in Shares
  BY DEF StorageError, Shares, Calling, Calls
<1>2. ClientsOK'
  BY <1>1, ReturnType, Zenon
<1>3. OrphansOK'
  BY FaultType DEF StorageError, TypeInv
<1>4. ServersOK'
  <2>1. session' \in Devices \cup {None} /\ ServersOK
    BY DEF StorageError, TypeInv, ServersOK
  <2>2. CASE UNCHANGED serverVars
    BY <2>1, <2>2 DEF ServersOK, serverVars
  <2>3. CASE carry_out(Request(d))
    <3>1. Request(d).op \notin Writes \/ RequestOK(Request(d))
      <4>1. Request(d).op = dev[d].pc
        BY DEF Request
      <4> QED BY <4>1, RequestType
    <3> QED BY <2>1, <2>3, <3>1, CarryOutType
  <2> QED BY <2>2, <2>3 DEF StorageError
<1>5. FilesOK'
  BY DEF StorageError, TypeInv, FilesOK, deviceVars
<1> QED BY <1>2, <1>3, <1>4, <1>5 DEF TypeInv

LEMMA LoseConnectionType ==
    ASSUME TypeInv, NEW d \in Devices, LoseConnection(d)
    PROVE  TypeInv'
<1>1. PICK y : y = After(d, FALSE, None)
  OBVIOUS
<1>2. y \in ClientState /\ Ready(y)
  <2>1. Calling(d) /\ FALSE \in BOOLEAN /\ None \in Shares
    BY DEF LoseConnection, Shares
  <2>2. After(d, FALSE, None) \in ClientState /\ Ready(After(d, FALSE, None))
    BY <2>1, AfterType, Zenon
  <2> QED BY <1>1, <2>2
<1> DEFINE b == y.key_sock /\ dev[d].pc \notin KeyServerCalls
           x == [y EXCEPT !.key_sock = b]
<1>3. dev' = [dev EXCEPT ![d] = x]
  BY <1>1 DEF LoseConnection
<1>4. b \in BOOLEAN
  OBVIOUS
<1> HIDE DEF b
<1>5. x \in ClientState /\ x.pc = y.pc /\ x.pkey = y.pkey /\ x.new = y.new /\ x.passed = y.passed
  BY <1>2, <1>4 DEF ClientState
<1> HIDE DEF x
<1>6. Ready(x)
  BY <1>2, <1>5 DEF Ready
<1>7. ClientsOK'
  BY <1>3, <1>5, <1>6, ClientStep DEF TypeInv
<1>8. OrphansOK'
  BY OrphanType DEF LoseConnection
<1> QED BY <1>7, <1>8 DEF LoseConnection, TypeInv, ServersOK, FilesOK, serverVars, deviceVars

LEMMA CarryOutOrphanType ==
    ASSUME TypeInv, NEW r \in orphans, CarryOutOrphan(r)
    PROVE  TypeInv'
<1>1. RequestOK(r)
  BY DEF TypeInv, OrphansOK
<1>2. ServersOK'
  BY <1>1, CarryOutType DEF CarryOutOrphan, TypeInv, ServersOK
<1>3. OrphansOK'
  <2>1. /\ faults \in 0..MaxFaults /\ IsFiniteSet(orphans) /\ Cardinality(orphans) <= faults
        /\ \A q \in orphans : RequestOK(q)
        /\ orphans' = orphans \ {r} /\ faults' = faults
    BY DEF TypeInv, OrphansOK, CarryOutOrphan
  <2>2. IsFiniteSet(orphans') /\ Cardinality(orphans') = Cardinality(orphans) - 1
    BY <2>1, FS_RemoveElement
  <2>3. Cardinality(orphans) \in Nat
    BY <2>1, FS_CardinalityType
  <2>4. Cardinality(orphans') <= faults'
    BY <2>1, <2>2, <2>3, NumbersAssumption
  <2> QED BY <2>1, <2>2, <2>4 DEF OrphansOK
<1> QED BY <1>2, <1>3 DEF CarryOutOrphan, TypeInv, FilesOK, ClientsOK, deviceVars

LEMMA OffType == Off \in ClientState /\ Ready(Off)
BY DEF Off, ClientState, Ready, Places, Shares

LEMMA StopType ==
    ASSUME ClientsOK, NEW d \in Devices, Stop(d)
    PROVE  ClientsOK' /\ session' \in Devices \cup {None}
<1>1. PICK x : x = Off
  OBVIOUS
<1>2. x \in ClientState /\ Ready(x) /\ dev' = [dev EXCEPT ![d] = x]
  BY <1>1, OffType DEF Stop
<1> QED BY <1>2, ClientStep DEF Stop

LEMMA StartType ==
    ASSUME TypeInv, NEW d \in Devices, Start(d)
    PROVE  TypeInv'
<1> DEFINE x == [dev[d] EXCEPT !.pc = "keys", !.key_sock = TRUE]
<1>1. dev[d] \in ClientState /\ Ready(dev[d]) /\ dev[d].pc = "off"
  BY DEF TypeInv, ClientsOK, Start
<1>2. dev' = [dev EXCEPT ![d] = x]
  BY <1>1 DEF Start, TypeInv, ClientsOK
<1>3. x \in ClientState /\ x.pc = "keys" /\ x.new = dev[d].new /\ x.passed = dev[d].passed
  BY <1>1 DEF ClientState, Places
<1> HIDE DEF x
<1>4. Ready(x)
  BY <1>1, <1>3, CallsAre DEF Ready
<1>5. ClientsOK'
  BY <1>2, <1>3, <1>4, ClientStep DEF TypeInv
<1> QED BY <1>5 DEF Start, TypeInv, ServersOK, FilesOK, OrphansOK, serverVars, deviceVars

LEMMA LoadKeyType ==
    ASSUME TypeInv, NEW d \in Devices, LoadKey(d)
    PROVE  TypeInv'
<1> DEFINE b == share3[d] = None
           x == [dev[d] EXCEPT !.pkey = pem[d], !.pc = IF share3[d] = None THEN "menu" ELSE "login1",
                               !.needs_recovery = b]
<1>1. dev[d] \in ClientState /\ Ready(dev[d]) /\ dev[d].pc = "keys" /\ pem[d] \in Keys
  BY DEF TypeInv, ClientsOK, LoadKey
<1>2. dev' = [dev EXCEPT ![d] = x]
  BY <1>1 DEF LoadKey, TypeInv, ClientsOK
<1>3. b \in BOOLEAN
  OBVIOUS
<1> HIDE DEF b
<1>4. /\ x \in ClientState /\ x.pc \in {"menu", "login1"} /\ x.pkey \in Keys
      /\ x.new = dev[d].new /\ x.passed = dev[d].passed
  BY <1>1, <1>3 DEF ClientState, Places, Calls
<1> HIDE DEF x
<1>5. Ready(x)
  BY <1>1, <1>4, CallsAre DEF Ready
<1>6. ClientsOK'
  BY <1>2, <1>4, <1>5, ClientStep DEF TypeInv
<1> QED BY <1>6 DEF LoadKey, TypeInv, ServersOK, FilesOK, OrphansOK, serverVars, deviceVars

LEMMA CannotLoadKeyType ==
    ASSUME TypeInv, NEW d \in Devices, CannotLoadKey(d)
    PROVE  TypeInv'
BY StopType DEF CannotLoadKey, TypeInv, ServersOK, FilesOK, OrphansOK, serverVars, deviceVars

LEMMA GenerateKeyType ==
    ASSUME TypeInv, NEW d \in Devices, GenerateKey(d)
    PROVE  TypeInv'
<1>1. PICK k : k = generate_keys
  OBVIOUS
<1>2. k \in Keys
  BY <1>1, FreshKey
<1> DEFINE x == [dev[d] EXCEPT !.pkey = k, !.pc = "split"]
<1>3. dev[d] \in ClientState /\ Ready(dev[d]) /\ dev[d].pc = "keys"
  BY DEF TypeInv, ClientsOK, GenerateKey
<1>4. dev' = [dev EXCEPT ![d] = x]
  BY <1>1, <1>3 DEF GenerateKey, TypeInv, ClientsOK
<1>5. x \in ClientState /\ x.pc = "split" /\ x.pkey = k /\ x.new = dev[d].new /\ x.passed = dev[d].passed
  BY <1>2, <1>3 DEF ClientState, Places
<1> HIDE DEF x
<1>6. Ready(x)
  BY <1>2, <1>3, <1>5, CallsAre DEF Ready
<1>7. ClientsOK'
  BY <1>4, <1>5, <1>6, ClientStep DEF TypeInv
<1>8. FilesOK'
  BY <1>1, <1>2 DEF GenerateKey, FailedWrite, TypeInv, FilesOK
<1>9. OrphansOK'
  BY FaultType DEF GenerateKey, TypeInv
<1> QED BY <1>7, <1>8, <1>9 DEF GenerateKey, TypeInv, ServersOK, serverVars

LEMMA SplitKeyType ==
    ASSUME TypeInv, NEW d \in Devices, SplitKey(d)
    PROVE  TypeInv'
<1>1. dev[d] \in ClientState /\ Ready(dev[d]) /\ dev[d].pc = "split" /\ dev[d].pkey \in Keys
  BY DEF TypeInv, ClientsOK, SplitKey, Ready
<1>2. PICK s : s = split_private_key(dev[d].pkey)
  OBVIOUS
<1>3. s \in Splits
  BY <1>1, <1>2, FreshSplit
<1>4. PICK n \in {s, None} :
        /\ dev' = [dev EXCEPT ![d].new = n, ![d].pc = "register"]
        /\ \/ share3' = [share3 EXCEPT ![d] = s]
           \/ share3' = [share3 EXCEPT ![d] = None]
           \/ UNCHANGED share3
  <2>1. dev[d].new = None
    BY <1>1 DEF Ready
  <2>2. [dev EXCEPT ![d].pc = "register"] = [dev EXCEPT ![d].new = None, ![d].pc = "register"]
    <3>1. [dev[d] EXCEPT !.pc = "register"] = [dev[d] EXCEPT !.new = None, !.pc = "register"]
      BY <1>1, <2>1 DEF ClientState
    <3> QED BY <3>1 DEF TypeInv, ClientsOK
  <2> QED BY <1>2, <2>2 DEF SplitKey, FailedWrite
<1> DEFINE x == [dev[d] EXCEPT !.new = n, !.pc = "register"]
<1>5. dev' = [dev EXCEPT ![d] = x]
  BY <1>1, <1>4 DEF TypeInv, ClientsOK
<1>6. x \in ClientState /\ x.pc = "register" /\ x.pkey = dev[d].pkey /\ x.passed = dev[d].passed
  BY <1>1, <1>3, <1>4 DEF ClientState, Places, Calls, Writes
<1> HIDE DEF x
<1>7. Ready(x)
  BY <1>1, <1>6, CallsAre DEF Ready
<1>8. ClientsOK'
  BY <1>5, <1>6, <1>7, ClientStep DEF TypeInv
<1>9. FilesOK'
  BY <1>3, <1>4 DEF SplitKey, TypeInv, FilesOK
<1>10. OrphansOK'
  BY FaultType DEF SplitKey, TypeInv
<1> QED BY <1>8, <1>9, <1>10 DEF SplitKey, TypeInv, ServersOK, serverVars

LEMMA RecoverType ==
    ASSUME TypeInv, NEW d \in Devices, recover_account_flow(d)
    PROVE  TypeInv'
<1> DEFINE x == [dev[d] EXCEPT !.pc = "fetch1", !.outcome = None]
<1>1. dev[d] \in ClientState /\ Ready(dev[d]) /\ dev[d].pc = "menu"
  BY DEF TypeInv, ClientsOK, recover_account_flow
<1>2. dev' = [dev EXCEPT ![d] = x]
  BY <1>1 DEF recover_account_flow, TypeInv, ClientsOK
<1>3. x \in ClientState /\ x.pc = "fetch1" /\ x.pkey = dev[d].pkey
  BY <1>1 DEF ClientState, Places, Calls
<1> HIDE DEF x
<1>4. Ready(x)
  BY <1>1, <1>3 DEF Ready, Calls
<1>5. ClientsOK'
  BY <1>2, <1>3, <1>4, ClientStep DEF TypeInv
<1> QED BY <1>5 DEF recover_account_flow, TypeInv, ServersOK, FilesOK, OrphansOK, serverVars, deviceVars

LEMMA SaveShare3Type ==
    ASSUME TypeInv, NEW d \in Devices, save_local_share3(d)
    PROVE  TypeInv'
<1> DEFINE x == [dev[d] EXCEPT !.pc = "savepem", !.new = None]
<1>1. dev[d] \in ClientState /\ Ready(dev[d]) /\ dev[d].pc = "save3"
  BY DEF TypeInv, ClientsOK, save_local_share3
<1>2. dev' = [dev EXCEPT ![d] = x]
  BY <1>1 DEF save_local_share3, TypeInv, ClientsOK
<1>3. x \in ClientState /\ x.pc = "savepem" /\ x.pkey = dev[d].pkey /\ x.passed = dev[d].passed
  BY <1>1 DEF ClientState, Places
<1>4. dev[d].new \in Splits /\ dev[d].pkey \in Keys
  BY <1>1 DEF Ready
<1> HIDE DEF x
<1>5. Ready(x)
  BY <1>1, <1>3, <1>4, CallsAre DEF Ready
<1>6. ClientsOK'
  BY <1>2, <1>3, <1>5, ClientStep DEF TypeInv
<1>7. FilesOK'
  BY <1>4 DEF save_local_share3, FailedWrite, TypeInv, FilesOK
<1>8. OrphansOK'
  BY FaultType DEF save_local_share3, TypeInv
<1> QED BY <1>6, <1>7, <1>8 DEF save_local_share3, TypeInv, ServersOK, serverVars

LEMMA SaveKeyType ==
    ASSUME TypeInv, NEW d \in Devices, save_private_key(d)
    PROVE  TypeInv'
<1> DEFINE x == [dev[d] EXCEPT !.pc = "menu"]
<1>1. dev[d] \in ClientState /\ Ready(dev[d]) /\ dev[d].pc = "savepem"
  BY DEF TypeInv, ClientsOK, save_private_key
<1>2. dev' = [dev EXCEPT ![d] = x]
  BY <1>1 DEF save_private_key, TypeInv, ClientsOK
<1>3. x \in ClientState /\ x.pc = "menu" /\ x.pkey = dev[d].pkey /\ x.passed = dev[d].passed
  BY <1>1 DEF ClientState, Places
<1>4. dev[d].pkey \in Keys
  BY <1>1 DEF Ready
<1> HIDE DEF x
<1>5. Ready(x)
  BY <1>1, <1>3, <1>4, CallsAre DEF Ready
<1>6. ClientsOK'
  BY <1>2, <1>3, <1>5, ClientStep DEF TypeInv
<1>7. FilesOK'
  BY <1>4 DEF save_private_key, FailedWrite, TypeInv, FilesOK
<1>8. OrphansOK'
  BY FaultType DEF save_private_key, TypeInv
<1> QED BY <1>6, <1>7, <1>8 DEF save_private_key, TypeInv, ServersOK, serverVars

LEMMA ExitType ==
    ASSUME TypeInv, NEW d \in Devices, Exit(d)
    PROVE  TypeInv'
BY StopType DEF Exit, TypeInv, ServersOK, FilesOK, OrphansOK, serverVars, deviceVars

LEMMA CrashType ==
    ASSUME TypeInv, NEW d \in Devices, Crash(d)
    PROVE  TypeInv'
<1>1. ClientsOK' /\ session' \in Devices \cup {None}
  BY StopType DEF Crash, TypeInv
<1>2. FilesOK'
  BY DEF Crash, TypeInv, FilesOK
<1>3. OrphansOK'
  BY OrphanType DEF Crash
<1> QED BY <1>1, <1>2, <1>3 DEF Crash, TypeInv, ServersOK, serverVars

LEMMA SessionLostType ==
    ASSUME TypeInv, SessionLost
    PROVE  TypeInv'
<1>1. OrphansOK'
  BY FaultType DEF SessionLost, TypeInv
<1> QED BY <1>1 DEF SessionLost, TypeInv, ServersOK, FilesOK, ClientsOK, serverVars, deviceVars

LEMMA LoseDeviceType ==
    ASSUME TypeInv, NEW d \in Devices, LoseDevice(d)
    PROVE  TypeInv'
<1>1. OrphansOK'
  BY FaultType DEF LoseDevice, TypeInv
<1> QED BY <1>1 DEF LoseDevice, TypeInv, ServersOK, FilesOK, ClientsOK, serverVars

LEMMA StutterType == TypeInv /\ UNCHANGED vars => TypeInv'
BY DEF vars, TypeInv, ServersOK, FilesOK, ClientsOK, OrphansOK, serverVars, deviceVars

LEMMA NextType == TypeInv /\ [Next]_vars => TypeInv'
<1> SUFFICES ASSUME TypeInv, [Next]_vars PROVE TypeInv'
  OBVIOUS
<1>1. CASE UNCHANGED vars
  BY <1>1, StutterType
<1>2. ASSUME NEW d \in Devices, Proceed(d) PROVE TypeInv'
  BY <1>2, PassType, AnswerType, NoConnectionType, RefuseType, LoadKeyType, CannotLoadKeyType,
     GenerateKeyType, SplitKeyType, SaveShare3Type, SaveKeyType DEF Proceed
<1>3. ASSUME NEW d \in Devices, Client(d) PROVE TypeInv'
  BY <1>2, <1>3, StartType, RecoverType, ExitType, RefuseType, StorageErrorType, LoseConnectionType,
     CrashType, LoseDeviceType DEF Client
<1>4. ASSUME NEW r \in orphans, CarryOutOrphan(r) PROVE TypeInv'
  BY <1>4, CarryOutOrphanType
<1>5. CASE SessionLost
  BY <1>5, SessionLostType
<1> QED BY <1>1, <1>3, <1>4, <1>5 DEF Next

LEMMA TypeInvariance == Spec => []TypeInv
BY InitTypeInv, NextType, PTL DEF Spec

\* The shares and keys are where their kind belongs, and a client is never at a
\* step without what the step needs; a new key and a new split are always there
\* to draw: for any devices and any number of faults.
THEOREM TypeCorrect == Spec => []TypeOK
BY TypeInvariance, TypeInvImpliesTypeOK, PTL

-----------------------------------------------------------------------------
(* What each step does to its client, part by part *)

\* Client d comes to be at pc with this key, this fetched share and this split.
Moves(d, pc, pkey, share1, new) ==
    /\ dev'[d].pc = pc /\ dev'[d].pkey = pkey /\ dev'[d].share1 = share1 /\ dev'[d].new = new
    /\ \A e \in Devices : e # d => dev'[e] = dev[e]

LEMMA DevAt ==
    ASSUME TypeInv, NEW d \in Devices, NEW x, dev' = [dev EXCEPT ![d] = x]
    PROVE  dev'[d] = x /\ \A e \in Devices : e # d => dev'[e] = dev[e]
BY DEF TypeInv, ClientsOK

LEMMA ClientParts ==
    ASSUME TypeInv, NEW d \in Devices
    PROVE  /\ dev[d] \in ClientState /\ Ready(dev[d])
           /\ dev[d].pkey \in Keys \cup {None} /\ dev[d].new \in Splits \cup {None}
           /\ dev[d].share1 \in Shares /\ dev[d].key_sock \in BOOLEAN
BY DEF TypeInv, ClientsOK, ClientState

LEMMA PassMoves ==
    ASSUME TypeInv, NEW d \in Devices, Pass(d)
    PROVE  /\ Moves(d, dev[d].pc, dev[d].pkey, dev[d].share1, dev[d].new)
           /\ dev'[d].key_sock = dev[d].key_sock
<1>1. dev[d] \in ClientState
  BY ClientParts
<1>2. PICK x : x = [dev[d] EXCEPT !.passed = TRUE]
  OBVIOUS
<1>3. dev' = [dev EXCEPT ![d] = x]
  BY <1>1, <1>2 DEF Pass
<1>4. dev'[d] = x /\ \A e \in Devices : e # d => dev'[e] = dev[e]
  BY <1>3, DevAt
<1>5. /\ x.pc = dev[d].pc /\ x.pkey = dev[d].pkey /\ x.share1 = dev[d].share1
      /\ x.new = dev[d].new /\ x.key_sock = dev[d].key_sock
  BY <1>1, <1>2 DEF ClientState
<1> QED BY <1>4, <1>5 DEF Moves

LEMMA StartMoves ==
    ASSUME TypeInv, NEW d \in Devices, Start(d)
    PROVE  Moves(d, "keys", dev[d].pkey, dev[d].share1, dev[d].new) /\ dev'[d].key_sock = TRUE
<1>1. dev[d] \in ClientState
  BY ClientParts
<1>2. PICK x : x = [dev[d] EXCEPT !.pc = "keys", !.key_sock = TRUE]
  OBVIOUS
<1>3. dev' = [dev EXCEPT ![d] = x]
  BY <1>1, <1>2 DEF Start, TypeInv, ClientsOK
<1>4. dev'[d] = x /\ \A e \in Devices : e # d => dev'[e] = dev[e]
  BY <1>3, DevAt
<1>5. /\ x.pc = "keys" /\ x.pkey = dev[d].pkey /\ x.share1 = dev[d].share1 /\ x.new = dev[d].new
      /\ x.key_sock = TRUE
  BY <1>1, <1>2 DEF ClientState
<1> QED BY <1>4, <1>5 DEF Moves

LEMMA StopMoves ==
    ASSUME TypeInv, NEW d \in Devices, Stop(d)
    PROVE  Moves(d, "off", None, None, None)
<1>1. PICK x : x = Off
  OBVIOUS
<1>2. dev' = [dev EXCEPT ![d] = x]
  BY <1>1 DEF Stop
<1>3. dev'[d] = x /\ \A e \in Devices : e # d => dev'[e] = dev[e]
  BY <1>2, DevAt
<1>4. x.pc = "off" /\ x.pkey = None /\ x.share1 = None /\ x.new = None
  BY <1>1 DEF Off
<1> QED BY <1>3, <1>4 DEF Moves

LEMMA LoadKeyMoves ==
    ASSUME TypeInv, NEW d \in Devices, LoadKey(d)
    PROVE  /\ \E pc \in {"menu", "login1"} : Moves(d, pc, pem[d], dev[d].share1, dev[d].new)
           /\ dev'[d].key_sock = dev[d].key_sock
<1>1. dev[d] \in ClientState
  BY ClientParts
<1> DEFINE b == share3[d] = None
<1>2. PICK x : x = [dev[d] EXCEPT !.pkey = pem[d], !.pc = IF share3[d] = None THEN "menu" ELSE "login1",
                                  !.needs_recovery = b]
  OBVIOUS
<1>3. dev' = [dev EXCEPT ![d] = x]
  BY <1>1, <1>2 DEF LoadKey, TypeInv, ClientsOK
<1>4. dev'[d] = x /\ \A e \in Devices : e # d => dev'[e] = dev[e]
  BY <1>3, DevAt
<1> HIDE DEF b
<1>5. /\ x.pc = (IF share3[d] = None THEN "menu" ELSE "login1") /\ x.pkey = pem[d]
      /\ x.share1 = dev[d].share1 /\ x.new = dev[d].new /\ x.key_sock = dev[d].key_sock
  BY <1>1, <1>2 DEF ClientState
<1> QED BY <1>4, <1>5 DEF Moves

LEMMA GenerateKeyMoves ==
    ASSUME TypeInv, NEW d \in Devices, GenerateKey(d)
    PROVE  /\ \E k \in Keys : /\ Moves(d, "split", k, dev[d].share1, dev[d].new)
                              /\ \/ pem' = [pem EXCEPT ![d] = k] /\ UNCHANGED faults
                                 \/ pem' \in FailedWrite(pem, d, Torn) /\ SomethingFails
           /\ dev'[d].key_sock = dev[d].key_sock
<1>1. dev[d] \in ClientState
  BY ClientParts
<1>2. PICK k : k = generate_keys
  OBVIOUS
<1>3. PICK x : x = [dev[d] EXCEPT !.pkey = k, !.pc = "split"]
  OBVIOUS
<1>4. dev' = [dev EXCEPT ![d] = x]
  BY <1>1, <1>2, <1>3 DEF GenerateKey, TypeInv, ClientsOK
<1>5. dev'[d] = x /\ \A e \in Devices : e # d => dev'[e] = dev[e]
  BY <1>4, DevAt
<1>6. /\ x.pc = "split" /\ x.pkey = k /\ x.share1 = dev[d].share1 /\ x.new = dev[d].new
      /\ x.key_sock = dev[d].key_sock
  BY <1>1, <1>3 DEF ClientState
<1>7. Moves(d, "split", k, dev[d].share1, dev[d].new)
  BY <1>5, <1>6 DEF Moves
<1>8. \/ pem' = [pem EXCEPT ![d] = k] /\ UNCHANGED faults
      \/ pem' \in FailedWrite(pem, d, Torn) /\ SomethingFails
  BY <1>2 DEF GenerateKey
<1>9. k \in Keys
  BY <1>2, FreshKey
<1> QED BY <1>5, <1>6, <1>7, <1>8, <1>9

\* The new split is stashed, saved, or both; neither only when it could not be
\* made, and less than both only when something fails.
LEMMA SplitKeyMoves ==
    ASSUME TypeInv, NEW d \in Devices, SplitKey(d)
    PROVE  /\ \E s \in Splits : \E n \in {s, None} :
                /\ s.key = dev[d].pkey /\ s \notin KnownShares
                /\ Moves(d, "register", dev[d].pkey, dev[d].share1, n)
                /\ \/ share3' = [share3 EXCEPT ![d] = s]
                   \/ share3' \in FailedWrite(share3, d, None) /\ n = s
                   \/ UNCHANGED share3 /\ n = None
                /\ \/ n = s /\ share3' = [share3 EXCEPT ![d] = s] /\ UNCHANGED faults
                   \/ SomethingFails
           /\ dev'[d].key_sock = dev[d].key_sock
<1>1. dev[d] \in ClientState /\ dev[d].pkey \in Keys /\ dev[d].new = None
  BY ClientParts DEF SplitKey, Ready
<1>2. PICK s : s = split_private_key(dev[d].pkey)
  OBVIOUS
<1>3. s \in Splits /\ s.key = dev[d].pkey /\ s \notin KnownShares
  BY <1>1, <1>2, FreshSplit
<1>4. [dev EXCEPT ![d].pc = "register"] = [dev EXCEPT ![d].new = None, ![d].pc = "register"]
  <2>1. [dev[d] EXCEPT !.pc = "register"] = [dev[d] EXCEPT !.new = None, !.pc = "register"]
    BY <1>1 DEF ClientState
  <2> QED BY <2>1 DEF TypeInv, ClientsOK
<1>5. PICK n \in {s, None} :
        /\ dev' = [dev EXCEPT ![d].new = n, ![d].pc = "register"]
        /\ \/ share3' = [share3 EXCEPT ![d] = s]
           \/ share3' \in FailedWrite(share3, d, None) /\ n = s
           \/ UNCHANGED share3 /\ n = None
        /\ \/ n = s /\ share3' = [share3 EXCEPT ![d] = s] /\ UNCHANGED faults
           \/ SomethingFails
  BY <1>2, <1>4 DEF SplitKey
<1>6. PICK x : x = [dev[d] EXCEPT !.new = n, !.pc = "register"]
  OBVIOUS
<1>7. dev' = [dev EXCEPT ![d] = x]
  BY <1>1, <1>5, <1>6 DEF TypeInv, ClientsOK
<1>8. dev'[d] = x /\ \A e \in Devices : e # d => dev'[e] = dev[e]
  BY <1>7, DevAt
<1>9. /\ x.pc = "register" /\ x.pkey = dev[d].pkey /\ x.share1 = dev[d].share1 /\ x.new = n
      /\ x.key_sock = dev[d].key_sock
  BY <1>1, <1>6 DEF ClientState
<1>10. Moves(d, "register", dev[d].pkey, dev[d].share1, n) /\ dev'[d].key_sock = dev[d].key_sock
  BY <1>8, <1>9 DEF Moves
<1> QED BY <1>3, <1>5, <1>10

LEMMA RecoverMoves ==
    ASSUME TypeInv, NEW d \in Devices, recover_account_flow(d)
    PROVE  Moves(d, "fetch1", dev[d].pkey, dev[d].share1, dev[d].new) /\ dev'[d].key_sock = dev[d].key_sock
<1>1. dev[d] \in ClientState
  BY ClientParts
<1>2. PICK x : x = [dev[d] EXCEPT !.pc = "fetch1", !.outcome = None]
  OBVIOUS
<1>3. dev' = [dev EXCEPT ![d] = x]
  BY <1>1, <1>2 DEF recover_account_flow, TypeInv, ClientsOK
<1>4. dev'[d] = x /\ \A e \in Devices : e # d => dev'[e] = dev[e]
  BY <1>3, DevAt
<1>5. /\ x.pc = "fetch1" /\ x.pkey = dev[d].pkey /\ x.share1 = dev[d].share1 /\ x.new = dev[d].new
      /\ x.key_sock = dev[d].key_sock
  BY <1>1, <1>2 DEF ClientState
<1> QED BY <1>4, <1>5 DEF Moves

LEMMA SaveShare3Moves ==
    ASSUME TypeInv, NEW d \in Devices, save_local_share3(d)
    PROVE  Moves(d, "savepem", dev[d].pkey, dev[d].share1, None) /\ dev'[d].key_sock = dev[d].key_sock
<1>1. dev[d] \in ClientState
  BY ClientParts
<1>2. PICK x : x = [dev[d] EXCEPT !.pc = "savepem", !.new = None]
  OBVIOUS
<1>3. dev' = [dev EXCEPT ![d] = x]
  BY <1>1, <1>2 DEF save_local_share3, TypeInv, ClientsOK
<1>4. dev'[d] = x /\ \A e \in Devices : e # d => dev'[e] = dev[e]
  BY <1>3, DevAt
<1>5. /\ x.pc = "savepem" /\ x.pkey = dev[d].pkey /\ x.share1 = dev[d].share1 /\ x.new = None
      /\ x.key_sock = dev[d].key_sock
  BY <1>1, <1>2 DEF ClientState
<1> QED BY <1>4, <1>5 DEF Moves

LEMMA SaveKeyMoves ==
    ASSUME TypeInv, NEW d \in Devices, save_private_key(d)
    PROVE  Moves(d, "menu", dev[d].pkey, dev[d].share1, dev[d].new) /\ dev'[d].key_sock = dev[d].key_sock
<1>1. dev[d] \in ClientState
  BY ClientParts
<1>2. PICK x : x = [dev[d] EXCEPT !.pc = "menu"]
  OBVIOUS
<1>3. dev' = [dev EXCEPT ![d] = x]
  BY <1>1, <1>2 DEF save_private_key, TypeInv, ClientsOK
<1>4. dev'[d] = x /\ \A e \in Devices : e # d => dev'[e] = dev[e]
  BY <1>3, DevAt
<1>5. /\ x.pc = "menu" /\ x.pkey = dev[d].pkey /\ x.share1 = dev[d].share1 /\ x.new = dev[d].new
      /\ x.key_sock = dev[d].key_sock
  BY <1>1, <1>2 DEF ClientState
<1> QED BY <1>4, <1>5 DEF Moves

\* The answer that the server gives to a client's call.
Reply(d) == IF dev[d].pc = "fetch2" THEN shareStore ELSE clientShare1

LEMMA AnswerMoves ==
    ASSUME TypeInv, NEW d \in Devices, Answer(d)
    PROVE  /\ AfterEffect(d, TRUE, Reply(d), dev'[d])
           /\ \A e \in Devices : e # d => dev'[e] = dev[e]
<1>1. dev \in [Devices -> ClientState] /\ Calling(d) /\ TRUE \in BOOLEAN
  BY DEF TypeInv, ClientsOK, Answer
<1>2. Reply(d) \in Shares
  BY SharesKnown DEF Reply
<1>3. AfterEffect(d, TRUE, Reply(d), After(d, TRUE, Reply(d)))
  BY <1>1, <1>2, AfterFields, Zenon
<1>4. PICK x : x = After(d, TRUE, Reply(d))
  OBVIOUS
<1>5. dev' = [dev EXCEPT ![d] = x]
  BY <1>1, <1>4 DEF Answer, Reply
<1>6. dev'[d] = x /\ \A e \in Devices : e # d => dev'[e] = dev[e]
  BY <1>5, DevAt
<1> QED BY <1>3, <1>4, <1>6

\* What a call that failed leaves its client with: the key it had, no new split, and a
\* fetched share only where an error text was taken for one.
FailedCall(d) ==
    /\ dev'[d].pkey = dev[d].pkey
    /\ dev'[d].new = dev[d].new \/ dev'[d].new = None
    /\ dev[d].pc = "register" =>
         /\ dev'[d].pc = IF dev[d].new = None THEN "menu" ELSE "store1"
         /\ dev'[d].new = dev[d].new
    /\ dev[d].pc = "store1" => dev'[d].pc = "store2" /\ dev'[d].new = dev[d].new
    /\ dev[d].pc \in {"store2", "login1", "fetch2"} => dev'[d].pc = "menu"
    /\ dev[d].pc = "fetch1" => dev'[d].pc = "menu" \/ (dev'[d].pc = "fetch2" /\ dev'[d].share1 \notin Splits)
    /\ dev[d].pc \in {"update1", "update2"} => dev'[d].pc = "savepem"
    /\ \A e \in Devices : e # d => dev'[e] = dev[e]

LEMMA NotASplit == ASSUME NEW got \in {None, RefusalText} PROVE got \in Shares /\ got \notin Splits
BY MarkersAssumption DEF Shares

\* A call that fails: dev'[d] is After but perhaps for the connection.
LEMMA FailedEffect ==
    ASSUME TypeInv, NEW d \in Devices, Calling(d), NEW got \in {None, RefusalText}, NEW y,
           y = After(d, FALSE, got), NEW x, dev' = [dev EXCEPT ![d] = x],
           x.pc = y.pc, x.pkey = y.pkey, x.new = y.new, x.share1 = y.share1
    PROVE  FailedCall(d)
<1>1. AfterEffect(d, FALSE, got, After(d, FALSE, got))
  <2>1. got \in Shares /\ FALSE \in BOOLEAN
    BY NotASplit
  <2> QED BY <2>1, AfterFields, Zenon
<1>2. AfterEffect(d, FALSE, got, y)
  BY <1>1
<1>3. dev'[d] = x /\ \A e \in Devices : e # d => dev'[e] = dev[e]
  BY DevAt
<1>4. ~Agree(got, share3[d]) /\ ~Agree(dev[d].share1, got)
  BY NotASplit DEF Agree
<1>5. dev[d].pc \in {"register", "store1", "store2", "login1", "fetch1", "fetch2", "update1", "update2"}
  BY CallsAre DEF Calling
<1>6. /\ y.pkey = dev[d].pkey
      /\ y.new = dev[d].new \/ y.new = None
      /\ dev[d].pc = "register" =>
           /\ y.pc = IF dev[d].new = None THEN "menu" ELSE "store1"
           /\ y.new = dev[d].new
      /\ dev[d].pc = "store1" => y.pc = "store2" /\ y.new = dev[d].new
      /\ dev[d].pc \in {"store2", "login1", "fetch2"} => y.pc = "menu"
      /\ dev[d].pc = "fetch1" => y.pc = "menu" \/ (y.pc = "fetch2" /\ y.share1 \notin Splits)
      /\ dev[d].pc \in {"update1", "update2"} => y.pc = "savepem"
  BY <1>2, <1>4, <1>5, NotASplit DEF AfterEffect
<1> QED BY <1>3, <1>6 DEF FailedCall

LEMMA RefuseMoves ==
    ASSUME TypeInv, NEW d \in Devices, Refuse(d)
    PROVE  FailedCall(d)
<1>1. PICK got \in {None, RefusalText} : dev' = [dev EXCEPT ![d] = After(d, FALSE, got)]
  BY DEF Refuse, Fail
<1>2. PICK y : y = After(d, FALSE, got)
  OBVIOUS
<1>3. Calling(d) /\ dev' = [dev EXCEPT ![d] = y]
  BY <1>1, <1>2 DEF Refuse, Fail
<1> QED BY <1>2, <1>3, FailedEffect

LEMMA NoConnectionMoves ==
    ASSUME TypeInv, NEW d \in Devices, NoConnection(d) \/ StorageError(d)
    PROVE  Calling(d) /\ FailedCall(d)
<1>1. Calling(d) /\ dev' = [dev EXCEPT ![d] = After(d, FALSE, None)]
  BY DEF NoConnection, StorageError, Calling, Calls
<1>2. PICK y : y = After(d, FALSE, None)
  OBVIOUS
<1>3. dev' = [dev EXCEPT ![d] = y]
  BY <1>1, <1>2
<1> QED BY <1>1, <1>2, <1>3, FailedEffect

LEMMA LoseConnectionMoves ==
    ASSUME TypeInv, NEW d \in Devices, LoseConnection(d)
    PROVE  FailedCall(d)
<1>1. PICK y : y = After(d, FALSE, None)
  OBVIOUS
<1>2. y \in ClientState /\ Calling(d)
  <2>1. Calling(d) /\ FALSE \in BOOLEAN /\ None \in Shares
    BY DEF LoseConnection, Shares
  <2>2. After(d, FALSE, None) \in ClientState
    BY <2>1, AfterType, Zenon
  <2> QED BY <1>1, <2>1, <2>2
<1> DEFINE b == y.key_sock /\ dev[d].pc \notin KeyServerCalls
<1>3. PICK x : x = [y EXCEPT !.key_sock = b]
  OBVIOUS
<1>4. dev' = [dev EXCEPT ![d] = x]
  BY <1>1, <1>3 DEF LoseConnection
<1> HIDE DEF b
<1>5. x.pc = y.pc /\ x.pkey = y.pkey /\ x.new = y.new /\ x.share1 = y.share1
  BY <1>2, <1>3 DEF ClientState
<1> QED BY <1>1, <1>2, <1>4, <1>5, FailedEffect

\* What a call becomes when its caller goes away.
LEMMA OrphanedIs ==
    ASSUME NEW d
    PROVE  /\ Orphaned(d) \subseteq {Request(d)}
           /\ Orphaned(d) # {} => dev[d].passed /\ dev[d].pc \in Writes
           /\ Request(d).op = dev[d].pc /\ Request(d).key = dev[d].pkey
           /\ Request(d).share = dev[d].new
BY DEF Orphaned, Request

-----------------------------------------------------------------------------
(* Recovery gives back the registered key: one device, at most one fault   *)

HasKey(s, k) == s \in Splits => s.key = k

\* No key was generated, or none that is left anywhere.
Untouched(d) ==
    /\ dev[d].pc \in {"off", "keys"} /\ pem[d] = None /\ orphans = {}
    /\ dev[d].pc = "keys" => (session = d /\ dev[d].key_sock = TRUE) \/ faults = MaxFaults
    /\ clientPublicKeys = None /\ clientShare1 = None /\ shareStore = None

\* A signup that nothing has disturbed, but perhaps for a key file that was not saved.
SigningUp(d) ==
    /\ dev[d].pc \in {"split", "register", "store1", "store2"}
    /\ session = d /\ dev[d].key_sock = TRUE /\ orphans = {}
    /\ pem[d] = dev[d].pkey \/ (pem[d] = None /\ faults = MaxFaults)
    /\ dev[d].pc # "split" => dev[d].new \in Splits /\ HasKey(dev[d].new, dev[d].pkey)
    /\ clientPublicKeys = IF dev[d].pc \in {"store1", "store2"} THEN dev[d].pkey ELSE None
    /\ clientShare1 = IF dev[d].pc = "store2" THEN dev[d].new ELSE None
    /\ shareStore = None

\* All there is of the account belongs to one key.
OneKey(d, k) ==
    /\ pem[d] \in {k, Torn} /\ clientPublicKeys \in {k, None}
    /\ HasKey(clientShare1, k) /\ HasKey(shareStore, k) /\ HasKey(dev[d].new, k)
    /\ dev[d].pc \notin {"off", "keys"} => dev[d].pkey = k
    /\ \A r \in orphans : r.key = k /\ HasKey(r.share, k)

\* The servers have a key and two shares of it, and so has what would replace the shares.
Settled(d) ==
    /\ clientPublicKeys # None /\ clientShare1 \in Splits /\ shareStore \in Splits
    /\ HasKey(clientShare1, clientPublicKeys) /\ HasKey(shareStore, clientPublicKeys)
    /\ dev[d].pc \in {"update1", "update2", "save3"} => HasKey(dev[d].new, clientPublicKeys)
    /\ \A r \in orphans : r.op \in {"update1", "update2"} => HasKey(r.share, clientPublicKeys)

LastFault == faults = MaxFaults

KeyInv(d) ==
    \/ Untouched(d) \/ SigningUp(d) \/ Settled(d)
    \/ LastFault /\ \E k \in Keys : OneKey(d, k)

LEMMA OneFault ==
    ASSUME TypeInv, MaxFaults <= 1, SomethingFails
    PROVE  LastFault' /\ ~LastFault
BY NumbersAssumption DEF TypeInv, OrphansOK, SomethingFails, LastFault

LEMMA MarkersApart ==
    /\ None \notin Splits /\ \A k : HasKey(None, k)
    /\ \A k \in Keys : k # None /\ k # Torn
BY MarkersAssumption DEF HasKey

LEMMA KeyInvImplies ==
    ASSUME NEW d \in Devices, KeyInv(d)
    PROVE  RecoveryRestoresRegisteredKey
<1> SUFFICES ASSUME clientPublicKeys # None, Agree(clientShare1, shareStore)
             PROVE  clientShare1.key = clientPublicKeys
  BY DEF RecoveryRestoresRegisteredKey
<1>1. clientShare1 \in Splits /\ shareStore \in Splits
  BY DEF Agree
<1>2. shareStore # None
  BY <1>1, MarkersApart
<1>3. CASE Settled(d)
  BY <1>1, <1>3 DEF Settled, HasKey
<1>4. ASSUME NEW k \in Keys, OneKey(d, k) PROVE clientShare1.key = clientPublicKeys
  BY <1>1, <1>4 DEF OneKey, HasKey
<1> QED BY <1>2, <1>3, <1>4 DEF KeyInv, Untouched, SigningUp

\* A call that fails: because something fails, the session is gone, or so is the
\* connection.  Of the servers' state it changes at most the key that is served.
LEMMA FailedCallKeys ==
    ASSUME TypeInv, MaxFaults <= 1, NEW d \in Devices, KeyInv(d), Calling(d), FailedCall(d),
           UNCHANGED serverVars \/ (dev[d].pc = "register" /\ carry_out(Request(d))), UNCHANGED pem,
           orphans' = orphans \/ orphans' = orphans \cup Orphaned(d),
           SomethingFails \/ (UNCHANGED faults /\ (session # d \/ ~Connected(d)))
    PROVE  KeyInv(d)'
<1>1. dev[d].pc \in {"register", "store1", "store2", "login1", "fetch1", "fetch2", "update1", "update2"}
  BY CallsAre DEF Calling
<1>2. /\ dev'[d].pkey = dev[d].pkey /\ (dev'[d].new = dev[d].new \/ dev'[d].new = None)
      /\ dev'[d].pc \notin {"off", "keys", "update1", "update2", "save3"}
  BY <1>1 DEF FailedCall
<1>3. /\ clientShare1' = clientShare1 /\ shareStore' = shareStore /\ pem' = pem
      /\ \/ clientPublicKeys' = clientPublicKeys
         \/ clientPublicKeys = None /\ clientPublicKeys' = dev[d].pkey
  <2>1. CASE UNCHANGED serverVars
    BY <2>1 DEF serverVars
  <2>2. CASE dev[d].pc = "register" /\ carry_out(Request(d))
    BY <2>2 DEF carry_out, Request
  <2> QED BY <2>1, <2>2
<1>4. \A r \in orphans' : r \in orphans \/ (r.op = dev[d].pc /\ r.key = dev[d].pkey /\ r.share = dev[d].new)
  BY OrphanedIs
<1>5. ASSUME NEW k \in Keys, OneKey(d, k) PROVE OneKey(d, k)'
  <2>1. dev[d].pkey = k /\ HasKey(dev[d].new, k)
    BY <1>1, <1>5 DEF OneKey
  <2>2. HasKey(dev'[d].new, k)
    BY <1>2, <2>1, MarkersApart
  <2>3. \A r \in orphans' : r.key = k /\ HasKey(r.share, k)
    BY <1>4, <1>5, <2>1 DEF OneKey
  <2> QED BY <1>2, <1>3, <1>5, <2>1, <2>2, <2>3 DEF OneKey, HasKey
<1>6. CASE Settled(d)
  <2>1. \A r \in orphans' : r.op \in {"update1", "update2"} => HasKey(r.share, clientPublicKeys)
    BY <1>4, <1>6 DEF Settled
  <2>2. Settled(d)'
    BY <1>2, <1>3, <1>6, <2>1 DEF Settled, HasKey
  <2> QED BY <2>2 DEF KeyInv
<1>7. CASE SigningUp(d)
  <2>1. SomethingFails
    BY <1>7 DEF SigningUp, Connected
  <2>2. LastFault' /\ ~LastFault
    BY <2>1, OneFault
  <2>3. dev[d].pkey \in Keys /\ pem[d] = dev[d].pkey
    BY <1>1, <1>7, <2>2, ClientParts DEF Ready, SigningUp, LastFault
  <2>4. PICK k \in Keys : k = dev[d].pkey
    BY <2>3
  <2>5. OneKey(d, k)
    BY <1>1, <1>7, <2>3, <2>4, MarkersApart DEF SigningUp, OneKey
  <2>6. OneKey(d, k)'
    BY <1>5, <2>5
  <2> QED BY <2>2, <2>6 DEF KeyInv
<1>8. CASE Untouched(d)
  BY <1>1, <1>8 DEF Untouched
<1>9. ASSUME LastFault, NEW k \in Keys, OneKey(d, k) PROVE KeyInv(d)'
  <2>1. faults' = faults
    <3>1. ~SomethingFails
      BY <1>9, OneFault
    <3> QED BY <3>1
  <2>2. LastFault'
    BY <1>9, <2>1 DEF LastFault
  <2> QED BY <1>5, <1>9, <2>2 DEF KeyInv
<1> QED BY <1>6, <1>7, <1>8, <1>9 DEF KeyInv

LEMMA CallFailsKeys ==
    ASSUME TypeInv, MaxFaults <= 1, NEW d \in Devices, KeyInv(d),
           Refuse(d) \/ NoConnection(d) \/ StorageError(d) \/ LoseConnection(d)
    PROVE  KeyInv(d)'
<1>1. CASE Refuse(d)
  BY <1>1, RefuseMoves, FailedCallKeys DEF Refuse, Fail, deviceVars
<1>2. CASE NoConnection(d)
  BY <1>2, NoConnectionMoves, FailedCallKeys DEF NoConnection, deviceVars
<1>3. CASE StorageError(d)
  BY <1>3, NoConnectionMoves, FailedCallKeys DEF StorageError, deviceVars
<1>4. CASE LoseConnection(d)
  BY <1>4, LoseConnectionMoves, FailedCallKeys DEF LoseConnection, deviceVars
<1> QED BY <1>1, <1>2, <1>3, <1>4

\* A request that is carried out leaves what has one key with one key.
LEMMA CarryOutOneKey ==
    ASSUME NEW d \in Devices, NEW k \in Keys, OneKey(d, k), NEW r, carry_out(r),
           r.key = k, HasKey(r.share, k)
    PROVE  clientPublicKeys' \in {k, None} /\ HasKey(clientShare1', k) /\ HasKey(shareStore', k)
BY DEF OneKey, carry_out

LEMMA CarryOutSettled ==
    ASSUME NEW d \in Devices, Settled(d), NEW r, carry_out(r),
           r.op \in {"update1", "update2"} => r.share \in Splits /\ HasKey(r.share, clientPublicKeys)
    PROVE  /\ clientPublicKeys' = clientPublicKeys /\ clientShare1' \in Splits /\ shareStore' \in Splits
           /\ HasKey(clientShare1', clientPublicKeys) /\ HasKey(shareStore', clientPublicKeys)
BY MarkersApart DEF Settled, carry_out

LEMMA AnswerKeys ==
    ASSUME TypeInv, NEW d \in Devices, KeyInv(d), Answer(d)
    PROVE  KeyInv(d)'
<1>1. AfterEffect(d, TRUE, Reply(d), dev'[d])
  BY AnswerMoves
<1>2. dev[d].pc \in {"register", "store1", "store2", "login1", "fetch1", "fetch2", "update1", "update2"}
  BY CallsAre DEF Calling, Answer
<1>3. /\ dev[d].pkey \in Keys /\ dev[d].new \in Splits \cup {None}
      /\ dev[d].pc \in {"store1", "store2", "update1", "update2"} => dev[d].new \in Splits
  BY <1>2, ClientParts DEF Ready
<1>4. PICK r : r = Request(d)
  OBVIOUS
<1>5. carry_out(r) /\ r.op = dev[d].pc /\ r.key = dev[d].pkey /\ r.share = dev[d].new
  BY <1>4, OrphanedIs DEF Answer
<1>6. pem' = pem /\ orphans' = orphans /\ faults' = faults /\ session' = session
  BY DEF Answer, deviceVars
<1>7. \A b : Agree(dev[d].share1, b) => b \in Splits /\ b.key \in Keys /\ split_private_key(b.key).key = b.key
  BY FreshSplit DEF Agree, Splits
<1>8. CASE Untouched(d)
  BY <1>2, <1>8 DEF Untouched
<1>9. ASSUME LastFault, NEW k \in Keys, OneKey(d, k) PROVE KeyInv(d)'
  <2>1. dev[d].pkey = k /\ HasKey(dev[d].new, k) /\ HasKey(Reply(d), k)
    BY <1>2, <1>9 DEF OneKey, Reply
  <2>2. clientPublicKeys' \in {k, None} /\ HasKey(clientShare1', k) /\ HasKey(shareStore', k)
    BY <1>5, <1>9, <2>1, CarryOutOneKey
  <2>3. dev'[d].pkey = k
    <3>1. Agree(dev[d].share1, Reply(d)) => Reply(d).key = k
      BY <1>7, <2>1 DEF HasKey
    <3>2. Agree(Reply(d), share3[d]) => Reply(d).key = k
      BY <2>1 DEF HasKey, Agree
    <3> QED BY <1>1, <1>2, <2>1, <3>1, <3>2 DEF AfterEffect
  <2>4. HasKey(dev'[d].new, k)
    <3>1. Agree(dev[d].share1, Reply(d)) => HasKey(split_private_key(Reply(d).key), k)
      BY <1>7, <2>1 DEF HasKey
    <3>2. HasKey(None, k)
      BY MarkersApart
    <3> QED BY <1>1, <1>2, <2>1, <3>1, <3>2 DEF AfterEffect
  <2>5. OneKey(d, k)' /\ LastFault'
    BY <1>6, <1>9, <2>2, <2>3, <2>4 DEF OneKey, LastFault, HasKey
  <2> QED BY <2>5 DEF KeyInv
<1>10. CASE Settled(d)
  <2>1. /\ clientPublicKeys' = clientPublicKeys /\ clientShare1' \in Splits /\ shareStore' \in Splits
        /\ HasKey(clientShare1', clientPublicKeys) /\ HasKey(shareStore', clientPublicKeys)
    <3>1. r.op \in {"update1", "update2"} => r.share \in Splits /\ HasKey(r.share, clientPublicKeys)
      BY <1>3, <1>5, <1>10 DEF Settled
    <3> QED BY <1>5, <1>10, <3>1, CarryOutSettled
  <2>2. dev'[d].pc \in {"update1", "update2", "save3"} => HasKey(dev'[d].new, clientPublicKeys)
    <3>1. Agree(dev[d].share1, Reply(d)) => Reply(d).key = Reply(d).key
      OBVIOUS
    <3>2. dev[d].pc = "fetch2" => HasKey(Reply(d), clientPublicKeys)
      BY <1>10 DEF Settled, Reply
    <3>3. dev[d].pc = "fetch2" /\ Agree(dev[d].share1, Reply(d))
            => HasKey(split_private_key(Reply(d).key), clientPublicKeys)
      BY <1>7, <3>2 DEF HasKey
    <3> QED BY <1>1, <1>2, <1>10, <3>3 DEF AfterEffect, Settled
  <2>3. Settled(d)'
    BY <1>6, <1>10, <2>1, <2>2 DEF Settled, HasKey
  <2> QED BY <2>3 DEF KeyInv
<1>11. CASE SigningUp(d)
  <2>1. dev[d].pc \in {"register", "store1", "store2"} /\ dev[d].new \in Splits /\ dev[d].new # None
    BY <1>2, <1>11, MarkersApart DEF SigningUp
  <2>2. dev'[d].key_sock = TRUE /\ dev'[d].pkey = dev[d].pkey
    BY <1>1, <1>11, <2>1 DEF AfterEffect, SigningUp
  <2>3. CASE dev[d].pc = "register"
    <3>1. dev'[d].pc = "store1" /\ dev'[d].new = dev[d].new
      BY <1>1, <2>1, <2>3 DEF AfterEffect
    <3>2. clientPublicKeys' = dev[d].pkey /\ clientShare1' = None /\ shareStore' = None
      BY <1>5, <1>11, <2>3 DEF carry_out, SigningUp
    <3>3. SigningUp(d)'
      BY <1>6, <1>11, <2>1, <2>2, <2>3, <3>1, <3>2 DEF SigningUp, HasKey
    <3> QED BY <3>3 DEF KeyInv
  <2>4. CASE dev[d].pc = "store1"
    <3>1. dev'[d].pc = "store2" /\ dev'[d].new = dev[d].new
      BY <1>1, <2>4 DEF AfterEffect
    <3>2. clientPublicKeys' = dev[d].pkey /\ clientShare1' = dev[d].new /\ shareStore' = None
      BY <1>5, <1>11, <2>4 DEF carry_out, SigningUp
    <3>3. SigningUp(d)'
      BY <1>6, <1>11, <2>1, <2>2, <2>4, <3>1, <3>2 DEF SigningUp, HasKey
    <3> QED BY <3>3 DEF KeyInv
  <2>5. CASE dev[d].pc = "store2"
    <3>1. dev'[d].pc = "menu"
      BY <1>1, <2>5 DEF AfterEffect
    <3>2. clientPublicKeys' = dev[d].pkey /\ clientShare1' = dev[d].new /\ shareStore' = dev[d].new
      BY <1>5, <1>11, <2>5 DEF carry_out, SigningUp
    <3>3. dev[d].pkey # None /\ HasKey(dev[d].new, dev[d].pkey) /\ orphans' = {}
      BY <1>3, <1>6, <1>11, <2>5, MarkersApart DEF SigningUp
    <3>4. Settled(d)'
      BY <2>1, <3>1, <3>2, <3>3 DEF Settled, HasKey
    <3> QED BY <3>4 DEF KeyInv
  <2> QED BY <2>1, <2>3, <2>4, <2>5
<1> QED BY <1>8, <1>9, <1>10, <1>11 DEF KeyInv

LEMMA CarryOutOrphanKeys ==
    ASSUME TypeInv, NEW d \in Devices, KeyInv(d), NEW r \in orphans, CarryOutOrphan(r)
    PROVE  KeyInv(d)'
<1>1. /\ carry_out(r) /\ orphans' = orphans \ {r} /\ pem' = pem /\ dev' = dev /\ faults' = faults
      /\ orphans # {}
  BY DEF CarryOutOrphan, deviceVars
<1>2. RequestOK(r)
  BY DEF TypeInv, OrphansOK
<1>3. ASSUME LastFault, NEW k \in Keys, OneKey(d, k) PROVE KeyInv(d)'
  <2>1. clientPublicKeys' \in {k, None} /\ HasKey(clientShare1', k) /\ HasKey(shareStore', k)
    BY <1>1, <1>3, CarryOutOneKey DEF OneKey
  <2>2. OneKey(d, k)' /\ LastFault'
    BY <1>1, <1>3, <2>1 DEF OneKey, LastFault, HasKey
  <2> QED BY <2>2 DEF KeyInv
<1>4. CASE Settled(d)
  <2>1. /\ clientPublicKeys' = clientPublicKeys /\ clientShare1' \in Splits /\ shareStore' \in Splits
        /\ HasKey(clientShare1', clientPublicKeys) /\ HasKey(shareStore', clientPublicKeys)
    BY <1>1, <1>2, <1>4, CarryOutSettled DEF RequestOK, Settled
  <2>2. Settled(d)'
    BY <1>1, <1>4, <2>1 DEF Settled, HasKey
  <2> QED BY <2>2 DEF KeyInv
<1> QED BY <1>1, <1>3, <1>4 DEF KeyInv, Untouched, SigningUp

\* A step of the client that leaves the servers and the account's key alone.
LEMMA LocalKeys ==
    ASSUME TypeInv, NEW d \in Devices, KeyInv(d), NEW pc, NEW share1, NEW new \in {dev[d].new, None},
           Moves(d, pc, dev[d].pkey, share1, new),
           dev[d].pc \notin {"off", "keys", "split", "register", "store1", "store2"},
           pc \notin {"update1", "update2", "save3"} \/ pc = dev[d].pc,
           UNCHANGED <<serverVars, orphans>>, pem'[d] \in {pem[d], dev[d].pkey, Torn},
           SomethingFails \/ UNCHANGED faults
    PROVE  KeyInv(d)'
<1>1. /\ dev'[d].pkey = dev[d].pkey /\ dev'[d].new \in {dev[d].new, None} /\ dev'[d].pc = pc
      /\ clientPublicKeys' = clientPublicKeys /\ clientShare1' = clientShare1
      /\ shareStore' = shareStore /\ orphans' = orphans
  BY DEF Moves, serverVars
<1>2. ASSUME LastFault, NEW k \in Keys, OneKey(d, k) PROVE KeyInv(d)'
  <2>1. faults' = faults
    BY <1>2 DEF SomethingFails, LastFault, TypeInv, OrphansOK
  <2>2. OneKey(d, k)' /\ LastFault'
    BY <1>1, <1>2, <2>1, MarkersApart DEF OneKey, LastFault, HasKey
  <2> QED BY <2>2 DEF KeyInv
<1>3. CASE Settled(d)
  <2>1. Settled(d)'
    BY <1>1, <1>3, MarkersApart DEF Settled, HasKey
  <2> QED BY <2>1 DEF KeyInv
<1> QED BY <1>2, <1>3 DEF KeyInv, Untouched, SigningUp

LEMMA PassKeys ==
    ASSUME TypeInv, NEW d \in Devices, KeyInv(d), Pass(d)
    PROVE  KeyInv(d)'
<1>1. /\ dev'[d].pc = dev[d].pc /\ dev'[d].pkey = dev[d].pkey /\ dev'[d].new = dev[d].new
      /\ dev'[d].key_sock = dev[d].key_sock
  BY PassMoves DEF Moves
<1>2. UNCHANGED <<clientPublicKeys, clientShare1, shareStore, pem, orphans, faults, session>>
  BY DEF Pass, serverVars, deviceVars
<1>3. LastFault' = LastFault
  BY <1>2 DEF LastFault
<1>4. Untouched(d) => Untouched(d)'
  BY <1>1, <1>2 DEF Untouched
<1>5. SigningUp(d) => SigningUp(d)'
  BY <1>1, <1>2 DEF SigningUp, HasKey
<1>6. Settled(d) => Settled(d)'
  BY <1>1, <1>2 DEF Settled, HasKey
<1>7. \A k \in Keys : OneKey(d, k) => OneKey(d, k)'
  BY <1>1, <1>2 DEF OneKey, HasKey
<1> QED BY <1>3, <1>4, <1>5, <1>6, <1>7 DEF KeyInv

LEMMA StartKeys ==
    ASSUME TypeInv, NEW d \in Devices, KeyInv(d), Start(d)
    PROVE  KeyInv(d)'
<1>1. dev'[d].pc = "keys" /\ dev'[d].new = dev[d].new /\ dev'[d].key_sock = TRUE
  BY StartMoves DEF Moves
<1>2. /\ UNCHANGED <<clientPublicKeys, clientShare1, shareStore, pem, orphans, faults>> /\ session' = d
      /\ dev[d].pc = "off"
  BY DEF Start, serverVars, deviceVars
<1>3. LastFault' = LastFault
  BY <1>2 DEF LastFault
<1>4. Untouched(d) => Untouched(d)'
  BY <1>1, <1>2 DEF Untouched
<1>5. ~SigningUp(d)
  BY <1>2 DEF SigningUp
<1>6. Settled(d) => Settled(d)'
  BY <1>1, <1>2 DEF Settled, HasKey
<1>7. \A k \in Keys : OneKey(d, k) => OneKey(d, k)'
  BY <1>1, <1>2 DEF OneKey, HasKey
<1> QED BY <1>3, <1>4, <1>5, <1>6, <1>7 DEF KeyInv

LEMMA LoadKeyKeys ==
    ASSUME TypeInv, NEW d \in Devices, KeyInv(d), LoadKey(d)
    PROVE  KeyInv(d)'
<1>1. dev'[d].pc \in {"menu", "login1"} /\ dev'[d].pkey = pem[d] /\ dev'[d].new = dev[d].new
  BY LoadKeyMoves DEF Moves
<1>2. /\ UNCHANGED <<clientPublicKeys, clientShare1, shareStore, pem, orphans, faults>>
      /\ dev[d].pc = "keys" /\ pem[d] \in Keys
  BY DEF LoadKey, serverVars, deviceVars
<1>3. ~Untouched(d) /\ ~SigningUp(d)
  BY <1>2, MarkersApart DEF Untouched, SigningUp
<1>4. Settled(d) => Settled(d)'
  BY <1>1, <1>2 DEF Settled, HasKey
<1>5. \A k \in Keys : OneKey(d, k) => OneKey(d, k)'
  BY <1>1, <1>2, MarkersApart DEF OneKey, HasKey
<1>6. LastFault' = LastFault
  BY <1>2 DEF LastFault
<1> QED BY <1>3, <1>4, <1>5, <1>6 DEF KeyInv

LEMMA GenerateKeyKeys ==
    ASSUME TypeInv, MaxFaults <= 1, NEW d \in Devices, KeyInv(d), GenerateKey(d)
    PROVE  KeyInv(d)'
<1>1. PICK k \in Keys : /\ Moves(d, "split", k, dev[d].share1, dev[d].new)
                        /\ \/ pem' = [pem EXCEPT ![d] = k] /\ UNCHANGED faults
                           \/ pem' \in FailedWrite(pem, d, Torn) /\ SomethingFails
  BY GenerateKeyMoves
<1>2. /\ dev'[d].pc = "split" /\ dev'[d].pkey = k /\ dev'[d].new = dev[d].new
      /\ dev'[d].key_sock = dev[d].key_sock
  BY <1>1, GenerateKeyMoves DEF Moves
<1>3. /\ UNCHANGED <<clientPublicKeys, clientShare1, shareStore, orphans, session>>
      /\ dev[d].pc = "keys" /\ pem[d] = None
  BY DEF GenerateKey, serverVars
<1>4. \/ pem'[d] = k /\ LastFault' = LastFault
      \/ pem'[d] \in {None, Torn} /\ LastFault' /\ ~LastFault
  BY <1>1, <1>3, OneFault DEF TypeInv, FilesOK, LastFault, FailedWrite
<1>5. dev[d].new = None
  BY <1>3, ClientParts DEF Ready
<1>6. Settled(d) => Settled(d)'
  BY <1>2, <1>3 DEF Settled, HasKey
<1>7. \A j \in Keys : ~OneKey(d, j)
  BY <1>3, MarkersApart, MarkersAssumption DEF OneKey
<1>8. CASE Untouched(d) /\ session = d /\ dev[d].key_sock = TRUE
  <2>1. CASE pem'[d] = Torn /\ LastFault'
    <3>1. OneKey(d, k)'
      BY <1>2, <1>3, <1>5, <1>8, <2>1, MarkersApart DEF Untouched, OneKey
    <3> QED BY <2>1, <3>1 DEF KeyInv
  <2>2. CASE pem'[d] = k \/ (pem'[d] = None /\ LastFault')
    <3>1. SigningUp(d)'
      BY <1>2, <1>3, <1>8, <2>2 DEF Untouched, SigningUp, LastFault
    <3> QED BY <3>1 DEF KeyInv
  <2> QED BY <1>4, <2>1, <2>2
<1>9. CASE Untouched(d) /\ LastFault
  <2>1. pem'[d] = k /\ LastFault'
    BY <1>4, <1>9
  <2>2. OneKey(d, k)'
    BY <1>2, <1>3, <1>5, <1>9, <2>1, MarkersApart DEF Untouched, OneKey
  <2> QED BY <2>1, <2>2 DEF KeyInv
<1>10. ~SigningUp(d)
  BY <1>3 DEF SigningUp
<1> QED BY <1>3, <1>6, <1>7, <1>8, <1>9, <1>10 DEF KeyInv, Untouched, LastFault

LEMMA SplitKeyKeys ==
    ASSUME TypeInv, MaxFaults <= 1, NEW d \in Devices, KeyInv(d), SplitKey(d)
    PROVE  KeyInv(d)'
<1>1. PICK s \in Splits : \E n \in {s, None} :
         /\ s.key = dev[d].pkey
         /\ Moves(d, "register", dev[d].pkey, dev[d].share1, n)
         /\ (n = s /\ UNCHANGED faults) \/ SomethingFails
  BY SplitKeyMoves
<1>n. PICK n \in {s, None} :
         /\ s.key = dev[d].pkey
         /\ Moves(d, "register", dev[d].pkey, dev[d].share1, n)
         /\ (n = s /\ UNCHANGED faults) \/ SomethingFails
  BY <1>1
<1>2. dev'[d].pc = "register" /\ dev'[d].pkey = dev[d].pkey /\ dev'[d].new = n
  BY <1>n DEF Moves
<1>3. /\ UNCHANGED <<clientPublicKeys, clientShare1, shareStore, orphans, pem, session>>
      /\ dev[d].pc = "split"
  BY DEF SplitKey, serverVars
<1>4. dev'[d].key_sock = dev[d].key_sock
  BY SplitKeyMoves
<1>5. \/ n = s /\ faults' = faults
      \/ LastFault' /\ ~LastFault
  BY <1>n, OneFault
<1>6. Settled(d) => Settled(d)'
  BY <1>2, <1>3 DEF Settled, HasKey
<1>7. ASSUME NEW k \in Keys, OneKey(d, k) PROVE OneKey(d, k)'
  <2>1. dev[d].pkey = k
    BY <1>3, <1>7 DEF OneKey
  <2>2. HasKey(n, k)
    BY <1>n, <2>1, MarkersApart DEF HasKey
  <2> QED BY <1>2, <1>3, <1>7, <2>1, <2>2 DEF OneKey, HasKey
<1>8. CASE SigningUp(d) /\ n = s
  <2>1. SigningUp(d)'
    <3>1. pem'[d] = dev'[d].pkey \/ (pem'[d] = None /\ faults' = MaxFaults)
      BY <1>2, <1>3, <1>5, <1>8 DEF SigningUp, LastFault
    <3>2. dev'[d].new \in Splits /\ HasKey(dev'[d].new, dev'[d].pkey)
      BY <1>n, <1>2, <1>8 DEF HasKey
    <3>3. /\ clientPublicKeys' = None /\ clientShare1' = None /\ shareStore' = None
          /\ session' = d /\ orphans' = {} /\ dev'[d].key_sock = TRUE
      BY <1>3, <1>4, <1>8 DEF SigningUp
    <3> QED BY <1>2, <3>1, <3>2, <3>3 DEF SigningUp, HasKey
  <2> QED BY <2>1 DEF KeyInv
<1>9. CASE SigningUp(d) /\ n # s
  <2>1. LastFault' /\ ~LastFault
    BY <1>5, <1>9
  <2>2. PICK k \in Keys : k = dev[d].pkey /\ pem[d] = k
    BY <1>3, <1>9, <2>1, ClientParts DEF Ready, SigningUp, LastFault
  <2>3. dev[d].new = None
    BY <1>3, ClientParts DEF Ready
  <2>4. OneKey(d, k)
    BY <1>3, <1>9, <2>2, <2>3, MarkersApart DEF SigningUp, OneKey
  <2> QED BY <1>7, <2>1, <2>4 DEF KeyInv
<1>10. ASSUME LastFault, NEW k \in Keys, OneKey(d, k) PROVE KeyInv(d)'
  <2>1. LastFault'
    BY <1>5, <1>10 DEF LastFault
  <2> QED BY <1>7, <1>10, <2>1 DEF KeyInv
<1>11. ~Untouched(d)
  BY <1>3 DEF Untouched
<1> QED BY <1>6, <1>8, <1>9, <1>10, <1>11 DEF KeyInv

\* Recovery begins, and ends with the new files.
LEMMA RecoveryKeys ==
    ASSUME TypeInv, NEW d \in Devices, KeyInv(d),
           recover_account_flow(d) \/ save_local_share3(d) \/ save_private_key(d)
    PROVE  KeyInv(d)'
<1>1. CASE recover_account_flow(d)
  <2>1. Moves(d, "fetch1", dev[d].pkey, dev[d].share1, dev[d].new)
    BY <1>1, RecoverMoves
  <2> QED BY <1>1, <2>1, LocalKeys DEF recover_account_flow, deviceVars
<1>2. CASE save_local_share3(d)
  <2>1. Moves(d, "savepem", dev[d].pkey, dev[d].share1, None)
    BY <1>2, SaveShare3Moves
  <2> QED BY <1>2, <2>1, LocalKeys DEF save_local_share3
<1>3. CASE save_private_key(d)
  <2>1. Moves(d, "menu", dev[d].pkey, dev[d].share1, dev[d].new)
    BY <1>3, SaveKeyMoves
  <2>2. pem'[d] \in {pem[d], dev[d].pkey, Torn}
    BY <1>3 DEF save_private_key, FailedWrite, TypeInv, FilesOK
  <2> QED BY <1>3, <2>1, <2>2, LocalKeys DEF save_private_key
<1> QED BY <1>1, <1>2, <1>3

\* The client ends, in order or not.
LEMMA StopKeys ==
    ASSUME TypeInv, MaxFaults <= 1, NEW d \in Devices, KeyInv(d),
           CannotLoadKey(d) \/ Exit(d) \/ Crash(d)
    PROVE  KeyInv(d)'
<1>1. dev'[d].pc = "off" /\ dev'[d].new = None
  BY StopMoves DEF Moves, CannotLoadKey, Exit, Crash
<1>2. UNCHANGED <<clientPublicKeys, clientShare1, shareStore>>
  BY DEF CannotLoadKey, Exit, Crash, serverVars
<1>3. CASE CannotLoadKey(d) \/ Exit(d)
  <2>1. UNCHANGED <<pem, orphans, faults>>
    BY <1>3 DEF CannotLoadKey, Exit, deviceVars
  <2>2. ~Untouched(d) /\ ~SigningUp(d)
    BY <1>3, MarkersAssumption DEF CannotLoadKey, Exit, Untouched, SigningUp
  <2>3. Settled(d) => Settled(d)'
    BY <1>1, <1>2, <2>1 DEF Settled, HasKey
  <2>4. \A k \in Keys : OneKey(d, k) => OneKey(d, k)'
    BY <1>1, <1>2, <2>1, MarkersApart DEF OneKey, HasKey
  <2>5. LastFault' = LastFault
    BY <2>1 DEF LastFault
  <2> QED BY <2>2, <2>3, <2>4, <2>5 DEF KeyInv
<1>4. CASE Crash(d)
  <2>1. /\ orphans' = orphans \cup Orphaned(d)
        /\ \/ pem'[d] = pem[d]
           \/ pem'[d] = Torn /\ (dev[d].pc = "savepem" \/ (dev[d].pc = "keys" /\ pem[d] = None))
        /\ dev[d].pc # "off" /\ SomethingFails
    BY <1>4 DEF Crash, TypeInv, FilesOK
  <2>2. LastFault' /\ ~LastFault
    BY <2>1, OneFault
  <2>3. \A r \in orphans' : r \in orphans \/ (r.op = dev[d].pc /\ r.key = dev[d].pkey /\ r.share = dev[d].new)
    BY <2>1, OrphanedIs
  <2>4. CASE Settled(d)
    <3>1. Settled(d)'
      BY <1>1, <1>2, <2>3, <2>4 DEF Settled, HasKey
    <3> QED BY <3>1 DEF KeyInv
  <2>5. CASE SigningUp(d)
    <3>1. PICK k \in Keys : k = dev[d].pkey /\ pem[d] = k
      BY <2>2, <2>5, ClientParts DEF Ready, SigningUp, LastFault
    <3>2. pem'[d] = k
      BY <2>1, <2>5, <3>1 DEF SigningUp
    <3>3. \A r \in orphans' : r.key = k /\ HasKey(r.share, k)
      <4>1. HasKey(dev[d].new, k)
        BY <2>5, <3>1, ClientParts, MarkersApart DEF SigningUp, Ready
      <4> QED BY <2>3, <2>5, <3>1, <4>1 DEF SigningUp
    <3>4. HasKey(clientShare1, k) /\ HasKey(shareStore, k) /\ clientPublicKeys \in {k, None}
      BY <2>5, <3>1, MarkersApart DEF SigningUp
    <3>5. OneKey(d, k)'
      BY <1>1, <1>2, <3>2, <3>3, <3>4, MarkersApart DEF OneKey, HasKey
    <3> QED BY <2>2, <3>5 DEF KeyInv
  <2>6. CASE Untouched(d)
    <3>1. dev[d].pc = "keys" /\ orphans' = {}
      <4>1. dev[d].pc \notin Writes
        BY <2>6 DEF Untouched, Writes
      <4> QED BY <2>1, <2>6, <4>1, OrphanedIs DEF Untouched
    <3>2. CASE pem'[d] = pem[d]
      <4>1. Untouched(d)'
        BY <1>1, <1>2, <2>6, <3>1, <3>2 DEF Untouched
      <4> QED BY <4>1 DEF KeyInv
    <3>3. CASE pem'[d] = Torn
      <4>1. PICK k \in Keys : TRUE
        BY FreshKey
      <4>2. OneKey(d, k)'
        BY <1>1, <1>2, <2>6, <3>1, <3>3, MarkersApart DEF Untouched, OneKey
      <4> QED BY <2>2, <4>2 DEF KeyInv
    <3> QED BY <2>1, <3>2, <3>3
  <2> QED BY <2>2, <2>4, <2>5, <2>6 DEF KeyInv
<1> QED BY <1>3, <1>4

LEMMA SessionLostKeys ==
    ASSUME TypeInv, MaxFaults <= 1, NEW d \in Devices, KeyInv(d), SessionLost
    PROVE  KeyInv(d)'
<1>1. /\ UNCHANGED <<clientPublicKeys, clientShare1, shareStore, pem, orphans, dev>>
      /\ LastFault' /\ ~LastFault
  BY OneFault DEF SessionLost, serverVars, deviceVars
<1>2. Untouched(d) => Untouched(d)'
  BY <1>1 DEF Untouched, LastFault
<1>3. Settled(d) => Settled(d)'
  BY <1>1 DEF Settled, HasKey
<1>4. CASE SigningUp(d)
  <2>1. PICK k \in Keys : k = dev[d].pkey /\ pem[d] = k
    BY <1>1, <1>4, ClientParts DEF Ready, SigningUp, LastFault
  <2>2. HasKey(dev[d].new, k)
    BY <1>4, <2>1, ClientParts, MarkersApart DEF SigningUp, Ready
  <2>3. HasKey(clientShare1, k) /\ HasKey(shareStore, k) /\ clientPublicKeys \in {k, None}
    BY <1>4, <2>1, <2>2, MarkersApart DEF SigningUp
  <2>4. OneKey(d, k)'
    BY <1>1, <1>4, <2>1, <2>2, <2>3 DEF SigningUp, OneKey, HasKey
  <2> QED BY <1>1, <2>4 DEF KeyInv
<1> QED BY <1>1, <1>2, <1>3, <1>4 DEF KeyInv

LEMMA LoseDeviceKeys ==
    ASSUME TypeInv, MaxFaults <= 1, NEW d \in Devices, KeyInv(d), LoseDevice(d)
    PROVE  KeyInv(d)'
<1>1. /\ UNCHANGED <<clientPublicKeys, clientShare1, shareStore, orphans, dev, session>>
      /\ pem'[d] = None /\ dev[d].pc = "off" /\ ~LastFault
  BY OneFault DEF LoseDevice, serverVars, TypeInv, FilesOK
<1>2. Untouched(d) => Untouched(d)'
  BY <1>1 DEF Untouched
<1>3. Settled(d) => Settled(d)'
  BY <1>1 DEF Settled, HasKey
<1>4. ~SigningUp(d)
  BY <1>1 DEF SigningUp
<1> QED BY <1>1, <1>2, <1>3, <1>4 DEF KeyInv

LEMMA NextKeys ==
    ASSUME MaxFaults <= 1, NEW d \in Devices, Devices = {d}, TypeInv, KeyInv(d), [Next]_vars
    PROVE  KeyInv(d)'
<1>1. CASE UNCHANGED vars
  <2>1. UNCHANGED <<clientPublicKeys, clientShare1, shareStore, pem, orphans, dev, session, faults>>
    BY <1>1 DEF vars, serverVars, deviceVars
  <2> QED BY <2>1 DEF KeyInv, Untouched, SigningUp, Settled, OneKey, LastFault, HasKey
<1>2. CASE Proceed(d)
  BY <1>2, PassKeys, AnswerKeys, CallFailsKeys, LoadKeyKeys, StopKeys, GenerateKeyKeys, SplitKeyKeys,
     RecoveryKeys DEF Proceed
<1>3. ASSUME Client(d) PROVE KeyInv(d)'
  BY <1>2, <1>3, StartKeys, RecoveryKeys, StopKeys, CallFailsKeys, LoseDeviceKeys DEF Client
<1>4. ASSUME NEW e \in Devices, Client(e) PROVE KeyInv(d)'
  <2>1. e = d
    OBVIOUS
  <2> QED BY <1>3, <1>4, <2>1
<1>5. ASSUME NEW r \in orphans, CarryOutOrphan(r) PROVE KeyInv(d)'
  BY <1>5, CarryOutOrphanKeys
<1>6. CASE SessionLost
  BY <1>6, SessionLostKeys
<1> QED BY <1>1, <1>4, <1>5, <1>6 DEF Next

LEMMA InitKeys == ASSUME NEW d \in Devices, Init PROVE KeyInv(d)
BY DEF Init, Off, KeyInv, Untouched

\* The key that the servers' shares reconstruct is the one mail is encrypted to, on an
\* account used from one device, whatever goes wrong once: a refused or failed or lost call
\* of signup or rotation, late requests, a crash at any step, a lost session, file or device.
THEOREM RecoveryRestoresRegisteredKeyHolds ==
    ASSUME MaxFaults <= 1, NEW d \in Devices, Devices = {d}
    PROVE  Spec => []RecoveryRestoresRegisteredKey
<1>1. Init => KeyInv(d)
  BY InitKeys
<1>2. TypeInv /\ KeyInv(d) /\ [Next]_vars => KeyInv(d)'
  BY NextKeys
<1>3. KeyInv(d) => RecoveryRestoresRegisteredKey
  BY KeyInvImplies
<1> QED BY <1>1, <1>2, <1>3, TypeInvariance, PTL DEF Spec

-----------------------------------------------------------------------------
(* Two shares that fit are never lost: one device, at most one fault       *)

\* While the client runs, the session is its own; and it has the Key Server connection.
Kept(d) == dev[d].pc # "off" => session = d
Linked(d) == dev[d].pc # "off" => session = d /\ dev[d].key_sock = TRUE

\* Share3 fits Share2, or is about to be replaced by what does.
Held(d) == share3[d] = shareStore \/ (dev[d].pc = "save3" /\ dev[d].new = shareStore)

\* Share1 fits Share2, or what is about to replace it.
Paired(d) == clientShare1 = IF dev[d].pc = "update2" THEN dev[d].new ELSE shareStore

Uploads == {"register", "store1", "store2"}

\* A signup on its way to the first Share2.
InOrder(d) ==
    /\ orphans = {}
    /\ dev[d].pc \in {"off", "keys", "split"} \cup Uploads
    /\ dev[d].pc \in Uploads => dev[d].new \in Splits
    /\ clientShare1 = IF dev[d].pc = "store2" THEN dev[d].new ELSE None

\* Before the fault.
Smooth(d) ==
    /\ orphans = {} /\ Linked(d)
    /\ shareStore \in Splits =>
         /\ Held(d) /\ Paired(d) /\ pem[d] # None
         /\ dev[d].pc \notin {"split"} \cup Uploads
         /\ dev[d].pc = "save3" => dev[d].new = shareStore
         /\ dev[d].pc \in {"update1", "update2"} => dev[d].new # shareStore
    /\ shareStore = None =>
         /\ InOrder(d)
         /\ dev[d].pc \in {"off", "keys"} <=> pem[d] = None
         /\ dev[d].pc \in Uploads => dev[d].new = share3[d]

\* What a request that is still to be carried out finds.
Expected(r, d) ==
    /\ r.op = "store2" /\ shareStore = None => r.share = share3[d]
    /\ r.op = "update1" => shareStore \in Splits
    /\ r.op = "update2" =>
         /\ shareStore \in Splits /\ clientShare1 = r.share /\ r.share # shareStore
         /\ dev[d].pc \notin {"update1", "update2", "save3"}
         /\ dev[d].pc = "fetch2" => dev[d].share1 # shareStore

\* Without a key file a new signup will come, and must find two shares that fit, or none.
NoFile(d) ==
    /\ orphans = {}
    /\ shareStore \in Splits => Kept(d) /\ Paired(d)
    /\ shareStore = None =>
         InOrder(d) /\ (dev[d].pc \in {"split"} \cup Uploads => Linked(d))

\* After the fault.
Rest(d) ==
    /\ shareStore \in Splits => Held(d) \/ (Kept(d) /\ orphans = {} /\ Paired(d))
    /\ orphans # {} => Kept(d)
    /\ \A r \in orphans : Expected(r, d)
    /\ dev[d].pc \in {"update1", "update2", "save3"} => shareStore \in Splits
    /\ dev[d].pc = "save3" => dev[d].new = shareStore
    /\ dev[d].pc = "split" => /\ orphans = {} /\ clientShare1 = shareStore
                              /\ shareStore \in Splits => Kept(d)
    /\ pem[d] = None => NoFile(d)
    /\ shareStore = None /\ dev[d].pc \in Uploads /\ dev[d].new \in Splits
         => dev[d].new = share3[d] \/ (Linked(d) /\ InOrder(d))

SecretInv(d) == Smooth(d) \/ (LastFault /\ Rest(d))

LEMMA InitSecret == ASSUME NEW d \in Devices, Init PROVE SecretInv(d)
BY MarkersApart DEF Init, Off, SecretInv, Smooth, Linked, InOrder, Uploads

\* A step without a fault keeps each half of the invariant; one with a fault comes before
\* the fault and leads to the second half.
LEMMA HalfByHalf ==
    ASSUME TypeInv, MaxFaults <= 1, NEW d \in Devices, SecretInv(d),
           \/ UNCHANGED faults /\ (Smooth(d) => Smooth(d)') /\ (Rest(d) => Rest(d)')
           \/ SomethingFails /\ (Smooth(d) => Rest(d)')
    PROVE  SecretInv(d)'
BY OneFault DEF SecretInv, LastFault

LEMMA NoneOrSplit ==
    ASSUME TypeInv
    PROVE  /\ None \notin Splits /\ (shareStore = None <=> shareStore \notin Splits)
           /\ (clientShare1 = None <=> clientShare1 \notin Splits)
BY MarkersApart DEF TypeInv, ServersOK

LEMMA UnchangedSecret ==
    ASSUME NEW d \in Devices, dev'[d].pc = dev[d].pc, dev'[d].new = dev[d].new,
           dev'[d].share1 = dev[d].share1, dev'[d].key_sock = dev[d].key_sock,
           UNCHANGED <<clientShare1, shareStore, pem, share3, session, orphans>>
    PROVE  (Smooth(d) => Smooth(d)') /\ (Rest(d) => Rest(d)')
<1>1. Smooth(d) => Smooth(d)'
  BY DEF Smooth, Linked, Held, Paired, InOrder
<1>2. \A r : Expected(r, d) => Expected(r, d)'
  BY DEF Expected
<1>3. Rest(d) => Rest(d)'
  BY <1>2 DEF Rest, Kept, Linked, Held, Paired, InOrder, NoFile
<1> QED BY <1>1, <1>3

LEMMA StartSecret ==
    ASSUME TypeInv, NEW d \in Devices, Start(d)
    PROVE  (Smooth(d) => Smooth(d)') /\ (Rest(d) => Rest(d)')
<1>1. dev'[d].pc = "keys" /\ dev'[d].new = dev[d].new /\ dev'[d].key_sock = TRUE /\ dev[d].pc = "off"
  BY StartMoves DEF Moves, Start
<1>2. UNCHANGED <<clientShare1, shareStore, pem, share3, orphans>> /\ session' = d
  BY DEF Start, serverVars, deviceVars
<1>3. Smooth(d) => Smooth(d)'
  BY <1>1, <1>2 DEF Smooth, Linked, Held, Paired, InOrder, Uploads
<1>4. \A r : Expected(r, d) => Expected(r, d)'
  BY <1>1, <1>2 DEF Expected
<1>5. Rest(d) => Rest(d)'
  BY <1>1, <1>2, <1>4 DEF Rest, Kept, Linked, Held, Paired, InOrder, NoFile, Uploads
<1> QED BY <1>3, <1>5

LEMMA LoadKeySecret ==
    ASSUME TypeInv, NEW d \in Devices, LoadKey(d)
    PROVE  (Smooth(d) => Smooth(d)') /\ (Rest(d) => Rest(d)')
<1>1. /\ dev'[d].pc \in {"menu", "login1"} /\ dev'[d].new = dev[d].new
      /\ dev'[d].key_sock = dev[d].key_sock /\ dev[d].pc = "keys" /\ pem[d] # None
  BY LoadKeyMoves, MarkersApart DEF Moves, LoadKey
<1>2. UNCHANGED <<clientShare1, shareStore, pem, share3, orphans, session>>
  BY DEF LoadKey, serverVars, deviceVars
<1>3. Smooth(d) => Smooth(d)'
  BY <1>1, <1>2, NoneOrSplit DEF Smooth, Linked, Held, Paired, InOrder, Uploads
<1>4. \A r : Expected(r, d) => Expected(r, d)'
  BY <1>1, <1>2 DEF Expected
<1>5. Rest(d) => Rest(d)'
  BY <1>1, <1>2, <1>4 DEF Rest, Kept, Linked, Held, Paired, Uploads
<1> QED BY <1>3, <1>5

LEMMA GenerateKeySecret ==
    ASSUME TypeInv, NEW d \in Devices, GenerateKey(d)
    PROVE  \/ UNCHANGED faults /\ (Smooth(d) => Smooth(d)') /\ (Rest(d) => Rest(d)')
           \/ SomethingFails /\ (Smooth(d) => Rest(d)')
<1>1. PICK k \in Keys : /\ Moves(d, "split", k, dev[d].share1, dev[d].new)
                        /\ \/ pem' = [pem EXCEPT ![d] = k] /\ UNCHANGED faults
                           \/ pem' \in FailedWrite(pem, d, Torn) /\ SomethingFails
  BY GenerateKeyMoves
<1>2. /\ dev'[d].pc = "split" /\ dev'[d].new = dev[d].new
      /\ dev'[d].key_sock = dev[d].key_sock
  BY <1>1, GenerateKeyMoves DEF Moves
<1>3. /\ UNCHANGED <<clientShare1, shareStore, share3, orphans, session>>
      /\ dev[d].pc = "keys" /\ pem[d] = None
  BY DEF GenerateKey, serverVars
<1>4. CASE pem' = [pem EXCEPT ![d] = k] /\ UNCHANGED faults
  <2>1. pem'[d] # None
    BY <1>4, MarkersApart DEF TypeInv, FilesOK
  <2>2. Smooth(d) => Smooth(d)'
    BY <1>2, <1>3, <2>1, NoneOrSplit DEF Smooth, Linked, InOrder, Uploads
  <2>3. Rest(d) => Rest(d)'
    BY <1>2, <1>3, <2>1, NoneOrSplit DEF Rest, NoFile, Kept, Held, Paired, InOrder, Uploads
  <2> QED BY <1>4, <2>2, <2>3
<1>5. CASE pem' \in FailedWrite(pem, d, Torn) /\ SomethingFails
  <2>1. Smooth(d) => Rest(d)'
    BY <1>2, <1>3, NoneOrSplit DEF Smooth, Rest, NoFile, Kept, Linked, Held, Paired, InOrder, Uploads
  <2> QED BY <1>5, <2>1
<1> QED BY <1>1, <1>4, <1>5

LEMMA SplitKeySecret ==
    ASSUME TypeInv, NEW d \in Devices, SplitKey(d)
    PROVE  \/ UNCHANGED faults /\ (Smooth(d) => Smooth(d)') /\ (Rest(d) => Rest(d)')
           \/ SomethingFails /\ (Smooth(d) => Rest(d)')
<1>1. PICK s \in Splits : \E n \in {s, None} :
         /\ Moves(d, "register", dev[d].pkey, dev[d].share1, n)
         /\ \/ n = s /\ share3' = [share3 EXCEPT ![d] = s] /\ UNCHANGED faults
            \/ SomethingFails
  BY SplitKeyMoves
<1>2. PICK n \in {s, None} :
         /\ dev'[d].pc = "register" /\ dev'[d].new = n
         /\ \/ n = s /\ share3'[d] = s /\ UNCHANGED faults
            \/ SomethingFails
  BY <1>1 DEF Moves, TypeInv, FilesOK
<1>3. /\ UNCHANGED <<clientShare1, shareStore, pem, orphans, session>>
      /\ dev[d].pc = "split" /\ dev'[d].key_sock = dev[d].key_sock
  BY SplitKeyMoves DEF SplitKey, serverVars
<1>4. CASE n = s /\ share3'[d] = s /\ UNCHANGED faults
  <2>1. Smooth(d) => Smooth(d)'
    BY <1>2, <1>3, <1>4, NoneOrSplit DEF Smooth, Linked, InOrder, Uploads
  <2>2. Rest(d) => Rest(d)'
    BY <1>2, <1>3, <1>4, NoneOrSplit DEF Rest, NoFile, Kept, Linked, Paired, InOrder, Uploads
  <2> QED BY <1>4, <2>1, <2>2
<1>5. CASE SomethingFails
  <2>1. Smooth(d) => Rest(d)'
    BY <1>2, <1>3, NoneOrSplit DEF Smooth, Rest, Kept, Linked, InOrder, Uploads
  <2> QED BY <1>5, <2>1
<1> QED BY <1>2, <1>4, <1>5

\* A call that fails: what the client and the servers then hold.
LEMMA FailedCallSecret ==
    ASSUME TypeInv, NEW d \in Devices, Calling(d), FailedCall(d),
           UNCHANGED <<clientShare1, shareStore, pem, share3, session>>,
           \/ orphans' = orphans /\ faults' = faults /\ (session # d \/ ~Connected(d))
           \/ SomethingFails /\ (orphans' = orphans \/ orphans' = orphans \cup Orphaned(d))
    PROVE  \/ UNCHANGED faults /\ (Smooth(d) => Smooth(d)') /\ (Rest(d) => Rest(d)')
           \/ SomethingFails /\ (Smooth(d) => Rest(d)')
<1>1. dev[d].pc \in {"register", "store1", "store2", "login1", "fetch1", "fetch2", "update1", "update2"}
  BY CallsAre DEF Calling
<1>2. /\ dev[d].pc = "register" =>
           dev'[d].pc = (IF dev[d].new = None THEN "menu" ELSE "store1") /\ dev'[d].new = dev[d].new
      /\ dev[d].pc = "store1" => dev'[d].pc = "store2" /\ dev'[d].new = dev[d].new
      /\ dev[d].pc = "fetch1" => dev'[d].pc = "menu" \/ (dev'[d].pc = "fetch2" /\ dev'[d].share1 \notin Splits)
      /\ dev[d].pc \notin {"register", "store1", "fetch1"} => dev'[d].pc \in {"menu", "savepem"}
  BY <1>1 DEF FailedCall
<1>3. CASE orphans' = orphans /\ faults' = faults /\ (session # d \/ ~Connected(d))
  <2>1. ~Linked(d)
    BY <1>1, <1>3 DEF Linked, Connected
  <2>2. session = d => dev[d].pc # "update2"
    BY <1>3 DEF Connected, KeyServerCalls
  <2>3. \A r : Expected(r, d) => Expected(r, d)'
    BY <1>1, <1>2 DEF Expected
  <2>4. ASSUME Rest(d) PROVE Rest(d)'
    <3>1. shareStore \in Splits => Held(d)' \/ (Kept(d) /\ orphans = {} /\ Paired(d))'
      BY <1>1, <1>2, <1>3, <2>2, <2>4 DEF Rest, Held, Kept, Paired
    <3>2. orphans # {} => Kept(d)'
      BY <1>1, <1>2, <2>4 DEF Rest, Kept
    <3>3. pem[d] = None => NoFile(d)'
      BY <1>1, <1>2, <1>3, <2>1, <2>2, <2>4, NoneOrSplit DEF Rest, NoFile, Kept, Linked, Paired, InOrder, Uploads
    <3>4. shareStore = None /\ dev'[d].pc \in Uploads /\ dev'[d].new \in Splits => dev'[d].new = share3[d]
      BY <1>1, <1>2, <2>1, <2>4 DEF Rest, Uploads
    <3> QED BY <1>1, <1>2, <1>3, <2>3, <2>4, <3>1, <3>2, <3>3, <3>4 DEF Rest
  <2> QED BY <1>3, <2>1, <2>4 DEF Smooth
<1>4. CASE SomethingFails /\ (orphans' = orphans \/ orphans' = orphans \cup Orphaned(d))
  <2>1. \A r \in orphans' : r \in orphans \/ (r.op = dev[d].pc /\ r.share = dev[d].new)
    BY <1>4, OrphanedIs
  <2>2. ASSUME Smooth(d) PROVE Rest(d)'
    <3>1. orphans = {} /\ Kept(d)' /\ (shareStore \in Splits => Held(d)')
      BY <1>1, <1>2, <2>2 DEF Smooth, Held, Linked, Kept
    <3>2. pem[d] # None
      BY <1>1, <2>2, NoneOrSplit DEF Smooth
    <3>3. \A r \in orphans' : Expected(r, d)'
      BY <1>1, <1>2, <2>1, <2>2, <3>1, NoneOrSplit DEF Smooth, Expected, Paired, InOrder, Uploads
    <3>4. shareStore = None /\ dev'[d].pc \in Uploads => dev'[d].new = share3[d]
      BY <1>1, <1>2, <2>2 DEF Smooth, InOrder, Uploads
    <3> QED BY <1>1, <1>2, <3>1, <3>2, <3>3, <3>4 DEF Rest
  <2> QED BY <1>4, <2>2
<1> QED BY <1>3, <1>4

\* A write that could not be stored leaves the servers' shares as they are.
LEMMA StorageErrorShares ==
    ASSUME NEW d \in Devices, StorageError(d)
    PROVE  clientShare1' = clientShare1 /\ shareStore' = shareStore
BY DEF StorageError, serverVars, carry_out, Request

LEMMA CallFailsSecret ==
    ASSUME TypeInv, NEW d \in Devices,
           Refuse(d) \/ NoConnection(d) \/ StorageError(d) \/ LoseConnection(d)
    PROVE  \/ UNCHANGED faults /\ (Smooth(d) => Smooth(d)') /\ (Rest(d) => Rest(d)')
           \/ SomethingFails /\ (Smooth(d) => Rest(d)')
<1>1. CASE Refuse(d)
  BY <1>1, RefuseMoves, FailedCallSecret DEF Refuse, Fail, serverVars, deviceVars
<1>2. CASE NoConnection(d)
  BY <1>2, NoConnectionMoves, FailedCallSecret DEF NoConnection, serverVars, deviceVars
<1>3. CASE StorageError(d)
  BY <1>3, StorageErrorShares, NoConnectionMoves, FailedCallSecret DEF StorageError, deviceVars
<1>4. CASE LoseConnection(d)
  BY <1>4, LoseConnectionMoves, FailedCallSecret DEF LoseConnection, serverVars, deviceVars
<1> QED BY <1>1, <1>2, <1>3, <1>4

\* Recovery begins, and ends with the new files.
LEMMA RecoverySecret ==
    ASSUME TypeInv, NEW d \in Devices,
           recover_account_flow(d) \/ save_local_share3(d) \/ save_private_key(d)
    PROVE  \/ UNCHANGED faults /\ (Smooth(d) => Smooth(d)') /\ (Rest(d) => Rest(d)')
           \/ SomethingFails /\ (Smooth(d) => Rest(d)')
<1>1. CASE recover_account_flow(d)
  <2>1. /\ dev'[d].pc = "fetch1" /\ dev'[d].new = dev[d].new /\ dev'[d].key_sock = dev[d].key_sock
        /\ dev[d].pc = "menu"
    BY <1>1, RecoverMoves DEF Moves, recover_account_flow
  <2>2. UNCHANGED <<clientShare1, shareStore, pem, share3, orphans, session, faults>>
    BY <1>1 DEF recover_account_flow, serverVars, deviceVars
  <2>3. Smooth(d) => Smooth(d)'
    BY <2>1, <2>2, NoneOrSplit DEF Smooth, Linked, Held, Paired, InOrder, Uploads
  <2>4. \A r : Expected(r, d) => Expected(r, d)'
    BY <2>1, <2>2 DEF Expected
  <2>5. Rest(d) => Rest(d)'
    BY <2>1, <2>2, <2>4 DEF Rest, NoFile, Kept, Held, Paired, InOrder, Uploads
  <2> QED BY <2>2, <2>3, <2>5
<1>2. CASE save_local_share3(d)
  <2>1. /\ dev'[d].pc = "savepem" /\ dev'[d].key_sock = dev[d].key_sock /\ dev[d].pc = "save3"
        /\ dev[d].new \in Splits
    BY <1>2, SaveShare3Moves, ClientParts DEF Moves, save_local_share3, Ready
  <2>2. UNCHANGED <<clientShare1, shareStore, pem, orphans, session>>
    BY <1>2 DEF save_local_share3, serverVars
  <2>3. CASE share3' = [share3 EXCEPT ![d] = dev[d].new] /\ UNCHANGED faults
    <3>1. share3'[d] = dev[d].new
      BY <2>3 DEF TypeInv, FilesOK
    <3>2. Smooth(d) => Smooth(d)'
      BY <2>1, <2>2, <3>1, NoneOrSplit DEF Smooth, Linked, Held, Paired, InOrder, Uploads
    <3>3. ASSUME Rest(d) PROVE Rest(d)'
      <4>1. shareStore \in Splits /\ share3'[d] = shareStore
        BY <2>1, <3>1, <3>3 DEF Rest
      <4>2. \A r \in orphans' : Expected(r, d)'
        BY <2>1, <2>2, <3>3, <4>1, NoneOrSplit DEF Rest, Expected
      <4>3. pem'[d] = None => NoFile(d)'
        BY <2>1, <2>2, <3>3, <4>1, NoneOrSplit DEF Rest, NoFile, Kept, Paired
      <4> QED BY <2>1, <2>2, <3>3, <4>1, <4>2, <4>3 DEF Rest, Kept, Held, Uploads
    <3> QED BY <2>3, <3>2, <3>3
  <2>4. CASE SomethingFails
    <3>1. Smooth(d) => Rest(d)'
      BY <2>1, <2>2, NoneOrSplit DEF Smooth, Rest, Kept, Linked, Paired, InOrder, Uploads
    <3> QED BY <2>4, <3>1
  <2> QED BY <1>2, <2>3, <2>4 DEF save_local_share3
<1>3. CASE save_private_key(d)
  <2>1. /\ dev'[d].pc = "menu" /\ dev'[d].key_sock = dev[d].key_sock /\ dev[d].pc = "savepem"
        /\ dev[d].pkey # None
    BY <1>3, SaveKeyMoves, ClientParts, MarkersApart DEF Moves, save_private_key, Ready
  <2>2. UNCHANGED <<clientShare1, shareStore, share3, orphans, session>>
    BY <1>3 DEF save_private_key, serverVars
  <2>3. \A r : Expected(r, d) => Expected(r, d)'
    BY <2>1, <2>2 DEF Expected
  <2>4. CASE pem' = [pem EXCEPT ![d] = dev[d].pkey] /\ UNCHANGED faults
    <3>1. pem'[d] # None
      BY <2>1, <2>4 DEF TypeInv, FilesOK
    <3>2. Smooth(d) => Smooth(d)'
      BY <2>1, <2>2, <3>1, NoneOrSplit DEF Smooth, Linked, Held, Paired, InOrder, Uploads
    <3>3. Rest(d) => Rest(d)'
      BY <2>1, <2>2, <2>3, <3>1 DEF Rest, Kept, Held, Paired, Uploads
    <3> QED BY <2>4, <3>2, <3>3
  <2>5. CASE pem' \in FailedWrite(pem, d, Torn) /\ SomethingFails
    <3>1. pem'[d] = None => pem[d] = None
      BY <2>5, MarkersAssumption DEF FailedWrite, TypeInv, FilesOK
    <3>2. Smooth(d) => Rest(d)'
      BY <2>1, <2>2, <3>1, NoneOrSplit DEF Smooth, Rest, Held, InOrder, Uploads
    <3> QED BY <2>5, <3>2
  <2> QED BY <1>3, <2>4, <2>5 DEF save_private_key
<1> QED BY <1>1, <1>2, <1>3

\* The client ends, in order or not.
LEMMA StopSecret ==
    ASSUME TypeInv, NEW d \in Devices, CannotLoadKey(d) \/ Exit(d) \/ Crash(d)
    PROVE  \/ UNCHANGED faults /\ (Smooth(d) => Smooth(d)') /\ (Rest(d) => Rest(d)')
           \/ SomethingFails /\ (Smooth(d) => Rest(d)')
<1>1. dev'[d].pc = "off"
  BY StopMoves DEF Moves, CannotLoadKey, Exit, Crash
<1>2. UNCHANGED <<clientShare1, shareStore>>
  BY DEF CannotLoadKey, Exit, Crash, serverVars
<1>3. CASE CannotLoadKey(d) \/ Exit(d)
  <2>1. /\ UNCHANGED <<pem, share3, orphans, faults>> /\ dev[d].pc \in {"keys", "menu"}
        /\ dev[d].pc = "keys" => pem[d] # None
    BY <1>3, MarkersAssumption DEF CannotLoadKey, Exit, deviceVars
  <2>2. Smooth(d) => Smooth(d)'
    BY <1>1, <1>2, <2>1, NoneOrSplit DEF Smooth, Linked, Held, Paired, InOrder, Uploads
  <2>3. \A r : Expected(r, d) => Expected(r, d)'
    BY <1>1, <1>2, <2>1 DEF Expected
  <2>4. Rest(d) => Rest(d)'
    BY <1>1, <1>2, <2>1, <2>3 DEF Rest, NoFile, Kept, Held, Paired, InOrder, Uploads
  <2> QED BY <2>1, <2>2, <2>4
<1>4. CASE Crash(d)
  <2>1. /\ orphans' = orphans \cup Orphaned(d) /\ SomethingFails
        /\ pem'[d] = pem[d] \/ pem'[d] = Torn
        /\ share3'[d] = share3[d] \/ dev[d].pc \in {"split", "save3"}
    BY <1>4 DEF Crash, TypeInv, FilesOK
  <2>2. /\ \A r \in orphans' : r \in orphans \/ (r.op = dev[d].pc /\ r.share = dev[d].new)
        /\ dev[d].pc \notin Writes => orphans' = orphans
    BY <2>1, OrphanedIs
  <2>3. ASSUME Smooth(d) PROVE Rest(d)'
    <3>1. Kept(d)' /\ orphans = {}
      BY <1>1, <2>3 DEF Kept, Smooth
    <3>2. shareStore \in Splits => Held(d)' \/ (orphans' = {} /\ Paired(d)')
      BY <1>1, <1>2, <2>1, <2>2, <2>3, <3>1, NoneOrSplit DEF Smooth, Held, Paired, Writes
    <3>3. \A r \in orphans' : Expected(r, d)'
      BY <1>1, <1>2, <2>1, <2>2, <2>3, <3>1, NoneOrSplit DEF Smooth, Expected, Paired, InOrder, Uploads
    <3>4. pem'[d] = None => NoFile(d)'
      <4>1. pem'[d] = None => shareStore = None /\ dev[d].pc \in {"off", "keys"}
        BY <2>1, <2>3, MarkersAssumption, NoneOrSplit DEF Smooth
      <4> QED BY <1>1, <1>2, <2>2, <2>3, <3>1, <4>1, NoneOrSplit DEF Smooth, NoFile, InOrder, Writes, Uploads
    <3> QED BY <1>1, <1>2, <3>1, <3>2, <3>3, <3>4 DEF Rest, Uploads
  <2> QED BY <2>1, <2>3
<1> QED BY <1>3, <1>4

LEMMA SessionLostSecret ==
    ASSUME TypeInv, NEW d \in Devices, SessionLost
    PROVE  SomethingFails /\ (Smooth(d) => Rest(d)')
<1>1. UNCHANGED <<clientShare1, shareStore, pem, share3, orphans, dev>> /\ SomethingFails
  BY DEF SessionLost, serverVars, deviceVars
<1>2. Smooth(d) => Rest(d)'
  BY <1>1, NoneOrSplit DEF Smooth, Rest, NoFile, Held, InOrder, Uploads
<1> QED BY <1>1, <1>2

LEMMA LoseDeviceSecret ==
    ASSUME TypeInv, NEW d \in Devices, LoseDevice(d)
    PROVE  SomethingFails /\ (Smooth(d) => Rest(d)')
<1>1. UNCHANGED <<clientShare1, shareStore, orphans, dev, session>> /\ SomethingFails /\ dev[d].pc = "off"
  BY DEF LoseDevice, serverVars
<1>2. Smooth(d) => Rest(d)'
  BY <1>1, NoneOrSplit DEF Smooth, Rest, NoFile, Kept, Paired, InOrder, Uploads
<1> QED BY <1>1, <1>2

\* The answer to a call of signup or rotation moves the invariant on; the split that a
\* rotation starts with is not the one that Share2 is of.
LEMMA AnswerSecret ==
    ASSUME TypeInv, NEW d \in Devices, Answer(d)
    PROVE  UNCHANGED faults /\ (Smooth(d) => Smooth(d)') /\ (Rest(d) => Rest(d)')
<1>1. AfterEffect(d, TRUE, Reply(d), dev'[d])
  BY AnswerMoves
<1>2. dev[d].pc \in {"register", "store1", "store2", "login1", "fetch1", "fetch2", "update1", "update2"}
  BY CallsAre DEF Calling, Answer
<1>3. /\ dev[d].new \in Splits \cup {None}
      /\ dev[d].pc \in {"store1", "store2", "update1", "update2"} => dev[d].new \in Splits
  BY <1>2, ClientParts DEF Ready
<1>4. PICK r : r = Request(d)
  OBVIOUS
<1>5. carry_out(r) /\ r.op = dev[d].pc /\ r.share = dev[d].new
  BY <1>4, OrphanedIs DEF Answer
<1>6. UNCHANGED <<pem, share3, orphans, faults, session>>
  BY DEF Answer, deviceVars
<1>7. dev'[d].key_sock = dev[d].key_sock
  BY <1>1 DEF AfterEffect
<1>8. \A q \in orphans : RequestOK(q)
  BY DEF TypeInv, OrphansOK
<1>9. CASE dev[d].pc \in {"register", "store1", "store2"}
  <2>1. /\ dev[d].pc = "register" => /\ dev'[d].pc = IF dev[d].new = None THEN "menu" ELSE "store1"
                                     /\ dev'[d].new = dev[d].new
        /\ dev[d].pc = "store1" => dev'[d].pc = "store2" /\ dev'[d].new = dev[d].new
        /\ dev[d].pc = "store2" => dev'[d].pc = "menu" /\ dev'[d].new = None
    BY <1>1 DEF AfterEffect
  <2>2. /\ clientShare1' = IF dev[d].pc = "store1" /\ clientShare1 = None THEN dev[d].new ELSE clientShare1
        /\ shareStore' = IF dev[d].pc = "store2" /\ shareStore = None THEN dev[d].new ELSE shareStore
    BY <1>5, <1>9 DEF carry_out
  <2>3. Smooth(d) => Smooth(d)'
    BY <1>3, <1>6, <1>7, <1>9, <2>1, <2>2, NoneOrSplit DEF Smooth, Linked, Held, Paired, InOrder, Uploads
  <2>4. ASSUME Rest(d) PROVE Rest(d)'
    <3>1. \A q \in orphans : Expected(q, d)'
      BY <1>3, <1>6, <1>8, <1>9, <2>1, <2>2, <2>4, NoneOrSplit DEF Rest, Expected, RequestOK
    <3>2. Kept(d) => Kept(d)'
      BY <1>6, <1>9 DEF Kept
    <3>3. shareStore' \in Splits => Held(d)' \/ (Kept(d)' /\ orphans = {} /\ Paired(d)')
      BY <1>3, <1>6, <1>9, <2>1, <2>2, <2>4, <3>2, NoneOrSplit DEF Rest, Held, Paired, Kept, Linked, InOrder, Uploads
    <3>4. pem[d] = None => NoFile(d)'
      BY <1>3, <1>6, <1>7, <1>9, <2>1, <2>2, <2>4, <3>2, NoneOrSplit DEF Rest, NoFile, Linked, Kept, Paired, InOrder, Uploads
    <3>5. shareStore' = None /\ dev'[d].pc \in Uploads /\ dev'[d].new \in Splits
            => dev'[d].new = share3[d] \/ (Linked(d)' /\ InOrder(d)')
      BY <1>3, <1>6, <1>7, <1>9, <2>1, <2>2, <2>4, NoneOrSplit DEF Rest, Linked, InOrder, Uploads
    <3> QED BY <1>6, <1>9, <2>1, <2>4, <3>1, <3>2, <3>3, <3>4, <3>5 DEF Rest
  <2> QED BY <1>6, <2>3, <2>4
<1>10. CASE dev[d].pc \in {"login1", "fetch1"}
  <2>1. /\ dev[d].pc = "login1" => dev'[d].pc = "menu"
        /\ dev[d].pc = "fetch1" => dev'[d].pc = "menu" \/ (dev'[d].pc = "fetch2" /\ dev'[d].share1 = clientShare1)
    BY <1>1 DEF AfterEffect, Reply
  <2>2. UNCHANGED <<clientShare1, shareStore>>
    BY <1>5, <1>10 DEF carry_out
  <2>3. Smooth(d) => Smooth(d)'
    BY <1>6, <1>7, <1>10, <2>1, <2>2, NoneOrSplit DEF Smooth, Linked, Held, Paired, InOrder, Uploads
  <2>4. \A q \in orphans : Expected(q, d) => Expected(q, d)'
    BY <1>6, <1>10, <2>1, <2>2 DEF Expected
  <2>5. Rest(d) => Rest(d)'
    BY <1>6, <1>7, <1>10, <2>1, <2>2, <2>4, NoneOrSplit DEF Rest, NoFile, Kept, Held, Paired, InOrder, Uploads
  <2> QED BY <1>6, <2>3, <2>5
<1>11. CASE dev[d].pc = "fetch2"
  <2>1. \/ dev'[d].pc = "menu"
        \/ /\ dev'[d].pc = "update1" /\ dev[d].share1 = shareStore /\ shareStore \in Splits
           /\ dev'[d].new # shareStore
    <3>1. shareStore \in Splits => split_private_key(shareStore.key) # shareStore
      <4>1. shareStore \in Splits => shareStore.key \in Keys
        BY DEF Splits
      <4>2. shareStore \in KnownShares
        BY DEF KnownShares
      <4> QED BY <4>1, <4>2, FreshSplit
    <3> QED BY <1>1, <1>11, <3>1 DEF AfterEffect, Agree, Reply
  <2>2. UNCHANGED <<clientShare1, shareStore>>
    BY <1>5, <1>11 DEF carry_out
  <2>3. Smooth(d) => Smooth(d)'
    BY <1>6, <1>7, <1>11, <2>1, <2>2, NoneOrSplit DEF Smooth, Linked, Held, Paired, InOrder, Uploads
  <2>4. \A q \in orphans : Expected(q, d) => Expected(q, d)'
    BY <1>6, <1>11, <2>1, <2>2 DEF Expected
  <2>5. Rest(d) => Rest(d)'
    BY <1>6, <1>7, <1>11, <2>1, <2>2, <2>4, NoneOrSplit DEF Rest, NoFile, Kept, Held, Paired, InOrder, Uploads
  <2> QED BY <1>6, <2>3, <2>5
<1>12. CASE dev[d].pc = "update1"
  <2>1. dev'[d].pc = "update2" /\ dev'[d].new = dev[d].new
    BY <1>1, <1>12 DEF AfterEffect
  <2>2. clientShare1' = dev[d].new /\ shareStore' = shareStore
    BY <1>5, <1>12 DEF carry_out
  <2>3. Smooth(d) => Smooth(d)'
    BY <1>6, <1>7, <1>12, <2>1, <2>2, NoneOrSplit DEF Smooth, Linked, Held, Paired, InOrder, Uploads
  <2>4. \A q \in orphans : Expected(q, d) => Expected(q, d)'
    BY <1>6, <1>12, <2>1, <2>2 DEF Expected
  <2>5. Rest(d) => Rest(d)'
    BY <1>6, <1>7, <1>12, <2>1, <2>2, <2>4, NoneOrSplit DEF Rest, NoFile, Kept, Held, Paired, Uploads
  <2> QED BY <1>6, <2>3, <2>5
<1>13. CASE dev[d].pc = "update2"
  <2>1. dev'[d].pc = "save3" /\ dev'[d].new = dev[d].new
    BY <1>1, <1>13 DEF AfterEffect
  <2>2. clientShare1' = clientShare1 /\ shareStore' = dev[d].new /\ dev[d].new \in Splits
    BY <1>3, <1>5, <1>13 DEF carry_out
  <2>3. Smooth(d) => Smooth(d)'
    BY <1>6, <1>7, <1>13, <2>1, <2>2, NoneOrSplit DEF Smooth, Linked, Held, Paired, InOrder, Uploads
  <2>4. \A q \in orphans : Expected(q, d) => Expected(q, d)'
    BY <1>6, <1>13, <2>1, <2>2, NoneOrSplit DEF Expected
  <2>5. Rest(d) => Rest(d)'
    BY <1>6, <1>7, <1>13, <2>1, <2>2, <2>4, NoneOrSplit DEF Rest, NoFile, Kept, Held, Paired, Uploads
  <2> QED BY <1>6, <2>3, <2>5
<1> QED BY <1>2, <1>9, <1>10, <1>11, <1>12, <1>13

\* The one late request finds what it expects, and leaves no other behind.
LEMMA CarryOutOrphanSecret ==
    ASSUME TypeInv, MaxFaults <= 1, NEW d \in Devices, NEW r \in orphans, CarryOutOrphan(r)
    PROVE  UNCHANGED faults /\ (Smooth(d) => Smooth(d)') /\ (Rest(d) => Rest(d)')
<1>1. /\ carry_out(r) /\ orphans' = orphans \ {r} /\ orphans # {}
      /\ UNCHANGED <<pem, share3, dev, session, faults>>
  BY DEF CarryOutOrphan, deviceVars
<1>2. orphans' = {}
  <2>1. IsFiniteSet(orphans) /\ Cardinality(orphans) <= 1
    BY NumbersAssumption, FS_CardinalityType DEF TypeInv, OrphansOK
  <2>2. Cardinality(orphans \ {r}) = Cardinality(orphans) - 1 /\ IsFiniteSet(orphans \ {r})
    BY <2>1, FS_RemoveElement
  <2>3. Cardinality(orphans \ {r}) = 0
    BY <2>1, <2>2, FS_CardinalityType
  <2> QED BY <1>1, <2>2, <2>3, FS_EmptySet
<1>3. RequestOK(r)
  BY DEF TypeInv, OrphansOK
<1>4. ASSUME Rest(d) PROVE Rest(d)'
  <2>1. Expected(r, d) /\ Kept(d) /\ pem[d] # None /\ dev[d].pc # "split"
    BY <1>1, <1>4 DEF Rest, NoFile
  <2>2. shareStore \in Splits => share3[d] = shareStore \/ (dev[d].pc = "save3" /\ dev[d].new = shareStore)
    BY <1>1, <1>4 DEF Rest, Held
  <2>3. r.op \in {"register", "store1", "store2", "update1", "update2"} /\ (r.op # "register" => r.share \in Splits)
    BY <1>3 DEF RequestOK, Writes
  <2>4. CASE r.op \in {"register", "store1", "update1"}
    <3>1. shareStore' = shareStore
      BY <1>1, <2>4 DEF carry_out
    <3> QED BY <1>1, <1>2, <1>4, <2>1, <2>2, <3>1, NoneOrSplit DEF Rest, Held, InOrder
  <2>5. CASE r.op = "store2"
    <3>1. shareStore' = (IF shareStore = None THEN r.share ELSE shareStore) /\ clientShare1' = clientShare1
      BY <1>1, <2>5 DEF carry_out
    <3> QED BY <1>1, <1>2, <1>4, <2>1, <2>2, <2>3, <2>5, <3>1, NoneOrSplit DEF Rest, Expected, Held
  <2>6. CASE r.op = "update2"
    <3>1. shareStore' = r.share /\ clientShare1' = clientShare1
      BY <1>1, <2>6 DEF carry_out
    <3> QED BY <1>1, <1>2, <1>4, <2>1, <2>3, <2>6, <3>1, NoneOrSplit DEF Rest, Expected, Kept, Paired
  <2> QED BY <2>3, <2>4, <2>5, <2>6
<1> QED BY <1>1, <1>4 DEF Smooth

LEMMA NextSecret ==
    ASSUME MaxFaults <= 1, NEW d \in Devices, Devices = {d}, TypeInv, SecretInv(d), [Next]_vars
    PROVE  SecretInv(d)'
<1>1. CASE UNCHANGED vars
  <2>1. /\ UNCHANGED <<clientShare1, shareStore, pem, share3, session, orphans, faults>>
        /\ dev' = dev
    BY <1>1 DEF vars, serverVars, deviceVars
  <2> QED BY <2>1, UnchangedSecret, HalfByHalf
<1>2. CASE Pass(d)
  <2>1. UNCHANGED <<clientShare1, shareStore, pem, share3, session, orphans, faults>>
    BY <1>2 DEF Pass, serverVars, deviceVars
  <2>2. /\ dev'[d].pc = dev[d].pc /\ dev'[d].new = dev[d].new
        /\ dev'[d].share1 = dev[d].share1 /\ dev'[d].key_sock = dev[d].key_sock
    BY <1>2, PassMoves DEF Moves
  <2> QED BY <2>1, <2>2, UnchangedSecret, HalfByHalf
<1>3. CASE Start(d) \/ LoadKey(d)
  BY <1>3, StartSecret, LoadKeySecret, HalfByHalf DEF Start, LoadKey
<1>4. CASE Answer(d)
  BY <1>4, AnswerSecret, HalfByHalf
<1>5. CASE GenerateKey(d) \/ SplitKey(d)
  BY <1>5, GenerateKeySecret, SplitKeySecret, HalfByHalf
<1>6. CASE Refuse(d) \/ NoConnection(d) \/ StorageError(d) \/ LoseConnection(d)
  BY <1>6, CallFailsSecret, HalfByHalf
<1>7. CASE recover_account_flow(d) \/ save_local_share3(d) \/ save_private_key(d)
  BY <1>7, RecoverySecret, HalfByHalf
<1>8. CASE CannotLoadKey(d) \/ Exit(d) \/ Crash(d)
  BY <1>8, StopSecret, HalfByHalf
<1>9. CASE LoseDevice(d)
  BY <1>9, LoseDeviceSecret, HalfByHalf
<1>10. ASSUME Client(d) PROVE SecretInv(d)'
  BY <1>2, <1>3, <1>4, <1>5, <1>6, <1>7, <1>8, <1>9, <1>10 DEF Client, Proceed
<1>11. ASSUME NEW e \in Devices, Client(e) PROVE SecretInv(d)'
  <2>1. e = d
    OBVIOUS
  <2> QED BY <1>10, <1>11, <2>1
<1>12. ASSUME NEW r \in orphans, CarryOutOrphan(r) PROVE SecretInv(d)'
  BY <1>12, CarryOutOrphanSecret, HalfByHalf
<1>13. CASE SessionLost
  BY <1>13, SessionLostSecret, HalfByHalf
<1> QED BY <1>1, <1>11, <1>12, <1>13 DEF Next

\* A Share2 is replaced but never removed.
LEMMA Share2Stays ==
    ASSUME TypeInv, [Next]_vars, shareStore \in Splits
    PROVE  shareStore' \in Splits
<1>1. ASSUME NEW r, carry_out(r), r.op = "update2" => r.share \in Splits PROVE shareStore' \in Splits
  BY <1>1, NoneOrSplit DEF carry_out
<1>2. ASSUME NEW d \in Devices, Client(d) PROVE shareStore' \in Splits
  <2>1. CASE Answer(d)
    <3>1. PICK r : r = Request(d)
      OBVIOUS
    <3>2. carry_out(r) /\ r.op = dev[d].pc /\ r.share = dev[d].new
      BY <2>1, <3>1, OrphanedIs DEF Answer
    <3>3. r.op = "update2" => r.share \in Splits
      BY <3>2, ClientParts DEF Ready
    <3> QED BY <1>1, <3>2, <3>3
  <2> QED BY <1>2, <2>1, StorageErrorShares DEF Client, Proceed, Start, recover_account_flow, Exit,
             Pass, NoConnection, Refuse, Fail, LoadKey, CannotLoadKey, GenerateKey, SplitKey,
             save_local_share3, save_private_key, LoseConnection, Crash, LoseDevice, serverVars
<1>3. ASSUME NEW r \in orphans, CarryOutOrphan(r) PROVE shareStore' \in Splits
  <2>1. carry_out(r) /\ (r.op = "update2" => r.share \in Splits)
    BY <1>3 DEF CarryOutOrphan, TypeInv, OrphansOK, RequestOK
  <2> QED BY <1>1, <2>1
<1>4. CASE SessionLost \/ UNCHANGED vars
  BY <1>4 DEF SessionLost, vars, serverVars
<1> QED BY <1>2, <1>3, <1>4 DEF Next

\* A Share1 is replaced by an update alone, a Share3 by a signup or the end of a rotation.
LEMMA SharesStay ==
    ASSUME TypeInv, [Next]_vars, clientShare1 \in Splits,
           \A e \in Devices : dev[e].pc # "update1", \A r \in orphans : r.op # "update1",
           NEW d \in Devices, dev[d].pc \notin {"split", "save3"}, ~LoseDevice(d)
    PROVE  clientShare1' = clientShare1 /\ share3'[d] = share3[d]
<1>1. clientShare1 # None
  BY NoneOrSplit
<1>2. ASSUME NEW r, carry_out(r), r.op # "update1" PROVE clientShare1' = clientShare1
  BY <1>1, <1>2 DEF carry_out
<1>3. ASSUME NEW e \in Devices, Client(e) PROVE clientShare1' = clientShare1 /\ share3'[d] = share3[d]
  <2>1. clientShare1' = clientShare1
    <3>1. CASE Answer(e)
      BY <1>2, <3>1, OrphanedIs DEF Answer
    <3> QED BY <1>3, <3>1, StorageErrorShares DEF Client, Proceed, Start, recover_account_flow, Exit,
               Pass, NoConnection, Refuse, Fail, LoadKey, CannotLoadKey, GenerateKey, SplitKey,
               save_local_share3, save_private_key, LoseConnection, Crash, LoseDevice, serverVars
  <2>2. SplitKey(e) \/ save_local_share3(e) \/ LoseDevice(e) \/ Crash(e) => share3'[d] = share3[d]
    BY DEF SplitKey, save_local_share3, FailedWrite, LoseDevice, Crash, TypeInv, FilesOK
  <2>3. SplitKey(e) \/ save_local_share3(e) \/ LoseDevice(e) \/ Crash(e) \/ share3' = share3
    BY <1>3 DEF Client, Proceed, Start, recover_account_flow, Exit, Pass, Answer,
       NoConnection, Refuse, Fail, LoadKey, CannotLoadKey, GenerateKey, save_private_key,
       StorageError, LoseConnection, deviceVars
  <2> QED BY <2>1, <2>2, <2>3
<1>4. ASSUME NEW r \in orphans, CarryOutOrphan(r) PROVE clientShare1' = clientShare1 /\ share3' = share3
  BY <1>2, <1>4 DEF CarryOutOrphan, deviceVars
<1>5. CASE SessionLost \/ UNCHANGED vars
  BY <1>5 DEF SessionLost, vars, serverVars, deviceVars
<1> QED BY <1>3, <1>4, <1>5 DEF Next

\* Once there is a Share2, two shares fit or a rotation is bringing them together; before
\* there is one, the shares that fit stay.
LEMMA SecretStep ==
    ASSUME MaxFaults <= 1, NEW d \in Devices, Devices = {d}, TypeInv, SecretInv(d),
           SecretInv(d)', [Next]_vars, SecretKept
    PROVE  SecretKept'
<1>1. CASE shareStore' \in Splits
  <2>1. Held(d)' => SecretKept'
    BY <1>1 DEF Held, SecretKept, SomePairAgrees, RotationUnderWay, Agree
  <2>2. Paired(d)' => SecretKept'
    BY <1>1 DEF Paired, SecretKept, SomePairAgrees, RotationUnderWay, Agree
  <2> QED BY <1>1, <2>1, <2>2 DEF SecretInv, Smooth, Rest
<1>2. CASE shareStore' \notin Splits
  <2>1. shareStore = None
    BY <1>2, Share2Stays, NoneOrSplit
  <2>2. dev[d].pc \notin {"update2", "save3"}
    BY <2>1, NoneOrSplit DEF SecretInv, Smooth, Rest, InOrder, Uploads
  <2>3. Agree(clientShare1, share3[d])
    BY <2>1, <2>2, NoneOrSplit DEF SecretKept, SomePairAgrees, RotationUnderWay, Agree
  <2>4. clientShare1 \in Splits /\ clientShare1 = share3[d]
    BY <2>3 DEF Agree
  <2>5. /\ dev[d].pc \notin {"split", "update1", "save3"} /\ \A r \in orphans : r.op # "update1"
        /\ ~LoseDevice(d)
    <3>1. LoseDevice(d) => dev[d].pc = "off" /\ ~LastFault
      BY OneFault DEF LoseDevice
    <3> QED BY <2>1, <2>4, <3>1, NoneOrSplit DEF SecretInv, Smooth, Rest, InOrder, Expected, Uploads
  <2>6. clientShare1' = clientShare1 /\ share3'[d] = share3[d]
    BY <2>4, <2>5, SharesStay
  <2>7. Agree(clientShare1', share3'[d])
    BY <2>4, <2>6 DEF Agree
  <2> QED BY <2>7 DEF SecretKept, SomePairAgrees
<1> QED BY <1>1, <1>2

\* From the moment two shares of an account that is used from one device fit, some two always
\* do, or a client is about to bring them together; whatever goes wrong once: a call of signup
\* or rotation that is refused, fails or is lost, a request that is carried out late, a crash
\* at any step, a lost session, file or device.
THEOREM SecretNeverLostOneDevice ==
    ASSUME MaxFaults <= 1, NEW d \in Devices, Devices = {d}
    PROVE  Spec => SecretNeverLost
<1>1. Init => SecretInv(d)
  BY InitSecret
<1>2. TypeInv /\ SecretInv(d) /\ [Next]_vars => SecretInv(d)'
  BY NextSecret
<1>3. TypeInv /\ SecretInv(d) /\ SecretInv(d)' /\ [Next]_vars => [SecretKept => SecretKept']_vars
  BY SecretStep
<1> QED BY <1>1, <1>2, <1>3, TypeInvariance, PTL DEF Spec, SecretNeverLost

-----------------------------------------------------------------------------
(* Two shares that fit are never lost: any number of devices, no fault     *)

Rotating == {"update1", "update2", "save3"}

\* A device without a key has no share; a signup's split is its Share3, and what a rotation
\* is about to save is not its Share3, nor has that come to be Share2 meanwhile.
Tidy(d) ==
    /\ dev[d].pc \in Rotating => shareStore \in Splits /\ share3[d] # dev[d].new
    /\ pem[d] = None => share3[d] = None /\ dev[d].pc \in {"off", "keys"}
    /\ dev[d].pc = "split" => share3[d] = None
    /\ dev[d].pc \in Uploads => dev[d].new = share3[d]
    /\ dev[d].pc = "save3" => shareStore # share3[d]

\* No client carries a split that another device saved or carries.
Apart(d, e) == dev[e].new \in Splits => dev[e].new # share3[d] /\ dev[e].new # dev[d].new

TidyInv ==
    /\ orphans = {}
    /\ shareStore \in Splits => \E d \in Devices : Held(d)
    /\ \A d \in Devices : Tidy(d)
    /\ \A d, e \in Devices : d # e => Apart(d, e)

LEMMA InitTidy == Init => TidyInv
BY MarkersApart DEF Init, Off, TidyInv, Tidy, Apart, Uploads, Rotating

LEMMA NoFault == ASSUME TypeInv, MaxFaults = 0 PROVE ~SomethingFails
BY NumbersAssumption DEF TypeInv, OrphansOK, SomethingFails

\* A step of client c that touches neither Share2 nor Share3, nor makes a new split.
LEMMA QuietStep ==
    ASSUME TypeInv, TidyInv, NEW c \in Devices, UNCHANGED <<shareStore, share3, orphans>>,
           \A d \in Devices : d # c => dev'[d] = dev[d] /\ pem'[d] = pem[d],
           dev'[c].new = dev[c].new \/ dev'[c].new = None, dev[c].pc # "save3", Tidy(c)'
    PROVE  TidyInv'
<1>1. \A d \in Devices : Tidy(d)'
  BY DEF TidyInv, Tidy
<1>2. shareStore' \in Splits => \E d \in Devices : Held(d)'
  BY DEF TidyInv, Held
<1>3. \A d, e \in Devices : d # e => Apart(d, e)'
  <2>1. SUFFICES ASSUME NEW d \in Devices, NEW e \in Devices, d # e, dev'[e].new \in Splits
                 PROVE  dev'[e].new # share3[d] /\ dev'[e].new # dev'[d].new
    BY DEF Apart
  <2>2. dev'[e].new = dev[e].new /\ (dev'[d].new = dev[d].new \/ dev'[d].new = None)
    BY <2>1, NoneOrSplit
  <2> QED BY <2>1, <2>2, NoneOrSplit DEF TidyInv, Apart
<1> QED BY <1>1, <1>2, <1>3 DEF TidyInv

LEMMA FailedCallTidy ==
    ASSUME TypeInv, TidyInv, NEW c \in Devices, Calling(c), FailedCall(c),
           UNCHANGED <<shareStore, pem, share3, orphans>>
    PROVE  TidyInv'
<1>1. dev[c].pc \in {"register", "store1", "store2", "login1", "fetch1", "fetch2", "update1", "update2"}
  BY CallsAre DEF Calling
<1>2. /\ dev[c].pc = "register" => dev'[c].pc \in {"menu", "store1"} /\ dev'[c].new = dev[c].new
      /\ dev[c].pc = "store1" => dev'[c].pc = "store2" /\ dev'[c].new = dev[c].new
      /\ dev[c].pc \notin {"register", "store1"} => dev'[c].pc \in {"menu", "savepem", "fetch2"}
      /\ dev'[c].new = dev[c].new \/ dev'[c].new = None
      /\ \A d \in Devices : d # c => dev'[d] = dev[d]
  BY <1>1 DEF FailedCall
<1>3. Tidy(c)'
  BY <1>1, <1>2 DEF TidyInv, Tidy, Uploads, Rotating
<1> QED BY <1>1, <1>2, <1>3, QuietStep

LEMMA AnswerTidy ==
    ASSUME TypeInv, TidyInv, NEW c \in Devices, Answer(c)
    PROVE  TidyInv'
<1>1. AfterEffect(c, TRUE, Reply(c), dev'[c]) /\ \A d \in Devices : d # c => dev'[d] = dev[d]
  BY AnswerMoves
<1>2. dev[c].pc \in {"register", "store1", "store2", "login1", "fetch1", "fetch2", "update1", "update2"}
  BY CallsAre DEF Calling, Answer
<1>3. dev[c].pc \in {"store1", "store2", "update1", "update2"} => dev[c].new \in Splits
  BY ClientParts DEF Ready
<1>4. PICK r : r = Request(c)
  OBVIOUS
<1>5. carry_out(r) /\ r.op = dev[c].pc /\ r.share = dev[c].new
  BY <1>4, OrphanedIs DEF Answer
<1>6. UNCHANGED <<pem, share3, orphans>>
  BY DEF Answer, deviceVars
<1>7. CASE dev[c].pc \in {"register", "store1", "login1", "fetch1", "update1"}
  <2>1. shareStore' = shareStore
    BY <1>5, <1>7 DEF carry_out
  <2>2. dev'[c].new = dev[c].new /\ (dev[c].pc # "update1" => dev'[c].pc \notin Rotating)
    BY <1>1, <1>7 DEF AfterEffect, Rotating
  <2>3. /\ dev[c].pc \in {"login1", "fetch1"} => dev'[c].pc \in {"menu", "fetch2"}
        /\ dev[c].pc = "update1" => dev'[c].pc = "update2"
        /\ dev'[c].pc \notin {"split", "off", "keys"}
    BY <1>1, <1>7 DEF AfterEffect
  <2>4. Tidy(c)'
    BY <1>6, <1>7, <2>1, <2>2, <2>3 DEF TidyInv, Tidy, Uploads, Rotating
  <2> QED BY <1>1, <1>6, <1>7, <2>1, <2>2, <2>4, QuietStep
<1>8. CASE dev[c].pc = "fetch2"
  <2>1. shareStore' = shareStore
    BY <1>5, <1>8 DEF carry_out
  <2>2. CASE dev'[c].pc = "menu" /\ dev'[c].new = dev[c].new
    <3>1. Tidy(c)'
      BY <1>6, <1>8, <2>1, <2>2 DEF TidyInv, Tidy, Uploads, Rotating
    <3> QED BY <1>1, <1>6, <1>8, <2>1, <2>2, <3>1, QuietStep
  <2>3. CASE dev'[c].pc = "update1" /\ shareStore \in Splits /\ dev'[c].new = split_private_key(shareStore.key)
    <3>1. dev'[c].new \in Splits /\ dev'[c].new \notin KnownShares
      BY <2>3, FreshSplit DEF Splits
    <3>2. \A d \in Devices : dev'[c].new # share3[d] /\ dev'[c].new # dev[d].new
      BY <3>1 DEF KnownShares
    <3>3. \A d, e \in Devices : d # e => Apart(d, e)'
      BY <1>1, <1>6, <3>2 DEF TidyInv, Apart
    <3>4. \A d \in Devices : Tidy(d)'
      BY <1>1, <1>6, <1>8, <2>1, <2>3, <3>2 DEF TidyInv, Tidy, Uploads, Rotating
    <3>5. \E d \in Devices : Held(d)'
      BY <1>1, <1>6, <1>8, <2>1, <2>3 DEF TidyInv, Held
    <3> QED BY <1>6, <3>3, <3>4, <3>5 DEF TidyInv
  <2> QED BY <1>1, <1>8, <2>2, <2>3 DEF AfterEffect, Agree, Reply
<1>9. CASE dev[c].pc \in {"store2", "update2"}
  <2>1. /\ dev[c].pc = "store2" => dev'[c].pc = "menu" /\ dev'[c].new = None
        /\ dev[c].pc = "update2" => dev'[c].pc = "save3" /\ dev'[c].new = dev[c].new
    BY <1>1 DEF AfterEffect
  <2>2. /\ dev[c].pc = "store2" => shareStore' = IF shareStore = None THEN dev[c].new ELSE shareStore
        /\ dev[c].pc = "update2" => shareStore' = dev[c].new
    BY <1>5 DEF carry_out
  <2>3. \A d, e \in Devices : d # e => Apart(d, e)'
    <3>1. ASSUME NEW d \in Devices PROVE dev'[d].new = dev[d].new \/ dev'[d].new = None
      BY <1>1, <1>9, <2>1
    <3> QED BY <1>6, <3>1, NoneOrSplit DEF TidyInv, Apart
  <2>4. \A d \in Devices : Tidy(d)'
    <3>1. Tidy(c)'
      BY <1>3, <1>6, <1>9, <2>1, <2>2 DEF TidyInv, Tidy, Uploads, Rotating
    <3>2. ASSUME NEW d \in Devices, d # c PROVE Tidy(d)'
      <4>1. dev[c].new # share3[d]
        BY <1>3, <1>9, <3>2 DEF TidyInv, Apart
      <4>2. shareStore \in Splits => shareStore' \in Splits
        BY <1>3, <1>9, <2>2
      <4>3. shareStore' = shareStore \/ shareStore' = dev[c].new
        BY <1>9, <2>2
      <4> QED BY <1>1, <1>6, <3>2, <4>1, <4>2, <4>3 DEF TidyInv, Tidy
    <3> QED BY <3>1, <3>2
  <2>5. \E d \in Devices : shareStore' \in Splits => Held(d)'
    <3>1. CASE shareStore' = dev[c].new
      BY <1>6, <1>9, <2>1, <3>1 DEF TidyInv, Tidy, Held, Uploads
    <3>2. CASE shareStore' = shareStore
      BY <1>1, <1>6, <1>9, <3>2 DEF TidyInv, Held
    <3> QED BY <1>9, <2>2, <3>1, <3>2
  <2> QED BY <1>6, <2>3, <2>4, <2>5 DEF TidyInv
<1> QED BY <1>2, <1>7, <1>8, <1>9

LEMMA GenerateKeyTidy ==
    ASSUME TypeInv, MaxFaults = 0, TidyInv, NEW c \in Devices, GenerateKey(c)
    PROVE  TidyInv'
<1>1. PICK k \in Keys : Moves(c, "split", k, dev[c].share1, dev[c].new) /\ pem' = [pem EXCEPT ![c] = k]
  BY GenerateKeyMoves, NoFault
<1>2. /\ dev'[c].pc = "split" /\ dev'[c].new = dev[c].new /\ pem'[c] # None
      /\ \A d \in Devices : d # c => dev'[d] = dev[d] /\ pem'[d] = pem[d]
  BY <1>1, MarkersApart DEF Moves, TypeInv, FilesOK
<1>3. UNCHANGED <<shareStore, share3, orphans>> /\ pem[c] = None /\ dev[c].pc = "keys"
  BY DEF GenerateKey, serverVars
<1>4. Tidy(c)'
  BY <1>2, <1>3 DEF TidyInv, Tidy, Uploads, Rotating
<1> QED BY <1>2, <1>3, <1>4, QuietStep

LEMMA SplitKeyTidy ==
    ASSUME TypeInv, MaxFaults = 0, TidyInv, NEW c \in Devices, SplitKey(c)
    PROVE  TidyInv'
<1>1. PICK s \in Splits : /\ s \notin KnownShares
                          /\ Moves(c, "register", dev[c].pkey, dev[c].share1, s)
                          /\ share3' = [share3 EXCEPT ![c] = s]
  BY SplitKeyMoves, NoFault
<1>2. /\ dev'[c].pc = "register" /\ dev'[c].new = s /\ share3'[c] = s
      /\ \A d \in Devices : d # c => dev'[d] = dev[d] /\ share3'[d] = share3[d]
  BY <1>1 DEF Moves, TypeInv, FilesOK
<1>3. UNCHANGED <<shareStore, pem, orphans>> /\ dev[c].pc = "split"
  BY DEF SplitKey, serverVars
<1>4. \A d \in Devices : s # share3[d] /\ s # dev[d].new
  BY <1>1 DEF KnownShares
<1>5. \A d, e \in Devices : d # e => Apart(d, e)'
  BY <1>2, <1>4 DEF TidyInv, Apart
<1>6. \A d \in Devices : Tidy(d)'
  BY <1>2, <1>3 DEF TidyInv, Tidy, Uploads, Rotating
<1>7. shareStore \in Splits => \E d \in Devices : Held(d)'
  <2>1. share3[c] = None
    BY <1>3 DEF TidyInv, Tidy
  <2> QED BY <1>2, <1>3, <2>1, NoneOrSplit DEF TidyInv, Held
<1> QED BY <1>3, <1>5, <1>6, <1>7 DEF TidyInv

LEMMA SaveShare3Tidy ==
    ASSUME TypeInv, MaxFaults = 0, TidyInv, NEW c \in Devices, save_local_share3(c)
    PROVE  TidyInv'
<1>1. /\ dev'[c].pc = "savepem" /\ dev'[c].new = None
      /\ \A d \in Devices : d # c => dev'[d] = dev[d]
  BY SaveShare3Moves DEF Moves
<1>2. UNCHANGED <<shareStore, pem, orphans>> /\ dev[c].pc = "save3" /\ dev[c].new \in Splits
  BY ClientParts DEF save_local_share3, serverVars, Ready
<1>3. share3'[c] = dev[c].new /\ \A d \in Devices : d # c => share3'[d] = share3[d]
  BY NoFault DEF save_local_share3, TypeInv, FilesOK
<1>4. \A d, e \in Devices : d # e => Apart(d, e)'
  BY <1>1, <1>2, <1>3, NoneOrSplit DEF TidyInv, Apart
<1>5. \A d \in Devices : Tidy(d)'
  BY <1>1, <1>2, <1>3 DEF TidyInv, Tidy, Uploads, Rotating
<1>6. shareStore \in Splits => \E d \in Devices : Held(d)'
  BY <1>1, <1>2, <1>3 DEF TidyInv, Tidy, Held
<1> QED BY <1>2, <1>4, <1>5, <1>6 DEF TidyInv

LEMMA SaveKeyTidy ==
    ASSUME TypeInv, MaxFaults = 0, TidyInv, NEW c \in Devices, save_private_key(c)
    PROVE  TidyInv'
<1>1. /\ dev'[c].pc = "menu" /\ dev'[c].new = dev[c].new
      /\ \A d \in Devices : d # c => dev'[d] = dev[d]
  BY SaveKeyMoves DEF Moves
<1>2. UNCHANGED <<shareStore, share3, orphans>> /\ dev[c].pc = "savepem" /\ dev[c].pkey # None
  BY ClientParts, MarkersApart DEF save_private_key, serverVars, Ready
<1>3. pem'[c] # None /\ \A d \in Devices : d # c => pem'[d] = pem[d]
  BY <1>2, NoFault DEF save_private_key, TypeInv, FilesOK
<1>4. Tidy(c)'
  BY <1>1, <1>2, <1>3 DEF TidyInv, Tidy, Uploads, Rotating
<1> QED BY <1>1, <1>2, <1>3, <1>4, QuietStep

\* The steps that change nothing but where the client is.
LEMMA ClientAloneTidy ==
    ASSUME TypeInv, TidyInv, NEW c \in Devices,
           \/ Pass(c) \/ Start(c) \/ LoadKey(c) \/ recover_account_flow(c)
           \/ CannotLoadKey(c) \/ Exit(c)
    PROVE  TidyInv'
<1>1. UNCHANGED <<shareStore, pem, share3, orphans>>
  BY DEF Pass, Start, LoadKey, recover_account_flow, CannotLoadKey, Exit, serverVars, deviceVars
<1>2. CASE Pass(c)
  <2>1. /\ dev'[c].pc = dev[c].pc /\ dev'[c].new = dev[c].new /\ dev[c].pc \in Calls
        /\ \A d \in Devices : d # c => dev'[d] = dev[d]
    BY <1>2, PassMoves DEF Moves, Pass, Calling
  <2>2. Tidy(c)' /\ dev[c].pc # "save3"
    BY <1>1, <2>1 DEF TidyInv, Tidy, Calls, Writes
  <2> QED BY <1>1, <2>1, <2>2, QuietStep
<1>3. CASE Start(c) \/ CannotLoadKey(c) \/ Exit(c)
  <2>1. /\ dev[c].pc \in {"off", "keys", "menu"} /\ dev'[c].pc \in {"off", "keys"}
        /\ dev'[c].new \in {dev[c].new, None} /\ \A d \in Devices : d # c => dev'[d] = dev[d]
    BY <1>3, StartMoves, StopMoves DEF Moves, Start, CannotLoadKey, Exit
  <2>2. Tidy(c)'
    BY <1>1, <2>1 DEF TidyInv, Tidy, Uploads, Rotating
  <2> QED BY <1>1, <2>1, <2>2, QuietStep
<1>4. CASE LoadKey(c) \/ recover_account_flow(c)
  <2>1. /\ dev[c].pc = "menu" \/ (dev[c].pc = "keys" /\ pem[c] # None)
        /\ dev'[c].pc \in {"menu", "login1", "fetch1"} /\ dev'[c].new = dev[c].new
        /\ \A d \in Devices : d # c => dev'[d] = dev[d]
    <3>1. CASE LoadKey(c)
      <4>1. dev[c].pc = "keys" /\ pem[c] # None
        BY <3>1, MarkersApart DEF LoadKey
      <4>2. PICK pc \in {"menu", "login1"} : Moves(c, pc, pem[c], dev[c].share1, dev[c].new)
        BY <3>1, LoadKeyMoves
      <4> QED BY <4>1, <4>2 DEF Moves
    <3>2. CASE recover_account_flow(c)
      BY <3>2, RecoverMoves DEF Moves, recover_account_flow
    <3> QED BY <1>4, <3>1, <3>2
  <2>2. Tidy(c)'
    BY <1>1, <2>1 DEF TidyInv, Tidy, Uploads, Rotating
  <2> QED BY <1>1, <2>1, <2>2, QuietStep
<1> QED BY <1>2, <1>3, <1>4

LEMMA NextTidy ==
    ASSUME MaxFaults = 0, TypeInv, TidyInv, [Next]_vars
    PROVE  TidyInv'
<1>1. CASE UNCHANGED vars
  BY <1>1 DEF vars, serverVars, deviceVars, TidyInv, Tidy, Apart, Held
<1>2. ASSUME NEW c \in Devices, Client(c) PROVE TidyInv'
  <2>1. ~StorageError(c) /\ ~LoseConnection(c) /\ ~Crash(c) /\ ~LoseDevice(c)
    BY NoFault DEF StorageError, LoseConnection, Crash, LoseDevice
  <2>2. CASE Refuse(c)
    BY <2>2, RefuseMoves, FailedCallTidy DEF Refuse, Fail, serverVars, deviceVars
  <2>3. CASE NoConnection(c)
    BY <2>3, NoConnectionMoves, FailedCallTidy DEF NoConnection, serverVars, deviceVars
  <2> QED BY <1>2, <2>1, <2>2, <2>3, AnswerTidy, GenerateKeyTidy, SplitKeyTidy, SaveShare3Tidy,
             SaveKeyTidy, ClientAloneTidy DEF Client, Proceed
<1>3. \A r \in orphans : ~CarryOutOrphan(r)
  BY DEF TidyInv
<1>4. ~SessionLost
  BY NoFault DEF SessionLost
<1> QED BY <1>1, <1>2, <1>3, <1>4 DEF Next

LEMMA TidyStep ==
    ASSUME MaxFaults = 0, TypeInv, TidyInv, TidyInv', [Next]_vars, SecretKept
    PROVE  SecretKept'
<1>1. CASE shareStore' \in Splits
  <2>1. ASSUME NEW d \in Devices, Held(d)' PROVE SecretKept'
    BY <1>1, <2>1 DEF Held, SecretKept, SomePairAgrees, RotationUnderWay, Agree
  <2> QED BY <1>1, <2>1 DEF TidyInv
<1>2. CASE shareStore' \notin Splits
  <2>1. shareStore \notin Splits
    BY <1>2, Share2Stays
  <2>2. \A d \in Devices : dev[d].pc \notin Rotating
    BY <2>1 DEF TidyInv, Tidy
  <2>3. PICK d \in Devices : Agree(clientShare1, share3[d])
    BY <2>1, <2>2 DEF SecretKept, SomePairAgrees, RotationUnderWay, Agree, Rotating
  <2>4. clientShare1 \in Splits /\ clientShare1 = share3[d]
    BY <2>3 DEF Agree
  <2>5. /\ dev[d].pc \notin {"split", "save3"} /\ ~LoseDevice(d)
        /\ \A e \in Devices : dev[e].pc # "update1"
        /\ \A r \in orphans : r.op # "update1"
    <3>1. share3[d] # None
      BY <2>4, NoneOrSplit
    <3> QED BY <2>2, <3>1, NoFault DEF TidyInv, Tidy, Rotating, LoseDevice
  <2>6. clientShare1' = clientShare1 /\ share3'[d] = share3[d]
    BY <2>4, <2>5, SharesStay
  <2>7. Agree(clientShare1', share3'[d])
    BY <2>4, <2>6 DEF Agree
  <2> QED BY <2>7 DEF SecretKept, SomePairAgrees
<1> QED BY <1>1, <1>2

\* From the moment two shares of an account fit, some two always do, or a client is about to
\* bring them together, however many devices start, sign up, recover and rotate at the same
\* time and take the session from each other; as long as nothing fails.
THEOREM SecretNeverLostNoFault ==
    ASSUME MaxFaults = 0
    PROVE  Spec => SecretNeverLost
<1>1. Init => TidyInv
  BY InitTidy
<1>2. TypeInv /\ TidyInv /\ [Next]_vars => TidyInv'
  BY NextTidy
<1>3. TypeInv /\ TidyInv /\ TidyInv' /\ [Next]_vars => [SecretKept => SecretKept']_vars
  BY TidyStep
<1> QED BY <1>1, <1>2, <1>3, TypeInvariance, PTL DEF Spec, SecretNeverLost

=============================================================================
