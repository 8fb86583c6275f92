------------------------- MODULE DataStructureProofs -------------------------
(***************************************************************************)
(* The three data structures that the other components are built from,     *)
(* each for itself: paired_ptr, expiry_cache and topological_sorter.       *)
(***************************************************************************)
EXTENDS ExpiryCache, PairedPtr, TopologicalSorter, FiniteSetTheorems, TLAPS

(***************************************************************************)
(* paired_ptr.  For any set of addresses, the two ends of a pair agree     *)
(* after any sequence of constructions, assignments, moves, disconnections *)
(* and destructions in which whoever is linked was free before: LinksFree, *)
(* the premise of the three theorems, which the class does not enforce.    *)
(* Symmetric is not inductive alone: a move writes through the partner's   *)
(* pointer, so the proof also needs that dead memory is never pointed at,  *)
(* which is PairTypeOK together with Symmetric, and that nobody is linked  *)
(* to itself.                                                              *)
(***************************************************************************)

(* No object is its own partner: the ends of a pair are distinct objects. *)
NoSelfLink == \A a \in Loc : ptr[a] # a

PairInv == PairTypeOK /\ Symmetric /\ NoSelfLink

LEMMA PairInvInit == PairInit => PairInv
  BY NullAssumption DEF PairInit, PairInv, PairTypeOK, Symmetric, NoSelfLink, Linked

(* What a move assignment leaves behind: the two objects have exchanged     *)
(* partners, and the partners know it.                                      *)
LEMMA SwappedFacts ==
  ASSUME PairInv, NEW a \in live, NEW b \in live
  PROVE  /\ Swapped(ptr, a, b) \in [Loc -> Loc \cup {NULL}]
         /\ \A c \in Loc \ live : Swapped(ptr, a, b)[c] = NULL
         /\ \A c \in live : Swapped(ptr, a, b)[c] # NULL =>
              /\ Swapped(ptr, a, b)[c] \in live /\ Swapped(ptr, a, b)[c] # c
              /\ Swapped(ptr, a, b)[Swapped(ptr, a, b)[c]] = c
  <1> USE NullAssumption DEF PairInv, PairTypeOK, Symmetric, NoSelfLink, Linked
  <1>1. CASE ptr[a] # NULL /\ ptr[b] # NULL
    <2>1. Swapped(ptr, a, b) =
            [[ptr EXCEPT ![ptr[a]] = b, ![ptr[b]] = a]
               EXCEPT ![a] = [ptr EXCEPT ![ptr[a]] = b, ![ptr[b]] = a][b],
                      ![b] = [ptr EXCEPT ![ptr[a]] = b, ![ptr[b]] = a][a]]
      BY <1>1 DEF Swapped
    <2> QED BY <1>1, <2>1
  <1>2. CASE ptr[a] # NULL /\ ptr[b] = NULL
    BY <1>2 DEF Swapped
  <1>3. CASE ptr[a] = NULL
    BY <1>3 DEF Swapped, Store
  <1> QED BY <1>1, <1>2, <1>3

(* What an assignment of a pointer comes to when the rule is kept: a is     *)
(* linked to b, and its former partner learns that it is alone.             *)
LEMMA AssignFacts ==
  ASSUME PairInv, NEW a \in live, NEW b \in live, AssignPointer(a, b), ptr[b] = NULL, a # b
  PROVE  ptr' = [Store(ptr, ptr[a], NULL) EXCEPT ![a] = b, ![b] = a]
  <1> USE NullAssumption DEF PairInv, PairTypeOK, Symmetric, NoSelfLink, Linked
  <1>1. PICK t \in Loc \ live : ptr' = Unlinked(Swapped(LinkedTo(ptr, t, b), a, t), t)
    BY DEF AssignPointer
  <1> DEFINE p == LinkedTo(ptr, t, b)
             s == Swapped(p, a, t)
  <1>2. p = [ptr EXCEPT ![b] = t, ![t] = b]
    BY DEF LinkedTo, Store
  <1>3. t # a /\ t # b /\ p[a] = ptr[a] /\ p[t] = b /\ p[b] = t
    BY <1>2
  <1>4. CASE ptr[a] # NULL
    <2>1. ptr[a] \in live /\ ptr[a] # a /\ ptr[a] # b /\ ptr[a] # t /\ ptr[ptr[a]] = a
      BY <1>4
    <2>2. s = [[p EXCEPT ![ptr[a]] = t, ![b] = a] EXCEPT ![a] = b, ![t] = ptr[a]]
      BY <1>2, <1>3, <1>4, <2>1 DEF Swapped
    <2> HIDE DEF s, p
    <2>3. Unlinked(s, t) = [s EXCEPT ![ptr[a]] = NULL, ![t] = NULL]
      BY <1>2, <2>1, <2>2 DEF Unlinked
    <2>4. ptr' = [ptr EXCEPT ![ptr[a]] = NULL, ![a] = b, ![b] = a]
      BY <1>1, <1>2, <2>1, <2>2, <2>3 DEF s, p
    <2> QED BY <1>4, <2>1, <2>4 DEF Store
  <1>5. CASE ptr[a] = NULL
    <2>1. s = [[p EXCEPT ![b] = a] EXCEPT ![a] = b, ![t] = NULL]
      BY <1>2, <1>3, <1>5 DEF Swapped, Store
    <2> HIDE DEF s, p
    <2>2. Unlinked(s, t) = s
      BY <1>2, <2>1 DEF Unlinked
    <2>3. ptr' = [ptr EXCEPT ![a] = b, ![b] = a]
      BY <1>1, <1>2, <1>3, <2>1, <2>2 DEF s, p
    <2> QED BY <1>5, <2>3 DEF Store
  <1> QED BY <1>4, <1>5

(* a = nullptr only disconnects. *)
LEMMA AssignNull ==
  ASSUME PairInv, NEW a \in live, AssignPointer(a, NULL)
  PROVE  ptr' = Unlinked(ptr, a)
  <1> USE NullAssumption DEF PairInv, PairTypeOK, Symmetric, NoSelfLink, Linked
  <1>1. PICK t \in Loc \ live : ptr' = Unlinked(Swapped(LinkedTo(ptr, t, NULL), a, t), t)
    BY DEF AssignPointer
  <1>2. LinkedTo(ptr, t, NULL) = ptr
    BY DEF LinkedTo, Store
  <1>3. CASE ptr[a] # NULL
    <2>1. ptr[a] \in live /\ ptr[a] # a /\ ptr[a] # t
      BY <1>3
    <2>2. Swapped(ptr, a, t) = [ptr EXCEPT ![ptr[a]] = t, ![a] = NULL, ![t] = ptr[a]]
      BY <1>3, <2>1 DEF Swapped
    <2>3. Unlinked(Swapped(ptr, a, t), t) = [ptr EXCEPT ![ptr[a]] = NULL, ![a] = NULL]
      BY <2>1, <2>2 DEF Unlinked
    <2> QED BY <1>1, <1>2, <1>3, <2>3 DEF Unlinked
  <1>4. CASE ptr[a] = NULL
    <2>1. Swapped(ptr, a, t) = ptr
      BY <1>4 DEF Swapped, Store
    <2> QED BY <1>1, <1>2, <1>4, <2>1 DEF Unlinked
  <1> QED BY <1>3, <1>4

(* Every operation that keeps the rule preserves the invariant. *)
LEMMA PairInvNext == PairInv /\ [PairNext]_pairVars /\ [LinksFree]_pairVars => PairInv'
  <1> SUFFICES ASSUME PairInv, [PairNext]_pairVars, [LinksFree]_pairVars PROVE PairInv'
    OBVIOUS
  <1> USE NullAssumption DEF PairInv, PairTypeOK, Symmetric, NoSelfLink, Linked
  <1>1. CASE UNCHANGED pairVars
    BY <1>1 DEF pairVars
  <1> SUFFICES ASSUME PairNext, LinksFree PROVE PairInv'
    BY <1>1
  <1>2. ASSUME NEW a \in Loc, Construct(a) PROVE PairInv'
    BY <1>2 DEF Construct
  <1>3. ASSUME NEW a \in live, ptr' = Unlinked(ptr, a), live' = live \/ live' = live \ {a}
        PROVE  PairInv'
    BY <1>3 DEF Unlinked
  <1>4. ASSUME NEW a \in Loc, NEW b \in Loc \cup {NULL}, ConstructLinked(a, b) PROVE PairInv'
    <2>1. b # NULL => b \in live /\ ptr[b] = NULL /\ a # b
      BY <1>4 DEF ConstructLinked, LinksFree
    <2> QED BY <1>4, <2>1 DEF ConstructLinked, LinkedTo, Store
  <1>5. ASSUME NEW a \in Loc, NEW b \in Loc, MoveConstruct(a, b) PROVE PairInv'
    BY <1>5 DEF MoveConstruct, LinkedTo, Store
  <1>6. ASSUME NEW a \in Loc, NEW b \in Loc, MoveAssign(a, b) PROVE PairInv'
    BY <1>6, SwappedFacts DEF MoveAssign
  <1>7. ASSUME NEW a \in Loc, NEW b \in Loc \cup {NULL}, AssignPointer(a, b) PROVE PairInv'
    <2>1. a \in live /\ b \in live \cup {NULL} /\ live' = live
      BY <1>7 DEF AssignPointer
    <2>2. CASE b = NULL
      BY <1>3, <1>7, <2>1, <2>2, AssignNull
    <2>3. CASE b # NULL
      <3>1. b \in live /\ ptr[b] = NULL /\ a # b
        BY <1>7, <2>1, <2>3 DEF LinksFree
      <3>2. ptr' = [Store(ptr, ptr[a], NULL) EXCEPT ![a] = b, ![b] = a]
        BY <1>7, <2>1, <3>1, AssignFacts
      <3> QED BY <2>1, <3>1, <3>2 DEF Store
    <2> QED BY <2>2, <2>3
  <1> QED BY <1>2, <1>3, <1>4, <1>5, <1>6, <1>7 DEF PairNext, Disconnect, Destruct

(* In every reachable state the pointers are well formed. *)
THEOREM PairedPtrTypeOK == PairSpec /\ [][LinksFree]_pairVars => []PairTypeOK
  <1>1. PairInv => PairTypeOK  BY DEF PairInv
  <1> QED BY PairInvInit, PairInvNext, <1>1, PTL DEF PairSpec

(* In every reachable state the ends of every pair agree: moving, breaking  *)
(* or destroying one object never leaves its partner with a stale pointer,  *)
(* if nobody is linked who is linked already.                               *)
THEOREM PairsNeverDangle == PairSpec /\ [][LinksFree]_pairVars => []Symmetric
  <1>1. PairInv => Symmetric  BY DEF PairInv
  <1> QED BY PairInvInit, PairInvNext, <1>1, PTL DEF PairSpec

(* Only finitely many objects are ever alive, however many addresses.       *)
LiveFinite == IsFiniteSet(live)

LEMMA LiveFiniteNext == PairInv /\ LiveFinite /\ [PairNext]_pairVars => LiveFinite'
  <1> SUFFICES ASSUME LiveFinite, [PairNext]_pairVars PROVE LiveFinite'
    OBVIOUS
  <1>1. \A a \in Loc : IsFiniteSet(live \cup {a}) /\ IsFiniteSet(live \ {a})
    BY FS_AddElement, FS_RemoveElement DEF LiveFinite
  <1>2. live' = live \/ \E a \in Loc : live' = live \cup {a} \/ live' = live \ {a}
    BY DEF PairNext, pairVars, Construct, Disconnect, Destruct, ConstructLinked, MoveConstruct,
           MoveAssign, AssignPointer
  <1> QED BY <1>1, <1>2 DEF LiveFinite

LEMMA Exchange ==
  ASSUME NEW S, IsFiniteSet(S), NEW x \in S, NEW y, y \notin S
  PROVE  Cardinality((S \ {x}) \cup {y}) = Cardinality(S)
  <1> DEFINE R == S \ {x}
  <1>1. IsFiniteSet(R) /\ Cardinality(R) = Cardinality(S) - 1
    BY FS_RemoveElement
  <1>2. y \notin R /\ Cardinality(S) \in Nat
    BY FS_CardinalityType
  <1> HIDE DEF R
  <1>3. Cardinality(R \cup {y}) = Cardinality(R) + 1
    BY <1>1, <1>2, FS_AddElement
  <1> QED BY <1>1, <1>2, <1>3 DEF R

(* A move hands the link from one object to the other, or both keep one.    *)
LEMMA MoveExchanges ==
  ASSUME PairInv, NEW a \in Loc, NEW b \in Loc, MoveConstruct(a, b) \/ MoveAssign(a, b)
  PROVE  \/ Linked' = Linked
         \/ b \in Linked /\ a \notin Linked /\ Linked' = (Linked \ {b}) \cup {a}
         \/ a \in Linked /\ b \notin Linked /\ Linked' = (Linked \ {a}) \cup {b}
  <1> USE NullAssumption DEF PairInv, PairTypeOK, Symmetric, NoSelfLink, Linked
  <1>1. CASE MoveConstruct(a, b)
    <2>1. CASE ptr[b] = NULL
      BY <1>1, <2>1 DEF MoveConstruct, LinkedTo, Store
    <2>2. CASE ptr[b] # NULL
      <3>1. b \in Linked /\ a \notin Linked
        BY <1>1, <2>2 DEF MoveConstruct
      <3>2. /\ live' = live \cup {a} /\ ptr'[a] = ptr[b] /\ ptr'[b] = NULL
            /\ \A c \in Loc \ {a, b} : ptr'[c] # NULL <=> ptr[c] # NULL
        BY <1>1, <2>2 DEF MoveConstruct, LinkedTo, Store
      <3>3. Linked' = (Linked \ {b}) \cup {a}
        BY <2>2, <3>2
      <3> QED BY <3>1, <3>3
    <2> QED BY <2>1, <2>2
  <1>2. CASE MoveAssign(a, b)
    <2>1. ptr' = Swapped(ptr, a, b) /\ live' = live /\ a \in live /\ b \in live
      BY <1>2 DEF MoveAssign
    <2>2. CASE ptr[a] # NULL /\ ptr[b] # NULL
      <3>1. ptr' = [[ptr EXCEPT ![ptr[a]] = ptr[ptr[b]], ![ptr[b]] = ptr[ptr[a]]]
                      EXCEPT ![a] = [ptr EXCEPT ![ptr[a]] = ptr[ptr[b]], ![ptr[b]] = ptr[ptr[a]]][b],
                             ![b] = [ptr EXCEPT ![ptr[a]] = ptr[ptr[b]], ![ptr[b]] = ptr[ptr[a]]][a]]
        BY <2>1, <2>2 DEF Swapped
      <3>2. \A c \in Loc : ptr'[c] # NULL <=> ptr[c] # NULL
        BY <2>1, <2>2, <3>1
      <3> QED BY <2>1, <3>2
    <2>3. CASE ptr[a] # NULL /\ ptr[b] = NULL
      <3>1. /\ ptr'[a] = NULL /\ ptr'[b] # NULL
            /\ \A c \in Loc \ {a, b} : ptr'[c] # NULL <=> ptr[c] # NULL
        BY <2>1, <2>3 DEF Swapped
      <3>2. Linked' = (Linked \ {a}) \cup {b}
        BY <2>1, <2>3, <3>1
      <3> QED BY <2>1, <2>3, <3>2
    <2>4. CASE ptr[a] = NULL /\ ptr[b] # NULL
      <3>1. /\ ptr'[b] = NULL /\ ptr'[a] # NULL
            /\ \A c \in Loc \ {a, b} : ptr'[c] # NULL <=> ptr[c] # NULL
        BY <2>1, <2>4 DEF Swapped, Store
      <3>2. Linked' = (Linked \ {b}) \cup {a}
        BY <2>1, <2>4, <3>1
      <3> QED BY <2>1, <2>4, <3>2
    <2>5. CASE ptr[a] = NULL /\ ptr[b] = NULL
      BY <2>1, <2>5 DEF Swapped, Store
    <2> QED BY <2>2, <2>3, <2>4, <2>5
  <1> QED BY <1>1, <1>2

(* Whatever containers do with slots and connections, by either kind of     *)
(* move, as many of them stay connected as were, under the same premise.    *)
THEOREM MovesNeverDisconnect == PairSpec /\ [][LinksFree]_pairVars => MovesKeepLinks
  <1>1. PairInit => PairInv /\ LiveFinite
    BY PairInvInit, FS_EmptySet DEF PairInit, LiveFinite
  <1>2. PairInv /\ LiveFinite /\ [PairNext]_pairVars /\ [LinksFree]_pairVars => (PairInv /\ LiveFinite)'
    BY PairInvNext, LiveFiniteNext
  <1>3. PairInv /\ LiveFinite =>
          [ (\E a, b \in Loc : MoveConstruct(a, b) \/ MoveAssign(a, b))
              => Cardinality(Linked') = Cardinality(Linked) ]_pairVars
    <2> SUFFICES ASSUME PairInv, LiveFinite,
                        NEW a \in Loc, NEW b \in Loc, MoveConstruct(a, b) \/ MoveAssign(a, b)
                 PROVE  Cardinality(Linked') = Cardinality(Linked)
      OBVIOUS
    <2>1. IsFiniteSet(Linked)
      BY FS_Subset DEF LiveFinite, Linked
    <2> QED BY <2>1, MoveExchanges, Exchange
  <1> QED BY <1>1, <1>2, <1>3, PTL DEF PairSpec, MovesKeepLinks
-----------------------------------------------------------------------------
(***************************************************************************)
(* expiry_cache.  For any number of users, keys, values and clock units:   *)
(* every value that was put is either in the cache or was announced, once; *)
(* the flag of the vacuuming thread is right; and no entry leaves before   *)
(* its time.                                                               *)
(***************************************************************************)

(* Numbers that were not given out yet were not announced. *)
Fresh == \A v \in Values : v > puts => announced[v] = 0

IInv == TypeOK /\ FlagMeansThread /\ Fresh /\ AnnouncedOnce
-----------------------------------------------------------------------------
(* The entries that hold one value are finitely many. *)
LEMMA KeepingFinite ==
  ASSUME CacheAssumption, TypeOK, NEW v
  PROVE  IsFiniteSet(Keeping(v)) /\ Cardinality(Keeping(v)) \in Nat
  <1>1. Keeping(v) \subseteq Keys
    BY DEF Keeping, TypeOK
  <1>2. IsFiniteSet(Keeping(v))
    BY <1>1, FS_Subset DEF CacheAssumption
  <1> QED BY <1>2, FS_CardinalityType

(* What leaves is announced: the sum does not change. *)
LEMMA EraseKeepsSum ==
  ASSUME CacheAssumption, TypeOK, NEW K, Erase(K)
  PROVE  /\ Stored' = Stored \ K /\ \A k \in Stored' : data'[k] = data[k]
         /\ announced' \in [Values -> Nat]
         /\ \A v \in Values : /\ announced'[v] + Cardinality(Keeping(v)') =
                                   announced[v] + Cardinality(Keeping(v))
                              /\ Keeping(v) = {} => announced'[v] = announced[v]
  <1>1. Stored' = Stored \ K /\ \A k \in Stored' : data'[k] = data[k]
    BY DEF Erase, Removed, Stored
  <1>2. ASSUME NEW v \in Values
        PROVE  /\ announced'[v] = announced[v] + Cardinality(Keeping(v) \cap K)
               /\ Cardinality(Keeping(v) \cap K) \in Nat
               /\ Cardinality(Keeping(v)') = Cardinality(Keeping(v)) - Cardinality(Keeping(v) \cap K)
    <2>1. {k \in K \cap Stored : data[k].value = v} = Keeping(v) \cap K
      BY DEF Keeping
    <2>2. Keeping(v)' = Keeping(v) \ K
      BY <1>1 DEF Keeping
    <2>3. IsFiniteSet(Keeping(v))
      BY KeepingFinite
    <2>4. IsFiniteSet(Keeping(v) \cap K) /\ Cardinality(Keeping(v) \cap K) \in Nat
      BY <2>3, FS_Intersection, FS_CardinalityType
    <2>5. Cardinality(Keeping(v) \ K) = Cardinality(Keeping(v)) - Cardinality(Keeping(v) \cap K)
      BY <2>3, FS_Difference
    <2>6. announced'[v] = announced[v] + Cardinality(Keeping(v) \cap K)
      BY <2>1 DEF Erase, Announced
    <2> QED BY <2>2, <2>4, <2>5, <2>6
  <1>3. \A v \in Values : announced[v] \in Nat
    BY DEF TypeOK
  <1>4. announced' \in [Values -> Nat]
    <2> DEFINE n(v) == announced[v] + Cardinality({k \in K \cap Stored : data[k].value = v})
    <2>1. announced' = [v \in Values |-> n(v)]
      <3>1. announced' = Announced(K)
        BY DEF Erase
      <3> QED BY <3>1 DEF Announced
    <2> HIDE DEF n
    <2>2. \A v \in Values : announced'[v] = n(v)
      BY <2>1
    <2>3. ASSUME NEW v \in Values PROVE announced'[v] \in Nat
      <3>1. /\ announced'[v] = announced[v] + Cardinality(Keeping(v) \cap K)
            /\ Cardinality(Keeping(v) \cap K) \in Nat /\ announced[v] \in Nat
        BY <1>2, <1>3
      <3> QED BY <3>1
    <2> QED BY <2>1, <2>2, <2>3
  <1>5. ASSUME NEW v \in Values
        PROVE  announced'[v] + Cardinality(Keeping(v)') = announced[v] + Cardinality(Keeping(v))
    <2>1. Cardinality(Keeping(v)) \in Nat /\ announced[v] \in Nat
      BY <1>3, KeepingFinite
    <2>2. /\ announced'[v] = announced[v] + Cardinality(Keeping(v) \cap K)
          /\ Cardinality(Keeping(v) \cap K) \in Nat
          /\ Cardinality(Keeping(v)') = Cardinality(Keeping(v)) - Cardinality(Keeping(v) \cap K)
      BY <1>2
    <2> QED BY <2>1, <2>2
  <1>6. ASSUME NEW v \in Values, Keeping(v) = {} PROVE announced'[v] = announced[v]
    <2>1. Cardinality(Keeping(v) \cap K) = 0
      BY <1>6, FS_EmptySet
    <2> QED BY <1>2, <1>3, <2>1
  <1> QED BY <1>1, <1>4, <1>5, <1>6

(* So an erasure, whoever makes it, preserves what concerns the data. *)
Accounts == Fresh /\ AnnouncedOnce

LEMMA EraseAccounts ==
  ASSUME CacheAssumption, TypeOK, Accounts, NEW K, Erase(K), UNCHANGED puts,
         life' = "dead" => Stored \ K = {}
  PROVE  Accounts'
  <1>1. Fresh'
    <2>1. ASSUME NEW v \in Values, v > puts PROVE announced'[v] = 0
      <3>1. Keeping(v) = {}
        BY <2>1 DEF Keeping, TypeOK
      <3>2. announced'[v] = announced[v]
        BY <3>1, EraseKeepsSum
      <3> QED BY <2>1, <3>2 DEF Accounts, Fresh
    <2> QED BY <2>1 DEF Fresh
  <1>2. \A v \in 1..puts : v \in Values
    BY DEF TypeOK, Values, CacheAssumption
  <1>3. \A v \in 1..puts' : announced'[v] + Cardinality(Keeping(v)') = 1
    BY <1>2, EraseKeepsSum DEF Accounts, AnnouncedOnce
  <1>4. life' = "dead" => Stored' = {}
    BY EraseKeepsSum
  <1> QED BY <1>1, <1>3, <1>4 DEF Accounts, AnnouncedOnce

LEMMA EraseTypes ==
  ASSUME CacheAssumption, TypeOK, NEW K, Erase(K), UNCHANGED <<puts, now>>
  PROVE  /\ Stored' \subseteq Keys
         /\ \A k \in Stored' : data'[k] \in [since : 0..now', lasts : Int, value : 1..puts']
         /\ announced' \in [Values -> Nat]
  BY EraseKeepsSum DEF TypeOK
-----------------------------------------------------------------------------
LEMMA IInvInit == CacheAssumption /\ Init => IInv
  <1> SUFFICES ASSUME CacheAssumption, Init PROVE IInv
    OBVIOUS
  <1>1. Stored = {} 
    BY DEF Init, Stored
  <1>2. TypeOK
    <2>1. /\ announced \in [Values -> Nat] /\ expiry \in Int
          /\ pc \in [Users \cup {Destructor} -> {"idle", "join"}]
          /\ now \in 0..MaxTime /\ puts \in 0..MaxPuts
      BY DEF Init, CacheAssumption
    <2> QED BY <1>1, <2>1 DEF Init, TypeOK
  <1>3. FlagMeansThread
    <2>1. ~auto /\ vacuumer = "none" /\ ~cancel /\ mutex = None
      BY DEF Init
    <2>2. \A t \in Users \cup {Destructor} : pc[t] = "idle" /\ mutex # t
      BY DEF Init, CacheAssumption
    <2> QED BY <2>1, <2>2 DEF FlagMeansThread
  <1>4. Fresh /\ AnnouncedOnce
    <2>1. \A v \in Values : announced[v] = 0
      BY DEF Init
    <2>2. puts = 0 /\ life = "alive"
      BY DEF Init
    <2> QED BY <2>1, <2>2 DEF Fresh, AnnouncedOnce
  <1> QED BY <1>2, <1>3, <1>4 DEF IInv

(* A value is stored: under one key, and it is not announced. *)
LEMMA PutPreserves ==
  ASSUME CacheAssumption, TypeOK, Accounts,
         NEW u \in Users, NEW k \in Keys, NEW d \in Durations, Put(u, k, d)
  PROVE  /\ Stored' \subseteq Keys
         /\ \A j \in Stored' : data'[j] \in [since : 0..now', lasts : Int, value : 1..puts']
         /\ announced' \in [Values -> Nat]
         /\ Accounts'
  <1> DEFINE entry == [since |-> now, lasts |-> IF d = 0 THEN expiry ELSE d,
                       value |-> puts + 1]
  <1>1. /\ puts' = puts + 1 /\ puts' \in Values /\ now' = now
        /\ life = "alive" /\ life' = "alive" /\ puts \in Nat
    BY DEF Put, Use, TypeOK, CacheAssumption, Values
  <1>2. entry \in [since : 0..now', lasts : Int, value : 1..puts']
    BY <1>1 DEF TypeOK, CacheAssumption
  <1>3. /\ Stored' = Stored \cup {k}
        /\ \A j \in Stored' : data'[j] = IF j = k THEN entry ELSE data[j]
    BY DEF Put, Stored
  <1> HIDE DEF entry
  <1>4. Stored' \subseteq Keys
    BY <1>3 DEF TypeOK
  <1>5. ASSUME NEW j \in Stored'
        PROVE  data'[j] \in [since : 0..now', lasts : Int, value : 1..puts']
    <2>1. CASE j = k
      BY <1>2, <1>3, <2>1
    <2>2. CASE j # k
      <3>1. data[j] \in [since : 0..now, lasts : Int, value : 1..puts] /\ data'[j] = data[j]
        BY <1>3, <2>2 DEF TypeOK
      <3> QED BY <1>1, <3>1
    <2> QED BY <2>1, <2>2
  (* the sum without k, as if it had been erased first *)
  <1> DEFINE Others(v) == Keeping(v) \ {k}
  <1>6. ASSUME NEW v \in Values
        PROVE  /\ announced'[v] \in Nat
               /\ announced'[v] + Cardinality(Others(v)) = announced[v] + Cardinality(Keeping(v))
               /\ Keeping(v) = {} => announced'[v] = announced[v]
    <2>1. {j \in {k} \cap Stored : data[j].value = v} = Keeping(v) \cap {k}
      BY DEF Keeping
    <2>2. announced'[v] = announced[v] + Cardinality(Keeping(v) \cap {k})
      BY <2>1 DEF Put, Announced
    <2>3. IsFiniteSet(Keeping(v)) /\ Cardinality(Keeping(v)) \in Nat
      BY KeepingFinite
    <2>4. IsFiniteSet(Keeping(v) \cap {k}) /\ Cardinality(Keeping(v) \cap {k}) \in Nat
      BY <2>3, FS_Intersection, FS_CardinalityType
    <2>5. Cardinality(Others(v)) = Cardinality(Keeping(v)) - Cardinality(Keeping(v) \cap {k})
      BY <2>3, FS_Difference
    <2>6. announced[v] \in Nat
      BY DEF TypeOK
    <2>7. Keeping(v) = {} => Cardinality(Keeping(v) \cap {k}) = 0
      BY FS_EmptySet
    <2> QED BY <2>2, <2>3, <2>4, <2>5, <2>6, <2>7
  <1>7. announced' \in [Values -> Nat]
    <2> DEFINE n(v) == announced[v] + Cardinality({j \in {k} \cap Stored : data[j].value = v})
    <2>1. announced' = [v \in Values |-> n(v)]
      <3>1. announced' = Announced({k})
        BY DEF Put
      <3> QED BY <3>1 DEF Announced
    <2> HIDE DEF n
    <2>2. \A v \in Values : announced'[v] = n(v)
      BY <2>1
    <2> QED BY <1>6, <2>1, <2>2
  <1>8. ASSUME NEW v \in Values, v > puts PROVE Keeping(v) = {} /\ announced'[v] = 0
    <2>1. Keeping(v) = {}
      BY <1>8 DEF Keeping, TypeOK
    <2> QED BY <1>6, <1>8, <2>1 DEF Accounts, Fresh
  <1>9. Fresh'
    BY <1>1, <1>8 DEF Fresh, Values
  <1>10. ASSUME NEW v \in 1..puts' PROVE announced'[v] + Cardinality(Keeping(v)') = 1
    <2>1. CASE v = puts + 1
      <3>1. Keeping(v) = {} /\ announced'[v] = 0
        BY <1>1, <1>8, <2>1
      <3>2. Keeping(v)' = {k}
        BY <1>3, <2>1, <3>1 DEF Keeping, entry
      <3>3. Cardinality({k}) = 1
        BY FS_Singleton
      <3>4. Cardinality(Keeping(v)') = 1
        BY <3>2, <3>3
      <3> QED BY <3>1, <3>4
    <2>2. CASE v # puts + 1
      <3>1. v \in 1..puts /\ v \in Values
        BY <1>1, <2>2 DEF Values, TypeOK, CacheAssumption
      <3>2. Keeping(v)' = Others(v)
        BY <1>3, <2>2 DEF Keeping, entry
      <3> QED BY <1>6, <3>1, <3>2 DEF Accounts, AnnouncedOnce
    <2> QED BY <2>1, <2>2
  <1> QED BY <1>1, <1>4, <1>5, <1>7, <1>9, <1>10 DEF Accounts, AnnouncedOnce

(* What changes only the times of the entries changes no account. *)
LEMMA TimesPreserve ==
  ASSUME CacheAssumption, TypeOK, Accounts, UNCHANGED <<puts, announced, life, now>>,
         Stored' = Stored,
         \A k \in Stored : /\ data'[k].value = data[k].value
                           /\ data'[k] \in [since : 0..now, lasts : Int, value : 1..puts]
  PROVE  /\ Stored' \subseteq Keys
         /\ \A k \in Stored' : data'[k] \in [since : 0..now', lasts : Int, value : 1..puts']
         /\ announced' \in [Values -> Nat]
         /\ Accounts'
  <1>1. ASSUME NEW v PROVE Keeping(v)' = Keeping(v)
    BY DEF Keeping
  <1>2. \A v \in 1..puts : announced'[v] + Cardinality(Keeping(v)') = 1
    BY <1>1 DEF Accounts, AnnouncedOnce
  <1> QED BY <1>2 DEF TypeOK, Accounts, Fresh, AnnouncedOnce

(* TypeOK in two halves: what the operations on entries change, and what    *)
(* those of the thread change.                                              *)
DataTypes ==
    /\ Stored \subseteq Keys
    /\ \A k \in Stored : data[k] \in [since : 0..now, lasts : Int, value : 1..puts]
    /\ announced \in [Values -> Nat]

ControlTypes ==
    /\ mutex \in Users \cup {Destructor, None}
    /\ expiry \in Int /\ prolongs \in BOOLEAN
    /\ auto \in BOOLEAN /\ cancel \in BOOLEAN
    /\ vacuumer \in {"none", "test", "vacuum", "retest", "sleep", "ended"}
    /\ pc \in [Users \cup {Destructor} -> {"idle", "join"}]
    /\ life \in {"alive", "stop", "dead"}
    /\ now \in 0..MaxTime /\ puts \in 0..MaxPuts

LEMMA TypeHalves == TypeOK <=> DataTypes /\ ControlTypes
  BY DEF TypeOK, DataTypes, ControlTypes

(* The thread, its flag and the mutex. *)
LEMMA ControlNext ==
    CacheAssumption /\ TypeOK /\ FlagMeansThread /\ [Next]_vars
      => ControlTypes' /\ FlagMeansThread'
  <1> SUFFICES ASSUME CacheAssumption, TypeOK, FlagMeansThread, [Next]_vars
               PROVE  ControlTypes' /\ FlagMeansThread'
    OBVIOUS
  <1> DEFINE Goal == ControlTypes' /\ FlagMeansThread'
  <1>0. ControlTypes
    BY TypeHalves
  <1> USE <1>0 DEF CacheAssumption, ControlTypes, FlagMeansThread, settings, thread, history
  <1>1. CASE Tick
    BY <1>1 DEF Tick
  <1>2. ASSUME NEW u \in Users, UserStep(u), ~StartAutoVacuum(u) PROVE Goal
    <2>1. UNCHANGED <<mutex, settings, thread, life, now>> /\ puts' \in 0..MaxPuts
      <3>1. CASE Vacuum(u) \/ Clear(u)
        BY <3>1 DEF Vacuum, Clear
      <3>2. ASSUME NEW k \in Keys, Get(u, k) \/ \E b \in BOOLEAN : Touch(u, k, b)
            PROVE  UNCHANGED <<mutex, settings, thread, life, now, puts>>
        BY <3>2 DEF Get, Touch
      <3>3. ASSUME NEW k \in Keys, NEW d \in Durations, Put(u, k, d)
            PROVE  /\ UNCHANGED <<mutex, settings, thread, life, now>>
                   /\ puts' \in 0..MaxPuts
        <4>1. puts < MaxPuts /\ puts' = puts + 1 /\ UNCHANGED <<mutex, settings, thread, life, now>>
          BY <3>3 DEF Put
        <4> QED BY <4>1
      <3>4. ASSUME NEW k \in Keys, NEW d \in Durations, SetExpiry(u, k, d)
            PROVE  UNCHANGED <<mutex, settings, thread, life, now, puts>>
        BY <3>4 DEF SetExpiry
      <3> QED BY <1>2, <3>1, <3>2, <3>3, <3>4 DEF UserStep
    <2> QED BY <2>1
  <1>3. ASSUME NEW u \in Users, StartAutoVacuum(u) PROVE Goal
    BY <1>3 DEF StartAutoVacuum, Use
  <1>4. ASSUME NEW t \in Users \cup {Destructor}, StopAutoVacuum(t) PROVE Goal
    BY <1>4 DEF StopAutoVacuum
  <1>5. ASSUME NEW t \in Users \cup {Destructor}, AutoVacuumStopped(t) PROVE Goal
    BY <1>5 DEF AutoVacuumStopped
  <1>6. ASSUME NEW d \in Durations, SetDefaultExpiry(d) PROVE Goal
    BY <1>6 DEF SetDefaultExpiry
  <1>7. ASSUME NEW b \in BOOLEAN, SetAccessProlongs(b) PROVE Goal
    BY <1>7 DEF SetAccessProlongs
  <1>8. CASE Vacuumer
    BY <1>8 DEF Vacuumer, VacuumerDue, VacuumerTest, VacuumerVacuum, VacuumerRetest,
                VacuumerWake, VacuumerAt
  <1>9. CASE Destroy \/ Destroyed
    BY <1>9 DEF Destroy, Destroyed
  <1>10. CASE UNCHANGED vars
    BY <1>10 DEF vars
  <1> QED BY <1>1, <1>2, <1>3, <1>4, <1>5, <1>6, <1>7, <1>8, <1>9, <1>10 DEF Next

(* The entries and what was announced. *)
LEMMA DataNext ==
    CacheAssumption /\ TypeOK /\ Accounts /\ [Next]_vars => DataTypes' /\ Accounts'
  <1> SUFFICES ASSUME CacheAssumption, TypeOK, Accounts, [Next]_vars
               PROVE  DataTypes' /\ Accounts'
    OBVIOUS
  <1> DEFINE Goal == DataTypes' /\ Accounts'
  (* four ways to change them *)
  <1>1. ASSUME NEW K, Erase(K), UNCHANGED <<puts, now>>, life' = "dead" => Stored \ K = {}
        PROVE  Goal
    BY <1>1, EraseAccounts, EraseTypes DEF DataTypes
  <1>2. ASSUME NEW u \in Users, NEW k \in Keys, NEW d \in Durations, Put(u, k, d) PROVE Goal
    BY <1>2, PutPreserves DEF DataTypes
  <1>3. ASSUME UNCHANGED <<puts, announced, life, now>>, Stored' = Stored,
               \A k \in Stored : /\ data'[k].value = data[k].value
                                 /\ data'[k] \in [since : 0..now, lasts : Int, value : 1..puts]
        PROVE  Goal
    BY <1>3, TimesPreserve DEF DataTypes
  <1>4. ASSUME UNCHANGED <<data, puts, announced, now>>, life' = "dead" => life = "dead"
        PROVE  Goal
    BY <1>4 DEF TypeOK, DataTypes, Accounts, Fresh, AnnouncedOnce, Keeping, Stored
  (* the operations *)
  <1>5. ASSUME NEW k \in Stored, Touched(k), UNCHANGED <<puts, announced, life, now>> PROVE Goal
    <2>1. now \in 0..now
      BY DEF TypeOK, CacheAssumption
    <2>2. Stored' = Stored
      BY <1>5 DEF Touched, Stored
    <2>3. ASSUME NEW j \in Stored
          PROVE  /\ data'[j].value = data[j].value
                 /\ data'[j] \in [since : 0..now, lasts : Int, value : 1..puts]
      BY <1>5, <2>1 DEF Touched, TypeOK, Stored
    <2> QED BY <1>3, <1>5, <2>2, <2>3
  <1>6. CASE Tick
    <2>1. now' = now + 1 /\ now \in Nat /\ UNCHANGED <<data, puts, announced, life>>
      BY <1>6 DEF Tick, history, TypeOK, CacheAssumption
    <2>2. ASSUME NEW k \in Stored
          PROVE  data[k] \in [since : 0..now', lasts : Int, value : 1..puts]
      <3>1. data[k] \in [since : 0..now, lasts : Int, value : 1..puts]
        BY DEF TypeOK
      <3>2. 0..now \subseteq 0..now'
        BY <2>1
      <3> QED BY <3>1, <3>2
    <2> QED BY <2>1, <2>2 DEF TypeOK, DataTypes, Accounts, Fresh, AnnouncedOnce, Keeping, Stored
  <1>7. ASSUME NEW u \in Users, Vacuum(u) \/ Clear(u) PROVE Goal
    BY <1>1, <1>7 DEF Vacuum, Clear, Use
  <1>8. ASSUME NEW u \in Users, NEW k \in Keys, Get(u, k) PROVE Goal
    <2>1. /\ k \in Stored /\ UNCHANGED <<puts, now, life>> /\ life' # "dead"
          /\ \/ Erase({k})
             \/ Touched(k) /\ UNCHANGED announced
             \/ UNCHANGED <<data, announced>>
      <3>1. k \in Stored /\ life = "alive" /\ UNCHANGED <<puts, now, life>>
        BY <1>8 DEF Get, Use
      <3>2. CASE ~auto /\ Expired(k)
        BY <1>8, <3>1, <3>2 DEF Get, Erase
      <3>3. CASE ~(~auto /\ Expired(k)) /\ prolongs /\ (auto \/ ~Expired(k))
        BY <1>8, <3>1, <3>3 DEF Get, Touched
      <3>4. CASE ~(~auto /\ Expired(k)) /\ ~(prolongs /\ (auto \/ ~Expired(k)))
        BY <1>8, <3>1, <3>4 DEF Get
      <3> QED BY <3>2, <3>3, <3>4
    <2> QED BY <1>1, <1>4, <1>5, <2>1
  <1>9. ASSUME NEW u \in Users, NEW k \in Keys, NEW b \in BOOLEAN, Touch(u, k, b) PROVE Goal
    BY <1>5, <1>9 DEF Touch, history
  <1>10. ASSUME NEW u \in Users, NEW k \in Keys, NEW d \in Durations, SetExpiry(u, k, d) PROVE Goal
    <2>1. /\ UNCHANGED <<puts, announced, life, now>> /\ k \in Stored /\ d \in Int
          /\ data' = [data EXCEPT ![k].lasts = d]
      BY <1>10 DEF SetExpiry, history, CacheAssumption
    <2>2. Stored' = Stored
      BY <2>1 DEF Stored
    <2>3. ASSUME NEW j \in Stored
          PROVE  /\ data'[j].value = data[j].value
                 /\ data'[j] \in [since : 0..now, lasts : Int, value : 1..puts]
      BY <2>1 DEF TypeOK, Stored
    <2> QED BY <1>3, <2>1, <2>2, <2>3
  <1>11. CASE \/ \E u \in Users : StartAutoVacuum(u)
              \/ \E t \in Users \cup {Destructor} : StopAutoVacuum(t) \/ AutoVacuumStopped(t)
              \/ \E d \in Durations : SetDefaultExpiry(d)
              \/ \E b \in BOOLEAN : SetAccessProlongs(b)
              \/ VacuumerDue \/ VacuumerTest \/ VacuumerRetest \/ VacuumerWake
              \/ Destroy \/ UNCHANGED vars
    BY <1>4, <1>11 DEF StartAutoVacuum, StopAutoVacuum, AutoVacuumStopped, SetDefaultExpiry,
                       SetAccessProlongs, VacuumerDue, VacuumerTest, VacuumerRetest,
                       VacuumerWake, VacuumerAt, Destroy, vars, history
  <1>12. CASE VacuumerVacuum
    <2>1. life' = "dead" => Stored = {}
      BY <1>12 DEF VacuumerVacuum, Accounts, AnnouncedOnce
    <2> QED BY <1>1, <1>12, <2>1 DEF VacuumerVacuum
  <1>13. CASE Destroyed
    BY <1>1, <1>13 DEF Destroyed
  <1> QED BY <1>2, <1>6, <1>7, <1>8, <1>9, <1>10, <1>11, <1>12, <1>13
          DEF Next, UserStep, Vacuumer

LEMMA IInvAlways == Spec => []IInv
  <1>1. Init => IInv
    BY CacheAssumption, IInvInit
  <1>2. IInv /\ [Next]_vars => IInv'
    <2> SUFFICES ASSUME IInv, [Next]_vars PROVE IInv'
      OBVIOUS
    <2>1. ControlTypes' /\ FlagMeansThread'
      BY CacheAssumption, ControlNext DEF IInv
    <2>2. DataTypes' /\ Accounts'
      BY CacheAssumption, DataNext DEF IInv, Accounts
    <2>3. TypeOK'
      BY <2>1, <2>2 DEF TypeOK, DataTypes, ControlTypes
    <2> QED BY <2>1, <2>2, <2>3 DEF IInv, Accounts
  <1> QED BY <1>1, <1>2, PTL DEF Spec
-----------------------------------------------------------------------------
(* Every variable keeps its type. *)
THEOREM CacheTypeOK == Spec => []TypeOK
  <1>1. IInv => TypeOK
    BY DEF IInv
  <1> QED BY <1>1, IInvAlways, PTL

(* Every value that was put is either in the cache or was announced, and    *)
(* never twice; none is left when the cache is destroyed.                   *)
THEOREM EachValueOnce == Spec => []AnnouncedOnce
  <1>1. IInv => AnnouncedOnce
    BY DEF IInv
  <1> QED BY <1>1, IInvAlways, PTL

(* The flag is set exactly when there is a vacuuming thread, and its        *)
(* cancellation exactly while somebody waits for its end.                   *)
THEOREM TheFlagIsTheThread == Spec => []FlagMeansThread
  <1>1. IInv => FlagMeansThread
    BY DEF IInv
  <1> QED BY <1>1, IInvAlways, PTL

(* No step removes an entry before its time, except clear() and the         *)
(* destructor.                                                              *)
THEOREM NothingLeavesEarly == Spec => NeverEarly
  <1>1. [Next]_vars =>
          [ \A k \in Stored : k \notin DOMAIN data' =>
              \/ now - data[k].since > data[k].lasts
              \/ Destroyed \/ \E u \in Users : Clear(u) ]_vars
    <2> SUFFICES ASSUME Next, NEW k \in Stored, k \notin DOMAIN data',
                        ~Destroyed, \A u \in Users : ~Clear(u)
                 PROVE  now - data[k].since > data[k].lasts
      OBVIOUS
    <2> USE DEF Stored
    <2>1. CASE \/ Tick \/ \E t \in Users \cup {Destructor} : StopAutoVacuum(t) \/ AutoVacuumStopped(t)
               \/ \E d \in Durations : SetDefaultExpiry(d)
               \/ \E b \in BOOLEAN : SetAccessProlongs(b)
               \/ \E u \in Users : StartAutoVacuum(u)
               \/ VacuumerDue \/ VacuumerTest \/ VacuumerRetest \/ VacuumerWake \/ Destroy
      BY <2>1 DEF Tick, StopAutoVacuum, AutoVacuumStopped, SetDefaultExpiry, SetAccessProlongs,
                  StartAutoVacuum, VacuumerDue, VacuumerTest, VacuumerRetest, VacuumerWake,
                  VacuumerAt, Destroy
    <2>2. ASSUME Erase(Collected) PROVE now - data[k].since > data[k].lasts
      BY <2>2 DEF Erase, Removed, Collected, Expired
    <2>3. ASSUME NEW u \in Users, NEW j \in Keys, Get(u, j)
          PROVE  now - data[k].since > data[k].lasts
      BY <2>3 DEF Get, Erase, Removed, Touched, Expired
    <2>4. ASSUME NEW u \in Users, NEW j \in Keys, NEW d \in Durations, Put(u, j, d) \/ SetExpiry(u, j, d)
          PROVE  FALSE
      BY <2>4 DEF Put, SetExpiry
    <2>5. ASSUME NEW u \in Users, NEW j \in Keys, NEW b \in BOOLEAN, Touch(u, j, b) PROVE FALSE
      BY <2>5 DEF Touch, Touched
    <2> QED BY <2>1, <2>2, <2>3, <2>4, <2>5 DEF Next, UserStep, Vacuumer, Vacuum, VacuumerVacuum
  <1> QED BY <1>1, PTL DEF Spec, NeverEarly
-----------------------------------------------------------------------------
(***************************************************************************)
(* Destruction of the cache does not always end (DestructionEnds fails).   *)
(* The following three say how: there is one way to get stuck, it is final, *)
(* and a stop that does not take it joins a thread that needs the mutex no  *)
(* more.                                                                    *)
(***************************************************************************)

(* A thread joins the vacuuming thread, which wants the mutex of the first. *)
Stuck == mutex # None /\ vacuumer = "vacuum"

(* The vacuuming thread has not just decided to vacuum.                     *)
StopsBetween ==
  \A t \in Users \cup {Destructor} : StopAutoVacuum(t) => vacuumer # "vacuum"

(* The destructor has the mutex while it stops the thread; a cache that is  *)
(* gone has no thread, and its mutex no owner.                              *)
NobodyLeft == /\ mutex = Destructor => life = "stop"
              /\ life = "dead" => ~auto /\ mutex = None

(* What happens to the cache when it is used, by whomever. *)
cache == <<data, mutex, thread, life, history>>

LEMMA NobodyLeftNext == IInv /\ NobodyLeft /\ [Next]_vars => NobodyLeft'
  <1> SUFFICES ASSUME IInv, NobodyLeft, [Next]_vars PROVE NobodyLeft'
    OBVIOUS
  <1> USE CacheAssumption DEF NobodyLeft, thread, CacheAssumption
  <1>1. ASSUME NEW u \in Users, UserStep(u) PROVE NobodyLeft'
    <2>1. life = "alive" /\ UNCHANGED <<life, mutex>>
      BY <1>1 DEF UserStep, Vacuum, Clear, StartAutoVacuum, Get, Touch, Put, SetExpiry, Use
    <2> QED BY <2>1
  <1>2. ASSUME NEW t \in Users \cup {Destructor}, StopAutoVacuum(t) \/ AutoVacuumStopped(t)
        PROVE  NobodyLeft'
    BY <1>2 DEF StopAutoVacuum, AutoVacuumStopped
  <1>3. CASE Vacuumer
    BY <1>3 DEF Vacuumer, VacuumerDue, VacuumerTest, VacuumerVacuum, VacuumerRetest,
                VacuumerWake, VacuumerAt
  <1>4. CASE \/ Tick \/ \E d \in Durations : SetDefaultExpiry(d)
             \/ \E b \in BOOLEAN : SetAccessProlongs(b)
             \/ Destroy \/ Destroyed \/ UNCHANGED vars
    BY <1>4 DEF Tick, SetDefaultExpiry, SetAccessProlongs, Destroy, Destroyed, vars
  <1> QED BY <1>1, <1>2, <1>3, <1>4 DEF Next

LEMMA NobodyLeftAlways == Spec => []NobodyLeft
  <1>1. Init => NobodyLeft
    BY CacheAssumption DEF Init, NobodyLeft, CacheAssumption
  <1> QED BY <1>1, NobodyLeftNext, IInvAlways, PTL DEF Spec

(* Only steps of the clock and of the two settings that take no mutex are   *)
(* left, once the cache is stuck or gone.                                   *)
LEMMA OnlySettings ==
  ASSUME IInv, NobodyLeft, Stuck \/ life = "dead", [Next]_vars
  PROVE  UNCHANGED cache
  <1> USE DEF IInv, FlagMeansThread, NobodyLeft, Stuck, cache, thread, history
  <1>1. ASSUME NEW u \in Users, UserStep(u) PROVE FALSE
    BY <1>1 DEF UserStep, Vacuum, Clear, StartAutoVacuum, Get, Touch, Put, SetExpiry, Use
  <1>2. ASSUME NEW t \in Users \cup {Destructor}, StopAutoVacuum(t) \/ AutoVacuumStopped(t)
        PROVE  FALSE
    BY <1>2, CacheAssumption DEF StopAutoVacuum, AutoVacuumStopped, CacheAssumption
  <1>3. CASE Vacuumer
    BY <1>3 DEF Vacuumer, VacuumerDue, VacuumerTest, VacuumerVacuum, VacuumerRetest,
                VacuumerWake, VacuumerAt
  <1>4. CASE Destroy
    BY <1>4, CacheAssumption DEF Destroy, CacheAssumption, TypeOK
  <1>5. CASE \/ Tick \/ \E d \in Durations : SetDefaultExpiry(d)
             \/ \E b \in BOOLEAN : SetAccessProlongs(b)
             \/ UNCHANGED vars
    BY <1>5 DEF Tick, SetDefaultExpiry, SetAccessProlongs, vars
  <1>6. CASE Destroyed
    BY <1>6 DEF Destroyed
  <1> QED BY <1>1, <1>2, <1>3, <1>4, <1>5, <1>6 DEF Next

(* There is no way out: once stop_auto_vacuum() joins a thread that wants   *)
(* its mutex, no operation of the cache ever ends or begins, for anybody.   *)
THEOREM TheDeadlockIsFinal == Spec => [][Stuck => UNCHANGED cache]_vars
  <1>1. IInv /\ NobodyLeft /\ [Next]_vars => [Stuck => UNCHANGED cache]_vars
    BY OnlySettings
  <1> QED BY <1>1, IInvAlways, NobodyLeftAlways, PTL DEF Spec

(* And there is no other way in: as long as stop_auto_vacuum() never comes  *)
(* between the decision of the thread to vacuum and the lock it then takes, *)
(* the thread that is joined ends without the mutex.                        *)
THEOREM OnlyThisDeadlock == Spec /\ [][StopsBetween]_vars => []~Stuck
  <1>1. Init => ~Stuck
    BY DEF Init, Stuck
  <1>2. IInv /\ ~Stuck /\ [Next]_vars /\ [StopsBetween]_vars => ~Stuck'
    <2> SUFFICES ASSUME IInv, ~Stuck, [Next]_vars, [StopsBetween]_vars PROVE ~Stuck'
      OBVIOUS
    <2> USE DEF IInv, FlagMeansThread, Stuck, thread
    <2>1. ASSUME NEW u \in Users, UserStep(u) PROVE ~Stuck'
      <3>1. mutex = None /\ mutex' = mutex
        BY <2>1 DEF UserStep, Vacuum, Clear, StartAutoVacuum, Get, Touch, Put, SetExpiry, Use
      <3> QED BY <3>1
    <2>2. ASSUME NEW t \in Users \cup {Destructor}, StopAutoVacuum(t) PROVE ~Stuck'
      <3>1. vacuumer # "vacuum"
        BY <2>2 DEF StopsBetween, StopAutoVacuum, vars
      <3> QED BY <2>2, <3>1 DEF StopAutoVacuum
    <2>3. ASSUME NEW t \in Users \cup {Destructor}, AutoVacuumStopped(t) PROVE ~Stuck'
      BY <2>3 DEF AutoVacuumStopped
    <2>4. CASE Vacuumer
      BY <2>4 DEF Vacuumer, VacuumerDue, VacuumerTest, VacuumerVacuum, VacuumerRetest,
                  VacuumerWake, VacuumerAt
    <2>5. CASE \/ Tick \/ \E d \in Durations : SetDefaultExpiry(d)
               \/ \E b \in BOOLEAN : SetAccessProlongs(b)
               \/ Destroy \/ Destroyed \/ UNCHANGED vars
      BY <2>5 DEF Tick, SetDefaultExpiry, SetAccessProlongs, Destroy, Destroyed, vars
    <2> QED BY <2>1, <2>2, <2>3, <2>4, <2>5 DEF Next
  <1> QED BY <1>1, <1>2, IInvAlways, PTL DEF Spec

(* When the destructor has returned, no thread of the cache touches it, its *)
(* entries or its mutex, and no listener is told of anything.               *)
THEOREM NobodyTouchesTheDead == Spec => [][life = "dead" => UNCHANGED cache]_vars
  <1>1. IInv /\ NobodyLeft /\ [Next]_vars => [life = "dead" => UNCHANGED cache]_vars
    BY OnlySettings
  <1> QED BY <1>1, IInvAlways, NobodyLeftAlways, PTL DEF Spec
-----------------------------------------------------------------------------
(***************************************************************************)
(* topological_sorter.  sort() returns a topological order, for any finite *)
(* set of objects and any dependencies among them.                         *)
(***************************************************************************)

(* The dependency of o on d has been taken off the count of o.              *)
Met(d, o) == \E i \in 1 .. idx : sorted[i] = d /\ (i < idx \/ o \notin todo)

Needs(o) == {d \in Objects : o \in deps[d]}
Waiting(o) == {d \in Objects : o \in deps[d] /\ ~Met(d, o)}

Out(o) == \E i \in 1 .. Len(sorted) : sorted[i] = o

(* The counts of the map are those of its sets of dependents.               *)
GraphInv ==
  /\ \A o, d \in Objects : o \in deps[d] => o \in known /\ d \in known
  /\ \A o \in Objects : cnt[o] = Cardinality(Needs(o))

(* What holds between the lists, the counts of the copy and the position.   *)
PhaseInv ==
  /\ phase = "idle" => sorted = <<>> /\ idx = 0 /\ todo = {} /\ cycled = {}
  /\ phase = "collect" => idx = 0 /\ todo \subseteq known
  /\ phase = "visit" => IF idx = 0 THEN todo = {} ELSE todo \subseteq deps[sorted[idx]]
  /\ phase = "sorted" => /\ todo = {} /\ idx = Len(sorted)
                         /\ cycled = {o \in known : work[o] # 0}

Counts ==
  phase # "idle" =>
    \A o \in Objects : work[o] = Cardinality(IF phase = "collect" THEN Needs(o) ELSE Waiting(o))

Listed ==
  phase # "idle" =>
    \A o \in Objects : Out(o) <=> /\ o \in known /\ work[o] = 0
                                  /\ phase = "collect" => o \notin todo

Once == \A i, j \in 1 .. Len(sorted) : sorted[i] = sorted[j] => i = j

InOrder ==
  \A i \in 1 .. Len(sorted), d \in Objects :
    sorted[i] \in deps[d] => \E j \in 1 .. i - 1 : sorted[j] = d

SorterInv == SorterTypes /\ GraphInv /\ PhaseInv /\ Counts /\ Listed /\ Once /\ InOrder
-----------------------------------------------------------------------------
LEMMA SetsAreFinite ==
  \A o \in Objects : IsFiniteSet(Needs(o)) /\ IsFiniteSet(Waiting(o))
BY ObjectsAssumption, FS_Subset DEF Needs, Waiting

LEMMA RemoveOne ==
  ASSUME NEW S, IsFiniteSet(S), NEW x \in S
  PROVE  Cardinality(S \ {x}) = Cardinality(S) - 1
BY FS_RemoveElement

(* What Append does to the list of what is out.                             *)
LEMMA AppendOut ==
  ASSUME NEW s \in Seq(Objects), NEW o \in Objects
  PROVE  /\ Append(s, o) \in Seq(Objects) /\ Len(Append(s, o)) = Len(s) + 1
         /\ \A i \in 1 .. Len(s) : Append(s, o)[i] = s[i]
         /\ Append(s, o)[Len(s) + 1] = o
OBVIOUS

(* The initial state satisfies the invariant.                               *)
LEMMA SorterInvInit == SorterInit => SorterInv
<1> SUFFICES ASSUME SorterInit PROVE SorterInv
  OBVIOUS
<1>1. SorterTypes
  BY DEF SorterInit, SorterTypes
<1>2. \A o \in Objects : Needs(o) = {}
  BY DEF SorterInit, Needs
<1>3. GraphInv
  BY <1>2, FS_EmptySet DEF SorterInit, GraphInv
<1>4. PhaseInv /\ Counts /\ Listed /\ Once /\ InOrder
  BY DEF SorterInit, PhaseInv, Counts, Listed, Once, InOrder
<1> QED
  BY <1>1, <1>3, <1>4 DEF SorterInv

(* Types and the phases of sort().                                          *)
LEMMA TypeInductive == SorterInv /\ [SorterNext]_sorterVars => SorterTypes'
<1> SUFFICES ASSUME SorterInv, [SorterNext]_sorterVars PROVE SorterTypes'
  OBVIOUS
<1> USE DEF SorterInv, SorterTypes
<1>1. ASSUME NEW o \in Objects, Add(o) PROVE SorterTypes'
  BY <1>1 DEF Add
<1>2. ASSUME NEW o \in Objects, NEW d \in Objects, AddDependency(o, d) PROVE SorterTypes'
  BY <1>2 DEF AddDependency
<1>3. ASSUME ClearGraph PROVE SorterTypes'
  BY <1>3 DEF ClearGraph
<1>4. ASSUME Sort PROVE SorterTypes'
  BY <1>4 DEF Sort, graph
<1>5. ASSUME NEW o \in Objects, Collect(o) PROVE SorterTypes'
  BY <1>5, AppendOut DEF Collect, graph
<1>6. ASSUME AllCollected PROVE SorterTypes'
  BY <1>6 DEF AllCollected, graph
<1>7. ASSUME NEW o \in Objects, Visit(o) PROVE SorterTypes'
  BY <1>7, AppendOut DEF Visit, graph
<1>8. ASSUME Advance PROVE SorterTypes'
  <2>1. idx + 1 \in 1 .. Len(sorted) /\ sorted[idx + 1] \in Objects
    BY <1>8 DEF Advance
  <2> QED
    BY <1>8, <2>1 DEF Advance, graph
<1>9. ASSUME Finish PROVE SorterTypes'
  BY <1>9 DEF Finish, graph
<1>10. ASSUME Return PROVE SorterTypes'
  BY <1>10 DEF Return, graph
<1>11. ASSUME UNCHANGED sorterVars PROVE SorterTypes'
  BY <1>11 DEF sorterVars, graph
<1> QED
  BY <1>1, <1>2, <1>3, <1>4, <1>5, <1>6, <1>7, <1>8, <1>9, <1>10, <1>11 DEF SorterNext
-----------------------------------------------------------------------------
(* The counts follow the dependents, while they are added.                  *)
LEMMA GraphInductive == SorterInv /\ [SorterNext]_sorterVars => GraphInv'
<1> SUFFICES ASSUME SorterInv, [SorterNext]_sorterVars PROVE GraphInv'
  OBVIOUS
<1> USE DEF SorterInv, SorterTypes, GraphInv
<1>1. ASSUME UNCHANGED graph PROVE GraphInv'
  BY <1>1 DEF graph, Needs
<1>2. ASSUME NEW o \in Objects, Add(o) PROVE GraphInv'
  BY <1>2 DEF Add, Needs
<1>3. ASSUME ClearGraph PROVE GraphInv'
  <2>1. \A o \in Objects : Needs(o)' = {}
    BY <1>3 DEF ClearGraph, Needs
  <2> QED
    BY <1>3, <2>1, FS_EmptySet DEF ClearGraph
<1>4. ASSUME NEW o \in Objects, NEW d \in Objects, AddDependency(o, d) PROVE GraphInv'
  <2>1. \A p \in Objects : Needs(p)' = IF p = o THEN Needs(p) \cup {d} ELSE Needs(p)
    BY <1>4 DEF AddDependency, Needs
  <2>2. d \in Needs(o) <=> o \in deps[d]
    BY DEF Needs
  <2>3. IsFiniteSet(Needs(o))
    BY SetsAreFinite
  <2>4. Cardinality(Needs(o) \cup {d}) =
          IF o \in deps[d] THEN Cardinality(Needs(o)) ELSE Cardinality(Needs(o)) + 1
    BY <2>2, <2>3, FS_AddElement
  <2>5. \A p \in Objects : cnt'[p] = Cardinality(Needs(p)')
    BY <1>4, <2>1, <2>4 DEF AddDependency
  <2>6. \A p, q \in Objects : p \in deps'[q] => p \in known' /\ q \in known'
    BY <1>4 DEF AddDependency
  <2> QED
    BY <2>5, <2>6
<1> QED
  BY <1>1, <1>2, <1>3, <1>4 DEF SorterNext, Sort, Collect, AllCollected, Visit, Advance, Finish, Return, sorterVars

(* Outside of sort() there is nothing to keep but the graph.                *)
LEMMA IdleInductive ==
  ASSUME SorterInv, SorterTypes', GraphInv', phase' = "idle",
         sorted' = <<>>, idx' = 0, todo' = {}, cycled' = {}
  PROVE  SorterInv'
BY DEF SorterInv, PhaseInv, Counts, Listed, Once, InOrder

(* The position only moves forward, over dependents that are all counted.   *)
LEMMA WaitingSame ==
  ASSUME SorterInv, phase = "visit", todo = {}, deps' = deps, sorted' = sorted,
         idx < Len(sorted), idx' = idx + 1, todo' = deps[sorted[idx + 1]]
  PROVE  \A o \in Objects : Waiting(o)' = Waiting(o)
<1> USE DEF SorterInv, SorterTypes
<1>1. ASSUME NEW o \in Objects, NEW d \in Objects, o \in deps[d] PROVE Met(d, o)' <=> Met(d, o)
  <2>1. ASSUME Met(d, o) PROVE Met(d, o)'
    <3>1. PICK i \in 1 .. idx : sorted[i] = d
      BY <2>1 DEF Met
    <3>2. i \in 1 .. idx' /\ i < idx'
      BY <3>1
    <3> QED
      BY <3>1, <3>2 DEF Met
  <2>2. ASSUME Met(d, o)' PROVE Met(d, o)
    <3>1. PICK i \in 1 .. idx + 1 : sorted[i] = d /\ (i < idx + 1 \/ o \notin todo')
      BY <2>2 DEF Met
    <3>2. i # idx + 1
      BY <1>1, <3>1
    <3> QED
      BY <3>1, <3>2 DEF Met
  <2> QED
    BY <2>1, <2>2
<1> QED
  BY <1>1 DEF Waiting

(* An object joins the list when all it depends on is there before it.      *)
LEMMA AppendKeeps ==
  ASSUME SorterInv, NEW o \in Objects, ~Out(o), sorted' = Append(sorted, o), deps' = deps,
         \A d \in Objects : o \in deps[d] => Out(d)
  PROVE  Once' /\ InOrder' /\ \A p \in Objects : Out(p)' <=> Out(p) \/ p = o
<1> USE DEF SorterInv, SorterTypes
<1>1. /\ Len(sorted') = Len(sorted) + 1 /\ sorted'[Len(sorted) + 1] = o
      /\ \A i \in 1 .. Len(sorted) : sorted'[i] = sorted[i]
      /\ Len(sorted) \in Nat
  BY AppendOut
<1>2. \A i \in 1 .. Len(sorted) : sorted[i] # o
  BY DEF Out
<1>3. Once'
  BY <1>1, <1>2 DEF Once
<1>4. InOrder'
  <2>1. SUFFICES ASSUME NEW i \in 1 .. Len(sorted) + 1, NEW d \in Objects, sorted'[i] \in deps[d]
                 PROVE  \E j \in 1 .. i - 1 : sorted'[j] = d
    BY <1>1 DEF InOrder
  <2>2. CASE i = Len(sorted) + 1
    <3>1. PICK j \in 1 .. Len(sorted) : sorted[j] = d
      BY <1>1, <2>1, <2>2 DEF Out
    <3> QED
      BY <1>1, <2>2, <3>1
  <2>3. CASE i \in 1 .. Len(sorted)
    <3>1. PICK j \in 1 .. i - 1 : sorted[j] = d
      BY <1>1, <2>1, <2>3 DEF InOrder
    <3> QED
      BY <1>1, <2>3, <3>1
  <2>4. i = Len(sorted) + 1 \/ i \in 1 .. Len(sorted)
    BY <1>1
  <2> QED
    BY <2>2, <2>3, <2>4
<1>5. ASSUME NEW p \in Objects PROVE Out(p)' <=> Out(p) \/ p = o
  <2>1. Out(p) => Out(p)'
    BY <1>1 DEF Out
  <2>2. p = o => Out(p)'
    BY <1>1 DEF Out
  <2>3. Out(p)' => Out(p) \/ p = o
    BY <1>1 DEF Out
  <2> QED
    BY <2>1, <2>2, <2>3
<1> QED
  BY <1>3, <1>4, <1>5

(* sort() copies the counts and first takes what depends on nothing.        *)
LEMMA CollectInductive ==
  ASSUME SorterInv, SorterTypes', GraphInv', Sort \/ AllCollected \/ \E o \in Objects : Collect(o)
  PROVE  SorterInv'
<1> USE DEF SorterInv, SorterTypes
<1>1. CASE Sort
  <2>1. \A o \in Objects : Needs(o)' = Needs(o) /\ (o \notin known => Needs(o) = {})
    BY <1>1 DEF Sort, graph, Needs, GraphInv
  <2>2. Counts'
    BY <1>1, <2>1 DEF Sort, graph, Counts, GraphInv
  <2>3. PhaseInv' /\ Once' /\ InOrder' /\ Listed'
    BY <1>1 DEF Sort, graph, PhaseInv, Listed, Once, InOrder, Out
  <2> QED
    BY <2>2, <2>3
<1>2. CASE AllCollected
  <2>1. idx = 0 /\ todo = {}
    BY <1>2 DEF AllCollected, PhaseInv
  <2>2. \A o \in Objects : Waiting(o)' = Needs(o)
    BY <1>2, <2>1 DEF AllCollected, graph, Waiting, Needs, Met
  <2>3. Counts'
    BY <1>2, <2>2 DEF AllCollected, Counts
  <2>4. PhaseInv' /\ Once' /\ InOrder' /\ Listed'
    BY <1>2, <2>1 DEF AllCollected, graph, PhaseInv, Listed, Once, InOrder, Out
  <2> QED
    BY <2>3, <2>4
<1>3. ASSUME NEW o \in Objects, Collect(o) PROVE SorterInv'
  <2>1. \A p \in Objects : Needs(p)' = Needs(p)
    BY <1>3 DEF Collect, graph, Needs
  <2>2. Counts'
    BY <1>3, <2>1 DEF Collect, Counts
  <2>3. PhaseInv'
    BY <1>3 DEF Collect, graph, PhaseInv
  <2>4. o \in known /\ ~Out(o)
    BY <1>3 DEF Collect, PhaseInv, Listed
  <2>5. CASE work[o] = 0
    <3>1. Cardinality(Needs(o)) = 0
      BY <1>3, <2>5 DEF Collect, Counts
    <3>2. Needs(o) = {}
      BY <3>1, SetsAreFinite, FS_EmptySet
    <3>3. \A d \in Objects : o \in deps[d] => Out(d)
      BY <3>2 DEF Needs
    <3>4. Once' /\ InOrder' /\ \A p \in Objects : Out(p)' <=> Out(p) \/ p = o
      <4>1. sorted' = Append(sorted, o) /\ deps' = deps
        BY <1>3, <2>5 DEF Collect, graph
      <4> QED
        BY <2>4, <3>3, <4>1, AppendKeeps
    <3>5. Listed'
      BY <1>3, <2>4, <2>5, <3>4 DEF Collect, graph, Listed
    <3> QED
      BY <2>2, <2>3, <3>4, <3>5
  <2>6. CASE work[o] # 0
    <3>1. sorted' = sorted /\ deps' = deps /\ \A p \in Objects : Out(p)' <=> Out(p)
      BY <1>3, <2>6 DEF Collect, graph, Out
    <3>2. Once' /\ InOrder'
      BY <3>1 DEF Once, InOrder
    <3>3. Listed'
      BY <1>3, <2>6, <3>1 DEF Collect, graph, Listed
    <3> QED
      BY <2>2, <2>3, <3>2, <3>3
  <2> QED
    BY <2>5, <2>6
<1> QED
  BY <1>1, <1>2, <1>3

(* A visit takes one dependency off one count, and off what it waits for.   *)
LEMMA VisitWaiting ==
  ASSUME SorterInv, NEW o \in Objects, Visit(o)
  PROVE  /\ idx \in 1 .. Len(sorted)
         /\ sorted[idx] \in Waiting(o) /\ Waiting(o)' = Waiting(o) \ {sorted[idx]}
         /\ \A p \in Objects \ {o} : Waiting(p)' = Waiting(p)
<1> USE DEF SorterInv, SorterTypes
<1>1. idx \in 1 .. Len(sorted) /\ o \in deps[sorted[idx]]
  BY DEF Visit, PhaseInv
<1>2. /\ deps' = deps /\ idx' = idx /\ todo' = todo \ {o} /\ o \in todo
      /\ \A i \in 1 .. idx : sorted'[i] = sorted[i]
  BY <1>1, AppendOut DEF Visit, graph
<1>3. ASSUME Met(sorted[idx], o) PROVE FALSE
  <2>1. PICK i \in 1 .. idx : sorted[i] = sorted[idx] /\ (i < idx \/ o \notin todo)
    BY <1>3 DEF Met
  <2>2. i \in 1 .. Len(sorted) /\ i = idx
    BY <1>1, <2>1 DEF Once
  <2> QED
    BY <1>2, <2>1, <2>2
<1>4. sorted[idx] \in Waiting(o)
  BY <1>1, <1>3 DEF Waiting
<1>5. ASSUME NEW d \in Objects PROVE Met(d, o)' <=> Met(d, o) \/ d = sorted[idx]
  <2>1. Met(d, o)' <=> \E i \in 1 .. idx : sorted[i] = d
    BY <1>2 DEF Met
  <2>2. Met(d, o) <=> \E i \in 1 .. idx : sorted[i] = d /\ i < idx
    BY <1>2 DEF Met
  <2>3. (\E i \in 1 .. idx : sorted[i] = d)
          <=> (\E i \in 1 .. idx : sorted[i] = d /\ i < idx) \/ d = sorted[idx]
    BY <1>1
  <2> QED
    BY <2>1, <2>2, <2>3
<1>6. \A p \in Objects \ {o}, d \in Objects : Met(d, p)' <=> Met(d, p)
  BY <1>1, <1>2 DEF Met
<1> QED
  BY <1>1, <1>2, <1>4, <1>5, <1>6 DEF Waiting

LEMMA VisitInductive ==
  ASSUME SorterInv, SorterTypes', GraphInv', NEW o \in Objects, Visit(o)
  PROVE  SorterInv'
<1> USE DEF SorterInv, SorterTypes
<1>1. /\ phase = "visit" /\ phase' = "visit" /\ o \in todo /\ todo' = todo \ {o}
      /\ deps' = deps /\ known' = known /\ idx' = idx /\ cycled' = cycled
      /\ work' = [work EXCEPT ![o] = work[o] - 1]
  BY DEF Visit, graph
<1>2. o \in known
  BY <1>1, VisitWaiting DEF Waiting, GraphInv
<1>3. work[o] = Cardinality(Waiting(o)) /\ Cardinality(Waiting(o)') = work[o] - 1 /\ work[o] > 0
  <2>1. /\ IsFiniteSet(Waiting(o)) /\ sorted[idx] \in Waiting(o)
        /\ Waiting(o)' = Waiting(o) \ {sorted[idx]}
    BY SetsAreFinite, VisitWaiting
  <2>2. Cardinality(Waiting(o) \ {sorted[idx]}) = Cardinality(Waiting(o)) - 1
    BY <2>1, RemoveOne
  <2>3. work[o] = Cardinality(Waiting(o))
    BY <1>1 DEF Counts
  <2>4. Cardinality(Waiting(o)) # 0 /\ Cardinality(Waiting(o)) \in Nat
    BY <2>1, FS_EmptySet, FS_CardinalityType
  <2> QED
    BY <2>1, <2>2, <2>3, <2>4
<1>4. Counts'
  BY <1>1, <1>3, VisitWaiting DEF Counts
<1>5. PhaseInv'
  <2>1. idx \in 1 .. Len(sorted) /\ sorted'[idx] = sorted[idx]
    <3>1. idx \in 1 .. Len(sorted)
      BY VisitWaiting
    <3>2. sorted' = sorted \/ sorted' = Append(sorted, o)
      BY DEF Visit
    <3>3. CASE sorted' = Append(sorted, o)
      BY <3>1, <3>3, AppendOut
    <3> QED
      BY <3>1, <3>2, <3>3
  <2> QED
    BY <1>1, <2>1 DEF PhaseInv
<1>6. ~Out(o)
  BY <1>1, <1>3 DEF Listed
<1>7. CASE work[o] = 1
  <2>1. sorted' = Append(sorted, o)
    BY <1>1, <1>7 DEF Visit
  <2>2. \A d \in Objects : o \in deps[d] => Out(d)
    <3>1. Waiting(o)' = Waiting(o) \ {sorted[idx]} /\ idx \in 1 .. Len(sorted)
      BY VisitWaiting
    <3>2. IsFiniteSet(Waiting(o)') /\ Cardinality(Waiting(o)') = 0
      BY <1>3, <1>7, <3>1, SetsAreFinite, FS_Subset
    <3>3. Waiting(o) \subseteq {sorted[idx]}
      BY <3>1, <3>2, FS_EmptySet
    <3>4. ASSUME NEW d \in Objects, o \in deps[d] PROVE Out(d)
      <4>1. Met(d, o) \/ d = sorted[idx]
        BY <3>3, <3>4 DEF Waiting
      <4>2. Met(d, o) => \E i \in 1 .. idx : sorted[i] = d
        BY DEF Met
      <4>3. idx \in 1 .. Len(sorted) /\ 1 .. idx \subseteq 1 .. Len(sorted)
        BY <3>1
      <4>4. \E i \in 1 .. Len(sorted) : sorted[i] = d
        BY <4>1, <4>2, <4>3
      <4> QED
        BY <4>4 DEF Out
    <3> QED
      BY <3>4
  <2>3. Once' /\ InOrder' /\ \A p \in Objects : Out(p)' <=> Out(p) \/ p = o
    BY <1>1, <1>6, <2>1, <2>2, AppendKeeps
  <2>4. Listed'
    BY <1>1, <1>2, <1>7, <2>3 DEF Listed
  <2> QED
    BY <1>4, <1>5, <2>3, <2>4
<1>8. CASE work[o] # 1
  <2>1. sorted' = sorted /\ \A p \in Objects : Out(p)' <=> Out(p)
    BY <1>1, <1>8 DEF Visit, Out
  <2>2. Once' /\ InOrder'
    BY <1>1, <2>1 DEF Once, InOrder
  <2>3. Listed'
    BY <1>1, <1>3, <1>8, <2>1 DEF Listed
  <2> QED
    BY <1>4, <1>5, <2>2, <2>3
<1> QED
  BY <1>7, <1>8

LEMMA MoveInductive ==
  ASSUME SorterInv, SorterTypes', GraphInv', Advance \/ Finish
  PROVE  SorterInv'
<1> USE DEF SorterInv, SorterTypes
<1>1. sorted' = sorted /\ deps' = deps /\ known' = known /\ work' = work
  BY DEF Advance, Finish, graph
<1>2. Once' /\ InOrder' /\ Listed'
  BY <1>1 DEF Once, InOrder, Listed, Out, Advance, Finish
<1>3. CASE Advance
  <2>1. \A o \in Objects : Waiting(o)' = Waiting(o)
    BY <1>1, <1>3, WaitingSame DEF Advance
  <2>2. Counts' /\ PhaseInv'
    BY <1>1, <1>3, <2>1 DEF Advance, Counts, PhaseInv
  <2> QED
    BY <1>2, <2>2
<1>4. CASE Finish
  <2>1. \A o \in Objects : Waiting(o)' = Waiting(o)
    BY <1>1, <1>4 DEF Finish, Waiting, Met
  <2>2. Counts' /\ PhaseInv'
    BY <1>1, <1>4, <2>1 DEF Finish, Counts, PhaseInv
  <2> QED
    BY <1>2, <2>2
<1> QED
  BY <1>3, <1>4
-----------------------------------------------------------------------------
(* The invariant is inductive.                                              *)
LEMMA SorterInvNext == SorterInv /\ [SorterNext]_sorterVars => SorterInv'
<1> SUFFICES ASSUME SorterInv, [SorterNext]_sorterVars PROVE SorterInv'
  OBVIOUS
<1>1. SorterTypes' /\ GraphInv'
  BY TypeInductive, GraphInductive
<1>2. CASE (\E o \in Objects : Add(o)) \/ (\E o, d \in Objects : AddDependency(o, d)) \/ ClearGraph
  BY <1>1, <1>2, IdleInductive DEF SorterInv, PhaseInv, Add, AddDependency, ClearGraph
<1>3. CASE Return
  BY <1>1, <1>3, IdleInductive DEF SorterInv, PhaseInv, Return
<1>4. CASE Sort \/ AllCollected \/ \E o \in Objects : Collect(o)
  BY <1>1, <1>4, CollectInductive
<1>5. CASE \E o \in Objects : Visit(o)
  BY <1>1, <1>5, VisitInductive
<1>6. CASE Advance \/ Finish
  BY <1>1, <1>6, MoveInductive
<1>7. CASE UNCHANGED sorterVars
  <2>1. \A o \in Objects : Needs(o)' = Needs(o) /\ Waiting(o)' = Waiting(o) /\ (Out(o)' <=> Out(o))
    BY <1>7 DEF sorterVars, graph, Needs, Waiting, Met, Out
  <2> QED
    BY <1>1, <1>7, <2>1
    DEF sorterVars, graph, SorterInv, PhaseInv, Counts, Listed, Once, InOrder
<1> QED
  BY <1>2, <1>3, <1>4, <1>5, <1>6, <1>7 DEF SorterNext

(* An object is left over only when it waits for another that is.           *)
LEMMA InvImpliesTopological == SorterInv => SortIsTopological
<1> SUFFICES ASSUME SorterInv, phase = "sorted" PROVE SortIsTopological
  BY DEF SortIsTopological
<1> USE DEF SorterInv, SorterTypes
<1>1. todo = {} /\ idx = Len(sorted) /\ cycled = {o \in known : work[o] # 0}
  BY DEF PhaseInv
<1>2. \A o \in Objects : Out(o) <=> o \in known /\ work[o] = 0
  BY DEF Listed
<1>3. Range(sorted) = {o \in Objects : Out(o)}
  BY DEF Range, Out
<1>4. Range(sorted) \cup cycled = known /\ Range(sorted) \cap cycled = {}
  BY <1>1, <1>2, <1>3
<1>5. ASSUME NEW o \in cycled PROVE \E d \in cycled : o \in deps[d]
  <2>1. o \in Objects /\ work[o] = Cardinality(Waiting(o)) /\ work[o] # 0
    BY <1>1, <1>5 DEF Counts
  <2>2. Waiting(o) # {}
    BY <2>1, FS_EmptySet
  <2>3. PICK d \in Objects : o \in deps[d] /\ ~Met(d, o)
    BY <2>2 DEF Waiting
  <2>4. ~Out(d)
    BY <1>1, <2>3 DEF Met, Out
  <2>5. d \in cycled
    BY <1>1, <1>2, <2>1, <2>3, <2>4 DEF GraphInv
  <2> QED
    BY <2>3, <2>5
<1> QED
  BY <1>4, <1>5 DEF SortIsTopological, Once, InOrder

LEMMA SorterInvHolds == SorterSpec => []SorterInv
<1> QED
  BY SorterInvInit, SorterInvNext, PTL DEF SorterSpec

(* Types, in every reachable state: the counts never go below zero is part  *)
(* of the invariant, since they are sizes of sets.                          *)
THEOREM SorterTypeOK == SorterSpec => []SorterTypes
<1>1. SorterInv => SorterTypes
  BY DEF SorterInv
<1> QED
  BY SorterInvHolds, <1>1, PTL

(* sort() returns a topological order of what has one, and only objects     *)
(* that hang on a cycle are left over.                                      *)
THEOREM SortIsCorrect == SorterSpec => []SortIsTopological
<1> QED
  BY SorterInvHolds, InvImpliesTopological, PTL
=============================================================================
