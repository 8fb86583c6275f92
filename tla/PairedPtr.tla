------------------------------ MODULE PairedPtr ------------------------------
(***************************************************************************)
(* paired_ptr of signal_slot.hpp: two objects that point at each other, so *)
(* that whichever is moved, disconnected or destroyed keeps the other      *)
(* informed.  A slot owns one end of such a pair and the connection object *)
(* handed to the application owns the other; every container operation on  *)
(* slots (vector growth, remove_if, insertion into the multiset, erasure)  *)
(* is made of the operations below.                                        *)
(*                                                                         *)
(* An object is its address, a member of Loc.  A store through a pointer   *)
(* that is left over goes to that address, whatever lives there now.       *)
(***************************************************************************)
EXTENDS FiniteSets

CONSTANTS Loc,    \* the addresses at which a paired_ptr can live
          NULL    \* nullptr

ASSUME NullAssumption == NULL \notin Loc

VARIABLES live,   \* the addresses that hold a constructed object
          ptr     \* _connected_paired_ptr of each address

pairVars == <<live, ptr>>

(* The assignment  *a = v  where a may be null and then nothing is written. *)
Store(p, a, v) == IF a = NULL THEN p ELSE [p EXCEPT ![a] = v]

(* The objects whose pointer is not null. *)
Linked == {a \in live : ptr[a] # NULL}

PairInit == /\ live = {}
            /\ ptr = [a \in Loc |-> NULL]

Construct(a) ==
    /\ a \notin live
    /\ live' = live \cup {a}
    /\ ptr' = [ptr EXCEPT ![a] = NULL]

(* a is made to point at b, and b at a; whom b pointed at is not told.      *)
LinkedTo(p, a, b) == [Store(p, b, a) EXCEPT ![a] = b]

(* paired_ptr(ptr), where ptr may be null. *)
ConstructLinked(a, b) ==
    /\ a \notin live /\ b \in live \cup {NULL}
    /\ live' = live \cup {a}
    /\ ptr' = LinkedTo(ptr, a, b)

(* paired_ptr(paired_ptr &&other) *)
MoveConstruct(a, other) ==
    /\ a \notin live /\ other \in live
    /\ live' = live \cup {a}
    /\ ptr' = [LinkedTo(ptr, a, ptr[other]) EXCEPT ![other] = NULL]

SwappedBug(p, a, other) ==   \* the old partner is dropped, not handed to other
    LET s == Store(Store(p, p[a], NULL), p[other], a)
    IN  [s EXCEPT ![a] = s[other], ![other] = NULL]

(* The pointers after  a = std::move(other): the partners are swapped first, *)
(* then the two ends.  q is the partner of a, r that of other.               *)
Swapped(p, a, other) ==
    LET q == p[a]
        r == p[other]
        s == CASE q # NULL /\ r # NULL -> [p EXCEPT ![q] = p[r], ![r] = p[q]]
               [] q # NULL /\ r = NULL -> [p EXCEPT ![q] = other]
               [] q = NULL             -> Store(p, r, a)
    IN  [s EXCEPT ![a] = s[other], ![other] = s[a]]

(* a forgets its old partner, as a unique_ptr would. *)
MoveAssign(a, other) ==
    /\ a \in live /\ other \in live
    /\ ptr' = Swapped(ptr, a, other)
    /\ UNCHANGED live

UnlinkedBug(p, a) == [p EXCEPT ![a] = NULL]   \* the partner is not told

Unlinked(p, a) == IF p[a] = NULL THEN p ELSE [p EXCEPT ![p[a]] = NULL, ![a] = NULL]

(* a = ptr: a temporary is linked to b, a is move-assigned from it, and the  *)
(* temporary dies holding what a was linked to before.  Nothing asks whether *)
(* b is free, or is a itself.                                                *)
AssignPointer(a, b) ==
    /\ a \in live /\ b \in live \cup {NULL}
    /\ \E tmp \in Loc \ live :
          ptr' = Unlinked(Swapped(LinkedTo(ptr, tmp, b), a, tmp), tmp)
    /\ UNCHANGED live

Disconnect(a) ==
    /\ a \in live
    /\ ptr' = Unlinked(ptr, a)
    /\ UNCHANGED live

DestructBug(a) ==    \* a default destructor
    /\ a \in live
    /\ live' = live \ {a}
    /\ UNCHANGED ptr

Destruct(a) ==
    /\ a \in live
    /\ live' = live \ {a}
    /\ ptr' = Unlinked(ptr, a)

PairNext == \E a \in Loc :
          \/ Construct(a)
          \/ Disconnect(a)
          \/ Destruct(a)
          \/ \E b \in Loc \cup {NULL} : ConstructLinked(a, b) \/ AssignPointer(a, b)
          \/ \E b \in Loc : MoveConstruct(a, b) \/ MoveAssign(a, b)

PairSpec == PairInit /\ [][PairNext]_pairVars

(* What the class leaves to its users: a pointer given to link with is null, *)
(* or that of another object which is linked to nobody.  The constructor of  *)
(* connection, the only caller in the library, passes the end of a slot that *)
(* was created a line before.                                                *)
LinksFree ==
    \A a \in Loc, b \in live :
        ConstructLinked(a, b) \/ AssignPointer(a, b) => ptr[b] = NULL /\ a # b

CarefulSpec == PairInit /\ [][PairNext /\ LinksFree]_pairVars
-----------------------------------------------------------------------------
(* Pointers are addresses or null, and memory that holds no object holds no *)
(* pointer either (paired_ptr's destructor disconnects).                    *)
PairTypeOK == /\ live \subseteq Loc
              /\ ptr \in [Loc -> Loc \cup {NULL}]
              /\ \A a \in Loc \ live : ptr[a] = NULL

(* The two ends always agree, wherever the containers have moved them: who  *)
(* an object points at is alive and points back at it.  No pair dangles,    *)
(* as long as users link only what is free.                                 *)
Symmetric == \A a \in Linked : ptr[a] \in live /\ ptr[ptr[a]] = a

(* A move, of either kind, neither makes nor breaks a link: a container     *)
(* that relocates a slot leaves its connection connected.                   *)
MovesKeepLinks ==
    [][ (\E a, b \in Loc : MoveConstruct(a, b) \/ MoveAssign(a, b))
           => Cardinality(Linked') = Cardinality(Linked) ]_pairVars

(* "When one object is disconnected or destroyed, the other is automatically *)
(* notified": what a linked object points at has not been destroyed.  True   *)
(* of careful users only; an object that is linked again forgets its former  *)
(* partner without telling it.                                               *)
PartnerIsAlive == \A a \in Linked : ptr[a] \in live
=============================================================================
