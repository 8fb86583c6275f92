-------------------------- MODULE TopologicalSorter --------------------------
(***************************************************************************)
(* topological_sorter: objects are added with what they depend on, and     *)
(* sort() puts each after its dependencies.  The containers are unordered: *)
(* the order in which sort() meets objects, and the dependents of one, is  *)
(* any order.                                                              *)
(***************************************************************************)
EXTENDS Integers, Sequences, FiniteSets, Functions

CONSTANT Objects

ASSUME ObjectsAssumption == IsFiniteSet(Objects)

VARIABLES known,   \* the keys of _map
          deps,    \* relations::dependents of each
          cnt,     \* relations::dependency_count of each
          phase,   \* where sort() stands
          work,    \* the counts of its copy of the map
          sorted,  \* what it has put out
          idx,     \* the object of sorted whose dependents are visited
          todo,    \* the objects, or dependents, the loop has not met yet
          cycled   \* what it could not put out

graph == <<known, deps, cnt>>
sorterVars == <<graph, phase, work, sorted, idx, todo, cycled>>

SorterInit ==
  /\ known = {} /\ deps = [o \in Objects |-> {}] /\ cnt = [o \in Objects |-> 0]
  /\ phase = "idle" /\ work = cnt /\ sorted = <<>> /\ idx = 0 /\ todo = {} /\ cycled = {}
-----------------------------------------------------------------------------
(* add(object)                                                              *)
Add(o) ==
  /\ phase = "idle"
  /\ known' = known \cup {o}
  /\ UNCHANGED <<deps, cnt, phase, work, sorted, idx, todo, cycled>>

AddDependencyBug(o, d) ==   \* a dependency named twice counts twice
  /\ phase = "idle" /\ d # o
  /\ known' = known \cup {o, d}
  /\ deps' = [deps EXCEPT ![d] = @ \cup {o}]
  /\ cnt' = [cnt EXCEPT ![o] = @ + 1]
  /\ UNCHANGED <<phase, work, sorted, idx, todo, cycled>>

(* add(object, dependency): an object does not depend on itself, and on     *)
(* another only once.  The other overloads repeat this.                     *)
AddDependency(o, d) ==
  /\ phase = "idle" /\ d # o
  /\ known' = known \cup (IF o \in deps[d] THEN {d} ELSE {o, d})
  /\ deps' = [deps EXCEPT ![d] = @ \cup {o}]
  /\ cnt' = [cnt EXCEPT ![o] = IF o \in deps[d] THEN @ ELSE @ + 1]
  /\ UNCHANGED <<phase, work, sorted, idx, todo, cycled>>

ClearGraph ==
  /\ phase = "idle"
  /\ known' = {} /\ deps' = [o \in Objects |-> {}] /\ cnt' = [o \in Objects |-> 0]
  /\ UNCHANGED <<phase, work, sorted, idx, todo, cycled>>
-----------------------------------------------------------------------------
(* sort() works on a copy of the map,                                       *)
Sort ==
  /\ phase = "idle" /\ phase' = "collect"
  /\ work' = cnt /\ todo' = known
  /\ UNCHANGED <<graph, sorted, idx, cycled>>

(* takes the objects without dependencies,                                  *)
Collect(o) ==
  /\ phase = "collect" /\ o \in todo
  /\ todo' = todo \ {o}
  /\ sorted' = IF work[o] = 0 THEN Append(sorted, o) ELSE sorted
  /\ UNCHANGED <<graph, phase, work, idx, cycled>>

AllCollected ==
  /\ phase = "collect" /\ todo = {}
  /\ phase' = "visit"
  /\ UNCHANGED <<graph, work, sorted, idx, todo, cycled>>

(* then, of each object it has put out, the dependents that have no other   *)
(* dependency left,                                                         *)
Visit(o) ==
  /\ phase = "visit" /\ o \in todo
  /\ todo' = todo \ {o}
  /\ work' = [work EXCEPT ![o] = @ - 1]
  /\ sorted' = IF work'[o] = 0 THEN Append(sorted, o) ELSE sorted
  /\ UNCHANGED <<graph, phase, idx, cycled>>

Advance ==
  /\ phase = "visit" /\ todo = {} /\ idx < Len(sorted)
  /\ idx' = idx + 1 /\ todo' = deps[sorted[idx + 1]]
  /\ UNCHANGED <<graph, phase, work, sorted, cycled>>

(* and names the rest.                                                      *)
Finish ==
  /\ phase = "visit" /\ todo = {} /\ idx = Len(sorted)
  /\ phase' = "sorted"
  /\ cycled' = {o \in known : work[o] # 0}
  /\ UNCHANGED <<graph, work, sorted, idx, todo>>

Return ==
  /\ phase = "sorted" /\ phase' = "idle"
  /\ work' = [o \in Objects |-> 0] /\ sorted' = <<>> /\ idx' = 0 /\ cycled' = {}
  /\ UNCHANGED <<graph, todo>>

SorterNext ==
  \/ \E o \in Objects : Add(o) \/ Collect(o) \/ Visit(o)
  \/ \E o, d \in Objects : AddDependency(o, d)
  \/ ClearGraph \/ Sort \/ AllCollected \/ Advance \/ Finish \/ Return

SorterSpec == SorterInit /\ [][SorterNext]_sorterVars
-----------------------------------------------------------------------------
SorterTypes ==
  /\ known \subseteq Objects
  /\ deps \in [Objects -> SUBSET Objects]
  /\ cnt \in [Objects -> Nat] /\ work \in [Objects -> Int]
  /\ phase \in {"idle", "collect", "visit", "sorted"}
  /\ sorted \in Seq(Objects)
  /\ idx \in 0 .. Len(sorted)
  /\ todo \subseteq Objects /\ cycled \subseteq Objects

(* What sort() returns: every object once, in one list or the other; in the *)
(* sorted list after everything it depends on; and in the other only with   *)
(* something it depends on, which makes every chain of them run into a      *)
(* cycle.                                                                   *)
SortIsTopological ==
  phase = "sorted" =>
    /\ Range(sorted) \cup cycled = known /\ Range(sorted) \cap cycled = {}
    /\ \A i, j \in 1 .. Len(sorted) : sorted[i] = sorted[j] => i = j
    /\ \A i \in 1 .. Len(sorted), d \in Objects :
         sorted[i] \in deps[d] => \E j \in 1 .. i - 1 : sorted[j] = d
    /\ \A o \in cycled : \E d \in cycled : o \in deps[d]
=============================================================================
