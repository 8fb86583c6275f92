-------------------------------- MODULE Query --------------------------------
(***************************************************************************)
(* A query of either library, from from() to the end of its enumeration:   *)
(* stages are chained to the source, and then the elements are pulled one  *)
(* by one, each as late as possible.                                       *)
(***************************************************************************)
EXTENDS Relinx, CoRelinx

CONSTANTS Sources,    \* the sequences given to from()
          Stages,
          Closing,    \* bound: the stages that may be the last of a longest chain
          MaxStages,  \* bound: the length of the chain
          MaxYielded  \* bound: how many elements are pulled

ASSUME QueryAssumption == MaxStages \in Nat \ {0} /\ MaxYielded \in Nat

VARIABLES lib,       \* "relinx" or "co_relinx"
          source, chain,
          cursor,    \* the iterator, or the generator
          phase,
          yielded

vars == <<lib, source, chain, cursor, phase, yielded>>

Init ==
  /\ lib \in {"relinx", "co_relinx"} /\ source \in Sources
  /\ chain = <<>> /\ phase = "chain" /\ yielded = <<>>
  /\ cursor = IF lib = "relinx" THEN Begin(source) ELSE Gen(source)

(* What has no member function in a library, or one that cannot be used:    *)
(* skip_while_i() of co_relinx calls a constructor that does not exist.     *)
Missing == [relinx |-> {"mix", "select_inner", "select_inner_i"},
            co_relinx |-> {"skip_while_i", "order_by", "select_many", "select_many_i"}]

(* A stage whose elements are containers.  Of the stages only co_relinx's   *)
(* select_many() takes such elements, and it takes no others.               *)
Nests(stage) == stage.op = "select" /\ stage.f.fn = "copies"

Flattens(stage) == stage.op \in {"select_inner", "select_inner_i"}

Fits(stage) ==
  /\ Nests(stage) => lib = "co_relinx"
  /\ Flattens(stage) <=> (chain # <<>> /\ Nests(Last(chain)))

Endless(stage) == stage.op = "cycle" /\ stage.n < 0

Expected ==
  LET meanings[k \in 0..Len(chain)] ==
        IF k = 0 THEN source ELSE Meaning(chain[k], meanings[k - 1])
  IN  meanings[Len(chain)]

(* The queries for which relinx is known to say something else:             *)
(* where_i() starts to count anew with every element it lets pass;          *)
(* select_i() counts how often it is read, and most stages read an element  *)
(* twice, or not at all;                                                    *)
(* an iterator of select_many() that is copied and moved by std::find_if()  *)
(* points into a container that is gone.                                    *)
ReadsOnce == {"select", "select_i", "select_many", "select_many_i", "tee", "zip",
              "concat", "default_if_empty", "cycle", "reverse", "order_by"}

Searches == {"where", "except", "intersect_with"}

Many == {"select_many", "select_many_i"}

(* Stage k reads such a stage, and not a container made of its elements.    *)
Collects == {"reverse", "order_by"}

After(k, ops) ==
  \E j \in 1..(k - 1) :
    chain[j].op \in ops /\ \A m \in (j + 1)..(k - 1) : chain[m].op \notin Collects

RelinxDeviates ==
  \E k \in 1..Len(chain) :
    \/ chain[k].op = "where_i"
    \/ After(k, {"select_i"}) /\ chain[k].op \notin ReadsOnce
    \/ After(k, Many) /\ chain[k].op \in Searches

(* And for co_relinx: distinct() and union_with() look for the key of an    *)
(* element among elements; join() takes the first match only.               *)
CoRelinxDeviates ==
  \E k \in 1..Len(chain) :
    \/ chain[k].op \in {"distinct", "union_with"} /\ chain[k].f.fn # "self"
    \/ chain[k].op = "join" /\ ~IsInjective(Mapped(chain[k].c, chain[k].f))

Deviates == IF lib = "relinx" THEN RelinxDeviates ELSE CoRelinxDeviates

(* A cycle without end must be limited next, as its comment demands, and    *)
(* cycling nothing without end is asked of nobody.  A chain that deviates   *)
(* is enumerated as it is: what more a stage would make of it may not end,  *)
(* as distinct() does not when every reading of select_i() is another one.  *)
Chain(stage) ==
  /\ phase = "chain" /\ Len(chain) < MaxStages /\ ~Deviates
  /\ Len(chain) + 1 = MaxStages => stage \in Closing
  /\ stage.op \notin Missing[lib] /\ Fits(stage)
  /\ chain # <<>> => (Endless(Last(chain)) => stage.op = "take")
  /\ Endless(stage) => Expected # <<>> /\ Len(chain) + 1 < MaxStages
  /\ chain' = Append(chain, stage)
  /\ cursor' = IF lib = "relinx" THEN Apply(stage, cursor) ELSE CoApply(stage, cursor)
  /\ UNCHANGED <<lib, source, phase, yielded>>

Enumerate ==
  /\ phase = "chain" /\ chain # <<>> /\ ~Endless(Last(chain)) /\ ~Nests(Last(chain))
  /\ phase' = "pull"
  /\ UNCHANGED <<lib, source, chain, cursor, yielded>>

(* One round of a loop over the query: compare with the end, read, advance. *)
Pull ==
  /\ phase = "pull" /\ lib = "relinx" /\ Len(yielded) < MaxYielded
  /\ IF AtEnd(cursor) THEN phase' = "over" /\ UNCHANGED <<cursor, yielded>>
     ELSE LET d == Deref(cursor)
          IN  /\ yielded' = Append(yielded, d.v) /\ cursor' = Inc(d.it)
              /\ UNCHANGED phase
  /\ UNCHANGED <<lib, source, chain>>

CoPull ==
  /\ phase = "pull" /\ lib = "co_relinx" /\ Len(yielded) < MaxYielded
  /\ LET m == MoveNext(cursor)
     IN  IF m.more
         THEN yielded' = Append(yielded, m.v) /\ cursor' = m.g /\ UNCHANGED phase
         ELSE phase' = "over" /\ UNCHANGED <<cursor, yielded>>
  /\ UNCHANGED <<lib, source, chain>>

Next == (\E stage \in Stages : Chain(stage)) \/ Enumerate \/ Pull \/ CoPull

Spec == Init /\ [][Next]_vars
-----------------------------------------------------------------------------
(* Lazy evaluation is the same as eager evaluation: element by element the *)
(* query yields what its stages mean, and it ends where they say.           *)
YieldsExpected ==
  (phase # "chain" /\ ~Deviates) =>
    /\ IsPrefix(yielded, Expected)
    /\ phase = "over" => yielded = Expected

(* A function that ends a query of relinx may read an element twice, or     *)
(* keep a copy of an iterator, unless a container has been made of it.      *)
ReadThrough == After(Len(chain) + 1, Many \cup {"select_i"})

(* The functions that end a query agree with the sequence it stands for:    *)
(* value and exception.                                                     *)
EndingsAgree ==
  (phase = "pull" /\ yielded = <<>> /\ ~Deviates /\ ~(lib = "relinx" /\ ReadThrough)) =>
    LET s == Expected
        odd == F("odd")
    IN  /\ lib = "relinx" =>
             /\ FirstIf(cursor, odd) = TheFirst(s, odd) /\ LastIf(cursor, odd) = TheLast(s, odd)
             /\ SingleIf(cursor, odd) = TheSingle(s, odd)
             /\ ElementAt(cursor, 1) = TheElementAt(s, 1)
             /\ Count(cursor) = Len(s)
             /\ Aggregate(cursor) = TheAggregate(s) /\ MaxOf(cursor) = TheMax(s)
             /\ ToMap(cursor) = TheMap(s)
        /\ lib = "co_relinx" =>
             /\ CoFirstIf(cursor, odd) = TheFirst(s, odd)
             /\ CoSingleIf(cursor, odd) = TheSingle(s, odd)
             /\ CoAggregate(cursor) = TheAggregate(s) /\ CoMax(cursor) = TheMax(s)
             /\ CoToMap(cursor) = TheMap(s)
=============================================================================
