------------------------------ MODULE Pipelines ------------------------------
(***************************************************************************)
(* What a query of relinx.hpp and co_relinx.hpp is to yield, whichever of  *)
(* the two libraries evaluates it: a query is a source and a sequence of   *)
(* stages, and each stage has a meaning on whole sequences, taken from the *)
(* comment above the member function of its name.  Nothing here says how   *)
(* a stage is evaluated; modules Relinx and CoRelinx do.                   *)
(*                                                                         *)
(* Values are numbers.  A functor is a record: its name, the index that    *)
(* the variants with _i keep in it, and a number and a set it refers to.   *)
(***************************************************************************)
EXTENDS Integers, Sequences, FiniteSets, SequencesExt

Junk == -1      \* what is read past an end

F(name) == [fn |-> name, i |-> 0, n |-> 0, s |-> {}]

(* The results of a functor; a pair of values is one number.               *)
Pair(a, b) == 10 * a + b

Result(f, v, i) ==
  CASE f.fn = "odd"     -> v % 2 = 1
    [] f.fn = "small"   -> v < 2
    [] f.fn = "even_i"  -> (v + i) % 2 = 0          \* of a value and its index
    [] f.fn = "early_i" -> i < 2 /\ v # 2
    [] f.fn = "inc"     -> v + 1
    [] f.fn = "at_i"    -> Pair(v, i)
    [] f.fn = "self"    -> v
    [] f.fn = "parity"  -> v % 2
    [] f.fn = "copies"  -> [k \in 1..(v % 3) |-> v]  \* a container, may be empty
    [] f.fn = "copies_i" -> [k \in 1..((v + i) % 3) |-> v]
    [] f.fn = "first_n" -> i < f.n
    [] f.fn = "absent"  -> v \notin f.s
    [] f.fn = "present" -> v \in f.s

Key(stage, v) == Result(stage.f, v, 0)

(* A stage: its name, a functor, a number, a second sequence, and whether  *)
(* a join is a left join.                                                  *)
Stage(op, f, n, c, left) == [op |-> op, f |-> F(f), n |-> n, c |-> c, left |-> left]
-----------------------------------------------------------------------------
Mapped(s, f) == [k \in 1..Len(s) |-> Result(f, s[k], k - 1)]

(* The elements at the positions a test accepts.                            *)
Kept(s, Test(_)) ==
  LET at == SelectSeq([k \in 1..Len(s) |-> k], Test)
  IN  [k \in 1..Len(at) |-> s[at[k]]]

Accepted(s, f) == Kept(s, LAMBDA k : Result(f, s[k], k - 1))

(* How many elements at the front a functor accepts.                        *)
Front_(s, f) ==
  LET failing == {k \in 1..Len(s) : ~Result(f, s[k], k - 1)}
  IN  IF failing = {} THEN Len(s) ELSE (CHOOSE k \in failing : \A j \in failing : k <= j) - 1

FirstsBy(s, stage) ==
  Kept(s, LAMBDA k : \A j \in 1..(k - 1) : Key(stage, s[j]) # Key(stage, s[k]))

Firsts(s) == Kept(s, LAMBDA k : \A j \in 1..(k - 1) : s[j] # s[k])

Times(s, n) == FlattenSeq([k \in 1..n |-> s])

Partners(stage, v) == SelectSeq(stage.c, LAMBDA w : Key(stage, v) = Key(stage, w))

(* Every pair with equal keys, in order; a left join gives an element      *)
(* without a partner the value of an empty initialiser.                    *)
Joined(s, stage) ==
  FlattenSeq([k \in 1..Len(s) |->
    LET p == Partners(stage, s[k])
    IN  IF p = <<>> /\ stage.left THEN <<Pair(s[k], 0)>>
        ELSE [j \in 1..Len(p) |-> Pair(s[k], p[j])]])

GroupJoined(s, stage) ==
  LET kept == IF stage.left THEN s ELSE SelectSeq(s, LAMBDA v : Partners(stage, v) # <<>>)
  IN  [k \in 1..Len(kept) |-> Pair(kept[k], Len(Partners(stage, kept[k])))]

Smaller(m, n) == IF m < n THEN m ELSE n

Mixed(s, t) ==
  LET both == Smaller(Len(s), Len(t))
  IN  FlattenSeq([k \in 1..both |-> <<s[k], t[k]>>])
      \o SubSeq(s, both + 1, Len(s)) \o SubSeq(t, both + 1, Len(t))

(* A cycle without end is looked at for this many rounds.                   *)
Rounds == 4
-----------------------------------------------------------------------------
(* The two libraries give the name select_many to different stages: in      *)
(* relinx the functor makes a container of each element; in co_relinx the   *)
(* elements are containers and the functor is called with what is in them.  *)
(* The latter is called select_inner here; no comment says what it means,   *)
(* so that its meaning is the one of its loops.                             *)
Meaning(stage, s) ==
  LET op == stage.op
  IN  CASE op \in {"where", "where_i"}             -> Accepted(s, stage.f)
        [] op \in {"select", "select_i"}           -> Mapped(s, stage.f)
        [] op \in {"select_many", "select_many_i"} -> FlattenSeq(Mapped(s, stage.f))
        [] op \in {"select_inner", "select_inner_i"} -> Mapped(FlattenSeq(s), stage.f)
        [] op = "skip"                             -> SubSeq(s, stage.n + 1, Len(s))
        [] op \in {"skip_while", "skip_while_i"}   -> SubSeq(s, Front_(s, stage.f) + 1, Len(s))
        [] op = "take"                             -> SubSeq(s, 1, Smaller(stage.n, Len(s)))
        [] op \in {"take_while", "take_while_i"}   -> SubSeq(s, 1, Front_(s, stage.f))
        [] op = "distinct"                         -> FirstsBy(s, stage)
        [] op = "concat"                           -> s \o stage.c
        [] op = "union_with"                       -> FirstsBy(s \o stage.c, stage)
        [] op = "default_if_empty"                 -> IF s = <<>> THEN <<stage.n>> ELSE s
        [] op = "except"         -> Firsts(SelectSeq(s, LAMBDA v : v \notin ToSet(stage.c)))
        [] op = "intersect_with" -> Firsts(SelectSeq(s, LAMBDA v : v \in ToSet(stage.c)))
        [] op = "cycle"      -> Times(s, IF stage.n < 0 THEN Rounds ELSE stage.n)
        [] op = "reverse"    -> Reverse(s)
        [] op = "order_by"   -> SortSeq(s, <)
        [] op = "tee"        -> s
        [] op = "zip"        -> [k \in 1..Smaller(Len(s), Len(stage.c)) |-> Pair(s[k], stage.c[k])]
        [] op = "mix"        -> Mixed(s, stage.c)
        [] op = "join"       -> Joined(s, stage)
        [] op = "group_join" -> GroupJoined(s, stage)
-----------------------------------------------------------------------------
(* What the functions that end a query return, or throw.                    *)
Value(v) == <<"value", v>>
Throws(e) == <<e, 0>>

TheFirst(s, f) ==
  LET a == Accepted(s, f) IN
  IF s = <<>> THEN Throws("no_elements")
  ELSE IF a = <<>> THEN Throws("not_found") ELSE Value(Head(a))

TheLast(s, f) ==
  LET a == Accepted(s, f) IN
  IF s = <<>> THEN Throws("no_elements")
  ELSE IF a = <<>> THEN Throws("not_found") ELSE Value(Last(a))

TheSingle(s, f) ==
  LET a == Accepted(s, f) IN
  IF s = <<>> THEN Throws("no_elements")
  ELSE IF a = <<>> THEN Throws("not_found")
  ELSE IF Len(a) > 1 THEN Throws("invalid_operation") ELSE Value(Head(a))

TheElementAt(s, n) == IF n < Len(s) THEN Value(s[n + 1]) ELSE Throws("out_of_range")

(* Of an accumulation that tells the order of its operands.                 *)
TheAggregate(s) ==
  IF s = <<>> THEN Throws("no_elements")
  ELSE Value(FoldLeft(LAMBDA a, v : (7 * a + v) % 1009, Head(s), Tail(s)))

TheMax(s) ==
  IF s = <<>> THEN Throws("no_elements")
  ELSE Value(CHOOSE v \in ToSet(s) : \A w \in ToSet(s) : w <= v)

(* to_map() keeps the first element of each key.                            *)
TheMap(s) ==
  [k \in {v % 2 : v \in ToSet(s)} |-> Head(SelectSeq(s, LAMBDA v : v % 2 = k))]
=============================================================================
