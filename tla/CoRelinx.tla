------------------------------ MODULE CoRelinx ------------------------------
(***************************************************************************)
(* co_relinx.hpp: every lazy stage is a coroutine that resumes the one     *)
(* before it.  A generator is a record with its kind, the generator it     *)
(* pulls from as src, and the locals of the coroutine.  MoveNext resumes   *)
(* it to its next co_yield, or to its end.  A coroutine that has come to a *)
(* loop which only passes on what another one yields is that other one.    *)
(*                                                                         *)
(* A stage with a second container is the overload that takes it by lvalue *)
(* reference, or, for concat, union_with, mix and zip, where that one does *)
(* not compile, the one that takes an rvalue.                              *)
(***************************************************************************)
EXTENDS Pipelines

RECURSIVE MoveNext(_), Drain(_), Search(_, _, _)

Gen(s) == [kind |-> "from", s |-> s, i |-> 1]

Yields(v, g) == [more |-> TRUE, v |-> v, g |-> g]
Over == [more |-> FALSE, v |-> Junk, g |-> Gen(<<>>)]

(* All that a generator still yields.                                       *)
Drain(g) == LET m == MoveNext(g)
            IN  IF m.more THEN <<m.v>> \o Drain(m.g) ELSE <<>>

(* The first value of which a functor says yes (or no), and the generator   *)
(* suspended there.                                                         *)
Search(g, f, yes) ==
  LET m == MoveNext(g)
  IN  IF ~m.more \/ Result(f, m.v, f.i) = yes THEN m
      ELSE Search(m.g, [f EXCEPT !.i = @ + 1], yes)
-----------------------------------------------------------------------------
(* The body of the loop of most of the coroutines, for one value: whether   *)
(* it yields something, goes on with the next value, or leaves the loop.    *)
Yield(v, g) == [do |-> "yield", v |-> v, g |-> g]
Continue(g) == [do |-> "continue", v |-> Junk, g |-> g]
Break(g)    == [do |-> "break", v |-> Junk, g |-> g]

(* processed is what has been yielded before.                               *)
OnceMoreBug(g, v) == Yield(v, g)   \* processed.insert(value) is missing

OnceMore(g, v) == Yield(v, [g EXCEPT !.processed = @ \cup {v}])

CoExcept(g, v) == IF v \in g.processed \cup ToSet(g.c) THEN Continue(g) ELSE OnceMore(g, v)

CoIntersect(g, v) == IF v \in g.processed \/ v \notin ToSet(g.c) THEN Continue(g) ELSE OnceMore(g, v)

(* co_distinct() looks for the key among the values.                        *)
CoDistinct(g, v) == IF Result(g.f, v, 0) \in g.processed THEN Continue(g) ELSE OnceMore(g, v)

Matches(g, v) == SelectSeq(g.c, LAMBDA w : Result(g.f, v, 0) = Result(g.f, w, 0))

(* co_join() takes the first match only.                                    *)
CoJoin(g, v) ==
  LET m == Matches(g, v)
  IN  IF m = <<>> /\ ~g.left THEN Continue(g)
      ELSE Yield(Pair(v, IF m = <<>> THEN 0 ELSE Head(m)), g)

CoGroupJoin(g, v) ==
  LET m == Matches(g, v)
  IN  IF m = <<>> /\ ~g.left THEN Continue(g) ELSE Yield(Pair(v, Len(m)), g)

Body(g, v) ==
  LET r == Result(g.f, v, g.index)
      next == [g EXCEPT !.index = @ + 1]
  IN  CASE g.kind = "filter"     -> IF r THEN Yield(v, next) ELSE Continue(next)
        [] g.kind = "transform"  -> Yield(r, next)
        [] g.kind = "limit"      -> IF r THEN Yield(v, next) ELSE Break(g)
        [] g.kind = "take"       -> IF g.index < g.n THEN Yield(v, next) ELSE Break(g)
        [] g.kind = "tee"        -> Yield(v, g)
        [] g.kind = "distinct"   -> CoDistinct(g, v)
        [] g.kind = "except"     -> CoExcept(g, v)
        [] g.kind = "intersect"  -> CoIntersect(g, v)
        [] g.kind = "join"       -> CoJoin(g, v)
        [] g.kind = "group_join" -> CoGroupJoin(g, v)

Looped(g) ==
  LET m == MoveNext(g.src)
      b == Body([g EXCEPT !.src = m.g], m.v)
  IN  IF ~m.more THEN Over
      ELSE CASE b.do = "yield"    -> Yields(b.v, b.g)
             [] b.do = "continue" -> MoveNext(b.g)
             [] b.do = "break"    -> Over
-----------------------------------------------------------------------------
CoConcat(g) ==
  LET m == MoveNext(g.src)
  IN  IF m.more THEN Yields(m.v, [g EXCEPT !.src = m.g]) ELSE MoveNext(Gen(g.c))

(* src and src2 take turns.                                                 *)
CoMix(g) ==
  LET m == MoveNext(g.src)
  IN  IF ~m.more THEN MoveNext(g.src2)
      ELSE Yields(m.v, [g EXCEPT !.src = g.src2, !.src2 = m.g])

CoSkip(g) ==
  LET m == MoveNext(g.src)
  IN  IF g.n = 0 THEN m
      ELSE IF m.more THEN MoveNext([g EXCEPT !.src = m.g, !.n = @ - 1]) ELSE Over

CoDefaultIfEmpty(g) ==
  LET m == MoveNext(g.src) IN IF m.more THEN m ELSE Yields(g.n, Gen(<<>>))

(* save is what was yielded in this round.                                  *)
CoCycle(g) ==
  LET m == MoveNext(g.src)
  IN  IF g.n = 0 THEN Over
      ELSE IF m.more THEN Yields(m.v, [g EXCEPT !.src = m.g, !.save = Append(@, m.v)])
      ELSE IF g.n = 1 THEN Over
      ELSE MoveNext([g EXCEPT !.src = Gen(g.save), !.save = <<>>, !.n = @ - 1])

CoZip(g) ==
  LET m == MoveNext(g.src)
      m2 == MoveNext(g.src2)
  IN  IF m.more /\ m2.more
      THEN Yields(Pair(m.v, m2.v), [g EXCEPT !.src = m.g, !.src2 = m2.g]) ELSE Over

(* c is what is left of the last value, which is a container; the functor   *)
(* is called with its elements, and the index counts these.                 *)
CoSelectMany(g) ==
  LET m == MoveNext(g.src)
  IN  IF g.c # <<>>
      THEN Yields(Result(g.f, Head(g.c), g.index), [g EXCEPT !.c = Tail(@), !.index = @ + 1])
      ELSE IF m.more THEN MoveNext([g EXCEPT !.src = m.g, !.c = m.v]) ELSE Over

MoveNext(g) ==
  CASE g.kind = "from" -> IF g.i > Len(g.s) THEN Over ELSE Yields(g.s[g.i], [g EXCEPT !.i = @ + 1])
    [] g.kind = "concat"           -> CoConcat(g)
    [] g.kind = "mix"              -> CoMix(g)
    [] g.kind = "reverse"          -> MoveNext(Gen(Reverse(Drain(g.src))))
    [] g.kind = "skip"             -> CoSkip(g)
    [] g.kind = "skip_while"       -> Search(g.src, g.f, FALSE)
    [] g.kind = "default_if_empty" -> CoDefaultIfEmpty(g)
    [] g.kind = "cycle"            -> CoCycle(g)
    [] g.kind = "zip"              -> CoZip(g)
    [] g.kind = "select_many"      -> CoSelectMany(g)
    [] OTHER                       -> Looped(g)
-----------------------------------------------------------------------------
(* A coroutine that pulls from g, suspended before its first statement.     *)
Coroutine(kind, stage, g) ==
  [kind |-> kind, src |-> g, f |-> stage.f, n |-> stage.n, c |-> stage.c,
   left |-> stage.left, index |-> 0, processed |-> {}]

(* And one that pulls from g and from the container of the stage.           *)
CoBoth(kind, stage, g) == [kind |-> kind, src |-> g, src2 |-> Gen(stage.c), c |-> stage.c]

CoUnionWith(stage, g) == Coroutine("distinct", stage, CoBoth("concat", stage, g))

CycleOf(stage, g) == [kind |-> "cycle", src |-> g, n |-> stage.n, save |-> <<>>]

(* Which coroutine the member function of a stage starts, moving the        *)
(* generator g into it.                                                     *)
CoApply(stage, g) ==
  LET op == stage.op
      Co(kind) == Coroutine(kind, stage, g)
  IN  CASE op \in {"where", "where_i"}               -> Co("filter")
        [] op \in {"select", "select_i"}             -> Co("transform")
        [] op \in {"take_while", "take_while_i"}     -> Co("limit")
        [] op \in {"take", "tee", "distinct", "except", "join", "group_join",
                   "reverse", "skip", "skip_while", "default_if_empty"} -> Co(op)
        [] op = "intersect_with"                     -> Co("intersect")
        [] op \in {"select_inner", "select_inner_i"} -> Co("select_many")
        [] op \in {"concat", "mix", "zip"}           -> CoBoth(op, stage, g)
        [] op = "union_with"                         -> CoUnionWith(stage, g)
        [] op = "cycle"                              -> CycleOf(stage, g)
-----------------------------------------------------------------------------
(* The functions that end a query, with the iterator that shares the        *)
(* generator with its object: what it has passed is gone.                   *)
CoFirstIf(g, f) ==
  LET i == Search(g, f, TRUE) IN
  IF ~MoveNext(g).more THEN Throws("no_elements")
  ELSE IF ~i.more THEN Throws("not_found") ELSE Value(i.v)

CoSingleIf(g, f) ==
  LET i == Search(g, f, TRUE) IN
  IF ~MoveNext(g).more THEN Throws("no_elements")
  ELSE IF ~i.more THEN Throws("not_found")
  ELSE IF Search(i.g, f, TRUE).more THEN Throws("invalid_operation") ELSE Value(i.v)

RECURSIVE CoAccumulated(_, _), CoLargest(_, _), CoMapping(_, _)
CoAccumulated(g, a) ==
  LET m == MoveNext(g) IN IF m.more THEN CoAccumulated(m.g, (7 * a + m.v) % 1009) ELSE a

CoAggregate(g) ==
  LET m == MoveNext(g) IN
  IF m.more THEN Value(CoAccumulated(m.g, m.v)) ELSE Throws("no_elements")

CoLargest(g, best) ==
  LET m == MoveNext(g) IN
  IF m.more THEN CoLargest(m.g, IF best < m.v THEN m.v ELSE best) ELSE best

CoMax(g) ==
  LET m == MoveNext(g) IN
  IF m.more THEN Value(CoLargest(m.g, m.v)) ELSE Throws("no_elements")

CoMapping(g, map) ==
  LET m == MoveNext(g)
      k == m.v % 2
  IN  IF ~m.more THEN map
      ELSE CoMapping(m.g, IF k \in DOMAIN map THEN map
                          ELSE [x \in DOMAIN map \cup {k} |-> IF x = k THEN m.v ELSE map[x]])

CoToMap(g) == CoMapping(g, <<>>)
=============================================================================
