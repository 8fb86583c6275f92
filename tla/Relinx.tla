------------------------------- MODULE Relinx -------------------------------
(***************************************************************************)
(* relinx.hpp: every lazy stage is an iterator adapter around the iterator *)
(* of the stage before.  An adapter is a record with its kind, the parent  *)
(* _begin as b, and its own members; it is at its end when _begin has come *)
(* to _end.  A functor lives in the adapter and may change when called, so *)
(* that operator* is not without effect: Deref gives the value and the     *)
(* adapter after it.                                                       *)
(***************************************************************************)
EXTENDS Pipelines

RECURSIVE AtEnd(_), Deref(_), Inc(_)

Begin(s) == [kind |-> "from", s |-> s, i |-> 1]

End == Begin(<<>>)     \* _begin = _end

(* What a functor says of junk does not matter: limit alone asks, and is at *)
(* its end either way.                                                      *)
Call(f, v) == [r |-> IF v = Junk THEN TRUE ELSE Result(f, v, f.i),
               f |-> [f EXCEPT !.i = @ + 1]]

(* operator== with the end iterator.                                        *)
AtEnd(it) ==
  CASE it.kind = "from"               -> it.i > Len(it.s)
    [] it.kind \in {"concat", "zip"}  -> AtEnd(it.b) /\ AtEnd(it.b2)
    [] OTHER                          -> AtEnd(it.b)

(* std::find_if(), which takes iterator and functor by value: the functor's *)
(* new index is lost with it.                                               *)
RECURSIVE FindIf(_, _)
FindIf(it, f) ==
  IF AtEnd(it) THEN it
  ELSE LET d == Deref(it)
           a == Call(f, d.v)
       IN  IF a.r THEN d.it ELSE FindIf(Inc(d.it), a.f)
-----------------------------------------------------------------------------
(* filter, except and intersect: the next parent element that passes; the  *)
(* latter two remember what they have let pass.                             *)
Filtered(it, from) == [it EXCEPT !.b = FindIf(from, it.f)]

Unseen(it) == CASE it.kind = "except"    -> [F("absent") EXCEPT !.s = ToSet(it.c) \cup it.seen]
                [] it.kind = "intersect" -> [F("present") EXCEPT !.s = ToSet(it.c) \ it.seen]

SetFiltered(it, from) ==
  LET b == FindIf(from, Unseen(it))
      d == Deref(b)
  IN  IF AtEnd(b) THEN [it EXCEPT !.b = b]
      ELSE [it EXCEPT !.b = d.it, !.seen = @ \cup {d.v}]

(* limit: the parent is advanced and read before it is compared with _end. *)
Limited(it, from) ==
  LET d == Deref(from)
      a == Call(it.f, d.v)
  IN  [it EXCEPT !.b = IF a.r THEN d.it ELSE End, !.f = a.f]

RECURSIVE NextDistinct(_)
NextDistinct(it) ==
  IF AtEnd(it.b) THEN it
  ELSE LET d == Deref(it.b)
           key == Call(it.f, d.v).r
       IN  IF key \in it.seen THEN NextDistinct([it EXCEPT !.b = Inc(d.it)])
           ELSE [it EXCEPT !.b = d.it, !.seen = @ \cup {key}]

(* select_many: on to the next parent element whose container has elements. *)
RECURSIVE Refilled(_)
Refilled(it) ==
  IF AtEnd(it.b) THEN it
  ELSE LET d == Deref(it.b)
           a == Call(it.f, d.v)
       IN  IF a.r # <<>> THEN [it EXCEPT !.b = d.it, !.f = a.f, !.c = a.r]
           ELSE Refilled([it EXCEPT !.b = Inc(d.it), !.f = a.f])

(* join: m is _joinMatch and from is _joinMatchBegin, both positions in c, *)
(* and Len(c) + 1 is _joinEnd.                                              *)
Match(it, v, from) ==
  LET found == {j \in from..Len(it.c) : Result(it.f, v, 0) = Result(it.f, it.c[j], 0)}
  IN  IF found = {} THEN Len(it.c) + 1 ELSE CHOOSE j \in found : \A k \in found : j <= k

Unmatched(it) == it.from = 1 /\ it.m > Len(it.c) /\ it.left

RECURSIVE NextMatch(_)
NextMatch(it) ==
  IF AtEnd(it.b) THEN it
  ELSE LET d == Deref(it.b)
           from == IF it.m > Len(it.c) THEN 1 ELSE it.m + 1
           next == [it EXCEPT !.b = d.it, !.from = from, !.m = Match(it, d.v, from)]
       IN  IF next.m <= Len(it.c) \/ (from = 1 /\ it.left) THEN next
           ELSE NextMatch([next EXCEPT !.b = Inc(@)])

RECURSIVE NextGroup(_)
NextGroup(it) ==
  IF AtEnd(it.b) THEN it
  ELSE LET d == Deref(it.b)
           g == SelectSeq(it.c, LAMBDA w : Result(it.f, d.v, 0) = Result(it.f, w, 0))
       IN  IF g # <<>> \/ it.left THEN [it EXCEPT !.b = d.it, !.g = g]
           ELSE NextGroup([it EXCEPT !.b = Inc(d.it)])

(* zip: as soon as one parent is at its end, both are.                      *)
Zipped(it) == IF AtEnd(it.b) \/ AtEnd(it.b2) THEN [it EXCEPT !.b = End, !.b2 = End] ELSE it
-----------------------------------------------------------------------------
DerefParent(it) == LET d == Deref(it.b) IN [v |-> d.v, it |-> [it EXCEPT !.b = d.it]]

Transformed(it) ==
  LET d == Deref(it.b)
      a == Call(it.f, d.v)
  IN  [v |-> IF d.v = Junk THEN Junk ELSE a.r, it |-> [it EXCEPT !.b = d.it, !.f = a.f]]

(* concat: the second parent when the first is at its end.                  *)
OfEither(it) ==
  IF AtEnd(it.b) THEN LET d == Deref(it.b2) IN [v |-> d.v, it |-> [it EXCEPT !.b2 = d.it]]
                 ELSE DerefParent(it)

OfBoth(it) ==
  LET d == Deref(it.b)
      d2 == Deref(it.b2)
  IN  [v |-> IF AtEnd(it) THEN Junk ELSE Pair(d.v, d2.v),
       it |-> [it EXCEPT !.b = d.it, !.b2 = d2.it]]

Deref(it) ==
  CASE it.kind = "from" -> [v |-> IF it.i > Len(it.s) THEN Junk ELSE it.s[it.i], it |-> it]
    [] it.kind = "transform"   -> Transformed(it)
    [] it.kind = "concat"      -> OfEither(it)
    [] it.kind = "zip"         -> OfBoth(it)
    [] it.kind = "select_many" -> [v |-> IF it.c = <<>> THEN Junk ELSE Head(it.c), it |-> it]
    [] it.kind = "join" ->
         LET d == DerefParent(it)
         IN  [d EXCEPT !.v = IF @ = Junk THEN Junk
                             ELSE Pair(@, IF Unmatched(it) THEN 0 ELSE it.c[it.m])]
    [] it.kind = "group_join" ->
         LET d == DerefParent(it)
         IN  [d EXCEPT !.v = IF @ = Junk THEN Junk ELSE Pair(@, Len(it.g))]
    [] it.kind \in {"filter", "tee", "limit", "distinct", "except", "intersect", "cycle"} ->
         DerefParent(it)

(* cycle: b is _current, first is _begin, round counts the rounds to n.     *)
Cycled(it) ==
  LET b == Inc(it.b)
      again == AtEnd(b) /\ (it.n < 0 \/ it.round + 1 < it.n)
  IN  [it EXCEPT !.b = IF again THEN it.first ELSE b,
                 !.round = IF AtEnd(b) /\ it.n >= 0 THEN @ + 1 ELSE @]

OnInEither(it) ==
  IF ~AtEnd(it.b) THEN [it EXCEPT !.b = Inc(@)]
  ELSE IF AtEnd(it.b2) THEN it ELSE [it EXCEPT !.b2 = Inc(@)]

Inc(it) ==
  CASE it.kind = "from"                    -> [it EXCEPT !.i = @ + 1]
    [] it.kind \in {"transform", "tee"}    -> [it EXCEPT !.b = Inc(@)]
    [] it.kind = "filter"                  -> Filtered(it, Inc(it.b))
    [] it.kind \in {"except", "intersect"} -> SetFiltered(it, Inc(it.b))
    [] it.kind = "limit"                   -> Limited(it, Inc(it.b))
    [] it.kind = "distinct"                -> NextDistinct(it)
    [] it.kind = "group_join"              -> NextGroup([it EXCEPT !.b = Inc(@)])
    [] it.kind = "join" ->
         NextMatch(IF Unmatched(it) THEN [it EXCEPT !.b = Inc(@)] ELSE it)
    [] it.kind = "zip"    -> Zipped([it EXCEPT !.b = Inc(@), !.b2 = Inc(@)])
    [] it.kind = "concat" -> OnInEither(it)
    [] it.kind = "cycle"  -> Cycled(it)
    [] it.kind = "select_many" ->
         IF Len(it.c) > 1 THEN [it EXCEPT !.c = Tail(@)]
         ELSE Refilled([it EXCEPT !.b = Inc(@), !.c = <<>>])
-----------------------------------------------------------------------------
(* The container made of what is left.                                      *)
RECURSIVE ToVector(_)
ToVector(it) == IF AtEnd(it) THEN <<>>
                ELSE LET d == Deref(it) IN <<d.v>> \o ToVector(Inc(d.it))

(* skip() and skip_while() advance the object's own _begin; the functor is *)
(* called in place and keeps its index.                                     *)
RECURSIVE Skipped(_, _), SkippedWhile(_, _)
Skipped(it, n) == IF AtEnd(it) \/ n = 0 THEN it ELSE Skipped(Inc(it), n - 1)
SkippedWhile(it, f) ==
  IF AtEnd(it) THEN it
  ELSE LET d == Deref(it)
           a == Call(f, d.v)
       IN  IF a.r THEN SkippedWhile(Inc(d.it), a.f) ELSE d.it

Distinct(it, f) ==
  LET d == Deref(it)
      new == [kind |-> "distinct", b |-> d.it, f |-> f, seen |-> {}]
  IN  IF AtEnd(it) THEN new ELSE [new EXCEPT !.seen = {Call(f, d.v).r}]

Concat(it, c) == [kind |-> "concat", b |-> it, b2 |-> Begin(c)]

(* The constructor of limit compares with _end before it reads.             *)
Limit(it, f) ==
  LET new == [kind |-> "limit", b |-> it, f |-> f]
  IN  IF AtEnd(it) THEN new ELSE Limited(new, it)

Take(it, n) == Limit(it, [F("first_n") EXCEPT !.n = n])

Where(it, f) == Filtered([kind |-> "filter", b |-> it, f |-> f], it)

Select(it, f) == [kind |-> "transform", b |-> it, f |-> f]

SelectMany(it, f) == Refilled([kind |-> "select_many", b |-> it, f |-> f, c |-> <<>>])

DefaultIfEmpty(it, v) == Concat(it, IF AtEnd(it) THEN <<v>> ELSE <<>>)

Except(it, c)    == SetFiltered([kind |-> "except", b |-> it, c |-> c, seen |-> {}], it)
Intersect(it, c) == SetFiltered([kind |-> "intersect", b |-> it, c |-> c, seen |-> {}], it)

Cycle(it, n) ==
  [kind |-> "cycle", b |-> IF n = 0 THEN End ELSE it, first |-> it, n |-> n, round |-> 0]

Tee(it) == [kind |-> "tee", b |-> it]

UnionWith(it, c, f) == Distinct(Concat(it, c), f)

ZipWith(it, c) == Zipped([kind |-> "zip", b |-> it, b2 |-> Begin(c)])

Join(it, c, f, left) ==
  NextMatch([kind |-> "join", b |-> it, c |-> c, f |-> f, left |-> left,
             from |-> 1, m |-> Len(c) + 1])

GroupJoin(it, c, f, left) ==
  NextGroup([kind |-> "group_join", b |-> it, c |-> c, f |-> f, left |-> left, g |-> <<>>])

(* reverse() and order_by() evaluate what is before them at once; what has  *)
(* not been staged is read backwards instead, which is the same.            *)
Reversed(it) == Begin(Reverse(ToVector(it)))
OrderBy(it) == Begin(SortSeq(ToVector(it), <))

(* Which of the above is the member function of a stage, on the object      *)
(* whose _begin is it.                                                      *)
Apply(stage, it) ==
  LET op == stage.op
      f == stage.f
      c == stage.c
  IN  CASE op \in {"where", "where_i"}             -> Where(it, f)
        [] op \in {"select", "select_i"}           -> Select(it, f)
        [] op \in {"select_many", "select_many_i"} -> SelectMany(it, f)
        [] op = "skip"                             -> Skipped(it, stage.n)
        [] op \in {"skip_while", "skip_while_i"}   -> SkippedWhile(it, f)
        [] op = "take"                             -> Take(it, stage.n)
        [] op \in {"take_while", "take_while_i"}   -> Limit(it, f)
        [] op = "distinct"         -> Distinct(it, f)
        [] op = "concat"           -> Concat(it, c)
        [] op = "union_with"       -> UnionWith(it, c, f)
        [] op = "default_if_empty" -> DefaultIfEmpty(it, stage.n)
        [] op = "except"           -> Except(it, c)
        [] op = "intersect_with"   -> Intersect(it, c)
        [] op = "cycle"            -> Cycle(it, stage.n)
        [] op = "reverse"          -> Reversed(it)
        [] op = "order_by"         -> OrderBy(it)
        [] op = "tee"              -> Tee(it)
        [] op = "zip"              -> ZipWith(it, c)
        [] op = "join"             -> Join(it, c, f, stage.left)
        [] op = "group_join"       -> GroupJoin(it, c, f, stage.left)
-----------------------------------------------------------------------------
(* The functions that end a query.                                          *)
FirstIf(it, f) ==
  LET i == FindIf(it, f) IN
  IF AtEnd(it) THEN Throws("no_elements")
  ELSE IF AtEnd(i) THEN Throws("not_found") ELSE Value(Deref(i).v)

RECURSIVE LastFound(_, _, _)
LastFound(it, f, last) ==
  IF AtEnd(it) THEN last
  ELSE LET d == Deref(it)
       IN  LastFound(Inc(d.it), f, IF Call(f, d.v).r THEN d.it ELSE last)

LastIfBug(it, f) ==   \* the first one of them
  LET i == FindIf(it, f) IN
  IF AtEnd(it) THEN Throws("no_elements")
  ELSE IF AtEnd(i) THEN Throws("not_found") ELSE Value(Deref(i).v)

LastIf(it, f) ==
  LET i == LastFound(it, f, End) IN
  IF AtEnd(it) THEN Throws("no_elements")
  ELSE IF AtEnd(i) THEN Throws("not_found") ELSE Value(Deref(i).v)

SingleIf(it, f) ==
  LET i == FindIf(it, f) IN
  IF AtEnd(it) THEN Throws("no_elements")
  ELSE IF AtEnd(i) THEN Throws("not_found")
  ELSE IF ~AtEnd(FindIf(Inc(i), f)) THEN Throws("invalid_operation") ELSE Value(Deref(i).v)

ElementAt(it, n) ==
  LET at == Skipped(it, n) IN
  IF AtEnd(at) THEN Throws("out_of_range") ELSE Value(Deref(at).v)

RECURSIVE Count(_), Accumulated(_, _), MaxElement(_, _), Mapping(_, _)
Count(it) == IF AtEnd(it) THEN 0 ELSE 1 + Count(Inc(it))

Accumulated(it, a) ==
  IF AtEnd(it) THEN a
  ELSE LET d == Deref(it) IN Accumulated(Inc(d.it), (7 * a + d.v) % 1009)

Aggregate(it) ==
  IF AtEnd(it) THEN Throws("no_elements") ELSE Value(Accumulated(Inc(it), Deref(it).v))

MaxElement(it, best) ==
  IF AtEnd(it) THEN best
  ELSE LET d == Deref(it)
           b == Deref(best)
       IN  MaxElement(Inc(d.it), IF b.v < d.v THEN d.it ELSE b.it)

MaxOf(it) == IF AtEnd(it) THEN Throws("no_elements") ELSE Value(Deref(MaxElement(it, it)).v)

(* to_map() emplaces: the first element of a key stays.                     *)
Mapping(it, map) ==
  IF AtEnd(it) THEN map
  ELSE LET d == Deref(it)
           k == d.v % 2
       IN  Mapping(Inc(d.it), IF k \in DOMAIN map THEN map
                              ELSE [x \in DOMAIN map \cup {k} |-> IF x = k THEN d.v ELSE map[x]])

ToMap(it) == Mapping(it, <<>>)
=============================================================================
