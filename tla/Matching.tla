------------------------------ MODULE Matching ------------------------------
(* Patterns: what the analyzer concludes of a match or a destructuring        *)
(* (semantic/patterns.rs) and what the evaluator does with them               *)
(* (evaluator/pattern.rs, evaluate_match).                                    *)
(*                                                                            *)
(* A pattern is a tuple: <<"wild">>, <<"bind", name>>, <<"lit", value>>,      *)
(* <<"range", low, high, inclusive>> (a bound is a sequence of at most one    *)
(* integer), <<"or", patterns>>, <<"alias", name, pattern>>,                  *)
(* <<"tuple", patterns>>, <<"seq", patterns, rest>> (rest: a sequence of at   *)
(* most one name), <<"hash", pairs of key and pattern>>,                      *)
(* <<"struct", name, patterns>>, <<"named", name, pairs>>,                    *)
(* <<"enum", name, variant, payload>> (a sequence of at most one pattern).    *)
(* Types and values are tuples in the same way.                               *)
EXTENDS Integers, Sequences, SequencesExt, FiniteSets

CONSTANTS
  Enums,            \* of each enum, its variants: <<name, payload types (at most one)>>
  Structs,          \* of each struct, its fields: <<name, type>>
  MinInt, MaxInt,   \* the limits of Int
  Records,          \* the rows of the CSV file
  Domain,           \* Domain[t]: values of type t
  Statements        \* the statements of a run: [kind, type, arms]

VARIABLES
  statement,
  phase,        \* "check", "accepted", "rejected", "run", "guard", "body", "failed", "error"
  questions,    \* what the analyzer has left to ask: see Question
  todo,         \* calls of pattern_vector_is_useful to be made for the first one
  answered,     \* the last question and its answer
  value, arm,   \* the value that is matched, the arm that is tried
  bound         \* the bindings of the arm's scope

vars == <<statement, phase, questions, todo, answered, value, arm, bound>>

Unknown == <<"Unknown">>
IntType == <<"Int">>
BoolType == <<"Bool">>
RowType == <<"List", <<"String">>>>
Wild == <<"wild">>

\* F(1), ..., F(n). (A tuple: TLC evaluates each element once.)
Map(F(_), n) == <<>> \o [i \in 1..n |-> F(i)]
\* F(x) for each x of S, one after the other.
Each(F(_), S) == FlattenSeq(Map(LAMBDA i : F(S[i]), Len(S)))

Catches(p) == p[1] \in {"wild", "bind", "ref"}
Wilds(n) == Map(LAMBDA i : Wild, n)
Seconds(pairs) == Map(LAMBDA i : pairs[i][2], Len(pairs))
Keys(pairs) == {pairs[i][1] : i \in 1..Len(pairs)}
At(pairs, key) == pairs[CHOOSE i \in 1..Len(pairs) : pairs[i][1] = key][2]
-----------------------------------------------------------------------------
(* Matching a value (match_value_pattern).                                   *)

Matched(bindings) == [is |-> "matched", bind |-> bindings]
NotMatched == [is |-> "not", bind |-> <<>>]
Failed == [is |-> "error", bind |-> <<>>]

RangeLength(r) ==
  LET size == IF r[4] > 0 THEN r[4] ELSE -r[4]
      distance == IF r[4] > 0 THEN r[3] - r[2] ELSE r[2] - r[3]
  IN  IF distance <= 0 THEN 0 ELSE (distance + size - 1) \div size

\* The rows a stream has from its position on.
CsvRows(v) == SubSeq(Records, v[2] + 1, Len(Records))

\* The elements of a sequence.
Elements(v) ==
  CASE v[1] \in {"Array", "List"} -> v[2]
    [] v[1] = "Range" -> [i \in 1..RangeLength(v) |-> <<"Int", v[2] + (i - 1) * v[4]>>]
    [] v[1] = "CsvStream" -> CsvRows(v)

\* Variant: a rest starts one element late.
SuffixLate(v, n) ==
  CASE v[1] \in {"Array", "List"} -> <<v[1], SubSeq(v[2], n + 2, Len(v[2]))>>
    [] v[1] = "Range" -> <<"Range", v[2] + (n + 1) * v[4], v[3], v[4]>>
    [] v[1] = "CsvStream" -> <<"CsvStream", v[2] + n + 1>>

\* What a rest binding gets after n elements.
Suffix(v, n) ==
  CASE v[1] \in {"Array", "List"} -> <<v[1], SubSeq(v[2], n + 1, Len(v[2]))>>
    [] v[1] = "Range" ->
         <<"Range", IF RangeLength(v) = 0 THEN v[2] ELSE v[2] + n * v[4], v[3], v[4]>>
    [] v[1] = "CsvStream" -> <<"CsvStream", v[2] + n>>

RECURSIVE Match(_, _)

\* All of the patterns, in order.
MatchEach(ps, vs) ==
  LET results == Map(LAMBDA i : Match(ps[i], vs[i]), Len(ps))
      stops == {i \in 1..Len(ps) : results[i].is # "matched"}
  IN  IF stops = {} THEN Matched(Each(LAMBDA r : r.bind, results))
      ELSE results[CHOOSE i \in stops : \A j \in stops : i <= j]

MatchAny(ps, v) ==
  LET hits == {i \in 1..Len(ps) : Match(ps[i], v).is # "not"} IN
  IF hits = {} THEN NotMatched
  ELSE Match(ps[CHOOSE i \in hits : \A j \in hits : i <= j], v)

MatchSequence(ps, rest, v) ==
  IF v[1] \notin {"Array", "List", "Range", "CsvStream"} THEN NotMatched
  ELSE
  LET elements == Elements(v)
      n == Len(ps)
      inner == MatchEach(ps, elements)
  IN  IF Len(elements) < n \/ (rest = <<>> /\ Len(elements) # n) THEN NotMatched
      ELSE IF rest # <<>> /\ v[1] = "Range" /\ Suffix(v, n)[2] \notin MinInt..MaxInt THEN Failed
      ELSE IF inner.is # "matched" \/ rest = <<>> THEN inner
      ELSE Matched(Append(inner.bind, <<rest[1], Suffix(v, n)>>))

Match(p, v) ==
  CASE p[1] = "wild" -> Matched(<<>>)
    [] p[1] \in {"bind", "ref"} -> Matched(<< <<p[2], v>> >>)
    [] p[1] = "lit" -> IF p[2] = v THEN Matched(<<>>) ELSE NotMatched
    [] p[1] = "range" ->
         IF /\ v[1] = "Int"
            /\ p[2] # <<>> => v[2] >= p[2][1]
            /\ p[3] # <<>> => IF p[4] THEN v[2] <= p[3][1] ELSE v[2] < p[3][1]
         THEN Matched(<<>>) ELSE NotMatched
    [] p[1] = "or" -> MatchAny(p[2], v)
    [] p[1] = "alias" ->
         LET inner == Match(p[3], v) IN
         IF inner.is = "matched" THEN Matched(Append(inner.bind, <<p[2], v>>)) ELSE inner
    [] p[1] = "tuple" ->
         IF v[1] # "Tuple" THEN NotMatched
         ELSE IF Len(p[2]) # Len(v[2]) THEN NotMatched
         ELSE MatchEach(p[2], v[2])
    [] p[1] = "seq" -> MatchSequence(p[2], p[3], v)
    [] p[1] = "hash" ->
         IF v[1] # "Hash" THEN NotMatched
         ELSE LET absent == {i \in 1..Len(p[2]) : p[2][i][1] \notin DOMAIN v[2]}
                  present == SelectSeq(p[2], LAMBDA e : e[1] \in DOMAIN v[2])
                  inner == MatchEach(Seconds(present),
                                     [i \in 1..Len(present) |-> v[2][present[i][1]]])
              IN IF absent # {} THEN NotMatched ELSE inner
    [] p[1] = "struct" ->
         IF v[1] # "Struct" THEN NotMatched
         ELSE IF v[2] # p[2] \/ Len(p[3]) # Len(v[3]) THEN NotMatched
         ELSE MatchEach(p[3], v[3])
    [] p[1] = "named" ->
         IF v[1] # "Struct" THEN NotMatched
         ELSE IF v[2] # p[2] \/ ~(Keys(p[3]) \subseteq Keys(Structs[p[2]])) THEN NotMatched
         ELSE LET field(name) == CHOOSE i \in 1..Len(Structs[p[2]]) :
                                   Structs[p[2]][i][1] = name
              IN  MatchEach(Seconds(p[3]), [i \in 1..Len(p[3]) |-> v[3][field(p[3][i][1])]])
    [] p[1] = "enum" ->
         IF v[1] # "Enum" THEN NotMatched
         ELSE IF v[2] # p[2] \/ v[3] # p[3] \/ Len(v[4]) # Len(p[4]) THEN NotMatched
         ELSE MatchEach(p[4], v[4])

Matches(p, v) == Match(p, v).is = "matched"

-----------------------------------------------------------------------------
(* Types of patterns (validate_match_pattern, types.rs).                      *)

\* Dimensions of Vectors: a sequence of at most one length.
SameDimension(m, n) == m # <<>> /\ n # <<>> => m = n

RECURSIVE CompatibleAt(_, _, _)
CompatibleAt(t, u, nested) ==
  CASE t = Unknown /\ u = Unknown -> TRUE
    [] t = Unknown \/ u = Unknown -> nested
    [] t[1] = "HashValues" /\ u[1] = "Hash" -> TRUE
    [] t[1] = "Vector" /\ u[1] = "Vector" ->
         CompatibleAt(t[2], u[2], TRUE) /\ SameDimension(t[3], u[3])
    [] t[1] \in {"Array", "Vector"} /\ u[1] \in {"Array", "Vector"} -> CompatibleAt(t[2], u[2], TRUE)
    [] t[1] \in {"List", "Vector"} /\ u[1] \in {"List", "Vector"} -> CompatibleAt(t[2], u[2], TRUE)
    [] t[1] = "HashValues" /\ u[1] = "HashValues" -> CompatibleAt(t[2], u[2], TRUE)
    [] t[1] = "Tuple" /\ u[1] = "Vector" ->
         /\ SameDimension(<<Len(t[2])>>, u[3])
         /\ \A i \in 1..Len(t[2]) : CompatibleAt(t[2][i], u[2], TRUE)
    [] t[1] = "Tuple" /\ u[1] = "Tuple" ->
         /\ Len(t[2]) = Len(u[2])
         /\ \A i \in 1..Len(t[2]) : CompatibleAt(t[2][i], u[2][i], TRUE)
    [] OTHER -> t = u
Compatible(t, u) == CompatibleAt(t, u, FALSE)

\* The type of a sequence's elements, if sequence patterns apply to it.
ElementType(t) ==
  CASE t[1] \in {"Array", "List", "Vector"} -> t[2]
    [] t[1] = "Range" -> IntType
    [] t[1] = "CsvStream" -> RowType
    [] OTHER -> Unknown

\* The patterns in a pattern, each with the type it is checked against.
Inner(p, t) ==
  LET with(ps, type(_)) == Map(LAMBDA i : <<ps[i], type(i)>>, Len(ps)) IN
  CASE p[1] = "or" -> with(p[2], LAMBDA i : t)
    [] p[1] = "alias" -> << <<p[3], t>> >>
    [] p[1] = "tuple" -> with(p[2], LAMBDA i : IF t = Unknown THEN Unknown ELSE t[2][i])
    [] p[1] = "seq" -> with(p[2], LAMBDA i : ElementType(t))
    [] p[1] = "hash" -> with(Seconds(p[2]), LAMBDA i : IF t[1] = "HashValues" THEN t[2] ELSE Unknown)
    [] p[1] = "struct" -> with(p[3], LAMBDA i : Structs[p[2]][i][2])
    [] p[1] = "named" -> with(Seconds(p[3]), LAMBDA i : At(Structs[p[2]], p[3][i][1]))
    [] p[1] = "enum" -> with(p[4], LAMBDA i : At(Enums[p[2]], p[3])[i])
    [] OTHER -> <<>>

\* The shape of the pattern fits the type.
Shape(p, t) ==
  CASE p[1] \in {"wild", "bind", "ref", "alias"} -> TRUE
    [] p[1] = "or" -> Len(p[2]) >= 2
    [] p[1] = "lit" -> t = Unknown \/ Compatible(<<p[2][1]>>, t)
    [] p[1] = "range" -> /\ t \in {IntType, Unknown}
                         /\ p[4] /\ p[2] # <<>> /\ p[3] # <<>> => p[2][1] <= p[3][1]
    [] p[1] = "tuple" -> t = Unknown \/ (t[1] = "Tuple" /\ Len(t[2]) = Len(p[2]))
    [] p[1] = "seq" -> t[1] \in {"Array", "List", "Vector", "Range", "CsvStream", "Unknown"}
    [] p[1] = "hash" -> t[1] \in {"Hash", "HashValues", "Unknown"}
    [] p[1] = "struct" -> /\ t \in {<<"Struct", p[2]>>, Unknown}
                          /\ Len(p[3]) = Len(Structs[p[2]])
    [] p[1] = "named" -> /\ t \in {<<"Struct", p[2]>>, Unknown}
                         /\ Keys(p[3]) \subseteq Keys(Structs[p[2]])
    [] p[1] = "enum" -> /\ t \in {<<"Enum", p[2]>>, Unknown}
                        /\ p[3] \in Keys(Enums[p[2]])
                        /\ Len(p[4]) = Len(At(Enums[p[2]], p[3]))

\* The names a pattern binds, with their types; the alternatives of an
\* or-pattern bind the same.
RECURSIVE Binds(_, _)
Binds(p, t) ==
  LET inner == Each(LAMBDA q : Binds(q[1], q[2]), Inner(p, t)) IN
  CASE p[1] \in {"bind", "ref"} -> << <<p[2], t>> >>
    [] p[1] = "alias" -> << <<p[2], t>> >> \o inner
    [] p[1] = "or" -> Binds(p[2][1], t)
    [] p[1] = "seq" /\ p[3] # <<>> -> Append(inner, <<p[3][1], t>>)
    [] OTHER -> inner

RECURSIVE Fits(_, _)
\* Variant: the names of the alternatives are not compared.
FitsAnyNames(p, t) ==
  /\ Shape(p, t)
  /\ \A i \in 1..Len(Inner(p, t)) : Fits(Inner(p, t)[i][1], Inner(p, t)[i][2])

Fits(p, t) ==
  /\ Shape(p, t)
  /\ \A i \in 1..Len(Inner(p, t)) : Fits(Inner(p, t)[i][1], Inner(p, t)[i][2])
  /\ p[1] = "or" =>
       LET first == Binds(p[2][1], t) IN
       \A i \in 1..Len(p[2]) :
         LET other == Binds(p[2][i], t) IN
         /\ Len(other) = Len(first) /\ Keys(other) = Keys(first)
         /\ \A name \in Keys(first) : /\ Compatible(At(first, name), At(other, name))
                                      /\ Compatible(At(other, name), At(first, name))

\* let: identifiers, `_`, tuples and sequences (validate_destructure_pattern).
RECURSIVE FitsLet(_, _)
FitsLet(p, t) ==
  /\ p[1] \in {"wild", "bind", "tuple", "seq"}
  /\ p[1] = "seq" => t[1] # "CsvStream"
  /\ Shape(p, t)
  /\ \A i \in 1..Len(Inner(p, t)) : FitsLet(Inner(p, t)[i][1], Inner(p, t)[i][2])

\* Names are defined one by one in one scope.
Distinct(bindings) == Cardinality(Keys(bindings)) = Len(bindings)

\* ref binds the whole of a named collection only.
RECURSIVE HasRef(_)
HasRef(p) ==
  CASE p[1] = "ref" -> TRUE
    [] p[1] \in {"or", "tuple", "seq"} -> \E i \in 1..Len(p[2]) : HasRef(p[2][i])
    [] p[1] \in {"alias", "struct"} -> IF p[1] = "alias" THEN HasRef(p[3]) ELSE \E i \in 1..Len(p[3]) : HasRef(p[3][i])
    [] p[1] = "hash" -> \E i \in 1..Len(p[2]) : HasRef(p[2][i][2])
    [] p[1] = "named" -> \E i \in 1..Len(p[3]) : HasRef(p[3][i][2])
    [] p[1] = "enum" -> \E i \in 1..Len(p[4]) : HasRef(p[4][i])
    [] OTHER -> FALSE

Valid(s) ==
  \A i \in 1..Len(s.arms) :
    LET p == s.arms[i].pattern IN
    /\ IF s.kind = "let" THEN FitsLet(p, s.type)
       ELSE IF p[1] = "ref" THEN s.type[1] \in {"Array", "List", "Hash", "HashValues", "Unknown"}
       ELSE ~HasRef(p) /\ Fits(p, s.type)
    /\ Distinct(Binds(p, s.type))

-----------------------------------------------------------------------------
(* Usefulness (pattern_vector_is_useful): a call asks whether some value is   *)
(* matched by the candidate patterns and by none of the rows. It answers      *)
(* whether one of the calls it makes answers yes.                             *)

Call(rows, candidate, types) == [rows |-> rows, candidate |-> candidate, types |-> types]

RECURSIVE Strip(_)
Strip(p) ==
  LET each(ps) == Map(LAMBDA i : Strip(ps[i]), Len(ps))
      named(pairs) == Map(LAMBDA i : <<pairs[i][1], Strip(pairs[i][2])>>, Len(pairs))
  IN
  CASE p[1] = "alias" -> Strip(p[3])
    [] p[1] = "or" -> <<"or", each(p[2])>>
    [] p[1] = "tuple" -> <<"tuple", each(p[2])>>
    [] p[1] = "seq" -> <<"seq", each(p[2]), p[3]>>
    [] p[1] = "hash" -> <<"hash", named(p[2])>>
    [] p[1] = "struct" -> <<"struct", p[2], each(p[3])>>
    [] p[1] = "named" -> <<"named", p[2], named(p[3])>>
    [] p[1] = "enum" -> <<"enum", p[2], p[3], each(p[4])>>
    [] OTHER -> p

\* The alternatives of a pattern, or-patterns in or-patterns included.
RECURSIVE Alternatives(_)
Alternatives(p) ==
  IF p[1] = "or" THEN UNION {Alternatives(p[2][i]) : i \in 1..Len(p[2])} ELSE {p}

Expand(rows) == UNION {{<<a>> \o Tail(r) : a \in Alternatives(r[1])} : r \in rows}

\* Variant: the upper bound of a range belongs to it.
BoundsInclusive(p) ==
  LET low == IF p[2] = <<>> THEN MinInt ELSE p[2][1]
      high == IF p[3] = <<>> THEN MaxInt ELSE p[3][1]
  IN  IF low <= high THEN {<<low, high>>} ELSE {}

Bounds(p) ==
  LET low == IF p[2] = <<>> THEN MinInt ELSE p[2][1]
      high == IF p[3] = <<>> THEN MaxInt ELSE IF p[4] THEN p[3][1] ELSE p[3][1] - 1
  IN  IF low <= high THEN {<<low, high>>} ELSE {}

\* The integers a pattern matches (int_pattern_intervals).
Intervals(p) ==
  UNION {CASE a[1] = "lit" /\ a[2][1] = "Int" -> {<<a[2][2], a[2][2]>>}
           [] a[1] = "range" -> Bounds(a)
           [] Catches(a) -> {<<MinInt, MaxInt>>}
           [] OTHER -> {} : a \in Alternatives(p)}

\* One call for each stretch of integers on which all heads are constant.
IntegerCalls(rows, intervals, tail, types) ==
  LET all == intervals \cup UNION {Intervals(r[1]) : r \in rows}
      starts == {i[1] : i \in all} \cup {i[2] + 1 : i \in all}
      within(n, set) == \E i \in set : n \in i[1]..i[2]
  IN  {Call({Tail(r) : r \in {q \in rows : within(n, Intervals(q[1]))}}, tail, types) :
         n \in {m \in starts : within(m, intervals)}}

\* Sequences of each length that the rows tell apart.
SequenceCalls(rows, patterns, rest, tail, types, element) ==
  LET expanded == Expand(rows)
      longest == Max({Len(patterns)} \cup {Len(r[1][2]) : r \in {q \in expanded : q[1][1] = "seq"}})
      fill(ps, n) == ps \o Wilds(n - Len(ps))
      admits(a, n) == /\ a[1] = "seq"
                      /\ IF a[3] = <<>> THEN Len(a[2]) = n ELSE Len(a[2]) <= n
  IN  {Call({fill(r[1][2], n) \o Tail(r) : r \in {q \in expanded : admits(q[1], n)}}
              \cup {Wilds(n) \o Tail(r) : r \in {q \in expanded : Catches(q[1])}},
            fill(patterns, n) \o tail,
            Map(LAMBDA i : element, n) \o types) :
         n \in Len(patterns)..(IF rest THEN longest + 1 ELSE Len(patterns))}

\* A hash with the candidate's keys: rows that ask for another key are dropped.
HashCalls(rows, pairs, tail, types) ==
  LET entry(q, key) == IF Catches(q) \/ key \notin Keys(q[2]) THEN Wild ELSE At(q[2], key)
      kept == {r \in Expand(rows) : \/ Catches(r[1])
                                    \/ r[1][1] = "hash" /\ Keys(r[1][2]) \subseteq Keys(pairs)}
      n == Len(pairs)
  IN  {Call({Map(LAMBDA i : entry(r[1], pairs[i][1]), n) \o Tail(r) : r \in kept},
            Seconds(pairs) \o tail, Map(LAMBDA i : Unknown, n) \o types)}

\* Constructors: the variants of an enum, a tuple, a struct, true and false.
Constructed(p) == p[1] \in {"enum", "tuple", "struct", "named"} \/ (p[1] = "lit" /\ p[2][1] = "Bool")

Constructor(p) ==
  CASE p[1] = "enum" -> <<"Enum", p[2], p[3]>>
    [] p[1] = "tuple" -> <<"Tuple", Len(p[2])>>
    [] p[1] \in {"struct", "named"} -> <<"Struct", p[2]>>
    [] p[1] = "lit" -> p[2]

Arguments(p) ==
  CASE p[1] = "enum" -> p[4]
    [] p[1] = "tuple" -> p[2]
    [] p[1] = "struct" -> p[3]
    [] p[1] = "named" ->
         [i \in 1..Len(Structs[p[2]]) |->
            IF Structs[p[2]][i][1] \in Keys(p[3]) THEN At(p[3], Structs[p[2]][i][1]) ELSE Wild]
    [] p[1] = "lit" -> <<>>

\* The constructors of a type with the types of their arguments; {} if its
\* values are not finitely many constructions.
Constructors(t) ==
  CASE t[1] = "Enum" -> {<<<<"Enum", t[2], Enums[t[2]][i][1]>>, Enums[t[2]][i][2]>> :
                           i \in 1..Len(Enums[t[2]])}
    [] t[1] = "Tuple" -> {<<<<"Tuple", Len(t[2])>>, t[2]>>}
    [] t[1] = "Struct" -> {<<t, Seconds(Structs[t[2]])>>}
    [] t = BoolType -> {<<<<"Bool", b>>, <<>>>> : b \in BOOLEAN}
    [] OTHER -> {}

\* The same for a constructor that a pattern names (constructor_argument_types).
Signatures(p, t) ==
  IF t # Unknown THEN {c \in Constructors(t) : c[1] = Constructor(p)}
  ELSE CASE p[1] = "tuple" -> {<<Constructor(p), [i \in 1..Len(p[2]) |-> Unknown]>>}
         [] p[1] = "enum" -> {<<Constructor(p), At(Enums[p[2]], p[3])>>}
         [] p[1] \in {"struct", "named"} -> {<<Constructor(p), Seconds(Structs[p[2]])>>}

ConstructorCall(rows, c, arguments, tail, types) ==
  LET expanded == Expand(rows) IN
  Call({Arguments(r[1]) \o Tail(r) :
          r \in {q \in expanded : Constructed(q[1]) /\ Constructor(q[1]) = c[1]}}
         \cup {Wilds(Len(c[2])) \o Tail(r) : r \in {q \in expanded : Catches(q[1])}},
       arguments \o tail, c[2] \o types)

\* The rows that match everything at the head. An or-pattern does if one of
\* its own alternatives does.
DefaultCall(rows, all(_), tail, types) ==
  Call({Tail(r) : r \in {q \in rows : \/ all(q[1])
                                      \/ q[1][1] = "or" /\ \E i \in 1..Len(q[1][2]) : all(q[1][2][i])}},
       tail, types)

CatchesHash(p) == Catches(p) \/ p = <<"hash", <<>>>>

Calls(c) ==
  LET head == Head(c.candidate)
      tail == Tail(c.candidate)
      t == Head(c.types)
      types == Tail(c.types)
      plain == DefaultCall(c.rows, Catches, tail, types)
      constructors == Constructors(t)
      named == {k \in constructors : \E r \in Expand(c.rows) :
                  Catches(r[1]) \/ (Constructed(r[1]) /\ Constructor(r[1]) = k[1])}
      integer == t = IntType \/ (t = Unknown /\ (head[1] = "range" \/ (head[1] = "lit" /\ head[2][1] = "Int")))
      sequence == t[1] \in {"Array", "List", "Vector", "CsvStream"}
  IN
  CASE head[1] = "or" ->
         {Call(c.rows \cup {<<head[2][j]>> \o tail : j \in 1..(i - 1)}, <<head[2][i]>> \o tail, c.types) :
            i \in 1..Len(head[2])}
    [] integer /\ Intervals(head) # {} -> IntegerCalls(c.rows, Intervals(head), tail, types)
    [] head[1] = "lit" /\ (head[2][1] # "Bool" \/ t # BoolType) ->
         {Call({Tail(r) : r \in {q \in Expand(c.rows) : Catches(q[1]) \/ q[1] = head}}, tail, types)}
    [] head[1] = "seq" /\ (sequence \/ t = Unknown) ->
         SequenceCalls(c.rows, head[2], head[3] # <<>>, tail, types, ElementType(t))
    [] Catches(head) /\ sequence ->
         SequenceCalls(c.rows, <<>>, TRUE, tail, types, ElementType(t))
    [] head[1] = "hash" /\ t[1] \in {"Hash", "HashValues", "Unknown"} ->
         HashCalls(c.rows, head[2], tail, types)
    [] Catches(head) /\ t[1] \in {"Hash", "HashValues"} ->
         {DefaultCall(c.rows, CatchesHash, tail, types)}
    [] Constructed(head) ->
         {ConstructorCall(c.rows, k, Arguments(head), tail, types) : k \in Signatures(head, t)}
    [] Catches(head) /\ constructors # {} /\ named = constructors ->
         {ConstructorCall(c.rows, k, Wilds(Len(k[2])), tail, types) : k \in constructors}
    [] OTHER -> {plain}

-----------------------------------------------------------------------------
(* The statement: match { arms } or a destructuring let of one pattern.       *)

Question(rows, p, t, want) ==
  [call |-> Call(rows, <<Strip(p)>>, <<t>>), want |-> want]

\* No alternative of an or-pattern is redundant.
RECURSIVE OrQuestions(_, _)
OrQuestions(p, t) ==
  LET inner == Inner(p, t)
      asked(i) == IF p[1] # "or" THEN <<>>
                  ELSE <<Question({<<Strip(p[2][j])>> : j \in 1..(i - 1)}, p[2][i], t, TRUE)>>
  IN  FlattenSeq(Map(LAMBDA i : asked(i) \o OrQuestions(inner[i][1], inner[i][2]), Len(inner)))

\* Variant: guarded arms count as covering.
QuestionsOfAll(s) ==
  LET earlier(n) == {<<Strip(s.arms[i].pattern)>> : i \in 1..n}
      asked(i) == Append(OrQuestions(s.arms[i].pattern, s.type),
                         Question(earlier(i - 1), s.arms[i].pattern, s.type, TRUE))
  IN  IF s.kind = "let" THEN <<>>
      ELSE Append(FlattenSeq(Map(asked, Len(s.arms))),
                  Question(earlier(Len(s.arms)), Wild, s.type, FALSE))

\* Each arm is reachable, and together they leave nothing (match_type).
Questions(s) ==
  LET unguarded(n) == {<<Strip(s.arms[i].pattern)>> : i \in {j \in 1..n : ~s.arms[j].guard}}
      asked(i) == Append(OrQuestions(s.arms[i].pattern, s.type),
                         Question(unguarded(i - 1), s.arms[i].pattern, s.type, TRUE))
  IN  IF s.kind = "let" THEN <<>>
      ELSE Append(FlattenSeq(Map(asked, Len(s.arms))),
                  Question(unguarded(Len(s.arms)), Wild, s.type, FALSE))

Init ==
  /\ statement \in Statements
  /\ phase = "check"
  /\ questions = <<>> /\ todo = {} /\ answered = <<>>
  /\ value = <<>> /\ arm = 0 /\ bound = <<>>

Validate ==
  /\ phase = "check"
  /\ IF Valid(statement)
     THEN phase' = "ask" /\ questions' = Questions(statement)
     ELSE phase' = "rejected" /\ UNCHANGED questions
  /\ UNCHANGED <<statement, todo, answered, value, arm, bound>>

Ask ==
  /\ phase = "ask"
  /\ IF questions = <<>> THEN phase' = "accepted" /\ UNCHANGED todo
     ELSE phase' = "analyze" /\ todo' = {Head(questions).call}
  /\ UNCHANGED <<statement, questions, answered, value, arm, bound>>

Answer(useful) ==
  /\ answered' = <<Head(questions).call, useful>>
  /\ phase' = IF useful = Head(questions).want THEN "ask" ELSE "rejected"
  /\ questions' = Tail(questions)
  /\ todo' = {}

\* One call of pattern_vector_is_useful.
Analyze ==
  /\ phase = "analyze"
  /\ IF todo = {} THEN Answer(FALSE)
     ELSE LET c == CHOOSE x \in todo : TRUE IN
          IF c.candidate # <<>>
          THEN todo' = (todo \ {c}) \cup Calls(c) /\ UNCHANGED <<phase, questions, answered>>
          ELSE IF c.rows = {} THEN Answer(TRUE)
          ELSE todo' = todo \ {c} /\ UNCHANGED <<phase, questions, answered>>
  /\ UNCHANGED <<statement, value, arm, bound>>

\* The accepted statement runs with some value of its type.
Run ==
  /\ phase = "accepted"
  /\ phase' = "run" /\ arm' = 1
  /\ value' \in Domain[statement.type]
  /\ UNCHANGED <<statement, questions, todo, answered, bound>>

TryArm ==
  /\ phase = "run"
  /\ UNCHANGED <<statement, questions, todo, answered, value>>
  /\ IF arm > Len(statement.arms) THEN phase' = "failed" /\ UNCHANGED <<arm, bound>>
     ELSE LET a == statement.arms[arm]
              m == Match(a.pattern, value) IN
          IF m.is = "not" THEN arm' = arm + 1 /\ UNCHANGED <<phase, bound>>
          ELSE /\ UNCHANGED arm
               /\ IF m.is = "error" \/ (a.pattern[1] = "ref" /\ value[1] \notin {"Array", "List", "Hash"})
                  THEN phase' = "error" /\ UNCHANGED bound
                  ELSE bound' = m.bind /\ phase' = IF a.guard THEN "guard" ELSE "body"

\* The guard reads the bindings; when it is false the arm's scope is dropped.
Guard ==
  /\ phase = "guard"
  /\ \E outcome \in {"true", "false", "error"} :
       CASE outcome = "true" -> phase' = "body" /\ UNCHANGED <<arm, bound>>
         [] outcome = "false" -> phase' = "run" /\ arm' = arm + 1 /\ bound' = <<>>
         [] outcome = "error" -> phase' = "error" /\ bound' = <<>> /\ UNCHANGED arm
  /\ UNCHANGED <<statement, questions, todo, answered, value>>

Body ==
  /\ phase = "body"
  /\ phase' = "done"
  /\ UNCHANGED <<statement, questions, todo, answered, value, arm, bound>>

Next == Validate \/ Ask \/ Analyze \/ Run \/ TryArm \/ Guard \/ Body

Spec == Init /\ [][Next]_vars

\* The analyzer and the evaluator run without waiting for anything.
FairSpec == Spec /\ WF_vars(Next)

-----------------------------------------------------------------------------
(* Properties.                                                                *)

RECURSIVE HasType(_, _)
HasType(v, t) ==
  CASE t = Unknown -> TRUE
    [] t[1] \in {"Array", "List"} -> v[1] = t[1] /\ \A i \in 1..Len(v[2]) : HasType(v[2][i], t[2])
    [] t[1] = "Vector" -> /\ v[1] \in {"Array", "List", "Tuple"}
                          /\ t[3] # <<>> => Len(v[2]) = t[3][1]
                          /\ \A i \in 1..Len(v[2]) : HasType(v[2][i], t[2])
    [] t[1] = "Tuple" -> /\ v[1] = "Tuple" /\ Len(v[2]) = Len(t[2])
                         /\ \A i \in 1..Len(t[2]) : HasType(v[2][i], t[2][i])
    [] t[1] = "HashValues" -> v[1] = "Hash" /\ \A k \in DOMAIN v[2] : HasType(v[2][k], t[2])
    [] t[1] \in {"Struct", "Enum"} -> v[1] = t[1] /\ v[2] = t[2]
    [] OTHER -> v[1] = t[1]

RECURSIVE HasSequence(_)
HasSequence(p) ==
  \/ p[1] = "seq"
  \/ p[1] = "tuple" /\ \E i \in 1..Len(p[2]) : HasSequence(p[2][i])

TupleBacked == statement.type[1] = "Vector" /\ value # <<>> /\ value[1] = "Tuple"

\* A match the analyzer accepted always finds an arm, whatever its guards say,
\* and a let it accepted fits unless a sequence has another length. (A Vector
\* backed by a tuple fits no sequence pattern.)
ExhaustiveMatches ==
  phase = "failed" => \/ statement.kind = "let" /\ HasSequence(statement.arms[1].pattern)
                      \/ TupleBacked

Reaches(c) ==
  \E v \in Domain[c.types[1]] :
    Matches(c.candidate[1], v) /\ \A r \in c.rows : ~Matches(r[1], v)

\* Types whose values the analyzer takes apart completely.
RECURSIVE Precise(_)
Precise(t) ==
  CASE t[1] \in {"Int", "Bool", "Enum"} -> TRUE
    [] t[1] \in {"Array", "List"} -> Precise(t[2])
    [] t[1] = "Tuple" -> \A i \in 1..Len(t[2]) : Precise(t[2][i])
    [] t[1] = "Struct" -> \A i \in 1..Len(Structs[t[2]]) : Precise(Structs[t[2]][i][2])
    [] OTHER -> FALSE

RECURSIVE Simple(_)
Simple(p) ==
  /\ p[1] = "or" => \A i \in 1..Len(p[2]) : p[2][i][1] # "or"
  /\ p[1] = "range" => Bounds(p) # {}
  /\ p[1] \in {"or", "tuple", "seq"} => \A i \in 1..Len(p[2]) : Simple(p[2][i])
  /\ p[1] = "enum" => \A i \in 1..Len(p[4]) : Simple(p[4][i])

\* What the analyzer calls unreachable, redundant or exhaustive is so; what it
\* calls reachable is, for types it takes apart completely.
UsefulnessIsExact ==
  answered # <<>> =>
    LET c == answered[1] IN
    IF answered[2] THEN (Precise(c.types[1]) /\ \A r \in c.rows \cup {c.candidate} : Simple(r[1])) => Reaches(c)
    ELSE Reaches(c) => statement.type[1] = "Vector"

\* The bindings an arm runs with have the names and the types the arm was
\* checked with, whichever alternative of an or-pattern matched. (A rest of a
\* Vector keeps the Vector's dimension, or the Array of a let, in its type.)
BoundAsChecked ==
  phase \in {"guard", "body"} =>
    LET checked == Binds(statement.arms[arm].pattern, statement.type) IN
    /\ Keys(bound) = Keys(checked)
    /\ statement.type[1] # "Vector" =>
         \A name \in Keys(checked) : HasType(At(bound, name), At(checked, name))

\* The elements of a sequence are those its patterns took and those of the rest.
RestIsRemainder ==
  phase \in {"guard", "body"} =>
    LET p == statement.arms[arm].pattern IN
    (p[1] = "seq" /\ p[3] # <<>>) =>
      Elements(At(bound, p[3][1])) = SubSeq(Elements(value), Len(p[2]) + 1, Len(Elements(value)))

\* The analysis of every statement ends, and so does its run.
Terminates == <>(phase \in {"rejected", "done", "failed", "error"})
=============================================================================
