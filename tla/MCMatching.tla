----------------------------- MODULE MCMatching -----------------------------
(* Statements over small types: each with some patterns, up to three arms of  *)
(* them, one of which may have a guard.                                       *)
EXTENDS Matching

I(n) == <<"Int", n>>
B(b) == <<"Bool", b>>
N == <<"lit", I(0)>>
T == <<"lit", B(TRUE)>>
F == <<"lit", B(FALSE)>>
X(name) == <<"bind", name>>
Seq1(ps) == <<"seq", ps, <<>>>>
Rest(ps, name) == <<"seq", ps, <<name>>>>
Or(ps) == <<"or", ps>>
Span(low, high, inclusive) == <<"range", low, high, inclusive>>

MCEnums ==
  [Light |-> << <<"Red", <<>>>>, <<"Green", <<BoolType>>>> >>,
   Chain |-> << <<"End", <<>>>>, <<"Link", << <<"Enum", "Chain">> >>>> >>]
MCStructs == [Point |-> << <<"x", BoolType>>, <<"y", IntType>> >>]
MCMinInt == -2
MCMaxInt == 2
MCRecords == << <<"List", << <<"String", "a">> >>>>, <<"List", <<>>>> >>

Light == <<"Enum", "Light">>
Point == <<"Struct", "Point">>
Pair == <<"Tuple", <<BoolType, IntType>>>>
Bits == <<"List", BoolType>>
Bools == {B(TRUE), B(FALSE)}
Ints == {I(n) : n \in MCMinInt..MCMaxInt}
Lists(tag, S, n) == {<<tag, s>> : s \in UNION {[1..k -> S] : k \in 0..n}}
Hashes(S) == {<<"Hash", h>> : h \in UNION {[k -> S] : k \in SUBSET {"a", "b"}}}
Lights == {<<"Enum", "Light", "Red", <<>>>>} \cup {<<"Enum", "Light", "Green", <<b>>>> : b \in Bools}
Points == {<<"Struct", "Point", <<b, n>>>> : b \in Bools, n \in Ints}
Pairs == {<<"Tuple", <<b, n>>>> : b \in Bools, n \in Ints}
Ranges == {<<"Range", 0, 2, 1>>, <<"Range", 2, -2, -2>>, <<"Range", 1, 1, 1>>, <<"Range", 0, 2, 2>>,
           <<"Range", 1, 2, 2>>}

MCDomain ==
  IntType :> Ints @@ BoolType :> Bools @@ Light :> Lights @@ Point :> Points @@ Pair :> Pairs
  @@ Bits :> Lists("List", Bools, 3)
  @@ <<"Vector", BoolType, <<>>>> :> Lists("Array", Bools, 2) \cup Lists("Tuple", Bools, 1)
  @@ <<"Range">> :> Ranges
  @@ <<"CsvStream">> :> {<<"CsvStream", n>> : n \in 0..2}
  @@ <<"HashValues", BoolType>> :> Hashes(Bools)
  @@ <<"Hash">> :> Hashes(Bools \cup {I(0)})
  @@ Unknown :> Bools \cup {I(0), I(1)} \cup Lists("List", {I(0)}, 1) \cup Hashes({I(0)})
  @@ <<"Enum", "Chain">> :> {<<"Enum", "Chain", "End", <<>>>>}

Red == <<"enum", "Light", "Red", <<>>>>
Green(p) == <<"enum", "Light", "Green", <<p>>>>
P(x, y) == <<"tuple", <<x, y>>>>

MCPatterns ==
  IntType :> {Wild, X("n"), N, Span(<<>>, <<0>>, FALSE), Span(<<0>>, <<>>, FALSE), Span(<<1>>, <<1>>, FALSE),
              Or(<<N, Span(<<1>>, <<2>>, TRUE)>>), <<"alias", "n", Span(<<-1>>, <<1>>, TRUE)>>}
  @@ Light :> {Red, Green(T), Green(X("b")), Or(<<Red, Green(F)>>), Or(<<Red, Green(X("b"))>>), X("l"),
               Or(<<Green(Or(<<T, F>>)), Wild>>)}
  @@ Pair :> {P(T, Wild), P(X("b"), N), P(Or(<<T, F>>), Span(<<1>>, <<>>, FALSE)), P(X("n"), X("n")),
              Or(<<P(T, X("n")), P(F, X("n"))>>), Or(<<P(T, X("n")), P(X("n"), N)>>),
              P(Wild, Span(<<>>, <<0>>, FALSE)), P(T, Or(<<Wild, N>>))}
  @@ Point :> {<<"struct", "Point", <<T, X("n")>>>>, <<"named", "Point", << <<"x", F>> >>>>,
               <<"named", "Point", << <<"y", N>>, <<"x", X("b")>> >>>>, <<"named", "Point", <<>>>>,
               <<"struct", "Point", <<F, Span(<<0>>, <<>>, FALSE)>>>>, <<"struct", "Point", <<T>>>>}
  @@ Bits :> {Seq1(<<>>), Rest(<<X("h")>>, "t"), Rest(<<>>, "t"), Seq1(<<T>>), Rest(<<T, Wild>>, "t"),
              Or(<<Seq1(<<X("h")>>), Rest(<<X("h"), F>>, "t")>>), Or(<<Seq1(<<>>), Seq1(<<F>>)>>), <<"ref", "c">>}
  @@ <<"Vector", BoolType, <<>>>> :> {Seq1(<<>>), Rest(<<X("h")>>, "t"), Wild, Seq1(<<T>>)}
  @@ <<"Range">> :> {Seq1(<<>>), Rest(<<X("h")>>, "t"), Rest(<<Wild, Wild>>, "t"), Wild}
  @@ <<"CsvStream">> :> {Seq1(<<>>), Rest(<<X("h")>>, "t"), Seq1(<<Wild, X("r")>>)}
  @@ <<"HashValues", BoolType>> :>
       {<<"hash", << <<"a", T>> >>>>, <<"hash", << <<"a", X("v")>> >>>>, <<"hash", <<>>>>,
        <<"hash", << <<"b", F>>, <<"a", Wild>> >>>>, Or(<< <<"hash", << <<"b", T>> >>>>, Wild>>)}
  @@ <<"Hash">> :> {<<"hash", << <<"a", N>> >>>>, <<"hash", << <<"a", T>> >>>>, <<"ref", "c">>, <<"hash", <<>>>>}
  @@ Unknown :> {N, T, Span(<<0>>, <<1>>, FALSE), Seq1(<<X("h")>>), <<"hash", << <<"a", N>> >>>>, <<"ref", "c">>, Wild}

MCStatements ==
  LET arms(S) == {[pattern |-> p, guard |-> g] : p \in S, g \in BOOLEAN}
      lists(S) == UNION {[1..n -> arms(S)] : n \in 1..3}
  IN
  UNION {{[kind |-> "match", type |-> t, arms |-> a] :
            a \in {l \in lists(MCPatterns[t]) : Cardinality({i \in DOMAIN l : l[i].guard}) <= 1}} :
           t \in DOMAIN MCPatterns}
  \cup {[kind |-> "let", type |-> t, arms |-> << [pattern |-> p, guard |-> FALSE] >>] :
          t \in {Pair, Bits, <<"Range">>, <<"CsvStream">>, IntType},
          p \in {P(X("a"), Wild), P(X("a"), X("a")), Seq1(<<X("a"), Wild>>), Rest(<<X("a")>>, "t"), X("a"), N}}

\* Recursive types: an enum whose payload is the enum.
MCRecursive ==
  {[kind |-> "match", type |-> <<"Enum", "Chain">>,
    arms |-> << [pattern |-> <<"enum", "Chain", "End", <<>>>>, guard |-> FALSE],
                [pattern |-> <<"enum", "Chain", "Link", <<Wild>>>>, guard |-> FALSE] >>]}
=============================================================================
