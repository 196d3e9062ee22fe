----------------------------- MODULE MCImports -----------------------------
(***************************************************************************)
(* Small programs of an executed file and two modules.  The path "next"    *)
(* names another file in every directory, and closes a cycle in the last.  *)
(***************************************************************************)
EXTENDS CheckedImports

MCFiles == {"main", "lib", "util"}
MCLocate == [main |-> [next |-> "lib",  leaf |-> "util", lost |-> Nowhere],
             lib  |-> [next |-> "util", leaf |-> "util", lost |-> Nowhere],
             util |-> [next |-> "main", leaf |-> "lib",  lost |-> Nowhere]]
MCTypeNames == {"T"}

x == Let("x", Lit("x here"))
y == Let("x", Lit("x of lib"))
f == Fn("f", <<Return(Name("x"))>>)
g == Fn("g", <<Let("x", Lit("x in g")), Return(Call("f"))>>)
h == Fn("h", <<Fn("k", <<Return(Name("x"))>>), Return(Name("k"))>>)
p == Fn("p", <<Return(Call("g"))>>)
r == Fn("f", <<Do(Name("x")), Return(Call("f"))>>)
T == Struct("T")
m == Message("T", "m", <<Return(Name("x"))>>)

(* The sequences of distinct members of a set, up to a length.             *)
Orders(S, n) == {s \in UNION {[1 .. k -> S] : k \in 0 .. n} : Distinct(s)}

Ends == {<<Return(Name("x"))>>, <<Return(Lit("end"))>>, <<>>}
Exporting == {<<>>, <<Export(<<"g">>)>>, <<Export(<<"f", "T">>)>>}

(* Modules that open no other, in every order of their declarations.       *)
Leaves ==
    {e \o body \o <<Return(Lit("end"))>> : e \in Exporting, body \in Orders({x, f, g}, 3)}
    \cup {body \o <<p, Export(<<"p">>), Return(Lit("end"))>> : body \in Orders({x, f, g}, 3)}
    \cup {d \o <<Export(e)>> \o end : d \in {<<T, m, x>>, <<T, x, m>>},
                                     e \in {<<"T">>, <<"T", "T">>}, end \in Ends}
    \cup {<<T, Fn("f", <<Return(e)>>), Export(<<"f">>), Return(Lit("end"))>> :
                e \in {Call("T"), Send("T", "m")}}
    \cup {<<Export(<<"x">>), Return(Lit("early")), x>>}
    \cup {<<x, h, Return(Call("h"))>>, <<x, r, Export(<<"f">>), Return(Name("f"))>>}

(* Modules that open another and pass on what it offers.                   *)
Openings == {<<Open("next", "v")>>, <<Open("lost", "v")>>, <<Expose("next", <<<<"f", "f">>>>)>>,
             <<Expose("next", <<<<"g", "f">>>>)>>, <<Expose("leaf", <<<<"T", "T">>>>)>>,
             <<Expose("next", <<<<"T", "T">>>>)>>,
             <<Expose("leaf", <<<<"f", "f">>, <<"T", "f">>>>)>>}

Passing ==
    {<<Export(<<n>>)>> \o o \o <<y, Fn("p", <<Return(Call("f"))>>), Return(Lit("end"))>> :
        o \in Openings, n \in {"f", "p", "T", "v"}}
    \cup {<<Expose("leaf", <<<<"T", "T">>>>), y, Export(<<"T">>), Return(Lit("end"))>>}

(* Executed files: each opens modules and uses what it got, with bindings  *)
(* of its own under the same names.                                        *)
Uses == {<<Do(Call("f"))>>, <<Do(Call("T"))>>, <<Do(Send("T", "m"))>>, <<Do(Call("v"))>>,
         <<Fn("q", <<Let("x", Lit("x in q")), Return(Call("f"))>>), Do(Call("q"))>>}

Mains ==
    {o \o own \o u : o \in Openings \cup {<<Expose("next", <<<<"p", "f">>>>)>>},
                     own \in {<<>>, <<Let("x", Lit("x of main"))>>}, u \in Uses}
    \cup {body \o <<Do(Call("g"))>> : body \in Orders({x, f, g}, 3)}
    \cup Orders({x, f, Do(Call("f"))}, 3)
    \cup {<<Expose("next", <<<<"p", "p">>>>), Do(Call("p"))>>,
           <<Expose("next", <<<<"T", "T">>>>), x, m, Do(Send("T", "m"))>>,
           <<Expose("next", <<<<"T", "T">>>>), x, Message("T", "k", <<Return(Name("x"))>>)>>,
           <<T, x, m, Do(Call("T")), Do(Send("T", "m"))>>}

(* What the last module may be when another passes it on.                  *)
Deepest ==
    {<<x, f, g, Export(<<"f", "g">>), Return(Name("x"))>>,
     <<f, x, Export(<<"f">>), Return(Name("f"))>>,
     <<T, x, m, Export(<<"T">>), Return(Name("x"))>>,
     <<Open("next", "v"), Return(Name("v"))>>,
     <<Open("leaf", "v"), Return(Name("v"))>>}

MCPrograms ==
    [main : Mains, lib : Leaves, util : {<<Return(Lit("end"))>>}]
    \cup [main : Mains, lib : Passing, util : Deepest]

(* Their statements, down to those of the nested functions.                *)
StatementsIn(bodies) == UNION {ToSet(b) : b \in bodies}
Bodies(S) == {s.body : s \in {d \in S : d.op \in {"fn", "message"}}}

MCStatements ==
    LET outer == StatementsIn(Mains \cup Leaves \cup Passing \cup Deepest)
        inner == StatementsIn(Bodies(outer))
    IN  outer \cup inner \cup StatementsIn(Bodies(inner))
=============================================================================
