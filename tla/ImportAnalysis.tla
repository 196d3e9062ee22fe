--------------------------- MODULE ImportAnalysis ---------------------------
(***************************************************************************)
(* The static analysis of a file and of the modules it opens, before any   *)
(* of them runs (semantic/imports.rs, semantic/declarations.rs and the     *)
(* parts of semantic/statements.rs and semantic/expressions.rs that decide *)
(* which names a statement may use).                                       *)
(***************************************************************************)
EXTENDS Texts

(***************************************************************************)
(* An analysis is a record: whether all was well so far, the scopes of     *)
(* variables and of functions, the functions a statement may not use yet   *)
(* (with the index of their scope), whether the file is a module, the      *)
(* types and the messages known, the names imported as values, and whether *)
(* a return at the top level was seen.                                     *)
(***************************************************************************)
Fresh(module) ==
    [ok |-> TRUE, vars |-> <<{}>>, fns |-> <<{}>>, later |-> {},
     module |-> module, structs |-> <<>>, messages |-> {}, imported |-> {},
     returned |-> FALSE]

Require(a, condition) == [a EXCEPT !.ok = @ /\ condition]

Nested(a) == Len(a.fns) > 1

Visible(a, n) == \E i \in DOMAIN a.vars : n \in a.vars[i]

InOrderAnywhere(a, n) == TRUE

(* A function declared by a later statement is out of reach, except at the *)
(* top level of the executed file.                                         *)
InOrder(a, n) ==
    LET declaring == {i \in DOMAIN a.fns : n \in a.fns[i]}
    IN  declaring # {} =>
            <<CHOOSE i \in declaring : \A j \in declaring : j <= i, n>> \notin a.later

NameUsable(a, n) == Visible(a, n) /\ InOrder(a, n)

CallUsable(a, n) == InOrder(a, n) /\ (n \in DOMAIN a.structs \/ Visible(a, n))

SendUsable(a, t, m) == t \in DOMAIN a.structs /\ <<a.structs[t], m>> \in a.messages

Usable(a, e) ==
    CASE e.kind = "lit"  -> TRUE
      [] e.kind = "name" -> NameUsable(a, e.n)
      [] e.kind = "call" -> CallUsable(a, e.n)
      [] e.kind = "send" -> SendUsable(a, e.n, e.m)

(* A second declaration of a name in one scope is refused.                 *)
Define(a, n) ==
    LET top == Len(a.vars)
    IN  [Require(a, n \notin a.vars[top]) EXCEPT !.vars[top] = @ \cup {n}]

(* All the functions of a body are entered before its statements are read. *)
CollectFunctions(a, body) ==
    LET names == NamesOf(body, "fn")
        top == Len(a.vars)
    IN  [Require(a, /\ Cardinality(Places(body, "fn")) = Cardinality(names)
                    /\ names \cap (DOMAIN a.structs \cup a.vars[top]) = {})
           EXCEPT !.vars[top] = @ \cup names, !.fns[Len(a.fns)] = @ \cup names]

(* The structs of the file, then its messages: a name that is already a    *)
(* type, imported ones included, is refused, and so is a message twice.    *)
CollectTypes(a, file, text) ==
    LET declared == SelectSeq(text, LAMBDA s : s.op = "struct")
        messages == SelectSeq(text, LAMBDA s : s.op = "message")
        names == {declared[i].n : i \in DOMAIN declared}
        structs == [n \in names |-> Identity(file, n)] @@ a.structs
        known == \A i \in DOMAIN messages : messages[i].n \in DOMAIN structs
        keys == {<<structs[messages[i].n], messages[i].m>> : i \in DOMAIN messages}
    IN  IF names \cap DOMAIN a.structs # {} \/ Cardinality(names) # Len(declared) \/ ~known
        THEN Require(a, FALSE)
        ELSE [Require(a, Cardinality(keys) = Len(messages) /\ keys \cap a.messages = {})
                EXCEPT !.structs = structs, !.messages = @ \cup keys]

(* The functions the statements after the i-th declare, when the order of  *)
(* statements counts: in a module, and in every function.                  *)
Following(a, body, i) ==
    IF Nested(a) \/ a.module
    THEN {<<Len(a.fns), n>> : n \in NamesOf(SubSeq(body, i + 1, Len(body)), "fn")}
    ELSE {}

Enter(a) == [a EXCEPT !.vars = Append(@, {}), !.fns = Append(@, {})]

RECURSIVE AnalyzeFrom(_, _, _), AnalyzeStatement(_, _)

AnalyzeFrom(a, body, i) ==
    IF ~a.ok \/ i > Len(body) THEN a
    ELSE LET b == AnalyzeStatement([a EXCEPT !.later = @ \cup Following(a, body, i)], body[i])
         IN  AnalyzeFrom([b EXCEPT !.later = a.later], body, i + 1)

(* A body is read in a scope of its own, where it is declared: a name must *)
(* be visible there, wherever the function is called.                      *)
AnalyzeFunction(a, body) ==
    Require(a, AnalyzeFrom(CollectFunctions(Enter(a), body), body, 1).ok)

AnalyzeMessage(a, body) ==
    Require(a, AnalyzeFrom(CollectFunctions(Enter(a), body), body, 1).ok)

(* An exposed name is a value or a type the module exports.                *)
AnalyzeExposed(a, names) ==
    LET locals == [i \in DOMAIN names |-> names[i][2]]
        values == SelectSeq(locals, LAMBDA l : l \in a.imported)
        others == SelectSeq(locals, LAMBDA l : l \notin a.imported)
    IN  FoldLeft(Define, Require(a, ToSet(others) \subseteq DOMAIN a.structs), values)

AnalyzeReturn(a, e) ==
    [Require(a, Usable(a, e) /\ (Nested(a) \/ a.module)) EXCEPT !.returned = @ \/ ~Nested(a)]

AnalyzeStatement(a, s) ==
    CASE s.op = "let"     -> Define(Require(a, Usable(a, s.e)), s.n)
      [] s.op = "do"      -> Require(a, Usable(a, s.e))
      [] s.op = "return"  -> AnalyzeReturn(a, s.e)
      [] s.op = "fn"      -> AnalyzeFunction(a, s.body)
      [] s.op = "message" -> AnalyzeMessage(a, s.body)
      [] s.op = "struct"  -> a
      [] s.op = "export"  -> Require(a, a.module /\ ~Nested(a))
      [] s.op = "open"    -> Define(a, s.alias)
      [] s.op = "expose"  -> AnalyzeExposed(a, s.names)

(***************************************************************************)
(* What a module offers the files that open it: the names of its exported  *)
(* values, and of its exported types with their identities and messages.   *)
(***************************************************************************)
Refused == [ok |-> FALSE, values |-> {}, types |-> <<>>, messages |-> {}]

Interface(a, text) ==
    LET names == ToSet(Exported(text))
        values == {n \in names : Visible(a, n)}
        types == [n \in (names \ values) \cap DOMAIN a.structs |-> a.structs[n]]
    IN  [ok |-> a.ok /\ names \subseteq values \cup DOMAIN types,
         values |-> values, types |-> types,
         messages |-> {k \in a.messages : \E n \in DOMAIN types : types[n] = k[1]}]

(* The types of the modules a file exposes are known in the whole file.    *)
AdoptExposed(a, names, interface) ==
    LET offered == interface.values \cup DOMAIN interface.types
        known == {i \in DOMAIN names : names[i][1] \in offered}
        types == {i \in known : names[i][1] \notin interface.values}
        locals == {names[i][2] : i \in DOMAIN names}
        From(l) == CHOOSE i \in types : names[i][2] = l
        adopted == [l \in {names[i][2] : i \in types} |-> interface.types[names[From(l)][1]]]
    IN  [Require(a, known = DOMAIN names /\ Cardinality(locals) = Len(names))
           EXCEPT !.structs = adopted @@ @,
                  !.messages = @ \cup {k \in interface.messages :
                                          \E l \in DOMAIN adopted : adopted[l] = k[1]},
                  !.imported = @ \cup {names[i][2] : i \in known \ types}]

RECURSIVE AnalyzeImports(_, _, _), AnalyzeOpens(_, _, _, _, _)

(* The opened modules, in the order of the file, each analyzed before the  *)
(* file itself: one that is missing or already being analyzed is refused.  *)
AnalyzeOpens(a, disk, file, stack, i) ==
    IF ~a.ok \/ i > Len(disk[file]) THEN a
    ELSE LET s == disk[file][i]
             found == Locate[file][s.path]
             interface == IF found = Nowhere \/ Contains(stack, found) THEN Refused
                          ELSE AnalyzeImports(disk, found, Append(stack, found))
             b == IF ~Opens(s) THEN a
                  ELSE IF ~interface.ok THEN Require(a, FALSE)
                  ELSE IF s.op = "open" THEN [a EXCEPT !.imported = @ \cup {s.alias}]
                  ELSE AdoptExposed(a, s.names, interface)
         IN  AnalyzeOpens(b, disk, file, stack, i + 1)

AnalyzeImports(disk, file, stack) ==
    LET text == disk[file]
        module == Len(stack) > 1
        start == Require(Fresh(module), Distinct(Exported(text)))
        opened == AnalyzeOpens(start, disk, file, stack, 1)
        declared == CollectFunctions(CollectTypes(opened, file, text), text)
        a == AnalyzeFrom(declared, text, 1)
    IN  IF ~opened.ok \/ ~declared.ok THEN Refused
        ELSE Interface(Require(a, module => a.returned), text)

(* `simply check` of a file.                                               *)
Accepts(disk, root) == AnalyzeImports(disk, root, <<root>>).ok
=============================================================================
