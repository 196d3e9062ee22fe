--------------------------- MODULE CheckedImports ---------------------------
(***************************************************************************)
(* The analysis of a program and its execution together: what `simply      *)
(* check` accepts, and how it then runs.  The parameter Free of Imports is  *)
(* what closure_dependencies computes.                                     *)
(***************************************************************************)
EXTENDS Imports, ImportAnalysis

CONSTANT TypeNames   \* the names the programs use for structs

Accepted == Accepts(disk, Root)

-----------------------------------------------------------------------------
(* The free names of a body: read or called there and not bound before by  *)
(* the body itself (closure_dependencies).                                 *)
RECURSIVE FreeFrom(_, _, _)

FreeNames(body) == FreeFrom(body, 1, {})

ExpressionNames(e) ==
    CASE e.kind = "lit"  -> {}
      [] e.kind = "name" -> {e.n}
      [] e.kind = "call" -> {e.n}
      [] e.kind = "send" -> {e.n, e.m}

FreeFrom(body, i, bound) ==
    IF i > Len(body) THEN {}
    ELSE LET s == body[i]
         IN  CASE s.op = "let" -> (ExpressionNames(s.e) \ bound)
                                     \cup FreeFrom(body, i + 1, bound \cup {s.n})
               [] s.op = "fn"  -> (FreeNames(s.body) \ bound)
                                     \cup FreeFrom(body, i + 1, bound \cup {s.n})
               [] s.op \in {"do", "return"} ->
                     (ExpressionNames(s.e) \ bound) \cup FreeFrom(body, i + 1, bound)
               [] OTHER -> FreeFrom(body, i + 1, bound)

-----------------------------------------------------------------------------
(* What a function's free name stands for where the function was declared: *)
(* the binding it saw then, or else the binding of its file's top level.   *)
Declared(f, n) ==
    IF n \in DOMAIN functions[f].sees THEN functions[f].sees[n]
    ELSE LET globals == Globals(functions[f].home)
         IN  IF n \in DOMAIN globals THEN globals[n] ELSE Nothing

(* Every function reads the bindings that are lexically visible to it.     *)
LexicalBindings ==
    lastRead.f # 0 /\ Accepted => lastRead.v = Declared(lastRead.f, lastRead.n)
-----------------------------------------------------------------------------
(* Files in the usual order: modules are opened first, declarations come   *)
(* before uses and do not call, a module returns once and last, and what   *)
(* concerns a type stays in the file that declares it.                     *)
Rank(s) ==
    CASE Opens(s) -> 1
      [] s.op \in {"let", "fn"} -> 2
      [] s.op \in {"do", "return"} -> 3
      [] OTHER -> 0

InUsualOrder(text) ==
    /\ \A i, j \in DOMAIN text :
        i < j /\ Rank(text[i]) # 0 /\ Rank(text[j]) # 0 => Rank(text[i]) <= Rank(text[j])
    /\ \A i \in DOMAIN text : text[i].op = "return" => i = Len(text)
    /\ \A i \in DOMAIN text : text[i].op = "let" => text[i].e.kind \in {"lit", "name"}

RECURSIVE UsesTypes(_, _)
UsesTypes(body, types) ==
    \E i \in DOMAIN body :
        \/ body[i].op \in {"let", "do", "return"}
              /\ body[i].e.kind \in {"call", "send"} /\ body[i].e.n \in types
        \/ body[i].op = "fn" /\ UsesTypes(body[i].body, types)

TypesStayHome(text) ==
    /\ \A i \in DOMAIN text : text[i].op = "message" => text[i].n \in NamesOf(text, "struct")
    /\ \A i \in DOMAIN text :
        text[i].op \in {"fn", "message"} => ~UsesTypes(text[i].body, TypeNames)

(* What the analysis accepts then runs without an import failing, without  *)
(* an unknown or doubly declared name and without a message that is not    *)
(* understood: the two passes agree on what every file sees of the others. *)
(* And whatever the order of the files, a function of an imported module   *)
(* reads only names that were visible where it was declared, and a message *)
(* only names its module has bound when it returns.                        *)
AcceptedProgramsResolve ==
    LET f == lastRead.f
        n == lastRead.n
        home == functions[f].home
    IN  /\ /\ status \in {"import", "name", "duplicate", "message"}
           /\ \A file \in Files : InUsualOrder(disk[file]) /\ TypesStayHome(disk[file])
           => ~Accepted
        /\ f # 0 /\ Imported(home) =>
              \/ Named(f) /\ n \in DOMAIN functions[f].sees
              \/ ~Named(f) /\ (Left(home) /\ NothingExportedAgain => n \in DOMAIN Globals(home))
              \/ ~Accepted
=============================================================================
