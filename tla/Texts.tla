------------------------------- MODULE Texts -------------------------------
(***************************************************************************)
(* The statements of programs that open each other (ast.rs, parser.rs), as *)
(* far as names go: what the analysis of a file and its execution share.   *)
(*                                                                         *)
(* A program is a function from files to texts, a text a sequence of       *)
(* statements.  Types, parameters, fields and enums are left out: what is  *)
(* kept is where a name is declared, where it is used, and in which order. *)
(*                                                                         *)
(*   expressions  Lit(v)  Name(n)  Call(n)  Send(type, message)            *)
(*   statements   Let(n, e)  Fn(n, body)  Struct(n)                        *)
(*                Message(type, m, body)  Open(path, alias)                *)
(*                Expose(path, <<<<exported, local>>, ...>>)               *)
(*                Export(<<n, ...>>)  Do(e)  Return(e)                     *)
(*                                                                         *)
(* Call(n) constructs an instance when n names a struct; Send(t, m) sends  *)
(* m to a new instance of t.                                               *)
(***************************************************************************)
EXTENDS Naturals, Sequences, FiniteSets, SequencesExt

CONSTANTS Files,     \* the files on disk
          Locate,    \* Locate[file][path]: the file a path written in file names
          Nowhere    \* what a path that names no file resolves to

Lit(v)  == [kind |-> "lit", v |-> v]
Name(n) == [kind |-> "name", n |-> n]
Call(n) == [kind |-> "call", n |-> n]
Send(t, m) == [kind |-> "send", n |-> t, m |-> m]

Let(n, e)        == [op |-> "let", n |-> n, e |-> e]
Fn(n, body)      == [op |-> "fn", n |-> n, body |-> body]
Struct(n)        == [op |-> "struct", n |-> n]
Message(t, m, body) == [op |-> "message", n |-> t, m |-> m, body |-> body]
Open(path, alias)   == [op |-> "open", path |-> path, alias |-> alias]
Expose(path, names) == [op |-> "expose", path |-> path, names |-> names]
Export(names)    == [op |-> "export", names |-> names]
Do(e)            == [op |-> "do", e |-> e]
Return(e)        == [op |-> "return", e |-> e]

Opens(s) == s.op \in {"open", "expose"}

Places(text, op) == {i \in DOMAIN text : text[i].op = op}

NamesOf(text, op) == {text[i].n : i \in Places(text, op)}

Distinct(s) == Cardinality(ToSet(s)) = Len(s)

(* The names a file exports, in the order of its export statements.        *)
Exported(text) ==
    FlattenSeq([i \in DOMAIN text |->
        IF text[i].op = "export" THEN text[i].names ELSE <<>>])

(* The nominal identity of a struct: the module that declares it, and its  *)
(* name there.                                                             *)
Identity(file, n) == <<file, n>>
=============================================================================
