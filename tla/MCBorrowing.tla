---------------------------- MODULE MCBorrowing ----------------------------
(* Small programs for TLC.  Each configuration takes some of the globals,     *)
(* functions and constructs below.                                            *)
EXTENDS Borrowing, TLC

\* The names, among Name, that a run uses for its references alone.
CONSTANT RefName
RefNameSymmetry == Permutations(RefName)

MCIdentity == List \cup Hash \cup Struct
MCSegment ==
  ({"Index"} \X (1..MaxList)) \cup ({"Key"} \X Key) \cup ({"Field"} \X Name)

\* l1 and l2 are lists of scalars, n1 a list of lists, h1 a hash of scalars,
\* c1 a struct whose only field, x, is a scalar.
MCSortOf ==
  [v \in {"0", "1", "l1", "l2", "n1", "h1", "c1"} |->
     CASE v \in {"0", "1"} -> "Int"
       [] v \in {"l1", "l2"} -> "List"
       [] OTHER -> v]

MCHeap ==
  [id \in MCIdentity |->
     CASE id \in {"l1", "l2"} -> <<"0">>
       [] id = "n1" -> <<"l1", "l1">>
       [] id = "h1" -> [k \in {"k"} |-> "0"]
       [] id = "c1" -> [f \in {"x"} |-> "0"]]

Global(value) == [val |-> value, mut |-> TRUE, ref |-> FALSE, excl |-> FALSE]

\* Two names for one list; a list and a hash; a list that holds one list twice and a struct.
Aliases == [n \in {"x", "y"} |-> Global("l1")]
ListAndHash == [n \in {"x", "y"} |-> Global(IF n = "x" THEN "l1" ELSE "h1")]
NestedAndCounter == [n \in {"x", "s"} |-> Global(IF n = "x" THEN "n1" ELSE "c1")]

Param(n, mut, ref, sort) == [name |-> n, mut |-> mut, ref |-> ref, sort |-> sort]
Takes(params) == [params |-> params, captures |-> <<>>, fields |-> 0]

MCSignature ==
  [f \in Function |->
     CASE f = "update" -> Takes(<<Param("x", TRUE, TRUE, "List")>>)
       [] f = "first" -> Takes(<<Param("y", FALSE, TRUE, "List")>>)
       [] f = "both" -> Takes(<<Param("x", TRUE, TRUE, "List"), Param("y", TRUE, TRUE, "List")>>)
       [] f = "tick" -> [params |-> <<Param("x", TRUE, FALSE, "Int")>>,
                         captures |-> <<>>, fields |-> 1]]
=============================================================================
