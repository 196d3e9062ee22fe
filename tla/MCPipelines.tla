---------------------------- MODULE MCPipelines ----------------------------
(* Expressions over small integers, booleans and rows of one field, and all   *)
(* pipelines of at most two steps (and some of three) over short sources.     *)
EXTENDS Pipelines, TLC

CONSTANTS Steps, Terminals, Items   \* steps, terminals, items of lists and ranges

Plain(op) == [op |-> op, n |-> 0, e |-> None]
Num(op, n) == [op |-> op, n |-> n, e |-> None]
Exp(op, e) == [op |-> op, n |-> 0, e |-> e]

Large(n) == BoolV(n > 1)
Value == {IntV(n) : n \in 0..8} \cup {True, False} \cup {<<"Row", n>> : n \in 0..3} \cup {Bad}

\* item > 1 (of a row: its field), item + item, 4 / item
MCApply ==
  [e \in {"large", "double", "inverse"} |-> [v \in Value |->
     CASE e = "large" /\ v[1] \in {"Int", "Row"} -> Large(v[2])
       [] e = "double" /\ v[1] \in {"Int", "Row"} /\ 2 * v[2] <= MaxInt -> IntV(2 * v[2])
       [] e = "inverse" /\ v[1] = "Int" /\ v[2] # 0 -> IntV(4 \div v[2])
       [] OTHER -> Fault]]
MCExprType ==
  [e \in {"large", "double", "inverse"} |-> [t \in {"Int", "Bool", "Row", "bad"} |->
     CASE e = "large" /\ t \in {"Int", "Row"} -> "Bool"
       [] e = "double" /\ t \in {"Int", "Row"} -> "Int"
       [] e = "inverse" /\ t = "Int" -> "Int"
       [] OTHER -> "bad"]]
MCRules == << <<"large", "high">>, <<None, "low">> >>

MCSteps ==
  {Exp("where", "large"), Exp("where", "double"), Exp("derive", "large"),
   Exp("derive", "double"), Exp("derive", "inverse"), Num("take", 0), Num("take", 2),
   Num("skip", 1), Num("step_by", 2), Exp("take_while", "large"),
   Exp("drop_while", "large"), Plain("distinct"), Num("chunk", 1), Num("chunk", 2),
   Num("chunk", 4), Num("parallel", 1), Num("parallel", 2), Num("parallel", 4)}
MCTerminals == Aggregate \cup {"partition", "write_csv", "none"}
MCItems == {<<>>, <<2, 3, 2, 0>>, <<2, 1, 3, 2, 2>>}

\* Three steps: what parallel Flows do.
Flows ==
  {<<Num("parallel", 2), s, t>> :
     s \in {Num("chunk", 1), Num("chunk", 2), Exp("where", "large")},
     t \in {Exp("derive", "double"), Exp("derive", "inverse"), Exp("where", "large")}}
StepLists == {<<>>} \cup {<<s>> : s \in Steps} \cup (Steps \X Steps) \cup Flows

Ints(S) == [i \in 1..Len(S) |-> IntV(S[i])]
Sources ==
  [source : {"list"}, items : {Ints(S) : S \in Items}]
    \cup {[source |-> "range", items |-> Ints(S)] : S \in {<<>>, <<0, 1, 2, 3>>, <<3, 2, 1>>}}
    \cup {[source |-> "csv", items |-> S] :
            S \in {<<>>, << <<"Row", 2>>, <<"Row", 3>>, <<"Row", 1>>, <<"Row", 2>> >>,
                   << <<"Row", 3>>, <<"Row", 2>>, Bad, <<"Row", 2>> >>}}
MCPipeline ==
  {[source |-> s.source, items |-> s.items, steps |-> l, terminal |-> t] :
     s \in Sources, l \in StepLists, t \in Terminals}
=============================================================================
