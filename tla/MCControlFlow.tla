--------------------------- MODULE MCControlFlow ---------------------------
(* Small programs for TLC: every construct around short blocks, and again     *)
(* around itself.                                                             *)
EXTENDS ControlAnalysis

Constant(type) == [op |-> "constant", type |-> type]
Declaring == <<[op |-> "declare", name |-> "x"]>>
Using == <<[op |-> "use", name |-> "x"]>>
Failing == <<[op |-> "fail", code |-> "division"]>>
Throwing == <<[op |-> "fail", code |-> "general"]>>
Breaking == <<[op |-> "break"]>>
Continuing == <<[op |-> "continue"]>>
Returning(type) == <<[op |-> "return", value |-> Constant(type)]>>

If(then, else) == <<[op |-> "if", then |-> then, else |-> else]>>
For(byRef, body) == <<[op |-> "for", byRef |-> byRef, name |-> "i", body |-> body]>>
While(body) == <<[op |-> "while", body |-> body]>>
Clause(code, binding, body) == [code |-> code, binding |-> binding, body |-> body]
Try(body, catches, finally) ==
  <<[op |-> "try", body |-> body, catches |-> catches, finally |-> finally]>>
Arm(always, guarded, body, result) ==
  [always |-> always, guarded |-> guarded, body |-> body, result |-> result]
Match(arms) == [op |-> "match", arms |-> arms]
Call(gives, body) == [op |-> "call", gives |-> gives, body |-> body]
Evaluate(value) == <<[op |-> "evaluate", value |-> value]>>
Give(value) == <<[op |-> "return", value |-> value]>>

\* Blocks of one statement, and of two.
Simple ==
  {Declaring, Using, Failing, Breaking, Continuing, Returning("Int"), Returning("String")}
Sometimes == {If(block, <<>>) : block \in {Breaking, Continuing, Returning("Int")}}
Short == {<<>>} \cup Simple \cup Sometimes \cup {Declaring \o Using}

Ends == {<<>>, Using, Breaking, Continuing, Failing, Returning("Int")}

Clauses ==
  {<<>>, <<Clause("division", None, Failing)>>, <<Clause("division", "x", Using)>>,
   <<Clause("general", "x", <<>>), Clause(None, None, Returning("Int"))>>}

\* One construct.
Ifs == {If(then, else) : then, else \in Short}
Loops == {For(byRef, body) : byRef \in BOOLEAN, body \in Short} \cup {While(body) : body \in Short}
Tries ==
  {Try(body, catches, finally) :
     body \in {Throwing, Failing, Breaking, Returning("Int"), Failing \o Returning("Int"), Declaring},
     catches \in Clauses, finally \in Ends} \ {Try(body, <<>>, <<>>) : body \in Short}
Matches ==
  {Match(<<Arm(FALSE, TRUE, body, type), Arm(TRUE, FALSE, <<>>, "Int")>>) :
     body \in Short, type \in {"Int", "String"}} \cup
  {Match(<<Arm(FALSE, FALSE, body, "Int")>>) : body \in {<<>>, Breaking}}
Calls == {Call(gives, body) : gives \in {None, "Int"}, body \in Short}

One == Ifs \cup Loops \cup Tries \cup {Evaluate(value) : value \in Matches \cup Calls}

\* A construct within others: in loops, under protection, in functions and arms
\* whose values are returned.
Around(block) ==
  {While(block \o Using), For(FALSE, block), For(TRUE, block \o Declaring),
   Try(block, <<Clause(None, "x", Using)>>, Using),
   Try(Failing, <<Clause("division", None, block)>>, <<>>),
   Try(Returning("Int"), <<>>, block),
   Evaluate(Call("Int", block)),
   Evaluate(Call("Int", While(block) \o Returning("Int"))),
   Evaluate(Call("Int", Try(block, <<Clause("division", "x", block)>>, <<>>))),
   Evaluate(Call("Int", If(block, Returning("Int")))),
   Evaluate(Call("Int", Give(Call(None, block)))),
   Evaluate(Call("Int", Give(Match(<<Arm(TRUE, FALSE, block, "Int")>>)))),
   Declaring \o block \o Using}

\* Fewer blocks, three constructs deep.
Few == {<<>>, Failing, Breaking, Returning("Int")}
Core ==
  {Try(body, catches, finally) :
     body \in {Failing, Breaking, Failing \o Returning("Int")}, catches \in {<<Clause("division", "x", Using)>>},
     finally \in {<<>>, Continuing, Returning("Int")}} \cup
  {While(body) : body \in Few} \cup {For(TRUE, body) : body \in Few} \cup
  {Evaluate(Match(<<Arm(FALSE, TRUE, body, "Int"), Arm(TRUE, FALSE, <<>>, "Int")>>)) : body \in Few} \cup
  {Evaluate(Call(gives, body)) : gives \in {None, "Int"}, body \in Few}

AroundAll(blocks) == UNION {Around(block) : block \in blocks}

MCPrograms == One \cup AroundAll(One) \cup AroundAll(AroundAll(Core))

\* The blocks of a statement, and the statements of all blocks.
Inner(s) ==
  Bodies(s) \cup
    CASE s.op \in {"evaluate", "return"} /\ s.value.op = "call" -> {s.value.body}
      [] s.op \in {"evaluate", "return"} /\ s.value.op = "match" ->
           {s.value.arms[i].body : i \in DOMAIN s.value.arms}
      [] OTHER -> {}

StatementsOf(blocks) == {s \in UNION {{b[i] : i \in DOMAIN b} : b \in blocks} : TRUE}
Below(S) == StatementsOf(UNION {Inner(s) : s \in S})

\* Blocks are at most six deep.
MCStmt ==
  LET top == StatementsOf(MCPrograms)
      one == Below(top)
      two == Below(one)
      three == Below(two)
      four == Below(three)
      five == Below(four)
  IN  {s \in top \cup one \cup two \cup three \cup four \cup five : TRUE}
=============================================================================
